------------------------------- MODULE IndexPage -------------------------------
(***************************************************************************)
(* The create page of the web client, web/src/routes/index.tsx: the hint    *)
(* about the name in the field, and the creations this tab has under way.   *)
(* React flushes what a keystroke or a submit sets, effects included,       *)
(* before the next event, so that each is one step; answers are steps of    *)
(* their own.  The page may be left and opened again, as a new instance,    *)
(* while checks and creations of the old one are under way.                 *)
(***************************************************************************)
EXTENDS Naturals, FiniteSets

CONSTANTS
  Texts,       \* what the field may hold, the empty text among them
  Empty,
  Trim,        \* the name that is left of each text without its blanks
  Hinted,      \* the names of three characters or more
  Claimable,   \* the names that the server accepts
  MaxTyped,    \* BOUND: keystrokes in one visit
  MaxVisits,   \* BOUND: times the page is opened
  MaxChecks,   \* BOUND: calls of checkAvailability under way
  None

HintTexts     == {"free", "taken", "refused", "error"}
ErrorTexts    == {"in_use", "refused", "failed"}
CheckAnswers  == HintTexts \cup {"failed"}
CreateAnswers == ErrorTexts \cup {"created"}

Hints   == [of : Texts, says : HintTexts]
Errors  == [of : Texts, says : ErrorTexts]
Checks  == [of : Texts, visit : Nat, cancelled : BOOLEAN, answer : CheckAnswers \cup {None}]
Creates == [of : Texts, visit : Nat, answer : CreateAnswers \cup {None}]

ASSUME IndexAssumption ==
  /\ Empty \in Texts
  /\ Trim \in [Texts -> Texts] /\ \A t \in Texts : Trim[Trim[t]] = Trim[t]
  /\ Hinted \subseteq Texts /\ Claimable \subseteq {t \in Texts : Trim[t] = t}
  /\ Empty \notin Hinted \cup Claimable
  /\ {"index", "away"} \cap Texts = {}
  /\ MaxTyped \in Nat /\ MaxVisits \in Nat \ {0} /\ MaxChecks \in Nat
  /\ None \notin Texts \cup Hints \cup Errors /\ None \notin CheckAnswers \cup CreateAnswers

VARIABLES
  live,        \* the names with a live clip, of anybody
  place,       \* "index", "away", or the name of the clip that is read
  visit,       \* which time the page is open, or was last
  slug,        \* what the field holds
  hint,        \* availabilityHint, with the name it is about
  error,       \* with the text whose creation failed
  submitting,
  timer,       \* the name the 400 ms run for, or None
  checks,      \* calls of checkAvailability that have not returned
  creates,     \* calls of createClip that have not returned
  typed,       \* keystrokes of this visit
  submitted,   \* history: the text last submitted in this visit, or None
  answerable   \* history: the answers a check of this name could get since
               \* it was typed

form      == <<slug, hint, error, submitting, timer, typed, submitted>>
indexVars == <<live, place, visit, form, checks, creates, answerable>>

FreshForm ==
  /\ slug = Empty /\ hint = None /\ error = None /\ submitting = FALSE
  /\ timer = None /\ typed = 0 /\ submitted = None

IndexInit ==
  /\ live \in SUBSET Claimable
  /\ place = "index" /\ visit = 1
  /\ FreshForm
  /\ checks = {} /\ creates = {} /\ answerable = {}

--------------------------------------------------------------------------------
(* The server. *)

(* Whether a name can be claimed, as the hint says it.                     *)
Availability(name, clips) ==
  IF name \notin Claimable THEN "refused" ELSE IF name \in clips THEN "taken" ELSE "free"

(* What was true of the field's name goes on in the history.               *)
Observed == answerable' = answerable \cup {Availability(Trim[slug], live')}

(* Others claim names, and clips expire.                                   *)
OthersClaim(name) ==
  /\ name \notin live /\ live' = live \cup {name}
  /\ Observed
  /\ UNCHANGED <<place, visit, form, checks, creates>>

Expires(name) ==
  /\ name \in live /\ live' = live \ {name}
  /\ Observed
  /\ UNCHANGED <<place, visit, form, checks, creates>>

CheckAnswered(c) ==
  /\ c.answer = None
  /\ \E a \in {Availability(c.of, live), "error", "failed"} :
       checks' = (checks \ {c}) \cup {[c EXCEPT !.answer = a]}
  /\ UNCHANGED <<live, place, visit, form, creates, answerable>>

CreateAnswered(c, answer) == creates' = (creates \ {c}) \cup {[c EXCEPT !.answer = answer]}

CreateClaims(c) ==
  /\ c.answer = None /\ c.of \in Claimable \ live
  /\ live' = live \cup {c.of}
  /\ \E a \in {"created", "failed"} : CreateAnswered(c, a)
  /\ Observed
  /\ UNCHANGED <<place, visit, form, checks>>

CreateLoses(c) ==
  /\ c.answer = None
  /\ \E a \in {IF c.of \in Claimable THEN "in_use" ELSE "refused", "failed"} :
       /\ a = "in_use" => c.of \in live
       /\ CreateAnswered(c, a)
  /\ UNCHANGED <<live, place, visit, form, checks, answerable>>

--------------------------------------------------------------------------------
(* The field and its hint. *)

(* Mutant: what was asked for the text before is still heard.              *)
CleanupForgets == UNCHANGED checks

(* The cleanup of the hint effect, for the checks of this instance.        *)
Cleanup ==
  checks' = {IF c.visit = visit THEN [c EXCEPT !.cancelled = TRUE] ELSE c : c \in checks}

Type(text) ==
  /\ place = "index" /\ typed < MaxTyped /\ text # slug
  /\ slug' = text /\ typed' = typed + 1
  /\ hint' = None
  /\ timer' = IF Trim[text] \in Hinted THEN Trim[text] ELSE None
  /\ Cleanup
  /\ answerable' = {Availability(Trim[text], live)}
  /\ UNCHANGED <<live, place, visit, error, submitting, creates, submitted>>

TimerFires ==
  /\ timer # None /\ Cardinality(checks) < MaxChecks
  /\ timer' = None
  /\ checks' = checks \cup {[of |-> timer, visit |-> visit, cancelled |-> FALSE, answer |-> None]}
  /\ UNCHANGED <<live, place, visit, slug, hint, error, submitting, typed, creates, submitted,
                 answerable>>

(* An error of the API is shown as the hint; a failed call is not.         *)
HintOf(c) == IF c.answer = "failed" THEN None ELSE [of |-> c.of, says |-> c.answer]

CheckReturns(c) ==
  /\ c.answer # None
  /\ checks' = checks \ {c}
  /\ hint' = IF c.cancelled THEN hint ELSE HintOf(c)
  /\ UNCHANGED <<live, place, visit, slug, error, submitting, timer, typed, creates, submitted,
                 answerable>>

--------------------------------------------------------------------------------
(* The submit and where it leads. *)

(* Mutant: the button stays enabled.                                       *)
MaySubmitAlways == place = "index" /\ slug # Empty

(* The field is required, and the button disabled while it submits.        *)
MaySubmit == place = "index" /\ slug # Empty /\ ~submitting

Submit ==
  /\ MaySubmit
  /\ error' = None /\ submitting' = TRUE /\ submitted' = slug
  /\ creates' = creates \cup {[of |-> slug, visit |-> visit, answer |-> None]}
  /\ UNCHANGED <<live, place, visit, slug, hint, timer, checks, typed, answerable>>

(* The page is unmounted: its state is gone, its effect cleaned up.        *)
Unmounted(to) ==
  /\ place' = to
  /\ slug' = Empty /\ hint' = None /\ error' = None /\ submitting' = FALSE
  /\ timer' = None /\ typed' = 0 /\ submitted' = None /\ answerable' = {}
  /\ Cleanup

(* navigate is called wherever the user is by now.                         *)
CreateSucceeds(c) ==
  /\ c.answer = "created"
  /\ creates' = creates \ {c}
  /\ IF place = "index" THEN Unmounted(c.of)
     ELSE place' = c.of /\ UNCHANGED <<form, checks, answerable>>
  /\ UNCHANGED <<live, visit>>

(* Mutant: the button is enabled again by a success only.                  *)
SubmittingKept(c) == submitting

(* What `finally` leaves, for the instance that is mounted.                *)
SubmittingAfter(c) == IF c.visit = visit THEN FALSE ELSE submitting

(* Mutant: only what the API says is shown.                                *)
ErrorOfApi(c) == IF c.answer = "failed" THEN None ELSE [of |-> c.of, says |-> c.answer]

ErrorOf(c) == [of |-> c.of, says |-> c.answer]

(* An error set by an instance that was left is lost.                      *)
CreateFails(c) ==
  /\ c.answer \in ErrorTexts
  /\ creates' = creates \ {c}
  /\ error' = IF place = "index" /\ c.visit = visit THEN ErrorOf(c) ELSE error
  /\ submitting' = SubmittingAfter(c)
  /\ UNCHANGED <<live, place, visit, slug, hint, timer, checks, typed, submitted, answerable>>

Leave ==
  /\ place = "index" /\ Unmounted("away")
  /\ UNCHANGED <<live, visit, creates>>

Open ==
  /\ place # "index" /\ visit < MaxVisits
  /\ place' = "index" /\ visit' = visit + 1
  /\ UNCHANGED <<live, form, checks, creates, answerable>>

--------------------------------------------------------------------------------
Answered(c) == CreateClaims(c) \/ CreateLoses(c)
Returns(c)  == CreateSucceeds(c) \/ CreateFails(c)

IndexNext ==
  \/ \E name \in Claimable : OthersClaim(name) \/ Expires(name)
  \/ \E text \in Texts : Type(text)
  \/ \E c \in checks : CheckAnswered(c) \/ CheckReturns(c)
  \/ \E c \in creates : Answered(c) \/ Returns(c)
  \/ TimerFires \/ Submit \/ Leave \/ Open

IndexSpec == IndexInit /\ [][IndexNext]_indexVars

(* Requests end, with an answer or an error, and answers are handled.      *)
FairIndex ==
  IndexSpec /\ WF_indexVars(\E c \in creates : Answered(c) \/ Returns(c))

--------------------------------------------------------------------------------
(* The types; and the field's name has a timer, a check that is heard, or   *)
(* neither, never both, and never one for another name (the hint effect).   *)
Heard == {c \in checks : ~c.cancelled}

IndexTypeOK ==
  /\ live \subseteq Claimable
  /\ place \in {"index", "away"} \cup Claimable
  /\ visit \in 1..MaxVisits
  /\ slug \in Texts /\ timer \in Hinted \cup {None}
  /\ hint \in Hints \cup {None} /\ error \in Errors \cup {None}
  /\ submitting \in BOOLEAN /\ typed \in 0..MaxTyped /\ submitted \in Texts \cup {None}
  /\ checks \subseteq Checks /\ creates \subseteq Creates
  /\ answerable \subseteq {"free", "taken", "refused"}
  /\ \A c, d \in Heard : c = d
  /\ timer # None => Heard = {} /\ timer = Trim[slug]

(* The hint is about the name that is in the field, and unless it is an      *)
(* error it was true at an instant since that name was typed there, however *)
(* the answers to names typed before come in (the hint effect and its       *)
(* cancelled flag).                                                        *)
HintFits ==
  hint # None =>
    place = "index" /\ hint.of = Trim[slug] /\ hint.says \in answerable \cup {"error"}

(* What the form says of a creation is about the one submitted last in this *)
(* visit: an error once it is over, none while it is under way, and never   *)
(* nothing (handleSubmit).                                                 *)
OutcomeIsLasts ==
  place = "index" /\ submitted # None =>
    IF submitting THEN error = None
    ELSE error # None /\ error.of = submitted

(* A page that stays open does not submit for ever.                        *)
SubmitEnds == submitting ~> ~submitting
================================================================================
