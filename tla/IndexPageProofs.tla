----------------------------- MODULE IndexPageProofs -----------------------------
(***************************************************************************)
(* Proofs about IndexPage, for any names and bounds.  The hint follows from *)
(* what is heard: at most one check, about the name in the field, and only *)
(* while its page is open.  The outcome follows from the creations of the   *)
(* open page: the one under way, and none when the form does not submit.   *)
(***************************************************************************)
EXTENDS IndexPage, TLAPS

(* A page that is not open has no form, and nobody hears its checks.       *)
Closed == place # "index" => FreshForm /\ Heard = {}

(* What is heard is about the name in the field and was true since it was   *)
(* typed there; so is what the next answer will say.                       *)
HeardFits ==
  /\ \A c \in Heard :
       /\ c.visit = visit /\ c.of = Trim[slug]
       /\ c.answer \in answerable \cup {"error", "failed", None}
  /\ timer # None \/ Heard # {} => Availability(Trim[slug], live) \in answerable

(* The open page has the creation it submitted last under way, or none.    *)
Ours == {c \in creates : c.visit = visit}

Submissions ==
  /\ \A c \in creates : c.visit <= visit /\ (c.answer = "created" => c.of \in Claimable)
  /\ place = "index" =>
       /\ submitting => submitted # None /\ \A c \in Ours : c.of = submitted
       /\ ~submitting => Ours = {}
       /\ \A c, d \in Ours : c = d

IndexInv ==
  IndexTypeOK /\ Closed /\ HeardFits /\ Submissions /\ HintFits /\ OutcomeIsLasts

--------------------------------------------------------------------------------
LEMMA IndexInitInv == IndexInit => IndexInv
<1> SUFFICES ASSUME IndexInit
             PROVE  IndexInv
  OBVIOUS
<1>1. Heard = {} /\ Ours = {}
  BY DEF IndexInit, Heard, Ours
<1>2. visit \in 1..MaxVisits /\ typed \in 0..MaxTyped
  BY IndexAssumption DEF IndexInit, FreshForm
<1>3. /\ live \subseteq Claimable /\ place \in {"index", "away"} \cup Claimable
      /\ checks \subseteq Checks /\ creates \subseteq Creates
      /\ answerable \subseteq {"free", "taken", "refused"}
  BY DEF IndexInit
<1>4. /\ slug \in Texts /\ timer \in Hinted \cup {None} /\ timer = None
      /\ hint \in Hints \cup {None} /\ error \in Errors \cup {None}
      /\ submitting \in BOOLEAN /\ submitted \in Texts \cup {None}
  BY IndexAssumption DEF IndexInit, FreshForm
<1>5. IndexTypeOK
  BY <1>1, <1>2, <1>3, <1>4 DEF IndexTypeOK
<1>6. QED
  BY <1>1, <1>5 DEF IndexInit, FreshForm, IndexInv, Closed, HeardFits, Submissions,
                    HintFits, OutcomeIsLasts

(* What the server says of a name is one of three answers.                 *)
LEMMA AvailabilityType ==
  ASSUME NEW name, NEW clips
  PROVE  Availability(name, clips) \in {"free", "taken", "refused"}
  BY DEF Availability

(* The cleanup of the page that is open leaves nothing that is heard.      *)
LEMMA CleanupSilences ==
  ASSUME IndexInv, Cleanup
  PROVE  checks' \subseteq Checks /\ Heard' = {}
<1>1. ASSUME NEW c \in checks
      PROVE  /\ [c EXCEPT !.cancelled = TRUE] \in Checks
             /\ [c EXCEPT !.cancelled = TRUE].cancelled
             /\ c \in Checks
             /\ c.visit # visit => c.cancelled
  BY <1>1 DEF IndexInv, IndexTypeOK, Checks, HeardFits, Heard
<1>2. ASSUME NEW d \in checks'
      PROVE  d \in Checks /\ d.cancelled
  <2>1. PICK c \in checks : d = IF c.visit = visit THEN [c EXCEPT !.cancelled = TRUE] ELSE c
    BY DEF Cleanup
  <2>2. QED
    BY <1>1, <2>1
<1>3. QED
  BY <1>2 DEF Heard

(* Others claim names, and clips expire: what can be answered grows.       *)
LEMMA OthersKeep ==
  ASSUME IndexInv, NEW name \in Claimable, OthersClaim(name) \/ Expires(name)
  PROVE  IndexInv'
<1>1. /\ UNCHANGED <<place, visit, form, checks, creates>>
      /\ live' \subseteq Claimable
      /\ answerable' = answerable \cup {Availability(Trim[slug], live')}
  BY DEF OthersClaim, Expires, Observed, IndexInv, IndexTypeOK
<1>2. Heard' = Heard /\ Ours' = Ours
  BY <1>1 DEF Heard, Ours
<1>3. answerable' \subseteq {"free", "taken", "refused"}
  BY <1>1, AvailabilityType DEF IndexInv, IndexTypeOK
<1>4. IndexTypeOK'
  BY <1>1, <1>2, <1>3 DEF form, IndexInv, IndexTypeOK
<1>5. Closed' /\ Submissions' /\ OutcomeIsLasts'
  BY <1>1, <1>2 DEF form, IndexInv, Closed, FreshForm, Submissions, OutcomeIsLasts
<1>6. HeardFits' /\ HintFits'
  BY <1>1, <1>2 DEF form, IndexInv, HeardFits, HintFits
<1>7. QED
  BY <1>4, <1>5, <1>6 DEF IndexInv

(* A check is answered at the server.                                      *)
LEMMA CheckAnsweredKeeps ==
  ASSUME IndexInv, NEW c \in checks, CheckAnswered(c)
  PROVE  IndexInv'
<1>1. PICK a \in {Availability(c.of, live), "error", "failed"} :
        checks' = (checks \ {c}) \cup {[c EXCEPT !.answer = a]}
  BY DEF CheckAnswered
<1>2. a \in CheckAnswers
  BY AvailabilityType DEF CheckAnswers, HintTexts
<1> DEFINE d == [c EXCEPT !.answer = a]
<1>3. c \in Checks
  BY DEF IndexInv, IndexTypeOK
<1>4. /\ d \in Checks /\ d.of = c.of /\ d.visit = c.visit /\ d.answer = a
      /\ d.cancelled = c.cancelled
  BY <1>2, <1>3 DEF Checks
<1> HIDE DEF d
<1>5. UNCHANGED <<live, place, visit, form, creates, answerable>>
  BY DEF CheckAnswered
<1>6. Heard' = IF c.cancelled THEN Heard ELSE (Heard \ {c}) \cup {d}
  BY <1>1, <1>4 DEF Heard, d
<1>7. (Heard' = {} <=> Heard = {}) /\ (\A x, y \in Heard' : x = y)
  BY <1>6 DEF IndexInv, IndexTypeOK, Heard
<1>8. IndexTypeOK'
  <2>1. checks' \subseteq Checks
    BY <1>1, <1>4 DEF IndexInv, IndexTypeOK, d
  <2>2. QED
    BY <1>5, <1>7, <2>1 DEF form, IndexInv, IndexTypeOK
<1>9. Ours' = Ours
  BY <1>5 DEF Ours
<1>10. Closed' /\ Submissions' /\ OutcomeIsLasts' /\ HintFits'
  BY <1>5, <1>7, <1>9 DEF form, IndexInv, Closed, FreshForm, Submissions, OutcomeIsLasts, HintFits
<1>11. HeardFits'
  <2>1. ~c.cancelled => /\ c.visit = visit /\ c.of = Trim[slug]
                        /\ a \in answerable \cup {"error", "failed"}
    BY DEF IndexInv, HeardFits, Heard
  <2>2. \A x \in Heard' : /\ x.visit = visit /\ x.of = Trim[slug]
                          /\ x.answer \in answerable \cup {"error", "failed", None}
    BY <1>4, <1>6, <2>1 DEF IndexInv, HeardFits
  <2>3. QED
    BY <1>5, <1>7, <2>2 DEF form, IndexInv, HeardFits
<1>12. QED
  BY <1>8, <1>10, <1>11 DEF IndexInv

(* A keystroke takes back what was asked, and may set the timer.           *)
LEMMA TypeKeeps ==
  ASSUME IndexInv, NEW text \in Texts, Type(text)
  PROVE  IndexInv'
<1>1. checks' \subseteq Checks /\ Heard' = {}
  BY CleanupSilences DEF Type
<1>2. /\ UNCHANGED <<live, place, visit, error, submitting, creates, submitted>>
      /\ slug' = text /\ hint' = None /\ place = "index"
      /\ answerable' = {Availability(Trim[text], live)}
      /\ timer' = IF Trim[text] \in Hinted THEN Trim[text] ELSE None
  BY DEF Type
<1>3. typed' \in 0..MaxTyped
  BY IndexAssumption DEF Type, IndexInv, IndexTypeOK
<1>4. answerable' \subseteq {"free", "taken", "refused"}
  BY <1>2, AvailabilityType
<1>5. timer' \in Hinted \cup {None} /\ (timer' # None => timer' = Trim[slug'])
  BY <1>2
<1>6. IndexTypeOK'
  BY <1>1, <1>2, <1>3, <1>4, <1>5 DEF IndexInv, IndexTypeOK
<1>7. Ours' = Ours
  BY <1>2 DEF Ours
<1>8. Closed' /\ Submissions' /\ OutcomeIsLasts' /\ HintFits'
  BY <1>2, <1>7 DEF IndexInv, Closed, Submissions, OutcomeIsLasts, HintFits
<1>9. HeardFits'
  BY <1>1, <1>2 DEF HeardFits
<1>10. QED
  BY <1>6, <1>8, <1>9 DEF IndexInv

(* The timer becomes a check that is heard, the only one.                  *)
LEMMA TimerKeeps ==
  ASSUME IndexInv, TimerFires
  PROVE  IndexInv'
<1> DEFINE d == [of |-> timer, visit |-> visit, cancelled |-> FALSE, answer |-> None]
<1>1. timer \in Texts /\ timer = Trim[slug] /\ Heard = {} /\ visit \in Nat
  BY IndexAssumption DEF TimerFires, IndexInv, IndexTypeOK
<1>2. d \in Checks /\ d.of = timer /\ d.visit = visit /\ ~d.cancelled /\ d.answer = None
  BY <1>1 DEF Checks
<1>3. checks' = checks \cup {d}
  BY DEF TimerFires
<1> HIDE DEF d
<1>4. Heard' = {d}
  BY <1>1, <1>2, <1>3 DEF Heard
<1>5. /\ timer' = None
      /\ UNCHANGED <<live, place, visit, slug, hint, error, submitting, typed, creates,
                     submitted, answerable>>
  BY DEF TimerFires
<1>6. IndexTypeOK'
  BY <1>2, <1>3, <1>4, <1>5 DEF IndexInv, IndexTypeOK
<1>7. Ours' = Ours /\ place = "index"
  BY <1>5 DEF Ours, TimerFires, IndexInv, Closed, FreshForm
<1>8. Closed' /\ Submissions' /\ OutcomeIsLasts' /\ HintFits'
  BY <1>5, <1>7 DEF IndexInv, Closed, Submissions, OutcomeIsLasts, HintFits
<1>9. HeardFits'
  BY <1>1, <1>2, <1>4, <1>5 DEF IndexInv, HeardFits, TimerFires
<1>10. QED
  BY <1>6, <1>8, <1>9 DEF IndexInv

(* An answer is shown if the check is heard.                               *)
LEMMA CheckReturnsKeeps ==
  ASSUME IndexInv, NEW c \in checks, CheckReturns(c)
  PROVE  IndexInv'
<1>1. /\ checks' = checks \ {c} /\ c.answer # None
      /\ hint' = IF c.cancelled THEN hint ELSE HintOf(c)
      /\ UNCHANGED <<live, place, visit, slug, error, submitting, timer, typed, creates,
                     submitted, answerable>>
  BY DEF CheckReturns
<1>2. Heard' = Heard \ {c} /\ Ours' = Ours
  BY <1>1 DEF Heard, Ours
<1>3. c \in Checks /\ c.of \in Texts /\ c.answer \in CheckAnswers
  BY <1>1 DEF IndexInv, IndexTypeOK, Checks
<1>4. HintOf(c) \in Hints \cup {None}
  BY <1>3 DEF HintOf, Hints, CheckAnswers
<1>5. IndexTypeOK'
  BY <1>1, <1>2, <1>4 DEF IndexInv, IndexTypeOK
<1>6. ~c.cancelled => c \in Heard /\ place = "index"
  BY DEF IndexInv, Closed, Heard
<1>7. HintFits'
  <2>1. CASE c.cancelled
    BY <1>1, <2>1 DEF IndexInv, HintFits
  <2>2. CASE ~c.cancelled /\ c.answer = "failed"
    BY <1>1, <2>2 DEF HintOf, HintFits
  <2>3. CASE ~c.cancelled /\ c.answer # "failed"
    <3>1. hint' = [of |-> c.of, says |-> c.answer]
      BY <1>1, <2>3 DEF HintOf
    <3>2. c.of = Trim[slug] /\ c.answer \in answerable \cup {"error"}
      BY <1>1, <1>6, <2>3 DEF IndexInv, HeardFits
    <3>3. QED
      BY <1>1, <1>6, <2>3, <3>1, <3>2 DEF HintFits
  <2>4. QED
    BY <2>1, <2>2, <2>3
<1>8. Closed'
  BY <1>1, <1>2, <1>6 DEF IndexInv, Closed, FreshForm, Heard
<1>9. HeardFits' /\ Submissions' /\ OutcomeIsLasts'
  BY <1>1, <1>2 DEF IndexInv, HeardFits, Submissions, OutcomeIsLasts
<1>10. QED
  BY <1>5, <1>7, <1>8, <1>9 DEF IndexInv
(* A creation is answered: nobody else's, and no form changes.             *)
LEMMA CreateAnsweredKeeps ==
  ASSUME IndexInv, NEW c \in creates, Answered(c)
  PROVE  IndexInv'
<1>1. PICK a \in CreateAnswers : /\ creates' = (creates \ {c}) \cup {[c EXCEPT !.answer = a]}
                                 /\ a = "created" => c.of \in Claimable
  BY DEF Answered, CreateClaims, CreateLoses, CreateAnswered, CreateAnswers, ErrorTexts
<1> DEFINE d == [c EXCEPT !.answer = a]
<1>2. c \in Creates
  BY DEF IndexInv, IndexTypeOK
<1>3. d \in Creates /\ d.of = c.of /\ d.visit = c.visit /\ d.answer = a
  BY <1>2 DEF Creates
<1>4. creates' = (creates \ {c}) \cup {d}
  BY <1>1
<1> HIDE DEF d
<1>5. UNCHANGED <<place, visit, form, checks>>
  BY DEF Answered, CreateClaims, CreateLoses
<1>6. \/ UNCHANGED <<live, answerable>>
      \/ /\ live' \subseteq Claimable
         /\ answerable' = answerable \cup {Availability(Trim[slug], live')}
  BY DEF Answered, CreateClaims, CreateLoses, Observed, IndexInv, IndexTypeOK
<1>7. Heard' = Heard
  BY <1>5 DEF Heard
<1>8. Ours' = IF c.visit = visit THEN (Ours \ {c}) \cup {d} ELSE Ours
  BY <1>3, <1>4, <1>5 DEF Ours
<1>9. IndexTypeOK'
  <2>1. creates' \subseteq Creates
    BY <1>3, <1>4 DEF IndexInv, IndexTypeOK
  <2>2. live' \subseteq Claimable /\ answerable' \subseteq {"free", "taken", "refused"}
    BY <1>6, AvailabilityType DEF IndexInv, IndexTypeOK
  <2>3. QED
    BY <1>5, <1>7, <2>1, <2>2 DEF form, IndexInv, IndexTypeOK
<1>10. Closed' /\ OutcomeIsLasts'
  BY <1>5, <1>7 DEF form, IndexInv, Closed, FreshForm, OutcomeIsLasts
<1>11. HeardFits' /\ HintFits'
  <2>1. UNCHANGED <<slug, hint, timer, place, visit>>
    BY <1>5 DEF form
  <2>2. CASE UNCHANGED <<live, answerable>>
    BY <1>7, <2>1, <2>2 DEF IndexInv, HeardFits, HintFits
  <2>3. CASE answerable' = answerable \cup {Availability(Trim[slug], live')}
    BY <1>7, <2>1, <2>3 DEF IndexInv, HeardFits, HintFits
  <2>4. QED
    BY <1>6, <2>2, <2>3
<1>12. Submissions'
  <2>1. UNCHANGED <<place, visit, submitting, submitted>>
    BY <1>5 DEF form
  <2>2. \A x \in creates' : x.visit <= visit /\ (x.answer = "created" => x.of \in Claimable)
    BY <1>1, <1>3, <1>4 DEF IndexInv, Submissions
  <2>3. ASSUME place = "index"
        PROVE  /\ submitting => submitted # None /\ \A x \in Ours' : x.of = submitted
               /\ ~submitting => Ours' = {}
               /\ \A x, y \in Ours' : x = y
    <3>1. CASE c.visit = visit
      <4>1. c \in Ours
        BY <3>1 DEF Ours
      <4>2. Ours' = {d}
        BY <1>8, <2>3, <3>1, <4>1 DEF IndexInv, Submissions
      <4>3. QED
        BY <1>3, <2>3, <4>1, <4>2 DEF IndexInv, Submissions
    <3>2. CASE c.visit # visit
      BY <1>8, <2>3, <3>2 DEF IndexInv, Submissions
    <3>3. QED
      BY <3>1, <3>2
  <2>4. QED
    BY <2>1, <2>2, <2>3 DEF Submissions
<1>13. QED
  BY <1>9, <1>10, <1>11, <1>12 DEF IndexInv

(* The form submits only when none of its creations is under way.          *)
LEMMA SubmitKeeps ==
  ASSUME IndexInv, Submit
  PROVE  IndexInv'
<1> DEFINE d == [of |-> slug, visit |-> visit, answer |-> None]
<1>1. /\ place = "index" /\ ~submitting
      /\ error' = None /\ submitting' = TRUE /\ submitted' = slug
      /\ creates' = creates \cup {d}
      /\ UNCHANGED <<live, place, visit, slug, hint, timer, checks, typed, answerable>>
  BY DEF Submit, MaySubmit
<1>2. slug \in Texts /\ slug # None /\ visit \in Nat
  BY IndexAssumption DEF IndexInv, IndexTypeOK
<1>3. d \in Creates /\ d.of = slug /\ d.visit = visit /\ d.answer = None /\ None # "created"
  BY <1>2, IndexAssumption DEF Creates, CreateAnswers
<1> HIDE DEF d
<1>4. Heard' = Heard
  BY <1>1 DEF Heard
<1>5. Ours' = {d}
  BY <1>1, <1>3 DEF Ours, IndexInv, Submissions
<1>6. IndexTypeOK'
  BY <1>1, <1>2, <1>3, <1>4 DEF IndexInv, IndexTypeOK
<1>7. Closed' /\ HeardFits' /\ HintFits' /\ OutcomeIsLasts'
  BY <1>1, <1>4 DEF IndexInv, Closed, HeardFits, HintFits, OutcomeIsLasts
<1>8. Submissions'
  BY <1>1, <1>2, <1>3, <1>5 DEF IndexInv, Submissions
<1>9. QED
  BY <1>6, <1>7, <1>8 DEF IndexInv

(* A page that is unmounted keeps the invariant, wherever the user goes,    *)
(* if no creation is lost but one that ended.                              *)
LEMMA UnmountedKeeps ==
  ASSUME IndexInv, NEW to \in {"away"} \cup Claimable, Unmounted(to),
         UNCHANGED <<live, visit>>, creates' \subseteq creates
  PROVE  IndexInv'
<1>1. checks' \subseteq Checks /\ Heard' = {}
  BY CleanupSilences DEF Unmounted
<1>2. /\ place' = to /\ place' # "index"
      /\ slug' = Empty /\ hint' = None /\ error' = None /\ submitting' = FALSE
      /\ timer' = None /\ typed' = 0 /\ submitted' = None /\ answerable' = {}
  BY IndexAssumption DEF Unmounted
<1>3. IndexTypeOK'
  <2>1. typed' \in 0..MaxTyped /\ slug' \in Texts
    BY <1>2, IndexAssumption
  <2>2. QED
    BY <1>1, <1>2, <2>1 DEF IndexInv, IndexTypeOK
<1>4. Closed' /\ HeardFits' /\ HintFits' /\ OutcomeIsLasts'
  BY <1>1, <1>2 DEF Closed, FreshForm, HeardFits, HintFits, OutcomeIsLasts
<1>5. Submissions'
  BY <1>2 DEF IndexInv, Submissions
<1>6. QED
  BY <1>3, <1>4, <1>5 DEF IndexInv

(* A creation that succeeded takes the user to its clip.                   *)
LEMMA CreateSucceedsKeeps ==
  ASSUME IndexInv, NEW c \in creates, CreateSucceeds(c)
  PROVE  IndexInv'
<1>1. /\ c.answer = "created" /\ creates' = creates \ {c} /\ UNCHANGED <<live, visit>>
      /\ c.of \in Claimable
  BY DEF CreateSucceeds, IndexInv, Submissions
<1>2. CASE place = "index"
  BY <1>1, <1>2, UnmountedKeeps DEF CreateSucceeds
<1>3. CASE place # "index"
  <2>1. place' = c.of /\ UNCHANGED <<form, checks, answerable>> /\ c.of # "index"
    BY <1>1, <1>3, IndexAssumption DEF CreateSucceeds
  <2>2. Heard' = Heard
    BY <2>1 DEF Heard
  <2>3. IndexTypeOK'
    BY <1>1, <2>1, <2>2 DEF form, IndexInv, IndexTypeOK
  <2>4. Closed' /\ HeardFits' /\ HintFits' /\ OutcomeIsLasts'
    BY <1>1, <1>3, <2>1, <2>2
       DEF form, IndexInv, Closed, FreshForm, HeardFits, HintFits, OutcomeIsLasts
  <2>5. Submissions'
    BY <1>1, <2>1 DEF IndexInv, Submissions
  <2>6. QED
    BY <2>3, <2>4, <2>5 DEF IndexInv
<1>4. QED
  BY <1>2, <1>3

(* A failure is shown by the page it was submitted on, if that is open.     *)
LEMMA CreateFailsKeeps ==
  ASSUME IndexInv, NEW c \in creates, CreateFails(c)
  PROVE  IndexInv'
<1>1. /\ c.answer \in ErrorTexts /\ creates' = creates \ {c}
      /\ error' = IF place = "index" /\ c.visit = visit THEN ErrorOf(c) ELSE error
      /\ submitting' = IF c.visit = visit THEN FALSE ELSE submitting
      /\ UNCHANGED <<live, place, visit, slug, hint, timer, checks, typed, submitted, answerable>>
  BY DEF CreateFails, SubmittingAfter
<1>2. ErrorOf(c) \in Errors /\ ErrorOf(c).of = c.of /\ ErrorOf(c) # None
  <2>1. c.of \in Texts
    BY DEF IndexInv, IndexTypeOK, Creates
  <2>2. ErrorOf(c) \in Errors /\ ErrorOf(c).of = c.of
    BY <1>1, <2>1 DEF ErrorOf, Errors
  <2>3. QED
    BY <2>2, IndexAssumption
<1>3. Heard' = Heard /\ Ours' = Ours \ {c}
  BY <1>1 DEF Heard, Ours
<1>4. IndexTypeOK'
  BY <1>1, <1>2, <1>3 DEF IndexInv, IndexTypeOK
<1>5. Closed' /\ HeardFits' /\ HintFits'
  BY <1>1, <1>3 DEF IndexInv, Closed, FreshForm, HeardFits, HintFits
<1>6. ASSUME place = "index" PROVE c.visit = visit => submitting /\ c.of = submitted /\ Ours' = {}
  BY <1>3, <1>6 DEF IndexInv, Submissions, Ours
<1>7. Submissions' /\ OutcomeIsLasts'
  <2>1. CASE place = "index" /\ c.visit = visit
    BY <1>1, <1>2, <1>3, <1>6, <2>1 DEF IndexInv, Submissions, OutcomeIsLasts
  <2>2. CASE ~(place = "index" /\ c.visit = visit)
    BY <1>1, <1>3, <2>2 DEF IndexInv, Submissions, OutcomeIsLasts
  <2>3. QED
    BY <2>1, <2>2
<1>8. QED
  BY <1>4, <1>5, <1>7 DEF IndexInv

(* A new visit has no creations: all there are belong to earlier ones.     *)
LEMMA OpenKeeps ==
  ASSUME IndexInv, Open
  PROVE  IndexInv'
<1>1. /\ place # "index" /\ place' = "index" /\ visit' = visit + 1 /\ visit < MaxVisits
      /\ UNCHANGED <<live, form, checks, creates, answerable>>
  BY DEF Open
<1>2. FreshForm /\ Heard = {} /\ Heard' = {}
  BY <1>1 DEF IndexInv, Closed, Heard
<1>3. visit \in Nat /\ visit' \in 1..MaxVisits
  BY <1>1, IndexAssumption DEF IndexInv, IndexTypeOK
<1>4. Ours' = {}
  <2>1. \A c \in creates : c.visit <= visit /\ c.visit \in Nat
    BY DEF IndexInv, IndexTypeOK, Submissions, Creates
  <2>2. QED
    BY <1>1, <1>3, <2>1 DEF Ours
<1>5. IndexTypeOK'
  BY <1>1, <1>2, <1>3 DEF form, IndexInv, IndexTypeOK
<1>6. Closed' /\ HeardFits' /\ HintFits' /\ OutcomeIsLasts'
  BY <1>1, <1>2 DEF form, FreshForm, Closed, HeardFits, HintFits, OutcomeIsLasts
<1>7. Submissions'
  <2>1. \A c \in creates : c.visit <= visit' /\ (c.answer = "created" => c.of \in Claimable)
    BY <1>1, <1>3 DEF IndexInv, IndexTypeOK, Submissions, Creates
  <2>2. QED
    BY <1>1, <1>2, <1>4, <2>1 DEF form, FreshForm, Submissions
<1>8. QED
  BY <1>5, <1>6, <1>7 DEF IndexInv

LEMMA IndexStep == IndexInv /\ [IndexNext]_indexVars => IndexInv'
<1> SUFFICES ASSUME IndexInv, [IndexNext]_indexVars
             PROVE  IndexInv'
  OBVIOUS
<1>1. CASE \E name \in Claimable : OthersClaim(name) \/ Expires(name)
  BY <1>1, OthersKeep
<1>2. CASE \E text \in Texts : Type(text)
  BY <1>2, TypeKeeps
<1>3. CASE \E c \in checks : CheckAnswered(c) \/ CheckReturns(c)
  BY <1>3, CheckAnsweredKeeps, CheckReturnsKeeps
<1>4. CASE \E c \in creates : Answered(c) \/ Returns(c)
  BY <1>4, CreateAnsweredKeeps, CreateSucceedsKeeps, CreateFailsKeeps DEF Returns
<1>5. CASE TimerFires \/ Submit \/ Open
  BY <1>5, TimerKeeps, SubmitKeeps, OpenKeeps
<1>6. CASE Leave
  BY <1>6, UnmountedKeeps DEF Leave
<1>7. CASE UNCHANGED indexVars
  <2>1. UNCHANGED <<live, place, visit, form, checks, creates, answerable>>
    BY <1>7 DEF indexVars
  <2>2. Heard' = Heard /\ Ours' = Ours
    BY <2>1 DEF Heard, Ours
  <2>3. IndexTypeOK' /\ Closed'
    BY <2>1, <2>2 DEF form, IndexInv, IndexTypeOK, Closed, FreshForm
  <2>4. HeardFits' /\ Submissions' /\ HintFits' /\ OutcomeIsLasts'
    BY <2>1, <2>2 DEF form, IndexInv, HeardFits, Submissions, HintFits, OutcomeIsLasts
  <2>5. QED
    BY <2>3, <2>4 DEF IndexInv
<1>8. QED
  BY <1>1, <1>2, <1>3, <1>4, <1>5, <1>6, <1>7 DEF IndexNext

(* The invariant of the create page, by induction over its steps.          *)
THEOREM IndexInvariance == IndexSpec => []IndexInv
<1>1. QED
  BY IndexInitInv, IndexStep, PTL DEF IndexSpec

(* One check at most is heard, and it is about the name in the field; the   *)
(* rest of the page's state has its types (the hint effect's cleanup).     *)
THEOREM IndexTypeCorrect == IndexSpec => []IndexTypeOK
<1>1. IndexInv => IndexTypeOK
  BY DEF IndexInv
<1>2. QED
  BY <1>1, IndexInvariance, PTL

(* The hint is about the name in the field, and was true since it was       *)
(* typed, whatever answers come when (the hint effect).                    *)
THEOREM HintIsCurrent == IndexSpec => []HintFits
<1>1. IndexInv => HintFits
  BY DEF IndexInv
<1>2. QED
  BY <1>1, IndexInvariance, PTL

(* What the form says is about the creation submitted last (handleSubmit).  *)
THEOREM OutcomeIsOfTheLast == IndexSpec => []OutcomeIsLasts
<1>1. IndexInv => OutcomeIsLasts
  BY DEF IndexInv
<1>2. QED
  BY <1>1, IndexInvariance, PTL
================================================================================
