# go-clipboard in TLA+

go-clipboard stores text clips under short names: a client creates a clip
under a free slug, anybody who knows the slug reads it, and when its lifetime
is over the clip is gone and the slug is free again. One Go server answers a
JSON API and serves an embedded single-page application; PostgreSQL holds the
one table that matters; a shell script on the host releases new images.

This directory specifies the parts of it whose correctness depends on order:
of statements, of answers, of goroutines, of commands on a host. Everything is
TLA+, checked with TLC on small instances and, where said so, proved with TLAPS
for every value of the constants. `PROJECT.json` maps each definition to the
lines it stands for.

    tlc -workers 2 -config MCClips.cfg ClipsHistory     # a run
    tlapm ClipsProofs.tla                                # a proof

## The system

| component | state | operations | specified in |
|---|---|---|---|
| clip service and store (`internal/clips`, `internal/db`, `internal/httpapi/clips.go`) | the table `clips`; per request its stamped lease and its statement | create, read, availability | `Clips` |
| sweeper (`internal/sweeper`) | nothing but a running DELETE | delete expired rows at every tick | `Clips`, `Server` |
| rate limiter (`internal/ratelimit`, `internal/httpapi/ratelimit.go`) | a map of keys to counts and window starts, under a mutex | `Allow`, and the header of a refusal | `RateLimiter` |
| server process (`cmd/server/main.go`) | contexts, listener, pool, goroutines | load, ping, check the migrations, wire; listen, drain, join the sweeper, release, exit | `Server` |
| configuration (`internal/config`) | none: the environment is read once | default, bound or refuse each variable | `Config` |
| migrate command, backup and restore (`internal/migrate`, `db/migrations`, `deploy/backup.sh`, `restore.sh`) | the schema, goose's version table, the dumps here and elsewhere | up, down, dump, copy, prune, restore | `Schema` |
| release pipeline (`deploy/deploy.sh`, the deploy job of `ci.yml`) | the lock file, `deployed-sha`, containers, the schema | compare, migrate, gate, swap, record | `Deploy` |
| read page (`web/src/routes/$slug.tsx`, `web/src/lib/api.ts`) | React state, effects, reads in flight, an interval, a clock skew | load, count down, take away | `SlugPage` |
| create page (`web/src/routes/index.tsx`) | form fields, a debounced hint, checks and creations in flight | type, check, submit, navigate | `IndexPage` |
| health endpoint (`internal/httpapi/health.go`, `internal/database`, `internal/migrate`) and status page | the answer under construction; the page's load state | probe, ask for migrations, version and time, answer | `Health`; its verdict in `Deploy` |
| routing, host check, panic recovery, frontend files, client address (`internal/httpapi`) | the mux, filled once | classify a request, key it, ask the limiter | `Routes`, `HttpFront` |
| slug rules (`internal/slug`) | none | claimable, reserved or malformed | `Clips` |
| generated code, the store double of the unit tests, the smoke test | none of the running system's | | not modelled, see the end |

They interact through few things. Handlers and sweepers meet in the table and
nowhere else: there is no lock in the service, every operation is one SQL
statement, and correctness is a matter of the WHERE clauses and of two clocks
(the application stamps a lease, the database judges it). Handlers and the
sweeper also meet in the connection pool, which the main goroutine closes last.
The limiter stands before the handlers and knows nothing of them. A release
starts whole servers next to the one that serves, with sweepers of their own on
the same table, and asks them for their health. The read page knows the server
only through the answers of its reads, each with an expiry and the server's time.

What is hard about it, and which property speaks about it, is the list of
`hazards` in `PROJECT.json`: rival statements on one row, a sweep whose scan is
stale, clocks that differ, answers of two slugs in the wrong order, effects that
see an older render's state, timeouts that race what they bound, a release that
dies between two commands, a health check whose four queries see four databases, two
migrate processes that plan by a table the other is changing, a migration that its killed
process still has under way, a restore that goes on after an error.

## Modules

### NameLease and Clips: the pool of names

`NameLease` is what the clipboard promises: a name is free or held under one
lease, is granted only when free, for at most a ceiling, and only time ends a
lease. It knows no table, no request and no sweeper.

`Clips` is the code. Each client has one request, a goroutine that goes
through the handler, the service and the store: `CreateRefused`,
`CreateStamped`, `ClaimBegins`, `ClaimEnds` for a create, `ReadBegins`,
`ReadEnds` for a read, `CheckBegins`, `CheckEnds` for the availability hint,
`Respond` at last. A statement is two steps because PostgreSQL fixes `now()`
when it begins and applies the statement, after any wait, to the rows as they
are then; `Swept` is the re-check of the WHERE that a row lock brings about in
READ COMMITTED. `ClaimFails` is the failure of which nobody knows whether it came
before or after the effect; `ClientGone` and `Crash` leave an orphaned statement
behind that takes effect or does not. `Sweepers` may be several: the candidate
and the previous-image containers of a release sweep the same table. The two
clocks, `dbClock` and `appClock`, may be `MaxSkew` apart.

The refinement mapping is `Pool`: a name is held by the row that is live by the
database's clock, an expired row and no row are the same, and the ceiling is the
longest preset plus the skew.

`ClipsHistory` adds when each waiting client asked (`asked`) and what it could have
seen since under its name (`seen`), so that an answer can be called honest: it fits
some instant of the wait. It is the linearizability of single-name operations, said
without enumerating histories. A create may be kept waiting at the database until its
own lease has run out; the clip is then dead before it is stored, and "created" fits no
instant at which it was readable. `ClaimHonest` says so instead of assuming such waits
away, and `SeenBy` counts the lease of such a row as seen by whoever asked while it
still had time: its statement may have read `now()` before the lease ran out. An answer is a promise beyond its instant as
well: as long as the clip it carries lives, that clip is what is stored under the name
(`StillThere`), and no two clients that were told "created" own one name (`Owns`).

### RateLimiter, RateLimiterHistory and HttpFront

`Allow` holds a mutex from its reading of the clock to its return, so a call is
one step: `AdmitNew`, `AdmitAgain`, `AdmitCounted` or `Refuse`. `makeRoom` walks
a Go map, whose order is open: any of the oldest entries may be the victim. The
clock is in ticks finer than a second because `RetryAfter` and the header
differ in just that: the header truncates the wait, so a client that obeys it may
come up to a second too early (the second half of `WaitSuffices`). `Restart` empties
the map. `RateLimiterHistory` keeps, for each key since its entry was last inserted, the
sequence of its admissions, each with its time and the window it was counted in.

`Routes` is the mux of `http.ServeMux` as `NewServer` fills it: each route with its
method, each path again without one, two fallbacks, and the most specific pattern
wins. A path is named by the pattern that describes it. `HttpFront` composes the
limiter with what the server decides around a handler, in the code's order:
`Misdirected` is the host check, which only a server with a `PUBLIC_BASE_URL` has
(`Public`), `Recovered` the panic recovery, `Routed` the mux with `spaFileServer` behind
it, `ClientIP` the key. `CreateDirect` is a creation that reaches the server
without the proxy, with whatever `X-Forwarded-For` its client made up;
`CreateProxied` one that came through it, whose header the proxy has written
(`Caddyfile`). A peer or an entry that does not parse is `Junk`. `TRUSTED_PROXY` is
taken to be set to the proxy's address. Every decision of the front is a step of the
limiter or leaves it alone, so `FrontSpec` implements `LimiterSpec`.

### Server

One process from its environment to its exit. `Load` is `config.LoadFromEnv` over any
of the `Environments`; what it refuses, what it defaults and what the rest of the
program needs of it (`Usable`) is `Config`. Making the pool connects to nothing; the ping
and the check of the migrations are each a wait, either outcome of which is logged and
no more, and neither has a deadline: a server that is started while its database hangs
does not listen until the database answers or refuses, where
openspec/specs/persistence/spec.md:23 wants a failed verification not to keep it from
starting. `Wire` registers the routes (`mux`) and starts the two goroutines. No signal
is caught before that.

From then on the main goroutine goes through the select of `waitAndShutdown`,
`Shutdown`, `waitSweeper` and the deferred calls of `runServe` in their order; the two
ten-second timeouts are actions that may come at any moment of the waits they bound.
Handlers and the sweeper acquire a connection, use it and give it back; `pool.Close`
waits until all are back. `http.Server`, the pool's own queue and the operating system
are external and modelled by how `main.go` uses them. Each request makes one statement
here, which is what the clip handlers do; the health handler makes up to four (`Health`),
and nothing said of shutting down depends on how many.

### Deploy

The deploy job reads `deployed-sha` over ssh (`StartJob`) and starts the script;
an operator may start it by hand with one or two arguments (`StartByHand`).
The script takes the lock or is refused, compares, migrates, runs the previous
image and then the candidate until `/api/health` is well, swaps, and records. A
run may die between any two commands and fail at each that can fail; one that dies while
it records may leave `deployed-sha` empty (`Blank`), which a job reads as nothing and a
script that expects something refuses.
An image is a number, a later commit a larger one; the migrations it carries are
`Need`, and `Healthy` is what the health endpoint answers: the image runs and
none of its migrations is pending. Which of the waiting jobs the concurrency group
starts next, and that an old one is run again, is left open.

### SlugPage

React's cycle around the two effects of the page. `state` is what `setState` was
last called with, `shown` what the last render committed, `effects` what that
render still owes: a closure sees `shown`, never `state`. Answers and ticks may
come between a render and its effects. `RunEffects` is the cleanups and the
effects in the order React runs them, the load first, the tick second, with the
state updates of both; `DeliverClip` and `DeliverError` are the `then` and the
`catch` of `readClip`; `Tick` the interval's. The browser's clock is the server's
plus a constant offset of any size. An answer is stamped by the server and may be
under way for `MaxDelay`. External: the router changes the slug of a mounted page
once per render; no request is so fast that its answer overtakes the render that
sent it (`~Busy` in `Query` and `ReadFails`).

### IndexPage

React flushes a keystroke or a submit with its effects before the next event, so
`Type` and `Submit` are one step each, unlike the asynchronous updates of `SlugPage`.
`Type` is the hint effect with its cleanup: the checks of this instance are
cancelled, the timer is set anew for the trimmed name if it has three characters.
`TimerFires` sends the check; `CheckReturns` is its `then` and `catch`. `Submit`,
`CreateSucceeds` and `CreateFails` are `handleSubmit` before and after its awaits.
`Leave` and `Open` end an instance and begin another while calls of the old one are
under way: its checks are cancelled, its creations are not, and their `navigate`
takes the user along from wherever he is by then. Names are claimed by others and
expire meanwhile (`OthersClaim`, `Expires`). The history `answerable` is what was true
of the field's name since it was typed.

### Health

`buildHealthResponse` asks the database four times: the ping, `HasPending`,
`GetDBVersion`, `SELECT now()`. Each is a step, with a failure of its own, and between
any two the database may go (`down`), hang, come back, or be migrated by another
process. `runner` says whether the server could build its migration
runner when it started; without one nothing is asked about migrations and the check is
degraded. Only the ping has a timeout; the context of the request is the only
other end of a query. Each answer is read by the gate of a release or by the status
page; the page may be closed meanwhile, the gate may give up. `seen` and `erred`
record what the database was, and which readings failed, since the check began.

### Schema

The database is what the three migrations make of it: the clips table, its autovacuum
settings, and goose's version table with the ids of each version's rows. `Up` and `Down`
read the version table and plan by it. A migration is a READ COMMITTED transaction:
`Change` is its section, `Record` the INSERT or DELETE of the version's row, `Commit` its
end. Each meets what others have committed by then. What keeps two of them apart is the
lock on the table alone, and there is none where the section finds no table to lock
(`Locks`: `DROP TABLE IF EXISTS`). `Ends` is the process that is done, has failed, or is
killed between two transactions. `Killed` is a kill, or a lost connection, within one:
the session stays at the database with its lock until the database ends it, and if its
COMMIT has been sent it may still be carried out, after the next process has planned.

Nothing keeps two such processes apart: there is no lock of goose's, which the repository
documents as resting on a single instance (docs/overview.md:107,
openspec/specs/production-runtime/spec.md:48). So `doubt` records what the database went
through: `"ups"` when processes ran together, or beside a session left behind, all of them
up; `"overlap"` when one was a down; `"restore"` when a restore was not whole or met a
database that was not empty or not left alone. `SchemaRecorded` says nothing of the last
two, because nothing holds there. Of two downs beside an up: both downs plan version 2; the
first drops the table and its row; a new up begins, the second down's DROP finds
no table and takes no lock; the up commits table and row; the DELETE that follows sees
the new row and removes it, and there is a table without a row. How goose (v3.27.3) plans,
numbers its rows and picks the version of a `down` is external and taken from how
`internal/migrate` drives it.

`backup.sh` is `BackupBegins` to `Prune`: the dump is written to its final name at once,
so that a failing `pg_dump` or a kill leaves a part of one there; `set -euo pipefail` ends
the script before the copy, and the age of the files, not their number, decides what is
pruned. `Restored` pipes a dump into `psql`, which goes on after an error and exits 0: a
table that exists stays, and the rows of a version table that exists collide with its
own. Over any database but an empty one "restore complete" may thus leave an old version
table with a new schema, or the reverse, which is why `SchemaRecorded` excludes it. A
restore that breaks off stops at any of its stages (`RestoreFails`); one of them has the
version table without its rows (`"bare"`), which goose refuses to work with. A whole
restore is one step: whatever else meets the database half way puts it in doubt.

## Runs

| run | module, cfg | result | what it shows |
|---|---|---|---|
| `clips` | `ClipsHistory`, `MCClips.cfg` | pass | two clients, a sweeper, a name and a reserved one, a body too large and a lifetime not on offer: a live clip is never touched, the service implements `NameLease`, each answer fits an instant of its wait, every expired row goes in the end |
| `limiter_bounds` | `MCHttpFront` | pass | senders of three keys, direct and proxied, with forged headers, compete for two places: the cap, the limit, the wait, the choice of the victim, and that each spends its own requests only |
| `server_shutdown` | `MCServer` | pass | every environment is refused or usable, the routes are kept apart, a clean shutdown loses nobody, the sweeper stops when told, and the process gets somewhere if the database answers |
| `server_stuck` | `MCServer` | violation | and does not end if it never answers one statement |
| `deploy_safety` | `MCDeploy` | pass | two jobs and an operator: what serves stays healthy, what is recorded serves, what is replaced was expected |
| `deploy_older` | `MCDeploy` | violation | a late job of an old commit reads that a newer image is deployed, expects it, and replaces it |
| `slug_page` | `MCSlugPage` | pass | answers, ticks, renders and jumps in any order: no other slug's body, gone in time, not before; no countdown sticks, no open page loads for ever |
| `slug_page_expired` | `MCSlugPage` | violation | the old clip's countdown ends on the new clip's page |
| `index_page` | `MCIndexPage` | pass | keystrokes, late answers and visits in any order: the hint fits the field, the form speaks of the last submit and becomes usable again |
| `health` | `Health`, `MCHealth.cfg` | pass | a 200 is deserved, and so is a refusal; every value was observed, a hanging database does not hold the ping, the status page settles |
| `schema` | `MCSchema` | pass | two migrate processes, one at a time or both up, with the sessions of killed ones, backups and restores that fail anywhere: schema and version table agree, and a whole dump is at hand |
| `health_dberror` | `Health`, `MCHealth_dberror.cfg` | violation | a database error at the last query leaves the status at 200 |

The four violations are disagreements of the code with a document of the
repository; `findings` in `PROJECT.json` quotes each. Two of them are faults of the
code: the process that outlives its bounded shutdown, and the page that says
"expired" of a clip it is still loading. Met on the way and not worth a run: a
rollback with `deploy.sh <image>` alone skips the check of the previous image that
README.md:91 promises of each release; openspec/specs/http-server/spec.md:133 still
has the health endpoint answer 200 always, against its own code and openapi.yaml;
`IPV6_PREFIX=0` is accepted and means 64 (clientip.go:72);
openspec/specs/http-server/spec.md:47 and 68-71 still refuse a page outside `/api/`, where
openspec/specs/production-serving and the code serve the application; and
openspec/specs/schema-migrations/spec.md:28 has `migrate status` leave the database as it
is, where it makes goose's version table (`Check`).

### Bounds

*Clips.* `MaxClock = 2`, a lifetime of one tick and a skew of one let a lease be
stamped, stored, expire, be swept or reclaimed, and be stored after it has expired, with
the clocks in either order; two clients and a sweeper are the smallest set in which a
claim replaces a row between a sweep's scan and its effect while a second claim waits,
and in which an answer is overtaken by a rival. The second sweeper of a release is in
the proofs, which hold for any set of them.
*Limiter and front.* Three keys that clients reach (a network of two addresses, an
address, the unknown ones) and a cap of two force evictions; a window of four ticks, a
rate of two and five ticks of time are more than a window, enough for a limiter that is
wrong to break `AtMostTwiceTheRate` by a straddle; the fifth admission of a correct one
comes at the eighth tick, which is beyond a run and left to `TwiceTheRateAtMost`, for any
window and rate; a second of two ticks makes the header's truncation
visible. Headers are absent, forged, or forged and broken.
*Server.* One connection for two requests and the sweeper: everybody may wait for
everybody. The environments are one that sets the database only and those that differ
from it in one variable, at the bounds of its range, empty and malformed: the refusals
are independent of each other. *Deploy.* Three runs are two jobs whose readings are
stale to one another and one operator; three images are one that is fine, one that
migrates, one that is broken.
*SlugPage.* Two slugs, the navigation guarded by `MaxReads = 2` reads in flight (more
may come into being by effects), lifetimes of two and three ticks, a period of two, a
delay of one, the browser two ticks ahead or behind: a trusted browser clock would take
the body away early in one case and late in the other. Clips are created at the start
only.
*IndexPage.* A name, the same with a blank, a reserved one and nothing; two keystrokes a
visit, two visits, two checks under way: enough for a late answer to a name typed
before, and for a creation of a page that was left. *Health.* Three changes of the
database in four queries; versions before, at and after the image's.
*Schema.* Two migrate processes or sessions left behind, row ids up to four (`MaxId`), two
dumps and a retention of a day: an up, a down and an up again, an orphan's COMMIT beside
the next up, a file that is too old beside one that is not; a dump is taken of a database
out of doubt. The constraint `FewDumpsInDoubt` cuts what multiplies without being spoken
of: beside a database in doubt at most one dump, and none, nor a backup under way, where
`SchemaRecorded` is silent, except the dump a restore was of. The proofs have no such bounds,
and `BackupKept` does not depend on the database.

Symmetry is used in safety runs only, over runs of the script and migrate processes of
one kind. `CHECK_DEADLOCK FALSE` stands where the system may really stop: a server
exits, all runs of the script end, a page may sit on an expired clip when the bounded
clock has stopped. The others are checked for deadlock.

### Fairness

*Sweeper*: weakly fair in beginning a DELETE, because `Run` waits for its ticker only;
strongly fair in ending one, because the database fails some sweeps but not all.
Requests get no fairness at all: the rows must go whatever clients do.
*Server*: the configuration is loaded and wired, the main goroutine and the listener
run, a cancelled context ends the acquire or the DELETE it governs, the response of a
handler is written, a closed pool refuses. `select` may prefer the ticker to a cancelled
context, but not for ever (Go chooses at random), hence strong fairness of
`SweeperReturns`. Nothing is assumed of the database: that it answers statements
(`DbAnswers`) is the hypothesis of `ProgressWhenDbAnswers`, and without it
`server_stuck` fails. Nor is it assumed that clients come, signals are sent, or timeouts
run out before what they bound.
*SlugPage*: the browser renders, runs effects and fires its intervals; a `fetch`
resolves or rejects in the end; time passes. Nobody has to navigate or create.
*IndexPage*: a creation under way ends and its continuation runs; nothing is asked of
checks, keys or visits. *Health*: the handler takes the step that it can, where a query
of a hanging database can take none but the ping's timeout. That the database does not
hang for good is the hypothesis of `PageSettles`, not of `ProbeEnds`.

## Proofs

Eight modules, each beside the component it is about; each theorem holds for all
values of the constants that satisfy the module's `ASSUME`.

`ClipsProofs`. `TypeCorrect` from an inductive `TypeOK`. `LiveClipsSafe`
(`LiveClipUntouched`) needs one strengthening: no statement's `now()` is ahead of
the database's clock, a claim's `txNow` and a sweep's `now` alike. With it a row that
a claim may replace or a sweep may delete is expired now. `ImplementsPool` is the
refinement: every step of the service is a grant, a passing of time or a stutter of
`NameLease`. It needs moreover that a stamped lease does not exceed `dbClock +
AnonCeiling + MaxSkew`, from the bound on the skew and on the presets. `ClaimsAreHonest`
and `LooksAreHonest` are over the history. `ClientStep` sorts the steps by what they do to
one client: it is left alone, arrives, its claim begins, or its statement ends. The
invariant is that a client is `Attentive`: what its name is worth now is in `seen`, and
its statement's `now()` is no earlier than `asked`. So a row that is live at that `now()`
had time left when the client asked and is in `seen`; a row that is not is expired by
now, and the name was seen free. `StillThere` is kept by `LiveStays`, the step form of
`LiveClipUntouched`. With it a claim cannot win against an owner, whose clip is live in the
row that the claim looks at, so that there is never a second one (`OwnersCome`,
`OwnerKeepsName`): which of two racing creates wins is open, that one at most does is not.

`HttpFrontProofs`. First the limiter. `CapHolds`: `Oldest` is never empty on a non-empty
finite map, so that making room really makes room; `WaitIsEnough`: a refusal stands next
to the entry it was computed from; `StaleGoFirst`: when the oldest entry has time left, so
has every other. The keys may be infinitely many: those tracked are not. Then what was
admitted. `HistoryInv` relates an entry to the admissions of its key (`EntryRecorded`): the
last `count` of them were counted in the entry's window, those before it at least a window
earlier, and `Rate` admissions further on it is another window. From the first two follows
`RefusalsAreDeserved`: a refused entry's window is open and its count is the rate, so the
last `Rate` admissions are all of this window. From the last follows
`TwiceTheRateAtMost`: an admission comes before the end of its own window, and the one
twice the rate later not before the start of the next window but one. Counting admissions would
have needed sums, hence an induction; a sequence that says which window each was counted
in does not. Then the front. `FrontDrivesLimiter` and `FrontDrivesHistory`: each step of
it is a call of `Allow`, time, a restart or a stutter of the limiter, and the history has
every creation that passed, so that the theorems above hold of the server (`FrontLimits`,
`FrontTypeCorrect`). `SendersKeys`: a direct peer is not the proxy, so no header counts;
the proxy's header has one entry, the sender.

`ServerProofs`. The inductive invariant relates what the main goroutine, the listener
and the requests know of each other: after a drain that reported success the
listener is shut and no request is active, and that stays so because nothing can
arrive. `ShutdownLosesNobody` follows. `ServerTypeCorrect` includes that a process which
got past its configuration has a usable one, for any environment (`LoadedIsUsable`).
`RoutesAreSeparated` goes by what the most specific pattern is: of a path and a method
that a route takes, that route; of another method, the path's own pattern; of a path
nobody registered, the fallback (`RouteChosen`, `AnyMethodChosen`, `FallbackChosen`). It
uses of the table of routes only that each path is registered once, for one method, and
is no fallback (`RoutesOnce`); a serving process has the mux that was wired (`MuxWired`).

`DeployProofs`. `OneRunPastLock`: the lock belongs to the one run past it.
`ServingIsHealthy`: the schema never shrinks, a candidate that passed its gate stays
well. `RecordIsRight`: what serves and what is recorded differ only while one run is
between swap and record, or after one was torn there. `ReplacementIsExpected`: the
comparison stays true until the swap because nobody else holds the lock.
`OlderOnlyByItsOwnReading` bounds the finding of `deploy_older` from above: while no run
is torn apart, what serves is what is recorded, hence what was compared; so an older image
replaces a newer one only if the job itself had read the newer one, or nothing. A job that
compared the two commits before it starts the script would be enough.

`SlugPageProofs`. `PageWellTyped` includes that a settled page has an interval
exactly while it counts down. `OwnClipOnly` rests on the load effect's flag: a call
that is still heeded, the state and the last render agree about the slug unless the
page owes a render or an effect. `GoneInTime` bounds the estimate of the server's
clock: the skew is too large by at most the answer's delay, so that the countdown is
late by at most that, and its interval by a period; the offset of the browser's
clock cancels out, which is why it may be any integer. `NotGoneEarly`
needs what is on show to be remembered by somebody: while a load is heeded nothing is on
show, and once that load has reached the server nothing counts down; what is on show
expires no earlier than what the page counts to.

`IndexPageProofs`. `HintIsCurrent` rests on what is heard: at most one check is, about the
name in the field, only while the page is open, and its answer was true since the name was
typed. `OutcomeIsOfTheLast` rests on the creations of the open visit: the one submitted
last while the form submits, none otherwise. Names and bounds are arbitrary.

`HealthProofs`. `VerdictIsDeserved` and `ReportsAreObserved` are about an answer, and the
invariant about the check that makes it: what it has read so far was so at an instant in
`seen`, the version and the pending migrations perhaps at two different ones, and a body
that still says ok has met no failure up to its stage, while whatever it lacks by then,
or says against the database, has its cause (`Caused`). The present state of the
database is always in `seen`, so a reading is an observation; the steps of the
database, which may come between any two readings, only add to it. `GateDecidesBySchema`
joins `Health` to `Deploy`: where no reading failed and nobody changed the database during
the check, the code is 200 just when the schema has the image's migrations, which is
`Healthy` of `Deploy` for an image that runs. `HealthTypeCorrect` has
the status page loading exactly while a check of its own is under way.

`SchemaProofs`. Table and row are changed by one transaction, but what it changes it has
looked at earlier. The invariant says when that still stands at the COMMIT. `Locking`:
whoever needs the lock on clips has it, is alone with it, and the section it has open fits
the table as it is. `Quiet`, as long as no down runs beside another process: schema and
version table agree (`Sound`); an up that records the settings has an id above those of the
table's rows (`UpQuiet`); a down is alone, takes the settings first, and deletes all rows of
its version (`DownQuiet`). It covers the sessions that killed processes leave, which count
as processes beside which others start. `OneAtATime` is the rest: the plan of the only
process still fits the table (`PlanStands`), so that each migration meets the schema it was
written for (`PlanFits`), and an `up` with nothing left to do has applied every version; no
version is passed over and the later version has the later rows (`Orderly`), so that what
`down` takes back is the highest. Ups that overlap keep `Sound` and not this: one
that was planned before another's commit fails at the table, or records again the baseline
or the settings that the other has recorded. Dumps are taken of orderly
databases, hence restores into empty ones are orderly. `BackupIsKept`: a backup past its
dump has a whole file of today, which no retention prunes.

Every invariant and every action property that a passing run checks is a theorem. Only
model-checked: the eight liveness properties (`ExpiredEventuallyGone`, `SweeperStops`,
`ProgressWhenDbAnswers`, `CountdownEnds`, `LoadEnds`, `SubmitEnds`, `ProbeEnds` and
`PageSettles`), because the proof system has no rule for fairness here; and the four
violations. The proofs
assume what the modules' `ASSUME`s say, and the modelling itself: what is external to the
code (PostgreSQL, goose, `net/http`, React, the shell) is as its module has it.

## Not modelled

Character rules, JSON decoding and the parsing of numbers, addresses and URLs are pure:
`Clips` knows a slug as claimable, reserved or malformed and a body as too large or not,
`HttpFront` an address as parseable or not, `Config` a value as malformed or not.
Request logging keeps no state. The availability hint has a limiter of its own, another
instance of the same code. The latency that the health endpoint measures is left out,
and so are the rows of clips in a dump: there are none. The smoke test and the store
double of the unit tests are not part of the running system; generated code is modelled
where it is called. CI before the deploy job, image digests and ssh are outside
`Deploy`, and so are an image that is healthy as a candidate and not as the app and a
migration that its container goes on with when the script has died. The copy button's
label and leaving the read page for another kind of page are outside `SlugPage`; a status
page that is opened again while the check of the former one is under way is outside
`Health`. Downs beside other processes are in `Schema`, but nothing is claimed of them.

## Plan

Done: the pool of names and its answers, the limiter and the front before it, the
configuration, startup and end of the process, the release, the schema with its backups,
the three pages and the health endpoint, each with its theorems. Left:

1. `Schema` below `Deploy`, whose schema is a number: the versions of an orderly table in
   place of it, with `migrate up` as the run that nobody overlaps.
2. A composition of `Clips` with the pages, so that "created" on the create page and
   the body on the read page meet in one table.
