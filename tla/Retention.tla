----------------------------- MODULE Retention ------------------------------
(***************************************************************************)
(* The retention job (ops/retention.service, retention.policy): every      *)
(* replica of the server wakes up, and unless some run was recorded lately *)
(* clears expired drafts and anonymises the bookings past the accounting   *)
(* period, batch by batch, each batch in its own transaction that skips    *)
(* the rows another transaction has locked. Time is counted in the unit of *)
(* the booking period; a draft lives for one of them. Slot holds are       *)
(* cleared by the same rule as drafts and are not repeated here.           *)
(***************************************************************************)
EXTENDS Integers, FiniteSets, FiniteSetsExt

CONSTANTS
  Replicas,       \* servers running the job
  Records,        \* bookings past and present
  Drafts,         \* booking drafts
  Batch,          \* RETENTION_BATCH
  Floor, Ceiling, \* RETENTION_BOUNDS.bookingYears
  Rest,           \* RUN_EVERY_HOURS
  MaxYear         \* bound: the clock
ASSUME RetentionAssumption ==
  /\ IsFiniteSet(Records) /\ IsFiniteSet(Drafts)
  /\ Batch \in Nat \ {0} /\ Rest \in Nat \ {0} /\ MaxYear \in Nat
  /\ Floor \in Nat \ {0} /\ Ceiling \in Nat /\ Floor <= Ceiling

VARIABLES
  year, visit,    \* the clock, and when each booking's visit is
  cleared,        \* when the booking was anonymised, or Open
  expires,        \* when the draft expires, or Open once it is deleted
  stored,         \* the period in the settings row, whatever was written there
  lastRun,        \* when a run was last recorded, or Open
  editing,        \* bookings whose row an edit has locked
  job,            \* per replica: its phase, cut-off and batch in hand
  excused,        \* history, per replica: rows it found locked
  overlooked      \* history: a run that reported success left work behind
retentionVars == <<year, visit, cleared, expires, stored, lastRun, editing, job, excused, overlooked>>

Open == -1
Asleep == [phase |-> "asleep", before |-> 0, now |-> 0, doomed |-> {}, held |-> {}, ok |-> TRUE]
Doomed == UNION {job[p].doomed : p \in Replicas}
Held == UNION {job[p].held : p \in Replicas}

RetentionTypeOK ==
  /\ year \in 0..MaxYear /\ visit \in [Records -> Nat]
  /\ cleared \in [Records -> Nat \cup {Open}] /\ expires \in [Drafts -> Nat \cup {Open}]
  /\ stored \in Nat /\ lastRun \in Nat \cup {Open} /\ overlooked \in BOOLEAN
  /\ editing \subseteq Records /\ editing \cap Held = {}
  /\ \A p, q \in Replicas : p # q => job[p].held \cap job[q].held = {}
  /\ \A p \in Replicas : job[p].phase \in {"asleep", "due", "drafts", "delete", "bookings", "commit", "record"}

RetentionInit ==
  /\ year = 0 /\ visit \in [Records -> {0, 1}] /\ cleared = [b \in Records |-> Open]
  /\ expires = [d \in Drafts |-> 1] /\ stored = 0 /\ lastRun = Open
  /\ editing = {} /\ job = [p \in Replicas |-> Asleep] /\ excused = [p \in Replicas |-> {}]
  /\ overlooked = FALSE

SetJob(p, j) == job' = [job EXCEPT ![p] = j]

(***************************************************************************)
(* The policy.                                                             *)
(***************************************************************************)
inBounds(y) == Floor <= y /\ y <= Ceiling

\* A period that is missing or out of bounds is the default, the floor.
parsePolicy == IF inBounds(stored) THEN stored ELSE Floor

\* Visits strictly before this are past the period.
bookingVisitBefore == year - parsePolicy

savePolicy(y) ==
  /\ inBounds(y) /\ stored' = y
  /\ UNCHANGED <<year, visit, cleared, expires, lastRun, editing, job, excused, overlooked>>

(***************************************************************************)
(* One run.                                                                *)
(***************************************************************************)
\* The check and the run it decides on are two statements: two replicas may
\* both find nothing recorded.
runIfDue(p) ==
  /\ job[p].phase = "asleep" /\ (lastRun = Open \/ year - lastRun >= Rest)
  /\ SetJob(p, [Asleep EXCEPT !.phase = "due"])
  /\ UNCHANGED <<year, visit, cleared, expires, stored, lastRun, editing, excused, overlooked>>

\* A manager may start one too; the flag of this process keeps it single.
run(p) ==
  /\ job[p].phase \in {"asleep", "due"}
  /\ SetJob(p, [Asleep EXCEPT !.phase = "drafts", !.before = bookingVisitBefore, !.now = year])
  /\ excused' = [excused EXCEPT ![p] = {}]
  /\ UNCHANGED <<year, visit, cleared, expires, stored, lastRun, editing, overlooked>>

expiredDrafts(now) == {d \in Drafts : expires[d] # Open /\ expires[d] < now}

\* A batch of them, in no order, those another replica is deleting left out.
doomDrafts(p) ==
  /\ job[p].phase = "drafts"
  /\ LET past == expiredDrafts(job[p].now)
         free == past \ Doomed
     IN /\ excused' = [excused EXCEPT ![p] = @ \cup (past \ free)]
        /\ \E gone \in SUBSET free :
             /\ Cardinality(gone) = Min({Batch, Cardinality(free)})
             /\ SetJob(p, [job[p] EXCEPT !.phase = "delete", !.doomed = gone])
  /\ UNCHANGED <<year, visit, cleared, expires, stored, lastRun, editing, overlooked>>

clearDrafts(p) ==
  /\ job[p].phase = "delete"
  /\ expires' = [d \in Drafts |-> IF d \in job[p].doomed THEN Open ELSE expires[d]]
  /\ SetJob(p, [job[p] EXCEPT !.doomed = {}, !.phase = IF Cardinality(job[p].doomed) < Batch THEN "bookings" ELSE "drafts"])
  /\ UNCHANGED <<year, visit, cleared, stored, lastRun, editing, excused, overlooked>>

\* What a finished run leaves behind, what it found locked aside.
Left(p) ==
  (expiredDrafts(job[p].now) \cup {b \in Records : visit[b] < job[p].before /\ cleared[b] = Open}) \ excused[p]

\* Mutant: one batch and no more.
inBatchesOnce(n) == "record"

\* The next batch, or the end of the run when the last one fell short.
inBatches(n) == IF n < Batch THEN "record" ELSE "bookings"

\* Mutant: rows locked by an edit or another batch are taken as well.
TakeLocked(past) == past

\* FOR UPDATE SKIP LOCKED.
SkipLocked(past) == past \ (Held \cup editing)

\* The oldest visits first, the rows locked elsewhere left out.
anonymiseBatch(p) ==
  /\ job[p].phase = "bookings"
  /\ LET past == {b \in Records : visit[b] < job[p].before /\ cleared[b] = Open}
         free == SkipLocked(past)
     IN /\ excused' = [excused EXCEPT ![p] = @ \cup (past \ free)]
        /\ \E take \in SUBSET free :
             /\ Cardinality(take) = Min({Batch, Cardinality(free)})
             /\ \A b \in take, c \in free \ take : visit[b] <= visit[c]
             /\ SetJob(p, [job[p] EXCEPT !.phase = "commit", !.held = take])
  /\ UNCHANGED <<year, visit, cleared, expires, stored, lastRun, editing, overlooked>>

commitBatch(p) ==
  /\ job[p].phase = "commit"
  /\ cleared' = [b \in Records |-> IF b \in job[p].held THEN year ELSE cleared[b]]
  /\ SetJob(p, [job[p] EXCEPT !.held = {}, !.phase = inBatches(Cardinality(job[p].held))])
  /\ UNCHANGED <<year, visit, expires, stored, lastRun, editing, excused, overlooked>>

\* A statement fails: its batch rolls back, and the rest of the run is left.
runFails(p) ==
  /\ job[p].phase \in {"drafts", "delete", "bookings", "commit"}
  /\ SetJob(p, [job[p] EXCEPT !.doomed = {}, !.held = {}, !.ok = FALSE, !.phase = "record"])
  /\ UNCHANGED <<year, visit, cleared, expires, stored, lastRun, editing, excused, overlooked>>

\* Failed or not, the run is recorded, and counts as the last one; an insert
\* that fails is only logged.
recordRun(p) ==
  /\ job[p].phase = "record" /\ SetJob(p, Asleep) /\ lastRun' \in {lastRun, year}
  /\ overlooked' = (overlooked \/ (job[p].ok /\ Left(p) # {}))
  /\ UNCHANGED <<year, visit, cleared, expires, stored, editing, excused>>

(***************************************************************************)
(* Around the job.                                                         *)
(***************************************************************************)
\* External: an edit locks a booking, and ends.
editStarts(b) ==
  /\ editing = {} /\ b \notin Held /\ editing' = {b}
  /\ UNCHANGED <<year, visit, cleared, expires, stored, lastRun, job, excused, overlooked>>
editEnds ==
  /\ editing # {} /\ editing' = {}
  /\ UNCHANGED <<year, visit, cleared, expires, stored, lastRun, job, excused, overlooked>>

\* A guest half-way through the form leaves a draft; it is stored anew each time.
saveDraft(d) ==
  /\ expires[d] = Open /\ expires' = [expires EXCEPT ![d] = year + 1]
  /\ UNCHANGED <<year, visit, cleared, stored, lastRun, editing, job, excused, overlooked>>

\* External: a run ends well within the period, time is long between runs.
YearPasses ==
  /\ year < MaxYear /\ year' = year + 1
  /\ UNCHANGED <<visit, cleared, expires, stored, lastRun, editing, job, excused, overlooked>>

RetentionNext ==
  \/ \E p \in Replicas : \/ runIfDue(p) \/ run(p) \/ doomDrafts(p) \/ clearDrafts(p)
                         \/ anonymiseBatch(p) \/ commitBatch(p) \/ runFails(p) \/ recordRun(p)
  \/ \E y \in 0..Ceiling : savePolicy(y)
  \/ \E b \in Records : editStarts(b)
  \/ \E d \in Drafts : saveDraft(d)
  \/ editEnds \/ YearPasses

RetentionSpec == RetentionInit /\ [][RetentionNext]_retentionVars

(***************************************************************************)
(* Properties.                                                             *)
(***************************************************************************)
\* Whatever the settings row holds and whoever changes it under a run, no
\* booking is anonymised before the accounting floor has passed since its
\* visit (retention.policy RETENTION_BOUNDS, parsePolicy).
NeverTooEarly == \A b \in Records : cleared[b] # Open => cleared[b] - visit[b] > Floor

\* A run that reports success has cleared every draft expired when it began
\* and anonymised every booking past its cut-off, except rows it found locked
\* by an edit or by another replica's batch, which may yet be rolled back
\* (retention.service run, inBatches).
RunsAreWhole == ~overlooked

\* The promises of the retention job: nothing too early, nothing left out.
PeriodsKept == NeverTooEarly /\ RunsAreWhole
=============================================================================
