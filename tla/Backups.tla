------------------------------- MODULE Backups ------------------------------
(***************************************************************************)
(* The nightly backup (scripts/db-backup, scripts/lib): dump, manifest,    *)
(* the month's copy, retention, the off-site copy, the monthly restore     *)
(* test, and the log the back office judges them by. A dump is named by    *)
(* its night; a run is one process and may be killed between any two       *)
(* steps, leaving its files as they are. The database, the disk, the       *)
(* scratch server and the bucket are external: each step may fail.         *)
(***************************************************************************)
EXTENDS Integers, FiniteSets, FiniteSetsExt

CONSTANTS
  NightlyKeep, MonthlyKeep,  \* NIGHTLY_KEEP, MONTHLY_KEEP
  MaxAge, TestMaxAge,        \* BACKUP_MAX_AGE_HOURS, RESTORE_TEST_MAX_AGE_DAYS, in nights
  MonthLength,               \* nights in a month
  LastNight                  \* bound: nights
ASSUME BackupsAssumption ==
  /\ {NightlyKeep, MonthlyKeep, MonthLength, LastNight} \subseteq Nat \ {0}
  /\ MaxAge < NightlyKeep /\ {MaxAge, TestMaxAge} \subseteq Nat

VARIABLES
  night,
  nightly, monthly,      \* per night: the dump kept, without one "none"
  log,                   \* what is asked of backup_runs: the newest verdict of each kind, and the newest good run
  runAt,                 \* where tonight's run is
  taken, torn            \* history: months with a backup that succeeded, and with a copy cut short
backupVars == <<night, nightly, monthly, log, runAt, taken, torn>>

Nights == 1..LastNight
Never == 0
Dump == {"none", "partial", "bare", "whole"}  \* bare: no manifest beside it
Entry == [at : Nights \cup {Never}, dump : Nights \cup {Never}]
Nothing == [at |-> Never, dump |-> Never]
Log == [backup : BOOLEAN, goodBackup : Entry, test : BOOLEAN, goodTest : Entry]

monthOf(n) == (n - 1) \div MonthLength
sortedDumps(dir) == {n \in Nights : dir[n] # "none"}
newestDump == Max(sortedDumps(nightly))

BackupsTypeOK ==
  /\ night \in Nights /\ taken \cup torn \subseteq {monthOf(n) : n \in Nights}
  /\ nightly \in [Nights -> Dump] /\ monthly \in [Nights -> Dump]
  /\ log \in Log
  /\ runAt \in {"described", "copying", "copied", "retained", "record", "test"} => nightly[night] = "whole"
  /\ runAt \in {"due", "dumped", "described", "copying", "copied", "retained", "failed", "record", "test", "done"}

BackupsInit ==
  /\ night = 1 /\ nightly = [n \in Nights |-> "none"] /\ monthly = [n \in Nights |-> "none"]
  /\ log = [backup |-> TRUE, goodBackup |-> Nothing, test |-> TRUE, goodTest |-> Nothing]
  /\ runAt = "due" /\ taken = {} /\ torn = {}

Go(from, to) == runAt = from /\ runAt' = to

(***************************************************************************)
(* The backup.                                                             *)
(***************************************************************************)
\* The newest ones by name, complete or not.
Kept(dir, keep) ==
  {n \in sortedDumps(dir) : Cardinality({m \in sortedDumps(dir) : m > n}) < keep}

prune(dir, keep) == [n \in Nights |-> IF n \in Kept(dir, keep) THEN dir[n] ELSE "none"]

DumpOnto(kept) ==
  /\ runAt = "due"
  /\ \/ runAt' = "dumped" /\ nightly' = [kept EXCEPT ![night] = "bare"]
     \/ runAt' = "failed" /\ nightly' \in {kept, [kept EXCEPT ![night] = "partial"]}
  /\ UNCHANGED <<night, monthly, log, taken, torn>>

\* Mutant: room is made before the dump, not after it.
backupMakingRoom == DumpOnto(prune(nightly, NightlyKeep - 1))

\* The archive is written and read back; when either fails what was written stays.
backup == DumpOnto(nightly)

writeManifest ==
  /\ \/ Go("dumped", "described") /\ nightly' = [nightly EXCEPT ![night] = "whole"]
     \/ Go("dumped", "failed") /\ UNCHANGED nightly
  /\ UNCHANGED <<night, monthly, log, taken, torn>>

needsMonthlyCopy == \A n \in sortedDumps(monthly) : monthOf(n) # monthOf(night)

\* The dump is copied first, its manifest after.
copyMonthly ==
  /\ runAt = "described"
  /\ IF needsMonthlyCopy
     THEN \/ runAt' = "copying" /\ monthly' = [monthly EXCEPT ![night] = "bare"] /\ UNCHANGED torn
          \/ runAt' = "failed" /\ UNCHANGED <<monthly, torn>>
     ELSE runAt' = "copied" /\ UNCHANGED <<monthly, torn>>
  /\ UNCHANGED <<night, nightly, log, taken>>

copyManifest ==
  /\ \/ Go("copying", "copied") /\ monthly' = [monthly EXCEPT ![night] = "whole"] /\ UNCHANGED torn
     \/ Go("copying", "failed") /\ torn' = torn \cup {monthOf(night)} /\ UNCHANGED monthly
  /\ UNCHANGED <<night, nightly, log, taken>>

retain ==
  /\ Go("copied", "retained")
  /\ nightly' = prune(nightly, NightlyKeep) /\ monthly' = prune(monthly, MonthlyKeep)
  /\ UNCHANGED <<night, log, taken, torn>>

\* Uploaded or not, the backup has succeeded.
copyOffsite ==
  /\ Go("retained", "record") /\ taken' = taken \cup {monthOf(night)}
  /\ UNCHANGED <<night, nightly, monthly, log, torn>>

(***************************************************************************)
(* The log and the restore test.                                           *)
(***************************************************************************)
\* The insert may fail; that is only logged.
Recorded(kind, good, ok, dump) ==
  \/ UNCHANGED log
  \/ log' = [log EXCEPT ![kind] = ok, ![good] = IF ok THEN [at |-> night, dump |-> dump] ELSE @]

\* A failed backup tests nothing.
record ==
  /\ Go("record", "test") \/ Go("failed", "done")
  /\ Recorded("backup", "goodBackup", runAt = "record", night)
  /\ UNCHANGED <<night, nightly, monthly, taken, torn>>

restoreTestDue == log.goodTest.at = Never \/ monthOf(log.goodTest.at) # monthOf(night)

\* The scratch server may fail any dump; one that differs from its manifest does not pass.
compareRestore(dump) == IF dump = "whole" THEN BOOLEAN ELSE {FALSE}

\* Without a dump the test fails too.
TestNewest ==
  \E ok \in IF sortedDumps(nightly) = {} THEN {FALSE} ELSE compareRestore(nightly[newestDump]) :
    Recorded("test", "goodTest", ok, newestDump)

\* Once a month; one more when the log cannot be read.
restoreTest ==
  /\ Go("test", "done")
  /\ TestNewest \/ (~restoreTestDue /\ UNCHANGED log)
  /\ UNCHANGED <<night, nightly, monthly, taken, torn>>

\* An operator tests the newest dump, a run under way or not (--test-only).
testOnly ==
  /\ TestNewest
  /\ UNCHANGED <<night, nightly, monthly, runAt, taken, torn>>

(***************************************************************************)
(* Around the run.                                                         *)
(***************************************************************************)
\* The process is killed; a copy under way is cut short.
killed ==
  /\ runAt \notin {"due", "done"} /\ runAt' = "done"
  /\ IF runAt = "described" /\ needsMonthlyCopy
     THEN monthly' = [monthly EXCEPT ![night] = "partial"] /\ torn' = torn \cup {monthOf(night)}
     ELSE UNCHANGED monthly /\ torn' = IF runAt = "copying" THEN torn \cup {monthOf(night)} ELSE torn
  /\ UNCHANGED <<night, nightly, log, taken>>

\* A night may pass without a run.
nextNight ==
  /\ runAt \in {"due", "done"} /\ runAt' = "due"
  /\ night < LastNight /\ night' = night + 1
  /\ UNCHANGED <<nightly, monthly, log, taken, torn>>

BackupsNext ==
  \/ backup \/ writeManifest \/ copyMonthly \/ copyManifest \/ retain \/ copyOffsite
  \/ record \/ restoreTest \/ testOnly \/ killed \/ nextNight
BackupsSpec == BackupsInit /\ [][BackupsNext]_backupVars

(***************************************************************************)
(* The verdict of the back office (ops.service).                           *)
(***************************************************************************)
Within(entry, age) == entry.at # Never /\ night - entry.at <= age

backupStatus ==
  IF ~log.backup \/ log.goodBackup.at = Never \/ ~log.test THEN "failing"
  ELSE IF Within(log.goodBackup, MaxAge) /\ Within(log.goodTest, TestMaxAge) THEN "ok" ELSE "warning"

(***************************************************************************)
(* Properties.                                                             *)
(***************************************************************************)
\* Once a backup has succeeded the volume always holds a dump that can be
\* restored, whatever runs fail or are killed after it: the half-written dumps
\* they leave count among those kept, but only a run with a dump of its own
\* removes any (db-backup backup, backup-plan prune).
AlwaysRestorable == taken # {} => \E n \in Nights : nightly[n] = "whole"

\* A month in which a backup succeeded has its long-term copy, complete, as
\* long as the months are kept; not so a month whose copy was cut short, which
\* no later run repairs (backup-plan needsMonthlyCopy).
MonthKept ==
  \A m \in taken \ torn :
    monthOf(night) - m < MonthlyKeep => \E n \in Nights : monthOf(n) = m /\ monthly[n] = "whole"

\* What a restore needs is kept: a dump of some night, and the month's copy
\* (the two statements above).
BackupsKept == AlwaysRestorable /\ MonthKept

\* When the back office shows "ok", a complete dump no older than the limit is
\* there, and no dump a restore test has passed is incomplete, although rows
\* of the log may be missing and dumps removed (ops.service backupStatus).
StatusHonest ==
  backupStatus = "ok" =>
    /\ \E n \in Nights : nightly[n] = "whole" /\ night - n <= MaxAge
    /\ nightly[log.goodTest.dump] \in {"whole", "none"}

\* The backups are there, and are what the back office says they are.
BackupsSound == BackupsKept /\ StatusHonest
=============================================================================
