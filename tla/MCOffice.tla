------------------------------ MODULE MCOffice ------------------------------
(* The back office beside the bookings: accounts, careers, retention, the *)
(* nightly backup. They share no state, so each behaviour moves one.       *)
EXTENDS StaffAccounts, Hiring, Retention, Backups, TLC

CONSTANTS p1, p2, x1, x2, a1, f1

VARIABLE part
officeVars == <<part, accVars, hireVars, retentionVars, backupVars>>

OfficeInit ==
  /\ part \in {"accounts", "careers", "retention", "backups"}
  /\ AccInit /\ HireInit /\ RetentionInit /\ BackupsInit
  /\ part # "retention" => \A b \in Records : visit[b] = 0

OfficeNext ==
  /\ UNCHANGED part
  /\ \/ part = "accounts" /\ AccNext /\ UNCHANGED <<hireVars, retentionVars, backupVars>>
     \/ part = "careers" /\ HireNext /\ UNCHANGED <<accVars, retentionVars, backupVars>>
     \/ part = "retention" /\ RetentionNext /\ UNCHANGED <<accVars, hireVars, backupVars>>
     \/ part = "backups" /\ BackupsNext /\ UNCHANGED <<accVars, hireVars, retentionVars>>

OfficeSpec == OfficeInit /\ [][OfficeNext]_officeVars

-----------------------------------------------------------------------------
(* The four parts stay well typed: above all, no two replicas hold the same*)
(* booking's row, nor one an edit has locked, and a run that got past its  *)
(* manifest has tonight's dump whole.                                      *)
OfficeTypeOK == AccTypeOK /\ HireTypeOK /\ RetentionTypeOK /\ BackupsTypeOK

\* p1 and p2 are requests, desks and replicas; x1 and x2 links, vacancies and records.
Symmetry == Permutations({p1, p2}) \cup Permutations({x1, x2})
=============================================================================
