------------------------------- MODULE Offsite --------------------------------
(***************************************************************************)
(* The off-site copies of the nightly dumps (scripts/lib/offsite): after a *)
(* backup its dump and its manifest are put into a bucket, then copies     *)
(* past their days are listed and deleted one by one.  Each                *)
(* request may fail and the process may be killed between any two; the     *)
(* keys carry the night, and whether the copy is encrypted.                *)
(***************************************************************************)
EXTENDS Naturals, FiniteSets, FiniteSetsExt

CONSTANTS
  KeepDays,         \* OFFSITE_KEEP_DAYS
  LastCopyNight     \* bound: nights
ASSUME OffsiteAssumption == KeepDays \in Nat \ {0} /\ LastCopyNight \in Nat \ {0}

VARIABLES
  copyNight,
  bucket,        \* the keys there: a dump's, plain or encrypted, or a manifest's
  copying,       \* tonight's copy: step, settings, keys still to delete
  copied         \* nights whose copy was reported uploaded
offsiteVars == <<copyNight, bucket, copying, copied>>

Key(n, kind) == [night |-> n, kind |-> kind]
Strange == Key(0, "other")   \* something else under the prefix
Idling == [step |-> "due"]

OffsiteTypeOK ==
  /\ copied \subseteq 1..LastCopyNight
  /\ copying.step \in {"due", "dump", "manifest", "list", "delete", "done"}

OffsiteInit == copyNight = 1 /\ bucket = {Strange} /\ copying = Idling /\ copied = {}

Stays == UNCHANGED <<copyNight, copied>>
Reported == copied' = copied \cup {copyNight} /\ copying' = [step |-> "done"] /\ UNCHANGED copyNight

\* Any of the four required settings missing: nothing is copied; encrypted where there is a passphrase.
offsiteConfig ==
  /\ copying = Idling /\ Stays /\ UNCHANGED bucket
  /\ \/ copying' = [step |-> "done"]
     \/ \E kind \in {"plain", "enc"} : copying' = [step |-> "dump", kind |-> kind]

\* A request that fails before both are up fails the copy; what is up stays.
putDump ==
  /\ copying.step = "dump" /\ Stays
  /\ \/ bucket' = bucket \cup {Key(copyNight, copying.kind)} /\ copying' = [copying EXCEPT !.step = "manifest"]
     \/ copying' = [step |-> "done"] /\ UNCHANGED bucket

putManifest ==
  /\ copying.step = "manifest" /\ Stays
  /\ \/ bucket' = bucket \cup {Key(copyNight, "manifest")} /\ copying' = [step |-> "list"]
     \/ copying' = [step |-> "done"] /\ UNCHANGED bucket

\* By the time in their name, never anything that is not a dump's. The clock is read after tonight's
\* dump was stamped, so that a copy made KeepDays nights ago is past its days.
expiredKeys(keys, keepDays) == {k \in keys : k # Strange /\ copyNight - k.night >= keepDays}

\* All pages of the listing or none; the copy is uploaded even when the pruning fails.
listKeys ==
  /\ copying.step = "list" /\ UNCHANGED bucket
  /\ \/ Reported
     \/ copying' = [step |-> "delete", keys |-> expiredKeys(bucket, KeepDays)] /\ Stays

deleteExpired ==
  /\ copying.step = "delete"
  /\ \/ copying.keys # {} /\ Stays
        /\ \E k \in copying.keys : bucket' = bucket \ {k} /\ copying' = [copying EXCEPT !.keys = @ \ {k}]
     \/ Reported /\ UNCHANGED bucket

copyKilled == copying.step \notin {"due", "done"} /\ copying' = [step |-> "done"] /\ Stays /\ UNCHANGED bucket

CopyNightPasses ==
  /\ copying.step \in {"due", "done"} /\ copyNight < LastCopyNight /\ copyNight' = copyNight + 1
  /\ copying' = Idling /\ UNCHANGED <<bucket, copied>>

OffsiteNext ==
  \/ offsiteConfig \/ putDump \/ putManifest \/ listKeys \/ deleteExpired \/ copyKilled \/ CopyNightPasses

-----------------------------------------------------------------------------
CopyOf(n) == {Key(n, "plain"), Key(n, "enc")} \cap bucket # {} /\ Key(n, "manifest") \in bucket

(* A copy reported as uploaded is there, dump and manifest, for its days,  *)
(* tonight's and the KeepDays - 1 nights after it, and the newest of them  *)
(* longer, until another is up: nothing is deleted by a run that has not   *)
(* put its own copy first, whatever fails or is killed; and what is not a  *)
(* dump is never deleted (copyOffsite).                                    *)
CopiesStay ==
  /\ \A n \in copied : copyNight - n < KeepDays => CopyOf(n)
  /\ copied # {} => \E n \in 1..LastCopyNight : n >= Max(copied) /\ CopyOf(n)
  /\ Strange \in bucket
=============================================================================
