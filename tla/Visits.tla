------------------------------- MODULE Visits -------------------------------
(***************************************************************************)
(* One booking from its sale to its arrival: desk edits, the guest's own   *)
(* changes, postponements, waivers and the gate, with the trail they leave.*)
(*                                                                         *)
(* Desk and guest edits run under the booking's row lock and are one step; *)
(* what they decide on was read earlier: a drawer's screen, the guest's    *)
(* page, the gate's scan.  Check-in and signing take no lock.  The         *)
(* booking's one line covers its whole party and needs waivers.  A request *)
(* is answered once.                                                       *)
(***************************************************************************)
EXTENDS Naturals, FiniteSets

CONSTANTS
  Requests,    \* bound: requests ever made
  NoRequest,
  People,      \* participants
  NoPerson,
  MaxParty,    \* bound
  MaxDay       \* bound: days 0..MaxDay

ASSUME VisitsAssumption ==
  /\ IsFiniteSet(Requests) /\ NoRequest \notin Requests /\ NoPerson \notin People
  /\ MaxParty \in Nat \ {0} /\ MaxDay \in Nat

VARIABLES
  row, stamp,   \* the booking; its updated_at
  waiver,       \* the row each signing request inserted
  told, chain,  \* what the audit trail adds up to, and whether each entry starts where the last ended
  today,
  stage,        \* where each request is
  seen,         \* what it read, and what it will write from that
  raced,        \* history: requests overtaken by a write between their own read and write
  torn,         \* history: a check-in was overtaken
  overlap,      \* history: people with two signatures in progress, or one that failed half-way
  wrong         \* history: what went wrong

visitVars == <<row, stamp, waiver, told, chain, today, stage, seen, raced, torn, overlap, wrong>>

Fields == {"status", "day", "party"}
BookingRow == [status : {"confirmed", "postponed", "arrived", "cancelled"}, day : 0..MaxDay, party : 1..MaxParty]
WaiverRow == [who : People \cup {NoPerson}, stop : BOOLEAN, version : Nat, state : {"none", "current", "superseded"}]
NoWaiver == [who |-> NoPerson, stop |-> FALSE, version |-> 0, state |-> "none"]
Anything == CHOOSE b \in BookingRow : TRUE
Blank == [row |-> Anything, stamp |-> 0, from |-> Anything.status, want |-> <<>>, override |-> FALSE,
          waiver |-> NoWaiver, old |-> NoRequest]
Read == [Blank EXCEPT !.row = row, !.stamp = stamp, !.from = row.status]

VisitTypeOK ==
  /\ row \in BookingRow /\ told \in BookingRow /\ chain \in BOOLEAN
  /\ stamp \in 0..Cardinality(Requests) /\ today \in 0..MaxDay
  /\ waiver \in [Requests -> WaiverRow]
  /\ stage \in [Requests -> {"new", "drawer", "guest", "gate", "compare", "write", "audit",
                             "supersede", "insert", "done"}]
  /\ \A r \in Requests : seen[r].row \in BookingRow /\ seen[r].waiver.version <= Cardinality(Requests)
  /\ raced \subseteq Requests /\ torn \in BOOLEAN /\ overlap \subseteq People
  /\ wrong \subseteq {"blind", "plain", "raced"}

VisitInit ==
  /\ row \in [status : {"confirmed"}, day : {MaxDay}, party : 1..MaxParty]
  /\ stamp = 0 /\ told = row /\ chain = TRUE /\ today = 0
  /\ waiver = [r \in Requests |-> NoWaiver]
  /\ stage = [r \in Requests |-> "new"] /\ seen = [r \in Requests |-> Blank]
  /\ raced = {} /\ torn = FALSE /\ overlap = {} /\ wrong = {}

Go(r, where) == stage' = [stage EXCEPT ![r] = where]
Finish(r) == Go(r, "done") /\ seen' = [seen EXCEPT ![r] = Blank]
Overtakes(r) == raced' = (raced \cup {q \in Requests : stage[q] \notin {"new", "done"}}) \ {r}

required == row.party
CurrentWaivers == {r \in Requests : waiver[r].state = "current"}
\* Waivers missing, or a signed one over an activity's limit.
blocked(party) == Cardinality(CurrentWaivers) < party \/ \E r \in CurrentWaivers : waiver[r].stop

-----------------------------------------------------------------------------
(* Edits under the row lock.                                               *)

\* A row with some columns set.
Patched(patch, b) == [f \in Fields |-> IF f \in DOMAIN patch THEN patch[f] ELSE b[f]]

\* The patch, its trail and the stamp, in one transaction.
Commit(r, patch, base) ==
  LET moved == {f \in DOMAIN patch : patch[f] # base[f]}
  IN  /\ row' = Patched(patch, row)
      /\ stamp' = stamp + 1
      /\ told' = Patched([f \in moved |-> patch[f]], told)
      /\ chain' = (chain /\ \A f \in moved : told[f] = base[f])
      /\ Overtakes(r) /\ Finish(r)

NothingMoves(r) == Finish(r) /\ raced' = raced \ {r} /\ UNCHANGED <<row, stamp, told, chain>>

\* No room in the slot, or nothing to change.
Moves(patch) == \E f \in DOMAIN patch : patch[f] # row[f]
NeedsRoom(patch) == Patched(patch, row).status \notin {"cancelled", "postponed"}

\* Mutant: the trail is worked out from the row read earlier.
updateFromPage(r, patch) == Commit(r, patch, seen[r].row)

update(r, patch) == Commit(r, patch, row)

openDrawer(r) ==
  /\ stage[r] = "new" /\ Go(r, "drawer")
  /\ seen' = [seen EXCEPT ![r] = Read]
  /\ UNCHANGED <<row, stamp, waiver, told, chain, today, raced, torn, overlap, wrong>>

\* Mutant: the desk may always mark a booking arrived.
arrivalRuleForgotten(patch, override) == TRUE

(* Moving a booking to arrived follows the gate's rule, on the booking and *)
(* the waivers as they are stored.                                         *)
arrivalRule(patch, override) ==
  "status" \in DOMAIN patch /\ patch.status = "arrived" /\ row.status # "arrived" =>
    override \/ ~blocked(required)

Patches == {[status |-> s] : s \in {"confirmed", "arrived", "cancelled", "postponed"}}
           \cup {[day |-> d] : d \in 0..MaxDay} \cup {[party |-> n] : n \in 1..MaxParty}
           \cup {[status |-> "arrived", party |-> n] : n \in 1..MaxParty}
           \cup {[day |-> d, party |-> n] : d \in 0..MaxDay, n \in 1..MaxParty}

saveDrawer(r) ==
  /\ stage[r] = "drawer"
  /\ \E patch \in Patches, expected \in BOOLEAN, override \in BOOLEAN :
       LET goes == /\ expected => stamp = seen[r].stamp
                   /\ Moves(patch) /\ arrivalRule(patch, override)
           arrives == "status" \in DOMAIN patch /\ patch.status = "arrived" /\ row.status # "arrived"
       IN  \/ /\ goes /\ update(r, patch)
              /\ wrong' = wrong
                   \cup (IF expected /\ row # seen[r].row THEN {"blind"} ELSE {})
                   \cup (IF arrives /\ ~override /\ "party" \notin DOMAIN patch /\ blocked(row.party)
                         THEN {"plain"} ELSE {})
           \/ (goes => NeedsRoom(patch)) /\ NothingMoves(r) /\ UNCHANGED wrong
  /\ UNCHANGED <<waiver, today, torn, overlap>>

postpone(r) ==
  /\ stage[r] = "new" /\ row.status # "cancelled"
  /\ update(r, [status |-> "postponed"])
  /\ UNCHANGED <<waiver, today, torn, overlap, wrong>>

-----------------------------------------------------------------------------
(* The guest's ticket page.                                                *)

guestCanChange == row.status \in {"confirmed", "postponed"} /\ (row.status = "confirmed" => row.day >= today)

\* A postponed booking that gets a new date is confirmed again.
guestPatches ==
  {IF row.status = "postponed" THEN [day |-> d, status |-> "confirmed"] ELSE [day |-> d] : d \in today..MaxDay}
  \cup {[party |-> n] : n \in 1..MaxParty} \cup {[status |-> "cancelled"]}

guestAsks(r) ==
  /\ stage[r] = "new" /\ guestCanChange
  /\ \E patch \in guestPatches : seen' = [seen EXCEPT ![r] = [Blank EXCEPT !.row = row, !.want = patch]]
  /\ Go(r, "guest")
  /\ UNCHANGED <<row, stamp, waiver, told, chain, today, raced, torn, overlap, wrong>>

guestChange(r) ==
  LET patch == seen[r].want
  IN  /\ stage[r] = "guest"
      /\ \/ /\ Moves(patch) /\ update(r, patch)
         \/ (Moves(patch) => NeedsRoom(patch)) /\ NothingMoves(r)
      /\ UNCHANGED <<waiver, today, torn, overlap, wrong>>

-----------------------------------------------------------------------------
(* Waivers.                                                                *)

isOpen == row.status # "cancelled" /\ row.day >= today
OfPerson(p) == {q \in CurrentWaivers : waiver[q].who = p}

\* A first signature needs a place among those required; a repeated one replaces the current one.
sign(r) ==
  /\ stage[r] = "new" /\ isOpen
  /\ \E p \in People, stop \in BOOLEAN :
       \E old \in (IF OfPerson(p) = {} THEN {NoRequest} ELSE OfPerson(p)) :
         /\ old = NoRequest => Cardinality(CurrentWaivers) < required
         /\ seen' = [seen EXCEPT ![r] = [Blank EXCEPT !.old = old, !.waiver =
              [who |-> p, stop |-> stop, state |-> "current",
               version |-> IF old = NoRequest THEN 1 ELSE waiver[old].version + 1]]]
         /\ Go(r, IF old = NoRequest THEN "insert" ELSE "supersede")
         /\ overlap' = IF \E q \in Requests : stage[q] \in {"supersede", "insert"} /\ seen[q].waiver.who = p
                       THEN overlap \cup {p} ELSE overlap
  /\ UNCHANGED <<row, stamp, waiver, told, chain, today, raced, torn, wrong>>

SupersedeThose(r, those) ==
  /\ stage[r] = "supersede" /\ Go(r, "insert")
  /\ waiver' = [q \in Requests |-> IF q \in those THEN [waiver[q] EXCEPT !.state = "superseded"] ELSE waiver[q]]
  /\ Overtakes(r)
  /\ UNCHANGED <<row, stamp, told, chain, today, seen, torn, overlap, wrong>>

Supersede(r) == SupersedeThose(r, {seen[r].old})

InsertWaiver(r) ==
  /\ stage[r] = "insert" /\ Finish(r) /\ Overtakes(r)
  /\ waiver' = [waiver EXCEPT ![r] = seen[r].waiver]
  /\ UNCHANGED <<row, stamp, told, chain, today, torn, overlap, wrong>>

\* The two writes are no transaction.
InsertFails(r) ==
  /\ stage[r] = "insert" /\ Finish(r) /\ raced' = raced \ {r}
  /\ overlap' = overlap \cup {seen[r].waiver.who}
  /\ UNCHANGED <<row, stamp, waiver, told, chain, today, torn, wrong>>

-----------------------------------------------------------------------------
(* The gate.                                                               *)

\* The scan; a cancelled or arrived booking, or one refused, is answered.
gateView(r) ==
  /\ stage[r] = "new" /\ row.status \notin {"cancelled", "arrived"}
  /\ \E override \in BOOLEAN :
       /\ override \/ ~blocked(required)
       /\ seen' = [seen EXCEPT ![r] = [Read EXCEPT !.override = override]]
  /\ Go(r, "gate")
  /\ UNCHANGED <<row, stamp, waiver, told, chain, today, raced, torn, overlap, wrong>>

\* The row is read again.
checkIn(r) ==
  /\ stage[r] = "gate" /\ Go(r, "compare")
  /\ seen' = [seen EXCEPT ![r].row = row]
  /\ UNCHANGED <<row, stamp, waiver, told, chain, today, raced, torn, overlap, wrong>>

\* What save will write: the columns in which the entity and the stored row differ.
Compare(r) ==
  LET entity == [seen[r].row EXCEPT !.status = "arrived"]
      differ == {f \in Fields : entity[f] # row[f]}
  IN  /\ stage[r] = "compare" /\ Go(r, "write")
      /\ seen' = [seen EXCEPT ![r].want = [f \in differ |-> entity[f]]]
      /\ UNCHANGED <<row, stamp, waiver, told, chain, today, raced, torn, overlap, wrong>>

WriteStamp(r, n) ==
  /\ stage[r] = "write" /\ Go(r, "audit")
  /\ row' = Patched(seen[r].want, row)
  /\ stamp' = stamp + n
  /\ raced' = raced \cup {q \in Requests \ {r} : stage[q] \notin {"new", "done"}}
  /\ torn' = (torn \/ r \in raced)
  /\ wrong' = IF row'.status # row.status /\ ~seen[r].override /\ blocked(row'.party)
              THEN wrong \cup {IF r \in raced THEN "raced" ELSE "plain"} ELSE wrong
  /\ UNCHANGED <<waiver, told, chain, today, seen, overlap>>

WriteArrived(r) == WriteStamp(r, 1)

AuditArrived(r) ==
  /\ stage[r] = "audit" /\ Finish(r) /\ raced' = raced \ {r}
  /\ chain' = (chain /\ told.status = seen[r].from)
  /\ told' = [told EXCEPT !.status = "arrived"]
  /\ torn' = (torn \/ r \in raced)
  /\ UNCHANGED <<row, stamp, waiver, today, overlap, wrong>>

NextDay ==
  /\ today < MaxDay /\ today' = today + 1
  /\ UNCHANGED <<row, stamp, waiver, told, chain, stage, seen, raced, torn, overlap, wrong>>

VisitNext ==
  \/ \E r \in Requests :
       \/ openDrawer(r) \/ saveDrawer(r) \/ postpone(r) \/ guestAsks(r) \/ guestChange(r)
       \/ sign(r) \/ Supersede(r) \/ InsertWaiver(r) \/ InsertFails(r)
       \/ gateView(r) \/ checkIn(r) \/ Compare(r) \/ WriteArrived(r) \/ AuditArrived(r)
  \/ NextDay

VisitSpec == VisitInit /\ [][VisitNext]_visitVars

-----------------------------------------------------------------------------
(* The properties.                                                         *)

(* "the screen sent the updatedAt it was showing": an edit that carries a  *)
(* stamp lands on the very booking its screen showed, whoever wrote since, *)
(* the gate and the guest included.                                        *)
StampHonoured == "blind" \notin wrong

(* The trail adds up to the booking: every entry starts where the last one *)
(* ended, save where a check-in, which takes no lock, was overtaken.       *)
TrailTellsRow ==
  \/ torn \/ \E r \in raced : stage[r] = "audit"
  \/ chain /\ ((\A r \in Requests : stage[r] # "audit") => told = row)

(* Nobody arrives with waivers missing or over a limit and no override,    *)
(* unless a write came between scan and save, or the arrival itself grew   *)
(* the party.                                                              *)
ArrivalChecked == "plain" \notin wrong

(* "Only the latest signature of each participant counts": whoever signed, *)
(* with no second signature in progress and none that failed half-way, has *)
(* exactly one current waiver, numbered by how often they signed.          *)
LatestCounts ==
  \A p \in People \ overlap :
    LET signed == {r \in Requests : waiver[r].who = p}
        busy == \E r \in Requests : stage[r] \in {"supersede", "insert"} /\ seen[r].waiver.who = p
    IN  signed # {} /\ ~busy =>
          \E r \in signed : OfPerson(p) = {r} /\ waiver[r].version = Cardinality(signed)

(* Several writers of one booking: an edit that carries a stamp lands only *)
(* on the row its screen showed, and the trail tells what each write       *)
(* changed of the row it met.                                              *)
WritesAccounted == StampHonoured /\ TrailTellsRow

(* What the waivers are for: nobody arrives while the rule on missing      *)
(* signatures forbids it, unless it is overridden or a write came between  *)
(* scan and save; and of a person's signatures, made one after another,    *)
(* the latest counts, once.                                                *)
WaiversCount == ArrivalChecked /\ LatestCounts

=============================================================================
