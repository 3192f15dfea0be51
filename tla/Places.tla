------------------------------- MODULE Places -------------------------------
(***************************************************************************)
(* The places of the park: guests' holds, bookings, desk and guest edits,  *)
(* postponements and gate check-ins, all drawing on the same arrival slots *)
(* and on the same capped experience with timed sessions.                  *)
(*                                                                         *)
(* Every request is one database transaction (or, at the gate, a read and  *)
(* a later save).  PostgreSQL runs them concurrently at READ COMMITTED: a  *)
(* transaction sees what is committed when it looks, its own writes become *)
(* visible at its commit, and the locks it takes (the advisory lock of an  *)
(* arrival slot, the row of a booking, the row of the coupon) are held     *)
(* until it ends.  A request is therefore a sequence of steps: read what   *)
(* is read outside the transaction, queue for each lock, count, commit.    *)
(*                                                                         *)
(* A booking or a hold is named by the request that wrote it.  Guests are  *)
(* counted per head: a party is a number, an experience line a number of   *)
(* heads in one variant and, maybe, one session.                           *)
(***************************************************************************)
EXTENDS Naturals, FiniteSets

CONSTANTS
  Tx,            \* requests; each one runs once
  NoTx,          \* no request
  Days,          \* visit dates
  Times,         \* session times of the capped experience
  LateTimes,     \* those at 12:00 or later
  NoTime,        \* a line without a session
  Variants,      \* options of the experience, one line each
  Baskets,       \* the sets of lines a request may ask for
  NoItems,       \* an edit that sends no lines
  Keys,          \* idempotency keys
  NoKey,         \* a request without one
  MaxParty,      \* bound: guests in a party
  SlotCapacity,  \* guests one arrival slot takes
  ActivityCap,   \* guests the experience takes per arrival slot
  SessionCap,    \* guests one session takes
  MaxUses,       \* uses of the coupon
  RefMaxTries,   \* attempts at a free booking reference
  Ops            \* the handlers that run in this instance

Slots == Days \X {"morning", "afternoon"}

Line == [variant : Variants, n : 1..MaxParty, time : Times \cup {NoTime}]

Status == {"none", "held", "lapsed", "confirmed", "arrived", "cancelled", "postponed"}

BookingStatus == {"confirmed", "arrived", "cancelled", "postponed"}

Row == [status : Status, slot : Slots, party : 0..MaxParty, lines : SUBSET Line,
        key : Keys \cup {NoKey}, coupon : BOOLEAN]

Request == [op : {"none", "create", "hold", "edit", "checkIn"},
            own : Tx \cup {NoTx},      \* the hold it replaces, the booking it edits
            row : Row,                 \* what it will write
            asked : SUBSET Line,       \* the lines the capacity check counts
            places : BOOLEAN,          \* does it reserve places
            consume : BOOLEAN,         \* does it count a coupon use
            tries : 0..RefMaxTries]

Step == {"idle", "row", "coupon", "slot", "check", "insert", "commit", "save",
         "ok", "twin", "refused", "aborted"}

Ended == {"ok", "twin", "refused", "aborted"}

ASSUME PlacesAssumption ==
  /\ IsFiniteSet(Tx)
  /\ Days # {}
  /\ NoTx \notin Tx
  /\ NoKey \notin Keys
  /\ NoTime \notin Times
  /\ LateTimes \subseteq Times
  /\ {MaxParty, SlotCapacity, ActivityCap, SessionCap, MaxUses, RefMaxTries} \subseteq Nat
  /\ Baskets \subseteq SUBSET Line
  /\ IsFiniteSet(Line)
  /\ NoItems \notin Baskets

VARIABLES
  pc,          \* where each request is
  req,         \* what each request carries
  row,         \* the slot_holds and bookings rows, with their lines
  slotLock,    \* advisory lock of each (date, slot)
  rowLock,     \* row lock of each booking
  couponLock,  \* row lock of the coupon
  uses,        \* coupon uses counted
  closed,      \* arrival slots closed in the calendar
  reserved     \* history: what reservePlaces granted each row, "party" and "lines"

vars == <<pc, req, row, slotLock, rowLock, couponLock, uses, closed, reserved>>

NoRow == [status |-> "none", slot |-> CHOOSE s \in Slots : TRUE, party |-> 0,
          lines |-> {}, key |-> NoKey, coupon |-> FALSE]

NoRequest == [op |-> "none", own |-> NoTx, row |-> NoRow, asked |-> {},
              places |-> FALSE, consume |-> FALSE, tries |-> 0]

TypeOK ==
  /\ pc \in [Tx -> Step]
  /\ req \in [Tx -> Request]
  /\ row \in [Tx -> Row]
  /\ slotLock \in [Slots -> Tx \cup {NoTx}]
  /\ rowLock \in [Tx -> Tx \cup {NoTx}]
  /\ couponLock \in Tx \cup {NoTx}
  /\ uses \in Nat
  /\ closed \in SUBSET Slots
  /\ reserved \in [Tx -> SUBSET {"party", "lines"}]

Init ==
  /\ pc = [t \in Tx |-> "idle"]
  /\ req = [t \in Tx |-> NoRequest]
  /\ row = [t \in Tx |-> NoRow]
  /\ slotLock = [s \in Slots |-> NoTx]
  /\ rowLock = [t \in Tx |-> NoTx]
  /\ couponLock = NoTx
  /\ uses = 0
  /\ closed = {}
  /\ reserved = [t \in Tx |-> {}]

-----------------------------------------------------------------------------
(* What the counting queries of capacity.ts see.                           *)

IsBooking(r) == row[r].status \in BookingStatus
IsHold(r) == row[r].status \in {"held", "lapsed"}

(* A hold not yet expired, or a booking neither cancelled nor postponed.   *)
Live(r) == row[r].status \in {"held", "confirmed", "arrived"}

(* The heads the rows R take in an arrival slot, one pair per head.        *)
Guests(s, R) ==
  {g \in R \X (1..MaxParty) :
     /\ Live(g[1])
     /\ row[g[1]].slot = s
     /\ g[2] <= row[g[1]].party}

(* The heads the rows R put on the experience in an arrival slot.          *)
activityGuests(s, R) ==
  {g \in R \X Line \X (1..MaxParty) :
     /\ Live(g[1])
     /\ row[g[1]].slot = s
     /\ g[2] \in row[g[1]].lines
     /\ g[3] <= g[2].n}

(* The heads the rows R put in one session on a date, whichever arrival    *)
(* slot they come in by.                                                   *)
sessionGuests(d, time, R) ==
  {g \in R \X Line \X (1..MaxParty) :
     /\ Live(g[1])
     /\ row[g[1]].slot[1] = d
     /\ g[2] \in row[g[1]].lines
     /\ g[2].time = time
     /\ g[3] <= g[2].n}

(* Sessions a guest arriving in this slot can take.                        *)
sessionsForSlot(s) == IF s[2] = "morning" THEN Times ELSE LateTimes

(* Mutant: a guest's own hold counts against the booking it is for.        *)
OthersAndOwn(t) == Tx

(* A request's own hold, or the booking it edits, does not count.          *)
Others(t) == Tx \ {req[t].own}

(* Mutant: holds are left out of the count.                                *)
HasRoomBookingsOnly(t) ==
  LET s == req[t].row.slot
  IN  Cardinality(Guests(s, {r \in Others(t) : IsBooking(r)})) + req[t].row.party <= SlotCapacity

HasRoom(t) ==
  LET s == req[t].row.slot
  IN  Cardinality(Guests(s, Others(t))) + req[t].row.party <= SlotCapacity

(* Mutant: a line is let in while there is any room, whatever its guests.  *)
LineHasSomeRoom(t, l) ==
  LET s == req[t].row.slot
  IN  /\ l.time # NoTime =>
           /\ l.time \in sessionsForSlot(s)
           /\ Cardinality(sessionGuests(s[1], l.time, Others(t))) <= SessionCap
      /\ Cardinality(activityGuests(s, Others(t))) <= ActivityCap

(* Each line is checked on its own against what is committed: lines of the *)
(* same request do not add up.                                             *)
LineHasRoom(t, l) ==
  LET s == req[t].row.slot
  IN  /\ l.time # NoTime =>
           /\ l.time \in sessionsForSlot(s)
           /\ Cardinality(sessionGuests(s[1], l.time, Others(t))) + l.n <= SessionCap
      /\ Cardinality(activityGuests(s, Others(t))) + l.n <= ActivityCap

reservePlaces(t) == HasRoom(t) /\ \A l \in req[t].asked : LineHasRoom(t, l)

-----------------------------------------------------------------------------
(* Locks end with the transaction.                                         *)
ReleaseLocks(t) ==
  /\ slotLock' = [s \in Slots |-> IF slotLock[s] = t THEN NoTx ELSE slotLock[s]]
  /\ rowLock' = [r \in Tx |-> IF rowLock[r] = t THEN NoTx ELSE rowLock[r]]
  /\ couponLock' = IF couponLock = t THEN NoTx ELSE couponLock

(* Mutant: an error path that leaves the transaction, and its locks, open. *)
RollbackForgotten(t, outcome) ==
  /\ pc' = [pc EXCEPT ![t] = outcome]
  /\ UNCHANGED <<slotLock, rowLock, couponLock, req, row, uses, closed, reserved>>

(* The transaction ends without a trace.                                   *)
Rollback(t, outcome) ==
  /\ pc' = [pc EXCEPT ![t] = outcome]
  /\ ReleaseLocks(t)
  /\ UNCHANGED <<req, row, uses, closed, reserved>>

KeyTaken(k) == k # NoKey /\ \E r \in Tx : row[r].key = k

(* checkParty: no line counts more people than the party.                  *)
LinesFitParty(lines, party) == \A l \in lines : l.n <= party

(* A new row on a chosen slot, as the booking page asks for it.  The page  *)
(* may name a hold it was given, gone or not; it makes one key per attempt,*)
(* so a resend carries the same booking.                                   *)
FromPage(t, op, status) ==
  \E s \in Slots, party \in 1..MaxParty, lines \in Baskets, k \in Keys \cup {NoKey},
     coupon \in BOOLEAN, h \in {NoTx} \cup {x \in Tx : req[x].op = "hold" /\ pc[x] = "ok"} :
    /\ LinesFitParty(lines, party)
    /\ coupon => "coupon" \in Ops
    /\ op = "hold" => k = NoKey /\ ~coupon
    /\ req' = [req EXCEPT ![t] =
         [op |-> op, own |-> h,
          row |-> [status |-> status, slot |-> s, party |-> party, lines |-> lines,
                   key |-> k, coupon |-> coupon],
          asked |-> lines, places |-> TRUE, consume |-> coupon, tries |-> 0]]
    /\ \A u \in Tx : k # NoKey /\ req[u].op = "create" /\ req[u].row.key = k
         => req[u].row = req'[t].row /\ req[u].own = h

(* POST /bookings: the key is looked up, the coupon and the calendar are   *)
(* read, all before the transaction.                                       *)
Create(t) ==
  /\ "create" \in Ops /\ pc[t] = "idle"
  /\ FromPage(t, "create", "confirmed")
  /\ pc' = [pc EXCEPT ![t] =
       IF KeyTaken(req'[t].row.key) THEN "twin"
       ELSE IF (req'[t].consume /\ uses >= MaxUses) \/ req'[t].row.slot \in closed THEN "refused"
       ELSE "slot"]
  /\ UNCHANGED <<row, slotLock, rowLock, couponLock, uses, closed, reserved>>

(* POST /bookings/hold: an earlier hold of the same guest is deleted first.*)
HoldPlaces(t) ==
  /\ "hold" \in Ops /\ pc[t] = "idle"
  /\ FromPage(t, "hold", "held")
  /\ pc' = [pc EXCEPT ![t] = IF req'[t].row.slot \in closed THEN "refused"
                              ELSE IF req'[t].own = NoTx THEN "slot" ELSE "row"]
  /\ UNCHANGED <<row, slotLock, rowLock, couponLock, uses, closed, reserved>>

(* Deleting a hold locks its row until the transaction ends.  hold deletes *)
(* before it queues for the slot, create after it has counted.  A hold     *)
(* already gone locks nothing.                                             *)
DeleteHold(t) ==
  /\ pc[t] = "row" /\ req[t].op \in {"hold", "create"}
  /\ rowLock[req[t].own] = NoTx
  /\ rowLock' = IF IsHold(req[t].own) THEN [rowLock EXCEPT ![req[t].own] = t] ELSE rowLock
  /\ pc' = [pc EXCEPT ![t] = IF req[t].op = "hold" THEN "slot" ELSE "insert"]
  /\ UNCHANGED <<req, row, slotLock, couponLock, uses, closed, reserved>>

(* Lines fitted to a new party: a line of the whole old party follows the  *)
(* new one, any other is clamped to it.                                    *)
fitLinesToParty(lines, from, to) ==
  {[l EXCEPT !.n = IF l.n = from THEN to ELSE IF l.n < to THEN l.n ELSE to] : l \in lines}

(* Lines sent without a time keep the one the booking already had.         *)
repricingItems(sent, existing) ==
  {[l EXCEPT !.time =
      IF l.time = NoTime /\ \E e \in existing : e.variant = l.variant
        THEN (CHOOSE e \in existing : e.variant = l.variant).time ELSE l.time] : l \in sent}

(* PATCH of a booking by the desk, or by its guest from the ticket page.   *)
Edit(t) ==
  /\ "edit" \in Ops /\ pc[t] = "idle"
  /\ \E b \in Tx : IsBooking(b) /\ req' = [req EXCEPT ![t] = [NoRequest EXCEPT !.op = "edit", !.own = b]]
  /\ pc' = [pc EXCEPT ![t] = "row"]
  /\ UNCHANGED <<row, slotLock, rowLock, couponLock, uses, closed, reserved>>

(* The next step of an edit once its coupon, if any, is counted: the       *)
(* calendar is read and the slot queued for, when places are touched.      *)
AfterMoney(t) == IF ~req'[t].places THEN "commit"
                 ELSE IF req'[t].row.slot \in closed THEN "refused" ELSE "slot"

(* The patch, worked out on the locked row: the lines fitted to the party, *)
(* the fields that really move, what must be re-priced, what needs places. *)
(* A patch that moves nothing changes nothing.                             *)
Patch(t, s, party, status, items, coupon) ==
  LET b == req[t].own
      old == row[b]
      fitted == IF items # NoItems THEN fitLinesToParty(items, 0, party)
                ELSE IF party = old.party THEN old.lines
                ELSE fitLinesToParty(old.lines, old.party, party)
      sends == items # NoItems \/ fitted # old.lines
      placed == s # old.slot \/ party # old.party \/ status # old.status
      recoded == coupon # "keep" /\ (coupon = "set") # old.coupon
      money == party # old.party \/ sends \/ recoded
      lines == IF sends THEN repricingItems(fitted, old.lines) ELSE old.lines
  IN  IF ~(placed \/ sends \/ recoded) THEN NoRequest
      ELSE [op |-> "edit", own |-> b,
            row |-> [status |-> status, slot |-> s, party |-> party, lines |-> lines, key |-> old.key,
                     coupon |-> IF money /\ coupon # "keep" THEN coupon = "set" ELSE old.coupon],
            asked |-> IF sends THEN fitted ELSE lines,
            places |-> placed /\ status \notin {"cancelled", "postponed"},
            consume |-> money /\ coupon = "set",
            tries |-> 0]

LockBooking(t) ==
  /\ pc[t] = "row" /\ req[t].op = "edit"
  /\ rowLock[req[t].own] = NoTx
  /\ \E s \in Slots, party \in 1..MaxParty, status \in BookingStatus,
        items \in Baskets \cup {NoItems}, coupon \in {"keep"} \cup (IF "coupon" \in Ops THEN {"set", "clear"} ELSE {}) :
       req' = [req EXCEPT ![t] = Patch(t, s, party, status, items, coupon)]
  /\ \/ /\ req'[t].op = "none"
        /\ pc' = [pc EXCEPT ![t] = "ok"]
        /\ UNCHANGED rowLock
     \/ /\ req'[t].op = "edit"
        /\ pc' = [pc EXCEPT ![t] = IF ~req'[t].consume THEN AfterMoney(t)
                                    ELSE IF uses >= MaxUses THEN "refused" ELSE "coupon"]
        /\ rowLock' = IF pc'[t] = "refused" THEN rowLock ELSE [rowLock EXCEPT ![req[t].own] = t]
  /\ UNCHANGED <<row, slotLock, couponLock, uses, closed, reserved>>

(* Mutant: the limit read before the transaction is trusted.               *)
LockCouponUnchecked(t) ==
  /\ pc[t] = "coupon" /\ couponLock = NoTx
  /\ req[t].op = "create"
  /\ pc' = [pc EXCEPT ![t] = "commit"]
  /\ couponLock' = t
  /\ UNCHANGED <<req, row, slotLock, rowLock, uses, closed, reserved>>

(* CouponsService.consume: the coupon row locked, the limit checked again. *)
(* create counts the coupon last, an edit before it queues for the slot.   *)
LockCoupon(t) ==
  /\ pc[t] = "coupon" /\ couponLock = NoTx
  /\ uses < MaxUses
  /\ \/ /\ req[t].op = "create"
        /\ pc' = [pc EXCEPT ![t] = "commit"]
     \/ /\ req[t].op = "edit"
        /\ req[t].places => req[t].row.slot \notin closed
        /\ pc' = [pc EXCEPT ![t] = IF req[t].places THEN "slot" ELSE "commit"]
  /\ couponLock' = t
  /\ UNCHANGED <<req, row, slotLock, rowLock, uses, closed, reserved>>

CouponRefused(t) ==
  /\ pc[t] = "coupon" /\ couponLock = NoTx
  /\ \/ uses >= MaxUses
     \/ req[t].op = "edit" /\ req[t].places /\ req[t].row.slot \in closed
  /\ Rollback(t, "refused")

(* Mutant: nobody queues for the slot.                                     *)
LockSlotNever(t) ==
  /\ pc[t] = "slot"
  /\ pc' = [pc EXCEPT ![t] = "check"]
  /\ UNCHANGED <<req, row, slotLock, rowLock, couponLock, uses, closed, reserved>>

(* pg_advisory_xact_lock on (date, slot).                                  *)
LockSlot(t) ==
  /\ pc[t] = "slot" /\ slotLock[req[t].row.slot] = NoTx
  /\ slotLock' = [slotLock EXCEPT ![req[t].row.slot] = t]
  /\ pc' = [pc EXCEPT ![t] = "check"]
  /\ UNCHANGED <<req, row, rowLock, couponLock, uses, closed, reserved>>

(* Counting under the lock.                                                *)
Reserve(t) ==
  /\ pc[t] = "check"
  /\ reservePlaces(t)
  /\ pc' = [pc EXCEPT ![t] = IF req[t].op # "create" THEN "commit"
                              ELSE IF req[t].own = NoTx THEN "insert" ELSE "row"]
  /\ UNCHANGED <<req, row, slotLock, rowLock, couponLock, uses, closed, reserved>>

Full(t) ==
  /\ pc[t] = "check"
  /\ ~reservePlaces(t)
  /\ Rollback(t, "refused")

(* Mutant: no unique index on the key.                                     *)
InsertTwice(t) ==
  /\ pc[t] = "insert"
  /\ pc' = [pc EXCEPT ![t] = IF req[t].consume THEN "coupon" ELSE "commit"]
  /\ UNCHANGED <<req, row, slotLock, rowLock, couponLock, uses, closed, reserved>>

(* The booking is inserted unless its key is already there.                *)
Insert(t) ==
  /\ pc[t] = "insert"
  /\ ~KeyTaken(req[t].row.key)
  /\ pc' = [pc EXCEPT ![t] = IF req[t].consume THEN "coupon" ELSE "commit"]
  /\ UNCHANGED <<req, row, slotLock, rowLock, couponLock, uses, closed, reserved>>

(* The unique index on the key: the twin's booking is handed back.         *)
TwinFirst(t) ==
  /\ pc[t] = "insert"
  /\ KeyTaken(req[t].row.key)
  /\ Rollback(t, "twin")

(* Mutant: one attempt too many.                                           *)
RefCollisionOnceMore(t) ==
  /\ pc[t] = "insert"
  /\ \E r \in Tx : IsBooking(r)
  /\ req' = [req EXCEPT ![t].tries = @ + 1]
  /\ pc' = [pc EXCEPT ![t] = IF req'[t].tries > RefMaxTries THEN "refused" ELSE "slot"]
  /\ ReleaseLocks(t)
  /\ UNCHANGED <<row, uses, closed, reserved>>

(* The unique index on the reference: the whole transaction runs again     *)
(* with another one, up to RefMaxTries times.                              *)
RefCollision(t) ==
  /\ pc[t] = "insert"
  /\ \E r \in Tx : IsBooking(r)
  /\ req[t].tries < RefMaxTries
  /\ req' = [req EXCEPT ![t].tries = @ + 1]
  /\ pc' = [pc EXCEPT ![t] = IF req'[t].tries = RefMaxTries THEN "refused" ELSE "slot"]
  /\ ReleaseLocks(t)
  /\ UNCHANGED <<row, uses, closed, reserved>>

(* What reservePlaces stands behind after an edit of r to the new values.  *)
Granted(t, r) ==
  IF req[t].places
    THEN {"party"} \cup (IF req[t].asked = req[t].row.lines THEN {"lines"} ELSE {})
  ELSE IF req[t].row.status \in {"cancelled", "postponed"} THEN {}
  ELSE IF req[t].row.lines = row[r].lines THEN reserved[r] ELSE reserved[r] \ {"lines"}

(* All the writes of the transaction become visible and its locks go.      *)
Commit(t) ==
  LET target == IF req[t].op = "edit" THEN req[t].own ELSE t
  IN  /\ pc[t] = "commit"
      /\ row' = [r \in Tx |-> IF r = target THEN req[t].row
                               ELSE IF r = req[t].own THEN NoRow ELSE row[r]]
      /\ reserved' = [r \in Tx |-> IF r = target THEN Granted(t, target)
                                    ELSE IF r = req[t].own THEN {} ELSE reserved[r]]
      /\ uses' = IF req[t].consume THEN uses + 1 ELSE uses
      /\ pc' = [pc EXCEPT ![t] = "ok"]
      /\ ReleaseLocks(t)
      /\ UNCHANGED <<req, closed>>

(* DELETE of a hold, when the guest leaves the page.                       *)
ReleaseHold(h) ==
  /\ "hold" \in Ops /\ IsHold(h) /\ rowLock[h] = NoTx
  /\ row' = [row EXCEPT ![h] = NoRow]
  /\ reserved' = [reserved EXCEPT ![h] = {}]
  /\ UNCHANGED <<pc, req, slotLock, rowLock, couponLock, uses, closed>>

(* HOLD_MINUTES pass: the hold stops counting.                             *)
Expire(h) ==
  /\ row[h].status = "held"
  /\ row' = [row EXCEPT ![h].status = "lapsed"]
  /\ reserved' = [reserved EXCEPT ![h] = {}]
  /\ UNCHANGED <<pc, req, slotLock, rowLock, couponLock, uses, closed>>

(* A weather day: one locked row, one commit.                              *)
Postpone(b) ==
  /\ "postpone" \in Ops /\ IsBooking(b) /\ rowLock[b] = NoTx
  /\ row[b].status \notin {"cancelled", "postponed"}
  /\ row' = [row EXCEPT ![b].status = "postponed"]
  /\ reserved' = [reserved EXCEPT ![b] = {}]
  /\ UNCHANGED <<pc, req, slotLock, rowLock, couponLock, uses, closed>>

(* The gate reads the booking, without a lock ...                          *)
CheckIn(t) ==
  /\ "checkIn" \in Ops /\ pc[t] = "idle"
  /\ \E b \in Tx :
       /\ row[b].status \in {"confirmed", "postponed"}
       /\ req' = [req EXCEPT ![t] = [NoRequest EXCEPT !.op = "checkIn", !.own = b,
                                       !.row = [row[b] EXCEPT !.status = "arrived"]]]
  /\ pc' = [pc EXCEPT ![t] = "save"]
  /\ UNCHANGED <<row, slotLock, rowLock, couponLock, uses, closed, reserved>>

(* ... and saves it whole as arrived: columns changed in between go back to*)
(* what the gate had read.  Lines live in a table of their own.            *)
SaveArrival(t) ==
  LET b == req[t].own
      same == Live(b) /\ row[b].slot = req[t].row.slot /\ row[b].party = req[t].row.party
  IN  /\ pc[t] = "save" /\ rowLock[b] = NoTx
      /\ row' = [row EXCEPT ![b] = [req[t].row EXCEPT !.lines = row[b].lines]]
      /\ reserved' = [reserved EXCEPT ![b] = IF same THEN @ ELSE {}]
      /\ pc' = [pc EXCEPT ![t] = "ok"]
      /\ UNCHANGED <<req, slotLock, rowLock, couponLock, uses, closed>>

(* The back office saves the calendar: a slot closed or opened.            *)
SaveCalendar ==
  /\ "calendar" \in Ops
  /\ \E s \in Slots : closed' = IF s \in closed THEN closed \ {s} ELSE closed \cup {s}
  /\ UNCHANGED <<pc, req, row, slotLock, rowLock, couponLock, uses, reserved>>

(* Whom a queued request waits for.                                        *)
Holder(t) == CASE pc[t] = "slot" -> slotLock[req[t].row.slot]
               [] pc[t] = "coupon" -> couponLock
               [] pc[t] \in {"row", "save"} -> rowLock[req[t].own]
               [] OTHER -> NoTx

(* PostgreSQL aborts one of a circle of waiting transactions.              *)
DeadlockVictim(t) ==
  /\ \E circle \in SUBSET Tx : t \in circle /\ \A u \in circle : Holder(u) \in circle
  /\ Rollback(t, "aborted")

Proceed(t) ==
  \/ DeleteHold(t) \/ LockBooking(t) \/ LockCoupon(t) \/ CouponRefused(t)
  \/ LockSlot(t) \/ Reserve(t) \/ Full(t) \/ Insert(t) \/ TwinFirst(t)
  \/ Commit(t) \/ SaveArrival(t) \/ DeadlockVictim(t)

Next ==
  \/ \E t \in Tx : \/ Create(t) \/ HoldPlaces(t) \/ Edit(t) \/ CheckIn(t)
                   \/ Proceed(t) \/ RefCollision(t)
                   \/ ReleaseHold(t) \/ Expire(t) \/ Postpone(t)
  \/ SaveCalendar

Spec == Init /\ [][Next]_vars

(* A request that was begun goes on: the database grants a free lock to    *)
(* somebody in its queue and breaks circles after deadlock_timeout.        *)
FairSpec == Spec /\ \A t \in Tx : WF_vars(Proceed(t))

-----------------------------------------------------------------------------
(* The properties.                                                         *)

Reserved(what) == {r \in Tx : what \in reserved[r]}

(* Rows whose lines went through the check one experience line at a time.  *)
SingleLine == {r \in Reserved("lines") : Cardinality(row[r].lines) <= 1}

(* Guests holding or booking places through reservePlaces never outnumber  *)
(* the slot, whatever holds, bookings, edits, cancellations, expiries and  *)
(* check-ins run at once: the check and the write it allows are one unit   *)
(* under the slot's advisory lock.                                         *)
SlotWithinCapacity ==
  \A s \in Slots : Cardinality(Guests(s, Reserved("party"))) <= SlotCapacity

(* The same for the experience, in each arrival slot.                      *)
ActivityWithinCap ==
  \A s \in Slots : Cardinality(activityGuests(s, SingleLine)) <= ActivityCap

(* A session is counted over the whole day but locked per arrival slot:    *)
(* what the check guarantees is that the guests of one arrival slot alone  *)
(* never overfill it.                                                      *)
SessionWithinCapPerSlot ==
  \A s \in Slots, time \in Times :
    Cardinality(sessionGuests(s[1], time, {r \in SingleLine : row[r].slot = s})) <= SessionCap

(* Both caps of the experiences, as far as the slot's lock reaches.        *)
CapsKept == ActivityWithinCap /\ SessionWithinCapPerSlot

(* "so the last spots are not taken by someone else mid-form": a guest     *)
(* whose hold is alive gets a booking of no more people into the slot it   *)
(* holds, unless the gate let unreserved guests in.                        *)
HoldHonoured ==
  \A t \in Tx :
    /\ pc[t] = "check" /\ req[t].op = "create" /\ req[t].own # NoTx
    /\ row[req[t].own].status = "held"
    /\ row[req[t].own].slot = req[t].row.slot
    /\ req[t].row.party <= row[req[t].own].party
    /\ \A r \in Tx : Live(r) /\ row[r].slot = req[t].row.slot => "party" \in reserved[r]
    => HasRoom(t)

(* A double tap or a retry never books twice.                              *)
OneBookingPerKey ==
  \A r1, r2 \in Tx : row[r1].key = row[r2].key /\ row[r1].key # NoKey => r1 = r2

(* The coupon is never used more often than it allows, and every booking   *)
(* that carries it was counted.                                            *)
CouponWithinMax ==
  /\ uses <= MaxUses
  /\ Cardinality({r \in Tx : row[r].coupon}) <= uses

(* Every request begun is answered: no wait lasts for ever, although holds,*)
(* bookings and edits take their locks in different orders.                *)
EveryRequestEnds ==
  \A t \in Tx : pc[t] \notin Ended \cup {"idle"} ~> pc[t] \in Ended

(* Seen from outside, all of it is a ledger of grants that changes in      *)
(* single steps: the queueing, counting and writing of a request come down *)
(* to one grant at its commit.                                             *)
Granting == [r \in Tx |-> IF "party" \in reserved[r]
                            THEN [slot |-> row[r].slot, n |-> row[r].party]
                            ELSE [slot |-> NoRow.slot, n |-> 0]]

Ledger == INSTANCE PlaceLedger WITH Holders <- Tx, Capacity <- SlotCapacity, grant <- Granting

ImplementsLedger == Ledger!Spec

(* "so two parties racing for the last places are serialised": a session   *)
(* never takes more guests than it has places for.                         *)
NoSessionOverbooked ==
  \A d \in Days, time \in Times : Cardinality(sessionGuests(d, time, Tx)) <= SessionCap

=============================================================================
