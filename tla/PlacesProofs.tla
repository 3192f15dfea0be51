---------------------------- MODULE PlacesProofs ----------------------------
(***************************************************************************)
(* Places, proved for every set of requests, days, slots, baskets and      *)
(* limits: its types, and that reserved guests never outnumber a slot; and *)
(* what rests on it: a hold is honoured, a key books once, a coupon is not *)
(* overspent, all of it is the ledger of PlaceLedger, and neither the      *)
(* experience nor any of its sessions goes beyond its cap.                 *)
(***************************************************************************)
EXTENDS Places, FiniteSetTheorems, TLAPS

-----------------------------------------------------------------------------
(* The inductive invariant, part by part.                                  *)

(* A row says which request wrote it; a request says what it may write.    *)
(* Bookings are never deleted, holds never become bookings in place.       *)
Kinds ==
  /\ \A r \in Tx : IsBooking(r) => req[r].op = "create" /\ pc[r] = "ok"
  /\ \A r \in Tx : IsHold(r) => req[r].op = "hold" /\ pc[r] = "ok"
  /\ \A t \in Tx : pc[t] = "idle" => req[t].op = "none"
  /\ \A t \in Tx : req[t].op \in {"edit", "checkIn"} => req[t].own \in Tx /\ IsBooking(req[t].own)
  /\ \A t \in Tx : req[t].op \in {"create", "hold"} /\ req[t].own # NoTx
       => req[req[t].own].op = "hold" /\ pc[req[t].own] = "ok"
  /\ \A t \in Tx : req[t].op = "create" => req[t].row.status = "confirmed" /\ req[t].places
  /\ \A t \in Tx : req[t].op = "hold" => req[t].row.status = "held" /\ req[t].places
  /\ \A t \in Tx : req[t].op = "checkIn" => req[t].row.status = "arrived"
  /\ \A t \in Tx : req[t].op = "edit" /\ pc[t] \in {"coupon", "slot", "check", "commit"}
       => /\ req[t].row.status \in BookingStatus
          /\ req[t].places => req[t].row.status \in {"confirmed", "arrived"}

(* Which handlers pass through which step.                                 *)
StepOf ==
  /\ \A t \in Tx : pc[t] = "save" => req[t].op = "checkIn"
  /\ \A t \in Tx : pc[t] \in {"slot", "check"} => req[t].places /\ req[t].op \in {"create", "hold", "edit"}
  /\ \A t \in Tx : pc[t] = "insert" => req[t].op = "create"
  /\ \A t \in Tx : pc[t] = "coupon" => req[t].op \in {"create", "edit"}
  /\ \A t \in Tx : pc[t] = "commit" => req[t].op \in {"create", "hold", "edit"}
  /\ \A t \in Tx : pc[t] = "row" =>
       req[t].op = "edit" \/ (req[t].op \in {"create", "hold"} /\ req[t].own # NoTx)

(* A grant is of a row that counts.                                        *)
GrantsLive == \A r \in Tx : "party" \in reserved[r] => Live(r)

(* The requests that have counted and not yet committed.                   *)
Past(t) == \/ pc[t] = "commit" /\ req[t].places
           \/ pc[t] \in {"row", "insert", "coupon"} /\ req[t].op = "create"

(* From the count to the commit the slot is locked, and an edit keeps the  *)
(* row of its booking from when it read it.                                *)
Locked(t) ==
  /\ pc[t] = "check" \/ Past(t) => slotLock[req[t].row.slot] = t
  /\ req[t].op = "edit" /\ pc[t] \in {"coupon", "slot", "check", "commit"} => rowLock[req[t].own] = t

(* An edit that skips the check leaves the party where it was, or frees it.*)
Unmoved(t) ==
  req[t].op = "edit" /\ pc[t] \in {"coupon", "commit"} /\ ~req[t].places
    => LET old == row[req[t].own]
       IN  \/ req[t].row.status \in {"cancelled", "postponed"}
           \/ /\ req[t].row.status = old.status
              /\ req[t].row.slot = old.slot
              /\ req[t].row.party = old.party

(* What was counted stays true until the commit: nobody else can be        *)
(* granted places in the slot in between.                                  *)
GrantedExcept(s, x) == Guests(s, Reserved("party") \ {x})

RoomKept(t) ==
  Past(t) => Cardinality(GrantedExcept(req[t].row.slot, req[t].own)) + req[t].row.party <= SlotCapacity

TypeInv == TypeOK /\ Kinds /\ StepOf

LockInv == TypeInv /\ GrantsLive /\ \A t \in Tx : Locked(t) /\ Unmoved(t)

PlaceInv == LockInv /\ SlotWithinCapacity /\ \A t \in Tx : RoomKept(t)

-----------------------------------------------------------------------------
(* Types.                                                                  *)

LEMMA NoRowType == NoRow \in Row /\ NoRequest \in Request
  <1>1. \E s \in Slots : TRUE
    <2>1. PICK d \in Days : TRUE
      BY PlacesAssumption
    <2>2. <<d, "morning">> \in Slots
      BY DEF Slots
    <2>3. QED
      BY <2>2
  <1>2. (CHOOSE s \in Slots : TRUE) \in Slots
    BY <1>1
  <1>3. 0 \in 0..MaxParty /\ 0 \in 0..RefMaxTries
    BY PlacesAssumption
  <1>4. NoRow \in Row
    BY <1>2, <1>3 DEF NoRow, Row, Status
  <1>5. QED
    BY <1>3, <1>4 DEF NoRequest, Request

LEMMA LineType ==
  ASSUME NEW l \in Line
  PROVE  /\ l.n \in 1..MaxParty
         /\ l.time \in Times \cup {NoTime}
         /\ \A n \in 1..MaxParty : [l EXCEPT !.n = n] \in Line
         /\ \A tm \in Times \cup {NoTime} : [l EXCEPT !.time = tm] \in Line
  BY DEF Line

LEMMA FitType ==
  ASSUME NEW lines \in SUBSET Line, NEW from \in 0..MaxParty, NEW to \in 1..MaxParty
  PROVE  fitLinesToParty(lines, from, to) \in SUBSET Line
  <1>1. ASSUME NEW l \in lines
        PROVE  [l EXCEPT !.n = IF l.n = from THEN to ELSE IF l.n < to THEN l.n ELSE to] \in Line
    BY LineType
  <1>2. QED
    BY <1>1 DEF fitLinesToParty

LEMMA RepricingType ==
  ASSUME NEW sent \in SUBSET Line, NEW existing \in SUBSET Line
  PROVE  repricingItems(sent, existing) \in SUBSET Line
  <1>1. ASSUME NEW l \in sent, \E e \in existing : e.variant = l.variant
        PROVE  (CHOOSE e \in existing : e.variant = l.variant).time \in Times \cup {NoTime}
    BY <1>1, LineType
  <1>2. ASSUME NEW l \in sent
        PROVE  [l EXCEPT !.time =
                  IF l.time = NoTime /\ \E e \in existing : e.variant = l.variant
                    THEN (CHOOSE e \in existing : e.variant = l.variant).time ELSE l.time] \in Line
    BY <1>1, LineType
  <1>3. QED
    BY <1>2 DEF repricingItems

-----------------------------------------------------------------------------
(* Requests, as the page sends them and as an edit works them out.         *)

LEMMA FromPageType ==
  ASSUME TypeOK, NEW t \in Tx, NEW op \in {"create", "hold"}, NEW status \in Status,
         FromPage(t, op, status)
  PROVE  \E q \in Request :
           /\ req' = [req EXCEPT ![t] = q]
           /\ q.op = op /\ q.places /\ q.row.status = status
           /\ q.own # NoTx => q.own \in Tx /\ req[q.own].op = "hold" /\ pc[q.own] = "ok"
           /\ \A u \in Tx : q.row.key # NoKey /\ req[u].op = "create" /\ req[u].row.key = q.row.key
                => req[u].row = q.row
  <1>1. PICK s \in Slots, party \in 1..MaxParty, lines \in Baskets, k \in Keys \cup {NoKey},
             coupon \in BOOLEAN,
             h \in {NoTx} \cup {x \in Tx : req[x].op = "hold" /\ pc[x] = "ok"} :
          /\ LinesFitParty(lines, party)
          /\ coupon => "coupon" \in Ops
          /\ op = "hold" => k = NoKey /\ ~coupon
          /\ req' = [req EXCEPT ![t] =
               [op |-> op, own |-> h,
                row |-> [status |-> status, slot |-> s, party |-> party, lines |-> lines,
                         key |-> k, coupon |-> coupon],
                asked |-> lines, places |-> TRUE, consume |-> coupon, tries |-> 0]]
          /\ \A u \in Tx : k # NoKey /\ req[u].op = "create" /\ req[u].row.key = k
               => req[u].row = req'[t].row /\ req[u].own = h
    BY DEF FromPage
  <1> DEFINE r == [status |-> status, slot |-> s, party |-> party, lines |-> lines,
                   key |-> k, coupon |-> coupon]
             q == [op |-> op, own |-> h, row |-> r, asked |-> lines, places |-> TRUE,
                   consume |-> coupon, tries |-> 0]
  <1>2. coupon \in BOOLEAN /\ lines \in SUBSET Line /\ party \in 0..MaxParty /\ 0 \in 0..RefMaxTries
    BY PlacesAssumption
  <1>3. r \in Row
    BY <1>2 DEF Row
  <1>4. q \in Request
    BY <1>2, <1>3 DEF Request
  <1>5. req' = [req EXCEPT ![t] = q] /\ req'[t].row = q.row
    BY <1>1 DEF TypeOK
  <1>6. q.op = op /\ q.places /\ q.row.status = status /\ q.own = h /\ q.row.key = k
    OBVIOUS
  <1>7. q.own # NoTx => q.own \in Tx /\ req[q.own].op = "hold" /\ pc[q.own] = "ok"
    BY <1>6
  <1>8. \A u \in Tx : q.row.key # NoKey /\ req[u].op = "create" /\ req[u].row.key = q.row.key
          => req[u].row = q.row
    BY <1>1, <1>5, <1>6
  <1>9. QED
    BY <1>4, <1>5, <1>6, <1>7, <1>8

LEMMA PatchType ==
  ASSUME TypeOK, NEW t \in Tx, req[t].own \in Tx, IsBooking(req[t].own),
         NEW s \in Slots, NEW party \in 1..MaxParty, NEW status \in BookingStatus,
         NEW items \in Baskets \cup {NoItems}, NEW coupon \in {"keep", "set", "clear"}
  PROVE  LET q == Patch(t, s, party, status, items, coupon)
             old == row[req[t].own]
         IN  /\ q \in Request
             /\ q = NoRequest \/ q.op = "edit"
             /\ q.op = "edit" =>
                  /\ q.own = req[t].own
                  /\ q.row.status \in BookingStatus
                  /\ q.places => q.row.status \in {"confirmed", "arrived"}
                  /\ q.row.key = old.key
                  /\ ~q.places => \/ q.row.status \in {"cancelled", "postponed"}
                                  \/ /\ q.row.status = old.status
                                     /\ q.row.slot = old.slot
                                     /\ q.row.party = old.party
  <1> DEFINE b == req[t].own
             old == row[b]
             fitted == IF items # NoItems THEN fitLinesToParty(items, 0, party)
                       ELSE IF party = old.party THEN old.lines
                       ELSE fitLinesToParty(old.lines, old.party, party)
             sends == items # NoItems \/ fitted # old.lines
             placed == s # old.slot \/ party # old.party \/ status # old.status
             recoded == coupon # "keep" /\ (coupon = "set") # old.coupon
             money == party # old.party \/ sends \/ recoded
             lines == IF sends THEN repricingItems(fitted, old.lines) ELSE old.lines
             coded == IF money /\ coupon # "keep" THEN coupon = "set" ELSE old.coupon
             r == [status |-> status, slot |-> s, party |-> party, lines |-> lines, key |-> old.key,
                   coupon |-> coded]
             asked == IF sends THEN fitted ELSE lines
             places == placed /\ status \notin {"cancelled", "postponed"}
             consume == money /\ coupon = "set"
             full == [op |-> "edit", own |-> b, row |-> r, asked |-> asked, places |-> places,
                      consume |-> consume, tries |-> 0]
             q == Patch(t, s, party, status, items, coupon)
  <1>1. old \in Row /\ old.lines \in SUBSET Line /\ old.party \in 0..MaxParty
        /\ old.key \in Keys \cup {NoKey} /\ old.coupon \in BOOLEAN
    BY DEF TypeOK, Row
  <1>2. 0 \in 0..MaxParty /\ 0 \in 0..RefMaxTries /\ party \in 0..MaxParty
    BY PlacesAssumption
  <1>3. items # NoItems => items \in SUBSET Line
    BY PlacesAssumption
  <1>4. fitted \in SUBSET Line
    <2>1. CASE items # NoItems
      BY <1>2, <1>3, <2>1, FitType
    <2>2. CASE items = NoItems
      BY <1>1, <2>2, FitType
    <2>3. QED
      BY <2>1, <2>2
  <1>5. lines \in SUBSET Line
    BY <1>1, <1>4, RepricingType
  <1>6. coded \in BOOLEAN
    BY <1>1
  <1>7. status \in Status
    BY DEF BookingStatus, Status
  <1>8. r \in Row
    BY <1>1, <1>2, <1>5, <1>6, <1>7 DEF Row
  <1>9. full \in Request
    <2>1. asked \in SUBSET Line
      BY <1>4, <1>5
    <2>2. places \in BOOLEAN /\ consume \in BOOLEAN
      OBVIOUS
    <2> HIDE DEF r, asked, places, consume, b
    <2>3. b \in Tx \cup {NoTx}
      BY DEF b
    <2>4. QED
      BY <1>2, <1>8, <2>1, <2>2, <2>3 DEF Request
  <1>10. q = IF ~(placed \/ sends \/ recoded) THEN NoRequest ELSE full
    BY DEF Patch
  <1>11. q \in Request
    BY <1>9, <1>10, NoRowType
  <1>12. q = NoRequest \/ q.op = "edit"
    BY <1>10, SMTT(30)
  <1>13. ASSUME q.op = "edit"
         PROVE  q = full
    BY <1>10, <1>13, SMTT(30) DEF NoRequest
  <1>14. full.places => status \in {"confirmed", "arrived"}
    BY DEF BookingStatus
  <1>15. ~full.places => \/ status \in {"cancelled", "postponed"}
                         \/ status = old.status /\ s = old.slot /\ party = old.party
    OBVIOUS
  <1>16. full.own = b /\ full.row.status = status /\ full.row.key = old.key
         /\ full.row.slot = s /\ full.row.party = party
    OBVIOUS
  <1> HIDE DEF q, full, old, b
  <1>17. q.op = "edit" =>
           /\ q.own = b
           /\ q.row.status \in BookingStatus
           /\ q.places => q.row.status \in {"confirmed", "arrived"}
           /\ q.row.key = old.key
           /\ ~q.places => \/ q.row.status \in {"cancelled", "postponed"}
                           \/ /\ q.row.status = old.status
                              /\ q.row.slot = old.slot
                              /\ q.row.party = old.party
    BY <1>13, <1>14, <1>15, <1>16
  <1>18. QED
    BY <1>11, <1>12, <1>17 DEF q, old, b

-----------------------------------------------------------------------------
(* Every step keeps the types, the kinds and the steps of each handler.    *)

LEMMA ReleaseType ==
  ASSUME TypeOK, NEW t \in Tx, ReleaseLocks(t)
  PROVE  /\ slotLock' \in [Slots -> Tx \cup {NoTx}]
         /\ rowLock' \in [Tx -> Tx \cup {NoTx}]
         /\ couponLock' \in Tx \cup {NoTx}
  BY DEF TypeOK, ReleaseLocks

LEMMA RollbackType ==
  ASSUME TypeInv, NEW t \in Tx, NEW outcome \in {"refused", "twin", "aborted"}, Rollback(t, outcome),
         pc[t] \notin {"idle", "ok"}
  PROVE  TypeInv'
  <1>1. TypeOK'
    BY ReleaseType DEF TypeInv, Rollback, TypeOK, Step
  <1>2. Kinds'
    BY DEF TypeInv, Rollback, TypeOK, Kinds, IsBooking, IsHold
  <1>3. StepOf'
    BY DEF TypeInv, Rollback, TypeOK, StepOf
  <1>4. QED
    BY <1>1, <1>2, <1>3 DEF TypeInv

LEMMA CreateType ==
  ASSUME TypeInv, NEW t \in Tx, Create(t)
  PROVE  TypeInv'
  <1>1. FromPage(t, "create", "confirmed") /\ "confirmed" \in Status
    BY DEF Create, Status
  <1>2. PICK q \in Request :
          /\ req' = [req EXCEPT ![t] = q]
          /\ q.op = "create" /\ q.places /\ q.row.status = "confirmed"
          /\ q.own # NoTx => q.own \in Tx /\ req[q.own].op = "hold" /\ pc[q.own] = "ok"
    BY <1>1, FromPageType DEF TypeInv
  <1>3. pc[t] = "idle" /\ \E p \in {"twin", "refused", "slot"} : pc' = [pc EXCEPT ![t] = p]
    BY DEF Create
  <1>4. UNCHANGED <<row, slotLock, rowLock, couponLock, uses, closed, reserved>>
    BY DEF Create
  <1>5. TypeOK'
    BY <1>2, <1>3, <1>4 DEF TypeInv, TypeOK, Step
  <1>6. Kinds'
    BY <1>2, <1>3, <1>4 DEF TypeInv, TypeOK, Kinds, IsBooking, IsHold
  <1>7. StepOf'
    BY <1>2, <1>3, <1>4 DEF TypeInv, TypeOK, StepOf
  <1>8. QED
    BY <1>5, <1>6, <1>7 DEF TypeInv

LEMMA HoldPlacesType ==
  ASSUME TypeInv, NEW t \in Tx, HoldPlaces(t)
  PROVE  TypeInv'
  <1>1. FromPage(t, "hold", "held") /\ "held" \in Status
    BY DEF HoldPlaces, Status
  <1>2. PICK q \in Request :
          /\ req' = [req EXCEPT ![t] = q]
          /\ q.op = "hold" /\ q.places /\ q.row.status = "held"
          /\ q.own # NoTx => q.own \in Tx /\ req[q.own].op = "hold" /\ pc[q.own] = "ok"
    BY <1>1, FromPageType DEF TypeInv
  <1>3. pc[t] = "idle" /\ req'[t] = q
        /\ \E p \in {"refused", "slot", "row"} :
             pc' = [pc EXCEPT ![t] = p] /\ (p = "row" => q.own # NoTx)
    BY <1>2 DEF HoldPlaces, TypeInv, TypeOK
  <1>4. UNCHANGED <<row, slotLock, rowLock, couponLock, uses, closed, reserved>>
    BY DEF HoldPlaces
  <1>5. TypeOK'
    BY <1>2, <1>3, <1>4 DEF TypeInv, TypeOK, Step
  <1>6. Kinds'
    BY <1>2, <1>3, <1>4 DEF TypeInv, TypeOK, Kinds, IsBooking, IsHold
  <1>7. StepOf'
    BY <1>2, <1>3, <1>4 DEF TypeInv, TypeOK, StepOf
  <1>8. QED
    BY <1>5, <1>6, <1>7 DEF TypeInv

LEMMA EditType ==
  ASSUME TypeInv, NEW t \in Tx, Edit(t)
  PROVE  TypeInv'
  <1>1. PICK b \in Tx : IsBooking(b) /\ req' = [req EXCEPT ![t] = [NoRequest EXCEPT !.op = "edit", !.own = b]]
    BY DEF Edit
  <1> DEFINE q == [NoRequest EXCEPT !.op = "edit", !.own = b]
  <1>2. q \in Request /\ q.op = "edit" /\ q.own = b
    BY NoRowType DEF Request, NoRequest
  <1>3. pc[t] = "idle" /\ pc' = [pc EXCEPT ![t] = "row"]
        /\ UNCHANGED <<row, slotLock, rowLock, couponLock, uses, closed, reserved>>
    BY DEF Edit
  <1>4. req' = [req EXCEPT ![t] = q]
    BY <1>1
  <1> HIDE DEF q
  <1>5. TypeOK'
    BY <1>2, <1>3, <1>4 DEF TypeInv, TypeOK, Step
  <1>6. Kinds'
    BY <1>1, <1>2, <1>3, <1>4 DEF TypeInv, TypeOK, Kinds, IsBooking, IsHold
  <1>7. StepOf'
    BY <1>2, <1>3, <1>4 DEF TypeInv, TypeOK, StepOf
  <1>8. QED
    BY <1>5, <1>6, <1>7 DEF TypeInv

LEMMA CheckInType ==
  ASSUME TypeInv, NEW t \in Tx, CheckIn(t)
  PROVE  TypeInv'
  <1>1. PICK b \in Tx :
          /\ row[b].status \in {"confirmed", "postponed"}
          /\ req' = [req EXCEPT ![t] = [NoRequest EXCEPT !.op = "checkIn", !.own = b,
                                          !.row = [row[b] EXCEPT !.status = "arrived"]]]
    BY DEF CheckIn
  <1> DEFINE r == [row[b] EXCEPT !.status = "arrived"]
             q == [NoRequest EXCEPT !.op = "checkIn", !.own = b, !.row = r]
  <1>2. r \in Row /\ r.status = "arrived"
    BY DEF TypeInv, TypeOK, Row, Status
  <1>3. q \in Request /\ q.op = "checkIn" /\ q.own = b /\ q.row = r
    BY <1>2, NoRowType DEF Request, NoRequest
  <1>4. pc[t] = "idle" /\ pc' = [pc EXCEPT ![t] = "save"]
        /\ UNCHANGED <<row, slotLock, rowLock, couponLock, uses, closed, reserved>>
    BY DEF CheckIn
  <1>5. req' = [req EXCEPT ![t] = q]
    BY <1>1
  <1>6. IsBooking(b)
    BY <1>1 DEF IsBooking, BookingStatus
  <1> HIDE DEF q, r
  <1>7. TypeOK'
    BY <1>3, <1>4, <1>5 DEF TypeInv, TypeOK, Step
  <1>8. Kinds'
    BY <1>2, <1>3, <1>4, <1>5, <1>6 DEF TypeInv, TypeOK, Kinds, IsBooking, IsHold
  <1>9. StepOf'
    BY <1>3, <1>4, <1>5 DEF TypeInv, TypeOK, StepOf
  <1>10. QED
    BY <1>7, <1>8, <1>9 DEF TypeInv

LEMMA DeleteHoldType ==
  ASSUME TypeInv, NEW t \in Tx, DeleteHold(t)
  PROVE  TypeInv'
  <1>1. req[t].own \in Tx
    BY DEF DeleteHold, TypeInv, TypeOK, Request, StepOf
  <1>2. /\ pc[t] = "row" /\ req[t].op \in {"hold", "create"}
        /\ rowLock' = IF IsHold(req[t].own) THEN [rowLock EXCEPT ![req[t].own] = t] ELSE rowLock
        /\ pc' = [pc EXCEPT ![t] = IF req[t].op = "hold" THEN "slot" ELSE "insert"]
        /\ UNCHANGED <<req, row, slotLock, couponLock, uses, closed, reserved>>
    BY DEF DeleteHold
  <1>3. TypeOK'
    BY <1>1, <1>2 DEF TypeInv, TypeOK, Step
  <1>4. Kinds'
    BY <1>2 DEF TypeInv, TypeOK, Kinds, IsBooking, IsHold
  <1>5. StepOf'
    BY <1>2 DEF TypeInv, TypeOK, StepOf, Kinds
  <1>6. QED
    BY <1>3, <1>4, <1>5 DEF TypeInv

(* What an edit works out under the row lock.                              *)
LEMMA LockBookingPatch ==
  ASSUME TypeInv, NEW t \in Tx, LockBooking(t)
  PROVE  \E q \in Request :
           /\ req' = [req EXCEPT ![t] = q]
           /\ q = NoRequest \/ q.op = "edit"
           /\ q.op = "edit" =>
                /\ q.own = req[t].own
                /\ q.row.status \in BookingStatus
                /\ q.places => q.row.status \in {"confirmed", "arrived"}
                /\ q.row.key = row[req[t].own].key
                /\ ~q.places => \/ q.row.status \in {"cancelled", "postponed"}
                                \/ /\ q.row.status = row[req[t].own].status
                                   /\ q.row.slot = row[req[t].own].slot
                                   /\ q.row.party = row[req[t].own].party
  <1>1. req[t].own \in Tx /\ IsBooking(req[t].own)
    BY DEF LockBooking, TypeInv, Kinds
  <1>2. PICK s \in Slots, party \in 1..MaxParty, status \in BookingStatus,
             items \in Baskets \cup {NoItems}, coupon \in {"keep", "set", "clear"} :
          req' = [req EXCEPT ![t] = Patch(t, s, party, status, items, coupon)]
    <2>1. PICK s \in Slots, party \in 1..MaxParty, status \in BookingStatus,
               items \in Baskets \cup {NoItems},
               coupon \in {"keep"} \cup (IF "coupon" \in Ops THEN {"set", "clear"} ELSE {}) :
            req' = [req EXCEPT ![t] = Patch(t, s, party, status, items, coupon)]
      BY DEF LockBooking
    <2>2. coupon \in {"keep", "set", "clear"}
      OBVIOUS
    <2>3. QED
      BY <2>1, <2>2
  <1> DEFINE q == Patch(t, s, party, status, items, coupon)
  <1>3. /\ q \in Request
        /\ q = NoRequest \/ q.op = "edit"
        /\ q.op = "edit" =>
             /\ q.own = req[t].own
             /\ q.row.status \in BookingStatus
             /\ q.places => q.row.status \in {"confirmed", "arrived"}
             /\ q.row.key = row[req[t].own].key
             /\ ~q.places => \/ q.row.status \in {"cancelled", "postponed"}
                             \/ /\ q.row.status = row[req[t].own].status
                                /\ q.row.slot = row[req[t].own].slot
                                /\ q.row.party = row[req[t].own].party
    BY <1>1, PatchType DEF TypeInv
  <1> HIDE DEF q
  <1>4. req' = [req EXCEPT ![t] = q]
    BY <1>2 DEF q
  <1>5. QED
    BY <1>3, <1>4

LEMMA LockBookingStep ==
  ASSUME TypeInv, NEW t \in Tx, LockBooking(t)
  PROVE  /\ pc[t] = "row" /\ req[t].op = "edit" /\ rowLock[req[t].own] = NoTx
         /\ UNCHANGED <<row, slotLock, couponLock, uses, closed, reserved>>
         /\ \/ /\ req'[t].op = "none" /\ pc' = [pc EXCEPT ![t] = "ok"] /\ UNCHANGED rowLock
            \/ /\ req'[t].op = "edit" /\ pc' = [pc EXCEPT ![t] = "refused"] /\ UNCHANGED rowLock
            \/ /\ req'[t].op = "edit"
               /\ rowLock' = [rowLock EXCEPT ![req[t].own] = t]
               /\ \/ pc' = [pc EXCEPT ![t] = "coupon"]
                  \/ pc' = [pc EXCEPT ![t] = "slot"] /\ req'[t].places
                  \/ pc' = [pc EXCEPT ![t] = "commit"] /\ ~req'[t].places
  <1>1. pc[t] = "row" /\ req[t].op = "edit" /\ rowLock[req[t].own] = NoTx
        /\ UNCHANGED <<row, slotLock, couponLock, uses, closed, reserved>>
    BY DEF LockBooking
  <1>2. CASE req'[t].op = "none" /\ pc' = [pc EXCEPT ![t] = "ok"] /\ UNCHANGED rowLock
    BY <1>1, <1>2
  <1>3. CASE /\ req'[t].op = "edit"
             /\ pc' = [pc EXCEPT ![t] = IF ~req'[t].consume THEN AfterMoney(t)
                                        ELSE IF uses >= MaxUses THEN "refused" ELSE "coupon"]
             /\ rowLock' = IF pc'[t] = "refused" THEN rowLock ELSE [rowLock EXCEPT ![req[t].own] = t]
    <2>1. pc'[t] = IF ~req'[t].consume THEN AfterMoney(t)
                   ELSE IF uses >= MaxUses THEN "refused" ELSE "coupon"
      BY <1>3 DEF TypeInv, TypeOK
    <2>2. AfterMoney(t) \in {"commit", "refused", "slot"}
          /\ (AfterMoney(t) = "slot" => req'[t].places)
          /\ (AfterMoney(t) = "commit" => ~req'[t].places)
      BY DEF AfterMoney
    <2>3. QED
      BY <1>1, <1>3, <2>1, <2>2
  <1>4. QED
    BY <1>2, <1>3 DEF LockBooking

LEMMA LockBookingType ==
  ASSUME TypeInv, NEW t \in Tx, LockBooking(t)
  PROVE  TypeInv'
  <1>1. PICK q \in Request :
           /\ req' = [req EXCEPT ![t] = q]
           /\ q = NoRequest \/ q.op = "edit"
           /\ q.op = "edit" =>
                /\ q.own = req[t].own
                /\ q.row.status \in BookingStatus
                /\ q.places => q.row.status \in {"confirmed", "arrived"}
    BY LockBookingPatch
  <1>2. req'[t] = q /\ req[t].own \in Tx /\ IsBooking(req[t].own)
    BY <1>1 DEF LockBooking, TypeInv, TypeOK, Kinds
  <1>3. /\ pc[t] = "row" /\ req[t].op = "edit"
        /\ UNCHANGED <<row, slotLock, couponLock, uses, closed, reserved>>
        /\ \/ q.op = "none" /\ pc' = [pc EXCEPT ![t] = "ok"] /\ UNCHANGED rowLock
           \/ q.op = "edit" /\ pc' = [pc EXCEPT ![t] = "refused"] /\ UNCHANGED rowLock
           \/ /\ q.op = "edit"
              /\ rowLock' = [rowLock EXCEPT ![req[t].own] = t]
              /\ \/ pc' = [pc EXCEPT ![t] = "coupon"]
                 \/ pc' = [pc EXCEPT ![t] = "slot"] /\ q.places
                 \/ pc' = [pc EXCEPT ![t] = "commit"] /\ ~q.places
    BY <1>2, LockBookingStep
  <1>4. TypeOK'
    BY <1>1, <1>2, <1>3 DEF TypeInv, TypeOK, Step
  <1>5. Kinds'
    <2>1. q.op \in {"none", "edit"} /\ \A u \in Tx \ {t} : req'[u] = req[u] /\ pc'[u] = pc[u]
      BY <1>1, <1>2, <1>3 DEF TypeInv, TypeOK
    <2>2. /\ pc'[t] \in {"ok", "refused", "coupon", "slot", "commit"}
          /\ \A r \in Tx : (IsBooking(r)' <=> IsBooking(r)) /\ (IsHold(r)' <=> IsHold(r))
      BY <1>3 DEF TypeInv, TypeOK, IsBooking, IsHold
    <2>3. \A r \in Tx : (IsBooking(r) \/ IsHold(r)) => r # t
      BY <1>3 DEF TypeInv, Kinds
    <2>4. \A u \in Tx : req[u].op \in {"create", "hold"} /\ req[u].own # NoTx => req[u].own \in Tx \ {t}
      BY <1>3 DEF TypeInv, TypeOK, Request, Kinds
    <2>5. QED
      BY <1>1, <1>2, <2>1, <2>2, <2>3, <2>4 DEF TypeInv, TypeOK, Kinds
  <1>6. StepOf'
    BY <1>1, <1>2, <1>3 DEF TypeInv, TypeOK, StepOf
  <1>7. QED
    BY <1>4, <1>5, <1>6 DEF TypeInv

(* A request that moves on without writing or changing its mind.           *)
LEMMA Advance ==
  ASSUME TypeInv, NEW t \in Tx, NEW p \in Step \ {"idle"}, pc[t] \notin {"idle", "ok"},
         UNCHANGED <<req, row>>, pc' = [pc EXCEPT ![t] = p],
         req[t].op = "edit" /\ p \in {"coupon", "slot", "check", "commit"}
           => pc[t] \in {"coupon", "slot", "check", "commit"}
  PROVE  Kinds'
  <1>1. /\ pc'[t] = p /\ \A u \in Tx \ {t} : pc'[u] = pc[u]
        /\ \A r \in Tx : (IsBooking(r)' <=> IsBooking(r)) /\ (IsHold(r)' <=> IsHold(r))
    BY DEF TypeInv, TypeOK, IsBooking, IsHold
  <1>2. \A r \in Tx : (IsBooking(r) \/ IsHold(r)) => r # t
    BY DEF TypeInv, Kinds
  <1>3. \A u \in Tx : req[u].op \in {"create", "hold"} /\ req[u].own # NoTx => req[u].own \in Tx \ {t}
    BY DEF TypeInv, TypeOK, Request, Kinds
  <1>4. QED
    BY <1>1, <1>2, <1>3 DEF TypeInv, TypeOK, Kinds

LEMMA LockCouponType ==
  ASSUME TypeInv, NEW t \in Tx, LockCoupon(t)
  PROVE  TypeInv'
  <1>1. /\ pc[t] = "coupon" /\ couponLock' = t
        /\ UNCHANGED <<req, row, slotLock, rowLock, uses, closed, reserved>>
        /\ \/ pc' = [pc EXCEPT ![t] = "commit"]
           \/ pc' = [pc EXCEPT ![t] = "slot"] /\ req[t].places
    BY DEF LockCoupon
  <1>2. TypeOK'
    BY <1>1 DEF TypeInv, TypeOK, Step
  <1>3. Kinds'
    BY <1>1, Advance DEF Step
  <1>4. StepOf'
    BY <1>1 DEF TypeInv, TypeOK, StepOf
  <1>5. QED
    BY <1>2, <1>3, <1>4 DEF TypeInv

LEMMA LockSlotType ==
  ASSUME TypeInv, NEW t \in Tx, LockSlot(t)
  PROVE  TypeInv'
  <1>1. /\ pc[t] = "slot" /\ pc' = [pc EXCEPT ![t] = "check"]
        /\ slotLock' = [slotLock EXCEPT ![req[t].row.slot] = t]
        /\ UNCHANGED <<req, row, rowLock, couponLock, uses, closed, reserved>>
    BY DEF LockSlot
  <1>2. TypeOK'
    BY <1>1 DEF TypeInv, TypeOK, Step
  <1>3. Kinds'
    BY <1>1, Advance DEF Step
  <1>4. StepOf'
    BY <1>1 DEF TypeInv, TypeOK, StepOf
  <1>5. QED
    BY <1>2, <1>3, <1>4 DEF TypeInv

LEMMA ReserveType ==
  ASSUME TypeInv, NEW t \in Tx, Reserve(t)
  PROVE  TypeInv'
  <1>1. /\ pc[t] = "check"
        /\ UNCHANGED <<req, row, slotLock, rowLock, couponLock, uses, closed, reserved>>
        /\ pc' = [pc EXCEPT ![t] = IF req[t].op # "create" THEN "commit"
                                    ELSE IF req[t].own = NoTx THEN "insert" ELSE "row"]
    BY DEF Reserve
  <1>2. TypeOK'
    BY <1>1 DEF TypeInv, TypeOK, Step
  <1>3. Kinds'
    BY <1>1, Advance DEF Step
  <1>4. StepOf'
    BY <1>1 DEF TypeInv, TypeOK, StepOf
  <1>5. QED
    BY <1>2, <1>3, <1>4 DEF TypeInv

LEMMA InsertType ==
  ASSUME TypeInv, NEW t \in Tx, Insert(t)
  PROVE  TypeInv'
  <1>1. /\ pc[t] = "insert"
        /\ UNCHANGED <<req, row, slotLock, rowLock, couponLock, uses, closed, reserved>>
        /\ pc' = [pc EXCEPT ![t] = IF req[t].consume THEN "coupon" ELSE "commit"]
    BY DEF Insert
  <1>2. TypeOK'
    BY <1>1 DEF TypeInv, TypeOK, Step
  <1>3. Kinds'
    <2>1. req[t].op = "create"
      BY <1>1 DEF TypeInv, StepOf
    <2>2. QED
      BY <1>1, <2>1, Advance DEF Step
  <1>4. StepOf'
    BY <1>1 DEF TypeInv, TypeOK, StepOf
  <1>5. QED
    BY <1>2, <1>3, <1>4 DEF TypeInv

LEMMA RefCollisionType ==
  ASSUME TypeInv, NEW t \in Tx, RefCollision(t)
  PROVE  TypeInv'
  <1> DEFINE q == [req[t] EXCEPT !.tries = @ + 1]
  <1>1. /\ pc[t] = "insert" /\ req' = [req EXCEPT ![t] = q] /\ req[t].tries < RefMaxTries
        /\ UNCHANGED <<row, uses, closed, reserved>>
        /\ \E p \in {"refused", "slot"} : pc' = [pc EXCEPT ![t] = p]
    BY DEF RefCollision, TypeInv, TypeOK
  <1>2. req[t].op = "create"
    BY <1>1 DEF TypeInv, StepOf
  <1>3. q \in Request
    <2>1. req[t] \in Request /\ req[t].tries \in 0..RefMaxTries /\ RefMaxTries \in Nat
      BY PlacesAssumption DEF TypeInv, TypeOK, Request
    <2>2. req[t].tries + 1 \in 0..RefMaxTries
      BY <1>1, <2>1
    <2>3. QED
      BY <2>1, <2>2 DEF Request
  <1>4. q.op = req[t].op /\ q.own = req[t].own /\ q.row = req[t].row /\ q.places = req[t].places
    BY DEF TypeInv, TypeOK, Request
  <1>5. ReleaseLocks(t)
    BY DEF RefCollision
  <1> HIDE DEF q
  <1>6. TypeOK'
    BY <1>1, <1>3, <1>5, ReleaseType DEF TypeInv, TypeOK, Step
  <1>7. Kinds'
    BY <1>1, <1>2, <1>3, <1>4 DEF TypeInv, TypeOK, Kinds, IsBooking, IsHold
  <1>8. StepOf'
    <2>1. q.places
      BY <1>2, <1>4 DEF TypeInv, Kinds
    <2>2. QED
      BY <1>1, <1>2, <1>3, <1>4, <2>1 DEF TypeInv, TypeOK, StepOf
  <1>9. QED
    BY <1>6, <1>7, <1>8 DEF TypeInv

(* The row a commit writes.                                                *)
Target(t) == IF req[t].op = "edit" THEN req[t].own ELSE t

LEMMA CommitRows ==
  ASSUME TypeInv, NEW t \in Tx, Commit(t)
  PROVE  /\ pc[t] = "commit" /\ Target(t) \in Tx
         /\ row' = [r \in Tx |-> IF r = Target(t) THEN req[t].row
                                  ELSE IF r = req[t].own THEN NoRow ELSE row[r]]
         /\ reserved' = [r \in Tx |-> IF r = Target(t) THEN Granted(t, r)
                                       ELSE IF r = req[t].own THEN {} ELSE reserved[r]]
         /\ pc' = [pc EXCEPT ![t] = "ok"]
         /\ ReleaseLocks(t) /\ UNCHANGED <<req, closed>>
  BY DEF Commit, Target, TypeInv, StepOf, Kinds

LEMMA GrantedType ==
  ASSUME TypeInv, NEW t \in Tx, NEW r \in Tx
  PROVE  Granted(t, r) \in SUBSET {"party", "lines"}
  BY DEF Granted, TypeInv, TypeOK

LEMMA CommitType ==
  ASSUME TypeInv, NEW t \in Tx, Commit(t)
  PROVE  TypeInv'
  <1>1. req[t] \in Request /\ req[t].row \in Row /\ NoRow \in Row /\ NoRow.status = "none"
    BY NoRowType DEF TypeInv, TypeOK, Request, NoRow
  <1>2. TypeOK'
    <2>1. row' \in [Tx -> Row]
      BY CommitRows, <1>1 DEF TypeInv, TypeOK
    <2>2. reserved' \in [Tx -> SUBSET {"party", "lines"}]
      BY CommitRows, GrantedType DEF TypeInv, TypeOK
    <2>3. uses' \in Nat
      BY DEF Commit, TypeInv, TypeOK
    <2>4. pc' \in [Tx -> Step] /\ req' \in [Tx -> Request] /\ closed' \in SUBSET Slots
      BY CommitRows DEF TypeInv, TypeOK, Step
    <2>5. QED
      BY <2>1, <2>2, <2>3, <2>4, CommitRows, ReleaseType DEF TypeInv, TypeOK
  <1>3. /\ pc[t] = "commit" /\ req[t].op \in {"create", "hold", "edit"}
        /\ req' = req /\ pc' = [pc EXCEPT ![t] = "ok"]
    BY CommitRows DEF TypeInv, StepOf
  (* Rows that stay, rows that are written, the hold that goes.            *)
  <1>4. \A r \in Tx : r # Target(t) /\ r # req[t].own => row'[r] = row[r]
    BY CommitRows
  <1>5. row'[Target(t)] = req[t].row
    BY CommitRows
  <1>6. ASSUME req[t].own # NoTx, req[t].op # "edit"
        PROVE  req[t].own \in Tx /\ row'[req[t].own] = NoRow /\ req[req[t].own].op = "hold"
    <2>1. req[t].own \in Tx /\ req[req[t].own].op = "hold" /\ pc[req[t].own] = "ok"
      BY <1>1, <1>3, <1>6 DEF TypeInv, Request, Kinds
    <2>2. req[t].own # Target(t)
      BY <1>3, <1>6, <2>1 DEF Target
    <2>3. QED
      BY <2>1, <2>2, CommitRows
  <1>7. CASE req[t].op = "edit"
    <2>1. Target(t) = req[t].own /\ req[t].own \in Tx /\ IsBooking(req[t].own)
          /\ req[t].row.status \in BookingStatus
      BY <1>3, <1>7 DEF Target, TypeInv, Kinds
    <2>2. \A r \in Tx : (IsBooking(r)' <=> IsBooking(r)) /\ (IsHold(r)' <=> IsHold(r))
      BY <1>4, <1>5, <2>1 DEF IsBooking, IsHold, BookingStatus
    <2>3. Kinds'
      BY <1>2, <1>3, <1>7, <2>2 DEF TypeInv, TypeOK, Kinds
    <2>4. QED
      BY <1>2, <1>3, <2>3 DEF TypeInv, TypeOK, StepOf
  <1>8. CASE req[t].op \in {"create", "hold"}
    <2>1. Target(t) = t
      BY <1>8 DEF Target
    <2>2. \A r \in Tx \ {t} : IsBooking(r)' <=> IsBooking(r)
      <3>1. \A r \in Tx : req[r].op = "hold" => ~IsBooking(r)
        BY DEF TypeInv, Kinds
      <3>2. ASSUME NEW r \in Tx \ {t}, r # req[t].own
            PROVE  IsBooking(r)' <=> IsBooking(r)
        BY <1>4, <2>1, <3>2 DEF IsBooking
      <3>3. ASSUME NEW r \in Tx \ {t}, r = req[t].own
            PROVE  ~IsBooking(r)' /\ ~IsBooking(r)
        <4>1. req[t].own # NoTx /\ req[t].op # "edit"
          BY <1>8, <3>3, PlacesAssumption
        <4>2. QED
          BY <1>1, <1>6, <3>1, <3>3, <4>1 DEF IsBooking, BookingStatus
      <3>4. QED
        BY <3>2, <3>3
    <2>3. \A r \in Tx \ {t} : IsHold(r)' => IsHold(r)
      <3>1. ASSUME NEW r \in Tx \ {t}, r # req[t].own
            PROVE  IsHold(r)' <=> IsHold(r)
        BY <1>4, <2>1, <3>1 DEF IsHold
      <3>2. ASSUME NEW r \in Tx \ {t}, r = req[t].own
            PROVE  ~IsHold(r)'
        <4>1. req[t].own # NoTx /\ req[t].op # "edit"
          BY <1>8, <3>2, PlacesAssumption
        <4>2. QED
          BY <1>1, <1>6, <3>2, <4>1 DEF IsHold
      <3>3. QED
        BY <3>1, <3>2
    <2>4. (IsBooking(t)' => req[t].op = "create") /\ (IsHold(t)' => req[t].op = "hold")
      BY <1>5, <1>8, <2>1 DEF IsBooking, IsHold, BookingStatus, TypeInv, Kinds
    <2>5. ~IsBooking(t)
      BY <1>3 DEF TypeInv, Kinds
    <2>6. Kinds'
      BY <1>2, <1>3, <1>8, <2>2, <2>3, <2>4, <2>5 DEF TypeInv, TypeOK, Kinds
    <2>7. QED
      BY <1>2, <1>3, <2>6 DEF TypeInv, TypeOK, StepOf
  <1>9. QED
    BY <1>3, <1>7, <1>8

(* Steps of rows that no request of the model takes.                       *)
LEMMA RowStepType ==
  ASSUME TypeInv, NEW r \in Tx, ReleaseHold(r) \/ Expire(r) \/ Postpone(r)
  PROVE  TypeInv'
  <1>1. PICK x \in Row :
          /\ row' = [row EXCEPT ![r] = x]
          /\ reserved' = [reserved EXCEPT ![r] = {}]
          /\ UNCHANGED <<pc, req, slotLock, rowLock, couponLock, uses, closed>>
          /\ \/ IsHold(r) /\ x.status \in {"none", "lapsed"}
             \/ IsBooking(r) /\ x.status = "postponed"
    <2>1. CASE ReleaseHold(r)
      BY <2>1, NoRowType DEF ReleaseHold, NoRow
    <2>2. CASE Expire(r)
      <3> DEFINE y == [row[r] EXCEPT !.status = "lapsed"]
      <3>1. y \in Row /\ y.status = "lapsed" /\ row' = [row EXCEPT ![r] = y]
        BY <2>2 DEF Expire, TypeInv, TypeOK, Row, Status
      <3>2. QED
        BY <2>2, <3>1 DEF Expire, IsHold
    <2>3. CASE Postpone(r)
      <3> DEFINE y == [row[r] EXCEPT !.status = "postponed"]
      <3>1. y \in Row /\ y.status = "postponed" /\ row' = [row EXCEPT ![r] = y]
        BY <2>3, SMTT(30) DEF Postpone, TypeInv, TypeOK, Row, Status
      <3>2. QED
        BY <2>3, <3>1 DEF Postpone
    <2>4. QED
      BY <2>1, <2>2, <2>3
  <1>2. TypeOK'
    BY <1>1 DEF TypeInv, TypeOK
  <1>3. \A u \in Tx : (IsBooking(u)' <=> IsBooking(u)) /\ (IsHold(u)' => IsHold(u))
    BY <1>1 DEF TypeInv, TypeOK, IsBooking, IsHold, BookingStatus
  <1>4. Kinds'
    BY <1>1, <1>3 DEF TypeInv, TypeOK, Kinds
  <1>5. StepOf'
    BY <1>1 DEF TypeInv, StepOf
  <1>6. QED
    BY <1>2, <1>4, <1>5 DEF TypeInv

LEMMA SaveArrivalType ==
  ASSUME TypeInv, NEW t \in Tx, SaveArrival(t)
  PROVE  TypeInv'
  <1> DEFINE b == req[t].own
             x == [req[t].row EXCEPT !.lines = row[b].lines]
  <1>1. pc[t] = "save" /\ req[t].op = "checkIn" /\ b \in Tx /\ IsBooking(b)
        /\ req[t].row \in Row /\ req[t].row.status = "arrived"
    BY DEF SaveArrival, TypeInv, TypeOK, StepOf, Kinds, Request
  <1>2. x \in Row /\ x.status = "arrived"
    BY <1>1 DEF TypeInv, TypeOK, Row
  <1>3. /\ row' = [row EXCEPT ![b] = x]
        /\ \E g \in SUBSET {"party", "lines"} : reserved' = [reserved EXCEPT ![b] = g]
        /\ pc' = [pc EXCEPT ![t] = "ok"]
        /\ UNCHANGED <<req, slotLock, rowLock, couponLock, uses, closed>>
    BY <1>1 DEF SaveArrival, TypeInv, TypeOK
  <1> HIDE DEF x
  <1>4. TypeOK'
    BY <1>1, <1>2, <1>3 DEF TypeInv, TypeOK, Step
  <1>5. \A u \in Tx : (IsBooking(u)' <=> IsBooking(u)) /\ (IsHold(u)' => IsHold(u))
    BY <1>1, <1>2, <1>3 DEF TypeInv, TypeOK, IsBooking, IsHold, BookingStatus
  <1>6. Kinds'
    BY <1>1, <1>3, <1>5 DEF TypeInv, TypeOK, Kinds
  <1>7. StepOf'
    BY <1>1, <1>3 DEF TypeInv, TypeOK, StepOf
  <1>8. QED
    BY <1>4, <1>6, <1>7 DEF TypeInv

LEMMA VictimWaits ==
  ASSUME NEW t \in Tx, DeadlockVictim(t)
  PROVE  pc[t] \in {"slot", "coupon", "row", "save"} /\ Rollback(t, "aborted")
  <1>1. Rollback(t, "aborted") /\ Holder(t) \in Tx
    BY DEF DeadlockVictim
  <1>2. Holder(t) # NoTx
    BY <1>1, PlacesAssumption
  <1>3. QED
    BY <1>1, <1>2 DEF Holder

LEMMA TypeStep ==
  ASSUME TypeInv, [Next]_vars
  PROVE  TypeInv'
  <1>1. ASSUME NEW t \in Tx, Create(t) \/ HoldPlaces(t) \/ Edit(t) \/ CheckIn(t) \/ RefCollision(t)
        PROVE  TypeInv'
    BY <1>1, CreateType, HoldPlacesType, EditType, CheckInType, RefCollisionType
  <1>2. ASSUME NEW t \in Tx, DeleteHold(t) \/ LockBooking(t) \/ LockCoupon(t) \/ LockSlot(t)
                             \/ Reserve(t) \/ Insert(t) \/ Commit(t) \/ SaveArrival(t)
        PROVE  TypeInv'
    BY <1>2, DeleteHoldType, LockBookingType, LockCouponType, LockSlotType, ReserveType,
       InsertType, CommitType, SaveArrivalType
  <1>3. ASSUME NEW t \in Tx, CouponRefused(t) \/ Full(t) \/ TwinFirst(t) \/ DeadlockVictim(t)
        PROVE  TypeInv'
    <2>1. pc[t] \notin {"idle", "ok"} /\ \E outcome \in {"refused", "twin", "aborted"} : Rollback(t, outcome)
      BY <1>3, VictimWaits DEF CouponRefused, Full, TwinFirst
    <2>2. QED
      BY <2>1, RollbackType
  <1>4. ASSUME NEW t \in Tx, ReleaseHold(t) \/ Expire(t) \/ Postpone(t)
        PROVE  TypeInv'
    BY <1>4, RowStepType
  <1>5. CASE SaveCalendar
    <2>1. TypeOK'
      BY <1>5 DEF SaveCalendar, TypeInv, TypeOK
    <2>2. Kinds' /\ StepOf'
      BY <1>5 DEF SaveCalendar, TypeInv, Kinds, StepOf, IsBooking, IsHold
    <2>3. QED
      BY <2>1, <2>2 DEF TypeInv
  <1>6. CASE UNCHANGED vars
    BY <1>6 DEF vars, TypeInv, TypeOK, Kinds, StepOf, IsBooking, IsHold
  <1>7. QED
    BY <1>1, <1>2, <1>3, <1>4, <1>5, <1>6 DEF Next, Proceed

LEMMA TypeInit == Init => TypeInv
  <1> SUFFICES ASSUME Init PROVE TypeInv
    OBVIOUS
  <1>1. TypeOK
    BY NoRowType DEF Init, TypeOK, Step
  <1>2. Kinds
    BY DEF Init, Kinds, IsBooking, IsHold, BookingStatus, NoRow, NoRequest
  <1>3. StepOf
    BY DEF Init, StepOf
  <1>4. QED
    BY <1>1, <1>2, <1>3 DEF TypeInv

(* Every reachable state is well typed: rows, requests and locks are what  *)
(* the tables and the handlers hold, whatever runs against whatever.       *)
THEOREM TypeCorrect == Spec => []TypeOK
  <1>1. Spec => []TypeInv
    BY TypeInit, TypeStep, PTL DEF Spec
  <1>2. TypeInv => TypeOK
    BY DEF TypeInv
  <1>3. QED
    BY <1>1, <1>2, PTL

-----------------------------------------------------------------------------
(* Locks: a step of one request leaves the others their locks and the rows *)
(* they hold.                                                              *)

(* The step of t changes neither the step, the request nor the locks of    *)
(* any other request.                                                      *)
Alone(t) ==
  \A u \in Tx \ {t} :
    /\ pc'[u] = pc[u] /\ req'[u] = req[u]
    /\ \A s \in Slots : slotLock[s] = u => slotLock'[s] = u
    /\ \A r \in Tx : rowLock[r] = u => rowLock'[r] = u

Begin(t) == Create(t) \/ HoldPlaces(t) \/ Edit(t) \/ CheckIn(t)

Refuse(t) == CouponRefused(t) \/ Full(t) \/ TwinFirst(t) \/ DeadlockVictim(t)

Quiet(t) == \/ Begin(t) \/ DeleteHold(t) \/ LockBooking(t) \/ LockCoupon(t) \/ LockSlot(t)
            \/ Reserve(t) \/ Insert(t) \/ RefCollision(t) \/ Refuse(t)

LEMMA ReleaseKeeps ==
  ASSUME TypeInv, NEW t \in Tx, ReleaseLocks(t)
  PROVE  \A u \in Tx \ {t} :
           /\ \A s \in Slots : slotLock[s] = u => slotLock'[s] = u
           /\ \A r \in Tx : rowLock[r] = u => rowLock'[r] = u
  BY DEF TypeInv, TypeOK, ReleaseLocks

LEMMA RefuseIs ==
  ASSUME NEW t \in Tx, Refuse(t)
  PROVE  pc[t] \notin {"idle", "ok"} /\ \E outcome \in {"refused", "twin", "aborted"} : Rollback(t, outcome)
  BY VictimWaits DEF Refuse, CouponRefused, Full, TwinFirst

LEMMA BeginIs ==
  ASSUME TypeInv, NEW t \in Tx, Begin(t)
  PROVE  /\ pc[t] = "idle"
         /\ \A u \in Tx \ {t} : pc'[u] = pc[u] /\ req'[u] = req[u]
         /\ pc'[t] \in {"twin", "refused", "slot", "row", "save"}
         /\ pc'[t] = "row" => req'[t].op \in {"hold", "edit"}
         /\ pc'[t] = "slot" => req'[t].op \in {"create", "hold"}
         /\ UNCHANGED <<row, slotLock, rowLock, couponLock, reserved>>
  <1>1. CASE Create(t)
    <2>1. FromPage(t, "create", "confirmed") /\ "confirmed" \in Status
      BY <1>1 DEF Create, Status
    <2>2. PICK q \in Request : req' = [req EXCEPT ![t] = q] /\ q.op = "create"
      BY <2>1, FromPageType DEF TypeInv
    <2>3. QED
      BY <1>1, <2>2 DEF Create, TypeInv, TypeOK
  <1>2. CASE HoldPlaces(t)
    <2>1. FromPage(t, "hold", "held") /\ "held" \in Status
      BY <1>2 DEF HoldPlaces, Status
    <2>2. PICK q \in Request : req' = [req EXCEPT ![t] = q] /\ q.op = "hold"
      BY <2>1, FromPageType DEF TypeInv
    <2>3. QED
      BY <1>2, <2>2 DEF HoldPlaces, TypeInv, TypeOK
  <1>3. CASE Edit(t)
    <2>1. PICK b \in Tx : req' = [req EXCEPT ![t] = [NoRequest EXCEPT !.op = "edit", !.own = b]]
      BY <1>3 DEF Edit
    <2>2. req'[t].op = "edit"
      BY <2>1 DEF TypeInv, TypeOK, NoRequest
    <2>3. QED
      BY <1>3, <2>1, <2>2 DEF Edit, TypeInv, TypeOK
  <1>4. CASE CheckIn(t)
    BY <1>4 DEF CheckIn, TypeInv, TypeOK
  <1>5. QED
    BY <1>1, <1>2, <1>3, <1>4 DEF Begin

LEMMA QuietAlone ==
  ASSUME TypeInv, NEW t \in Tx, Quiet(t)
  PROVE  Alone(t) /\ UNCHANGED <<row, reserved>>
  <1>1. CASE Begin(t)
    BY <1>1, BeginIs DEF Alone
  <1>2. CASE DeleteHold(t)
    <2>1. req[t].own \in Tx
      BY <1>2 DEF DeleteHold, TypeInv, TypeOK, Request, StepOf
    <2>2. QED
      BY <1>2, <2>1, PlacesAssumption DEF DeleteHold, TypeInv, TypeOK, Alone
  <1>3. CASE LockBooking(t)
    <2>1. \A u \in Tx \ {t} : req'[u] = req[u]
      BY <1>3, LockBookingPatch DEF TypeInv, TypeOK
    <2>2. QED
      BY <1>3, <2>1, LockBookingStep, PlacesAssumption DEF TypeInv, TypeOK, Alone
  <1>4. CASE LockCoupon(t)
    BY <1>4 DEF LockCoupon, TypeInv, TypeOK, Alone
  <1>5. CASE LockSlot(t)
    BY <1>5, PlacesAssumption DEF LockSlot, TypeInv, TypeOK, Alone
  <1>6. CASE Reserve(t) \/ Insert(t)
    BY <1>6 DEF Reserve, Insert, TypeInv, TypeOK, Alone
  <1>7. CASE RefCollision(t)
    BY <1>7, ReleaseKeeps DEF RefCollision, TypeInv, TypeOK, Alone
  <1>8. CASE Refuse(t)
    BY <1>8, RefuseIs, ReleaseKeeps DEF Rollback, TypeInv, TypeOK, Alone
  <1>9. QED
    BY <1>1, <1>2, <1>3, <1>4, <1>5, <1>6, <1>7, <1>8 DEF Quiet

LEMMA CommitAlone ==
  ASSUME TypeInv, NEW t \in Tx, Commit(t)
  PROVE  Alone(t)
  BY CommitRows, ReleaseKeeps DEF TypeInv, TypeOK, Alone

LEMMA SaveAlone ==
  ASSUME TypeInv, NEW t \in Tx, SaveArrival(t)
  PROVE  Alone(t)
  BY DEF SaveArrival, TypeInv, TypeOK, Alone

LEMMA OwnSlot ==
  ASSUME TypeOK, NEW t \in Tx
  PROVE  req[t].row.slot \in Slots /\ req[t].row.party \in 0..MaxParty /\ req[t].own \in Tx \cup {NoTx}
         /\ req[t].row.status \in Status
  BY DEF TypeOK, Request, Row

(* The others keep the locks they need.                                    *)
LEMMA OthersLocked ==
  ASSUME LockInv, NEW t \in Tx, Alone(t), NEW u \in Tx \ {t}
  PROVE  Locked(u)'
  <1>1. Locked(u) /\ req[u].row.slot \in Slots /\ (req[u].op = "edit" => req[u].own \in Tx)
    BY OwnSlot DEF LockInv, TypeInv, Kinds
  <1>2. QED
    BY <1>1 DEF Alone, Locked, Past

(* The request that moves has the locks it needs next.                     *)
LEMMA OwnLocked ==
  ASSUME LockInv, NEW t \in Tx, Quiet(t)
  PROVE  Locked(t)'
  <1>0. TypeInv /\ Locked(t)
    BY DEF LockInv
  <1>1. CASE Begin(t)
    BY <1>0, <1>1, BeginIs DEF Locked, Past
  <1>2. CASE DeleteHold(t)
    <2>1. req[t].op \in {"hold", "create"} /\ pc[t] = "row" /\ pc'[t] \in {"slot", "insert"}
          /\ (pc'[t] = "slot" => req[t].op = "hold") /\ UNCHANGED <<req, slotLock>>
      BY <1>0, <1>2 DEF DeleteHold, TypeInv, TypeOK
    <2>2. QED
      BY <1>0, <2>1 DEF Locked, Past
  <1>3. CASE LockBooking(t)
    <2>1. PICK q \in Request : req' = [req EXCEPT ![t] = q] /\ (q.op = "edit" => q.own = req[t].own)
      BY <1>0, <1>3, LockBookingPatch
    <2>2. req'[t] = q /\ req[t].own \in Tx /\ q.op \in {"none", "edit"}
      BY <1>0, <1>3, <2>1, LockBookingStep DEF TypeInv, TypeOK, Kinds
    <2>3. \/ pc'[t] \in {"ok", "refused"}
          \/ /\ pc'[t] \in {"coupon", "slot", "commit"} /\ q.op = "edit" /\ rowLock'[q.own] = t
             /\ pc'[t] = "commit" => ~q.places
      BY <1>0, <1>3, <2>1, <2>2, LockBookingStep DEF TypeInv, TypeOK
    <2>4. QED
      BY <2>2, <2>3 DEF Locked, Past
  <1>4. CASE LockCoupon(t)
    <2>1. /\ pc[t] = "coupon" /\ UNCHANGED <<req, slotLock, rowLock>>
          /\ \/ req[t].op = "create" /\ pc'[t] = "commit"
             \/ /\ req[t].op = "edit"
                /\ pc'[t] = "slot" \/ (pc'[t] = "commit" /\ ~req[t].places)
      BY <1>0, <1>4 DEF LockCoupon, TypeInv, TypeOK
    <2>2. QED
      BY <1>0, <2>1 DEF Locked, Past
  <1>5. CASE LockSlot(t)
    <2>1. pc[t] = "slot" /\ pc'[t] = "check" /\ UNCHANGED <<req, rowLock>>
          /\ slotLock'[req[t].row.slot] = t
      BY <1>0, <1>5, OwnSlot DEF LockSlot, TypeInv, TypeOK
    <2>2. QED
      BY <1>0, <2>1 DEF Locked, Past
  <1>6. CASE Reserve(t)
    <2>1. pc[t] = "check" /\ UNCHANGED <<req, slotLock, rowLock>>
          /\ pc'[t] \in {"commit", "insert", "row"}
          /\ (pc'[t] \in {"insert", "row"} => req[t].op = "create")
      BY <1>0, <1>6 DEF Reserve, TypeInv, TypeOK
    <2>2. QED
      BY <1>0, <2>1 DEF Locked, Past
  <1>7. CASE Insert(t)
    <2>1. pc[t] = "insert" /\ req[t].op = "create" /\ UNCHANGED <<req, slotLock, rowLock>>
      BY <1>0, <1>7 DEF Insert, TypeInv, StepOf
    <2>2. QED
      BY <1>0, <2>1 DEF Locked, Past
  <1>8. CASE RefCollision(t)
    <2>1. pc'[t] \in {"refused", "slot"} /\ req'[t].op = req[t].op /\ req[t].op = "create"
      BY <1>0, <1>8 DEF RefCollision, TypeInv, TypeOK, Request, StepOf
    <2>2. QED
      BY <2>1 DEF Locked, Past
  <1>9. CASE Refuse(t)
    <2>1. pc'[t] \in {"refused", "twin", "aborted"}
      BY <1>0, <1>9, RefuseIs DEF Rollback, TypeInv, TypeOK
    <2>2. QED
      BY <2>1 DEF Locked, Past
  <1>10. QED
    BY <1>1, <1>2, <1>3, <1>4, <1>5, <1>6, <1>7, <1>8, <1>9 DEF Quiet

-----------------------------------------------------------------------------
(* Rows: who may change them, and what that does to what is granted.       *)

(* No grant appears, moves or grows.                                       *)
Frees == \A r \in Tx : "party" \in reserved'[r] =>
           /\ "party" \in reserved[r]
           /\ row'[r].slot = row[r].slot
           /\ row'[r].party = row[r].party

Rows(r) == ReleaseHold(r) \/ Expire(r) \/ Postpone(r)

LEMMA RowsIs ==
  ASSUME TypeInv, NEW r \in Tx, Rows(r)
  PROVE  /\ \A u \in Tx \ {r} : row'[u] = row[u] /\ reserved'[u] = reserved[u]
         /\ reserved'[r] = {}
         /\ IsHold(r) \/ rowLock[r] = NoTx
         /\ UNCHANGED <<pc, req, slotLock, rowLock>>
  BY DEF Rows, ReleaseHold, Expire, Postpone, TypeInv, TypeOK, IsHold

LEMMA SaveIs ==
  ASSUME TypeInv, NEW t \in Tx, SaveArrival(t)
  PROVE  LET b == req[t].own
         IN  /\ b \in Tx /\ rowLock[b] = NoTx /\ IsBooking(b)
             /\ \A u \in Tx \ {b} : row'[u] = row[u] /\ reserved'[u] = reserved[u]
             /\ row'[b].status = "arrived"
             /\ "party" \in reserved'[b] => /\ "party" \in reserved[b]
                                            /\ row'[b].slot = row[b].slot
                                            /\ row'[b].party = row[b].party
             /\ pc' = [pc EXCEPT ![t] = "ok"] /\ UNCHANGED req
  <1> DEFINE b == req[t].own
             x == [req[t].row EXCEPT !.lines = row[b].lines]
  <1>1. pc[t] = "save" /\ b \in Tx /\ IsBooking(b) /\ req[t].row \in Row /\ req[t].row.status = "arrived"
    BY DEF SaveArrival, TypeInv, TypeOK, StepOf, Kinds, Request
  <1>2. x.status = "arrived" /\ x.slot = req[t].row.slot /\ x.party = req[t].row.party
    BY <1>1 DEF Row
  <1>3. row' = [row EXCEPT ![b] = x]
    BY DEF SaveArrival
  <1>4. row'[b] = x /\ \A u \in Tx \ {b} : row'[u] = row[u]
    BY <1>1, <1>3 DEF TypeInv, TypeOK
  <1> HIDE DEF x
  <1>5. QED
    BY <1>1, <1>2, <1>4 DEF SaveArrival, TypeInv, TypeOK

LEMMA CommitIs ==
  ASSUME TypeInv, NEW t \in Tx, Commit(t)
  PROVE  /\ pc[t] = "commit" /\ req[t].op \in {"create", "hold", "edit"} /\ Target(t) \in Tx
         /\ \A r \in Tx \ {Target(t), req[t].own} : row'[r] = row[r] /\ reserved'[r] = reserved[r]
         /\ row'[Target(t)] = req[t].row /\ reserved'[Target(t)] = Granted(t, Target(t))
         /\ req[t].own \in Tx \ {Target(t)} => reserved'[req[t].own] = {}
         /\ pc' = [pc EXCEPT ![t] = "ok"] /\ UNCHANGED req
  BY CommitRows DEF TypeInv, StepOf

(* An edit holds its booking's row, so nobody else's step changes it.      *)
LEMMA RowHeld ==
  ASSUME LockInv, NEW t \in Tx, Commit(t) \/ SaveArrival(t), NEW u \in Tx \ {t}, req[u].op = "edit",
         pc[u] \in {"coupon", "slot", "check", "commit"}
  PROVE  row'[req[u].own] = row[req[u].own]
  <1>1. req[u].own \in Tx /\ rowLock[req[u].own] = u /\ TypeInv
        /\ req[req[u].own].op = "create" /\ pc[req[u].own] = "ok"
    BY DEF LockInv, Locked, TypeInv, Kinds
  <1>2. CASE SaveArrival(t)
    BY <1>1, <1>2, SaveIs, PlacesAssumption
  <1>3. CASE Commit(t)
    <2>1. pc[t] = "commit" /\ req[t].op \in {"create", "hold", "edit"}
      BY <1>1, <1>3, CommitIs
    <2>2. CASE req[t].op = "edit"
      <3>1. rowLock[req[t].own] = t /\ Target(t) = req[t].own
        BY <2>1, <2>2 DEF LockInv, Locked, Target
      <3>2. QED
        BY <1>1, <1>3, <3>1, CommitIs
    <2>3. CASE req[t].op \in {"create", "hold"}
      <3>1. Target(t) = t /\ (req[t].own # NoTx => req[req[t].own].op = "hold")
        BY <2>3 DEF Target, LockInv, TypeInv, Kinds
      <3>2. req[u].own # t /\ req[u].own # req[t].own
        BY <1>1, <2>1, <3>1, PlacesAssumption
      <3>3. QED
        BY <1>1, <1>3, <3>1, <3>2, CommitIs
    <2>4. QED
      BY <2>1, <2>2, <2>3
  <1>4. QED
    BY <1>2, <1>3

LEMMA LockStep ==
  ASSUME LockInv, [Next]_vars
  PROVE  LockInv'
  <1>0. TypeInv /\ TypeInv'
    BY TypeStep DEF LockInv
  <1>1. ASSUME NEW t \in Tx, Quiet(t)
        PROVE  LockInv'
    <2>1. Alone(t) /\ UNCHANGED <<row, reserved>>
      BY <1>0, <1>1, QuietAlone
    <2>2. \A u \in Tx : Locked(u)'
      BY <1>1, <2>1, OthersLocked, OwnLocked
    <2>3. GrantsLive'
      BY <2>1 DEF LockInv, GrantsLive, Live
    <2>4. \A u \in Tx \ {t} : Unmoved(u)'
      BY <2>1 DEF LockInv, Alone, Unmoved
    <2>5. Unmoved(t)'
      <3>1. CASE LockBooking(t)
        BY <1>0, <2>1, <3>1, LockBookingPatch DEF Unmoved, TypeInv, TypeOK
      <3>2. CASE LockCoupon(t)
        BY <1>0, <2>1, <3>2 DEF LockCoupon, LockInv, Unmoved
      <3>3. CASE Begin(t) \/ Refuse(t) \/ DeleteHold(t) \/ LockSlot(t)
        <4>1. CASE Begin(t)
          BY <1>0, <4>1, BeginIs DEF Unmoved
        <4>2. CASE Refuse(t)
          BY <1>0, <4>2, RefuseIs DEF Rollback, Unmoved, TypeInv, TypeOK
        <4>3. CASE DeleteHold(t) \/ LockSlot(t)
          BY <1>0, <4>3 DEF DeleteHold, LockSlot, Unmoved, TypeInv, TypeOK
        <4>4. QED
          BY <3>3, <4>1, <4>2, <4>3
      <3>4. CASE Reserve(t) \/ Insert(t) \/ RefCollision(t)
        <4>1. CASE Reserve(t)
          BY <1>0, <4>1 DEF Reserve, Unmoved, TypeInv, StepOf
        <4>2. CASE Insert(t)
          BY <1>0, <4>2 DEF Insert, Unmoved, TypeInv, StepOf
        <4>3. CASE RefCollision(t)
          BY <1>0, <4>3 DEF RefCollision, Unmoved, TypeInv, TypeOK
        <4>4. QED
          BY <3>4, <4>1, <4>2, <4>3
      <3>5. QED
        BY <1>1, <3>1, <3>2, <3>3, <3>4 DEF Quiet
    <2>6. QED
      BY <1>0, <2>2, <2>3, <2>4, <2>5 DEF LockInv
  <1>2. ASSUME NEW t \in Tx, Commit(t) \/ SaveArrival(t)
        PROVE  LockInv'
    <2>1. Alone(t) /\ pc'[t] = "ok" /\ UNCHANGED req
      BY <1>0, <1>2, CommitAlone, SaveAlone, CommitIs, SaveIs DEF TypeInv, TypeOK
    <2>2. \A u \in Tx : Locked(u)'
      <3>1. Locked(t)'
        BY <2>1 DEF Locked, Past
      <3>2. QED
        BY <2>1, <3>1, OthersLocked
    <2>3. \A u \in Tx : Unmoved(u)'
      <3>1. Unmoved(t)'
        BY <2>1 DEF Unmoved
      <3>2. ASSUME NEW u \in Tx \ {t}, req[u].op = "edit", pc[u] \in {"coupon", "commit"}
            PROVE  row'[req[u].own] = row[req[u].own]
        BY <1>2, <3>2, RowHeld
      <3>3. \A u \in Tx \ {t} : Unmoved(u)'
        BY <2>1, <3>2 DEF LockInv, Alone, Unmoved
      <3>4. QED
        BY <3>1, <3>3
    <2>4. GrantsLive'
      <3>1. CASE SaveArrival(t)
        BY <1>0, <3>1, SaveIs DEF LockInv, GrantsLive, Live
      <3>2. CASE Commit(t)
        <4>1. ASSUME "party" \in Granted(t, Target(t))
              PROVE  req[t].row.status \in {"held", "confirmed", "arrived"}
          BY <1>0, <3>2, <4>1, CommitIs, ZenonT(60) DEF Granted, TypeInv, Kinds, BookingStatus
        <4>2. QED
          BY <1>0, <3>2, <4>1, CommitIs DEF LockInv, GrantsLive, Live
      <3>3. QED
        BY <1>2, <3>1, <3>2
    <2>5. QED
      BY <1>0, <2>2, <2>3, <2>4 DEF LockInv
  <1>3. ASSUME NEW r \in Tx, Rows(r)
        PROVE  LockInv'
    <2>1. /\ \A u \in Tx \ {r} : row'[u] = row[u] /\ reserved'[u] = reserved[u]
          /\ reserved'[r] = {}
          /\ IsHold(r) \/ rowLock[r] = NoTx
          /\ UNCHANGED <<pc, req, slotLock, rowLock>>
      BY <1>0, <1>3, RowsIs
    <2>2. \A u \in Tx : Locked(u)'
      BY <2>1 DEF LockInv, Locked, Past
    <2>3. GrantsLive'
      BY <2>1 DEF LockInv, GrantsLive, Live
    <2>4. ASSUME NEW u \in Tx, req[u].op = "edit", pc[u] \in {"coupon", "commit"}
          PROVE  req[u].own \in Tx \ {r}
      BY <1>0, <2>1, <2>4, PlacesAssumption DEF LockInv, Locked, TypeInv, Kinds
    <2>5. \A u \in Tx : Unmoved(u)'
      BY <2>1, <2>4 DEF LockInv, Unmoved
    <2>6. QED
      BY <1>0, <2>2, <2>3, <2>5 DEF LockInv
  <1>4. CASE SaveCalendar \/ UNCHANGED vars
    BY <1>0, <1>4 DEF SaveCalendar, vars, LockInv, GrantsLive, Live, Locked, Unmoved, Past
  <1>5. QED
    BY <1>1, <1>2, <1>3, <1>4 DEF Next, Proceed, Quiet, Begin, Refuse, Rows

-----------------------------------------------------------------------------
(* Counting.                                                               *)

LEMMA Finite ==
  ASSUME NEW s, NEW R \in SUBSET Tx
  PROVE  IsFiniteSet(Guests(s, R)) /\ Cardinality(Guests(s, R)) \in Nat
  <1>1. IsFiniteSet(Tx) /\ IsFiniteSet(1..MaxParty)
    BY PlacesAssumption, FS_Interval
  <1>2. IsFiniteSet(Tx \X (1..MaxParty))
    BY <1>1, FS_Product
  <1>3. Guests(s, R) \in SUBSET (Tx \X (1..MaxParty))
    BY DEF Guests
  <1>4. QED
    BY <1>2, <1>3, FS_Subset, FS_CardinalityType

(* The heads of one party are as many as the party.                        *)
LEMMA PartyCount ==
  ASSUME NEW r, NEW n \in 0..MaxParty
  PROVE  IsFiniteSet({r} \X (1..n)) /\ Cardinality({r} \X (1..n)) = n
  <1>1. n \in Nat /\ IsFiniteSet(1..n) /\ Cardinality(1..n) = n
    BY PlacesAssumption, FS_Interval
  <1>2. IsFiniteSet({r}) /\ Cardinality({r}) = 1
    BY FS_Singleton
  <1>3. QED
    BY <1>1, <1>2, FS_Product

LEMMA CountMonotone ==
  ASSUME NEW s, NEW R \in SUBSET Tx, NEW S, S \subseteq Guests(s, R)
  PROVE  IsFiniteSet(S) /\ Cardinality(S) \in Nat /\ Cardinality(S) <= Cardinality(Guests(s, R))
  BY Finite, FS_Subset, FS_CardinalityType

(* Freeing places only takes heads away.                                   *)
LEMMA FreesLess ==
  ASSUME LockInv, Frees, NEW s, NEW x
  PROVE  Guests(s, Reserved("party") \ {x})' \subseteq GrantedExcept(s, x)
  <1>1. ASSUME NEW g \in Tx \X (1..MaxParty), "party" \in reserved'[g[1]], g[1] # x,
               row'[g[1]].slot = s, g[2] <= row'[g[1]].party
        PROVE  g \in GrantedExcept(s, x)
    <2>1. g[1] \in Tx /\ "party" \in reserved[g[1]] /\ row[g[1]].slot = s /\ g[2] <= row[g[1]].party
      BY <1>1 DEF Frees
    <2>2. Live(g[1])
      BY <2>1 DEF LockInv, GrantsLive
    <2>3. QED
      BY <1>1, <2>1, <2>2 DEF GrantedExcept, Guests, Reserved
  <1>2. QED
    BY <1>1 DEF Guests, Reserved

LEMMA FreesAll ==
  ASSUME LockInv, Frees, NEW s
  PROVE  Guests(s, Reserved("party"))' \subseteq Guests(s, Reserved("party"))
  <1>1. Guests(s, Reserved("party") \ {NoTx})' \subseteq GrantedExcept(s, NoTx)
    BY FreesLess
  <1>2. Reserved("party") \ {NoTx} = Reserved("party") /\ (Reserved("party") \ {NoTx} = Reserved("party"))'
    BY PlacesAssumption DEF Reserved
  <1>3. Guests(s, Reserved("party") \ {NoTx})' = Guests(s, Reserved("party"))'
    BY <1>2 DEF Guests
  <1>4. QED
    BY <1>1, <1>2, <1>3 DEF GrantedExcept

(* The step of t commits places in its slot: elsewhere nothing is added,   *)
(* and in its slot only its own party.                                     *)
LEMMA PlacedCommit ==
  ASSUME LockInv, NEW t \in Tx, Commit(t), req[t].places
  PROVE  /\ \A s, x : s # req[t].row.slot => Guests(s, Reserved("party") \ {x})' \subseteq GrantedExcept(s, x)
         /\ Guests(req[t].row.slot, Reserved("party"))'
              \subseteq GrantedExcept(req[t].row.slot, req[t].own) \cup ({Target(t)} \X (1..req[t].row.party))
  <1>1. /\ \A r \in Tx \ {Target(t), req[t].own} : row'[r] = row[r] /\ reserved'[r] = reserved[r]
        /\ row'[Target(t)] = req[t].row
        /\ req[t].own \in Tx \ {Target(t)} => reserved'[req[t].own] = {}
    BY CommitIs DEF LockInv
  <1>2. \A g \in Tx \X (1..MaxParty) : g[1] \in Tx /\ g[2] \in 1..MaxParty /\ g = <<g[1], g[2]>>
    OBVIOUS
  <1>3. ASSUME NEW g \in Tx \X (1..MaxParty), "party" \in reserved'[g[1]], g[1] # Target(t)
        PROVE  /\ g[1] # req[t].own /\ "party" \in reserved[g[1]] /\ row'[g[1]] = row[g[1]]
               /\ Live(g[1])
    BY <1>1, <1>2, <1>3 DEF LockInv, GrantsLive
  <1>4. ASSUME NEW s, NEW x, s # req[t].row.slot
        PROVE  Guests(s, Reserved("party") \ {x})' \subseteq GrantedExcept(s, x)
    <2>1. ASSUME NEW g \in Tx \X (1..MaxParty), "party" \in reserved'[g[1]], g[1] # x,
                 row'[g[1]].slot = s, g[2] <= row'[g[1]].party
          PROVE  g \in GrantedExcept(s, x)
      <3>1. g[1] # Target(t)
        BY <1>1, <1>4, <2>1
      <3>2. QED
        BY <1>2, <1>3, <2>1, <3>1 DEF GrantedExcept, Guests, Reserved
    <2>2. QED
      BY <2>1 DEF Guests, Reserved
  <1>5. ASSUME NEW g \in Tx \X (1..MaxParty), "party" \in reserved'[g[1]],
               row'[g[1]].slot = req[t].row.slot, g[2] <= row'[g[1]].party
        PROVE  g \in GrantedExcept(req[t].row.slot, req[t].own) \cup ({Target(t)} \X (1..req[t].row.party))
    <2>1. CASE g[1] = Target(t)
      <3>1. g[2] \in 1..req[t].row.party
        BY <1>1, <1>2, <1>5, <2>1, PlacesAssumption, OwnSlot DEF LockInv, TypeInv
      <3>2. QED
        BY <1>2, <2>1, <3>1
    <2>2. CASE g[1] # Target(t)
      BY <1>2, <1>3, <1>5, <2>2 DEF GrantedExcept, Guests, Reserved
    <2>3. QED
      BY <2>1, <2>2
  <1>6. Guests(req[t].row.slot, Reserved("party"))'
          \subseteq GrantedExcept(req[t].row.slot, req[t].own) \cup ({Target(t)} \X (1..req[t].row.party))
    <2>1. ASSUME NEW g \in Guests(req[t].row.slot, Reserved("party"))'
          PROVE  /\ g \in Tx \X (1..MaxParty) /\ "party" \in reserved'[g[1]]
                 /\ row'[g[1]].slot = req'[t].row.slot /\ g[2] <= row'[g[1]].party
      BY DEF Guests, Reserved
    <2>2. req' = req
      BY CommitIs DEF LockInv
    <2>3. QED
      BY <1>5, <2>1, <2>2
  <1>7. QED
    BY <1>4, <1>6

-----------------------------------------------------------------------------
(* What was counted stays true until it is written.                        *)

LEMMA ReservedTx == Reserved("party") \in SUBSET Tx /\ \A x : Reserved("party") \ {x} \in SUBSET Tx
  BY DEF Reserved

(* A step that adds nothing in the slot of u keeps the room u had counted. *)
LEMMA RoomStays ==
  ASSUME PlaceInv, NEW u \in Tx, Past(u), req'[u] = req[u],
         \A c, d : c = req[u].row.slot => Guests(c, Reserved("party") \ {d})' \subseteq GrantedExcept(c, d)
  PROVE  Cardinality(GrantedExcept(req[u].row.slot, req[u].own)') + req[u].row.party <= SlotCapacity
  <1> DEFINE s == req[u].row.slot
             x == req[u].own
  <1>1. Cardinality(GrantedExcept(s, x)) + req[u].row.party <= SlotCapacity
    BY DEF PlaceInv, RoomKept
  <1>2. req[u].row.party \in Nat /\ SlotCapacity \in Nat
    BY PlacesAssumption, OwnSlot DEF PlaceInv, LockInv, TypeInv
  <1>3. GrantedExcept(s, x)' \subseteq GrantedExcept(s, x)
    <2>1. s' = s /\ x' = x
      OBVIOUS
    <2> HIDE DEF s, x
    <2>2. GrantedExcept(s, x)' = Guests(s, Reserved("party") \ {x})'
      BY DEF GrantedExcept
    <2>3. \A c, d : c = s => Guests(c, Reserved("party") \ {d})' \subseteq GrantedExcept(c, d)
      BY DEF s
    <2>4. QED
      BY <2>1, <2>2, <2>3 DEF Guests
  <1>4. /\ Cardinality(GrantedExcept(s, x)') \in Nat /\ Cardinality(GrantedExcept(s, x)) \in Nat
        /\ Cardinality(GrantedExcept(s, x)') <= Cardinality(GrantedExcept(s, x))
    <2> DEFINE R == Reserved("party") \ {x}
               S == GrantedExcept(s, x)'
    <2>1. GrantedExcept(s, x) = Guests(s, R) /\ R \in SUBSET Tx
      BY ReservedTx DEF GrantedExcept
    <2>2. S \subseteq Guests(s, R)
      BY <1>3, <2>1
    <2> HIDE DEF S, R, s, x
    <2>3. Cardinality(S) \in Nat /\ Cardinality(S) <= Cardinality(Guests(s, R))
      BY <2>1, <2>2, CountMonotone
    <2>4. Cardinality(Guests(s, R)) \in Nat
      BY <2>1, Finite
    <2>5. QED
      BY <2>1, <2>3, <2>4 DEF S
  <1> HIDE DEF s, x
  <1>5. Cardinality(GrantedExcept(s, x)') + req[u].row.party <= SlotCapacity
    BY <1>1, <1>2, <1>4
  <1>6. QED
    BY <1>5 DEF s, x

LEMMA QuietFrees ==
  ASSUME UNCHANGED <<row, reserved>>
  PROVE  Frees
  BY DEF Frees

LEMMA RowsFrees ==
  ASSUME TypeInv, NEW r \in Tx, Rows(r)
  PROVE  Frees
  BY RowsIs DEF Frees

LEMMA SaveFrees ==
  ASSUME TypeInv, NEW t \in Tx, SaveArrival(t)
  PROVE  Frees
  BY SaveIs DEF Frees

LEMMA UnplacedFrees ==
  ASSUME LockInv, NEW t \in Tx, Commit(t), ~req[t].places
  PROVE  Frees
  <1>1. TypeInv /\ pc[t] = "commit" /\ req[t].op = "edit" /\ Target(t) = req[t].own
    BY CommitIs DEF LockInv, TypeInv, Kinds, Target
  <1>2. \/ req[t].row.status \in {"cancelled", "postponed"}
        \/ req[t].row.slot = row[Target(t)].slot /\ req[t].row.party = row[Target(t)].party
    BY <1>1 DEF LockInv, Unmoved
  <1>3. "party" \in Granted(t, Target(t)) =>
          /\ req[t].row.status \notin {"cancelled", "postponed"}
          /\ "party" \in reserved[Target(t)]
    BY DEF Granted
  <1>4. QED
    BY <1>1, <1>2, <1>3, CommitIs DEF Frees

(* The step of any request that frees places or writes none.               *)
LEMMA FreeingStep ==
  ASSUME PlaceInv, Frees
  PROVE  SlotWithinCapacity'
  <1>1. ASSUME NEW s \in Slots
        PROVE  Cardinality(Guests(s, Reserved("party"))') <= SlotCapacity
    <2> DEFINE S == Guests(s, Reserved("party"))'
               R == Reserved("party")
    <2>1. S \subseteq Guests(s, R)
      BY FreesAll DEF PlaceInv
    <2>2. Cardinality(Guests(s, R)) <= SlotCapacity /\ SlotCapacity \in Nat /\ R \in SUBSET Tx
      BY PlacesAssumption, ReservedTx DEF PlaceInv, SlotWithinCapacity
    <2> HIDE DEF S, R
    <2>3. Cardinality(S) \in Nat /\ Cardinality(S) <= Cardinality(Guests(s, R))
          /\ Cardinality(Guests(s, R)) \in Nat
      BY <2>1, <2>2, CountMonotone, Finite
    <2>4. Cardinality(S) <= SlotCapacity
      BY <2>2, <2>3
    <2>5. QED
      BY <2>4 DEF S
  <1>2. QED
    BY <1>1 DEF SlotWithinCapacity

(* The commit of a request that reserved: its slot takes its party on top  *)
(* of what was counted, and no other slot takes anybody.                   *)
LEMMA PlacedStep ==
  ASSUME PlaceInv, NEW t \in Tx, Commit(t), req[t].places
  PROVE  SlotWithinCapacity'
  <1>0. LockInv /\ pc[t] = "commit" /\ Past(t)
    BY CommitIs DEF PlaceInv, LockInv, Past
  <1>1. ASSUME NEW s \in Slots, s # req[t].row.slot
        PROVE  Cardinality(Guests(s, Reserved("party"))') <= SlotCapacity
    <2> DEFINE S == Guests(s, Reserved("party"))'
               R == Reserved("party")
    <2>1. S \subseteq Guests(s, R)
      <3>1. Guests(s, Reserved("party") \ {NoTx})' \subseteq GrantedExcept(s, NoTx)
        BY <1>0, <1>1, PlacedCommit
      <3>2. Reserved("party") \ {NoTx} = Reserved("party") /\ (Reserved("party") \ {NoTx} = Reserved("party"))'
        BY PlacesAssumption DEF Reserved
      <3>3. Guests(s, Reserved("party") \ {NoTx})' = Guests(s, Reserved("party"))'
        BY <3>2 DEF Guests
      <3>4. QED
        BY <3>1, <3>2, <3>3 DEF GrantedExcept
    <2>2. Cardinality(Guests(s, R)) <= SlotCapacity /\ SlotCapacity \in Nat /\ R \in SUBSET Tx
      BY PlacesAssumption, ReservedTx DEF PlaceInv, SlotWithinCapacity
    <2> HIDE DEF S, R
    <2>3. Cardinality(S) \in Nat /\ Cardinality(S) <= Cardinality(Guests(s, R))
          /\ Cardinality(Guests(s, R)) \in Nat
      BY <2>1, <2>2, CountMonotone, Finite
    <2>4. Cardinality(S) <= SlotCapacity
      BY <2>2, <2>3
    <2>5. QED
      BY <2>4 DEF S
  <1>2. ASSUME NEW s \in Slots, s = req[t].row.slot
        PROVE  Cardinality(Guests(s, Reserved("party"))') <= SlotCapacity
    <2> DEFINE S == Guests(s, Reserved("party"))'
               x == req[t].own
               R == Reserved("party") \ {x}
               n == req[t].row.party
               P == {Target(t)} \X (1..n)
    <2>1. S \subseteq Guests(s, R) \cup P
      <3>1. Guests(req[t].row.slot, Reserved("party"))' = Guests(s, Reserved("party"))'
        BY <1>0, <1>2, CommitIs DEF LockInv, Guests
      <3>2. QED
        BY <1>0, <1>2, <3>1, PlacedCommit DEF GrantedExcept
    <2>2. Cardinality(Guests(s, R)) + n <= SlotCapacity /\ SlotCapacity \in Nat
          /\ R \in SUBSET Tx /\ n \in 0..MaxParty
      BY <1>0, <1>2, PlacesAssumption, ReservedTx, OwnSlot
      DEF PlaceInv, LockInv, TypeInv, RoomKept, GrantedExcept
    <2>3. IsFiniteSet(P) /\ Cardinality(P) = n
      BY <2>2, PartyCount
    <2> HIDE DEF S, R, P, n
    <2>4. IsFiniteSet(Guests(s, R)) /\ Cardinality(Guests(s, R)) \in Nat /\ n \in Nat
      BY <2>2, Finite, PlacesAssumption
    <2>5. /\ IsFiniteSet(Guests(s, R) \cup P)
          /\ Cardinality(Guests(s, R) \cup P) <= Cardinality(Guests(s, R)) + n
          /\ Cardinality(Guests(s, R) \cup P) \in Nat
      <3>1. IsFiniteSet(Guests(s, R) \cap P) /\ Cardinality(Guests(s, R) \cap P) \in Nat
        BY <2>3, FS_Subset, FS_CardinalityType
      <3>2. IsFiniteSet(Guests(s, R) \cup P)
            /\ Cardinality(Guests(s, R) \cup P)
                 = Cardinality(Guests(s, R)) + Cardinality(P) - Cardinality(Guests(s, R) \cap P)
        BY <2>3, <2>4, FS_Union
      <3>3. QED
        BY <2>3, <2>4, <3>1, <3>2, FS_CardinalityType
    <2>6. Cardinality(S) <= Cardinality(Guests(s, R) \cup P) /\ Cardinality(S) \in Nat
      BY <2>1, <2>5, FS_Subset, FS_CardinalityType
    <2>7. Cardinality(S) <= SlotCapacity
      BY <2>2, <2>4, <2>5, <2>6
    <2>8. QED
      BY <2>7 DEF S
  <1>3. QED
    BY <1>1, <1>2 DEF SlotWithinCapacity

(* Only the count itself makes a request one that has counted.             *)
LEMMA PastFrom ==
  ASSUME LockInv, NEW t \in Tx, Quiet(t), Past(t)'
  PROVE  (Past(t) \/ Reserve(t)) /\ req'[t] = req[t]
  <1>0. TypeInv
    BY DEF LockInv
  <1>1. CASE Begin(t)
    BY <1>0, <1>1, BeginIs DEF Past
  <1>2. CASE DeleteHold(t)
    <2>1. req[t].op \in {"hold", "create"} /\ pc[t] = "row" /\ pc'[t] \in {"slot", "insert"}
          /\ (pc'[t] = "insert" => req[t].op = "create") /\ UNCHANGED req
      BY <1>0, <1>2 DEF DeleteHold, TypeInv, TypeOK
    <2>2. QED
      BY <2>1 DEF Past
  <1>3. CASE LockBooking(t)
    <2>1. \/ pc'[t] \in {"ok", "refused"}
          \/ pc'[t] \in {"coupon", "slot", "commit"} /\ req'[t].op = "edit"
             /\ (pc'[t] = "commit" => ~req'[t].places)
      BY <1>0, <1>3, LockBookingStep DEF TypeInv, TypeOK
    <2>2. QED
      BY <2>1 DEF Past
  <1>4. CASE LockCoupon(t)
    <2>1. /\ pc[t] = "coupon" /\ UNCHANGED req
          /\ \/ req[t].op = "create" /\ pc'[t] = "commit"
             \/ /\ req[t].op = "edit"
                /\ pc'[t] = "slot" \/ (pc'[t] = "commit" /\ ~req[t].places)
      BY <1>0, <1>4 DEF LockCoupon, TypeInv, TypeOK
    <2>2. QED
      BY <2>1 DEF Past
  <1>5. CASE LockSlot(t)
    BY <1>0, <1>5 DEF LockSlot, Past, TypeInv, TypeOK
  <1>6. CASE Reserve(t)
    BY <1>6 DEF Reserve
  <1>7. CASE Insert(t)
    BY <1>0, <1>7 DEF Insert, Past, TypeInv, StepOf
  <1>8. CASE RefCollision(t)
    BY <1>0, <1>8 DEF RefCollision, Past, TypeInv, TypeOK
  <1>9. CASE Refuse(t)
    BY <1>0, <1>9, RefuseIs DEF Rollback, Past, TypeInv, TypeOK
  <1>10. QED
    BY <1>1, <1>2, <1>3, <1>4, <1>5, <1>6, <1>7, <1>8, <1>9 DEF Quiet

(* The count under the lock.                                               *)
LEMMA Counted ==
  ASSUME PlaceInv, NEW t \in Tx, Reserve(t)
  PROVE  RoomKept(t)'
  <1>1. UNCHANGED <<row, reserved, req>> /\ HasRoom(t)
    BY DEF Reserve, reservePlaces
  <1> DEFINE s == req[t].row.slot
             n == req[t].row.party
             S == GrantedExcept(s, req[t].own)
             R == Others(t)
  <1>2. Cardinality(Guests(s, R)) + n <= SlotCapacity /\ R \in SUBSET Tx
    BY <1>1 DEF HasRoom, Others
  <1>3. n \in Nat /\ SlotCapacity \in Nat
    BY PlacesAssumption, OwnSlot DEF PlaceInv, LockInv, TypeInv
  <1>4. S \subseteq Guests(s, R)
    BY DEF GrantedExcept, Guests, Others, Reserved
  <1> HIDE DEF s, n, S, R
  <1>5. Cardinality(S) + n <= SlotCapacity
    <2>1. Cardinality(S) \in Nat /\ Cardinality(S) <= Cardinality(Guests(s, R))
          /\ Cardinality(Guests(s, R)) \in Nat
      BY <1>2, <1>4, CountMonotone, Finite
    <2>2. QED
      BY <1>2, <1>3, <2>1
  <1>6. GrantedExcept(req[t].row.slot, req[t].own)' = S
    BY <1>1 DEF S, s, GrantedExcept, Guests, Reserved, Live
  <1>7. QED
    BY <1>1, <1>5, <1>6 DEF RoomKept, n

(* While a request has counted, nobody else commits places in its slot.    *)
LEMMA OthersRoom ==
  ASSUME PlaceInv, NEW t \in Tx, Commit(t), NEW u \in Tx \ {t}
  PROVE  RoomKept(u)'
  <1>0. LockInv /\ TypeInv /\ Alone(t) /\ pc[t] = "commit" /\ UNCHANGED req
    BY CommitAlone, CommitIs DEF PlaceInv, LockInv
  <1> SUFFICES ASSUME Past(u)'
               PROVE  Cardinality(GrantedExcept(req[u].row.slot, req[u].own)') + req[u].row.party <= SlotCapacity
    BY <1>0 DEF RoomKept
  <1>1. Past(u) /\ req'[u] = req[u]
    BY <1>0 DEF Alone, Past
  <1>2. CASE ~req[t].places
    <2>1. Frees
      BY <1>0, <1>2, UnplacedFrees
    <2>2. \A c, d : Guests(c, Reserved("party") \ {d})' \subseteq GrantedExcept(c, d)
      BY <1>0, <2>1, FreesLess
    <2>3. QED
      BY <1>1, <2>2, RoomStays
  <1>3. CASE req[t].places
    <2>1. slotLock[req[u].row.slot] = u /\ slotLock[req[t].row.slot] = t
      BY <1>0, <1>1, <1>3 DEF LockInv, Locked, Past
    <2>2. req[u].row.slot # req[t].row.slot
      BY <2>1
    <2>3. \A c, d : c # req[t].row.slot => Guests(c, Reserved("party") \ {d})' \subseteq GrantedExcept(c, d)
      BY <1>0, <1>3, PlacedCommit
    <2>4. QED
      BY <1>1, <2>2, <2>3, RoomStays
  <1>4. QED
    BY <1>2, <1>3

LEMMA PlaceStep ==
  ASSUME PlaceInv, [Next]_vars
  PROVE  PlaceInv'
  <1>0. LockInv /\ TypeInv /\ LockInv'
    BY LockStep DEF PlaceInv, LockInv
  <1>1. ASSUME Frees, NEW u \in Tx, Past(u), req'[u] = req[u]
        PROVE  RoomKept(u)'
    <2>1. \A c, d : Guests(c, Reserved("party") \ {d})' \subseteq GrantedExcept(c, d)
      BY <1>0, <1>1, FreesLess
    <2>2. QED
      BY <1>1, <2>1, RoomStays DEF RoomKept
  <1>2. ASSUME NEW t \in Tx, Quiet(t)
        PROVE  PlaceInv'
    <2>1. Alone(t) /\ Frees
      BY <1>0, <1>2, QuietAlone, QuietFrees
    <2>2. ASSUME NEW u \in Tx \ {t}
          PROVE  RoomKept(u)'
      <3>1. CASE Past(u)'
        <4>1. Past(u) /\ req'[u] = req[u]
          BY <2>1, <3>1 DEF Alone, Past
        <4>2. QED
          BY <1>1, <2>1, <4>1
      <3>2. CASE ~Past(u)'
        BY <3>2 DEF RoomKept
      <3>3. QED
        BY <3>1, <3>2
    <2>3. RoomKept(t)'
      <3>1. CASE Past(t)'
        BY <1>0, <1>1, <1>2, <2>1, <3>1, PastFrom, Counted
      <3>2. CASE ~Past(t)'
        BY <3>2 DEF RoomKept
      <3>3. QED
        BY <3>1, <3>2
    <2>4. QED
      BY <1>0, <2>1, <2>2, <2>3, FreeingStep DEF PlaceInv
  <1>3. ASSUME NEW t \in Tx, Commit(t)
        PROVE  PlaceInv'
    <2>1. RoomKept(t)'
      BY <1>0, <1>3, CommitIs DEF TypeInv, TypeOK, RoomKept, Past
    <2>2. SlotWithinCapacity'
      BY <1>0, <1>3, PlacedStep, UnplacedFrees, FreeingStep
    <2>3. QED
      BY <1>0, <1>3, <2>1, <2>2, OthersRoom DEF PlaceInv
  <1>4. ASSUME NEW t \in Tx, SaveArrival(t)
        PROVE  PlaceInv'
    <2>1. Frees /\ Alone(t) /\ pc'[t] = "ok" /\ UNCHANGED req
      BY <1>0, <1>4, SaveFrees, SaveAlone, SaveIs DEF TypeInv, TypeOK
    <2>2. ASSUME NEW u \in Tx, Past(u)'
          PROVE  Past(u) /\ req'[u] = req[u]
      BY <2>1, <2>2 DEF Alone, Past
    <2>3. \A u \in Tx : RoomKept(u)'
      BY <1>1, <2>1, <2>2 DEF RoomKept
    <2>4. QED
      BY <1>0, <2>1, <2>3, FreeingStep DEF PlaceInv
  <1>5. ASSUME Frees, UNCHANGED <<pc, req>>
        PROVE  PlaceInv'
    <2>1. ASSUME NEW u \in Tx, Past(u)'
          PROVE  Past(u) /\ req'[u] = req[u]
      BY <1>5, <2>1 DEF Past
    <2>2. \A u \in Tx : RoomKept(u)'
      BY <1>1, <1>5, <2>1 DEF RoomKept
    <2>3. QED
      BY <1>0, <1>5, <2>2, FreeingStep DEF PlaceInv
  <1>6. ASSUME NEW r \in Tx, Rows(r)
        PROVE  PlaceInv'
    BY <1>0, <1>5, <1>6, RowsFrees, RowsIs
  <1>7. CASE SaveCalendar \/ UNCHANGED vars
    <2>1. UNCHANGED <<row, reserved>> /\ UNCHANGED <<pc, req>>
      BY <1>7 DEF SaveCalendar, vars
    <2>2. QED
      BY <1>5, <2>1, QuietFrees
  <1>8. QED
    BY <1>2, <1>3, <1>4, <1>6, <1>7 DEF Next, Proceed, Quiet, Begin, Refuse, Rows

LEMMA PlaceInit == Init => PlaceInv
  <1> SUFFICES ASSUME Init PROVE PlaceInv
    OBVIOUS
  <1>1. LockInv
    BY TypeInit DEF Init, LockInv, GrantsLive, Locked, Unmoved, Past
  <1>2. \A s : Guests(s, Reserved("party")) = {}
    BY DEF Init, Guests, Reserved
  <1>3. SlotWithinCapacity
    <2>1. Cardinality({}) = 0 /\ SlotCapacity \in Nat
      BY FS_EmptySet, PlacesAssumption
    <2>2. \A s \in Slots : Cardinality(Guests(s, Reserved("party"))) = 0
      BY <1>2, <2>1
    <2>3. QED
      BY <2>1, <2>2 DEF SlotWithinCapacity
  <1>4. \A t \in Tx : RoomKept(t)
    BY DEF Init, RoomKept, Past
  <1>5. QED
    BY <1>1, <1>3, <1>4 DEF PlaceInv

LEMMA PlaceInvariant == Spec => []PlaceInv
  BY PlaceInit, PlaceStep, PTL DEF Spec

(* Whatever requests run at once, the guests the capacity check stands for *)
(* never outnumber an arrival slot: counting, writing and the lock between *)
(* them are one unit for every number of requests and slots.               *)
THEOREM SlotSafe == Spec => []SlotWithinCapacity
  <1>1. PlaceInv => SlotWithinCapacity
    BY DEF PlaceInv
  <1>2. QED
    BY <1>1, PlaceInvariant, PTL

-----------------------------------------------------------------------------
(* Holds: nothing but what the slot's guests already count stands against  *)
(* the booking a hold is for.                                              *)

LEMMA HeldPlaces ==
  ASSUME PlaceInv, NEW x \in Tx, Live(x), "party" \in reserved[x]
  PROVE  Cardinality(GrantedExcept(row[x].slot, x)) + row[x].party <= SlotCapacity
<1> DEFINE s == row[x].slot
           n == row[x].party
           S == GrantedExcept(s, x)
           P == {x} \X (1..n)
           G == Guests(s, Reserved("party"))
<1>1. s \in Slots /\ n \in 0..MaxParty /\ MaxParty \in Nat /\ SlotCapacity \in Nat
  BY PlacesAssumption DEF PlaceInv, LockInv, TypeInv, TypeOK, Row
<1>2. IsFiniteSet(S) /\ Cardinality(S) \in Nat BY Finite, ReservedTx DEF GrantedExcept
<1>3. IsFiniteSet(P) /\ Cardinality(P) = n BY <1>1, PartyCount
<1>4. S \cap P = {} BY DEF GrantedExcept, Guests, Reserved
<1>5. S \cup P \subseteq G
  <2>1. S \subseteq G BY DEF GrantedExcept, Guests, Reserved
  <2>2. P \subseteq G BY <1>1 DEF Guests, Reserved
  <2> QED BY <2>1, <2>2
<1> HIDE DEF S, P, n, s
<1>6. Cardinality(S \cup P) = Cardinality(S) + n
  BY <1>1, <1>2, <1>3, <1>4, FS_Union, FS_EmptySet
<1>7. Cardinality(S \cup P) <= Cardinality(G) /\ Cardinality(G) \in Nat
  BY <1>5, ReservedTx, CountMonotone, Finite
<1>8. Cardinality(G) <= SlotCapacity BY <1>1 DEF PlaceInv, SlotWithinCapacity
<1> QED BY <1>1, <1>2, <1>6, <1>7, <1>8 DEF S, n, s

(* "so the last spots are not taken by someone else mid-form": a guest     *)
(* whose hold is alive gets a booking of no more people into the slot it   *)
(* holds, unless the gate let unreserved guests in (capacity.ts            *)
(* reservePlaces, bookings.service create).                                *)
THEOREM HoldSafe == Spec => []HoldHonoured
<1>1. PlaceInv => HoldHonoured
  <2> SUFFICES ASSUME PlaceInv, NEW t \in Tx,
                      req[t].own # NoTx,
                      row[req[t].own].status = "held",
                      row[req[t].own].slot = req[t].row.slot,
                      req[t].row.party <= row[req[t].own].party,
                      \A r \in Tx : Live(r) /\ row[r].slot = req[t].row.slot => "party" \in reserved[r]
               PROVE  HasRoom(t)
    BY DEF HoldHonoured
  <2> DEFINE x == req[t].own
             s == req[t].row.slot
  <2>1. x \in Tx /\ Live(x) /\ "party" \in reserved[x]
    BY OwnSlot DEF PlaceInv, LockInv, TypeInv, Live
  <2>2. Cardinality(GrantedExcept(s, x)) + row[x].party <= SlotCapacity BY <2>1, HeldPlaces
  <2>3. Guests(s, Others(t)) \subseteq GrantedExcept(s, x)
    BY DEF Guests, Others, GrantedExcept, Reserved
  <2>4. /\ Cardinality(Guests(s, Others(t))) \in Nat /\ Cardinality(GrantedExcept(s, x)) \in Nat
        /\ Cardinality(Guests(s, Others(t))) <= Cardinality(GrantedExcept(s, x))
    BY <2>3, ReservedTx, CountMonotone, Finite DEF GrantedExcept
  <2>5. req[t].row.party \in Nat /\ row[x].party \in Nat /\ SlotCapacity \in Nat
    BY <2>1, PlacesAssumption, OwnSlot DEF PlaceInv, LockInv, TypeInv, TypeOK, Row
  <2> QED BY <2>2, <2>4, <2>5 DEF HasRoom
<1> QED BY <1>1, PlaceInvariant, PTL

-----------------------------------------------------------------------------
(* What requests carry, beyond their types.                                *)

(* A booking with a code counts its use, a hold has neither code nor key,  *)
(* and whoever asks for places asks for some.                              *)
Carries(q) ==
  /\ q.op = "create" => (q.row.coupon => q.consume)
  /\ q.op = "hold" => q.row.key = NoKey /\ ~q.row.coupon /\ ~q.consume
  /\ q.places => q.row.party # 0

(* Two attempts with one key are the same booking.                         *)
SameBooking(q, r) ==
  q.op = "create" /\ r.op = "create" /\ q.row.key = r.row.key /\ q.row.key # NoKey => q.row = r.row

Asked == /\ \A t \in Tx : Carries(req[t])
         /\ \A t, u \in Tx : SameBooking(req[t], req[u])

LEMMA PageCarries ==
  ASSUME TypeOK, NEW t \in Tx, NEW op \in {"create", "hold"}, NEW status \in Status,
         FromPage(t, op, status)
  PROVE  /\ Carries(req'[t])
         /\ \A u \in Tx \ {t} : req'[u] = req[u]
         /\ req'[t].row.key # NoKey =>
              \A u \in Tx : req[u].op = "create" /\ req[u].row.key = req'[t].row.key
                => req[u].row = req'[t].row
<1>1. PICK s \in Slots, party \in 1..MaxParty, lines \in Baskets, k \in Keys \cup {NoKey},
           coupon \in BOOLEAN,
           h \in {NoTx} \cup {x \in Tx : req[x].op = "hold" /\ pc[x] = "ok"} :
        /\ LinesFitParty(lines, party)
        /\ coupon => "coupon" \in Ops
        /\ op = "hold" => k = NoKey /\ ~coupon
        /\ req' = [req EXCEPT ![t] =
             [op |-> op, own |-> h,
              row |-> [status |-> status, slot |-> s, party |-> party, lines |-> lines,
                       key |-> k, coupon |-> coupon],
              asked |-> lines, places |-> TRUE, consume |-> coupon, tries |-> 0]]
        /\ \A u \in Tx : k # NoKey /\ req[u].op = "create" /\ req[u].row.key = k
             => req[u].row = req'[t].row /\ req[u].own = h
  BY DEF FromPage
<1> DEFINE q == [op |-> op, own |-> h,
                 row |-> [status |-> status, slot |-> s, party |-> party, lines |-> lines,
                          key |-> k, coupon |-> coupon],
                 asked |-> lines, places |-> TRUE, consume |-> coupon, tries |-> 0]
<1>2. party # 0 BY PlacesAssumption
<1>3. q.op = op /\ q.row.key = k /\ q.row.coupon = coupon /\ q.consume = coupon /\ q.row.party = party
  OBVIOUS
<1>4. req'[t] = q /\ \A u \in Tx \ {t} : req'[u] = req[u] BY <1>1 DEF TypeOK
<1> HIDE DEF q
<1>5. Carries(q) BY <1>1, <1>2, <1>3 DEF Carries
<1> QED BY <1>1, <1>3, <1>4, <1>5

(* An edit's row keeps the booking's key, and carries a code only if it    *)
(* counted it or the booking had it.                                       *)
LEMMA PatchCarries ==
  ASSUME TypeInv, NEW t \in Tx, LockBooking(t)
  PROVE  /\ \A u \in Tx \ {t} : req'[u] = req[u]
         /\ Carries(req'[t])
         /\ req'[t].op = "edit" => /\ req'[t].own = req[t].own
                                   /\ req'[t].row.key = row[req[t].own].key
                                   /\ req'[t].row.coupon => req'[t].consume \/ row[req[t].own].coupon
<1>1. PICK s \in Slots, party \in 1..MaxParty, status \in BookingStatus,
           items \in Baskets \cup {NoItems}, coupon \in {"keep", "set", "clear"} :
        req' = [req EXCEPT ![t] = Patch(t, s, party, status, items, coupon)]
  <2>1. PICK s \in Slots, party \in 1..MaxParty, status \in BookingStatus,
             items \in Baskets \cup {NoItems},
             coupon \in {"keep"} \cup (IF "coupon" \in Ops THEN {"set", "clear"} ELSE {}) :
          req' = [req EXCEPT ![t] = Patch(t, s, party, status, items, coupon)]
    BY DEF LockBooking
  <2>2. coupon \in {"keep", "set", "clear"} OBVIOUS
  <2> QED BY <2>1, <2>2
<1>2. req[t].own \in Tx /\ IsBooking(req[t].own) BY DEF LockBooking, TypeInv, Kinds
<1> DEFINE q == Patch(t, s, party, status, items, coupon)
           old == row[req[t].own]
<1>3. q \in Request /\ (q = NoRequest \/ q.op = "edit")
      /\ (q.op = "edit" => q.own = req[t].own /\ q.row.key = old.key)
  BY <1>2, PatchType DEF TypeInv
<1>4. req'[t] = q /\ \A u \in Tx \ {t} : req'[u] = req[u] BY <1>1 DEF TypeInv, TypeOK
<1>5. q.op = "edit" => q.row.party = party /\ (q.row.coupon => q.consume \/ old.coupon)
  BY DEF Patch, NoRequest
<1>6. party # 0 BY PlacesAssumption
<1> HIDE DEF q, old
<1>7. Carries(q) BY <1>3, <1>5, <1>6 DEF Carries, NoRequest
<1> QED BY <1>3, <1>4, <1>5, <1>7 DEF old

LEMMA AskedStep ==
  ASSUME TypeInv, Asked, [Next]_vars
  PROVE  Asked'
<1>1. ASSUME NEW t \in Tx, Carries(req'[t]), \A u \in Tx \ {t} : req'[u] = req[u],
             req'[t].op = "create" => \A u \in Tx \ {t} : SameBooking(req'[t], req[u])
      PROVE  Asked'
  BY <1>1 DEF Asked, SameBooking
<1>2. ASSUME NEW t \in Tx, Create(t) PROVE Asked'
  <2>1. FromPage(t, "create", "confirmed") /\ "confirmed" \in Status BY <1>2 DEF Create, Status
  <2>2. \A u \in Tx \ {t} : SameBooking(req'[t], req[u]) BY <2>1, PageCarries DEF TypeInv, SameBooking
  <2> QED BY <1>1, <2>1, <2>2, PageCarries DEF TypeInv
<1>3. ASSUME NEW t \in Tx, HoldPlaces(t) PROVE Asked'
  <2>1. FromPage(t, "hold", "held") /\ "held" \in Status BY <1>3 DEF HoldPlaces, Status
  <2>2. PICK q \in Request : req' = [req EXCEPT ![t] = q] /\ q.op = "hold" BY <2>1, FromPageType DEF TypeInv
  <2>3. req'[t].op = "hold" BY <2>2 DEF TypeInv, TypeOK
  <2> QED BY <1>1, <2>1, <2>3, PageCarries DEF TypeInv
<1>4. ASSUME NEW t \in Tx, Edit(t) \/ CheckIn(t) PROVE Asked'
  <2>1. PICK q : /\ req' = [req EXCEPT ![t] = q] /\ q.op \in {"edit", "checkIn"} /\ ~q.places
    <3>1. CASE Edit(t)
      <4>1. PICK b \in Tx : req' = [req EXCEPT ![t] = [NoRequest EXCEPT !.op = "edit", !.own = b]]
        BY <3>1 DEF Edit
      <4> DEFINE q == [NoRequest EXCEPT !.op = "edit", !.own = b]
      <4>2. q.op = "edit" /\ ~q.places BY DEF NoRequest
      <4> HIDE DEF q
      <4> QED BY <4>1, <4>2 DEF q
    <3>2. CASE CheckIn(t)
      <4>1. PICK b \in Tx : req' = [req EXCEPT ![t] = [NoRequest EXCEPT !.op = "checkIn", !.own = b,
                                                         !.row = [row[b] EXCEPT !.status = "arrived"]]]
        BY <3>2 DEF CheckIn
      <4> DEFINE q == [NoRequest EXCEPT !.op = "checkIn", !.own = b, !.row = [row[b] EXCEPT !.status = "arrived"]]
      <4>2. q.op = "checkIn" /\ ~q.places BY DEF NoRequest
      <4> HIDE DEF q
      <4> QED BY <4>1, <4>2 DEF q
    <3> QED BY <1>4, <3>1, <3>2
  <2>2. req'[t] = q /\ \A u \in Tx \ {t} : req'[u] = req[u] BY <2>1 DEF TypeInv, TypeOK
  <2> QED BY <1>1, <2>1, <2>2 DEF Carries
<1>5. ASSUME NEW t \in Tx, LockBooking(t) PROVE Asked'
  <2>1. req'[t].op # "create" BY <1>5, LockBookingStep DEF TypeInv
  <2> QED BY <1>1, <1>5, <2>1, PatchCarries
<1>6. ASSUME NEW t \in Tx, RefCollision(t) PROVE Asked'
  <2>1. req[t] \in Request /\ req' = [req EXCEPT ![t].tries = req[t].tries + 1]
    BY <1>6 DEF RefCollision, TypeInv, TypeOK
  <2>2. /\ req'[t].op = req[t].op /\ req'[t].row = req[t].row
        /\ req'[t].consume = req[t].consume /\ req'[t].places = req[t].places
        /\ \A u \in Tx \ {t} : req'[u] = req[u]
    BY <2>1 DEF TypeInv, TypeOK, Request
  <2> QED BY <1>1, <2>2 DEF Asked, Carries, SameBooking
<1>7. CASE UNCHANGED req BY <1>7 DEF Asked
<1>8. ASSUME NEW t \in Tx, Proceed(t), ~LockBooking(t) PROVE UNCHANGED req
  BY <1>8 DEF Proceed, DeleteHold, LockCoupon, CouponRefused, LockSlot, Reserve, Full, Insert, TwinFirst,
              Commit, SaveArrival, DeadlockVictim, Rollback
<1>9. ASSUME NEW r \in Tx, Rows(r) PROVE UNCHANGED req BY <1>9 DEF Rows, ReleaseHold, Expire, Postpone
<1>10. SaveCalendar \/ UNCHANGED vars => UNCHANGED req BY DEF SaveCalendar, vars
<1> QED BY <1>2, <1>3, <1>4, <1>5, <1>6, <1>7, <1>8, <1>9, <1>10 DEF Next, Rows

LEMMA AskedInit == Init => Asked
BY DEF Init, Asked, Carries, SameBooking, NoRequest

-----------------------------------------------------------------------------
(* Keys.                                                                   *)

(* From its look at the unique index to its commit a booking's key is      *)
(* nobody else's.                                                          *)
KeyFree(t) == req[t].op = "create" /\ pc[t] \in {"coupon", "commit"} => ~KeyTaken(req[t].row.key)

(* An edit, or the gate's save, writes back the key its booking has.       *)
KeyCarried(t) ==
  \/ req[t].op = "edit" /\ pc[t] \in {"coupon", "slot", "check", "commit"}
  \/ req[t].op = "checkIn" /\ pc[t] = "save"
  => req[t].row.key = row[req[t].own].key

KeyInv == OneBookingPerKey /\ \A t \in Tx : KeyFree(t) /\ KeyCarried(t)

(* No key is written that was not there.                                   *)
KeysGo == \A r \in Tx : row'[r].key \in {row[r].key, NoKey}

LEMMA RowsOf ==
  ASSUME TypeInv, NEW u \in Tx, req[u].op \in {"edit", "checkIn"}
  PROVE  /\ req[u].own \in Tx /\ IsBooking(req[u].own) /\ ~IsHold(req[u].own)
         /\ req[req[u].own].op = "create" /\ pc[req[u].own] = "ok"
BY DEF TypeInv, Kinds, IsBooking, IsHold, BookingStatus

(* What a commit does to keys: a new booking brings its own.               *)
LEMMA CommitKeys ==
  ASSUME TypeInv, Asked, KeyInv, NEW t \in Tx, Commit(t)
  PROVE  /\ \A r \in Tx : req[t].op # "create" \/ r # t => row'[r].key \in {row[r].key, NoKey}
         /\ req[t].op = "create" => row'[t].key = req[t].row.key
         /\ \A b \in Tx : IsBooking(b) => row'[b].key = row[b].key
<1>1. /\ pc[t] = "commit" /\ req[t].op \in {"create", "hold", "edit"} /\ Target(t) \in Tx
      /\ row' = [r \in Tx |-> IF r = Target(t) THEN req[t].row
                               ELSE IF r = req[t].own THEN NoRow ELSE row[r]]
  BY CommitRows, CommitIs
<1>2. NoRow.key = NoKey BY DEF NoRow
<1>3. CASE req[t].op = "edit"
  <2>1. Target(t) = req[t].own /\ req[t].row.key = row[req[t].own].key
    BY <1>1, <1>3 DEF Target, KeyInv, KeyCarried
  <2> QED BY <1>1, <1>3, <2>1
<1>4. CASE req[t].op \in {"create", "hold"}
  <2>1. Target(t) = t BY <1>4 DEF Target
  <2>2. req[t].op = "hold" => req[t].row.key = NoKey BY DEF Asked, Carries
  <2>3. ASSUME NEW b \in Tx, IsBooking(b) PROVE b # t /\ b # req[t].own
    <3>1. req[b].op = "create" /\ pc[b] = "ok" BY <2>3 DEF TypeInv, Kinds
    <3>2. req[t].own # NoTx => req[req[t].own].op = "hold" BY <1>4 DEF TypeInv, Kinds
    <3> QED BY <1>1, <3>1, <3>2, PlacesAssumption
  <2> QED BY <1>1, <1>2, <1>4, <2>1, <2>2, <2>3
<1> QED BY <1>1, <1>3, <1>4

LEMMA SaveKeys ==
  ASSUME TypeInv, KeyInv, NEW t \in Tx, SaveArrival(t)
  PROVE  \A r \in Tx : row'[r].key = row[r].key
<1>1. pc[t] = "save" /\ req[t].op = "checkIn" /\ req[t].own \in Tx /\ req[t].row \in Row
  BY RowsOf DEF SaveArrival, TypeInv, TypeOK, StepOf, Request
<1> DEFINE x == [req[t].row EXCEPT !.lines = row[req[t].own].lines]
<1>2. x.key = req[t].row.key BY <1>1 DEF Row
<1>3. row' = [row EXCEPT ![req[t].own] = x] BY DEF SaveArrival
<1>4. req[t].row.key = row[req[t].own].key BY <1>1 DEF KeyInv, KeyCarried
<1> HIDE DEF x
<1> QED BY <1>1, <1>2, <1>3, <1>4 DEF TypeInv, TypeOK

LEMMA RowsKeys ==
  ASSUME TypeInv, NEW r \in Tx, Rows(r)
  PROVE  /\ KeysGo
         /\ \A b \in Tx : IsBooking(b) => row'[b].key = row[b].key
<1>1. row[r] \in Row BY DEF TypeInv, TypeOK
<1>2. CASE ReleaseHold(r)
  <2>1. NoRow.key = NoKey BY DEF NoRow
  <2>2. ~IsBooking(r) BY <1>2 DEF ReleaseHold, IsHold, IsBooking, BookingStatus
  <2> QED BY <1>2, <2>1, <2>2 DEF ReleaseHold, KeysGo, TypeInv, TypeOK
<1>3. CASE Expire(r) \/ Postpone(r)
  <2>1. PICK st : row' = [row EXCEPT ![r].status = st] BY <1>3 DEF Expire, Postpone
  <2>2. \A b \in Tx : row'[b].key = row[b].key BY <1>1, <2>1 DEF Row, TypeInv, TypeOK
  <2> QED BY <2>2 DEF KeysGo
<1> QED BY <1>2, <1>3 DEF Rows

LEMMA GoingKeepsOne ==
  ASSUME KeyInv, KeysGo
  PROVE  OneBookingPerKey' /\ \A k : KeyTaken(k)' => KeyTaken(k)
BY DEF KeyInv, KeysGo, OneBookingPerKey, KeyTaken

(* The step of a request that writes nothing yet.                          *)
LEMMA QuietKeys ==
  ASSUME TypeInv, KeyInv, NEW t \in Tx, Quiet(t)
  PROVE  KeyFree(t)' /\ KeyCarried(t)'
<1>0. UNCHANGED row BY QuietAlone
<1>1. CASE Create(t) \/ HoldPlaces(t) \/ Edit(t)
  <2>1. pc'[t] \in {"twin", "refused", "slot", "row"}
    BY <1>1 DEF Create, HoldPlaces, Edit, TypeInv, TypeOK
  <2>2. pc'[t] = "slot" => req'[t].op \in {"create", "hold"} BY <1>1, BeginIs DEF Begin
  <2> QED BY <2>1, <2>2 DEF KeyFree, KeyCarried
<1>2. CASE CheckIn(t)
  <2>1. PICK b \in Tx : req' = [req EXCEPT ![t] = [NoRequest EXCEPT !.op = "checkIn", !.own = b,
                                                     !.row = [row[b] EXCEPT !.status = "arrived"]]]
    BY <1>2 DEF CheckIn
  <2> DEFINE x == [row[b] EXCEPT !.status = "arrived"]
             q == [NoRequest EXCEPT !.op = "checkIn", !.own = b, !.row = x]
  <2>2. x.key = row[b].key BY DEF TypeInv, TypeOK, Row
  <2>3. q.op = "checkIn" /\ q.own = b /\ q.row = x BY DEF NoRequest
  <2>4. req'[t] = q BY <2>1 DEF TypeInv, TypeOK
  <2>5. pc'[t] = "save" BY <1>2 DEF CheckIn, TypeInv, TypeOK
  <2> HIDE DEF q, x
  <2> QED BY <1>0, <2>2, <2>3, <2>4, <2>5 DEF KeyFree, KeyCarried
<1>3. CASE LockBooking(t)
  <2>1. req'[t].op \in {"none", "edit"} BY <1>3, LockBookingStep
  <2> QED BY <1>0, <1>3, <2>1, PatchCarries DEF KeyFree, KeyCarried
<1>4. CASE DeleteHold(t)
  BY <1>4 DEF DeleteHold, KeyFree, KeyCarried, TypeInv, TypeOK
<1>5. CASE LockCoupon(t) \/ LockSlot(t) \/ Reserve(t)
  <2>1. UNCHANGED req /\ pc[t] \in {"coupon", "slot", "check"}
        /\ pc'[t] \in {"slot", "check", "commit", "insert", "row"}
        /\ (pc'[t] = "commit" /\ req[t].op = "create" => pc[t] = "coupon")
    BY <1>5 DEF LockCoupon, LockSlot, Reserve, TypeInv, TypeOK
  <2> QED BY <1>0, <2>1 DEF KeyInv, KeyFree, KeyCarried, KeyTaken
<1>6. CASE Insert(t)
  <2>1. UNCHANGED req /\ req[t].op = "create" /\ ~KeyTaken(req[t].row.key)
    BY <1>6 DEF Insert, TypeInv, StepOf
  <2> QED BY <1>0, <2>1 DEF KeyFree, KeyCarried, KeyTaken
<1>7. CASE RefCollision(t)
  <2>1. req[t] \in Request /\ req' = [req EXCEPT ![t].tries = req[t].tries + 1] /\ req[t].op = "create"
        /\ pc'[t] \in {"refused", "slot"}
    BY <1>7 DEF RefCollision, TypeInv, TypeOK, StepOf
  <2>2. req'[t].op = "create" BY <2>1 DEF TypeInv, TypeOK, Request
  <2> QED BY <2>1, <2>2 DEF KeyFree, KeyCarried
<1>8. CASE Refuse(t)
  <2>1. pc'[t] \in {"refused", "twin", "aborted"} BY <1>8, RefuseIs DEF Rollback, TypeInv, TypeOK
  <2> QED BY <2>1 DEF KeyFree, KeyCarried
<1> QED BY <1>1, <1>2, <1>3, <1>4, <1>5, <1>6, <1>7, <1>8 DEF Quiet, Begin

LEMMA KeyStep ==
  ASSUME LockInv, Asked, KeyInv, [Next]_vars
  PROVE  KeyInv'
<1>0. TypeInv BY DEF LockInv
<1>1. ASSUME NEW u \in Tx, pc'[u] = pc[u], req'[u] = req[u],
             \A b \in Tx : IsBooking(b) => row'[b].key = row[b].key
      PROVE  KeyCarried(u)'
  BY <1>0, <1>1, RowsOf DEF KeyInv, KeyCarried
<1>2. ASSUME NEW t \in Tx, Quiet(t) PROVE KeyInv'
  <2>1. Alone(t) /\ UNCHANGED row BY <1>0, <1>2, QuietAlone
  <2>2. \A u \in Tx \ {t} : KeyFree(u)' /\ KeyCarried(u)'
    BY <1>1, <2>1 DEF Alone, KeyInv, KeyFree, KeyTaken
  <2>3. OneBookingPerKey' BY <2>1 DEF KeyInv, OneBookingPerKey
  <2> QED BY <1>0, <1>2, <2>2, <2>3, QuietKeys DEF KeyInv
<1>3. ASSUME NEW t \in Tx, Commit(t) PROVE KeyInv'
  <2>1. Alone(t) /\ pc'[t] = "ok" /\ UNCHANGED req /\ pc[t] = "commit"
    BY <1>0, <1>3, CommitAlone, CommitIs DEF TypeInv, TypeOK
  <2>2. KeyFree(t)' /\ KeyCarried(t)' BY <2>1 DEF KeyFree, KeyCarried
  <2>3. \A u \in Tx \ {t} : KeyCarried(u)' BY <1>0, <1>1, <1>3, <2>1, CommitKeys DEF Alone
  <2>4. CASE req[t].op # "create"
    <3>1. KeysGo BY <1>0, <1>3, <2>4, CommitKeys DEF KeysGo
    <3>2. \A u \in Tx \ {t} : KeyFree(u)' BY <2>1, <3>1, GoingKeepsOne DEF Alone, KeyInv, KeyFree
    <3> QED BY <2>2, <2>3, <3>1, <3>2, GoingKeepsOne DEF KeyInv
  <2>5. CASE req[t].op = "create"
    <3>1. /\ \A r \in Tx \ {t} : row'[r].key \in {row[r].key, NoKey}
          /\ row'[t].key = req[t].row.key
      BY <1>0, <1>3, <2>5, CommitKeys
    <3>2. ~KeyTaken(req[t].row.key) BY <2>1, <2>5 DEF KeyInv, KeyFree
    <3>3. OneBookingPerKey' BY <3>1, <3>2 DEF KeyInv, OneBookingPerKey, KeyTaken
    <3>4. ASSUME NEW u \in Tx \ {t}, req[u].op = "create", pc[u] \in {"coupon", "commit"},
                 req[u].row.key # NoKey
          PROVE  req[u].row.key # req[t].row.key
      <4>1. slotLock[req[u].row.slot] = u /\ slotLock[req[t].row.slot] = t
        <5>1. Past(u) /\ Past(t) BY <1>0, <2>1, <2>5, <3>4 DEF Past, TypeInv, Kinds
        <5> QED BY <5>1 DEF LockInv, Locked
      <4> QED BY <2>5, <3>4, <4>1 DEF Asked, SameBooking
    <3>5. \A u \in Tx \ {t} : KeyFree(u)'
      <4> SUFFICES ASSUME NEW u \in Tx \ {t}, req[u].op = "create", pc[u] \in {"coupon", "commit"},
                          KeyTaken(req[u].row.key)'
                   PROVE  FALSE
        BY <2>1 DEF Alone, KeyFree
      <4>1. req[u].row.key # NoKey /\ \E r \in Tx : row'[r].key = req[u].row.key BY <2>1 DEF KeyTaken
      <4>2. ~KeyTaken(req[u].row.key) BY DEF KeyInv, KeyFree
      <4> QED BY <3>1, <3>4, <4>1, <4>2 DEF KeyTaken
    <3> QED BY <2>2, <2>3, <3>3, <3>5 DEF KeyInv
  <2> QED BY <2>4, <2>5
<1>4. ASSUME NEW t \in Tx, SaveArrival(t) PROVE KeyInv'
  <2>1. Alone(t) /\ pc'[t] = "ok" /\ UNCHANGED req
    BY <1>0, <1>4, SaveAlone, SaveIs DEF TypeInv, TypeOK
  <2>2. \A r \in Tx : row'[r].key = row[r].key BY <1>0, <1>4, SaveKeys
  <2>3. KeysGo BY <2>2 DEF KeysGo
  <2>4. KeyFree(t)' /\ KeyCarried(t)' BY <2>1 DEF KeyFree, KeyCarried
  <2>5. \A u \in Tx \ {t} : KeyFree(u)' /\ KeyCarried(u)'
    BY <1>1, <2>1, <2>2, <2>3, GoingKeepsOne DEF Alone, KeyInv, KeyFree
  <2> QED BY <2>3, <2>4, <2>5, GoingKeepsOne DEF KeyInv
<1>5. ASSUME UNCHANGED <<pc, req>>, KeysGo, \A b \in Tx : IsBooking(b) => row'[b].key = row[b].key
      PROVE  KeyInv'
  <2>1. \A u \in Tx : KeyFree(u)' BY <1>5, GoingKeepsOne DEF KeyInv, KeyFree
  <2> QED BY <1>1, <1>5, <2>1, GoingKeepsOne DEF KeyInv
<1>6. ASSUME NEW r \in Tx, Rows(r) PROVE KeyInv' BY <1>0, <1>5, <1>6, RowsKeys, RowsIs
<1>7. CASE SaveCalendar \/ UNCHANGED vars BY <1>5, <1>7 DEF SaveCalendar, vars, KeysGo
<1> QED BY <1>2, <1>3, <1>4, <1>6, <1>7 DEF Next, Proceed, Quiet, Begin, Refuse, Rows

LEMMA KeyInit == Init => KeyInv
BY DEF Init, KeyInv, KeyFree, KeyCarried, OneBookingPerKey, NoRow, NoRequest

(* A double tap or a retry never books twice, however the attempts overlap *)
(* (bookings.service create, the unique index on the key).                 *)
THEOREM KeyBooksOnce == Spec => []OneBookingPerKey
<1>1. Init => LockInv /\ Asked /\ KeyInv BY PlaceInit, AskedInit, KeyInit DEF PlaceInv
<1>2. LockInv /\ Asked /\ KeyInv /\ [Next]_vars => (LockInv /\ Asked /\ KeyInv)'
  BY LockStep, AskedStep, KeyStep DEF LockInv
<1>3. LockInv /\ Asked /\ KeyInv => OneBookingPerKey BY DEF KeyInv
<1> QED BY <1>1, <1>2, <1>3, PTL DEF Spec

-----------------------------------------------------------------------------
(* The coupon.                                                             *)

(* A request that will count a use has its row locked and found one left.  *)
Spending(t) == /\ req[t].consume
               /\ \/ req[t].op = "create" /\ pc[t] = "commit"
                  \/ req[t].op = "edit" /\ pc[t] \in {"slot", "check", "commit"}

CouponHeld(t) == Spending(t) => couponLock = t /\ uses < MaxUses

(* An edit's code is counted, or the booking had it.                       *)
CouponCarried(t) ==
  req[t].op = "edit" /\ pc[t] \in {"coupon", "slot", "check", "commit"} /\ req[t].row.coupon
    => req[t].consume \/ row[req[t].own].coupon

(* The bookings with the code, and those the gate is about to save with    *)
(* it: an edit may have taken it off after the gate read it.               *)
Coded == {r \in Tx : \/ row[r].coupon
                     \/ \E t \in Tx : /\ req[t].op = "checkIn" /\ pc[t] = "save"
                                      /\ req[t].own = r /\ req[t].row.coupon}

CouponInv == /\ uses \in Nat /\ uses <= MaxUses
             /\ Cardinality(Coded) <= uses
             /\ \A t \in Tx : CouponHeld(t) /\ CouponCarried(t)

LEMMA CodedFinite ==
  ASSUME NEW S \in SUBSET Tx
  PROVE  IsFiniteSet(S) /\ Cardinality(S) \in Nat
BY PlacesAssumption, FS_Subset, FS_CardinalityType

(* A step that counts no use and puts no code on a booking.                *)
LEMMA FewerCoded ==
  ASSUME CouponInv, Coded' \subseteq Coded, uses' = uses
  PROVE  uses' \in Nat /\ uses' <= MaxUses /\ Cardinality(Coded') <= uses'
<1> DEFINE S == Coded'
           T == Coded
<1>1. S \subseteq T /\ T \in SUBSET Tx BY DEF Coded
<1> HIDE DEF S, T
<1>2. IsFiniteSet(T) /\ Cardinality(T) \in Nat BY <1>1, CodedFinite
<1>3. Cardinality(S) <= Cardinality(T) /\ Cardinality(S) \in Nat BY <1>1, <1>2, CodedFinite, FS_Subset
<1>4. Cardinality(T) <= uses /\ uses \in Nat /\ uses <= MaxUses BY DEF CouponInv, T
<1> QED BY <1>2, <1>3, <1>4 DEF S

LEMMA QuietCoupon ==
  ASSUME LockInv, Asked, CouponInv, NEW t \in Tx, Quiet(t)
  PROVE  /\ uses' = uses /\ \A u \in Tx \ {t} : couponLock = u => couponLock' = u
         /\ CouponHeld(t)' /\ CouponCarried(t)'
         /\ Coded' \subseteq Coded
<1>0. TypeInv /\ UNCHANGED row /\ Alone(t) BY QuietAlone DEF LockInv
<1>a. ASSUME pc'[t] # "save" PROVE Coded' \subseteq Coded
  BY <1>0, <1>a DEF Coded, Alone
<1>1. CASE Create(t) \/ HoldPlaces(t) \/ Edit(t)
  <2>1. pc'[t] \in {"twin", "refused", "slot", "row"} /\ UNCHANGED <<uses, couponLock>>
    BY <1>0, <1>1 DEF Create, HoldPlaces, Edit, TypeInv, TypeOK
  <2>2. pc'[t] = "slot" => req'[t].op \in {"create", "hold"} BY <1>0, <1>1, BeginIs DEF Begin
  <2> QED BY <1>a, <2>1, <2>2 DEF CouponHeld, CouponCarried, Spending
<1>2. CASE CheckIn(t)
  <2>1. PICK b \in Tx : req' = [req EXCEPT ![t] = [NoRequest EXCEPT !.op = "checkIn", !.own = b,
                                                     !.row = [row[b] EXCEPT !.status = "arrived"]]]
    BY <1>2 DEF CheckIn
  <2> DEFINE x == [row[b] EXCEPT !.status = "arrived"]
             q == [NoRequest EXCEPT !.op = "checkIn", !.own = b, !.row = x]
  <2>2. x.coupon = row[b].coupon BY <1>0 DEF TypeInv, TypeOK, Row
  <2>3. q.op = "checkIn" /\ q.own = b /\ q.row = x BY DEF NoRequest
  <2>4. req'[t] = q BY <1>0, <2>1 DEF TypeInv, TypeOK
  <2>5. UNCHANGED <<uses, couponLock>> BY <1>2 DEF CheckIn
  <2> HIDE DEF q, x
  <2>6. Coded' \subseteq Coded
    <3> SUFFICES ASSUME NEW r \in Tx, ~row[r].coupon, NEW u \in Tx, req'[u].op = "checkIn", pc'[u] = "save",
                        req'[u].own = r, req'[u].row.coupon
                 PROVE  r \in Coded
      BY <1>0 DEF Coded
    <3>1. u # t BY <2>2, <2>3, <2>4
    <3> QED BY <1>0, <3>1 DEF Coded, Alone
  <2> QED BY <2>3, <2>4, <2>5, <2>6 DEF CouponHeld, CouponCarried, Spending
<1>3. CASE LockBooking(t)
  <2>1. UNCHANGED <<uses, couponLock>> /\ req'[t].op \in {"none", "edit"} BY <1>0, <1>3, LockBookingStep
  <2>2. /\ pc'[t] \in {"ok", "refused", "coupon", "slot", "commit"}
        /\ req'[t].op = "edit" /\ pc'[t] \in {"slot", "commit"} => ~req'[t].consume
    <3>1. pc[t] \in Step /\ pc \in [Tx -> Step] BY <1>0 DEF TypeInv, TypeOK
    <3>2. \/ pc' = [pc EXCEPT ![t] = "ok"] /\ req'[t].op = "none"
          \/ pc' = [pc EXCEPT ![t] = IF ~req'[t].consume THEN AfterMoney(t)
                                      ELSE IF uses >= MaxUses THEN "refused" ELSE "coupon"]
      BY <1>3 DEF LockBooking
    <3> QED BY <3>1, <3>2 DEF AfterMoney
  <2>3. CouponHeld(t)' BY <2>1, <2>2 DEF CouponHeld, Spending
  <2>4. CouponCarried(t)' BY <1>0, <1>3, PatchCarries DEF CouponCarried
  <2> QED BY <1>a, <2>1, <2>2, <2>3, <2>4
<1>4. CASE DeleteHold(t) \/ Insert(t)
  <2>1. /\ UNCHANGED <<uses, couponLock, req>> /\ req[t].op \in {"create", "hold"}
        /\ pc'[t] \in {"slot", "insert", "coupon", "commit"}
        /\ req[t].consume => pc'[t] # "commit"
    BY <1>0, <1>4 DEF DeleteHold, Insert, TypeInv, TypeOK, StepOf
  <2> QED BY <1>a, <2>1 DEF CouponHeld, CouponCarried, Spending
<1>5. CASE LockCoupon(t)
  <2>1. /\ UNCHANGED <<uses, req>> /\ couponLock' = t /\ couponLock = NoTx /\ uses < MaxUses
        /\ pc[t] = "coupon" /\ pc'[t] \in {"commit", "slot"}
    BY <1>0, <1>5 DEF LockCoupon, TypeInv, TypeOK
  <2>2. CouponCarried(t)' BY <1>0, <2>1 DEF CouponInv, CouponCarried
  <2> QED BY <1>a, <2>1, <2>2, PlacesAssumption DEF CouponHeld
<1>6. CASE LockSlot(t) \/ Reserve(t)
  <2>1. /\ UNCHANGED <<uses, couponLock, req>> /\ pc[t] \in {"slot", "check"}
        /\ pc'[t] \in {"check", "commit", "insert", "row"}
        /\ pc'[t] = "commit" => req[t].op # "create"
    BY <1>0, <1>6 DEF LockSlot, Reserve, TypeInv, TypeOK
  <2> QED BY <1>0, <1>a, <2>1 DEF CouponInv, CouponHeld, CouponCarried, Spending
<1>7. CASE RefCollision(t)
  <2>1. req[t] \in Request /\ req' = [req EXCEPT ![t].tries = req[t].tries + 1] /\ req[t].op = "create"
        /\ pc'[t] \in {"refused", "slot"} /\ uses' = uses
        /\ couponLock' = IF couponLock = t THEN NoTx ELSE couponLock
    BY <1>0, <1>7 DEF RefCollision, ReleaseLocks, TypeInv, TypeOK, StepOf
  <2>2. req'[t].op = "create" BY <1>0, <2>1 DEF TypeInv, TypeOK, Request
  <2> QED BY <1>a, <2>1, <2>2 DEF CouponHeld, CouponCarried, Spending
<1>8. CASE Refuse(t)
  <2>1. pc'[t] \in {"refused", "twin", "aborted"} /\ uses' = uses
        /\ couponLock' = IF couponLock = t THEN NoTx ELSE couponLock
    BY <1>0, <1>8, RefuseIs DEF Rollback, ReleaseLocks, TypeInv, TypeOK
  <2> QED BY <1>a, <2>1 DEF CouponHeld, CouponCarried, Spending
<1> QED BY <1>1, <1>2, <1>3, <1>4, <1>5, <1>6, <1>7, <1>8 DEF Quiet, Begin

(* A commit puts the code on no booking but its own, and on that one only  *)
(* if it had it or a use is counted with it.                               *)
LEMMA CommitCoded ==
  ASSUME LockInv, Asked, CouponInv, NEW t \in Tx, Commit(t)
  PROVE  /\ Coded' \subseteq Coded \cup {Target(t)}
         /\ ~req[t].consume => Coded' \subseteq Coded
         /\ req[t].consume => Spending(t)
<1>0. TypeInv /\ Alone(t) /\ Target(t) \in Tx /\ req' = req /\ pc[t] = "commit" /\ pc'[t] = "ok"
      /\ req[t].op \in {"create", "hold", "edit"}
      /\ row' = [r \in Tx |-> IF r = Target(t) THEN req[t].row
                               ELSE IF r = req[t].own THEN NoRow ELSE row[r]]
  BY CommitAlone, CommitRows, CommitIs DEF LockInv, TypeInv, TypeOK
<1>1. ~NoRow.coupon BY DEF NoRow
<1>2. \A r \in Tx \ {Target(t)} : row'[r].coupon => row[r].coupon BY <1>0, <1>1
<1>3. ASSUME NEW r \in Tx, r \in Coded', r # Target(t) \/ ~row'[r].coupon PROVE r \in Coded
  <2>1. CASE row'[r].coupon BY <1>2, <1>3, <2>1 DEF Coded
  <2>2. CASE ~row'[r].coupon
    <3>1. PICK u \in Tx : req[u].op = "checkIn" /\ pc'[u] = "save" /\ req[u].own = r /\ req[u].row.coupon
      BY <1>0, <1>3, <2>2 DEF Coded
    <3>2. u # t BY <1>0, <3>1
    <3> QED BY <1>0, <3>1, <3>2 DEF Coded, Alone
  <2> QED BY <2>1, <2>2
<1>4. Coded' \subseteq Coded \cup {Target(t)} BY <1>3 DEF Coded
<1>5. ASSUME ~req[t].consume PROVE Coded' \subseteq Coded
  <2>1. req[t].row.coupon => req[t].op = "edit" /\ row[Target(t)].coupon
    BY <1>0, <1>5 DEF Asked, Carries, CouponInv, CouponCarried, Target
  <2>2. row'[Target(t)].coupon => row[Target(t)].coupon BY <1>0, <2>1
  <2> QED BY <1>0, <1>3, <2>2 DEF Coded
<1>6. req[t].consume => Spending(t) BY <1>0 DEF Asked, Carries, Spending
<1> QED BY <1>4, <1>5, <1>6

LEMMA CommitCounts ==
  ASSUME LockInv, Asked, CouponInv, NEW t \in Tx, Commit(t)
  PROVE  uses' \in Nat /\ uses' <= MaxUses /\ Cardinality(Coded') <= uses'
<1>1. uses' = IF req[t].consume THEN uses + 1 ELSE uses BY DEF Commit
<1>2. CASE ~req[t].consume BY <1>1, <1>2, CommitCoded, FewerCoded
<1>3. CASE req[t].consume
  <2> DEFINE S == Coded'
             T == Coded
  <2>1. uses < MaxUses BY <1>3, CommitCoded DEF CouponInv, CouponHeld
  <2>2. S \subseteq T \cup {Target(t)} /\ T \in SUBSET Tx BY CommitCoded DEF Coded
  <2>3. Cardinality(T) <= uses /\ uses \in Nat /\ MaxUses \in Nat BY PlacesAssumption DEF CouponInv
  <2> HIDE DEF S, T
  <2>4. IsFiniteSet(T) /\ Cardinality(T) \in Nat BY <2>2, CodedFinite
  <2>5. IsFiniteSet(T \cup {Target(t)}) /\ Cardinality(T \cup {Target(t)}) <= Cardinality(T) + 1
        /\ Cardinality(T \cup {Target(t)}) \in Nat
    <3> DEFINE g == Target(t)
    <3> HIDE DEF g
    <3>1. IsFiniteSet(T \cup {g}) BY <2>4, FS_AddElement
    <3>2. Cardinality(T \cup {g}) = IF g \in T THEN Cardinality(T) ELSE Cardinality(T) + 1 BY <2>4, FS_AddElement
    <3>3. Cardinality(T \cup {g}) <= Cardinality(T) + 1 /\ Cardinality(T \cup {g}) \in Nat BY <2>4, <3>2
    <3> QED BY <3>1, <3>3 DEF g
  <2>6. Cardinality(S) <= Cardinality(T \cup {Target(t)}) /\ Cardinality(S) \in Nat
    BY <2>2, <2>5, FS_Subset, FS_CardinalityType
  <2>7. Cardinality(S) <= uses + 1 BY <2>3, <2>4, <2>5, <2>6
  <2> QED BY <1>1, <1>3, <2>1, <2>3, <2>7 DEF S
<1> QED BY <1>2, <1>3

LEMMA CouponStep ==
  ASSUME LockInv, Asked, CouponInv, [Next]_vars
  PROVE  CouponInv'
<1>0. TypeInv BY DEF LockInv
<1>1. ASSUME NEW t \in Tx, Quiet(t) PROVE CouponInv'
  <2>1. Alone(t) /\ UNCHANGED row BY <1>0, <1>1, QuietAlone
  <2>2. /\ uses' = uses /\ \A u \in Tx \ {t} : couponLock = u => couponLock' = u
        /\ CouponHeld(t)' /\ CouponCarried(t)' /\ Coded' \subseteq Coded
    BY <1>1, QuietCoupon
  <2>3. \A u \in Tx \ {t} : CouponHeld(u)' /\ CouponCarried(u)'
    BY <2>1, <2>2 DEF Alone, CouponInv, CouponHeld, CouponCarried, Spending
  <2>4. uses' \in Nat /\ uses' <= MaxUses /\ Cardinality(Coded') <= uses' BY <2>2, FewerCoded
  <2> QED BY <2>2, <2>3, <2>4 DEF CouponInv
<1>2. ASSUME NEW t \in Tx, Commit(t) PROVE CouponInv'
  <2>1. Alone(t) /\ pc'[t] = "ok" /\ UNCHANGED req
    BY <1>0, <1>2, CommitAlone, CommitIs DEF TypeInv, TypeOK
  <2>2. /\ uses' = IF req[t].consume THEN uses + 1 ELSE uses
        /\ couponLock' = IF couponLock = t THEN NoTx ELSE couponLock
    BY <1>2 DEF Commit, ReleaseLocks
  <2>3. req[t].consume => couponLock = t BY <1>2, CommitCoded DEF CouponInv, CouponHeld
  <2>4. \A u \in Tx \ {t} : CouponHeld(u)'
    BY <2>1, <2>2, <2>3 DEF Alone, CouponInv, CouponHeld, Spending
  <2>5. \A u \in Tx \ {t} : CouponCarried(u)'
    BY <1>2, <2>1, RowHeld DEF Alone, CouponInv, CouponCarried
  <2>6. CouponHeld(t)' /\ CouponCarried(t)' BY <2>1 DEF CouponHeld, CouponCarried, Spending
  <2>7. uses' \in Nat /\ uses' <= MaxUses /\ Cardinality(Coded') <= uses' BY <1>2, CommitCounts
  <2> QED BY <2>4, <2>5, <2>6, <2>7 DEF CouponInv
<1>3. ASSUME NEW t \in Tx, SaveArrival(t) PROVE CouponInv'
  <2>1. Alone(t) /\ pc[t] = "save" /\ pc'[t] = "ok" /\ UNCHANGED <<req, uses, couponLock>>
    BY <1>0, <1>3, SaveAlone, SaveIs DEF SaveArrival, TypeInv, TypeOK
  <2>2. req[t].op = "checkIn" /\ req[t].own \in Tx /\ req[t].row \in Row
    BY <1>0, <2>1, RowsOf DEF TypeInv, TypeOK, StepOf, Request
  <2> DEFINE b == req[t].own
             x == [req[t].row EXCEPT !.lines = row[b].lines]
  <2>3. x.coupon = req[t].row.coupon BY <2>2 DEF Row
  <2>4. row' = [row EXCEPT ![b] = x] BY <1>3 DEF SaveArrival
  <2> HIDE DEF x
  <2>5. row'[b].coupon = req[t].row.coupon /\ \A r \in Tx \ {b} : row'[r] = row[r]
    BY <1>0, <2>2, <2>3, <2>4 DEF TypeInv, TypeOK
  <2>6. Coded' \subseteq Coded BY <2>1, <2>2, <2>5 DEF Coded, Alone
  <2>7. \A u \in Tx \ {t} : CouponHeld(u)' BY <2>1 DEF Alone, CouponInv, CouponHeld, Spending
  <2>8. \A u \in Tx \ {t} : CouponCarried(u)'
    BY <1>3, <2>1, RowHeld DEF Alone, CouponInv, CouponCarried
  <2>9. CouponHeld(t)' /\ CouponCarried(t)' BY <2>1 DEF CouponHeld, CouponCarried, Spending
  <2> QED BY <2>1, <2>6, <2>7, <2>8, <2>9, FewerCoded DEF CouponInv
<1>4. ASSUME UNCHANGED <<pc, req, uses, couponLock>>,
             \A r \in Tx : row'[r].coupon => row[r].coupon,
             \A b \in Tx : IsBooking(b) => row'[b].coupon = row[b].coupon
      PROVE  CouponInv'
  <2>1. Coded' \subseteq Coded BY <1>4 DEF Coded
  <2>2. \A u \in Tx : CouponHeld(u)' BY <1>4 DEF CouponInv, CouponHeld, Spending
  <2>3. \A u \in Tx : CouponCarried(u)' BY <1>0, <1>4, RowsOf DEF CouponInv, CouponCarried
  <2> QED BY <1>4, <2>1, <2>2, <2>3, FewerCoded DEF CouponInv
<1>5. ASSUME NEW r \in Tx, Rows(r) PROVE CouponInv'
  <2>1. row[r] \in Row BY <1>0 DEF TypeInv, TypeOK
  <2>2. UNCHANGED <<pc, req, uses, couponLock>> BY <1>5 DEF Rows, ReleaseHold, Expire, Postpone
  <2>3. CASE ReleaseHold(r)
    <3>1. ~NoRow.coupon BY DEF NoRow
    <3>2. ~IsBooking(r) BY <2>3 DEF ReleaseHold, IsHold, IsBooking, BookingStatus
    <3> QED BY <1>0, <1>4, <2>2, <2>3, <3>1, <3>2 DEF ReleaseHold, TypeInv, TypeOK
  <2>4. CASE Expire(r) \/ Postpone(r)
    <3>1. PICK st : row' = [row EXCEPT ![r].status = st] BY <2>4 DEF Expire, Postpone
    <3>2. \A b \in Tx : row'[b].coupon = row[b].coupon BY <1>0, <2>1, <3>1 DEF Row, TypeInv, TypeOK
    <3> QED BY <1>4, <2>2, <3>2
  <2> QED BY <1>5, <2>3, <2>4 DEF Rows
<1>6. CASE SaveCalendar \/ UNCHANGED vars BY <1>4, <1>6 DEF SaveCalendar, vars
<1> QED BY <1>1, <1>2, <1>3, <1>5, <1>6 DEF Next, Proceed, Quiet, Begin, Refuse, Rows

LEMMA CouponInit == Init => CouponInv
<1> SUFFICES ASSUME Init PROVE CouponInv OBVIOUS
<1>1. Coded = {} BY DEF Init, Coded, NoRow, NoRequest
<1>2. Cardinality({}) = 0 BY FS_EmptySet
<1>3. \A t \in Tx : CouponHeld(t) /\ CouponCarried(t)
  BY DEF Init, CouponHeld, CouponCarried, Spending, NoRequest
<1> QED BY <1>1, <1>2, <1>3, PlacesAssumption DEF Init, CouponInv

(* The coupon is never used more often than it allows, and every booking   *)
(* that carries it was counted, though the gate may put back a code that   *)
(* an edit took off (coupons.service consume, staff-bookings update).      *)
THEOREM CouponSafe == Spec => []CouponWithinMax
<1>1. Init => LockInv /\ Asked /\ CouponInv BY PlaceInit, AskedInit, CouponInit DEF PlaceInv
<1>2. LockInv /\ Asked /\ CouponInv /\ [Next]_vars => (LockInv /\ Asked /\ CouponInv)'
  BY LockStep, AskedStep, CouponStep DEF LockInv
<1>3. CouponInv => CouponWithinMax
  <2> SUFFICES ASSUME CouponInv PROVE CouponWithinMax OBVIOUS
  <2> DEFINE S == {r \in Tx : row[r].coupon}
             T == Coded
  <2>1. S \subseteq T /\ T \in SUBSET Tx BY DEF Coded
  <2>2. Cardinality(T) <= uses /\ uses \in Nat /\ uses <= MaxUses BY DEF CouponInv
  <2> HIDE DEF S, T
  <2>3. Cardinality(S) <= Cardinality(T) /\ Cardinality(S) \in Nat /\ Cardinality(T) \in Nat
    BY <2>1, CodedFinite, FS_Subset
  <2>4. Cardinality(S) <= uses BY <2>2, <2>3
  <2> QED BY <2>2, <2>4 DEF CouponWithinMax, S
<1> QED BY <1>1, <1>2, <1>3, PTL DEF Spec

-----------------------------------------------------------------------------
(* The ledger.                                                             *)

(* A step that grants nothing leaves every grant as it is, or gives the    *)
(* grant of one row back.                                                  *)
LEMMA GrantOf ==
  ASSUME NEW r \in Tx
  PROVE  Granting[r] = IF "party" \in reserved[r] THEN [slot |-> row[r].slot, n |-> row[r].party]
                       ELSE Ledger!Nothing
BY DEF Granting, Ledger!Nothing, NoRow

LEMMA FreedAlone ==
  ASSUME NEW b \in Tx, Frees,
         \A r \in Tx \ {b} : row'[r] = row[r] /\ reserved'[r] = reserved[r]
  PROVE  Granting' = Granting \/ Granting' = [Granting EXCEPT ![b] = Ledger!Nothing]
<1>1. \A r \in Tx : Granting'[r] = IF "party" \in reserved'[r] THEN [slot |-> row'[r].slot, n |-> row'[r].party]
                                    ELSE Ledger!Nothing
  BY DEF Granting, Ledger!Nothing, NoRow
<1>2. \A r \in Tx \ {b} : Granting'[r] = Granting[r] BY <1>1, GrantOf
<1>3. Granting = [r \in Tx |-> Granting[r]] /\ Granting' = [r \in Tx |-> Granting'[r]] BY DEF Granting
<1>4. CASE "party" \in reserved'[b]
  <2>1. Granting'[b] = Granting[b] BY <1>1, <1>4, GrantOf DEF Frees
  <2>2. \A r \in Tx : Granting'[r] = Granting[r] BY <1>2, <2>1
  <2> HIDE DEF Granting
  <2> QED BY <1>3, <2>2
<1>5. CASE "party" \notin reserved'[b]
  <2>1. Granting'[b] = Ledger!Nothing BY <1>1, <1>5
  <2>2. [Granting EXCEPT ![b] = Ledger!Nothing] = [r \in Tx |-> IF r = b THEN Ledger!Nothing ELSE Granting[r]]
    BY <1>3
  <2> HIDE DEF Granting
  <2> QED BY <1>2, <1>3, <2>1, <2>2
<1> QED BY <1>4, <1>5

(* The ledger counts as the rows are counted.                              *)
LEMMA SameCount == \A S : Ledger!Cardinality(S) = Cardinality(S)
BY DEF Ledger!Cardinality, Cardinality

(* A commit that reserved its places is one allotment, which frees the     *)
(* hold it replaces: what fits in the rows fits in the ledger.             *)
LEMMA PlacedAllots ==
  ASSUME PlaceInv, PlaceInv', Asked, NEW t \in Tx, Commit(t), req[t].places
  PROVE  \E h \in Tx, s \in Slots, n \in 1..MaxParty, freed \in {{}} \cup {{x} : x \in Tx} :
           Ledger!Allot(h, freed, s, n)
<1> DEFINE h == Target(t)
           s == req[t].row.slot
           n == req[t].row.party
           x == req[t].own
           freed == IF x \in Tx \ {h} THEN {x} ELSE {}
           next == [r \in Tx |-> IF r = h THEN [slot |-> s, n |-> n]
                                  ELSE IF r \in freed THEN Ledger!Nothing ELSE Granting[r]]
<1>1. /\ h \in Tx
      /\ \A r \in Tx \ {h, x} : row'[r] = row[r] /\ reserved'[r] = reserved[r]
      /\ row'[h] = req[t].row /\ "party" \in reserved'[h]
      /\ x \in Tx \ {h} => reserved'[x] = {}
  BY CommitIs DEF PlaceInv, LockInv, Granted
<1>2. s \in Slots /\ n \in 1..MaxParty
  BY OwnSlot, PlacesAssumption DEF PlaceInv, LockInv, TypeInv, Asked, Carries
<1>3. \A r \in Tx : Granting'[r] = IF "party" \in reserved'[r] THEN [slot |-> row'[r].slot, n |-> row'[r].party]
                                    ELSE Ledger!Nothing
  BY DEF Granting, Ledger!Nothing, NoRow
<1>4. Granting' = next
  <2>1. Granting' = [r \in Tx |-> Granting'[r]] BY DEF Granting
  <2> HIDE DEF Granting
  <2>2. Granting'[h] = [slot |-> s, n |-> n] BY <1>1, <1>3
  <2>3. \A r \in freed : Granting'[r] = Ledger!Nothing BY <1>1, <1>3
  <2>4. ASSUME NEW r \in Tx \ {h}, r \notin freed PROVE Granting'[r] = Granting[r]
    <3>1. r # x BY <2>4
    <3>2. row'[r] = row[r] /\ reserved'[r] = reserved[r] BY <1>1, <3>1
    <3> QED BY <1>3, <3>2, GrantOf
  <2> HIDE DEF h, s, n, freed
  <2> QED BY <2>1, <2>2, <2>3, <2>4
<1>5. Cardinality(Ledger!Places(next, s)) <= SlotCapacity
  <2> DEFINE P == Ledger!Places(next, s)
             G == Guests(s, Reserved("party"))'
  <2>1. P \subseteq G
    <3> SUFFICES ASSUME NEW p \in Tx \X (1..MaxParty), Granting'[p[1]].slot = s, p[2] <= Granting'[p[1]].n
                 PROVE  p \in G
      BY <1>4 DEF Ledger!Places
    <3>1. p[1] \in Tx /\ p[2] \in 1..MaxParty OBVIOUS
    <3>2. "party" \in reserved'[p[1]]
      <4>1. Ledger!Nothing.n = 0 /\ ~(p[2] <= 0) BY <3>1 DEF Ledger!Nothing
      <4>2. Granting'[p[1]] # Ledger!Nothing BY <4>1
      <4> QED BY <1>3, <3>1, <4>2
    <3>3. row'[p[1]].slot = s /\ p[2] <= row'[p[1]].party
      <4>1. Granting'[p[1]] = [slot |-> row'[p[1]].slot, n |-> row'[p[1]].party] BY <1>3, <3>1, <3>2
      <4> QED BY <4>1
    <3>4. Live(p[1])' BY <3>1, <3>2 DEF PlaceInv, LockInv, GrantsLive
    <3>5. s' = s BY CommitIs DEF PlaceInv, LockInv
    <3> QED BY <3>1, <3>2, <3>3, <3>4, <3>5 DEF Guests, Reserved
  <2>2. IsFiniteSet(G) /\ Cardinality(G) \in Nat
    <3>0. IsFiniteSet(Tx) /\ IsFiniteSet(1..MaxParty) BY PlacesAssumption, FS_Interval
    <3>1. IsFiniteSet(Tx \X (1..MaxParty)) BY <3>0, FS_Product
    <3>2. G \subseteq Tx \X (1..MaxParty) BY DEF Guests, Reserved
    <3> HIDE DEF G
    <3> QED BY <3>1, <3>2, FS_Subset, FS_CardinalityType
  <2>3. Cardinality(G) <= SlotCapacity
    <3>1. s' = s BY CommitIs DEF PlaceInv, LockInv
    <3>2. \A c \in Slots : Cardinality(Guests(c, Reserved("party"))') <= SlotCapacity
      BY DEF PlaceInv, SlotWithinCapacity
    <3> QED BY <1>2, <3>1, <3>2
  <2> HIDE DEF P, G
  <2>4. Cardinality(P) <= Cardinality(G) /\ Cardinality(P) \in Nat BY <2>1, <2>2, FS_Subset, FS_CardinalityType
  <2>5. Cardinality(P) <= SlotCapacity BY <2>2, <2>3, <2>4, PlacesAssumption
  <2> QED BY <2>5 DEF P
<1>6. freed \in {{}} \cup {{y} : y \in Tx} OBVIOUS
<1> HIDE DEF h, s, n, freed
<1>7. Ledger!Allot(h, freed, s, n) BY <1>4, <1>5, SameCount DEF Ledger!Allot
<1> QED BY <1>1, <1>2, <1>6, <1>7

LEMMA LedgerStep ==
  ASSUME PlaceInv, PlaceInv', Asked, [Next]_vars
  PROVE  [Ledger!Next]_Granting
<1>0. LockInv /\ TypeInv BY DEF PlaceInv, LockInv
<1>1. ASSUME NEW b \in Tx, Frees, \A r \in Tx \ {b} : row'[r] = row[r] /\ reserved'[r] = reserved[r]
      PROVE  [Ledger!Next]_Granting
  BY <1>1, FreedAlone DEF Ledger!Next, Ledger!GiveBack
<1>2. ASSUME UNCHANGED <<row, reserved>> PROVE [Ledger!Next]_Granting
  BY <1>2 DEF Granting
<1>3. ASSUME NEW t \in Tx, Quiet(t) PROVE [Ledger!Next]_Granting BY <1>0, <1>2, <1>3, QuietAlone
<1>4. ASSUME NEW t \in Tx, Commit(t) PROVE [Ledger!Next]_Granting
  <2>1. CASE req[t].places BY <1>4, <2>1, PlacedAllots DEF Ledger!Next
  <2>2. CASE ~req[t].places
    <3>1. Frees /\ Target(t) = req[t].own
      BY <1>0, <1>4, <2>2, UnplacedFrees, CommitIs DEF TypeInv, Kinds, Target
    <3>2. Target(t) \in Tx
          /\ \A r \in Tx \ {Target(t), req[t].own} : row'[r] = row[r] /\ reserved'[r] = reserved[r]
      BY <1>0, <1>4, CommitIs
    <3> QED BY <1>1, <3>1, <3>2
  <2> QED BY <2>1, <2>2
<1>5. ASSUME NEW t \in Tx, SaveArrival(t) PROVE [Ledger!Next]_Granting
  BY <1>0, <1>1, <1>5, SaveFrees, SaveIs
<1>6. ASSUME NEW r \in Tx, Rows(r) PROVE [Ledger!Next]_Granting BY <1>0, <1>1, <1>6, RowsFrees, RowsIs
<1>7. CASE SaveCalendar \/ UNCHANGED vars BY <1>2, <1>7 DEF SaveCalendar, vars
<1> QED BY <1>3, <1>4, <1>5, <1>6, <1>7 DEF Next, Proceed, Quiet, Begin, Refuse, Rows

LEMMA LedgerInit == Init => Ledger!Init
BY DEF Init, Ledger!Init, Granting, Ledger!Nothing, NoRow

(* Counting and writing under the locks comes down to a ledger whose every *)
(* entry is made in one step and only if it fits: an allotment at a commit *)
(* that reserved places, a giving back at every other change of the rows   *)
(* (capacity.ts reservePlaces and all its callers).                        *)
THEOREM KeepsLedger == Spec => ImplementsLedger
<1>1. Init => PlaceInv /\ Asked /\ Ledger!Init BY PlaceInit, AskedInit, LedgerInit
<1>2. PlaceInv /\ Asked /\ [Next]_vars => (PlaceInv /\ Asked)'
  BY PlaceStep, AskedStep DEF PlaceInv, LockInv
<1>3. PlaceInv /\ PlaceInv' /\ Asked /\ [Next]_vars => [Ledger!Next]_Granting BY LedgerStep
<1> QED BY <1>1, <1>2, <1>3, PTL DEF Spec, ImplementsLedger, Ledger!Spec

-----------------------------------------------------------------------------
(* The caps of the experience and of its sessions: one argument, made once *)
(* for any set F of lines and any limit C, all lines for the experience,   *)
(* the lines of one time for a session.                                    *)

(* The heads the rows R put on the lines of F in an arrival slot.          *)
LineHeads(s, F, R) ==
  {g \in R \X Line \X (1..MaxParty) :
     /\ Live(g[1])
     /\ row[g[1]].slot = s
     /\ g[2] \in row[g[1]].lines
     /\ g[2] \in F
     /\ g[3] <= g[2].n}

AtTime(time) == {l \in Line : l.time = time}

(* The same, but for one row.                                              *)
HeadsExcept(s, F, x) == LineHeads(s, F, SingleLine \ {x})

(* Lines are only granted together with the party.                         *)
LinesGranted == \A r \in Tx : "lines" \in reserved[r] => "party" \in reserved[r]

CapHeld(F, C) == \A s \in Slots : Cardinality(LineHeads(s, F, SingleLine)) <= C

(* The room counted for each line stays until the commit.                  *)
LineRoom(t, F, C) ==
  Past(t) /\ req[t].asked = req[t].row.lines =>
    \A l \in req[t].row.lines \cap F :
      Cardinality(HeadsExcept(req[t].row.slot, F, req[t].own)) + l.n <= C

LineInv(F, C) == CapHeld(F, C) /\ \A t \in Tx : LineRoom(t, F, C)

CapsInv ==
  /\ LockInv /\ LinesGranted
  /\ LineInv(Line, ActivityCap)
  /\ \A time \in Times : LineInv(AtTime(time), SessionCap)

-----------------------------------------------------------------------------
(* Counting.                                                               *)

LEMMA AllHeadsFinite == IsFiniteSet(Tx \X Line \X (1..MaxParty))
  <1> DEFINE N == 1..MaxParty
             P == (Tx \X Line) \X N
             T == Tx \X Line \X N
             f == [p \in P |-> <<p[1][1], p[1][2], p[2]>>]
  <1>1. IsFiniteSet(P)
    <2>1. IsFiniteSet(Tx) /\ IsFiniteSet(Line) /\ IsFiniteSet(N)
      BY PlacesAssumption, FS_Interval
    <2>2. IsFiniteSet(Tx \X Line)
      BY <2>1, FS_Product
    <2>3. QED
      BY <2>1, <2>2, FS_Product
  <1>2. f \in Surjection(P, T)
    <2>1. f \in [P -> T]
      OBVIOUS
    <2>2. ASSUME NEW g \in T
          PROVE  \E p \in P : f[p] = g
      <3>1. PICK a \in Tx, l \in Line, i \in N : g = <<a, l, i>>
        OBVIOUS
      <3>2. <<<<a, l>>, i>> \in P /\ f[<<<<a, l>>, i>>] = g
        BY <3>1
      <3>3. QED
        BY <3>2
    <2>3. QED
      BY <2>1, <2>2 DEF Surjection
  <1>3. QED
    BY <1>1, <1>2, FS_Surjection

LEMMA HeadsFinite ==
  ASSUME NEW s, NEW F, NEW R \in SUBSET Tx
  PROVE  IsFiniteSet(LineHeads(s, F, R)) /\ Cardinality(LineHeads(s, F, R)) \in Nat
  <1>1. LineHeads(s, F, R) \in SUBSET (Tx \X Line \X (1..MaxParty))
    BY DEF LineHeads
  <1>2. QED
    BY <1>1, AllHeadsFinite, FS_Subset, FS_CardinalityType

LEMMA HeadsMonotone ==
  ASSUME NEW s, NEW F, NEW R \in SUBSET Tx, NEW S, S \subseteq LineHeads(s, F, R)
  PROVE  /\ IsFiniteSet(S) /\ Cardinality(S) \in Nat /\ Cardinality(LineHeads(s, F, R)) \in Nat
         /\ Cardinality(S) <= Cardinality(LineHeads(s, F, R))
  BY HeadsFinite, FS_Subset, FS_CardinalityType

(* The heads of one line are no more than its guests.                      *)
LEMMA LineCount ==
  ASSUME NEW r, NEW l \in Line
  PROVE  LET H == {r} \X {l} \X (1..l.n)
         IN  IsFiniteSet(H) /\ Cardinality(H) \in Nat /\ Cardinality(H) <= l.n
  <1> DEFINE H == {r} \X {l} \X (1..l.n)
             f == [i \in 1..l.n |-> <<r, l, i>>]
  <1>1. l.n \in Nat
    BY LineType, PlacesAssumption
  <1>2. IsFiniteSet(1..l.n) /\ Cardinality(1..l.n) = l.n
    <2>1. \A n \in Nat : IsFiniteSet(1..n) /\ Cardinality(1..n) = n
      BY FS_Interval
    <2>2. QED
      BY <1>1, <2>1
  <1>3. f \in Surjection(1..l.n, H)
    <2>1. f \in [1..l.n -> H] /\ \A g \in H : g[3] \in 1..l.n /\ f[g[3]] = g
      OBVIOUS
    <2>2. QED
      BY <2>1 DEF Surjection
  <1> HIDE DEF H, f
  <1>4. IsFiniteSet(H) /\ Cardinality(H) <= l.n
    BY <1>2, <1>3, FS_Surjection
  <1>5. QED
    BY <1>4, FS_CardinalityType DEF H

(* Adding the heads of one line adds no more than its guests.              *)
LEMMA AddLine ==
  ASSUME NEW s, NEW F, NEW R \in SUBSET Tx, NEW r, NEW l \in Line, NEW C \in Nat, NEW S,
         Cardinality(LineHeads(s, F, R)) + l.n <= C,
         S \subseteq LineHeads(s, F, R) \cup ({r} \X {l} \X (1..l.n))
  PROVE  Cardinality(S) <= C
  <1> DEFINE A == LineHeads(s, F, R)
             H == {r} \X {l} \X (1..l.n)
  <1>1. IsFiniteSet(A) /\ Cardinality(A) \in Nat
    BY HeadsFinite
  <1>2. IsFiniteSet(H) /\ Cardinality(H) \in Nat /\ Cardinality(H) <= l.n
    BY LineCount
  <1>3. l.n \in Nat
    BY LineType, PlacesAssumption
  <1> HIDE DEF A, H
  <1>4. IsFiniteSet(A \cap H) /\ Cardinality(A \cap H) \in Nat
    BY <1>1, FS_Subset, FS_CardinalityType
  <1>5. IsFiniteSet(A \cup H) /\ Cardinality(A \cup H) = Cardinality(A) + Cardinality(H) - Cardinality(A \cap H)
        /\ Cardinality(A \cup H) \in Nat
    BY <1>1, <1>2, FS_Union, FS_CardinalityType
  <1>6. S \in SUBSET (A \cup H)
    BY DEF A, H
  <1>7. Cardinality(S) <= Cardinality(A \cup H) /\ Cardinality(S) \in Nat
    BY <1>5, <1>6, FS_Subset, FS_CardinalityType
  <1>8. Cardinality(A) + l.n <= C
    BY DEF A
  <1>9. QED
    BY <1>1, <1>2, <1>3, <1>4, <1>5, <1>7, <1>8

LEMMA SingleTx == SingleLine \in SUBSET Tx /\ \A x : SingleLine \ {x} \in SUBSET Tx
  BY DEF SingleLine, Reserved

(* Rows of SingleLine have no line or one.                                 *)
LEMMA OneLine ==
  ASSUME NEW lines \in SUBSET Line, Cardinality(lines) <= 1
  PROVE  lines = {} \/ \E l \in Line : lines = {l}
  <1>1. IsFiniteSet(lines)
    BY PlacesAssumption, FS_Subset
  <1>2. Cardinality(lines) \in Nat
    BY <1>1, FS_CardinalityType
  <1>3. Cardinality(lines) = 0 \/ Cardinality(lines) = 1
    BY <1>2
  <1>4. CASE Cardinality(lines) = 0
    BY <1>1, <1>4, FS_EmptySet
  <1>5. CASE Cardinality(lines) = 1
    <2>1. PICK l : lines = {l}
      BY <1>1, <1>5, FS_Singleton
    <2>2. QED
      BY <2>1
  <1>6. QED
    BY <1>3, <1>4, <1>5

-----------------------------------------------------------------------------
(* Steps that grant no lines.                                              *)

(* No grant of lines appears, moves or changes.                            *)
FreesLines == \A r \in Tx : "lines" \in reserved'[r] =>
                /\ "lines" \in reserved[r]
                /\ row'[r].slot = row[r].slot
                /\ row'[r].lines = row[r].lines

LEMMA FreesHeads ==
  ASSUME LockInv, LinesGranted, FreesLines, NEW s, NEW F, NEW x
  PROVE  HeadsExcept(s, F, x)' \subseteq HeadsExcept(s, F, x)
  <1>1. ASSUME NEW g \in Tx \X Line \X (1..MaxParty), "lines" \in reserved'[g[1]], g[1] # x,
               Cardinality(row'[g[1]].lines) <= 1,
               row'[g[1]].slot = s, g[2] \in row'[g[1]].lines, g[2] \in F, g[3] <= g[2].n
        PROVE  g \in HeadsExcept(s, F, x)
    <2>1. g[1] \in Tx /\ g[2] \in Line /\ g[3] \in 1..MaxParty /\ g = <<g[1], g[2], g[3]>>
      OBVIOUS
    <2>2. "lines" \in reserved[g[1]] /\ row'[g[1]].slot = row[g[1]].slot /\ row'[g[1]].lines = row[g[1]].lines
      BY <1>1, <2>1 DEF FreesLines
    <2>3. Live(g[1]) /\ g[1] \in SingleLine \ {x}
      BY <1>1, <2>1, <2>2 DEF LockInv, LinesGranted, GrantsLive, SingleLine, Reserved
    <2>4. QED
      BY <1>1, <2>1, <2>2, <2>3 DEF HeadsExcept, LineHeads
  <1>2. ASSUME NEW g \in HeadsExcept(s, F, x)'
        PROVE  /\ g \in Tx \X Line \X (1..MaxParty) /\ "lines" \in reserved'[g[1]] /\ g[1] # x
               /\ Cardinality(row'[g[1]].lines) <= 1
               /\ row'[g[1]].slot = s /\ g[2] \in row'[g[1]].lines /\ g[2] \in F /\ g[3] <= g[2].n
    BY <1>2 DEF HeadsExcept, LineHeads, SingleLine, Reserved
  <1>3. QED
    BY <1>1, <1>2

LEMMA SaveFreesLines ==
  ASSUME TypeInv, LinesGranted, NEW t \in Tx, SaveArrival(t)
  PROVE  FreesLines /\ LinesGranted'
  <1> DEFINE b == req[t].own
             x == [req[t].row EXCEPT !.lines = row[b].lines]
  <1>1. pc[t] = "save" /\ b \in Tx /\ req[t].row \in Row
    BY DEF SaveArrival, TypeInv, TypeOK, StepOf, Kinds, Request
  <1>2. x.slot = req[t].row.slot /\ x.lines = row[b].lines
    BY <1>1 DEF Row
  <1>3. row' = [row EXCEPT ![b] = x]
    BY DEF SaveArrival
  <1>4. row'[b] = x /\ \A u \in Tx \ {b} : row'[u] = row[u]
    BY <1>1, <1>3 DEF TypeInv, TypeOK
  <1>5. /\ \A u \in Tx \ {b} : reserved'[u] = reserved[u]
        /\ reserved'[b] = {} \/ (reserved'[b] = reserved[b] /\ row[b].slot = req[t].row.slot)
    BY <1>1 DEF SaveArrival, TypeInv, TypeOK
  <1> HIDE DEF x
  <1>6. QED
    BY <1>1, <1>2, <1>4, <1>5 DEF FreesLines, LinesGranted

LEMMA CommitGranted ==
  ASSUME LockInv, LinesGranted, NEW t \in Tx, Commit(t)
  PROVE  LinesGranted'
  <1>1. "lines" \in Granted(t, Target(t)) => "party" \in Granted(t, Target(t))
    BY CommitIs DEF LockInv, LinesGranted, Granted
  <1>2. QED
    BY <1>1, CommitIs DEF LockInv, LinesGranted

LEMMA UnplacedFreesLines ==
  ASSUME LockInv, NEW t \in Tx, Commit(t), ~req[t].places
  PROVE  FreesLines
  <1>1. TypeInv /\ pc[t] = "commit" /\ req[t].op = "edit" /\ Target(t) = req[t].own
    BY CommitIs DEF LockInv, TypeInv, Kinds, Target
  <1>2. \/ req[t].row.status \in {"cancelled", "postponed"}
        \/ req[t].row.slot = row[Target(t)].slot
    BY <1>1 DEF LockInv, Unmoved
  <1>3. "lines" \in Granted(t, Target(t)) =>
          /\ req[t].row.status \notin {"cancelled", "postponed"}
          /\ "lines" \in reserved[Target(t)]
          /\ req[t].row.lines = row[Target(t)].lines
    BY DEF Granted
  <1>4. QED
    BY <1>1, <1>2, <1>3, CommitIs DEF FreesLines

LEMMA RowsFreeLines ==
  ASSUME TypeInv, LinesGranted, NEW r \in Tx, Rows(r)
  PROVE  FreesLines /\ LinesGranted'
  BY RowsIs DEF FreesLines, LinesGranted

LEMMA KeptFreesLines ==
  ASSUME LinesGranted, UNCHANGED <<row, reserved>>
  PROVE  FreesLines /\ LinesGranted'
  BY DEF FreesLines, LinesGranted

-----------------------------------------------------------------------------
(* Commits that grant lines.                                               *)

(* Elsewhere nothing is added, and in its slot only its own line.          *)
LEMMA PlacedHeads ==
  ASSUME LockInv, LinesGranted, NEW t \in Tx, Commit(t), req[t].places, NEW F
  PROVE  /\ \A s, x : s # req[t].row.slot => HeadsExcept(s, F, x)' \subseteq HeadsExcept(s, F, x)
         /\ \A s : LineHeads(s, F, SingleLine)'
              \subseteq HeadsExcept(s, F, req[t].own)
                 \cup {g \in Tx \X Line \X (1..MaxParty) :
                         /\ g[1] = Target(t) /\ req[t].asked = req[t].row.lines
                         /\ Cardinality(req[t].row.lines) <= 1
                         /\ g[2] \in req[t].row.lines /\ g[2] \in F /\ g[3] <= g[2].n}
  <1>1. /\ \A r \in Tx \ {Target(t), req[t].own} : row'[r] = row[r] /\ reserved'[r] = reserved[r]
        /\ row'[Target(t)] = req[t].row
        /\ reserved'[Target(t)] = Granted(t, Target(t))
        /\ req[t].own \in Tx \ {Target(t)} => reserved'[req[t].own] = {}
        /\ Target(t) \in Tx
    BY CommitIs DEF LockInv
  <1>2. "lines" \in Granted(t, Target(t)) => req[t].asked = req[t].row.lines
    BY DEF Granted
  <1>3. \A g \in Tx \X Line \X (1..MaxParty) :
          g[1] \in Tx /\ g[2] \in Line /\ g[3] \in 1..MaxParty /\ g = <<g[1], g[2], g[3]>>
    OBVIOUS
  <1>4. ASSUME NEW r \in Tx, "lines" \in reserved'[r], r # Target(t)
        PROVE  r # req[t].own /\ "lines" \in reserved[r] /\ row'[r] = row[r] /\ Live(r)
    BY <1>1, <1>4 DEF LockInv, LinesGranted, GrantsLive
  <1>5. ASSUME NEW s, NEW x, NEW g \in LineHeads(s, F, SingleLine \ {x})'
        PROVE  /\ g \in Tx \X Line \X (1..MaxParty) /\ "lines" \in reserved'[g[1]] /\ g[1] # x
               /\ Cardinality(row'[g[1]].lines) <= 1
               /\ row'[g[1]].slot = s /\ g[2] \in row'[g[1]].lines /\ g[2] \in F /\ g[3] <= g[2].n
    BY <1>5 DEF LineHeads, SingleLine, Reserved
  <1>6. ASSUME NEW s, NEW x, NEW g \in LineHeads(s, F, SingleLine \ {x})', g[1] # Target(t)
        PROVE  g \in HeadsExcept(s, F, x) /\ g[1] # req[t].own
    <2>1. /\ g \in Tx \X Line \X (1..MaxParty) /\ "lines" \in reserved'[g[1]] /\ g[1] # x
          /\ Cardinality(row'[g[1]].lines) <= 1
          /\ row'[g[1]].slot = s /\ g[2] \in row'[g[1]].lines /\ g[2] \in F /\ g[3] <= g[2].n
      BY <1>5
    <2>2. g[1] \in Tx /\ g[2] \in Line /\ g[3] \in 1..MaxParty /\ g = <<g[1], g[2], g[3]>>
      BY <1>3, <2>1
    <2>3. g[1] # req[t].own /\ "lines" \in reserved[g[1]] /\ row'[g[1]] = row[g[1]] /\ Live(g[1])
      BY <1>4, <1>6, <2>1, <2>2
    <2>4. Cardinality(row[g[1]].lines) <= 1
      BY <2>1, <2>3
    <2>5. g[1] \in SingleLine \ {x}
      BY <2>1, <2>2, <2>3, <2>4 DEF SingleLine, Reserved
    <2>6. QED
      BY <2>1, <2>2, <2>3, <2>5 DEF HeadsExcept, LineHeads
  <1>7. ASSUME NEW s, NEW x, s # req[t].row.slot
        PROVE  HeadsExcept(s, F, x)' \subseteq HeadsExcept(s, F, x)
    <2>1. ASSUME NEW g \in LineHeads(s, F, SingleLine \ {x})'
          PROVE  g \in HeadsExcept(s, F, x)
      <3>1. /\ g \in Tx \X Line \X (1..MaxParty) /\ "lines" \in reserved'[g[1]] /\ g[1] # x
            /\ Cardinality(row'[g[1]].lines) <= 1
            /\ row'[g[1]].slot = s /\ g[2] \in row'[g[1]].lines /\ g[2] \in F /\ g[3] <= g[2].n
        BY <1>5, <2>1
      <3>2. g[1] # Target(t)
        BY <1>1, <1>7, <3>1
      <3>3. QED
        BY <1>6, <3>2
    <2>2. HeadsExcept(s, F, x)' = LineHeads(s, F, SingleLine \ {x})'
      BY DEF HeadsExcept
    <2>3. QED
      BY <2>1, <2>2
  <1>8. ASSUME NEW s, NEW g \in LineHeads(s, F, SingleLine)'
        PROVE  \/ g \in HeadsExcept(s, F, req[t].own)
               \/ /\ g \in Tx \X Line \X (1..MaxParty)
                  /\ g[1] = Target(t) /\ req[t].asked = req[t].row.lines
                  /\ Cardinality(req[t].row.lines) <= 1
                  /\ g[2] \in req[t].row.lines /\ g[2] \in F /\ g[3] <= g[2].n
    <2>1. g \in LineHeads(s, F, SingleLine \ {NoTx})'
      BY <1>8, PlacesAssumption DEF LineHeads, SingleLine, Reserved
    <2>0. /\ g \in Tx \X Line \X (1..MaxParty) /\ "lines" \in reserved'[g[1]]
          /\ Cardinality(row'[g[1]].lines) <= 1
          /\ g[2] \in row'[g[1]].lines /\ g[2] \in F /\ g[3] <= g[2].n
      BY <1>5, <2>1
    <2>2. CASE g[1] # Target(t)
      <3>1. g \in HeadsExcept(s, F, NoTx) /\ g[1] # req[t].own
        BY <1>6, <2>1, <2>2
      <3>2. QED
        BY <3>1 DEF HeadsExcept, LineHeads
    <2>3. CASE g[1] = Target(t)
      BY <1>1, <1>2, <2>0, <2>3
    <2>4. QED
      BY <2>2, <2>3
  <1>9. QED
    BY <1>7, <1>8

-----------------------------------------------------------------------------
(* What was counted stays true until it is written.                        *)

LEMMA LinesOf ==
  ASSUME TypeOK, NEW t \in Tx
  PROVE  req[t].row.lines \in SUBSET Line /\ req[t].asked \in SUBSET Line
  BY DEF TypeOK, Request, Row

(* A step that adds nothing in the slot of u keeps the room u had counted. *)
LEMMA LineRoomStays ==
  ASSUME LockInv, NEW F \in SUBSET Line, NEW C \in Nat, NEW u \in Tx, LineRoom(u, F, C),
         Past(u), req'[u] = req[u],
         \A s, x : s = req[u].row.slot => HeadsExcept(s, F, x)' \subseteq HeadsExcept(s, F, x)
  PROVE  LineRoom(u, F, C)'
  <1> DEFINE s == req[u].row.slot
             x == req[u].own
  <1> SUFFICES ASSUME req[u].asked = req[u].row.lines, NEW l \in req[u].row.lines \cap F
               PROVE  Cardinality(HeadsExcept(s, F, x)') + l.n <= C
    <2>1. HeadsExcept(req[u].row.slot, F, req[u].own)' = HeadsExcept(s, F, x)'
      BY DEF HeadsExcept, LineHeads
    <2>2. QED
      BY <2>1 DEF LineRoom
  <1>1. Cardinality(HeadsExcept(s, F, x)) + l.n <= C
    BY DEF LineRoom
  <1>2. l.n \in Nat
    BY LinesOf, LineType, PlacesAssumption DEF LockInv, TypeInv
  <1>3. HeadsExcept(s, F, x)' \subseteq HeadsExcept(s, F, x)
    <2>1. s' = s /\ x' = x
      OBVIOUS
    <2> HIDE DEF s, x
    <2>2. \A c, d : c = s => HeadsExcept(c, F, d)' \subseteq HeadsExcept(c, F, d)
      BY DEF s
    <2>3. QED
      BY <2>1, <2>2 DEF HeadsExcept, LineHeads
  <1>4. /\ Cardinality(HeadsExcept(s, F, x)') \in Nat /\ Cardinality(HeadsExcept(s, F, x)) \in Nat
        /\ Cardinality(HeadsExcept(s, F, x)') <= Cardinality(HeadsExcept(s, F, x))
    <2> DEFINE S == HeadsExcept(s, F, x)'
               R == SingleLine \ {x}
    <2>1. HeadsExcept(s, F, x) = LineHeads(s, F, R) /\ R \in SUBSET Tx
      BY SingleTx DEF HeadsExcept
    <2>2. S \subseteq LineHeads(s, F, R)
      BY <1>3, <2>1
    <2> HIDE DEF S, R, s, x
    <2>3. /\ Cardinality(S) \in Nat /\ Cardinality(LineHeads(s, F, R)) \in Nat
          /\ Cardinality(S) <= Cardinality(LineHeads(s, F, R))
      BY <2>1, <2>2, HeadsMonotone
    <2>4. QED
      BY <2>1, <2>3 DEF S
  <1> HIDE DEF s, x
  <1>5. QED
    BY <1>1, <1>2, <1>4

(* The whole of a set of rows is the set without the request NoTx.         *)
LEMMA HeadsAll ==
  ASSUME NEW s, NEW F
  PROVE  /\ LineHeads(s, F, SingleLine) = HeadsExcept(s, F, NoTx)
         /\ LineHeads(s, F, SingleLine)' = HeadsExcept(s, F, NoTx)'
  <1>1. SingleLine \ {NoTx} = SingleLine /\ (SingleLine \ {NoTx} = SingleLine)'
    BY PlacesAssumption DEF SingleLine, Reserved
  <1>2. QED
    BY <1>1 DEF HeadsExcept, LineHeads

LEMMA CapStays ==
  ASSUME NEW F, NEW C \in Nat, NEW s \in Slots, CapHeld(F, C),
         HeadsExcept(s, F, NoTx)' \subseteq HeadsExcept(s, F, NoTx)
  PROVE  Cardinality(LineHeads(s, F, SingleLine)') <= C
  <1> DEFINE S == LineHeads(s, F, SingleLine)'
             R == SingleLine
  <1>1. S \subseteq LineHeads(s, F, R) /\ R \in SUBSET Tx
    BY HeadsAll, SingleTx
  <1>2. Cardinality(LineHeads(s, F, R)) <= C
    BY DEF CapHeld
  <1> HIDE DEF S, R
  <1>3. /\ Cardinality(S) \in Nat /\ Cardinality(LineHeads(s, F, R)) \in Nat
        /\ Cardinality(S) <= Cardinality(LineHeads(s, F, R))
    BY <1>1, HeadsMonotone
  <1>4. Cardinality(S) <= C
    BY <1>2, <1>3
  <1>5. QED
    BY <1>4 DEF S

(* The commit of a request that reserved.                                  *)
LEMMA PlacedCap ==
  ASSUME LockInv, LinesGranted, NEW F \in SUBSET Line, NEW C \in Nat, LineInv(F, C),
         NEW t \in Tx, Commit(t), req[t].places, NEW s \in Slots
  PROVE  Cardinality(LineHeads(s, F, SingleLine)') <= C
  <1> DEFINE x == req[t].own
             own == {g \in Tx \X Line \X (1..MaxParty) :
                         /\ g[1] = Target(t) /\ req[t].asked = req[t].row.lines
                         /\ Cardinality(req[t].row.lines) <= 1
                         /\ g[2] \in req[t].row.lines /\ g[2] \in F /\ g[3] <= g[2].n}
             S == LineHeads(s, F, SingleLine)'
             R == SingleLine
             E == SingleLine \ {x}
  <1>1. CapHeld(F, C) /\ LineRoom(t, F, C) /\ Past(t) /\ req[t].row.lines \in SUBSET Line
    BY CommitIs, LinesOf DEF LineInv, LockInv, TypeInv, Past
  <1>2. CASE s # req[t].row.slot
    BY <1>1, <1>2, PlacedHeads, CapStays
  <1>3. S \subseteq LineHeads(s, F, E) \cup own
    BY PlacedHeads DEF HeadsExcept
  <1>4. E \in SUBSET Tx /\ LineHeads(s, F, E) \subseteq LineHeads(s, F, R) /\ R \in SUBSET Tx
    BY SingleTx DEF LineHeads
  <1>5. CASE own = {}
    <2>1. Cardinality(LineHeads(s, F, R)) <= C /\ S \subseteq LineHeads(s, F, R)
      BY <1>1, <1>3, <1>4, <1>5 DEF CapHeld
    <2> HIDE DEF S, R
    <2>2. /\ Cardinality(S) \in Nat /\ Cardinality(LineHeads(s, F, R)) \in Nat
          /\ Cardinality(S) <= Cardinality(LineHeads(s, F, R))
      BY <1>4, <2>1, HeadsMonotone
    <2>3. Cardinality(S) <= C
      BY <2>1, <2>2
    <2>4. QED
      BY <2>3 DEF S
  <1>6. CASE s = req[t].row.slot /\ own # {}
    <2>1. PICK g \in own : TRUE
      BY <1>6
    <2>2. /\ req[t].asked = req[t].row.lines /\ Cardinality(req[t].row.lines) <= 1
          /\ g[2] \in req[t].row.lines /\ g[2] \in F
      BY <2>1
    <2>3. PICK l \in Line : req[t].row.lines = {l}
      BY <1>1, <2>2, OneLine
    <2>4. l \in req[t].row.lines \cap F
      BY <2>2, <2>3
    <2>5. Cardinality(LineHeads(s, F, E)) + l.n <= C
      BY <1>1, <1>6, <2>2, <2>4 DEF LineRoom, HeadsExcept
    <2>6. own \subseteq {Target(t)} \X {l} \X (1..l.n)
      <3>1. l.n \in Nat
        BY LineType, PlacesAssumption
      <3>2. ASSUME NEW h \in Tx \X Line \X (1..MaxParty), h[1] = Target(t), h[2] = l, h[3] <= h[2].n
            PROVE  h \in {Target(t)} \X {l} \X (1..l.n)
        <4>1. h[3] \in 1..MaxParty /\ h = <<h[1], h[2], h[3]>>
          OBVIOUS
        <4>2. h[3] \in 1..l.n
          BY <3>1, <3>2, <4>1, PlacesAssumption
        <4>3. QED
          BY <3>2, <4>1, <4>2
      <3>3. ASSUME NEW h \in own
            PROVE  h \in Tx \X Line \X (1..MaxParty) /\ h[1] = Target(t) /\ h[2] = l /\ h[3] <= h[2].n
        BY <2>3, <3>3
      <3>4. QED
        BY <3>2, <3>3
    <2>7. S \subseteq LineHeads(s, F, E) \cup ({Target(t)} \X {l} \X (1..l.n))
      BY <1>3, <2>6
    <2> HIDE DEF S, E
    <2>8. Cardinality(S) <= C
      BY <1>4, <2>5, <2>7, AddLine
    <2>9. QED
      BY <2>8 DEF S
  <1>7. QED
    BY <1>2, <1>5, <1>6

-----------------------------------------------------------------------------
(* The step, for any cap the check admits by.                              *)

(* What reservePlaces lets in leaves the cap room for each line.           *)
Admits(F, C) ==
  \A t \in Tx : reservePlaces(t) =>
    \A l \in req[t].asked \cap F : Cardinality(LineHeads(req[t].row.slot, F, Others(t))) + l.n <= C

(* The count under the lock.                                               *)
LEMMA LinesCounted ==
  ASSUME LockInv, NEW F \in SUBSET Line, NEW C \in Nat, Admits(F, C), NEW t \in Tx, Reserve(t)
  PROVE  LineRoom(t, F, C)'
  <1>1. UNCHANGED <<row, reserved, req>> /\ reservePlaces(t)
    BY DEF Reserve
  <1> DEFINE s == req[t].row.slot
             S == HeadsExcept(s, F, req[t].own)
             R == Others(t)
  <1>2. S \subseteq LineHeads(s, F, R) /\ R \in SUBSET Tx
    BY DEF HeadsExcept, LineHeads, Others, SingleLine, Reserved
  <1>3. ASSUME NEW l \in req[t].asked \cap F
        PROVE  Cardinality(S) + l.n <= C
    <2>1. Cardinality(LineHeads(s, F, R)) + l.n <= C
      BY <1>1 DEF Admits
    <2>2. l.n \in Nat
      BY LineType, PlacesAssumption
    <2> HIDE DEF S, R, s
    <2>3. /\ Cardinality(S) \in Nat /\ Cardinality(LineHeads(s, F, R)) \in Nat
          /\ Cardinality(S) <= Cardinality(LineHeads(s, F, R))
      BY <1>2, HeadsMonotone
    <2>4. QED
      BY <2>1, <2>2, <2>3
  <1>4. HeadsExcept(req[t].row.slot, F, req[t].own)' = S
    BY <1>1 DEF HeadsExcept, LineHeads, SingleLine, Reserved, Live
  <1> HIDE DEF S, s, R
  <1>5. QED
    BY <1>1, <1>3, <1>4 DEF LineRoom

LEMMA LineStep ==
  ASSUME LockInv, LinesGranted, [Next]_vars,
         NEW F \in SUBSET Line, NEW C \in Nat, Admits(F, C), LineInv(F, C)
  PROVE  LineInv(F, C)'
  <1>0. TypeInv /\ LockInv'
    BY LockStep DEF LockInv
  <1>1. ASSUME FreesLines, NEW u \in Tx, Past(u), req'[u] = req[u]
        PROVE  LineRoom(u, F, C)'
    <2>1. \A s, x : HeadsExcept(s, F, x)' \subseteq HeadsExcept(s, F, x)
      BY <1>1, FreesHeads
    <2>2. QED
      BY <1>1, <2>1, LineRoomStays DEF LineInv
  <1>2. ASSUME FreesLines
        PROVE  CapHeld(F, C)'
    <2>1. \A s, x : HeadsExcept(s, F, x)' \subseteq HeadsExcept(s, F, x)
      BY <1>2, FreesHeads
    <2>2. QED
      BY <2>1, CapStays DEF LineInv, CapHeld
  <1>3. ASSUME NEW t \in Tx, Quiet(t)
        PROVE  LineInv(F, C)'
    <2>1. Alone(t) /\ FreesLines
      BY <1>0, <1>3, QuietAlone, KeptFreesLines
    <2>2. ASSUME NEW u \in Tx, Past(u)'
          PROVE  LineRoom(u, F, C)'
      <3>1. CASE u # t
        <4>1. Past(u) /\ req'[u] = req[u]
          BY <2>1, <2>2, <3>1 DEF Alone, Past
        <4>2. QED
          BY <1>1, <2>1, <4>1
      <3>2. CASE u = t
        BY <1>1, <1>3, <2>1, <2>2, <3>2, PastFrom, LinesCounted
      <3>3. QED
        BY <3>1, <3>2
    <2>3. \A u \in Tx : LineRoom(u, F, C)'
      BY <2>2 DEF LineRoom
    <2>4. QED
      BY <1>2, <2>1, <2>3 DEF LineInv
  <1>4. ASSUME NEW t \in Tx, Commit(t)
        PROVE  LineInv(F, C)'
    <2>1. Alone(t) /\ pc'[t] = "ok" /\ UNCHANGED req /\ pc[t] = "commit"
      BY <1>0, <1>4, CommitAlone, CommitIs DEF TypeInv, TypeOK
    <2>2. ASSUME NEW u \in Tx, Past(u)'
          PROVE  u # t /\ Past(u) /\ req'[u] = req[u]
      BY <2>1, <2>2 DEF Alone, Past
    <2>3. CASE ~req[t].places
      <3>1. FreesLines
        BY <1>4, <2>3, UnplacedFreesLines
      <3>2. \A u \in Tx : LineRoom(u, F, C)'
        BY <1>1, <2>2, <3>1 DEF LineRoom
      <3>3. QED
        BY <1>2, <3>1, <3>2 DEF LineInv
    <2>4. CASE req[t].places
      <3>1. ASSUME NEW u \in Tx, Past(u)'
            PROVE  LineRoom(u, F, C)'
        <4>1. u # t /\ Past(u) /\ req'[u] = req[u]
          BY <2>2, <3>1
        <4>2. slotLock[req[u].row.slot] = u /\ slotLock[req[t].row.slot] = t
          BY <2>1, <2>4, <4>1 DEF LockInv, Locked, Past
        <4>3. req[u].row.slot # req[t].row.slot
          BY <4>1, <4>2
        <4>4. \A s, x : s # req[t].row.slot => HeadsExcept(s, F, x)' \subseteq HeadsExcept(s, F, x)
          BY <1>4, <2>4, PlacedHeads
        <4>5. QED
          BY <4>1, <4>3, <4>4, LineRoomStays DEF LineInv
      <3>2. \A u \in Tx : LineRoom(u, F, C)'
        BY <3>1 DEF LineRoom
      <3>3. CapHeld(F, C)'
        BY <1>4, <2>4, PlacedCap DEF CapHeld
      <3>4. QED
        BY <3>2, <3>3 DEF LineInv
    <2>5. QED
      BY <2>3, <2>4
  <1>5. ASSUME NEW t \in Tx, SaveArrival(t)
        PROVE  LineInv(F, C)'
    <2>1. FreesLines /\ Alone(t) /\ pc'[t] = "ok" /\ UNCHANGED req
      BY <1>0, <1>5, SaveFreesLines, SaveAlone, SaveIs DEF TypeInv, TypeOK
    <2>2. ASSUME NEW u \in Tx, Past(u)'
          PROVE  Past(u) /\ req'[u] = req[u]
      BY <2>1, <2>2 DEF Alone, Past
    <2>3. \A u \in Tx : LineRoom(u, F, C)'
      BY <1>1, <2>1, <2>2 DEF LineRoom
    <2>4. QED
      BY <1>2, <2>1, <2>3 DEF LineInv
  <1>6. ASSUME FreesLines, UNCHANGED <<pc, req>>
        PROVE  LineInv(F, C)'
    <2>1. ASSUME NEW u \in Tx, Past(u)'
          PROVE  Past(u) /\ req'[u] = req[u]
      BY <1>6, <2>1 DEF Past
    <2>2. \A u \in Tx : LineRoom(u, F, C)'
      BY <1>1, <1>6, <2>1 DEF LineRoom
    <2>3. QED
      BY <1>2, <1>6, <2>2 DEF LineInv
  <1>7. ASSUME NEW r \in Tx, Rows(r)
        PROVE  LineInv(F, C)'
    BY <1>0, <1>6, <1>7, RowsFreeLines, RowsIs
  <1>8. CASE SaveCalendar \/ UNCHANGED vars
    <2>1. UNCHANGED <<row, reserved>> /\ UNCHANGED <<pc, req>>
      BY <1>8 DEF SaveCalendar, vars
    <2>2. QED
      BY <1>6, <2>1, KeptFreesLines
  <1>9. QED
    BY <1>3, <1>4, <1>5, <1>7, <1>8 DEF Next, Proceed, Quiet, Begin, Refuse, Rows

-----------------------------------------------------------------------------
(* The two caps.                                                           *)

LEMMA AdmitsActivity == TypeInv => Admits(Line, ActivityCap)
  <1> SUFFICES ASSUME TypeInv, NEW t \in Tx, reservePlaces(t), NEW l \in req[t].asked \cap Line
               PROVE  Cardinality(LineHeads(req[t].row.slot, Line, Others(t))) + l.n <= ActivityCap
    BY DEF Admits
  <1>1. \A s, R : LineHeads(s, Line, R) = activityGuests(s, R)
    BY DEF LineHeads, activityGuests
  <1>2. Cardinality(activityGuests(req[t].row.slot, Others(t))) + l.n <= ActivityCap
    BY DEF reservePlaces, LineHasRoom
  <1>3. QED
    BY <1>1, <1>2

LEMMA AdmitsSession ==
  ASSUME TypeInv, NEW time \in Times
  PROVE  Admits(AtTime(time), SessionCap)
  <1> SUFFICES ASSUME NEW t \in Tx, reservePlaces(t), NEW l \in req[t].asked \cap AtTime(time)
               PROVE  Cardinality(LineHeads(req[t].row.slot, AtTime(time), Others(t))) + l.n <= SessionCap
    BY DEF Admits
  <1> DEFINE s == req[t].row.slot
             R == Others(t)
             S == LineHeads(s, AtTime(time), R)
             G == sessionGuests(s[1], time, R)
  <1>1. l \in Line /\ l.time = time /\ l.time # NoTime /\ l.n \in Nat /\ SessionCap \in Nat
    BY LineType, PlacesAssumption DEF AtTime
  <1>2. Cardinality(G) + l.n <= SessionCap
    BY <1>1 DEF reservePlaces, LineHasRoom
  <1>3. IsFiniteSet(G)
    <2>1. \A g \in G : g \in Tx \X Line \X (1..MaxParty)
      BY DEF sessionGuests, Others
    <2>2. QED
      BY <2>1, AllHeadsFinite, FS_Subset
  <1>4. S \subseteq G
    BY DEF LineHeads, sessionGuests, AtTime
  <1> HIDE DEF S, G, s, R
  <1>5. Cardinality(S) <= Cardinality(G) /\ Cardinality(S) \in Nat /\ Cardinality(G) \in Nat
    BY <1>3, <1>4, FS_Subset, FS_CardinalityType
  <1>6. Cardinality(S) + l.n <= SessionCap
    BY <1>1, <1>2, <1>5
  <1>7. QED
    BY <1>6 DEF S, s, R

LEMMA CapsStep ==
  ASSUME CapsInv, [Next]_vars
  PROVE  CapsInv'
  <1>1. LockInv /\ TypeInv /\ LockInv'
    BY LockStep DEF CapsInv, LockInv
  <1>2. LinesGranted'
    <2>1. CASE \E t \in Tx : Quiet(t)
      BY <1>1, <2>1, QuietAlone, KeptFreesLines DEF CapsInv
    <2>2. CASE \E t \in Tx : Commit(t) \/ SaveArrival(t) \/ Rows(t)
      BY <1>1, <2>2, CommitGranted, SaveFreesLines, RowsFreeLines DEF CapsInv
    <2>3. CASE SaveCalendar \/ UNCHANGED vars
      BY <2>3, KeptFreesLines DEF CapsInv, SaveCalendar, vars
    <2>4. QED
      BY <2>1, <2>2, <2>3 DEF Next, Proceed, Quiet, Begin, Refuse, Rows
  <1>3. ActivityCap \in Nat /\ SessionCap \in Nat /\ \A time : AtTime(time) \in SUBSET Line
    BY PlacesAssumption DEF AtTime
  <1>4. LineInv(Line, ActivityCap)'
    BY <1>1, <1>3, AdmitsActivity, LineStep DEF CapsInv
  <1>5. ASSUME NEW time \in Times
        PROVE  LineInv(AtTime(time), SessionCap)'
    BY <1>1, <1>3, AdmitsSession, LineStep DEF CapsInv
  <1>6. QED
    BY <1>1, <1>2, <1>4, <1>5 DEF CapsInv

LEMMA CapsInit == Init => CapsInv
  <1> SUFFICES ASSUME Init PROVE CapsInv
    OBVIOUS
  <1>1. LockInv /\ LinesGranted
    BY PlaceInit DEF PlaceInv, Init, LinesGranted
  <1>2. ASSUME NEW F, NEW C \in Nat
        PROVE  LineInv(F, C)
    <2>1. \A s : LineHeads(s, F, SingleLine) = {}
      BY DEF Init, LineHeads, SingleLine, Reserved
    <2>2. CapHeld(F, C)
      BY <2>1, FS_EmptySet DEF CapHeld
    <2>3. \A t \in Tx : LineRoom(t, F, C)
      BY DEF Init, LineRoom, Past
    <2>4. QED
      BY <2>2, <2>3 DEF LineInv
  <1>3. QED
    BY <1>1, <1>2, PlacesAssumption DEF CapsInv

(* However many requests run at once, the guests whose lines were let in   *)
(* one at a time never outnumber the experience in an arrival slot, nor a  *)
(* session in the slot whose lock they took: counting, writing and the lock*)
(* between them are one unit.                                              *)
THEOREM CapsSafe == Spec => []CapsKept
  <1>1. Spec => []CapsInv
    BY CapsInit, CapsStep, PTL DEF Spec
  <1>2. CapsInv => CapsKept
    <2> SUFFICES ASSUME CapsInv PROVE CapsKept
      OBVIOUS
    <2>1. \A s : LineHeads(s, Line, SingleLine) = activityGuests(s, SingleLine)
      BY DEF LineHeads, activityGuests
    <2>2. ActivityWithinCap
      BY <2>1 DEF CapsInv, LineInv, CapHeld, ActivityWithinCap
    <2>3. \A s, time : LineHeads(s, AtTime(time), SingleLine)
                         = sessionGuests(s[1], time, {r \in SingleLine : row[r].slot = s})
      BY DEF LineHeads, sessionGuests, AtTime
    <2>4. SessionWithinCapPerSlot
      BY <2>3 DEF CapsInv, LineInv, CapHeld, SessionWithinCapPerSlot
    <2>5. QED
      BY <2>2, <2>4 DEF CapsKept
  <1>3. QED
    BY <1>1, <1>2, PTL
=============================================================================
