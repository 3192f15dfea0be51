----------------------------- MODULE ToldProofs -----------------------------
(***************************************************************************)
(* What the park is told and tells, for every value of the constants: the  *)
(* inductive invariants of the reports, the lists and the catalog, in the  *)
(* manner of PartsProofs, and the theorems about all the modules that      *)
(* MCTold puts side by side.                                               *)
(***************************************************************************)
EXTENDS MCTold, PartsProofs, SequenceTheorems
-----------------------------------------------------------------------------
(***************************************************************************)
(* The till.                                                               *)
(***************************************************************************)

Moved(rows) == [i \in DOMAIN rows |-> rows[i].to - rows[i].from]
EntriesOf(rows, b) == {i \in DOMAIN rows : rows[i].of = b}
LedgerOf(rows, b) == SumOf(EntriesOf(rows, b), Moved(rows))
Trailed(day) == [of : Bookings, day : 0..day, from : Int, to : Int, method : Methods \cup {"refund"}]
DeskCalls == [step : {"idle", "read", "save", "entry", "pay"}, row : {NoSale} \cup Sales, takes : Nat]
GateCalls == [step : {"idle", "viewed", "read"}, row : {NoSale} \cup Sales]

(* What the trail owes: the entry of a transfer that is in the row already.*)
Deferred(req) == IF req.step = "entry" THEN Total(req.row.order) ELSE 0

(* What a booking was paid is what its entries moved and what they owe.    *)
TillInv ==
  /\ TillTypeOK
  /\ \A i \in DOMAIN trail : trail[i].of \in Sold
  /\ \A b \in Bookings : desk[b].step # "idle" => b \in Sold
  /\ \A b \in Bookings : desk[b].step \in {"save", "entry", "pay"} => desk[b].row \in Sales
  /\ \A b \in Bookings : gate[b].step # "idle" => b \in Sold
  /\ \A b \in Bookings : gate[b].step = "read" => gate[b].row \in Sales
  /\ \A b \in Sold \ spoiled : sold[b].paid = LedgerOf(trail, b) + Deferred(desk[b])

LEMMA TotalIs ==
  ASSUME NEW o \in Orders
  PROVE  LineSum(o) \in Nat /\ o.subtotal \in Nat /\ Total(o) \in Int /\ Total(o) = o.subtotal - o.pass - o.offer
<1>1. o.lines \in [Options -> Nat] /\ o.entry \in Nat /\ o.products \in Nat /\ o.subtotal \in Nat /\ o.pass \in Nat /\ o.offer \in Nat
  BY DEF Orders
<1>2. LineSum(o) \in Nat BY <1>1, TillAssumption, SumNat DEF LineSum
<1> QED BY <1>1, <1>2 DEF Total

LEMMA SaleIs ==
  ASSUME NEW r \in Sales
  PROVE  /\ r # NoSale /\ r.status \in Statuses /\ r.order \in Orders /\ Total(r.order) \in Int /\ r.paid \in Nat
         /\ r.guests \in Nat /\ r.visit \in Days /\ r.made \in Days
<1>1. r.status \in Statuses /\ r.order \in Orders /\ r.paid \in Nat /\ r.guests \in Nat /\ r.visit \in Days /\ r.made \in Days
  BY DEF Sales
<1>2. r.status # "none" BY <1>1 DEF Statuses
<1>3. r # NoSale BY <1>2 DEF NoSale
<1> QED BY <1>1, <1>3, TotalIs

LEMMA SoldAre ==
  ASSUME TillTypeOK
  PROVE  /\ Sold \in SUBSET Bookings /\ IsFiniteSet(Sold)
         /\ \A b \in Bookings : b \in Sold <=> sold[b] \in Sales
         /\ \A b \in Bookings : b \in Sold <=> sold[b].status # "none"
<1>1. \A b \in Bookings : sold[b] = NoSale \/ sold[b] \in Sales BY DEF TillTypeOK
<1>2. \A b \in Bookings : sold[b] \in Sales => sold[b] # NoSale /\ sold[b].status # "none" BY SaleIs DEF Statuses
<1>3. \A b \in Bookings : sold[b] = NoSale => sold[b].status = "none" BY DEF NoSale
<1>4. Sold \in SUBSET Bookings BY DEF Sold
<1>5. IsFiniteSet(Sold) BY <1>4, TillAssumption, FS_Subset
<1> QED BY <1>1, <1>2, <1>3, <1>4, <1>5 DEF Sold

LEMMA EntriesFinite ==
  ASSUME NEW day, NEW rows \in Seq(Trailed(day)), NEW b
  PROVE  /\ IsFiniteSet(DOMAIN rows) /\ IsFiniteSet(EntriesOf(rows, b)) /\ \A i \in DOMAIN rows : Moved(rows)[i] \in Int
         /\ LedgerOf(rows, b) \in Int
<1>1. DOMAIN rows = 1..Len(rows) /\ Len(rows) \in Nat OBVIOUS
<1>2. IsFiniteSet(DOMAIN rows) BY <1>1, FS_Interval
<1>3. EntriesOf(rows, b) \in SUBSET DOMAIN rows BY DEF EntriesOf
<1>4. IsFiniteSet(EntriesOf(rows, b)) BY <1>2, <1>3, FS_Subset
<1>5. \A i \in DOMAIN rows : rows[i] \in Trailed(day) BY <1>1
<1>6. \A i \in DOMAIN rows : Moved(rows)[i] = rows[i].to - rows[i].from /\ rows[i].to \in Int /\ rows[i].from \in Int
  BY <1>5 DEF Moved, Trailed
<1>7. \A i \in DOMAIN rows : Moved(rows)[i] \in Int BY <1>6
<1>8. LedgerOf(rows, b) \in Int BY <1>3, <1>4, <1>7, SumInt DEF LedgerOf
<1> QED BY <1>2, <1>4, <1>7, <1>8

(* An entry more moves the ledger of its booking and of no other.          *)
LEMMA LedgerGrows ==
  ASSUME NEW day, NEW rows \in Seq(Trailed(day)), NEW e \in Trailed(day), NEW b
  PROVE  LedgerOf(Append(rows, e), b) = LedgerOf(rows, b) + IF e.of = b THEN e.to - e.from ELSE 0
<1> DEFINE n == Len(rows) + 1
           new == Append(rows, e)
<1>1. new \in Seq(Trailed(day)) /\ DOMAIN new = (DOMAIN rows) \cup {n} /\ n \notin DOMAIN rows /\ new[n] = e
      /\ \A i \in DOMAIN rows : new[i] = rows[i]
  OBVIOUS
<1>2. \A i \in DOMAIN new : Moved(new)[i] \in Int BY <1>1, EntriesFinite
<1>3. IsFiniteSet(EntriesOf(rows, b)) /\ \A i \in DOMAIN rows : Moved(rows)[i] \in Int BY EntriesFinite
<1>4. \A i \in DOMAIN rows : Moved(new)[i] = Moved(rows)[i] BY <1>1 DEF Moved
<1>5. EntriesOf(rows, b) \in SUBSET DOMAIN rows BY DEF EntriesOf
<1>6. SumOf(EntriesOf(rows, b), Moved(new)) = LedgerOf(rows, b)
  <2>1. SumOf(EntriesOf(rows, b), Moved(rows)) = SumOf(EntriesOf(rows, b), Moved(new)) BY <1>3, <1>4, <1>5, SumSame
  <2> QED BY <2>1 DEF LedgerOf
<1>7. LedgerOf(rows, b) \in Int BY EntriesFinite
<1>8. n \in DOMAIN new BY <1>1
<1> HIDE DEF n, new
<1>9. CASE e.of = b
  <2>1. EntriesOf(new, b) = EntriesOf(rows, b) \cup {n} BY <1>1, <1>9 DEF EntriesOf
  <2>2. Moved(new)[n] = e.to - e.from BY <1>1, <1>8 DEF Moved
  <2>3. n \notin EntriesOf(rows, b) BY <1>1, <1>5
  <2>4. \A y \in EntriesOf(rows, b) \cup {n} : Moved(new)[y] \in Int BY <1>2, <1>5, <1>8, <1>1
  <2>5. SumOf(EntriesOf(rows, b) \cup {n}, Moved(new)) = SumOf(EntriesOf(rows, b), Moved(new)) + Moved(new)[n]
    BY <1>3, <2>3, <2>4, SumAdd
  <2>6. LedgerOf(new, b) = LedgerOf(rows, b) + (e.to - e.from) BY <1>6, <2>1, <2>2, <2>5 DEF LedgerOf
  <2> QED BY <1>9, <2>6 DEF new
<1>10. CASE e.of # b
  <2>1. EntriesOf(new, b) = EntriesOf(rows, b) BY <1>1, <1>10 DEF EntriesOf
  <2>2. LedgerOf(new, b) = LedgerOf(rows, b) + 0 BY <1>6, <1>7, <2>1 DEF LedgerOf
  <2> QED BY <1>10, <2>2 DEF new
<1> QED BY <1>9, <1>10

(* What the gate holds of bookings that were sold, b among them or now.    *)
GateFits(b) ==
  /\ gate' \in [Bookings -> GateCalls]
  /\ \A c \in Bookings : gate'[c].step # "idle" => c \in Sold \cup {b}
  /\ \A c \in Bookings : gate'[c].step = "read" => gate'[c].row \in Sales

LEMMA GateStays == ASSUME TillInv, NEW b, gate' = gate PROVE GateFits(b)
BY DEF GateFits, TillInv, TillTypeOK, GateCalls

(* One booking is touched.                                                 *)
Touches(b, moved) ==
  /\ GateFits(b) /\ today' = today /\ gatewayHas' \in [Bookings -> Nat] /\ spoiled \subseteq spoiled'
  /\ sold' \in [Bookings -> {NoSale} \cup Sales] /\ sold'[b] \in Sales /\ \A c \in Bookings \ {b} : sold'[c] = sold[c]
  /\ desk' \in [Bookings -> DeskCalls] /\ \A c \in Bookings \ {b} : desk'[c] = desk[c]
  /\ desk'[b].step \in {"save", "entry", "pay"} => desk'[b].row \in Sales
  /\ trail' \in Seq(Trailed(today)) /\ \A i \in DOMAIN trail' : trail'[i].of \in Sold \cup {b}
  /\ \A c \in Bookings : LedgerOf(trail', c) = LedgerOf(trail, c) + IF c = b THEN moved ELSE 0
  /\ b \notin spoiled' => sold'[b].paid = LedgerOf(trail, b) + moved + Deferred(desk'[b])

LEMMA TouchKeeps ==
  ASSUME TillInv, NEW b \in Bookings, NEW moved \in Int, Touches(b, moved)
  PROVE  TillInv'
<1>1. TillTypeOK' BY DEF TillTypeOK, Touches, TillInv, Trailed, DeskCalls, GateFits, GateCalls
<1>2. Sold' = Sold \cup {b}
  <2>1. \A c \in Bookings \ {b} : c \in Sold' <=> c \in Sold BY DEF Touches, Sold
  <2>2. b \in Sold' BY SaleIs DEF Touches, Sold
  <2>3. Sold \in SUBSET Bookings /\ Sold' \in SUBSET Bookings BY DEF Sold
  <2> QED BY <2>1, <2>2, <2>3
<1>3. \A i \in DOMAIN trail' : trail'[i].of \in Sold' BY <1>2 DEF Touches
<1>4. \A c \in Bookings : desk'[c].step # "idle" => c \in Sold' BY <1>2 DEF Touches, TillInv
<1>5. \A c \in Bookings : desk'[c].step \in {"save", "entry", "pay"} => desk'[c].row \in Sales BY DEF Touches, TillInv
<1>6. ASSUME NEW c \in Sold' \ spoiled' PROVE sold'[c].paid = LedgerOf(trail', c) + Deferred(desk'[c])
  <2>1. c \in Bookings BY <1>6 DEF Sold
  <2>2. trail \in Seq(Trailed(today)) BY DEF TillInv, TillTypeOK, Trailed
  <2>3. LedgerOf(trail, c) \in Int BY <2>2, EntriesFinite
  <2>4. CASE c = b BY <1>6, <2>4, <2>1 DEF Touches
  <2>5. CASE c # b
    <3>1. c \in Sold \ spoiled BY <1>2, <1>6, <2>5 DEF Touches
    <3>2. sold[c].paid = LedgerOf(trail, c) + Deferred(desk[c]) BY <3>1 DEF TillInv
    <3>3. sold'[c] = sold[c] /\ desk'[c] = desk[c] /\ LedgerOf(trail', c) = LedgerOf(trail, c) + 0
      BY <2>1, <2>5 DEF Touches
    <3> QED BY <2>3, <3>2, <3>3
  <2> QED BY <2>4, <2>5
<1>7. \A c \in Bookings : gate'[c].step # "idle" => c \in Sold' BY <1>2 DEF Touches, GateFits
<1>8. \A c \in Bookings : gate'[c].step = "read" => gate'[c].row \in Sales BY DEF Touches, GateFits
<1> QED BY <1>1, <1>3, <1>4, <1>5, <1>6, <1>7, <1>8 DEF TillInv

LEMMA Unmoved ==
  ASSUME TillInv, trail' = trail
  PROVE  /\ trail' \in Seq(Trailed(today)) /\ \A i \in DOMAIN trail' : trail'[i].of \in Sold
         /\ \A c \in Bookings : LedgerOf(trail', c) = LedgerOf(trail, c) + 0
<1>1. trail \in Seq(Trailed(today)) BY DEF TillInv, TillTypeOK, Trailed
<1>2. \A c \in Bookings : LedgerOf(trail, c) \in Int BY <1>1, EntriesFinite
<1> QED BY <1>1, <1>2 DEF TillInv

LEMMA Entered ==
  ASSUME TillInv, NEW b \in Bookings, NEW x \in Int, NEW y \in Int, NEW m \in Methods \cup {"refund"}, Enter(b, x, y, m)
  PROVE  /\ trail' \in Seq(Trailed(today)) /\ \A i \in DOMAIN trail' : trail'[i].of \in Sold \cup {b}
         /\ \A c \in Bookings : LedgerOf(trail', c) = LedgerOf(trail, c) + IF c = b THEN y - x ELSE 0
<1> DEFINE e == Entry(b, x, y, m)
<1>1. trail \in Seq(Trailed(today)) /\ today \in Nat BY TillAssumption DEF TillInv, TillTypeOK, Trailed, Days
<1>2. e \in Trailed(today) /\ e.of = b /\ e.to = y /\ e.from = x BY <1>1 DEF Entry, Trailed
<1>3. trail' = Append(trail, e) BY DEF Enter
<1>4. \A i \in DOMAIN trail : trail[i].of \in Sold BY DEF TillInv
<1> HIDE DEF e
<1>5. trail' \in Seq(Trailed(today)) /\ \A i \in DOMAIN trail' : trail'[i].of \in Sold \cup {b}
  BY <1>1, <1>2, <1>3, <1>4
<1>6. \A c \in Bookings : LedgerOf(trail', c) = LedgerOf(trail, c) + IF e.of = c THEN e.to - e.from ELSE 0
  BY <1>1, <1>2, <1>3, LedgerGrows
<1> QED BY <1>2, <1>5, <1>6

LEMMA NoLedgerYet ==
  ASSUME TillInv, NEW b \in Bookings, b \notin Sold
  PROVE  LedgerOf(trail, b) = 0 /\ desk[b].step = "idle"
<1>1. EntriesOf(trail, b) = {} BY DEF TillInv, EntriesOf
<1> QED BY <1>1, SumEmpty DEF LedgerOf, TillInv

(* The rows and calls the steps write.                                     *)
LEMMA RowsWritten ==
  ASSUME TillInv
  PROVE  /\ today \in Days /\ LastDay \in Nat
         /\ \A ask \in Asked, visit \in Days : NewRow(ask, visit) \in Sales /\ NewRow(ask, visit).paid = 0
         /\ \A r \in Sales, p \in Nat : [r EXCEPT !.paid = p] \in Sales
         /\ \A r \in Sales, o \in Orders, d \in Days : [r EXCEPT !.order = o, !.visit = d] \in Sales
         /\ \A r \in Sales, s \in Statuses : [r EXCEPT !.status = s] \in Sales
         /\ NoAnswer \in DeskCalls
<1>1. today \in Days /\ LastDay \in Nat BY TillAssumption DEF TillInv, TillTypeOK
<1>2. ASSUME NEW ask \in Asked, NEW visit \in Days PROVE NewRow(ask, visit) \in Sales /\ NewRow(ask, visit).paid = 0
  <2>1. ask \in [order : Orders, slot : {"morning", "afternoon"}, mode : {"online", "gate"},
                 nationality : Nationalities, guests : Nat]
    BY TillAssumption
  <2>2. ask.order \in Orders /\ ask.slot \in {"morning", "afternoon"} /\ ask.mode \in {"online", "gate"}
        /\ ask.nationality \in Nationalities /\ ask.guests \in Nat
    BY <2>1
  <2>3. "confirmed" \in Statuses BY DEF Statuses
  <2> QED BY <1>1, <2>2, <2>3 DEF NewRow, Sales
<1>3. \A r \in Sales, p \in Nat : [r EXCEPT !.paid = p] \in Sales BY DEF Sales
<1>4. \A r \in Sales, s \in Statuses : [r EXCEPT !.status = s] \in Sales BY DEF Sales
<1>5. ASSUME NEW r \in Sales, NEW o \in Orders, NEW d \in Days PROVE [r EXCEPT !.order = o, !.visit = d] \in Sales
  BY DEF Sales
<1>6. NoAnswer \in DeskCalls BY DEF NoAnswer, DeskCalls
<1> QED BY <1>1, <1>2, <1>3, <1>4, <1>5, <1>6

LEMMA FloorIsNat == ASSUME NEW x \in Int PROVE Max({0, x}) \in Nat /\ Max({0, x}) >= x
<1> DEFINE pair == {0, x}
<1>1. pair = ({} \cup {0}) \cup {x} OBVIOUS
<1>2. IsFiniteSet({} \cup {0}) BY FS_AddElement, FS_EmptySet
<1>3. IsFiniteSet(pair)
  <2> HIDE DEF pair
  <2> QED BY <1>1, <1>2, FS_AddElement
<1>4. pair # {} /\ \A y \in pair : y \in Int OBVIOUS
<1>5. Max(pair) \in pair /\ \A y \in pair : y <= Max(pair)
  <2> HIDE DEF pair
  <2> QED BY <1>3, <1>4, MaxIs
<1> QED BY <1>5

LEMMA Saved ==
  ASSUME TillInv, NEW b \in Bookings, NEW r \in Sales, Save(b, r)
  PROVE  sold' \in [Bookings -> {NoSale} \cup Sales] /\ sold'[b] = r /\ \A c \in Bookings \ {b} : sold'[c] = sold[c]
BY DEF Save, TillInv, TillTypeOK

LEMMA SavedAsRead ==
  ASSUME TillInv, NEW b \in Bookings, b \in Sold, NEW r \in Sales
  PROVE  AsRead(b, r) \in Sales /\ AsRead(b, r).paid = r.paid
<1> DEFINE o == [r.order EXCEPT !.lines = sold[b].order.lines, !.products = sold[b].order.products]
<1>1. sold[b] \in Sales BY SoldAre DEF TillInv
<1>2. sold[b].order \in Orders /\ r.order \in Orders BY <1>1, SaleIs
<1>3. o \in Orders BY <1>2 DEF Orders
<1>4. AsRead(b, r) = [r EXCEPT !.order = o] BY DEF AsRead
<1> HIDE DEF o
<1>5. [r EXCEPT !.order = o] \in Sales /\ [r EXCEPT !.order = o].paid = r.paid BY <1>3 DEF Sales
<1> QED BY <1>4, <1>5

LEMMA Called ==
  ASSUME TillInv, NEW b \in Bookings, NEW req \in DeskCalls, SetDesk(b, req)
  PROVE  desk' \in [Bookings -> DeskCalls] /\ desk'[b] = req /\ \A c \in Bookings \ {b} : desk'[c] = desk[c]
BY DEF SetDesk, TillInv, TillTypeOK, DeskCalls

LEMMA TillTypes ==
  ASSUME TillInv
  PROVE  /\ gatewayHas \in [Bookings -> Nat] /\ desk \in [Bookings -> DeskCalls] /\ sold \in [Bookings -> {NoSale} \cup Sales]
         /\ trail \in Seq(Trailed(today)) /\ \A b \in Bookings : desk[b].step \in {"save", "entry", "pay"} => desk[b].row \in Sales
         /\ \A b \in Bookings : LedgerOf(trail, b) \in Int
         /\ \A b \in Bookings : b \in Sold => sold[b] \in Sales
         /\ \A b \in Bookings : b \in Sold /\ b \notin spoiled => sold[b].paid = LedgerOf(trail, b) + Deferred(desk[b])
<1>1. TillTypeOK BY DEF TillInv
<1>2. trail \in Seq(Trailed(today)) BY <1>1 DEF TillTypeOK, Trailed
<1>3. \A b \in Bookings : LedgerOf(trail, b) \in Int BY <1>2, EntriesFinite
<1> QED BY <1>1, <1>2, <1>3, SoldAre DEF TillTypeOK, DeskCalls, TillInv

LEMMA NewSale ==
  ASSUME TillInv, NEW b \in Bookings, NEW ask \in Asked, NEW visit \in Days, sell(b, ask, visit)
  PROVE  b \notin Sold /\ sold'[b] = NewRow(ask, visit) /\ (desk' = desk => TillInv')
<1>1. NewRow(ask, visit) \in Sales /\ NewRow(ask, visit).paid = 0 BY RowsWritten
<1>2. sold' \in [Bookings -> {NoSale} \cup Sales] /\ sold'[b] = NewRow(ask, visit) /\ \A c \in Bookings \ {b} : sold'[c] = sold[c]
  BY <1>1, Saved DEF sell
<1>3. b \notin Sold BY DEF sell, Sold
<1>4. LedgerOf(trail, b) = 0 /\ desk[b].step = "idle" BY <1>3, NoLedgerYet
<1>5. ASSUME desk' = desk PROVE Touches(b, 0)
  <2>1. Deferred(desk'[b]) = 0 BY <1>4, <1>5 DEF Deferred
  <2>2. trail' = trail /\ spoiled' = spoiled /\ gatewayHas' = gatewayHas /\ today' = today /\ gate' = gate BY DEF sell
  <2>3. sold'[b].paid = LedgerOf(trail, b) + 0 + Deferred(desk'[b]) BY <1>1, <1>2, <1>4, <2>1
  <2>4. GateFits(b) BY <2>2, GateStays
  <2> QED BY <1>1, <1>2, <1>5, <2>2, <2>3, <2>4, Unmoved, TillTypes DEF Touches
<1> QED BY <1>2, <1>3, <1>5, TouchKeeps

LEMMA DeskSale ==
  ASSUME TillInv, NEW b \in Bookings, NEW ask \in Asked, NEW visit \in Days, NEW pays \in Nat, createForGuest(b, ask, visit, pays)
  PROVE  TillInv'
<1> DEFINE req == [NoAnswer EXCEPT !.step = "read", !.takes = pays]
<1>1. NewRow(ask, visit) \in Sales /\ NewRow(ask, visit).paid = 0 BY RowsWritten
<1>2. sell(b, ask, visit) /\ SetDesk(b, req) BY DEF createForGuest
<1>3. sold' \in [Bookings -> {NoSale} \cup Sales] /\ sold'[b] = NewRow(ask, visit) /\ \A c \in Bookings \ {b} : sold'[c] = sold[c]
  BY <1>1, <1>2, Saved DEF sell
<1>4. req \in DeskCalls /\ req.step = "read" BY DEF DeskCalls, NoAnswer
<1> HIDE DEF req
<1>5. desk' \in [Bookings -> DeskCalls] /\ desk'[b] = req /\ \A c \in Bookings \ {b} : desk'[c] = desk[c] BY <1>2, <1>4, Called
<1>6. LedgerOf(trail, b) = 0 BY <1>2, NewSale, NoLedgerYet
<1>7. trail' = trail /\ spoiled' = spoiled /\ gatewayHas' = gatewayHas /\ today' = today /\ GateFits(b)
  BY <1>2, GateStays DEF sell
<1>8. sold'[b].paid = LedgerOf(trail, b) + 0 + Deferred(desk'[b]) BY <1>1, <1>3, <1>4, <1>5, <1>6 DEF Deferred
<1>9. Touches(b, 0) BY <1>1, <1>3, <1>4, <1>5, <1>7, <1>8, Unmoved, TillTypes DEF Touches
<1> QED BY <1>9, TouchKeeps

(* Steps of the desk's req that leave the row as it is.                   *)
LEMMA CallMoves ==
  ASSUME TillInv, NEW b \in Bookings, b \in Sold, NEW req \in DeskCalls, SetDesk(b, req),
         req.step \in {"save", "entry", "pay"} => req.row \in Sales,
         sold' = sold, trail' = trail, gate' = gate, gatewayHas' = gatewayHas, today' = today, spoiled \subseteq spoiled',
         b \notin spoiled' => Deferred(req) = Deferred(desk[b])
  PROVE  TillInv'
<1>1. desk' \in [Bookings -> DeskCalls] /\ desk'[b] = req /\ \A c \in Bookings \ {b} : desk'[c] = desk[c] BY Called
<1>2. sold[b] \in Sales /\ Total(desk[b].row.order) = Total(desk[b].row.order) BY TillTypes
<1>3. ASSUME b \notin spoiled' PROVE sold'[b].paid = LedgerOf(trail, b) + 0 + Deferred(desk'[b])
  <2>1. sold[b].paid = LedgerOf(trail, b) + Deferred(desk[b]) BY <1>3, TillTypes
  <2>2. LedgerOf(trail, b) \in Int BY TillTypes
  <2> QED BY <1>1, <1>3, <2>1, <2>2
<1>4. GateFits(b) BY GateStays
<1>5. Touches(b, 0) BY <1>1, <1>2, <1>3, <1>4, Unmoved, TillTypes DEF Touches
<1> QED BY <1>5, TouchKeeps

LEMMA DeskMoves ==
  ASSUME TillInv, NEW b \in Bookings, (\E pays \in {0} \cup Amounts : deskAgain(b, pays)) \/ readCreated(b) \/ deskCut(b)
  PROVE  TillInv'
<1>1. ASSUME NEW pays \in {0} \cup Amounts, deskAgain(b, pays) PROVE TillInv'
  <2> DEFINE req == [NoAnswer EXCEPT !.step = "read", !.takes = pays]
  <2>1. pays \in Nat BY TillAssumption
  <2>2. req \in DeskCalls /\ req.step = "read" BY <2>1 DEF DeskCalls, NoAnswer
  <2>3. SetDesk(b, req) /\ b \in Sold /\ sold' = sold /\ trail' = trail /\ gate' = gate /\ gatewayHas' = gatewayHas
        /\ today' = today /\ spoiled' = spoiled /\ desk[b].step = "idle"
    BY <1>1 DEF deskAgain, Sold
  <2>4. Deferred(req) = Deferred(desk[b]) BY <2>2, <2>3 DEF Deferred
  <2> HIDE DEF req
  <2> QED BY <2>2, <2>3, <2>4, CallMoves
<1>2. CASE readCreated(b)
  <2> DEFINE req == [desk[b] EXCEPT !.step = "save", !.row = sold[b]]
  <2>1. desk[b].step = "read" /\ desk[b] \in DeskCalls BY <1>2, TillTypes DEF readCreated
  <2>2. b \in Sold /\ sold[b] \in Sales BY <2>1, TillTypes DEF TillInv
  <2>3. req \in DeskCalls /\ req.step = "save" /\ req.row = sold[b] BY <2>1, <2>2 DEF DeskCalls
  <2>4. SetDesk(b, req) /\ sold' = sold /\ trail' = trail /\ gate' = gate /\ gatewayHas' = gatewayHas /\ today' = today
        /\ spoiled' = spoiled
    BY <1>2 DEF readCreated
  <2>5. Deferred(req) = Deferred(desk[b]) BY <2>1, <2>3 DEF Deferred
  <2> HIDE DEF req
  <2> QED BY <2>2, <2>3, <2>4, <2>5, CallMoves
<1>3. CASE deskCut(b)
  <2>1. b \in Sold BY <1>3 DEF deskCut, TillInv
  <2>2. NoAnswer \in DeskCalls /\ NoAnswer.step = "idle" BY DEF DeskCalls, NoAnswer
  <2>3. SetDesk(b, NoAnswer) /\ sold' = sold /\ trail' = trail /\ gate' = gate /\ gatewayHas' = gatewayHas /\ today' = today
        /\ spoiled \subseteq spoiled' /\ (desk[b].step = "entry" => b \in spoiled')
    BY <1>3 DEF deskCut
  <2>4. b \notin spoiled' => Deferred(NoAnswer) = Deferred(desk[b]) BY <2>2, <2>3 DEF Deferred
  <2> QED BY <2>1, <2>2, <2>3, <2>4, CallMoves
<1> QED BY <1>1, <1>2, <1>3

(* The row the req read goes back: what came in meanwhile spoils it.      *)
LEMMA TakenSaved ==
  ASSUME TillInv, NEW b \in Bookings, saveTaken(b)
  PROVE  TillInv'
<1> DEFINE r == desk[b].row
           old == IF prepaid(desk[b]) THEN [r EXCEPT !.paid = Total(r.order)] ELSE r
           new == AsRead(b, old)
           req == [desk[b] EXCEPT !.step = IF prepaid(desk[b]) THEN "entry" ELSE "pay"]
<1>1. desk[b].step = "save" /\ desk[b] \in DeskCalls /\ r \in Sales /\ b \in Sold BY TillTypes DEF saveTaken, TillInv
<1>2. Save(b, new) /\ SetDesk(b, req) /\ trail' = trail /\ gatewayHas' = gatewayHas /\ today' = today /\ spoiled \subseteq spoiled'
      /\ (b \notin spoiled' => sold[b].paid = (IF prepaid(desk[b]) THEN 0 ELSE r.paid) /\ b \notin spoiled) /\ GateFits(b)
  BY GateStays DEF saveTaken
<1>3. req \in DeskCalls /\ req.row = r /\ req.step = IF prepaid(desk[b]) THEN "entry" ELSE "pay" BY <1>1 DEF DeskCalls
<1>4. r.order \in Orders /\ Total(r.order) \in Int /\ r.paid \in Nat BY <1>1, SaleIs
<1>5. CASE prepaid(desk[b])
  <2>1. Total(r.order) \in Nat BY <1>4, <1>5 DEF prepaid
  <2>8. old \in Sales /\ old.paid = Total(r.order) BY <1>1, <1>5, <2>1, RowsWritten DEF Sales
  <2> HIDE DEF old, req
  <2>2. new \in Sales /\ new.paid = Total(r.order) BY <1>1, <2>8, SavedAsRead
  <2> HIDE DEF new
  <2>3. sold' \in [Bookings -> {NoSale} \cup Sales] /\ sold'[b] = new /\ \A c \in Bookings \ {b} : sold'[c] = sold[c] BY <1>2, <2>2, Saved
  <2>4. desk' \in [Bookings -> DeskCalls] /\ desk'[b] = req /\ \A c \in Bookings \ {b} : desk'[c] = desk[c] BY <1>2, <1>3, Called
  <2>5. Deferred(desk'[b]) = Total(r.order) BY <1>3, <1>5, <2>4 DEF Deferred
  <2>6. ASSUME b \notin spoiled' PROVE sold'[b].paid = LedgerOf(trail, b) + 0 + Deferred(desk'[b])
    <3>1. sold[b].paid = LedgerOf(trail, b) + Deferred(desk[b]) BY <1>1, <1>2, <2>6, TillTypes
    <3>2. LedgerOf(trail, b) = 0 BY <1>1, <1>2, <1>5, <2>6, <3>1, TillTypes DEF Deferred
    <3> QED BY <1>4, <2>2, <2>3, <2>5, <3>2
  <2>7. Touches(b, 0) BY <1>1, <1>2, <1>3, <2>2, <2>3, <2>4, <2>6, Unmoved, TillTypes DEF Touches
  <2> QED BY <2>7, TouchKeeps
<1>6. CASE ~ prepaid(desk[b])
  <2>1. old \in Sales /\ old.paid = r.paid BY <1>1, <1>6
  <2> HIDE DEF old, req
  <2>7. new \in Sales /\ new.paid = r.paid BY <1>1, <2>1, SavedAsRead
  <2> HIDE DEF new
  <2>2. sold' \in [Bookings -> {NoSale} \cup Sales] /\ sold'[b] = new /\ \A c \in Bookings \ {b} : sold'[c] = sold[c] BY <1>2, <2>7, Saved
  <2>3. desk' \in [Bookings -> DeskCalls] /\ desk'[b] = req /\ \A c \in Bookings \ {b} : desk'[c] = desk[c] BY <1>2, <1>3, Called
  <2>4. Deferred(desk'[b]) = 0 BY <1>3, <1>6, <2>3 DEF Deferred
  <2>5. ASSUME b \notin spoiled' PROVE sold'[b].paid = LedgerOf(trail, b) + 0 + Deferred(desk'[b])
    <3>1. sold[b].paid = LedgerOf(trail, b) + Deferred(desk[b]) BY <1>1, <1>2, <2>5, TillTypes
    <3>2. LedgerOf(trail, b) \in Int /\ Deferred(desk[b]) = 0 BY <1>1, TillTypes DEF Deferred
    <3> QED BY <1>2, <1>4, <1>6, <2>7, <2>2, <2>4, <2>5, <3>1, <3>2
  <2>6. Touches(b, 0) BY <1>1, <1>2, <1>3, <2>7, <2>2, <2>3, <2>5, Unmoved, TillTypes DEF Touches
  <2> QED BY <2>6, TouchKeeps
<1> QED BY <1>5, <1>6

LEMMA EntryComes ==
  ASSUME TillInv, NEW b \in Bookings, prepaidEntry(b)
  PROVE  TillInv'
<1> DEFINE t == Total(desk[b].row.order)
<1>1. desk[b].step = "entry" /\ desk[b].row \in Sales /\ b \in Sold BY TillTypes DEF prepaidEntry, TillInv
<1>2. t \in Int BY <1>1, SaleIs
<1>3. Enter(b, 0, t, "transfer") /\ SetDesk(b, NoAnswer) /\ sold' = sold /\ gatewayHas' = gatewayHas /\ today' = today
      /\ spoiled' = spoiled /\ GateFits(b)
  BY GateStays DEF prepaidEntry
<1>4. NoAnswer \in DeskCalls /\ NoAnswer.step = "idle" BY DEF DeskCalls, NoAnswer
<1>5. desk' \in [Bookings -> DeskCalls] /\ desk'[b] = NoAnswer /\ \A c \in Bookings \ {b} : desk'[c] = desk[c] BY <1>3, <1>4, Called
<1>6. Deferred(desk[b]) = t /\ Deferred(desk'[b]) = 0 BY <1>1, <1>4, <1>5 DEF Deferred
<1> HIDE DEF t
<1>7. /\ trail' \in Seq(Trailed(today)) /\ \A i \in DOMAIN trail' : trail'[i].of \in Sold \cup {b}
      /\ \A c \in Bookings : LedgerOf(trail', c) = LedgerOf(trail, c) + IF c = b THEN t - 0 ELSE 0
  BY <1>2, <1>3, Entered DEF Methods
<1>8. ASSUME b \notin spoiled' PROVE sold'[b].paid = LedgerOf(trail, b) + t + Deferred(desk'[b])
  <2>1. sold[b].paid = LedgerOf(trail, b) + t BY <1>1, <1>3, <1>6, <1>8, TillTypes
  <2>2. LedgerOf(trail, b) \in Int BY TillTypes
  <2> QED BY <1>2, <1>3, <1>6, <2>1, <2>2
<1>9. t - 0 = t BY <1>2
<1>10. Touches(b, t) BY <1>1, <1>3, <1>4, <1>5, <1>7, <1>8, <1>9, TillTypes DEF Touches
<1> QED BY <1>2, <1>10, TouchKeeps

(* Money moves with its entry.                                             *)
LEMMA MoneyMoves ==
  ASSUME TillInv, NEW b \in Bookings, b \in Sold, NEW left \in Nat, NEW m \in Methods \cup {"refund"},
         Save(b, [sold[b] EXCEPT !.paid = left]), Enter(b, sold[b].paid, left, m),
         desk' \in [Bookings -> DeskCalls], \A c \in Bookings \ {b} : desk'[c] = desk[c],
         desk'[b].step \in {"save", "entry", "pay"} => desk'[b].row \in Sales, Deferred(desk'[b]) = Deferred(desk[b]),
         gatewayHas' \in [Bookings -> Nat], today' = today, gate' = gate, spoiled' = spoiled
  PROVE  TillInv'
<1>1. sold[b] \in Sales /\ sold[b].paid \in Nat BY TillTypes, SaleIs
<1> DEFINE new == [sold[b] EXCEPT !.paid = left]
<1>2. new \in Sales /\ new.paid = left BY <1>1, RowsWritten DEF Sales
<1> HIDE DEF new
<1>3. sold' \in [Bookings -> {NoSale} \cup Sales] /\ sold'[b] = new /\ \A c \in Bookings \ {b} : sold'[c] = sold[c]
  BY <1>2, Saved DEF new
<1>4. /\ trail' \in Seq(Trailed(today)) /\ \A i \in DOMAIN trail' : trail'[i].of \in Sold \cup {b}
      /\ \A c \in Bookings : LedgerOf(trail', c) = LedgerOf(trail, c) + IF c = b THEN left - sold[b].paid ELSE 0
  BY <1>1, Entered
<1>5. ASSUME b \notin spoiled' PROVE sold'[b].paid = LedgerOf(trail, b) + (left - sold[b].paid) + Deferred(desk'[b])
  <2>1. sold[b].paid = LedgerOf(trail, b) + Deferred(desk[b]) BY <1>5, TillTypes
  <2>2. LedgerOf(trail, b) \in Int BY TillTypes
  <2>3. Deferred(desk[b]) \in Int
    <3>1. desk[b].step = "entry" => desk[b].row \in Sales BY TillTypes
    <3> QED BY <3>1, SaleIs DEF Deferred
  <2> QED BY <1>1, <1>2, <1>3, <2>1, <2>2, <2>3
<1>6. left - sold[b].paid \in Int BY <1>1
<1>7. GateFits(b) BY GateStays
<1>8. Touches(b, left - sold[b].paid) BY <1>2, <1>3, <1>4, <1>5, <1>7 DEF Touches
<1> QED BY <1>6, <1>8, TouchKeeps

LEMMA CashMoves ==
  ASSUME TillInv, NEW b \in Bookings, NEW amount \in Nat, NEW m \in Methods, b \in Sold, Paid(b, amount, m),
         desk' \in [Bookings -> DeskCalls], \A c \in Bookings \ {b} : desk'[c] = desk[c],
         desk'[b].step \in {"save", "entry", "pay"} => desk'[b].row \in Sales, Deferred(desk'[b]) = Deferred(desk[b]),
         gatewayHas' \in [Bookings -> Nat], today' = today, gate' = gate, spoiled' = spoiled
  PROVE  TillInv'
<1>1. sold[b] \in Sales /\ sold[b].paid \in Nat BY TillTypes, SaleIs
<1>2. sold[b].paid + amount \in Nat BY <1>1
<1>3. Save(b, [sold[b] EXCEPT !.paid = sold[b].paid + amount]) /\ Enter(b, sold[b].paid, sold[b].paid + amount, m)
  BY DEF Paid
<1> QED BY <1>2, <1>3, MoneyMoves

LEMMA PaymentMoves ==
  ASSUME TillInv, NEW b \in Bookings, NEW amount \in Nat, recordPayment(b, amount) \/ settle(b) \/ deskPays(b) \/ refund(b, amount)
  PROVE  TillInv'
<1>1. amount \in Nat OBVIOUS
<1>2. \A c \in Bookings : c \in Sold <=> sold[c].status # "none" BY SoldAre DEF TillInv
<1>3. CASE recordPayment(b, amount)
  <2>1. b \in Sold /\ Paid(b, amount, "cash") /\ desk' = desk /\ gatewayHas' = gatewayHas /\ today' = today /\ gate' = gate /\ spoiled' = spoiled
    BY <1>2, <1>3 DEF recordPayment
  <2> QED BY <1>1, <2>1, TillTypes, CashMoves DEF Methods
<1>4. CASE settle(b)
  <2> DEFINE due == Total(sold[b].order) - sold[b].paid
  <2>1. b \in Sold /\ Paid(b, due, "online") /\ gatewayHas' = [gatewayHas EXCEPT ![b] = @ + due] /\ desk' = desk /\ today' = today /\ gate' = gate
        /\ spoiled' = spoiled /\ Total(sold[b].order) > sold[b].paid
    BY <1>2, <1>4 DEF settle
  <2>2. sold[b].paid \in Nat /\ Total(sold[b].order) \in Int BY <2>1, TillTypes, SaleIs
  <2>3. due \in Nat BY <2>1, <2>2
  <2> HIDE DEF due
  <2>4. gatewayHas' \in [Bookings -> Nat] BY <2>1, <2>3, TillTypes
  <2> QED BY <2>1, <2>3, <2>4, TillTypes, CashMoves DEF Methods
<1>5. CASE deskPays(b)
  <2>1. desk[b].step = "pay" /\ b \in Sold /\ desk[b].takes \in Nat BY <1>5, TillTypes DEF deskPays, TillInv, DeskCalls
  <2>2. NoAnswer \in DeskCalls /\ NoAnswer.step = "idle" BY DEF DeskCalls, NoAnswer
  <2>3. SetDesk(b, NoAnswer) /\ today' = today /\ gate' = gate /\ gatewayHas' = gatewayHas /\ spoiled' = spoiled BY <1>5 DEF deskPays
  <2>4. Deferred(NoAnswer) = Deferred(desk[b]) BY <2>1, <2>2 DEF Deferred
  <2>5. CASE Paid(b, desk[b].takes, "card")
    <3>1. desk' \in [Bookings -> DeskCalls] /\ desk'[b] = NoAnswer /\ \A c \in Bookings \ {b} : desk'[c] = desk[c]
      BY <2>2, <2>3, Called
    <3> QED BY <2>1, <2>2, <2>3, <2>4, <2>5, <3>1, TillTypes, CashMoves DEF Methods
  <2>6. CASE sold' = sold /\ trail' = trail BY <2>1, <2>2, <2>3, <2>4, <2>6, CallMoves
  <2> QED BY <1>5, <2>5, <2>6 DEF deskPays
<1>6. CASE refund(b, amount)
  <2> DEFINE left == Max({0, sold[b].paid - amount})
  <2>1. b \in Sold /\ amount <= gatewayHas[b] /\ Save(b, [sold[b] EXCEPT !.paid = left]) /\ Enter(b, sold[b].paid, left, "refund")
        /\ gatewayHas' = [gatewayHas EXCEPT ![b] = @ - amount] /\ desk' = desk /\ today' = today /\ gate' = gate /\ spoiled' = spoiled
    BY <1>2, <1>6 DEF refund, Returned
  <2>2. sold[b].paid \in Nat BY <2>1, TillTypes, SaleIs
  <2>3. left \in Nat
    <3>1. sold[b].paid - amount \in Int BY <1>1, <2>2
    <3> QED BY <3>1, FloorIsNat
  <2> HIDE DEF left
  <2>4. gatewayHas' \in [Bookings -> Nat] BY <1>1, <2>1, TillTypes
  <2> QED BY <2>1, <2>3, <2>4, TillTypes, MoneyMoves DEF Methods
<1> QED BY <1>3, <1>4, <1>5, <1>6

LEMMA EditMoves ==
  ASSUME TillInv, NEW b \in Bookings,
         \/ \E ask \in Asked, visit \in Days : resell(b, ask.order, visit)
         \/ \E status \in Statuses : setStatus(b, status)
  PROVE  TillInv'
<1>1. ASSUME NEW r \in Sales, r.paid = sold[b].paid, b \in Sold, Save(b, r), today' = today, gate' = gate, trail' = trail, desk' = desk,
             gatewayHas' = gatewayHas, spoiled' = spoiled
      PROVE  TillInv'
  <2>1. sold' \in [Bookings -> {NoSale} \cup Sales] /\ sold'[b] = r /\ \A c \in Bookings \ {b} : sold'[c] = sold[c] BY <1>1, Saved
  <2>2. ASSUME b \notin spoiled' PROVE sold'[b].paid = LedgerOf(trail, b) + 0 + Deferred(desk'[b])
    <3>1. sold[b].paid = LedgerOf(trail, b) + Deferred(desk[b]) BY <1>1, <2>2, TillTypes
    <3>2. LedgerOf(trail, b) \in Int BY TillTypes
    <3> QED BY <1>1, <2>1, <3>1, <3>2
  <2>3. GateFits(b) BY <1>1, GateStays
  <2>4. Touches(b, 0) BY <1>1, <2>1, <2>2, <2>3, Unmoved, TillTypes DEF Touches
  <2> QED BY <2>4, TouchKeeps
<1>2. \A c \in Bookings : c \in Sold <=> sold[c].status # "none" BY SoldAre DEF TillInv
<1>3. ASSUME NEW ask \in Asked, NEW visit \in Days, resell(b, ask.order, visit) PROVE TillInv'
  <2> DEFINE r == [sold[b] EXCEPT !.order = ask.order, !.visit = visit]
  <2>1. b \in Sold /\ sold[b] \in Sales BY <1>2, <1>3, TillTypes DEF resell
  <2>2. ask.order \in Orders BY TillAssumption
  <2>3. r \in Sales BY <2>1, <2>2, RowsWritten
  <2>4. r.paid = sold[b].paid BY <2>1 DEF Sales
  <2>5. Save(b, r) /\ today' = today /\ gate' = gate /\ trail' = trail /\ desk' = desk /\ gatewayHas' = gatewayHas /\ spoiled' = spoiled
    BY <1>3 DEF resell
  <2> HIDE DEF r
  <2> QED BY <1>1, <2>1, <2>3, <2>4, <2>5
<1>4. ASSUME NEW status \in Statuses, NEW r, r = [sold[b] EXCEPT !.status = status], sold[b].status # "none", Save(b, r),
             today' = today, gate' = gate, trail' = trail, desk' = desk, gatewayHas' = gatewayHas, spoiled' = spoiled
      PROVE  TillInv'
  <2>1. b \in Sold /\ sold[b] \in Sales BY <1>2, <1>4, TillTypes
  <2>2. r \in Sales BY <1>4, <2>1, RowsWritten
  <2>3. r.paid = sold[b].paid BY <1>4, <2>1 DEF Sales
  <2> QED BY <1>1, <1>4, <2>1, <2>2, <2>3
<1>5. ASSUME NEW status \in Statuses, setStatus(b, status) PROVE TillInv'
  BY <1>4, <1>5 DEF setStatus
<1> QED BY <1>3, <1>5

(* The gate: what it reads, and the whole row it saves.                    *)
LEMMA GateMoves ==
  ASSUME TillInv, NEW b \in Bookings, gateView(b) \/ gateReads(b) \/ checkIn(b)
  PROVE  TillInv'
<1>1. \A c \in Bookings : c \in Sold <=> sold[c].status # "none" BY SoldAre DEF TillInv
<1>2. gate \in [Bookings -> GateCalls] BY DEF TillInv, TillTypeOK, GateCalls
<1>3. ASSUME NEW g \in GateCalls, SetGate(b, g), g.step # "idle" => b \in Sold, g.step = "read" => g.row \in Sales PROVE GateFits(b)
  <2>1. gate' \in [Bookings -> GateCalls] /\ gate'[b] = g /\ \A c \in Bookings \ {b} : gate'[c] = gate[c]
    BY <1>2, <1>3 DEF SetGate
  <2> QED BY <1>3, <2>1 DEF GateFits, TillInv
<1>4. ASSUME b \in Sold, GateFits(b), sold' = sold, today' = today, trail' = trail, desk' = desk, gatewayHas' = gatewayHas, spoiled' = spoiled
      PROVE  TillInv'
  <2>1. ASSUME b \notin spoiled' PROVE sold'[b].paid = LedgerOf(trail, b) + 0 + Deferred(desk'[b])
    <3>1. sold[b].paid = LedgerOf(trail, b) + Deferred(desk[b]) /\ LedgerOf(trail, b) \in Int BY <1>4, <2>1, TillTypes
    <3> QED BY <1>4, <3>1
  <2>2. Touches(b, 0) BY <1>4, <2>1, Unmoved, TillTypes DEF Touches
  <2> QED BY <2>2, TouchKeeps
<1>5. CASE gateView(b)
  <2> DEFINE g == [NoGuest EXCEPT !.step = "viewed"]
  <2>1. g \in GateCalls /\ g.step = "viewed" BY DEF GateCalls, NoGuest
  <2>2. SetGate(b, g) /\ b \in Sold /\ sold' = sold /\ today' = today /\ trail' = trail /\ desk' = desk /\ gatewayHas' = gatewayHas
        /\ spoiled' = spoiled
    BY <1>1, <1>5 DEF gateView
  <2> HIDE DEF g
  <2> QED BY <1>3, <1>4, <2>1, <2>2
<1>6. CASE gateReads(b)
  <2> DEFINE g == [step |-> "read", row |-> sold[b]]
  <2>1. SetGate(b, g) /\ b \in Sold /\ sold' = sold /\ today' = today /\ trail' = trail /\ desk' = desk /\ gatewayHas' = gatewayHas
        /\ spoiled' = spoiled
    BY <1>6 DEF gateReads, TillInv
  <2>2. sold[b] \in Sales BY <2>1, TillTypes
  <2>3. g \in GateCalls /\ g.step = "read" /\ g.row = sold[b] BY <2>2 DEF GateCalls
  <2> HIDE DEF g
  <2> QED BY <1>3, <1>4, <2>1, <2>2, <2>3
<1>7. CASE checkIn(b)
  <2> DEFINE here == [gate[b].row EXCEPT !.status = "arrived"]
             r == AsRead(b, here)
  <2>1. b \in Sold /\ gate[b].row \in Sales BY <1>7 DEF checkIn, TillInv
  <2>2. "arrived" \in Statuses BY DEF Statuses
  <2>11. here \in Sales /\ here.paid = gate[b].row.paid BY <2>1, <2>2, RowsWritten DEF Sales
  <2>5. Save(b, r) /\ SetGate(b, NoGuest) /\ today' = today /\ trail' = trail /\ desk' = desk /\ gatewayHas' = gatewayHas
        /\ spoiled \subseteq spoiled' /\ (b \notin spoiled' => sold[b].paid = gate[b].row.paid)
    BY <1>7 DEF checkIn
  <2> HIDE DEF here
  <2>3. r \in Sales /\ r.paid = gate[b].row.paid BY <2>1, <2>11, SavedAsRead
  <2>4. r.paid = gate[b].row.paid BY <2>3
  <2>6. NoGuest \in GateCalls /\ NoGuest.step = "idle" BY DEF GateCalls, NoGuest
  <2>7. GateFits(b) BY <1>3, <2>5, <2>6
  <2> HIDE DEF r
  <2>8. sold' \in [Bookings -> {NoSale} \cup Sales] /\ sold'[b] = r /\ \A c \in Bookings \ {b} : sold'[c] = sold[c]
    BY <2>3, <2>5, Saved
  <2>9. ASSUME b \notin spoiled' PROVE sold'[b].paid = LedgerOf(trail, b) + 0 + Deferred(desk'[b])
    <3>1. sold[b].paid = LedgerOf(trail, b) + Deferred(desk[b]) /\ LedgerOf(trail, b) \in Int BY <2>1, <2>5, <2>9, TillTypes
    <3>2. sold'[b].paid = sold[b].paid /\ desk' = desk BY <2>4, <2>5, <2>8, <2>9
    <3> QED BY <3>1, <3>2
  <2>10. Touches(b, 0) BY <2>1, <2>3, <2>5, <2>7, <2>8, <2>9, Unmoved, TillTypes DEF Touches
  <2> QED BY <2>10, TouchKeeps
<1> QED BY <1>5, <1>6, <1>7

LEMMA DayPasses == ASSUME TillInv, Tomorrow PROVE TillInv'
<1>1. today \in Nat /\ today' = today + 1 /\ today' \in Days BY TillAssumption DEF Tomorrow, TillInv, TillTypeOK, Days
<1>2. trail \in Seq(Trailed(today)) BY TillTypes
<1>3. \A e \in Trailed(today) : e \in Trailed(today') BY <1>1 DEF Trailed
<1>4. trail' = trail /\ trail' \in Seq(Trailed(today')) BY <1>2, <1>3 DEF Tomorrow
<1>5. sold' = sold /\ desk' = desk /\ gate' = gate /\ gatewayHas' = gatewayHas /\ spoiled' = spoiled BY DEF Tomorrow
<1>6. TillTypeOK' BY <1>1, <1>4, <1>5, TillTypes DEF TillInv, TillTypeOK, DeskCalls, Trailed
<1>7. Sold' = Sold BY <1>5 DEF Sold
<1> QED BY <1>4, <1>5, <1>6, <1>7 DEF TillInv

LEMMA TillStutters == ASSUME TillInv, UNCHANGED tillVars PROVE TillInv'
<1>1. today' = today /\ sold' = sold /\ trail' = trail /\ desk' = desk /\ gate' = gate /\ gatewayHas' = gatewayHas /\ spoiled' = spoiled
  BY DEF tillVars
<1>2. TillTypeOK' BY <1>1 DEF TillTypeOK, TillInv
<1>3. Sold' = Sold BY <1>1 DEF Sold
<1> QED BY <1>1, <1>2, <1>3 DEF TillInv

LEMMA TillStep == TillInv /\ [TillNext]_tillVars => TillInv'
<1> SUFFICES ASSUME TillInv, TillNext PROVE TillInv' BY TillStutters
<1>1. ASSUME NEW b \in Bookings, NEW visit \in Days, NEW ask \in Asked,
             \/ sell(b, ask, visit) /\ UNCHANGED desk
             \/ \E pays \in {0} \cup Amounts : createForGuest(b, ask, visit, pays)
             \/ resell(b, ask.order, visit)
      PROVE  TillInv'
  <2>1. {0} \cup Amounts \subseteq Nat BY TillAssumption
  <2> QED BY <1>1, <2>1, NewSale, DeskSale, EditMoves
<1>2. ASSUME NEW b \in Bookings,
             \/ \E pays \in {0} \cup Amounts : deskAgain(b, pays)
             \/ readCreated(b) \/ saveTaken(b) \/ prepaidEntry(b) \/ deskPays(b) \/ deskCut(b) \/ settle(b)
             \/ gateView(b) \/ gateReads(b) \/ checkIn(b)
             \/ \E status \in Statuses : setStatus(b, status)
             \/ \E amount \in Amounts : recordPayment(b, amount) \/ refund(b, amount)
      PROVE  TillInv'
  <2>1. CASE gateView(b) \/ gateReads(b) \/ checkIn(b) BY <2>1, GateMoves
  <2>2. CASE deskPays(b) \/ settle(b)
    <3>1. 0 \in Nat OBVIOUS
    <3> QED BY <2>2, <3>1, PaymentMoves
  <2>3. CASE \E amount \in Amounts : recordPayment(b, amount) \/ refund(b, amount)
    <3>1. Amounts \subseteq Nat BY TillAssumption
    <3> QED BY <2>3, <3>1, PaymentMoves
  <2> QED BY <1>2, <2>1, <2>2, <2>3, DeskMoves, TakenSaved, EntryComes, EditMoves
<1> QED BY <1>1, <1>2, DayPasses DEF TillNext

LEMMA TillInitially == TillInit => TillInv
<1> SUFFICES ASSUME TillInit PROVE TillInv OBVIOUS
<1>1. today \in Days /\ LastDay \in Days /\ 0 \in Days BY TillAssumption DEF TillInit, Days
<1>2. gatewayHas \in [Bookings -> Nat] BY DEF TillInit
<1>3. trail = <<>> /\ trail \in Seq(Trailed(today)) /\ DOMAIN trail = {} BY DEF TillInit
<1>4. NoAnswer \in DeskCalls /\ NoAnswer.step = "idle" BY DEF DeskCalls, NoAnswer
<1>5. desk = [b \in Bookings |-> NoAnswer] BY DEF TillInit
<1>6. desk \in [Bookings -> DeskCalls] /\ \A b \in Bookings : desk[b].step = "idle" BY <1>4, <1>5
<1>7. \A ask \in Asked : NewRow(ask, LastDay) \in Sales /\ NewRow(ask, LastDay).paid = 0
  <2> SUFFICES ASSUME NEW ask \in Asked PROVE NewRow(ask, LastDay) \in Sales /\ NewRow(ask, LastDay).paid = 0 OBVIOUS
  <2>1. ask \in [order : Orders, slot : {"morning", "afternoon"}, mode : {"online", "gate"},
                 nationality : Nationalities, guests : Nat]
    BY TillAssumption
  <2>2. ask.order \in Orders /\ ask.slot \in {"morning", "afternoon"} /\ ask.mode \in {"online", "gate"}
        /\ ask.nationality \in Nationalities /\ ask.guests \in Nat
    BY <2>1
  <2>3. "confirmed" \in Statuses BY DEF Statuses
  <2> QED BY <1>1, <2>2, <2>3 DEF NewRow, Sales
<1>8. sold \in [Bookings -> {NoSale} \cup {NewRow(ask, LastDay) : ask \in Asked}] BY DEF TillInit
<1>9. sold \in [Bookings -> {NoSale} \cup Sales] /\ \A b \in Bookings : sold[b] = NoSale \/ sold[b].paid = 0
  BY <1>7, <1>8
<1>14. gate \in [Bookings -> GateCalls] /\ \A b \in Bookings : gate[b].step = "idle"
  <2>1. NoGuest \in GateCalls /\ NoGuest.step = "idle" BY DEF GateCalls, NoGuest
  <2>2. gate = [b \in Bookings |-> NoGuest] BY DEF TillInit
  <2> QED BY <2>1, <2>2
<1>10. TillTypeOK BY <1>1, <1>2, <1>3, <1>6, <1>9, <1>14 DEF TillTypeOK, DeskCalls, Trailed, GateCalls
<1>11. \A b \in Bookings : LedgerOf(trail, b) = 0
  <2>1. \A b \in Bookings : EntriesOf(trail, b) = {} BY <1>3 DEF EntriesOf
  <2> QED BY <2>1, SumEmpty DEF LedgerOf
<1>12. \A b \in Sold : b \in Bookings /\ sold[b].paid = 0 BY <1>9 DEF Sold
<1>13. \A b \in Bookings : Deferred(desk[b]) = 0 BY <1>6 DEF Deferred
<1> QED BY <1>3, <1>6, <1>10, <1>11, <1>12, <1>13, <1>14 DEF TillInv

(***************************************************************************)
(* What the reports say of such rows.                                      *)
(***************************************************************************)

(* Elements that count for nothing may be left out.                        *)
LEMMA SumOnly ==
  ASSUME NEW S, IsFiniteSet(S), NEW R \in SUBSET S, NEW f, \A x \in S : f[x] \in Int, \A x \in S \ R : f[x] = 0
  PROVE  SumOf(R, f) = SumOf(S, f)
<1> DEFINE Bad == {s \in SUBSET S : R \subseteq s /\ SumOf(R, f) # SumOf(s, f)}
<1> SUFFICES ASSUME S \in Bad PROVE FALSE OBVIOUS
<1>1. PICK s \in Bad : \A t \in SUBSET s : t # s => t \notin Bad
  <2>1. Bad \in SUBSET SUBSET S /\ Bad # {} OBVIOUS
  <2> HIDE DEF Bad
  <2> QED BY <2>1, SmallestSet
<1>2. PICK x \in s : x \notin R BY <1>1
<1>3. s \ {x} \in SUBSET s /\ s \ {x} # s /\ R \subseteq s \ {x} BY <1>1, <1>2
<1>4. SumOf(R, f) = SumOf(s \ {x}, f) BY <1>1, <1>3
<1>5. IsFiniteSet(s) /\ IsFiniteSet(s \ {x}) /\ \A y \in s : f[y] \in Int BY FS_Subset
<1>6. SumOf(s, f) = f[x] + SumOf(s \ {x}, f) BY <1>5, SumTake
<1>7. SumOf(s \ {x}, f) \in Int BY <1>5, SumInt
<1>8. f[x] = 0 BY <1>1, <1>2
<1>9. SumOf(R, f) # SumOf(s, f) BY <1>1
<1> QED BY <1>4, <1>6, <1>7, <1>8, <1>9

LEMMA SumSingle == ASSUME NEW x, NEW f, f[x] \in Int PROVE SumOf({x}, f) = f[x]
<1>1. IsFiniteSet({}) /\ \A y \in {} \cup {x} : f[y] \in Int BY FS_EmptySet
<1>2. SumOf({} \cup {x}, f) = SumOf({}, f) + f[x] BY <1>1, SumAdd
<1>3. {} \cup {x} = {x} OBVIOUS
<1> QED BY <1>2, <1>3, SumEmpty

(* Summed by another name of its elements.                                 *)
LEMMA SumRenamed ==
  ASSUME NEW S, IsFiniteSet(S), NEW f, \A x \in S : f[x] \in Int, NEW name, \A x, y \in S : name[x] = name[y] => x = y,
         NEW g, \A x \in S : g[name[x]] = f[x]
  PROVE  SumOf({name[x] : x \in S}, g) = SumOf(S, f) /\ IsFiniteSet({name[x] : x \in S})
<1> DEFINE K == {name[x] : x \in S}
           groups == [k \in K |-> SumOf({x \in S : name[x] = k}, f)]
<1>1. IsFiniteSet(K) BY ImageFinite
<1>2. \A x \in S : name[x] \in K OBVIOUS
<1>3. SumOf(K, groups) = SumOf(S, f)
  <2> HIDE DEF K
  <2> QED BY <1>1, <1>2, SumGroups
<1>4. ASSUME NEW k \in K PROVE groups[k] = g[k] /\ groups[k] \in Int
  <2>1. PICK x \in S : k = name[x] OBVIOUS
  <2>2. {y \in S : name[y] = k} = {x} BY <2>1
  <2>3. groups[k] = SumOf({x}, f) BY <2>2
  <2> QED BY <2>1, <2>3, SumSingle
<1> HIDE DEF groups, K
<1>5. SumOf(K, groups) = SumOf(K, g) BY <1>1, <1>4, SumSame, SMTT(30)
<1> QED BY <1>1, <1>3, <1>5 DEF K

DayEntries(d, S) == {i \in DOMAIN trail : trail[i].day = d /\ trail[i].of \in S}

(* A day's columns add up to what that day's entries of some bookings moved.*)
LEMMA DayCollected ==
  ASSUME TillInv, NEW d, NEW S
  PROVE  SumOf(Methods, collected(d, S)) = SumOf(DayEntries(d, S), Moved(trail))
<1> DEFINE I == DayEntries(d, S)
           J == {n \in I : trail[n].to # trail[n].from}
           column(m) == IF m = "refund" THEN "online" ELSE IF m \in Methods THEN m ELSE "other"
           entry == [i \in J |-> [i |-> i, method |-> column(trail[i].method), amount |-> trail[i].to - trail[i].from]]
           E == {entry[i] : i \in J}
           amount == [e \in E |-> e.amount]
           method == [e \in E |-> e.method]
           columns == [m \in Methods |-> SumOf({e \in E : method[e] = m}, amount)]
<1>1. trail \in Seq(Trailed(today)) /\ \A i \in DOMAIN trail : trail[i] \in Trailed(today) BY TillTypes
<1>2. IsFiniteSet(DOMAIN trail) /\ \A i \in DOMAIN trail : Moved(trail)[i] \in Int /\ Moved(trail)[i] = trail[i].to - trail[i].from
  BY <1>1, EntriesFinite DEF Moved
<1>3. I \in SUBSET DOMAIN trail /\ J \in SUBSET I BY DEF DayEntries
<1>4. IsFiniteSet(I) /\ IsFiniteSet(J) BY <1>2, <1>3, FS_Subset
<1>5. collected(d, S) = columns
  <2>1. paymentLedger(DayEntries(d, S)) = E BY DEF paymentLedger
  <2>2. collectedByMethod(E) = columns
    <3>1. \A m \in Methods : {e \in E : method[e] = m} = {e \in E : e.method = m} OBVIOUS
    <3> HIDE DEF E
    <3> QED BY <3>1 DEF collectedByMethod
  <2> HIDE DEF E, columns
  <2> QED BY <2>1, <2>2 DEF collected, DayEntries
<1>6. SumOf(E, amount) = SumOf(J, Moved(trail)) /\ IsFiniteSet(E)
  <2>1. \A i \in J : Moved(trail)[i] \in Int BY <1>2, <1>3
  <2>2. \A i, j \in J : entry[i] = entry[j] => i = j
    <3>1. \A i \in J : entry[i].i = i OBVIOUS
    <3> HIDE DEF entry, J
    <3> QED BY <3>1
  <2>3. \A i \in J : amount[entry[i]] = Moved(trail)[i]
    <3>1. \A i \in J : entry[i] \in E /\ entry[i].amount = trail[i].to - trail[i].from OBVIOUS
    <3>2. \A e \in E : amount[e] = e.amount OBVIOUS
    <3> HIDE DEF entry, J, E, amount
    <3> QED BY <1>2, <1>3, <3>1, <3>2
  <2> HIDE DEF entry, amount, J
  <2> QED BY <1>4, <2>1, <2>2, <2>3, SumRenamed
<1>7. \A e \in E : amount[e] \in Int /\ method[e] \in Methods
  <2> SUFFICES ASSUME NEW e \in E PROVE amount[e] \in Int /\ method[e] \in Methods OBVIOUS
  <2>1. PICK i \in J : e = entry[i] OBVIOUS
  <2>2. e.amount = trail[i].to - trail[i].from /\ e.method = column(trail[i].method) BY <2>1
  <2>3. trail[i].to \in Int /\ trail[i].from \in Int BY <1>1, <1>3 DEF Trailed
  <2>4. column(trail[i].method) \in Methods BY DEF Methods
  <2>5. amount[e] = e.amount /\ method[e] = e.method OBVIOUS
  <2> HIDE DEF E, J, entry, column, amount, method
  <2> QED BY <2>2, <2>3, <2>4, <2>5
<1>8. IsFiniteSet(Methods)
  <2>1. Methods = ((((({} \cup {"cash"}) \cup {"card"}) \cup {"juice"}) \cup {"transfer"}) \cup {"online"}) \cup {"other"}
    BY DEF Methods
  <2>2. IsFiniteSet(((((({} \cup {"cash"}) \cup {"card"}) \cup {"juice"}) \cup {"transfer"}) \cup {"online"}) \cup {"other"})
    BY FS_EmptySet, FS_AddElement, ZenonT(60)
  <2> QED BY <2>1, <2>2
<1>9. SumOf(Methods, columns) = SumOf(E, amount)
  <2> HIDE DEF E, amount, method
  <2> QED BY <1>6, <1>7, <1>8, SumGroups
<1>10. SumOf(J, Moved(trail)) = SumOf(I, Moved(trail))
  <2>1. \A i \in I : Moved(trail)[i] \in Int BY <1>2, <1>3
  <2>2. \A i \in I \ J : Moved(trail)[i] = 0
    <3>1. \A i \in I \ J : trail[i].to = trail[i].from OBVIOUS
    <3>2. \A i \in I : trail[i].to \in Int /\ trail[i].from \in Int BY <1>1, <1>3 DEF Trailed
    <3> HIDE DEF I, J
    <3> QED BY <1>2, <1>3, <3>1, <3>2
  <2> HIDE DEF I, J
  <2> QED BY <1>3, <1>4, <2>1, <2>2, SumOnly
<1> QED BY <1>5, <1>6, <1>9, <1>10

LEMMA TillTells == TillInv => LedgerTellsPaid
<1> SUFFICES ASSUME TillInv, NEW S \in SUBSET {b \in Sold \ spoiled : desk[b].step # "entry"}
             PROVE  SumOf(Days, [d \in Days |-> SumOf(Methods, collected(d, S))]) = SumOf(S, [b \in S |-> sold[b].paid])
  BY DEF LedgerTellsPaid
<1> DEFINE I == {i \in DOMAIN trail : trail[i].of \in S}
           f == Moved(trail)
           day == [i \in I |-> trail[i].day]
           whose == [i \in I |-> trail[i].of]
           byDay == [d \in Days |-> SumOf({i \in I : day[i] = d}, f)]
           byBooking == [b \in S |-> SumOf({i \in I : whose[i] = b}, f)]
           paid == [b \in S |-> sold[b].paid]
<1>1. trail \in Seq(Trailed(today)) /\ \A i \in DOMAIN trail : trail[i] \in Trailed(today) BY TillTypes
<1>2. IsFiniteSet(I) /\ \A i \in I : f[i] \in Int
  <2>1. IsFiniteSet(DOMAIN trail) /\ \A i \in DOMAIN trail : f[i] \in Int BY <1>1, EntriesFinite
  <2>2. I \in SUBSET DOMAIN trail OBVIOUS
  <2> HIDE DEF I, f
  <2> QED BY <2>1, <2>2, FS_Subset
<1>3. IsFiniteSet(Days) BY TillAssumption, FS_Interval DEF Days
<1>4. \A i \in I : day[i] \in Days BY <1>1, TillAssumption DEF Trailed, Days, TillInv, TillTypeOK
<1>5. SumOf(Days, byDay) = SumOf(I, f)
  <2> HIDE DEF I, f, day
  <2> QED BY <1>2, <1>3, <1>4, SumGroups
<1>6. IsFiniteSet(S) /\ S \in SUBSET Sold /\ Sold \in SUBSET Bookings BY SoldAre, FS_Subset DEF TillInv
<1>7. \A i \in I : whose[i] \in S OBVIOUS
<1>8. SumOf(S, byBooking) = SumOf(I, f)
  <2> HIDE DEF I, f, whose
  <2> QED BY <1>2, <1>6, <1>7, SumGroups
<1>9. \A b \in S : byBooking[b] = paid[b] /\ byBooking[b] \in Int
  <2> SUFFICES ASSUME NEW b \in S PROVE byBooking[b] = paid[b] /\ byBooking[b] \in Int OBVIOUS
  <2>1. {i \in I : whose[i] = b} = EntriesOf(trail, b) BY DEF EntriesOf
  <2>2. byBooking[b] = LedgerOf(trail, b) BY <2>1 DEF LedgerOf
  <2>3. Deferred(desk[b]) = 0 BY DEF Deferred
  <2>4. b \in Bookings /\ b \in Sold /\ b \notin spoiled BY <1>6
  <2>5. sold[b].paid = LedgerOf(trail, b) + 0 BY <2>3, <2>4, TillTypes
  <2>6. LedgerOf(trail, b) \in Int BY <2>4, TillTypes
  <2>7. paid[b] = sold[b].paid OBVIOUS
  <2> QED BY <2>2, <2>5, <2>6, <2>7
<1>10. SumOf(S, byBooking) = SumOf(S, paid)
  <2> HIDE DEF byBooking, paid
  <2> QED BY <1>6, <1>9, SumSame
<1>11. [d \in Days |-> SumOf(Methods, collected(d, S))] = byDay
  <2>1. ASSUME NEW d \in Days PROVE SumOf(Methods, collected(d, S)) = SumOf({i \in I : day[i] = d}, f)
    <3>1. DayEntries(d, S) = {i \in I : day[i] = d} BY DEF DayEntries
    <3> QED BY <3>1, DayCollected
  <2> QED BY <2>1
<1> HIDE DEF byDay, byBooking, paid
<1>12. SumOf(Days, byDay) = SumOf(S, paid) BY <1>5, <1>8, <1>10
<1> QED BY <1>11, <1>12 DEF paid
-----------------------------------------------------------------------------
LEMMA SumSplit ==
  ASSUME NEW S, IsFiniteSet(S), NEW A \in SUBSET S, NEW f, \A x \in S : f[x] \in Int
  PROVE  SumOf(S, f) = SumOf(A, f) + SumOf(S \ A, f)
<1> DEFINE mine == [x \in S |-> IF x \in A THEN f[x] ELSE 0]
           other == [x \in S |-> IF x \in A THEN 0 ELSE f[x]]
           both == [x \in S |-> mine[x] + other[x]]
<1>1. \A x \in S : mine[x] \in Int /\ other[x] \in Int OBVIOUS
<1>2. \A x \in S : f[x] \in Int /\ f[x] = both[x] OBVIOUS
<1>3. \A x \in A : mine[x] = f[x] OBVIOUS
<1>4. \A x \in S \ A : mine[x] = 0 /\ other[x] = f[x] OBVIOUS
<1>5. \A x \in A : other[x] = 0 OBVIOUS
<1>6. SumOf(S, both) = SumOf(S, mine) + SumOf(S, other)
  <2> HIDE DEF mine, other
  <2> QED BY <1>1, SumPlus
<1> HIDE DEF mine, other, both
<1>7. SumOf(S, f) = SumOf(S, both) BY <1>2, SumSame
<1>8. IsFiniteSet(A) /\ IsFiniteSet(S \ A) BY FS_Subset
<1>9. SumOf(A, mine) = SumOf(S, mine) BY <1>1, <1>4, SumOnly
<1>10. SumOf(S \ A, other) = SumOf(S, other)
  <2>1. S \ A \in SUBSET S /\ \A x \in S \ (S \ A) : other[x] = 0 BY <1>5
  <2> QED BY <1>1, <2>1, SumOnly
<1>11. SumOf(A, f) = SumOf(A, mine) BY <1>2, <1>3, <1>8, SumSame
<1>12. SumOf(S \ A, f) = SumOf(S \ A, other) BY <1>2, <1>4, <1>8, SumSame
<1> QED BY <1>6, <1>7, <1>9, <1>10, <1>11, <1>12

Charge == [b \in Sold |-> Total(sold[b].order)]
Heads == [b \in Sold |-> sold[b].guests]

LEMMA FiguresAre ==
  ASSUME TillTypeOK, NEW S \in SUBSET Sold
  PROVE  /\ IsFiniteSet(S) /\ Revenue(S) = SumOf(S, Charge) /\ Guests(S) = SumOf(S, Heads)
         /\ Revenue(S) \in Int /\ Guests(S) \in Nat /\ Cardinality(S) \in Nat
         /\ \A b \in S : Charge[b] \in Int /\ Heads[b] \in Int /\ Heads[b] \in Nat
<1> DEFINE r == [b \in S |-> Total(sold[b].order)]
           g == [b \in S |-> sold[b].guests]
<1>1. IsFiniteSet(S) BY SoldAre, FS_Subset
<1>2. \A b \in S : Charge[b] = r[b] /\ Heads[b] = g[b] BY DEF Charge, Heads
<1>3. \A b \in S : Charge[b] \in Int /\ Heads[b] \in Int /\ Heads[b] \in Nat
  <2>1. \A b \in S : sold[b] \in Sales BY SoldAre
  <2>2. \A b \in S : Total(sold[b].order) \in Int /\ sold[b].guests \in Nat BY <2>1, SaleIs
  <2> QED BY <2>2 DEF Charge, Heads
<1>4. SumOf(S, Charge) = SumOf(S, r)
  <2> HIDE DEF r
  <2> QED BY <1>1, <1>2, <1>3, SumSame
<1>5. SumOf(S, Heads) = SumOf(S, g)
  <2> HIDE DEF g
  <2> QED BY <1>1, <1>2, <1>3, SumSame
<1>6. SumOf(S, Charge) \in Int BY <1>1, <1>3, SumInt
<1>7. SumOf(S, Heads) \in Nat BY <1>1, <1>3, SumNat
<1>8. Revenue(S) = SumOf(S, Charge) /\ Guests(S) = SumOf(S, Heads) BY <1>4, <1>5 DEF Revenue, Guests
<1> QED BY <1>1, <1>3, <1>6, <1>7, <1>8, FS_CardinalityType

(* Sales put in groups are all of them.                                    *)
LEMMA RevenueGrouped ==
  ASSUME TillTypeOK, NEW S \in SUBSET Sold, NEW K, IsFiniteSet(K), NEW key, \A b \in S : key[b] \in K
  PROVE  SumOf(K, [k \in K |-> Revenue({b \in S : key[b] = k})]) = Revenue(S)
<1>1. \A k \in K : {b \in S : key[b] = k} \in SUBSET Sold OBVIOUS
<1>2. [k \in K |-> Revenue({b \in S : key[b] = k})] = [k \in K |-> SumOf({b \in S : key[b] = k}, Charge)]
  BY <1>1, FiguresAre
<1>3. IsFiniteSet(S) /\ (\A b \in S : Charge[b] \in Int) /\ Revenue(S) = SumOf(S, Charge) BY FiguresAre
<1>4. SumOf(K, [k \in K |-> SumOf({b \in S : key[b] = k}, Charge)]) = SumOf(S, Charge) BY <1>3, SumGroups
<1> QED BY <1>2, <1>3, <1>4

LEMMA GuestsGrouped ==
  ASSUME TillTypeOK, NEW S \in SUBSET Sold, NEW K, IsFiniteSet(K), NEW key, \A b \in S : key[b] \in K
  PROVE  SumOf(K, [k \in K |-> Guests({b \in S : key[b] = k})]) = Guests(S)
<1>1. \A k \in K : {b \in S : key[b] = k} \in SUBSET Sold OBVIOUS
<1>2. [k \in K |-> Guests({b \in S : key[b] = k})] = [k \in K |-> SumOf({b \in S : key[b] = k}, Heads)]
  BY <1>1, FiguresAre
<1>3. IsFiniteSet(S) /\ (\A b \in S : Heads[b] \in Int) /\ Guests(S) = SumOf(S, Heads) BY FiguresAre
<1>4. SumOf(K, [k \in K |-> SumOf({b \in S : key[b] = k}, Heads)]) = SumOf(S, Heads) BY <1>3, SumGroups
<1> QED BY <1>2, <1>3, <1>4

LEMMA FiguresHave == ASSUME NEW S PROVE Figures(S).revenue = Revenue(S) /\ Figures(S).guests = Guests(S) /\ Figures(S).bookings = Cardinality(S)
BY Zenon DEF Figures

LEMMA InTwo ==
  ASSUME TillTypeOK, NEW S \in SUBSET Sold, NEW A \in SUBSET S
  PROVE  /\ Revenue(S) = Revenue(A) + Revenue(S \ A) /\ Guests(S) = Guests(A) + Guests(S \ A)
         /\ Cardinality(S) = Cardinality(A) + Cardinality(S \ A)
<1>1. A \in SUBSET Sold /\ S \ A \in SUBSET Sold OBVIOUS
<1>2. IsFiniteSet(S) /\ (\A b \in S : Charge[b] \in Int) /\ (\A b \in S : Heads[b] \in Int) BY FiguresAre
<1>3. SumOf(S, Charge) = SumOf(A, Charge) + SumOf(S \ A, Charge) BY <1>2, SumSplit
<1>4. SumOf(S, Heads) = SumOf(A, Heads) + SumOf(S \ A, Heads) BY <1>2, SumSplit
<1>5. Revenue(S) = SumOf(S, Charge) /\ Revenue(A) = SumOf(A, Charge) /\ Revenue(S \ A) = SumOf(S \ A, Charge) BY <1>1, FiguresAre
<1>6. Guests(S) = SumOf(S, Heads) /\ Guests(A) = SumOf(A, Heads) /\ Guests(S \ A) = SumOf(S \ A, Heads) BY <1>1, FiguresAre
<1>7. IsFiniteSet(A) /\ IsFiniteSet(S \ A) /\ Cardinality(A) \in Nat /\ Cardinality(S \ A) \in Nat BY <1>1, FiguresAre
<1>8. A \cup (S \ A) = S /\ A \cap (S \ A) = {} OBVIOUS
<1>9. Cardinality(A \cup (S \ A)) = Cardinality(A) + Cardinality(S \ A) - Cardinality(A \cap (S \ A)) BY <1>7, FS_Union
<1>10. Cardinality(S) = Cardinality(A) + Cardinality(S \ A)
  <2>1. Cardinality({}) = 0 BY FS_EmptySet
  <2>2. Cardinality(A \cap (S \ A)) = 0 BY <1>8, <2>1
  <2>3. Cardinality(A \cup (S \ A)) = Cardinality(S) BY <1>8
  <2> QED BY <1>7, <1>9, <2>2, <2>3
<1> QED BY <1>3, <1>4, <1>5, <1>6, <1>10

Booked == LiveSale(0, LastDay)

LEMMA BookedIs ==
  ASSUME TillTypeOK
  PROVE  /\ Booked \in SUBSET Sold /\ Booked = {b \in Sold : sold[b].status # "cancelled"} /\ \A b \in Sold : sold[b] \in Sales
         /\ \A d \in Days : LiveSale(d, d) = {b \in Booked : sold[b].visit = d} /\ LiveSale(d, d) \in SUBSET Sold
         /\ Between(0, LastDay) = Sold
<1>1. \A b \in Sold : sold[b] \in Sales BY SoldAre
<1>2. \A b \in Sold : sold[b].visit \in Days BY <1>1, SaleIs
<1>3. \A b \in Sold : sold[b].visit \in Int /\ 0 <= sold[b].visit /\ sold[b].visit <= LastDay BY <1>2, TillAssumption DEF Days
<1>4. Between(0, LastDay) = Sold BY <1>3 DEF Between
<1>5. Booked = {b \in Sold : sold[b].status # "cancelled"} BY <1>4 DEF Booked, LiveSale
<1>6. ASSUME NEW d \in Days PROVE LiveSale(d, d) = {b \in Booked : sold[b].visit = d}
  <2>1. d \in Int BY TillAssumption DEF Days
  <2>2. \A b \in Sold : (d <= sold[b].visit /\ sold[b].visit <= d) <=> sold[b].visit = d BY <1>3, <2>1
  <2>3. Between(d, d) = {b \in Sold : sold[b].visit = d} BY <2>2 DEF Between
  <2> QED BY <1>5, <2>3 DEF LiveSale
<1>7. Booked \in SUBSET Sold BY <1>5
<1>8. \A d \in Days : LiveSale(d, d) \in SUBSET Sold BY <1>6, <1>7
<1> QED BY <1>1, <1>4, <1>5, <1>6, <1>7, <1>8

(* The kinds of charges add up, less the discounts.                        *)
LEMMA KindsAddUp ==
  ASSUME TillTypeOK, NEW all, all = totals(0, LastDay)
  PROVE  /\ all.sales.revenue = Revenue(Booked) /\ all.sales.guests = Guests(Booked)
         /\ all.sales.revenue = all.entry + all.experiences + all.products + all.other - all.discounts
<1> DEFINE entry == [b \in Booked |-> sold[b].order["entry"]]
           products == [b \in Booked |-> sold[b].order["products"]]
           pass == [b \in Booked |-> sold[b].order["pass"]]
           offer == [b \in Booked |-> sold[b].order["offer"]]
           lines == [b \in Booked |-> LineSum(sold[b].order)]
           sub == [b \in Booked |-> sold[b].order["subtotal"]]
           less == [b \in Booked |-> sub[b] - pass[b]]
           net == [b \in Booked |-> less[b] - offer[b]]
           total == [b \in Booked |-> Total(sold[b].order)]
<1>1. all.sales = Figures(Booked) /\ all.entry = SumOf(Booked, entry) /\ all.experiences = SumOf(Booked, lines)
      /\ all.products = SumOf(Booked, products)
      /\ all.other = SumOf(Booked, sub) - SumOf(Booked, entry) - SumOf(Booked, lines) - SumOf(Booked, products)
      /\ all.discounts = SumOf(Booked, pass) + SumOf(Booked, offer)
  BY Zenon DEF totals, Booked
<1>2. all.sales.revenue = Revenue(Booked) /\ all.sales.guests = Guests(Booked) BY <1>1 DEF Figures
<1>3. IsFiniteSet(Booked) /\ Booked \in SUBSET Sold BY BookedIs, FiguresAre
<1>4. \A b \in Booked :
        /\ entry[b] \in Int /\ products[b] \in Int /\ pass[b] \in Int /\ offer[b] \in Int /\ lines[b] \in Int /\ sub[b] \in Int
        /\ less[b] = sub[b] - pass[b] /\ net[b] = less[b] - offer[b] /\ total[b] = sub[b] - pass[b] - offer[b]
  <2> SUFFICES ASSUME NEW b \in Booked
        PROVE
        /\ entry[b] \in Int /\ products[b] \in Int /\ pass[b] \in Int /\ offer[b] \in Int /\ lines[b] \in Int /\ sub[b] \in Int
        /\ less[b] = sub[b] - pass[b] /\ net[b] = less[b] - offer[b] /\ total[b] = sub[b] - pass[b] - offer[b]
    OBVIOUS
  <2> DEFINE o == sold[b].order
  <2>1. o \in Orders BY BookedIs, SaleIs
  <2> HIDE DEF o
  <2>2. LineSum(o) \in Nat /\ o.subtotal \in Nat /\ Total(o) = o.subtotal - o.pass - o.offer BY <2>1, TotalIs
  <2>3. o.entry \in Nat /\ o.products \in Nat /\ o.pass \in Nat /\ o.offer \in Nat BY <2>1 DEF Orders
  <2> QED BY <2>2, <2>3 DEF o
<1>5. Revenue(Booked) = SumOf(Booked, total) BY DEF Revenue
<1> HIDE DEF entry, products, pass, offer, lines, sub
<1>6. SumOf(Booked, entry) \in Int /\ SumOf(Booked, products) \in Int /\ SumOf(Booked, lines) \in Int
  <2>1. SumOf(Booked, entry) \in Int BY <1>3, <1>4, SumInt
  <2>2. SumOf(Booked, products) \in Int BY <1>3, <1>4, SumInt
  <2>3. SumOf(Booked, lines) \in Int BY <1>3, <1>4, SumInt
  <2> QED BY <2>1, <2>2, <2>3
<1>7. SumOf(Booked, sub) \in Int /\ SumOf(Booked, pass) \in Int /\ SumOf(Booked, offer) \in Int
  <2>1. SumOf(Booked, sub) \in Int BY <1>3, <1>4, SumInt
  <2>2. SumOf(Booked, pass) \in Int BY <1>3, <1>4, SumInt
  <2>3. SumOf(Booked, offer) \in Int BY <1>3, <1>4, SumInt
  <2> QED BY <2>1, <2>2, <2>3
<1>8. SumOf(Booked, less) = SumOf(Booked, sub) - SumOf(Booked, pass) BY <1>3, <1>4, SumMinus
<1>9. SumOf(Booked, net) = SumOf(Booked, less) - SumOf(Booked, offer)
  <2>1. \A b \in Booked : less[b] \in Int BY <1>4
  <2> HIDE DEF less
  <2> QED BY <1>3, <1>4, <2>1, SumMinus
<1>10. SumOf(Booked, net) = SumOf(Booked, total)
  <2>1. \A b \in Booked : net[b] \in Int /\ net[b] = total[b] BY <1>4
  <2> HIDE DEF net, total
  <2> QED BY <1>3, <2>1, SumSame
<1> HIDE DEF net, total, less
<1>11. Revenue(Booked) = SumOf(Booked, sub) - SumOf(Booked, pass) - SumOf(Booked, offer) BY <1>5, <1>8, <1>9, <1>10
<1>12. \A e, x, p, s, d1, d2 \in Int : s - d1 - d2 = e + x + p + (s - e - x - p) - (d1 + d2) OBVIOUS
<1> QED BY <1>1, <1>2, <1>6, <1>7, <1>11, <1>12

LEMMA DaysAddUp ==
  ASSUME TillTypeOK
  PROVE  LET days == daily(0, LastDay) IN
         /\ Revenue(Booked) = SumOf(Days, [d \in Days |-> days[d].revenue])
         /\ \A d \in Days : days[d] = Figures(LiveSale(d, d))
<1> DEFINE visit == [b \in Booked |-> sold[b].visit]
<1>1. IsFiniteSet(Days) BY TillAssumption, FS_Interval DEF Days
<1>2. \A b \in Booked : visit[b] \in Days BY BookedIs, SaleIs
<1>3. \A d \in Days : daily(0, LastDay)[d] = Figures(LiveSale(d, d)) BY DEF daily, Days
<1>4. \A d \in Days : daily(0, LastDay)[d].revenue = Revenue({b \in Booked : visit[b] = d})
  <2> SUFFICES ASSUME NEW d \in Days PROVE daily(0, LastDay)[d].revenue = Revenue({b \in Booked : visit[b] = d}) OBVIOUS
  <2>1. {b \in Booked : visit[b] = d} = LiveSale(d, d) BY BookedIs
  <2>2. daily(0, LastDay)[d].revenue = Revenue(LiveSale(d, d)) BY <1>3, FiguresHave
  <2> QED BY <2>1, <2>2
<1> HIDE DEF visit
<1>5. Booked \in SUBSET Sold BY BookedIs
<1>6. SumOf(Days, [d \in Days |-> Revenue({b \in Booked : visit[b] = d})]) = Revenue(Booked) BY <1>1, <1>2, <1>5, RevenueGrouped
<1>7. [d \in Days |-> daily(0, LastDay)[d].revenue] = [d \in Days |-> Revenue({b \in Booked : visit[b] = d})] BY <1>4
<1>8. Revenue(Booked) = SumOf(Days, [d \in Days |-> daily(0, LastDay)[d].revenue]) BY <1>6, <1>7
<1> QED BY <1>3, <1>8

LEMMA ModesAddUp ==
  ASSUME TillTypeOK, NEW all, all = totals(0, LastDay)
  PROVE  LET modes == breakdown("mode", 0, LastDay) IN
         /\ Revenue(Booked) = all.online + all.gate
         /\ Revenue(Booked) = SumOf(DOMAIN modes, [k \in DOMAIN modes |-> modes[k].revenue])
<1> DEFINE A == {b \in Booked : sold[b].mode = "online"}
           B == {b \in Booked : sold[b].mode = "gate"}
           modes == breakdown("mode", 0, LastDay)
           mode == [b \in Booked |-> sold[b].mode]
           K == {mode[b] : b \in Booked}
<1>1. Booked \in SUBSET Sold /\ IsFiniteSet(Booked) /\ \A b \in Booked : sold[b].mode \in {"online", "gate"}
  BY BookedIs, FiguresAre DEF Sales
<1>2. all.online = Revenue(A) /\ all.gate = Revenue(B) BY Zenon DEF totals, Booked
<1>3. B = Booked \ A BY <1>1
<1>4. Revenue(Booked) = Revenue(A) + Revenue(B)
  <2>1. A \in SUBSET Booked OBVIOUS
  <2> HIDE DEF A, B
  <2> QED BY <1>1, <1>3, <2>1, InTwo
<1>5. IsFiniteSet(K)
  <2> HIDE DEF mode
  <2> QED BY <1>1, ImageFinite
<1>6. modes = [k \in {sold[b]["mode"] : b \in Booked} |-> Figures({b \in Booked : sold[b]["mode"] = k})] BY DEF breakdown, Booked
<1>7. {sold[b]["mode"] : b \in Booked} = K OBVIOUS
<1>8. DOMAIN modes = K BY <1>6, <1>7, Zenon
<1>9. \A k \in K : {b \in Booked : sold[b]["mode"] = k} = {b \in Booked : mode[b] = k} OBVIOUS
<1>10. \A k \in K : modes[k] = Figures({b \in Booked : mode[b] = k})
  <2>1. ASSUME NEW k \in K PROVE modes[k] = Figures({b \in Booked : mode[b] = k})
    <3> HIDE DEF K, mode, modes
    <3> QED BY <1>6, <1>7, <1>9
  <2> QED BY <2>1
<1>11. \A k \in K : modes[k].revenue = Revenue({b \in Booked : mode[b] = k}) BY <1>10, FiguresHave
<1>12. \A b \in Booked : mode[b] \in K OBVIOUS
<1> HIDE DEF mode, K, modes, A, B
<1>13. SumOf(K, [k \in K |-> Revenue({b \in Booked : mode[b] = k})]) = Revenue(Booked) BY <1>1, <1>5, <1>12, RevenueGrouped
<1>14. [k \in K |-> modes[k].revenue] = [k \in K |-> Revenue({b \in Booked : mode[b] = k})] BY <1>11
<1>15. Revenue(Booked) = SumOf(DOMAIN modes, [k \in DOMAIN modes |-> modes[k].revenue]) BY <1>8, <1>13, <1>14
<1>16. Revenue(Booked) = all.online + all.gate BY <1>2, <1>4
<1> QED BY <1>15, <1>16 DEF modes

(* The month a day is in.                                                  *)
LEMMA MonthOf ==
  ASSUME NEW n \in Nat \ {0}, NEW m \in Nat
  PROVE  (m * n) \div n = m
OBVIOUS

LEMMA MonthLast ==
  ASSUME NEW n \in Nat \ {0}, NEW a \in Nat, NEW b \in Nat, a <= b
  PROVE  a \div n \in Nat /\ b \div n \in Nat /\ a \div n <= b \div n
OBVIOUS

LEMMA MonthsAddUp ==
  ASSUME TillTypeOK
  PROVE  LET months == 0..(LastDay \div MonthLength) IN
         Revenue(Booked) = SumOf(months, [m \in months |-> monthRevenue(m * MonthLength)])
<1> DEFINE months == 0..(LastDay \div MonthLength)
           month == [b \in Booked |-> sold[b].made \div MonthLength]
<1>1. MonthLength \in Nat \ {0} /\ LastDay \in Nat BY TillAssumption
<1>2. LastDay \div MonthLength \in Nat BY <1>1, MonthLast
<1>3. IsFiniteSet(months) BY <1>2, FS_Interval
<1>4. \A b \in Booked : month[b] \in months
  <2> SUFFICES ASSUME NEW b \in Booked PROVE month[b] \in months OBVIOUS
  <2>1. sold[b].made \in Nat /\ sold[b].made <= LastDay BY BookedIs, SaleIs, TillAssumption DEF Days
  <2>2. sold[b].made \div MonthLength \in Nat /\ sold[b].made \div MonthLength <= LastDay \div MonthLength BY <1>1, <2>1, MonthLast
  <2> QED BY <1>2, <2>2
<1>5. \A m \in months : monthRevenue(m * MonthLength) = Revenue({b \in Booked : month[b] = m})
  <2> SUFFICES ASSUME NEW m \in months PROVE monthRevenue(m * MonthLength) = Revenue({b \in Booked : month[b] = m}) OBVIOUS
  <2>1. m \in Nat BY <1>2
  <2>2. (m * MonthLength) \div MonthLength = m BY <1>1, <2>1, MonthOf
  <2>3. {b \in Sold : sold[b].status # "cancelled" /\ sold[b].made \div MonthLength = (m * MonthLength) \div MonthLength}
          = {b \in Booked : month[b] = m}
    <3>1. Booked = {b \in Sold : sold[b].status # "cancelled"} BY BookedIs
    <3>2. \A b \in Booked : month[b] = sold[b].made \div MonthLength OBVIOUS
    <3> HIDE DEF month
    <3> QED BY <2>2, <3>1, <3>2
  <2> QED BY <2>3, Zenon DEF monthRevenue
<1> HIDE DEF month, months
<1>6. Booked \in SUBSET Sold BY BookedIs
<1>7. SumOf(months, [m \in months |-> Revenue({b \in Booked : month[b] = m})]) = Revenue(Booked) BY <1>3, <1>4, <1>6, RevenueGrouped
<1>8. [m \in months |-> monthRevenue(m * MonthLength)] = [m \in months |-> Revenue({b \in Booked : month[b] = m})] BY <1>5
<1>9. Revenue(Booked) = SumOf(months, [m \in months |-> monthRevenue(m * MonthLength)]) BY <1>7, <1>8
<1> QED BY <1>9 DEF months

LEMMA FilesAddUp ==
  ASSUME TillTypeOK
  PROVE  LET file == exportCsv("bookings", 0, LastDay)
             live == {b \in DOMAIN file : file[b].status # "cancelled"}
         IN  Revenue(Booked) = SumOf(live, [b \in live |-> file[b].total])
<1> DEFINE file == exportCsv("bookings", 0, LastDay)
           live == {b \in DOMAIN file : file[b].status # "cancelled"}
<1>1. file = [b \in Sold |-> [status |-> sold[b].status, total |-> Total(sold[b].order), guests |-> sold[b].guests]]
  BY BookedIs DEF exportCsv
<1>2. DOMAIN file = Sold /\ \A b \in Sold : file[b].status = sold[b].status /\ file[b].total = Total(sold[b].order) BY <1>1
<1> HIDE DEF file
<1>3. live = Booked BY <1>2, BookedIs
<1>4. Booked \in SUBSET Sold BY BookedIs
<1> HIDE DEF live
<1>5. [b \in live |-> file[b].total] = [b \in Booked |-> Total(sold[b].order)] BY <1>2, <1>3, <1>4
<1>6. Revenue(Booked) = SumOf(live, [b \in live |-> file[b].total]) BY <1>3, <1>5 DEF Revenue
<1> QED BY <1>6 DEF live, file

LEMMA OptionsAddUp ==
  ASSUME TillTypeOK, NEW all, all = totals(0, LastDay)
  PROVE  all.experiences = SumOf(Options, exportCsv("experiences", 0, LastDay))
<1> DEFINE lines == [b \in Booked |-> sold[b].order.lines]
<1>1. all.experiences = SumOf(Booked, [b \in Booked |-> LineSum(sold[b].order)]) BY Zenon DEF totals, Booked
<1>2. exportCsv("experiences", 0, LastDay) = [x \in Options |-> SumOf(Booked, [b \in Booked |-> sold[b].order.lines[x]])]
  BY DEF exportCsv, experiences, Booked
<1>3. IsFiniteSet(Booked) BY BookedIs, FiguresAre
<1>4. \A b \in Booked : lines[b] \in [Options -> Nat]
  <2> SUFFICES ASSUME NEW b \in Booked PROVE lines[b] \in [Options -> Nat] OBVIOUS
  <2>1. sold[b].order \in Orders BY BookedIs, SaleIs
  <2> QED BY <2>1 DEF Orders
<1>5. \A b \in Booked : \A x \in Options : lines[b][x] \in Int BY <1>4
<1>6. \A b \in Booked : LineSum(sold[b].order) = SumOf(Options, lines[b]) BY DEF LineSum
<1>7. \A b \in Booked : \A x \in Options : sold[b].order.lines[x] = lines[b][x] OBVIOUS
<1> HIDE DEF lines
<1>8. IsFiniteSet(Options) BY TillAssumption
<1>9. SumOf(Options, [x \in Options |-> SumOf(Booked, [b \in Booked |-> lines[b][x]])]) = SumOf(Booked, [b \in Booked |-> SumOf(Options, lines[b])])
  BY <1>3, <1>5, <1>8, SumTable, SMTT(30)
<1>10. [b \in Booked |-> LineSum(sold[b].order)] = [b \in Booked |-> SumOf(Options, lines[b])] BY <1>6
<1>11. \A x \in Options : [b \in Booked |-> sold[b].order.lines[x]] = [b \in Booked |-> lines[b][x]] BY <1>7
<1>12. [x \in Options |-> SumOf(Booked, [b \in Booked |-> sold[b].order.lines[x]])]
         = [x \in Options |-> SumOf(Booked, [b \in Booked |-> lines[b][x]])]
  BY <1>11
<1> QED BY <1>1, <1>2, <1>9, <1>10, <1>12

(* A share rounded to a tenth of a percent is off by half of one at most.  *)
LEMMA Divided ==
  ASSUME NEW a \in Int, NEW b \in Int, b > 0
  PROVE  a \div b \in Int /\ b * (a \div b) <= a /\ a < b * (a \div b) + b
OBVIOUS

LEMMA Cancels ==
  ASSUME NEW G \in Nat \ {0}, NEW S \in Int, NEW n \in Nat, (2 * G) * S <= 2000 * G + G * n, 2000 * G - G * n <= (2 * G) * S
  PROVE  2 * S <= 2000 + n /\ 2000 - n <= 2 * S
<1>1. ASSUME NEW x \in Int, NEW y \in Int, G * x <= G * y PROVE x <= y BY <1>1
<1>2. (2 * G) * S = G * (2 * S) /\ 2000 * G + G * n = G * (2000 + n) /\ 2000 * G - G * n = G * (2000 - n) OBVIOUS
<1>3. 2 * S \in Int /\ 2000 + n \in Int /\ 2000 - n \in Int OBVIOUS
<1>4. 2 * S <= 2000 + n BY <1>1, <1>2, <1>3
<1>5. 2000 - n <= 2 * S BY <1>1, <1>2, <1>3
<1> QED BY <1>4, <1>5

(* As many as there are.                                                   *)
LEMMA SumOnes == ASSUME NEW S, IsFiniteSet(S) PROVE SumOf(S, [x \in S |-> 1]) = Cardinality(S)
<1> DEFINE f == [x \in S |-> 1]
           Bad == {s \in SUBSET S : SumOf(s, f) # Cardinality(s)}
<1>1. \A x \in S : f[x] = 1 OBVIOUS
<1> HIDE DEF f
<1> SUFFICES ASSUME S \in Bad PROVE FALSE BY DEF f
<1>2. PICK s \in Bad : \A t \in SUBSET s : t # s => t \notin Bad
  <2>1. Bad \in SUBSET SUBSET S /\ Bad # {} OBVIOUS
  <2> HIDE DEF Bad
  <2> QED BY <2>1, SmallestSet
<1>3. s # {}
  <2>1. SumOf({}, f) = 0 /\ Cardinality({}) = 0 BY SumEmpty, FS_EmptySet
  <2> QED BY <2>1
<1>4. PICK x \in s : TRUE BY <1>3
<1>5. IsFiniteSet(s) /\ (\A y \in s : f[y] \in Int) BY <1>1, FS_Subset
<1>6. SumOf(s, f) = f[x] + SumOf(s \ {x}, f) BY <1>5, SumTake
<1>7. SumOf(s \ {x}, f) = Cardinality(s \ {x}) BY <1>2
<1>8. Cardinality(s \ {x}) = Cardinality(s) - 1 BY <1>5, FS_RemoveElement
<1>9. Cardinality(s) \in Int BY <1>5, FS_CardinalityType
<1>10. SumOf(s, f) # Cardinality(s) /\ f[x] = 1 BY <1>1, <1>2
<1> QED BY <1>6, <1>7, <1>8, <1>9, <1>10

LEMMA NationsAddUp ==
  ASSUME TillTypeOK
  PROVE  LET nations == exportCsv("nationalities", 0, LastDay)
             n == Cardinality(DOMAIN nations)
         IN  /\ Guests(Booked) = SumOf(DOMAIN nations, [k \in DOMAIN nations |-> nations[k].figures.guests])
             /\ Guests(Booked) > 0 =>
                  SumOf(DOMAIN nations, [k \in DOMAIN nations |-> nations[k].share]) \in (1000 - n)..(1000 + n)
<1> DEFINE nation == [b \in Booked |-> sold[b].nationality]
           K == {nation[b] : b \in Booked}
           rows == breakdown("nationality", 0, LastDay)
           all == Max({1, Guests(Booked)})
           nations == exportCsv("nationalities", 0, LastDay)
           g == [k \in K |-> Guests({b \in Booked : nation[b] = k})]
           n == Cardinality(K)
<1>1. Booked \in SUBSET Sold /\ IsFiniteSet(Booked) /\ Guests(Booked) \in Nat BY BookedIs, FiguresAre
<1>2. IsFiniteSet(K)
  <2> HIDE DEF nation
  <2> QED BY <1>1, ImageFinite
<1>3. rows = [k \in {sold[b]["nationality"] : b \in Booked} |-> Figures({b \in Booked : sold[b]["nationality"] = k})]
  BY DEF breakdown, Booked
<1>4. {sold[b]["nationality"] : b \in Booked} = K OBVIOUS
<1>5. \A k \in K : {b \in Booked : sold[b]["nationality"] = k} = {b \in Booked : nation[b] = k} OBVIOUS
<1>6. nations = [k \in DOMAIN rows |-> [figures |-> rows[k], share |-> (2000 * rows[k].guests + all) \div (2 * all)]]
  BY Zenon DEF exportCsv, nationalities, Booked
<1>7. \A b \in Booked : nation[b] \in K OBVIOUS
<1>8. \A k \in K : {b \in Booked : nation[b] = k} \in SUBSET Sold BY <1>1
<1> HIDE DEF nation, K, rows, all, nations
<1>9. DOMAIN rows = K /\ \A k \in K : rows[k] = Figures({b \in Booked : nation[b] = k}) BY <1>3, <1>4, <1>5
<1>10. \A k \in K : rows[k].guests = g[k] /\ g[k] \in Nat BY <1>8, <1>9, FiguresHave, FiguresAre
<1> HIDE DEF g
<1>11. DOMAIN nations = K /\ \A k \in K : nations[k] = [figures |-> rows[k], share |-> (2000 * rows[k].guests + all) \div (2 * all)]
  BY <1>6, <1>9
<1>12. \A k \in K : nations[k].figures.guests = g[k] /\ nations[k].share = (2000 * g[k] + all) \div (2 * all) BY <1>10, <1>11
<1>13. SumOf(K, g) = Guests(Booked) BY <1>1, <1>2, <1>7, GuestsGrouped DEF g
<1>14. SumOf(DOMAIN nations, [k \in DOMAIN nations |-> nations[k].figures.guests]) = Guests(Booked)
  <2>1. [k \in DOMAIN nations |-> nations[k].figures.guests] = g BY <1>11, <1>12 DEF g
  <2> QED BY <1>11, <1>13, <2>1
<1>15. ASSUME Guests(Booked) > 0
       PROVE  SumOf(K, [k \in K |-> nations[k].share]) \in (1000 - n)..(1000 + n)
  <2> DEFINE one == [k \in K |-> 1]
             share == [k \in K |-> nations[k].share]
             slice == [k \in K |-> 2000 * g[k]]
             ones == [k \in K |-> all * one[k]]
             high == [k \in K |-> slice[k] + ones[k]]
             low == [k \in K |-> slice[k] - ones[k]]
             doubled == [k \in K |-> (2 * all) * share[k]]
             G == Guests(Booked)
             S == SumOf(K, share)
  <2>1. all \in Nat \ {0} /\ all = G
    <3>1. {1, G} = ({} \cup {1}) \cup {G} OBVIOUS
    <3>2. IsFiniteSet({} \cup {1}) BY FS_EmptySet, FS_AddElement
    <3>3. IsFiniteSet({1, G}) BY <3>1, <3>2, FS_AddElement
    <3>4. {1, G} # {} /\ \A x \in {1, G} : x \in Int BY <1>1
    <3>5. Max({1, G}) \in {1, G} /\ \A y \in {1, G} : y <= Max({1, G}) BY <3>3, <3>4, MaxIs
    <3> QED BY <1>1, <1>15, <3>5 DEF all
  <2>2. \A k \in K : share[k] \in Int /\ (2 * all) * share[k] <= 2000 * g[k] + all /\ 2000 * g[k] + all < (2 * all) * share[k] + 2 * all
    <3> SUFFICES ASSUME NEW k \in K
                 PROVE  share[k] \in Int /\ (2 * all) * share[k] <= 2000 * g[k] + all /\ 2000 * g[k] + all < (2 * all) * share[k] + 2 * all
      OBVIOUS
    <3>1. share[k] = (2000 * g[k] + all) \div (2 * all) /\ g[k] \in Nat BY <1>10, <1>12
    <3> HIDE DEF share
    <3> DEFINE m == 2000 * g[k] + all
               d == 2 * all
    <3>2. m \in Int /\ d \in Int /\ d > 0 BY <2>1, <3>1
    <3>3. share[k] = m \div d BY <3>1
    <3> HIDE DEF m, d
    <3>4. m \div d \in Int /\ d * (m \div d) <= m /\ m < d * (m \div d) + d BY <3>2, Divided
    <3>5. share[k] \in Int /\ d * share[k] <= m /\ m < d * share[k] + d BY <3>3, <3>4
    <3> QED BY <3>5 DEF m, d
  <2>3. \A k \in K : one[k] = 1 /\ slice[k] = 2000 * g[k] /\ ones[k] = all * one[k] /\ high[k] = slice[k] + ones[k] /\ low[k] = slice[k] - ones[k]
                     /\ doubled[k] = (2 * all) * share[k]
    OBVIOUS
  <2>4. SumOf(K, one) = n BY <1>2, SumOnes
  <2>5. n \in Nat BY <1>2, FS_CardinalityType
  <2>6. SumOf(K, slice) = 2000 * G
    <3>1. \A k \in K : g[k] \in Int BY <1>10
    <3>2. SumOf(K, slice) = 2000 * SumOf(K, g) BY <1>2, <3>1, SumTimes
    <3> QED BY <1>13, <3>2
  <2>7. SumOf(K, ones) = all * n
    <3>1. \A k \in K : one[k] \in Int BY <2>3
    <3> HIDE DEF one
    <3>2. all \in Int BY <2>1
    <3>3. SumOf(K, ones) = all * SumOf(K, one) BY <1>2, <3>1, <3>2, SumTimes
    <3> QED BY <2>4, <3>3
  <2>8. SumOf(K, doubled) = (2 * all) * S /\ S \in Int
    <3>1. \A k \in K : share[k] \in Int BY <2>2
    <3>2. 2 * all \in Int BY <2>1
    <3> HIDE DEF share
    <3>3. S \in Int BY <1>2, <3>1, SumInt
    <3>4. SumOf(K, doubled) = (2 * all) * S BY <1>2, <3>1, <3>2, SumTimes
    <3> QED BY <3>3, <3>4
  <2>9. \A k \in K : slice[k] \in Int /\ ones[k] \in Int /\ ones[k] = all /\ high[k] \in Int /\ low[k] \in Int /\ doubled[k] \in Int
    <3> SUFFICES ASSUME NEW k \in K
                 PROVE  slice[k] \in Int /\ ones[k] \in Int /\ ones[k] = all /\ high[k] \in Int /\ low[k] \in Int /\ doubled[k] \in Int
      OBVIOUS
    <3>1. slice[k] \in Int /\ ones[k] = all /\ ones[k] \in Int BY <1>10, <2>1, <2>3
    <3>2. doubled[k] \in Int BY <2>1, <2>2, <2>3
    <3> QED BY <2>3, <3>1, <3>2
  <2>10. SumOf(K, high) = SumOf(K, slice) + SumOf(K, ones)
    <3> HIDE DEF slice, ones
    <3> QED BY <1>2, <2>9, SumPlus
  <2>11. SumOf(K, low) = SumOf(K, slice) - SumOf(K, ones)
    <3> HIDE DEF slice, ones
    <3> QED BY <1>2, <2>9, SumMinus
  <2>12. \A k \in K : doubled[k] <= high[k] /\ low[k] <= doubled[k]
    <3> SUFFICES ASSUME NEW k \in K PROVE doubled[k] <= high[k] /\ low[k] <= doubled[k] OBVIOUS
    <3>1. doubled[k] <= slice[k] + all /\ slice[k] + all < doubled[k] + 2 * all BY <2>2, <2>3
    <3>2. high[k] = slice[k] + all /\ low[k] = slice[k] - all BY <2>3, <2>9
    <3>3. all \in Int /\ slice[k] \in Int /\ doubled[k] \in Int BY <2>1, <2>9
    <3> HIDE DEF doubled, slice, high, low
    <3> QED BY <3>1, <3>2, <3>3
  <2> HIDE DEF one, share, slice, ones, high, low, doubled
  <2>13. SumOf(K, doubled) <= SumOf(K, high) BY <1>2, <2>9, <2>12, SumUpTo
  <2>14. SumOf(K, low) <= SumOf(K, doubled) BY <1>2, <2>9, <2>12, SumUpTo
  <2> HIDE DEF S, n, G
  <2>15. (2 * G) * S <= 2000 * G + G * n /\ 2000 * G - G * n <= (2 * G) * S
    BY <2>1, <2>6, <2>7, <2>8, <2>10, <2>11, <2>13, <2>14
  <2>16. G \in Nat \ {0} BY <2>1
  <2>17. 2 * S <= 2000 + n /\ 2000 - n <= 2 * S BY <2>5, <2>8, <2>15, <2>16, Cancels
  <2>18. S \in (1000 - n)..(1000 + n) BY <2>5, <2>8, <2>17
  <2> QED BY <2>18 DEF S, share
<1>16. DOMAIN nations = K BY <1>11
<1> HIDE DEF n
<1>17. Guests(Booked) > 0 => SumOf(DOMAIN nations, [k \in DOMAIN nations |-> nations[k].share]) \in (1000 - n)..(1000 + n)
  BY <1>15, <1>16
<1>18. n = Cardinality(DOMAIN nations) BY <1>16 DEF n
<1> QED BY <1>14, <1>17, <1>18 DEF nations

(* A day's reconciliation and its forecast have the day's figures.         *)
LEMMA DayAgrees ==
  ASSUME TillTypeOK, NEW d \in Days
  PROVE  LET t == reconciliationTotals(Between(d, d), d < today)
             day == Figures(LiveSale(d, d))
             ahead == forecast(LastDay + 1)
         IN  /\ t.expected = day.guests /\ t.gateExpected + t.onlinePaid = day.revenue
             /\ t.gateCollected + t.gateOutstanding = t.gateExpected
             /\ d \in DOMAIN ahead => ahead[d] = day
<1> DEFINE S == LiveSale(d, d)
           live == {b \in Between(d, d) : sold[b].status # "cancelled"}
           here == {b \in live : sold[b].mode = "gate"}
           arrived == {b \in live : sold[b].status = "arrived"}
           t == reconciliationTotals(Between(d, d), d < today)
           ahead == forecast(LastDay + 1)
           am == {b \in S : sold[b].slot = "morning"}
           pm == {b \in S : sold[b].slot = "afternoon"}
<1>1. live = S BY DEF LiveSale
<1>2. S \in SUBSET Sold /\ \A b \in S : sold[b].slot \in {"morning", "afternoon"} BY BookedIs DEF Sales
<1>3. t.expected = Guests(live) /\ t.gateExpected = Revenue(here) /\ t.onlinePaid = Revenue(live \ here)
      /\ t.gateCollected = Revenue(here \cap arrived) /\ t.gateOutstanding = Revenue(here \ arrived)
  BY Zenon DEF reconciliationTotals
<1>4. here \in SUBSET live /\ here \cap arrived \in SUBSET here /\ here \ arrived = here \ (here \cap arrived) OBVIOUS
<1>5. pm = S \ am /\ am \in SUBSET S BY <1>2
<1>6. d \in DOMAIN ahead => ahead[d] = [bookings |-> Figures(am).bookings + Figures(pm).bookings,
                                        guests |-> Figures(am).guests + Figures(pm).guests,
                                        revenue |-> Figures(am).revenue + Figures(pm).revenue]
  BY DEF forecast
<1> HIDE DEF S, live, here, arrived, t, am, pm, ahead
<1>7. live \in SUBSET Sold /\ here \in SUBSET Sold BY <1>1, <1>2, <1>4
<1>8. Revenue(live) = Revenue(here) + Revenue(live \ here) BY <1>4, <1>7, InTwo
<1>9. Revenue(here) = Revenue(here \cap arrived) + Revenue(here \ (here \cap arrived)) BY <1>4, <1>7, InTwo
<1>10. Figures(S).revenue = Revenue(am) + Revenue(pm) /\ Figures(S).guests = Guests(am) + Guests(pm)
       /\ Figures(S).bookings = Cardinality(am) + Cardinality(pm)
  BY <1>2, <1>5, InTwo, FiguresHave
<1>11. Figures(S) = [bookings |-> Figures(S).bookings, guests |-> Figures(S).guests, revenue |-> Figures(S).revenue]
  BY DEF Figures
<1>12. d \in DOMAIN ahead => ahead[d] = Figures(S)
  <2>1. /\ Figures(am).revenue = Revenue(am) /\ Figures(am).guests = Guests(am) /\ Figures(am).bookings = Cardinality(am)
        /\ Figures(pm).revenue = Revenue(pm) /\ Figures(pm).guests = Guests(pm) /\ Figures(pm).bookings = Cardinality(pm)
    BY FiguresHave
  <2> QED BY <1>6, <1>10, <1>11, <2>1
<1>13. t.expected = Figures(S).guests /\ t.gateExpected + t.onlinePaid = Figures(S).revenue BY <1>1, <1>3, <1>8, FiguresHave
<1>14. t.gateCollected + t.gateOutstanding = t.gateExpected BY <1>3, <1>4, <1>9
<1> QED BY <1>12, <1>13, <1>14 DEF S, t, ahead

LEMMA TillAgrees == TillTypeOK => ReportsAgree
<1> SUFFICES ASSUME TillTypeOK PROVE ReportsAgree OBVIOUS
<1> DEFINE all == totals(0, LastDay)
           days == daily(0, LastDay)
           modes == breakdown("mode", 0, LastDay)
           options == exportCsv("experiences", 0, LastDay)
           nations == exportCsv("nationalities", 0, LastDay)
           file == exportCsv("bookings", 0, LastDay)
           live == {b \in DOMAIN file : file[b].status # "cancelled"}
           months == 0..(LastDay \div MonthLength)
           ahead == forecast(LastDay + 1)
<1>1. all.sales.revenue = Revenue(Booked) /\ all.sales.guests = Guests(Booked)
      /\ all.sales.revenue = all.entry + all.experiences + all.products + all.other - all.discounts
  BY KindsAddUp
<1>2. Revenue(Booked) = SumOf(Days, [d \in Days |-> days[d].revenue]) /\ \A d \in Days : days[d] = Figures(LiveSale(d, d)) BY DaysAddUp
<1>3. Revenue(Booked) = all.online + all.gate /\ Revenue(Booked) = SumOf(DOMAIN modes, [k \in DOMAIN modes |-> modes[k].revenue])
  BY ModesAddUp
<1>4. Revenue(Booked) = SumOf(months, [m \in months |-> monthRevenue(m * MonthLength)]) BY MonthsAddUp
<1>5. Revenue(Booked) = SumOf(live, [b \in live |-> file[b].total]) BY FilesAddUp
<1>6. all.experiences = SumOf(Options, options) BY OptionsAddUp
<1>7. /\ Guests(Booked) = SumOf(DOMAIN nations, [k \in DOMAIN nations |-> nations[k].figures.guests])
      /\ Guests(Booked) > 0 => SumOf(DOMAIN nations, [k \in DOMAIN nations |-> nations[k].share])
                               \in (1000 - Cardinality(DOMAIN nations))..(1000 + Cardinality(DOMAIN nations))
  BY NationsAddUp
<1>8. \A d \in Days :
        /\ reconciliationTotals(Between(d, d), d < today).expected = Figures(LiveSale(d, d)).guests
        /\ reconciliationTotals(Between(d, d), d < today).gateExpected + reconciliationTotals(Between(d, d), d < today).onlinePaid
             = Figures(LiveSale(d, d)).revenue
        /\ reconciliationTotals(Between(d, d), d < today).gateCollected + reconciliationTotals(Between(d, d), d < today).gateOutstanding
             = reconciliationTotals(Between(d, d), d < today).gateExpected
        /\ d \in DOMAIN ahead => ahead[d] = Figures(LiveSale(d, d))
  BY DayAgrees
<1> HIDE DEF all, days, modes, options, nations, file, live, months, ahead
<1>9. \A d \in Days :
        LET t == reconciliationTotals(Between(d, d), d < today) IN
        /\ t.expected = days[d].guests /\ t.gateExpected + t.onlinePaid = days[d].revenue
        /\ t.gateCollected + t.gateOutstanding = t.gateExpected
        /\ d \in DOMAIN ahead => ahead[d] = days[d]
  BY <1>2, <1>8
<1>10. /\ all.sales.revenue = all.entry + all.experiences + all.products + all.other - all.discounts
       /\ all.sales.revenue = SumOf(Days, [d \in Days |-> days[d].revenue])
       /\ all.sales.revenue = all.online + all.gate
       /\ all.sales.revenue = SumOf(DOMAIN modes, [k \in DOMAIN modes |-> modes[k].revenue])
       /\ all.sales.revenue = SumOf(months, [m \in months |-> monthRevenue(m * MonthLength)])
       /\ all.sales.revenue = SumOf(live, [b \in live |-> file[b].total])
       /\ all.experiences = SumOf(Options, options)
       /\ all.sales.guests = SumOf(DOMAIN nations, [k \in DOMAIN nations |-> nations[k].figures.guests])
       /\ all.sales.guests > 0 => SumOf(DOMAIN nations, [k \in DOMAIN nations |-> nations[k].share])
            \in (1000 - Cardinality(DOMAIN nations))..(1000 + Cardinality(DOMAIN nations))
  <2>1. all.sales.revenue = SumOf(Days, [d \in Days |-> days[d].revenue]) BY <1>1, <1>2, Zenon
  <2>2. all.sales.revenue = all.online + all.gate BY <1>1, <1>3, Zenon
  <2>3. all.sales.revenue = SumOf(DOMAIN modes, [k \in DOMAIN modes |-> modes[k].revenue]) BY <1>1, <1>3, Zenon
  <2>4. all.sales.revenue = SumOf(months, [m \in months |-> monthRevenue(m * MonthLength)]) BY <1>1, <1>4, Zenon
  <2>5. all.sales.revenue = SumOf(live, [b \in live |-> file[b].total]) BY <1>1, <1>5, Zenon
  <2>6. all.sales.guests = Guests(Booked) BY <1>1
  <2>7. all.sales.guests = SumOf(DOMAIN nations, [k \in DOMAIN nations |-> nations[k].figures.guests])
    <3> DEFINE sum == SumOf(DOMAIN nations, [k \in DOMAIN nations |-> nations[k].figures.guests])
    <3>1. Guests(Booked) = sum BY <1>7
    <3> HIDE DEF sum
    <3>2. all.sales.guests = sum BY <2>6, <3>1
    <3> QED BY <3>2 DEF sum
  <2>8. all.sales.guests > 0 => SumOf(DOMAIN nations, [k \in DOMAIN nations |-> nations[k].share])
            \in (1000 - Cardinality(DOMAIN nations))..(1000 + Cardinality(DOMAIN nations))
    <3> QED BY <1>7, <2>6, SMTT(30)
  <2> QED BY <1>1, <1>6, <2>1, <2>2, <2>3, <2>4, <2>5, <2>7, <2>8, SMTT(30)
<1> QED BY <1>9, <1>10, SMTT(30) DEF ReportsAgree, all, days, modes, options, nations, file, live, months, ahead

LEMMA TillSafe == TillInv => TillBalances /\ TillTypeOK
BY TillTells, TillAgrees DEF TillBalances, TillInv
-----------------------------------------------------------------------------
(***************************************************************************)
(* The back office's lists.                                                *)
(***************************************************************************)

Asking == Queries \cup {Unfiltered}
ByAge == {[Unfiltered EXCEPT !.sort = s] : s \in {"newest", "oldest"}}
ListedTyped ==
  /\ listed \in [Entries -> {NoEntry} \cup [made : Nat \ {0}, row : Rows]]
  /\ \A e, f \in Made : listed[e].made = listed[f].made => e = f

Walks ==
  [step : {"rows", "count", "done"}, query : Asking, page : Nat \ {0}, size : 1..Max({MaxPageSize, ExportSize}), once : BOOLEAN,
   seen : Seq(Entries), total : Nat]

(* How far into the list the pages read so far go.                         *)
Cut(w) == IF w.step = "rows" THEN pageOffset(w.page, w.size) ELSE w.page * w.size

(* Nothing that stays is skipped: it was seen, or it is further on.        *)
Ahead(w) == ~pulled => \A r \in stayed : r \in Range(w.seen) \/ Rank(r, w.query) >= Cut(w)
Seen(w) ==
  /\ w.once /\ w.step # "rows" /\ Len(w.seen) < w.size => stayed \subseteq Range(w.seen)
  /\ w.step = "done" /\ ~w.once /\ ~pulled => stayed \subseteq Range(w.seen)

(* Undisturbed, what was seen is the list up to there.                     *)
SoFar(w) ==
  ~changed =>
    LET all == Ordered(w.query) IN
    /\ w.seen = SubSeq(all, 1, Min({Len(all), Cut(w)}))
    /\ w.step = "rows" => Cut(w) <= Len(all)
    /\ w.step = "done" => w.total = Len(all) /\ (~w.once => Cut(w) >= Len(all))

ListsInv ==
  /\ ListedTyped /\ walk \in {NoWalk} \cup Walks /\ pulled \in BOOLEAN /\ changed \in BOOLEAN
  /\ walk # NoWalk =>
       /\ stayed \subseteq Matching(walk.query)
       /\ walk.once => walk.page = 1
       /\ walk.query \in ByAge => ~pulled
       /\ Ahead(walk) /\ Seen(walk) /\ SoFar(walk)

LEMMA ListedAre ==
  ASSUME ListedTyped
  PROVE  /\ IsFiniteSet(Made) /\ Made \in SUBSET Entries
         /\ \A e \in Made : /\ listed[e] \in [made : Nat \ {0}, row : Rows] /\ listed[e].made \in Nat /\ listed[e].row \in Rows
                            /\ listed[e].row.visit \in Int /\ listed[e].row.total \in Int /\ listed[e].row.guest \in Int
<1>1. Made \in SUBSET Entries BY DEF Made
<1>2. IsFiniteSet(Made) BY <1>1, ListsAssumption, FS_Subset
<1>3. \A e \in Made : listed[e] \in [made : Nat \ {0}, row : Rows] BY DEF ListedTyped, Made
<1>4. \A e \in Made : listed[e].made \in Nat /\ listed[e].row \in Rows BY <1>3
<1> QED BY <1>1, <1>2, <1>3, <1>4, ListsAssumption

(* The order of a list is strict and total: rows never tie in made.        *)
LEMMA OrderStrict ==
  ASSUME ListedTyped, NEW q, q.sort \in Sorts
  PROVE  /\ \A e \in Made : ~ SORT_ORDER(e, e, q)
         /\ \A e, f, g \in Made : SORT_ORDER(e, f, q) /\ SORT_ORDER(f, g, q) => SORT_ORDER(e, g, q)
         /\ \A e, f \in Made : e # f => SORT_ORDER(e, f, q) \/ SORT_ORDER(f, e, q)
<1>1. \A e \in Made : /\ listed[e].made \in Nat
                      /\ listed[e].row.visit \in Int /\ listed[e].row.total \in Int /\ listed[e].row.guest \in Int
  BY ListedAre
<1>2. \A e, f \in Made : listed[e].made = listed[f].made => e = f BY DEF ListedTyped
<1>3. CASE q.sort = "newest" BY <1>1, <1>2, <1>3 DEF SORT_ORDER
<1>4. CASE q.sort = "oldest" BY <1>1, <1>2, <1>4 DEF SORT_ORDER
<1>5. CASE q.sort = "visit_asc" BY <1>1, <1>2, <1>5 DEF SORT_ORDER
<1>6. CASE q.sort = "visit_desc" BY <1>1, <1>2, <1>6 DEF SORT_ORDER
<1>7. CASE q.sort = "total_asc" BY <1>1, <1>2, <1>7 DEF SORT_ORDER
<1>8. CASE q.sort = "total_desc" BY <1>1, <1>2, <1>8 DEF SORT_ORDER
<1>9. CASE q.sort = "guest" BY <1>1, <1>2, <1>9 DEF SORT_ORDER
<1> QED BY <1>3, <1>4, <1>5, <1>6, <1>7, <1>8, <1>9 DEF Sorts

LEMMA RankIs ==
  ASSUME ListedTyped, NEW q, NEW e \in Made
  PROVE  Rank(e, q) \in Nat
<1> DEFINE ahead == {f \in Matching(q) : SORT_ORDER(f, e, q)}
<1>1. ahead \in SUBSET Made BY DEF Matching
<1>2. IsFiniteSet(Made) BY ListedAre
<1>3. Rank(e, q) = Cardinality(ahead) BY DEF Rank
<1> HIDE DEF ahead
<1> QED BY <1>1, <1>2, <1>3, FS_Subset, FS_CardinalityType

(* A list as the query orders it: every row that matches, at its rank.     *)
LEMMA OrderedIs ==
  ASSUME ListedTyped, NEW q, q.sort \in Sorts
  PROVE  LET all == Ordered(q) IN
         /\ Cardinality(Matching(q)) \in Nat
         /\ all \in Seq(Entries) /\ Len(all) = Cardinality(Matching(q))
         /\ \A e \in Matching(q) : Rank(e, q) \in 0..(Len(all) - 1) /\ all[Rank(e, q) + 1] = e
<1> DEFINE M == Matching(q)
           n == Cardinality(M)
           below == [e \in M |-> {f \in M : SORT_ORDER(f, e, q)}]
           rank == [e \in M |-> Rank(e, q)]
           all == [i \in 1..n |-> CHOOSE e \in M : Rank(e, q) = i - 1]
<1>1. M \in SUBSET Made /\ Made \in SUBSET Entries /\ IsFiniteSet(Made) BY ListedAre DEF Matching
<1>2. IsFiniteSet(M) /\ n \in Nat
  <2> HIDE DEF M
  <2> QED BY <1>1, FS_Subset, FS_CardinalityType
<1>3. \A e, f \in M : f \in below[e] <=> SORT_ORDER(f, e, q) OBVIOUS
<1>4. /\ \A e \in M : below[e] \in SUBSET M /\ e \notin below[e]
      /\ \A e, f, g \in M : e \in below[f] /\ f \in below[g] => e \in below[g]
      /\ \A e, f \in M : e # f => e \in below[f] \/ f \in below[e]
  <2>1. \A e \in M : below[e] \in SUBSET M OBVIOUS
  <2> HIDE DEF M, below
  <2> QED BY <1>1, <1>3, <2>1, OrderStrict
<1>5. \A e \in M : rank[e] = Cardinality(below[e]) /\ rank[e] = Rank(e, q) BY DEF Rank
<1>6. /\ \A e \in M : rank[e] \in 0..(n - 1)
      /\ \A e, f \in M : rank[e] = rank[f] => e = f
      /\ \A i \in 0..(n - 1) : \E e \in M : rank[e] = i
  <2> HIDE DEF M, below, rank
  <2>1. Ranking(M, below, rank) BY <1>2, <1>4, <1>5 DEF Ranking
  <2>2. \A e \in M : rank[e] \in 0..(n - 1) BY <2>1, RanksFill
  <2>3. \A e, f \in M : rank[e] = rank[f] => e = f BY <2>1, RanksFill
  <2>4. \A i \in 0..(n - 1) : \E e \in M : rank[e] = i BY <2>1, RanksFill
  <2> QED BY <2>2, <2>3, <2>4
<1>7. Ordered(q) = all BY DEF Ordered
<1> HIDE DEF rank, below
<1>8. \A i \in 1..n : all[i] \in M
  <2> SUFFICES ASSUME NEW i \in 1..n PROVE (CHOOSE e \in M : Rank(e, q) = i - 1) \in M OBVIOUS
  <2>1. i - 1 \in 0..(n - 1) BY <1>2
  <2> HIDE DEF M, n
  <2>2. PICK e \in M : Rank(e, q) = i - 1 BY <1>5, <1>6, <2>1
  <2> QED BY <2>2
<1>9. all \in Seq(Entries) /\ Len(all) = n
  <2> HIDE DEF n
  <2>1. all \in [1..n -> Entries] BY <1>1, <1>8
  <2> HIDE DEF all
  <2> QED BY <1>2, <2>1
<1>10. ASSUME NEW e \in M PROVE Rank(e, q) \in 0..(n - 1) /\ all[Rank(e, q) + 1] = e
  <2>1. Rank(e, q) \in 0..(n - 1) BY <1>5, <1>6
  <2>2. Rank(e, q) + 1 \in 1..n /\ Rank(e, q) + 1 - 1 = Rank(e, q) BY <1>2, <2>1
  <2>3. all[Rank(e, q) + 1] = CHOOSE f \in M : Rank(f, q) = Rank(e, q)
    <3> DEFINE i == Rank(e, q) + 1
    <3> HIDE DEF n, M
    <3>1. i \in 1..n /\ i - 1 = Rank(e, q) BY <1>2, <2>1
    <3> HIDE DEF i
    <3>2. all[i] = CHOOSE f \in M : Rank(f, q) = i - 1 BY <3>1
    <3> QED BY <3>1, <3>2 DEF i
  <2>4. \A f \in M : Rank(f, q) = Rank(e, q) => f = e
    <3> HIDE DEF M, n
    <3> QED BY <1>5, <1>6
  <2>5. (CHOOSE f \in M : Rank(f, q) = Rank(e, q)) = e
    <3> HIDE DEF M
    <3> QED BY <2>4
  <2> QED BY <2>1, <2>2, <2>3, <2>5
<1> QED BY <1>2, <1>7, <1>9, <1>10

LEMMA RankNat == ASSUME NEW q, NEW e PROVE Rank(e, q) \in Nat /\ Rank(e, q)' \in Nat
<1> DEFINE ahead == {f \in Matching(q) : SORT_ORDER(f, e, q)}
<1>1. ahead \in SUBSET Entries BY DEF Matching, Made
<1>2. ahead' \in SUBSET Entries BY DEF Matching, Made
<1>3. Rank(e, q) = Cardinality(ahead) /\ Rank(e, q)' = Cardinality(ahead') BY DEF Rank
<1>4. IsFiniteSet(Entries) BY ListsAssumption
<1>5. \A T \in SUBSET Entries : Cardinality(T) \in Nat BY <1>4, FS_Subset, FS_CardinalityType
<1> QED BY <1>1, <1>2, <1>3, <1>5

LEMMA PageAdds ==
  ASSUME NEW p \in Nat \ {0}, NEW s \in Nat \ {0}
  PROVE  /\ pageOffset(p, s) \in Nat /\ p * s \in Nat /\ pageOffset(p, s) + s = p * s /\ pageOffset(p + 1, s) = p * s
         /\ pageOffset(1, s) = 0 /\ 1 * s = s
<1>1. (p - 1) * s = p * s - s OBVIOUS
<1>2. p * s \in Nat /\ (p - 1) * s \in Nat OBVIOUS
<1>3. (p + 1 - 1) * s = p * s OBVIOUS
<1>4. (1 - 1) * s = 0 /\ 1 * s = s OBVIOUS
<1> QED BY <1>1, <1>2, <1>3, <1>4 DEF pageOffset

LEMMA SizeIs ==
  ASSUME NEW asked \in Int
  PROVE  /\ resolvePaging(asked) \in 1..Max({MaxPageSize, ExportSize}) /\ ExportSize \in 1..Max({MaxPageSize, ExportSize})
         /\ Max({MaxPageSize, ExportSize}) \in Nat
<1> DEFINE n == IF asked = 0 THEN DefaultPageSize ELSE asked
           low == {1, n}
           both == {MaxPageSize, ExportSize}
<1>1. n \in Int /\ MaxPageSize \in Nat \ {0} /\ ExportSize \in Nat \ {0} BY ListsAssumption
<1>2. IsFiniteSet(low) /\ IsFiniteSet(both)
  <2>1. \A x, y : IsFiniteSet({x, y})
    <3> SUFFICES ASSUME NEW x, NEW y PROVE IsFiniteSet({x, y}) OBVIOUS
    <3>1. IsFiniteSet({} \cup {x}) BY FS_EmptySet, FS_AddElement
    <3>2. {x, y} = ({} \cup {x}) \cup {y} OBVIOUS
    <3> QED BY <3>1, <3>2, FS_AddElement
  <2> QED BY <2>1
<1>3. Max(low) \in Int /\ Max(low) >= 1
  <2>1. low # {} /\ \A x \in low : x \in Int BY <1>1
  <2>2. Max(low) \in low /\ \A x \in low : x <= Max(low) BY <1>2, <2>1, MaxIs
  <2> QED BY <2>1, <2>2
<1>4. Max(both) \in both /\ \A x \in both : x <= Max(both)
  <2>1. both # {} /\ \A x \in both : x \in Int BY <1>1
  <2> QED BY <1>2, <2>1, MaxIs
<1>5. MaxPageSize <= Max(both) /\ ExportSize <= Max(both) /\ Max(both) \in Nat BY <1>1, <1>4
<1>6. Min({MaxPageSize, Max(low)}) = IF MaxPageSize <= Max(low) THEN MaxPageSize ELSE Max(low) BY <1>1, <1>3, PairLeast
<1>7. resolvePaging(asked) = Min({MaxPageSize, Max(low)}) BY DEF resolvePaging
<1> HIDE DEF n, low, both
<1>8. resolvePaging(asked) \in 1..Max(both) BY <1>1, <1>3, <1>5, <1>6, <1>7
<1>9. ExportSize \in 1..Max(both) BY <1>1, <1>5
<1> QED BY <1>5, <1>8, <1>9 DEF both

LEMMA ListsInitially == ListsInit => ListsInv
<1> SUFFICES ASSUME ListsInit PROVE ListsInv OBVIOUS
<1>1. PICK rs \in [Entries -> Rows], n \in 0..Cardinality(Entries), order \in [Entries -> 1..Cardinality(Entries)] :
        /\ \A e, f \in Entries : order[e] = order[f] => e = f
        /\ listed = [e \in Entries |-> IF order[e] <= n THEN [made |-> order[e], row |-> rs[e]] ELSE NoEntry]
  BY DEF ListsInit
<1>2. walk = NoWalk /\ pulled = FALSE /\ changed = FALSE BY DEF ListsInit
<1>3. \A e \in Entries : listed[e] = NoEntry \/ (listed[e] = [made |-> order[e], row |-> rs[e]] /\ order[e] \in Nat \ {0} /\ rs[e] \in Rows)
  <2>1. Cardinality(Entries) \in Nat BY ListsAssumption, FS_CardinalityType
  <2> QED BY <1>1, <2>1
<1>4. listed \in [Entries -> {NoEntry} \cup [made : Nat \ {0}, row : Rows]]
  <2>1. DOMAIN listed = Entries /\ listed = [e \in Entries |-> listed[e]] BY <1>1
  <2>2. \A e \in Entries : listed[e] \in {NoEntry} \cup [made : Nat \ {0}, row : Rows]
    <3> SUFFICES ASSUME NEW e \in Entries, listed[e] # NoEntry PROVE listed[e] \in [made : Nat \ {0}, row : Rows] OBVIOUS
    <3>1. listed[e] = [made |-> order[e], row |-> rs[e]] /\ order[e] \in Nat \ {0} /\ rs[e] \in Rows BY <1>3
    <3> QED BY <3>1
  <2> QED BY <2>1, <2>2
<1>5. \A e, f \in Made : listed[e].made = listed[f].made => e = f
  <2> SUFFICES ASSUME NEW e \in Made, NEW f \in Made, listed[e].made = listed[f].made PROVE e = f OBVIOUS
  <2>1. e \in Entries /\ f \in Entries BY DEF Made
  <2>2. listed[e] = [made |-> order[e], row |-> rs[e]] /\ listed[f] = [made |-> order[f], row |-> rs[f]] BY <1>3 DEF Made
  <2>3. listed[e].made = order[e] /\ listed[f].made = order[f] BY <2>2
  <2> QED BY <1>1, <2>1, <2>3
<1> QED BY <1>2, <1>4, <1>5 DEF ListsInv, ListedTyped

(* A walk that begins: nothing seen, and all of the list ahead.            *)
LEMMA WalkBegins ==
  ASSUME ListsInv, NEW q \in Asking, NEW size \in 1..Max({MaxPageSize, ExportSize}), NEW once \in BOOLEAN, Walk(q, size, once)
  PROVE  ListsInv'
<1> DEFINE w == [step |-> "rows", query |-> q, page |-> 1, size |-> size, once |-> once, seen |-> <<>>, total |-> 0]
           n == Len(Ordered(q))
<1>1. walk' = w /\ stayed' = Matching(q) /\ pulled' = FALSE /\ changed' = FALSE /\ listed' = listed BY DEF Walk, Keep
<1>2. w \in Walks /\ w.once \in BOOLEAN /\ w.step = "rows" /\ w.seen = <<>> /\ w.query = q /\ w.page = 1 /\ w.size = size /\ w # NoWalk
  <2>1. <<>> \in Seq(Entries) OBVIOUS
  <2> QED BY <2>1 DEF Walks, NoWalk
<1>3. ListedTyped' BY <1>1 DEF ListsInv, ListedTyped, Made
<1>4. size \in Nat \ {0}
  <2>1. 0 \in Int OBVIOUS
  <2>2. Max({MaxPageSize, ExportSize}) \in Nat BY <2>1, SizeIs
  <2> QED BY <2>2
<1>5. Cut(w) = 0 BY <1>2, <1>4, PageAdds DEF Cut
<1>6. Matching(q)' = Matching(q) /\ Ordered(q)' = Ordered(q) /\ \A r : Rank(r, q)' = Rank(r, q)
  BY <1>1 DEF Matching, Made, filterBookings, Ordered, Rank, SORT_ORDER
<1>7. n \in Nat BY OrderedIs, ListsAssumption DEF ListsInv, Asking, Unfiltered, Sorts
<1>8. Ahead(walk)'
  <2>1. \A r : Rank(r, q)' >= 0 BY RankNat
  <2> QED BY <1>1, <1>2, <1>5, <2>1 DEF Ahead
<1>9. Seen(walk)' BY <1>1, <1>2 DEF Seen
<1>10. SoFar(walk)'
  <2>1. Min({n, 0}) = 0 BY <1>7, PairLeast
  <2>2. SubSeq(Ordered(q), 1, 0) = <<>> BY SubSeqEmpty
  <2> DEFINE all == Ordered(walk.query)
  <2>3. all' = Ordered(q) BY <1>1, <1>2, <1>6
  <2>4. Cut(walk)' = 0 /\ walk'.seen = <<>> /\ walk'.step = "rows" BY <1>1, <1>2, <1>5
  <2> HIDE DEF all, n, w
  <2>5. Len(all') = n BY <2>3 DEF n
  <2>6. Min({Len(all'), Cut(walk)'}) = 0 BY <2>1, <2>4, <2>5
  <2>7. walk'.seen = SubSeq(all', 1, Min({Len(all'), Cut(walk)'})) BY <2>2, <2>3, <2>4, <2>6
  <2>8. Cut(walk)' <= Len(all') BY <1>7, <2>4, <2>5
  <2> QED BY <2>4, <2>7, <2>8 DEF SoFar, all
<1> QED BY <1>1, <1>2, <1>3, <1>6, <1>8, <1>9, <1>10 DEF ListsInv

LEMMA WalkIs ==
  ASSUME ListsInv, walk # NoWalk
  PROVE  /\ walk \in Walks /\ walk.step \in {"rows", "count", "done"} /\ walk.query \in Asking /\ walk.query.sort \in Sorts
         /\ walk.page \in Nat \ {0} /\ walk.size \in Nat \ {0} /\ walk.once \in BOOLEAN /\ walk.seen \in Seq(Entries) /\ walk.total \in Nat
<1>1. walk \in Walks BY DEF ListsInv
<1>2. /\ walk.step \in {"rows", "count", "done"} /\ walk.query \in Asking /\ walk.page \in Nat \ {0}
      /\ walk.size \in 1..Max({MaxPageSize, ExportSize}) /\ walk.once \in BOOLEAN /\ walk.seen \in Seq(Entries) /\ walk.total \in Nat
  BY <1>1 DEF Walks
<1>3. walk.query.sort \in Sorts BY <1>2, ListsAssumption DEF Asking, Unfiltered, Sorts
<1>4. 0 \in Int OBVIOUS
<1>5. Max({MaxPageSize, ExportSize}) \in Nat BY <1>4, SizeIs
<1>6. walk.size \in Nat \ {0} BY <1>2, <1>5
<1> QED BY <1>1, <1>2, <1>3, <1>6

(* A page's rows join those seen.                                          *)
LEMMA PageJoins ==
  ASSUME NEW all \in Seq(Entries), NEW seen \in Seq(Entries), NEW from \in Nat, NEW to \in Int, to <= Len(all)
  PROVE  LET now == seen \o SubSeq(all, from + 1, to) IN
         /\ now \in Seq(Entries) /\ Range(seen) \subseteq Range(now) /\ \A i \in (from + 1)..to : all[i] \in Range(now)
         /\ from = 0 => Len(now) >= Len(seen) + to
<1> DEFINE joined == SubSeq(all, from + 1, to)
           now == seen \o joined
<1>1. \A i \in (from + 1)..to : i \in 1..Len(all) /\ all[i] \in Entries OBVIOUS
<1>2. from + 1 \in Int OBVIOUS
<1>3. /\ joined \in Seq(Entries) /\ Len(joined) = (IF from + 1 <= to THEN to - (from + 1) + 1 ELSE 0)
      /\ \A i \in 1..(to - (from + 1) + 1) : joined[i] = all[from + 1 + i - 1]
  BY <1>1, <1>2, SubSeqProperties
<1>4. /\ now \in Seq(Entries) /\ Len(now) = Len(seen) + Len(joined)
      /\ \A i \in 1..(Len(seen) + Len(joined)) : now[i] = IF i <= Len(seen) THEN seen[i] ELSE joined[i - Len(seen)]
  <2> HIDE DEF joined
  <2> QED BY <1>3, ConcatProperties
<1>5. DOMAIN now = 1..(Len(seen) + Len(joined)) /\ DOMAIN seen = 1..Len(seen) /\ Len(seen) \in Nat /\ Len(joined) \in Nat
  <2> HIDE DEF joined, now
  <2> QED BY <1>3, <1>4, LenProperties
<1> HIDE DEF joined, now
<1>6. Range(seen) \subseteq Range(now)
  <2> SUFFICES ASSUME NEW i \in DOMAIN seen PROVE seen[i] \in Range(now) BY DEF Range
  <2>1. i \in DOMAIN now /\ now[i] = seen[i] BY <1>4, <1>5
  <2> QED BY <2>1 DEF Range
<1>7. ASSUME NEW i \in (from + 1)..to PROVE all[i] \in Range(now)
  <2> DEFINE j == i - from
             k == Len(seen) + j
  <2>1. j \in 1..(to - (from + 1) + 1) /\ j \in 1..Len(joined) /\ from + 1 + j - 1 = i BY <1>3
  <2>2. k \in 1..(Len(seen) + Len(joined)) /\ ~(k <= Len(seen)) /\ k - Len(seen) = j BY <1>5, <2>1
  <2> HIDE DEF j, k
  <2>3. joined[j] = all[i] BY <1>3, <2>1
  <2>4. now[k] = all[i] BY <1>4, <2>2, <2>3
  <2> QED BY <1>5, <2>2, <2>4 DEF Range
<1>8. from = 0 => Len(now) >= Len(seen) + to BY <1>3, <1>4, <1>5
<1> QED BY <1>4, <1>6, <1>7, <1>8 DEF now, joined

LEMMA StillListed ==
  ASSUME listed' = listed, ListedTyped
  PROVE  /\ ListedTyped'
         /\ \A q : Matching(q)' = Matching(q) /\ Ordered(q)' = Ordered(q) /\ \A r : Rank(r, q)' = Rank(r, q)
<1>1. ListedTyped' BY DEF ListedTyped, Made
<1>2. Made' = Made BY DEF Made
<1>3. \A q : \A e : filterBookings(e, q)' = filterBookings(e, q) BY DEF filterBookings
<1>4. \A q : Matching(q)' = Matching(q) BY <1>2, <1>3 DEF Matching
<1>5. \A q, e, f : SORT_ORDER(e, f, q)' = SORT_ORDER(e, f, q) BY DEF SORT_ORDER
<1>6. \A q, r : Rank(r, q)' = Rank(r, q) BY <1>4, <1>5 DEF Rank
<1>7. \A q : Ordered(q)' = Ordered(q) BY <1>4, <1>6 DEF Ordered
<1> QED BY <1>1, <1>4, <1>6, <1>7

LEMMA RowsRead ==
  ASSUME ListsInv, readRows
  PROVE  ListsInv'
<1> DEFINE q == walk.query
           all == Ordered(q)
           n == Len(all)
           from == pageOffset(walk.page, walk.size)
           to == Min({n, from + walk.size})
           now == walk.seen \o SubSeq(all, from + 1, to)
           w == [walk EXCEPT !.step = "count", !.seen = now]
<1>1. walk # NoWalk /\ walk.step = "rows" /\ walk' = w /\ stayed' = stayed /\ pulled' = pulled /\ changed' = changed /\ listed' = listed
  BY DEF readRows, Keep
<1>2. /\ walk \in Walks /\ q \in Asking /\ q.sort \in Sorts
      /\ walk.page \in Nat \ {0} /\ walk.size \in Nat \ {0} /\ walk.once \in BOOLEAN /\ walk.seen \in Seq(Entries)
  BY <1>1, WalkIs
<1>3. from \in Nat /\ walk.page * walk.size = from + walk.size /\ Cut(walk) = from BY <1>1, <1>2, PageAdds DEF Cut
<1>4. ListedTyped /\ stayed \subseteq Matching(q) /\ (walk.once => walk.page = 1) /\ (q \in ByAge => ~pulled)
      /\ Ahead(walk) /\ SoFar(walk)
  BY <1>1 DEF ListsInv
<1>5. /\ n \in Nat /\ all \in Seq(Entries) /\ n = Cardinality(Matching(q))
      /\ \A e \in Matching(q) : Rank(e, q) \in 0..(n - 1) /\ all[Rank(e, q) + 1] = e
  BY <1>2, <1>4, OrderedIs
<1>6. to \in Int /\ to <= n /\ to = IF n <= from + walk.size THEN n ELSE from + walk.size
  <2>1. from + walk.size \in Int BY <1>2, <1>3
  <2> HIDE DEF n, from
  <2>2. to = IF n <= from + walk.size THEN n ELSE from + walk.size BY <1>5, <2>1, PairLeast
  <2> QED BY <1>5, <2>1, <2>2
<1>7. /\ now \in Seq(Entries) /\ Range(walk.seen) \subseteq Range(now) /\ \A i \in (from + 1)..to : all[i] \in Range(now)
      /\ from = 0 => Len(now) >= Len(walk.seen) + to
  <2> HIDE DEF all, from, to
  <2> QED BY <1>2, <1>3, <1>5, <1>6, PageJoins DEF n
<1>8. /\ w.step = "count" /\ w.query = q /\ w.page = walk.page /\ w.size = walk.size /\ w.once = walk.once /\ w.seen = now
      /\ w \in Walks /\ w # NoWalk /\ Cut(w) = from + walk.size
  <2> HIDE DEF now, q, from
  <2>1. w.step = "count" /\ w.query = walk.query /\ w.page = walk.page /\ w.size = walk.size /\ w.once = walk.once /\ w.seen = now
    BY <1>2 DEF Walks
  <2>2. w \in Walks BY <1>2, <1>7 DEF Walks
  <2>3. w # NoWalk BY <2>1 DEF NoWalk
  <2>4. Cut(w) = w.page * w.size BY <2>1 DEF Cut
  <2> QED BY <1>3, <2>1, <2>2, <2>3, <2>4 DEF q
<1>9. /\ ListedTyped' /\ Matching(q)' = Matching(q) /\ Ordered(q)' = all /\ \A r : Rank(r, q)' = Rank(r, q)
  BY <1>1, <1>4, StillListed
<1> HIDE DEF all, n, from, to, now, w
<1>10. \A r \in stayed : r \in Range(walk.seen) \/ Rank(r, q) >= from => r \in Range(now) \/ Rank(r, q) >= from + walk.size
  <2> SUFFICES ASSUME NEW r \in stayed, Rank(r, q) >= from, ~(Rank(r, q) >= from + walk.size) PROVE r \in Range(now) BY <1>7
  <2> HIDE DEF q
  <2>1. r \in Matching(q) BY <1>4
  <2>2. Rank(r, q) \in 0..(n - 1) /\ all[Rank(r, q) + 1] = r BY <1>5, <2>1
  <2>3. Rank(r, q) + 1 \in (from + 1)..to BY <1>2, <1>3, <1>5, <1>6, <2>2, SMTT(30)
  <2> QED BY <1>7, <2>2, <2>3
<1>11. Ahead(walk)' BY <1>1, <1>3, <1>4, <1>8, <1>9, <1>10 DEF Ahead
<1>12. Seen(walk)'
  <2> SUFFICES ASSUME walk.once, Len(now) < walk.size PROVE stayed \subseteq Range(now) BY <1>1, <1>8 DEF Seen
  <2>1. from = 0 BY <1>2, <1>4, PageAdds DEF from
  <2>2. Len(now) >= to BY <1>2, <1>6, <1>7, <2>1
  <2>3. to = n BY <1>2, <1>5, <1>6, <1>7, <2>1, <2>2
  <2> SUFFICES ASSUME NEW r \in stayed PROVE r \in Range(now) OBVIOUS
  <2>4. r \in Matching(q) BY <1>4
  <2>5. Rank(r, q) \in 0..(n - 1) /\ all[Rank(r, q) + 1] = r BY <1>5, <2>4
  <2>6. Rank(r, q) + 1 \in (from + 1)..to BY <1>5, <2>1, <2>3, <2>5
  <2> QED BY <1>7, <2>5, <2>6
<1>13. SoFar(walk)'
  <2> SUFFICES ASSUME ~changed PROVE SoFar(walk)' BY <1>1 DEF SoFar
  <2>1. walk.seen = SubSeq(all, 1, Min({n, from})) /\ from <= n BY <1>1, <1>3, <1>4 DEF SoFar, all, n
  <2>2. Min({n, from}) = from BY <1>3, <1>5, <2>1, PairLeast
  <2>3. to \in from..n BY <1>2, <1>3, <1>5, <1>6, <2>1
  <2>4. 1 \in 1..(Len(all) + 1) /\ from \in (1 - 1)..Len(all) /\ to \in from..Len(all) BY <1>3, <1>5, <2>1, <2>3 DEF n
  <2>5. SubSeq(all, 1, from) \o SubSeq(all, from + 1, to) = SubSeq(all, 1, to) BY <1>5, <2>4, ConcatAdjacentSubSeq
  <2>6. now = SubSeq(all, 1, to) BY <2>1, <2>2, <2>5 DEF now
  <2> DEFINE rows == Ordered(walk.query)
  <2>7. rows' = all BY <1>1, <1>8, <1>9
  <2>8. Cut(walk)' = from + walk.size /\ walk'.seen = now /\ walk'.step = "count" BY <1>1, <1>8
  <2> HIDE DEF rows
  <2>9. Min({Len(rows'), Cut(walk)'}) = to BY <2>7, <2>8 DEF to, n
  <2>10. walk'.seen = SubSeq(rows', 1, Min({Len(rows'), Cut(walk)'})) BY <2>6, <2>8, <2>9, <2>7
  <2> QED BY <2>8, <2>10 DEF SoFar, rows
<1> QED BY <1>1, <1>4, <1>8, <1>9, <1>11, <1>12, <1>13 DEF ListsInv

LEMMA TotalRead ==
  ASSUME ListsInv, readTotal
  PROVE  ListsInv'
<1> DEFINE q == walk.query
           all == Ordered(q)
           total == Cardinality(Matching(q))
           upto == walk.page * walk.size
           ends == walk.once \/ upto >= total
           w == IF ends THEN [walk EXCEPT !.step = "done", !.total = total]
                ELSE [walk EXCEPT !.step = "rows", !.total = total, !.page = @ + 1]
<1>1. walk # NoWalk /\ walk.step = "count" /\ walk' = w /\ stayed' = stayed /\ pulled' = pulled /\ changed' = changed /\ listed' = listed
  BY DEF readTotal, Keep
<1>2. /\ walk \in Walks /\ q \in Asking /\ q.sort \in Sorts
      /\ walk.page \in Nat \ {0} /\ walk.size \in Nat \ {0} /\ walk.once \in BOOLEAN /\ walk.seen \in Seq(Entries)
  BY <1>1, WalkIs
<1>3. upto \in Nat /\ pageOffset(walk.page + 1, walk.size) = upto /\ Cut(walk) = upto BY <1>1, <1>2, PageAdds DEF Cut
<1>4. ListedTyped /\ stayed \subseteq Matching(q) /\ (walk.once => walk.page = 1) /\ (q \in ByAge => ~pulled)
      /\ Ahead(walk) /\ Seen(walk) /\ SoFar(walk)
  BY <1>1 DEF ListsInv
<1>5. /\ total \in Nat /\ Len(all) = total
      /\ \A e \in Matching(q) : Rank(e, q) \in 0..(total - 1)
  BY <1>2, <1>4, OrderedIs
<1>6. /\ w.step = (IF ends THEN "done" ELSE "rows") /\ w.query = q /\ w.size = walk.size /\ w.once = walk.once /\ w.seen = walk.seen
      /\ w.total = total /\ w.page = (IF ends THEN walk.page ELSE walk.page + 1) /\ w \in Walks /\ w # NoWalk /\ Cut(w) = upto
  <2> HIDE DEF ends, total, q, upto
  <2>1. CASE ends
    <3>1. w.step = "done" /\ w.query = walk.query /\ w.page = walk.page /\ w.size = walk.size /\ w.once = walk.once /\ w.seen = walk.seen
          /\ w.total = total
      BY <1>2, <2>1 DEF Walks
    <3>2. w \in Walks BY <1>2, <1>5, <2>1 DEF Walks
    <3>3. w # NoWalk BY <3>1 DEF NoWalk
    <3>4. Cut(w) = w.page * w.size BY <3>1 DEF Cut
    <3>5. Cut(w) = upto BY <3>1, <3>4 DEF upto
    <3> HIDE DEF w
    <3> QED BY <2>1, <3>1, <3>2, <3>3, <3>5 DEF q
  <2>2. CASE ~ends
    <3>1. w.step = "rows" /\ w.query = walk.query /\ w.page = walk.page + 1 /\ w.size = walk.size /\ w.once = walk.once /\ w.seen = walk.seen
          /\ w.total = total
      BY <1>2, <2>2 DEF Walks
    <3>2. w \in Walks
      <4>1. walk.page + 1 \in Nat \ {0} /\ "rows" \in {"rows", "count", "done"} /\ total \in Nat BY <1>2, <1>5
      <4> QED BY <1>2, <2>2, <4>1 DEF Walks
    <3>3. w # NoWalk BY <3>1 DEF NoWalk
    <3>4. Cut(w) = pageOffset(w.page, w.size) BY <3>1 DEF Cut
    <3>5. Cut(w) = upto BY <1>3, <3>1, <3>4
    <3> HIDE DEF w
    <3> QED BY <2>2, <3>1, <3>2, <3>3, <3>5 DEF q
  <2> QED BY <2>1, <2>2
<1>7. /\ ListedTyped' /\ Matching(q)' = Matching(q) /\ Ordered(q)' = all /\ \A r : Rank(r, q)' = Rank(r, q)
  BY <1>1, <1>4, StillListed
<1>8. ~ends => ~walk.once /\ upto < total BY <1>3, <1>5
<1>9. ends /\ ~walk.once => upto >= total OBVIOUS
<1> HIDE DEF all, total, upto, w, ends
<1>10. Ahead(walk)' BY <1>1, <1>3, <1>4, <1>6, <1>7 DEF Ahead
<1>11. Seen(walk)'
  <2>1. ASSUME walk.once, Len(walk.seen) < walk.size PROVE stayed \subseteq Range(walk.seen) BY <1>1, <1>4, <2>1 DEF Seen
  <2>2. ASSUME ends, ~walk.once, ~pulled PROVE stayed \subseteq Range(walk.seen)
    <3> SUFFICES ASSUME NEW r \in stayed PROVE r \in Range(walk.seen) OBVIOUS
    <3>1. r \in Range(walk.seen) \/ Rank(r, q) >= upto BY <1>3, <1>4, <2>2 DEF Ahead
    <3>2. Rank(r, q) \in 0..(total - 1) BY <1>4, <1>5
    <3>3. upto >= total BY <1>9, <2>2
    <3> QED BY <1>3, <1>5, <3>1, <3>2, <3>3
  <2>3. walk'.step = (IF ends THEN "done" ELSE "rows") /\ walk'.once = walk.once /\ walk'.seen = walk.seen /\ walk'.size = walk.size
        /\ stayed' = stayed /\ pulled' = pulled
    BY <1>1, <1>6
  <2> QED BY <2>1, <2>2, <2>3 DEF Seen
<1>12. SoFar(walk)'
  <2> SUFFICES ASSUME ~changed PROVE SoFar(walk)' BY <1>1 DEF SoFar
  <2>1. walk.seen = SubSeq(all, 1, Min({Len(all), upto})) BY <1>3, <1>4 DEF SoFar, all
  <2> DEFINE rows == Ordered(walk.query)
  <2>2. rows' = all BY <1>1, <1>6, <1>7
  <2>3. Cut(walk)' = upto /\ walk'.seen = walk.seen /\ walk'.total = total /\ walk'.once = walk.once
        /\ walk'.step = (IF ends THEN "done" ELSE "rows")
    BY <1>1, <1>6
  <2> HIDE DEF rows
  <2>4. walk'.seen = SubSeq(rows', 1, Min({Len(rows'), Cut(walk)'})) BY <2>1, <2>2, <2>3
  <2>5. walk'.step = "rows" => Cut(walk)' <= Len(rows') BY <1>3, <1>5, <1>8, <2>2, <2>3
  <2>6. walk'.step = "done" => walk'.total = Len(rows') BY <1>5, <2>2, <2>3
  <2>7. walk'.step = "done" /\ ~walk'.once => Cut(walk)' >= Len(rows') BY <1>5, <1>9, <2>2, <2>3
  <2> QED BY <2>4, <2>5, <2>6, <2>7 DEF SoFar, rows
<1>13. walk'.once => walk'.page = 1 BY <1>1, <1>4, <1>6, <1>8
<1> QED BY <1>1, <1>4, <1>6, <1>7, <1>10, <1>11, <1>12, <1>13 DEF ListsInv

LEMMA MatchAll ==
  ASSUME NEW q \in ByAge
  PROVE  /\ Matching(q) = Made /\ Matching(q)' = Made'
         /\ q.sort = "newest" \/ q.sort = "oldest"
<1>1. /\ q.sort = "newest" \/ q.sort = "oldest"
      /\ q.status = NoFilter /\ q.kind = NoFilter /\ q.from = NoFilter /\ q.to = NoFilter /\ q.words = <<>>
  BY DEF ByAge, Unfiltered
<1>2. searchTerms(q) = {}
  <2>1. Len(q.words) = 0 /\ MaxTerms \in Nat BY <1>1, ListsAssumption
  <2>2. Min({MaxTerms, 0}) = 0 BY <2>1, PairLeast
  <2> QED BY <2>1, <2>2 DEF searchTerms
<1>3. \A e : filterBookings(e, q) BY <1>1, <1>2 DEF filterBookings
<1>4. \A e : filterBookings(e, q)' BY <1>1, <1>2 DEF filterBookings
<1> QED BY <1>1, <1>3, <1>4 DEF Matching

(* A row written: kept to its type, as old as it was or newer than all.    *)
LEMMA EntryWritten ==
  ASSUME ListedTyped, NEW e \in Entries, NEW r \in Rows, add(e, r) \/ change(e, r)
  PROVE  /\ ListedTyped' /\ Made \in SUBSET Made' /\ \A f \in Made : listed'[f].made = listed[f].made
         /\ \E entry : Write(e, entry)
<1>1. /\ Made \in SUBSET Entries /\ IsFiniteSet(Made)
      /\ \A f \in Made : listed[f] \in [made : Nat \ {0}, row : Rows] /\ listed[f].made \in Nat /\ listed[f].row \in Rows
  BY ListedAre
<1>2. \A f, g \in Made : listed[f].made = listed[g].made => f = g BY DEF ListedTyped
<1>3. DOMAIN listed = Entries /\ listed \in [Entries -> {NoEntry} \cup [made : Nat \ {0}, row : Rows]] BY DEF ListedTyped
<1>4. CASE add(e, r)
  <2> DEFINE ages == {0} \cup {listed[f].made : f \in Made}
             m == Max(ages) + 1
             entry == [made |-> m, row |-> r]
  <2>1. e \notin Made BY <1>4 DEF add, Made
  <2>2. listed' = [listed EXCEPT ![e] = entry] /\ Write(e, entry) BY <1>4 DEF add, Write
  <2>3. IsFiniteSet(ages)
    <3> DEFINE age == [f \in Made |-> listed[f].made]
    <3>1. {age[f] : f \in Made} = {listed[f].made : f \in Made} OBVIOUS
    <3>2. IsFiniteSet({age[f] : f \in Made})
      <4> HIDE DEF age
      <4> QED BY <1>1, ImageFinite
    <3>3. ages = {listed[f].made : f \in Made} \cup {0} OBVIOUS
    <3> QED BY <3>1, <3>2, <3>3, FS_AddElement
  <2>4. 0 \in ages /\ (\A x \in ages : x \in Int) /\ \A f \in Made : listed[f].made \in ages BY <1>1
  <2>5. m \in Nat \ {0} /\ \A f \in Made : listed[f].made < m
    <3> HIDE DEF ages
    <3>1. Max(ages) \in ages /\ \A x \in ages : x <= Max(ages) BY <2>3, <2>4, MaxIs
    <3> QED BY <2>4, <3>1
  <2> HIDE DEF ages, m
  <2>6. entry \in [made : Nat \ {0}, row : Rows] /\ entry.made = m /\ entry # NoEntry
    <3>1. entry.made = m /\ m # 0 BY <2>5
    <3> QED BY <2>5, <3>1 DEF NoEntry
  <2> HIDE DEF entry
  <2>7. \A f \in Entries : listed'[f] = IF f = e THEN entry ELSE listed[f] BY <1>3, <2>2
  <2>8. Made' = Made \cup {e} BY <2>6, <2>7 DEF Made
  <2>9. listed' \in [Entries -> {NoEntry} \cup [made : Nat \ {0}, row : Rows]] BY <1>3, <2>2, <2>6
  <2>10. \A f \in Made : listed'[f].made = listed[f].made BY <1>1, <2>1, <2>7
  <2>11. listed'[e].made = m BY <2>6, <2>7
  <2>12. \A f, g \in Made' : listed'[f].made = listed'[g].made => f = g
    <3> SUFFICES ASSUME NEW f \in Made', NEW g \in Made', listed'[f].made = listed'[g].made, f # g PROVE FALSE OBVIOUS
    <3>1. CASE f \in Made /\ g \in Made BY <1>2, <2>10, <3>1
    <3>2. CASE f = e
      <4>1. g \in Made BY <2>8, <3>2
      <4>2. listed[g].made < m /\ listed[g].made \in Nat /\ listed'[g].made = listed[g].made BY <1>1, <2>5, <2>10, <4>1
      <4> QED BY <2>5, <2>11, <3>2, <4>2
    <3>3. CASE g = e
      <4>1. f \in Made BY <2>8, <3>3
      <4>2. listed[f].made < m /\ listed[f].made \in Nat /\ listed'[f].made = listed[f].made BY <1>1, <2>5, <2>10, <4>1
      <4> QED BY <2>5, <2>11, <3>3, <4>2
    <3> QED BY <2>8, <3>1, <3>2, <3>3
  <2> QED BY <2>2, <2>8, <2>9, <2>10, <2>12 DEF ListedTyped
<1>5. CASE change(e, r)
  <2> DEFINE entry == [listed[e] EXCEPT !.row = r]
  <2>1. e \in Made BY <1>5 DEF change, Made
  <2>2. listed' = [listed EXCEPT ![e] = entry] /\ Write(e, entry) BY <1>5 DEF change, Write
  <2>3. entry \in [made : Nat \ {0}, row : Rows] /\ entry.made = listed[e].made
    <3>1. listed[e] \in [made : Nat \ {0}, row : Rows] BY <1>1, <2>1
    <3> QED BY <3>1
  <2>4. entry # NoEntry
    <3>1. entry.made \in Nat \ {0} BY <2>3
    <3> HIDE DEF entry
    <3> QED BY <3>1 DEF NoEntry
  <2> HIDE DEF entry
  <2>5. \A f \in Entries : listed'[f] = IF f = e THEN entry ELSE listed[f] BY <1>3, <2>2
  <2>6. Made' = Made BY <2>1, <2>4, <2>5 DEF Made
  <2>7. listed' \in [Entries -> {NoEntry} \cup [made : Nat \ {0}, row : Rows]] BY <1>3, <2>2, <2>3
  <2>8. \A f \in Made : listed'[f].made = listed[f].made BY <1>1, <2>3, <2>5
  <2>9. \A f, g \in Made' : listed'[f].made = listed'[g].made => f = g BY <1>2, <2>6, <2>8
  <2> QED BY <2>2, <2>6, <2>7, <2>8, <2>9 DEF ListedTyped
<1> QED BY <1>4, <1>5

(* In a list by age no row moves towards the front: whoever was ahead still*)
(* is.                                                                     *)
LEMMA NonePulled ==
  ASSUME ListedTyped, NEW q \in ByAge, Made \in SUBSET Made', \A f \in Made : listed'[f].made = listed[f].made, NEW r \in Made
  PROVE  Rank(r, q) <= Rank(r, q)'
<1> DEFINE ahead == {f \in Matching(q) : SORT_ORDER(f, r, q)}
<1>1. Matching(q) = Made /\ Matching(q)' = Made' /\ (q.sort = "newest" \/ q.sort = "oldest") BY MatchAll
<1>2. \A f \in Made : SORT_ORDER(f, r, q) => SORT_ORDER(f, r, q)'
  <2>1. CASE q.sort = "newest" BY <2>1 DEF SORT_ORDER
  <2>2. CASE q.sort = "oldest" BY <2>2 DEF SORT_ORDER
  <2> QED BY <1>1, <2>1, <2>2
<1>3. ahead \in SUBSET (ahead') BY <1>1, <1>2
<1>4. ahead' \in SUBSET Entries BY DEF Matching, Made
<1>5. Rank(r, q) = Cardinality(ahead) /\ Rank(r, q)' = Cardinality(ahead') BY DEF Rank
<1>6. IsFiniteSet(ahead')
  <2> HIDE DEF ahead
  <2> QED BY <1>4, ListsAssumption, FS_Subset
<1> HIDE DEF ahead
<1> QED BY <1>3, <1>5, <1>6, FS_Subset

LEMMA RowWritten ==
  ASSUME ListsInv, NEW e \in Entries, NEW r \in Rows, add(e, r) \/ change(e, r)
  PROVE  ListsInv'
<1> DEFINE q == walk.query
<1>1. ListedTyped BY DEF ListsInv
<1>2. ListedTyped' /\ Made \in SUBSET Made' /\ \A f \in Made : listed'[f].made = listed[f].made BY <1>1, EntryWritten
<1>3. PICK entry : Write(e, entry) BY <1>1, EntryWritten
<1>4. walk' = walk /\ changed' = TRUE BY <1>3 DEF Write
<1>5. CASE walk = NoWalk
  <2>1. pulled' = pulled BY <1>3, <1>5 DEF Write
  <2> QED BY <1>2, <1>4, <1>5, <2>1 DEF ListsInv
<1>6. CASE walk # NoWalk
  <2>1. /\ stayed \subseteq Matching(q) /\ (walk.once => walk.page = 1) /\ (q \in ByAge => ~pulled) /\ Ahead(walk) /\ Seen(walk)
    BY <1>6 DEF ListsInv
  <2>2. stayed' = stayed \cap Matching(q)' BY <1>3, <1>4, <1>6 DEF Write
  <2>3. pulled' = (pulled \/ \E f \in stayed' : Rank(f, q)' < Rank(f, q)) BY <1>3, <1>4, <1>6 DEF Write
  <2>4. pulled' \in BOOLEAN /\ (~pulled' => ~pulled /\ \A f \in stayed' : ~(Rank(f, q)' < Rank(f, q)))
    <3>1. pulled \in BOOLEAN BY DEF ListsInv
    <3> QED BY Zenon, <2>3, <3>1
  <2>5. Ahead(walk)'
    <3> SUFFICES ASSUME ~pulled', NEW f \in stayed' PROVE f \in Range(walk'.seen) \/ Rank(f, walk.query)' >= Cut(walk)' BY DEF Ahead
    <3>1. f \in stayed /\ ~(Rank(f, q)' < Rank(f, q)) /\ ~pulled BY <2>2, <2>4
    <3>2. f \in Range(walk.seen) \/ Rank(f, q) >= Cut(walk) BY <2>1, <3>1 DEF Ahead
    <3>3. Rank(f, q) \in Nat /\ Rank(f, q)' \in Nat BY RankNat
    <3>4. walk' = walk /\ Cut(walk)' = Cut(walk) /\ Rank(f, walk.query)' = Rank(f, q)' BY <1>4
    <3>5. Cut(walk) \in Int
      <4>1. walk.page \in Nat \ {0} /\ walk.size \in Nat \ {0} BY <1>6, WalkIs
      <4>2. pageOffset(walk.page, walk.size) \in Nat /\ walk.page * walk.size \in Nat BY <4>1, PageAdds
      <4> QED BY <4>2 DEF Cut
    <3> QED BY <3>1, <3>2, <3>3, <3>4, <3>5
  <2>6. Seen(walk)' BY <1>4, <2>1, <2>2, <2>4 DEF Seen
  <2>7. q \in ByAge => ~pulled'
    <3> SUFFICES ASSUME q \in ByAge, NEW f \in stayed', Rank(f, q)' < Rank(f, q) PROVE FALSE BY Zenon, <2>1, <2>3
    <3>1. f \in Made BY <2>1, <2>2 DEF Matching
    <3>2. Rank(f, q) <= Rank(f, q)' BY <1>1, <1>2, <1>4, <3>1, NonePulled
    <3>3. Rank(f, q) \in Nat /\ Rank(f, q)' \in Nat BY RankNat
    <3> QED BY <3>2, <3>3
  <2>8. SoFar(walk)' BY <1>4 DEF SoFar
  <2>9. stayed' \subseteq Matching(walk.query)' BY <1>4, <2>2
  <2> QED BY <1>2, <1>4, <2>1, <2>4, <2>5, <2>6, <2>7, <2>8, <2>9 DEF ListsInv
<1> QED BY <1>5, <1>6

LEMMA ListsStep == ListsInv /\ [ListsNext]_listVars => ListsInv'
<1> SUFFICES ASSUME ListsInv, [ListsNext]_listVars PROVE ListsInv' OBVIOUS
<1>1. ASSUME NEW q \in Asking, NEW size \in 1..Max({MaxPageSize, ExportSize}), NEW once \in BOOLEAN, Walk(q, size, once) PROVE ListsInv'
  BY <1>1, WalkBegins
<1>2. \A q \in Queries : q \in Asking BY DEF Asking
<1>3. Unfiltered \in Asking BY DEF Asking
<1>4. \A asked \in PageSizes : resolvePaging(asked) \in 1..Max({MaxPageSize, ExportSize}) BY SizeIs, ListsAssumption
<1>5. ExportSize \in 1..Max({MaxPageSize, ExportSize})
  <2>1. 0 \in Int OBVIOUS
  <2> QED BY <2>1, SizeIs
<1>6. ASSUME NEW asked \in PageSizes, listQuotes(asked) PROVE ListsInv'
  <2>1. Walk(Unfiltered, resolvePaging(asked), FALSE) BY <1>6 DEF listQuotes
  <2> QED BY <1>1, <1>3, <1>4, <2>1
<1>7. ASSUME NEW asked \in PageSizes, NEW q \in Queries, list(q, asked) \/ listApplications(q, asked) PROVE ListsInv'
  <2>1. Walk(q, resolvePaging(asked), FALSE) BY <1>7 DEF list, listApplications
  <2> QED BY <1>1, <1>2, <1>4, <2>1
<1>8. ASSUME NEW q \in Queries, exportApplications(q) PROVE ListsInv'
  <2>1. Walk(q, ExportSize, TRUE) BY <1>8 DEF exportApplications
  <2> QED BY <1>1, <1>2, <1>5, <2>1
<1>9. ASSUME leave PROVE ListsInv'
  <2>1. walk' = NoWalk /\ listed' = listed /\ pulled' = pulled /\ changed' = changed BY <1>9 DEF leave, Keep
  <2> QED BY <2>1, StillListed DEF ListsInv
<1>10. CASE UNCHANGED listVars
  <2>1. walk' = walk /\ listed' = listed /\ stayed' = stayed /\ pulled' = pulled /\ changed' = changed BY <1>10 DEF listVars
  <2>2. ListedTyped' /\ \A q : Matching(q)' = Matching(q) /\ Ordered(q)' = Ordered(q) /\ \A r : Rank(r, q)' = Rank(r, q)
    BY <2>1, StillListed DEF ListsInv
  <2> QED BY <2>1, <2>2 DEF ListsInv, Ahead, Seen, SoFar
<1> QED BY <1>6, <1>7, <1>8, <1>9, <1>10, RowsRead, TotalRead, RowWritten DEF ListsNext

LEMMA ListsSafe == ListsInv => ListsHold /\ ListsTypeOK
<1> SUFFICES ASSUME ListsInv PROVE ListsHold /\ ListsTypeOK OBVIOUS
<1>1. NoneSkipped
  <2> SUFFICES ASSUME walk # NoWalk, walk.step = "done", walk.query \in ByAge \/ ~pulled, walk.once => Len(walk.seen) < walk.size
               PROVE  stayed \subseteq Range(walk.seen)
    BY DEF NoneSkipped, ByAge
  <2>1. ~pulled /\ Seen(walk) BY DEF ListsInv
  <2>2. walk.once \in BOOLEAN BY WalkIs
  <2> QED BY <2>1, <2>2 DEF Seen
<1>2. PagesAreList
  <2> SUFFICES ASSUME walk # NoWalk, walk.step = "done", ~changed
               PROVE  LET all == Ordered(walk.query) IN
                      /\ walk.seen = SubSeq(all, 1, Min({Len(all), IF walk.once THEN walk.size ELSE Len(all)}))
                      /\ walk.total = Len(all)
    BY DEF PagesAreList
  <2> DEFINE all == Ordered(walk.query)
             n == Len(all)
  <2>1. /\ walk.page \in Nat \ {0} /\ walk.size \in Nat \ {0} /\ walk.once \in BOOLEAN /\ walk.query.sort \in Sorts BY WalkIs
  <2>2. ListedTyped /\ (walk.once => walk.page = 1) /\ SoFar(walk) BY DEF ListsInv
  <2>3. n \in Nat BY <2>1, <2>2, OrderedIs
  <2>4. Cut(walk) = walk.page * walk.size BY DEF Cut
  <2>5. walk.seen = SubSeq(all, 1, Min({n, Cut(walk)})) /\ walk.total = n /\ (~walk.once => Cut(walk) >= n) BY <2>2 DEF SoFar
  <2>6. Min({n, Cut(walk)}) = Min({n, IF walk.once THEN walk.size ELSE n})
    <3>1. Cut(walk) \in Nat BY <2>1, <2>4, PageAdds
    <3>2. CASE walk.once
      <4>1. Cut(walk) = walk.size BY <2>1, <2>2, <2>4, <3>2, PageAdds
      <4> QED BY <3>2, <4>1
    <3>3. CASE ~walk.once
      <4>1. Cut(walk) >= n BY <2>5, <3>3
      <4> HIDE DEF n
      <4>2. Min({n, Cut(walk)}) = n /\ Min({n, n}) = n BY <2>3, <3>1, <4>1, PairLeast
      <4> QED BY <3>3, <4>2
    <3> QED BY <2>1, <3>2, <3>3
  <2> QED BY <2>5, <2>6
<1>3. ListsTypeOK
  <2>1. ListedTyped BY DEF ListsInv
  <2>2. ASSUME walk # NoWalk PROVE walk.page >= 1 /\ walk.size \in 1..Max({MaxPageSize, ExportSize}) /\ stayed \subseteq Made
    <3>1. walk.page \in Nat \ {0} BY <2>2, WalkIs
    <3>2. walk.size \in 1..Max({MaxPageSize, ExportSize}) BY <2>2 DEF ListsInv, Walks
    <3>3. stayed \subseteq Made BY <2>2 DEF ListsInv, Matching
    <3> QED BY <3>1, <3>2, <3>3
  <2> QED BY <2>1, <2>2 DEF ListsTypeOK, ListedTyped
<1> QED BY <1>1, <1>2, <1>3 DEF ListsHold
-----------------------------------------------------------------------------
(***************************************************************************)
(* The catalog.                                                            *)
(***************************************************************************)

(* The categories come back in the order the server gives them, though     *)
(* they are read in none.                                                  *)
CategoriesAre(d, g) == mapCategories(g) = Map(CAT_ORDER, LAMBDA k : [key |-> k, val |-> d.CAT[k]])
LEMMA CategoriesKept == ASSUME NEW d, NEW g, Reading("categories", seedCategories(d), g.categories) PROVE CategoriesAre(d, g)
<1> DEFINE n == Len(CAT_ORDER)
           s == g.categories
           v == [i \in 1..n |-> [key |-> CAT_ORDER[i], val |-> d.CAT[CAT_ORDER[i]]]]
           S == RowsOf(<<>>, v)
           keys == [i \in DOMAIN s |-> catRank(s[i].val.key)]
           place == [k \in 1..n |-> CHOOSE i \in DOMAIN s : s[i] = RowAt(<<>>, v, k)]
<1>1. n \in Nat /\ DOMAIN CAT_ORDER = 1..n BY CatalogAssumption DEF TextList
<1>2. \A i, j \in 1..n : CAT_ORDER[i] = CAT_ORDER[j] => i = j BY <1>1, CatalogAssumption
<1> HIDE DEF n
<1>3. seedCategories(d) = S BY <1>1 DEF seedCategories, insert
<1>4. DOMAIN v = 1..n /\ \A i \in 1..n : v[i].key = CAT_ORDER[i] OBVIOUS
<1>5. Map(CAT_ORDER, LAMBDA k : [key |-> k, val |-> d.CAT[k]]) = v BY <1>1 DEF Map
<1> HIDE DEF v
<1>6. Reading("categories", S, s) BY <1>3
<1>7. Cardinality(S) = n BY <1>1, <1>4, RowCount
<1>8. \A r \in S : \E k \in 1..n : r = RowAt(<<>>, v, k) BY <1>4, RowsAre
<1>9. \A k \in 1..n : RowAt(<<>>, v, k) \in S BY <1>4, RowsAre
<1> HIDE DEF S
<1>10. DOMAIN s = 1..n /\ (\A i \in 1..n : s[i] \in S) /\ \A r \in S : \E i \in DOMAIN s : s[i] = r
  <2>1. DOMAIN s = 1..n BY <1>6, <1>7, ReadingIs
  <2>2. s \in [DOMAIN s -> S] BY <1>6, ReadingIs
  <2>3. \A r \in S : \E i \in DOMAIN s : s[i] = r BY <1>6, ReadingIs
  <2> QED BY <2>1, <2>2, <2>3
<1>11. ASSUME NEW k \in 1..n PROVE catRank(CAT_ORDER[k]) = k
  <2>1. CAT_ORDER[k] \in Range(CAT_ORDER) BY <1>1 DEF Range
  <2>2. k \in 1..Len(CAT_ORDER) + 1 /\ ~(k > Len(CAT_ORDER)) BY <1>1 DEF n
  <2>3. ASSUME NEW i \in 1..Len(CAT_ORDER) + 1, IF i > Len(CAT_ORDER) THEN CAT_ORDER[k] \notin Range(CAT_ORDER) ELSE CAT_ORDER[i] = CAT_ORDER[k]
        PROVE  i = k
    <3>1. ~(i > Len(CAT_ORDER)) BY <2>1, <2>3
    <3>2. i \in 1..n BY <1>1, <3>1 DEF n
    <3> QED BY <1>2, <2>3, <3>1, <3>2
  <2> QED BY <2>2, <2>3 DEF catRank
<1>12. ASSUME NEW k \in 1..n PROVE place[k] \in 1..n /\ s[place[k]] = RowAt(<<>>, v, k)
  <2>1. \E i \in DOMAIN s : s[i] = RowAt(<<>>, v, k) BY <1>9, <1>10
  <2> QED BY <1>10, <2>1
<1> HIDE DEF place
<1>13. ASSUME NEW k \in 1..n PROVE keys[place[k]] = k
  <2>0. RowAt(<<>>, v, k).val = v[k] BY RowAtIs
  <2>1. s[place[k]].val.key = CAT_ORDER[k] BY <1>4, <1>12, <2>0
  <2>2. keys[place[k]] = catRank(CAT_ORDER[k]) BY <1>10, <1>12, <2>1
  <2> QED BY <1>11, <2>2
<1>14. place \in [1..n -> 1..n]
  <2>1. DOMAIN place = 1..n /\ place = [k \in 1..n |-> place[k]] BY DEF place
  <2> QED BY <1>12, <2>1
<1>15. \A i \in 1..n : \E k \in 1..n : place[k] = i
  <2> SUFFICES ASSUME NEW i \in 1..n PROVE \E k \in 1..n : place[k] = i OBVIOUS
  <2>1. PICK k \in 1..n : s[i] = RowAt(<<>>, v, k) BY <1>8, <1>10
  <2>2. s[place[k]] = s[i] /\ place[k] \in 1..n BY <1>12, <2>1
  <2>3. \A a, b \in DOMAIN s : s[a] = s[b] => a = b BY <1>6, ReadingIs
  <2>4. place[k] = i BY <1>10, <2>2, <2>3
  <2> QED BY <2>4
<1> HIDE DEF keys
<1>16. KeysRise(place, n, keys)
  <2>1. \A i \in 1..n : keys[i] \in Int BY <1>13, <1>15
  <2>2. \A j, k \in 1..n : j < k => keys[place[j]] < keys[place[k]] BY <1>13
  <2> QED BY <1>1, <1>14, <1>15, <2>1, <2>2 DEF KeysRise
<1> DEFINE w == Vals(s)
<1>17. DOMAIN w = 1..n /\ \A i \in 1..n : w[i] = s[i].val BY <1>10 DEF Vals, Map
<1>18. mapCategories(g) = SortBy(w, keys) BY DEF mapCategories, Map, keys
<1> HIDE DEF w
<1>19. DOMAIN SortBy(w, keys) = 1..n /\ \A k \in 1..n : SortBy(w, keys)[k] = w[place[k]] BY <1>1, <1>16, <1>17, SortedBy
<1>20. \A k \in 1..n : SortBy(w, keys)[k] = v[k]
  <2> SUFFICES ASSUME NEW k \in 1..n PROVE SortBy(w, keys)[k] = v[k] OBVIOUS
  <2>1. s[place[k]].val = v[k] BY <1>12, RowAtIs
  <2>2. w[place[k]] = v[k] BY <1>12, <1>17, <2>1
  <2> QED BY <1>19, <2>2
<1>21. SortBy(w, keys) = [k \in DOMAIN SortBy(w, keys) |-> SortBy(w, keys)[k]] BY DEF SortBy
<1>22. v = [k \in 1..n |-> v[k]] BY DEF v
<1>23. SortBy(w, keys) = v BY <1>19, <1>20, <1>21, <1>22
<1> QED BY <1>5, <1>18, <1>23 DEF CategoriesAre

(* A list without order is still all there.                                *)
LEMMA EntryKept ==
  ASSUME NEW d, NEW g, Reading("settings", insert(d.ENTRY), g.settings),
         \A i, j \in DOMAIN d.ENTRY : d.ENTRY[i].key = d.ENTRY[j].key => i = j, NEW i \in DOMAIN d.ENTRY
  PROVE  entrySettings(g)[d.ENTRY[i].key] = d.ENTRY[i].price
<1> DEFINE S == RowsOf(<<>>, d.ENTRY)
           R == Range(g.settings)
           k == d.ENTRY[i].key
           own == RowAt(<<>>, d.ENTRY, i)
<1>1. Reading("settings", S, g.settings) BY DEF insert
<1>2. \A r \in S : \E j \in DOMAIN d.ENTRY : r = RowAt(<<>>, d.ENTRY, j) BY RowsAre
<1>3. own \in S BY RowsAre
<1> HIDE DEF S
<1>4. R \subseteq S
  <2>1. g.settings \in [DOMAIN g.settings -> S] BY <1>1, ReadingIs
  <2> QED BY <2>1 DEF Range
<1>5. own \in R
  <2>1. \E j \in DOMAIN g.settings : g.settings[j] = own BY <1>1, <1>3, ReadingIs
  <2> QED BY <2>1 DEF Range
<1>6. own.val = d.ENTRY[i] BY RowAtIs
<1> HIDE DEF own
<1>7. ASSUME NEW r \in R, r.val.key = k PROVE r = own
  <2>1. PICK j \in DOMAIN d.ENTRY : r = RowAt(<<>>, d.ENTRY, j) BY <1>2, <1>4
  <2>2. r.val = d.ENTRY[j] BY <2>1, RowAtIs
  <2>3. j = i BY <1>7, <2>2
  <2> QED BY <2>1, <2>3 DEF own
<1>8. (CHOOSE r \in R : r.val.key = k) = own BY <1>5, <1>6, <1>7
<1>9. k \in {r.val.key : r \in R} BY <1>5, <1>6
<1> HIDE DEF k, R
<1>10. entrySettings(g)[k] = (CHOOSE r \in R : r.val.key = k).val.price BY <1>9 DEF entrySettings, R
<1> QED BY <1>6, <1>8, <1>10 DEF k

(* Packs: what they are and, in a table of its own, what they hold.        *)
PackHolds(s, items, els) ==
  /\ els \in Seq(PackDto) /\ DOMAIN s = DOMAIN els
  /\ \A k \in DOMAIN els : s[k].val = els[k].val /\ Vals(groupBy(items, s[k].id)) = els[k].items

LEMMA PacksOf == ASSUME NEW s, NEW items, NEW els, PackHolds(s, items, els) PROVE withItems(s, items) = els
<1>1. /\ els \in Seq(PackDto) /\ DOMAIN s = DOMAIN els
      /\ \A k \in DOMAIN els : s[k].val = els[k].val /\ Vals(groupBy(items, s[k].id)) = els[k].items
  BY DEF PackHolds
<1>2. withItems(s, items) = [k \in DOMAIN els |-> [val |-> s[k].val, items |-> Vals(groupBy(items, s[k].id))]] BY <1>1 DEF withItems, Map
<1>3. els = [k \in DOMAIN els |-> els[k]] BY <1>1
<1>4. \A k \in DOMAIN els : els[k] = [val |-> els[k].val, items |-> els[k].items]
  <2> SUFFICES ASSUME NEW k \in DOMAIN els PROVE els[k] = [val |-> els[k].val, items |-> els[k].items] OBVIOUS
  <2>1. els[k] \in PackDto BY <1>1
  <2> QED BY <2>1 DEF PackDto
<1>5. \A k \in DOMAIN els : [val |-> s[k].val, items |-> Vals(groupBy(items, s[k].id))] = els[k] BY <1>1, <1>4
<1> QED BY <1>2, <1>3, <1>5

LEMMA ListIsId == (\A els \in TextList : IsId(els)) /\ \A els \in Seq(PackDto) : \A k \in DOMAIN els : els[k] \in PackDto /\ IsId(els[k].items)
<1>1. \A els \in TextList : IsId(els) BY DEF TextList, IsId
<1>2. ASSUME NEW els \in Seq(PackDto), NEW k \in DOMAIN els PROVE els[k] \in PackDto /\ els[k].items \in TextList
  <2>1. els[k] \in PackDto OBVIOUS
  <2> QED BY <2>1 DEF PackDto
<1> QED BY <1>1, <1>2

LEMMA TextedIs ==
  ASSUME NEW els \in Seq(PackDto), NEW t, t \notin ByNothing, NEW u, u \notin ByNothing,
         NEW s, Reading(t, Texted(els), s), NEW items, Reading(u, Items(els), items)
  PROVE  withItems(s, items) = els
<1> DEFINE n == Len(els)
           v == [i \in DOMAIN els |-> els[i].val]
           w == [i \in DOMAIN els |-> els[i].items]
<1>1. n \in Nat /\ DOMAIN els = 1..n OBVIOUS
<1>2. Texted(els) = insert(v) /\ Items(els) = Each(w) BY DEF Texted, Items
<1>3. DOMAIN v = 1..n /\ DOMAIN w = 1..n /\ \A k \in 1..n : v[k] = els[k].val /\ w[k] = els[k].items BY <1>1
<1> HIDE DEF v, w, n
<1>4. DOMAIN s = 1..n /\ \A k \in 1..n : s[k] = RowAt(<<>>, v, k) BY <1>1, <1>2, <1>3, WholeTable
<1>5. ASSUME NEW k \in 1..n PROVE s[k].val = els[k].val /\ Vals(groupBy(items, s[k].id)) = els[k].items
  <2>1. s[k] = RowAt(<<>>, v, k) BY <1>4
  <2>2. s[k].id = <<k>> /\ s[k].val = els[k].val BY <1>3, <2>1 DEF RowAt, Row
  <2>3. IsId(w[k]) BY <1>1, <1>3, ListIsId
  <2>4. {r \in Each(w) : r.parent = <<k>>} = RowsOf(<<k>>, w[k]) BY <1>3, EachHas
  <2>5. IsId(<<k>>) BY <1>1, NoId
  <2>6. Reading(u, Each(w), items) BY <1>2
  <2>7. Vals(groupBy(items, <<k>>)) = w[k] BY <2>3, <2>4, <2>5, <2>6, GroupedVals
  <2> QED BY <1>3, <2>2, <2>7
<1>6. PackHolds(s, items, els) BY <1>1, <1>4, <1>5 DEF PackHolds
<1> QED BY <1>6, PacksOf

(* The activities: Values are what an experience's row holds, its two rates*)
(* apart.                                                                  *)
Values(d, v) ==
  /\ DOMAIN v = DOMAIN d.ACTS
  /\ \A i \in DOMAIN d.ACTS :
       v[i] = [key |-> d.ACTS[i].key, val |-> d.ACTS[i].val, price |-> d.ACTS[i].price, rr |-> v[i].rr, nr |-> v[i].nr]

LEMMA ActivitiesKept ==
  ASSUME NEW d, d.ACTS \in Seq(ActivityDto), NEW v, Values(d, v), NEW g,
         Reading("experiences", insert(v), g.experiences), Reading("facts", Items(d.ACTS), g.facts)
  PROVE  mapActivities(g) = d.ACTS
<1> DEFINE n == Len(d.ACTS)
           s == g.experiences
           w == [i \in DOMAIN d.ACTS |-> d.ACTS[i].items]
           acts == d.ACTS
<1>1. n \in Nat /\ DOMAIN acts = 1..n OBVIOUS
<1>2. Items(d.ACTS) = Each(w) BY DEF Items
<1>3. DOMAIN v = 1..n /\ DOMAIN w = 1..n /\ \A k \in 1..n : w[k] = acts[k].items BY <1>1 DEF Values
<1>4. \A k \in 1..n : v[k].key = acts[k].key /\ v[k].val = acts[k].val /\ v[k].price = acts[k].price
  <2> SUFFICES ASSUME NEW k \in 1..n PROVE v[k].key = acts[k].key /\ v[k].val = acts[k].val /\ v[k].price = acts[k].price OBVIOUS
  <2>1. v[k] = [key |-> acts[k].key, val |-> acts[k].val, price |-> acts[k].price, rr |-> v[k].rr, nr |-> v[k].nr] BY <1>1 DEF Values
  <2> QED BY <2>1
<1>5. acts \in Seq(ActivityDto) OBVIOUS
<1>6. Reading("experiences", insert(v), s) /\ Reading("facts", Each(w), g.facts) BY <1>2
<1>7. "experiences" \notin ByNothing /\ "facts" \notin ByNothing BY DEF ByNothing
<1>8. mapActivities(g) = [k \in DOMAIN s |-> [key |-> s[k].val.key, val |-> s[k].val.val, price |-> s[k].val.price, items |-> Vals(groupBy(g.facts, s[k].id))]]
  BY DEF mapActivities, Map
<1> HIDE DEF w, n, s, acts
<1>9. DOMAIN s = 1..n /\ \A k \in 1..n : s[k] = RowAt(<<>>, v, k) BY <1>1, <1>3, <1>6, <1>7, WholeTable
<1>10. ASSUME NEW k \in 1..n
       PROVE  [key |-> s[k].val.key, val |-> s[k].val.val, price |-> s[k].val.price, items |-> Vals(groupBy(g.facts, s[k].id))] = acts[k]
  <2>1. s[k] = RowAt(<<>>, v, k) BY <1>9
  <2>2. s[k].id = <<k>> /\ s[k].val = v[k] BY <2>1 DEF RowAt, Row
  <2>3. acts[k] \in ActivityDto BY <1>1, <1>5
  <2>4. acts[k] = [key |-> acts[k].key, val |-> acts[k].val, price |-> acts[k].price, items |-> acts[k].items] BY <2>3 DEF ActivityDto
  <2>5. IsId(w[k])
    <3>1. w[k] \in TextList BY <1>3, <2>3 DEF ActivityDto
    <3> QED BY <3>1, ListIsId
  <2>6. {r \in Each(w) : r.parent = <<k>>} = RowsOf(<<k>>, w[k]) BY <1>3, EachHas
  <2>7. IsId(<<k>>) BY <1>1, NoId
  <2>8. Vals(groupBy(g.facts, <<k>>)) = w[k] BY <1>6, <1>7, <2>5, <2>6, <2>7, GroupedVals
  <2> QED BY <1>3, <1>4, <2>2, <2>4, <2>8
<1>11. acts = [k \in 1..n |-> acts[k]] BY <1>1, <1>5
<1> QED BY <1>8, <1>9, <1>10, <1>11 DEF acts

LEMMA PairId == ASSUME NEW i \in Nat, NEW k \in Nat, NEW els PROVE RowAt(<<i>>, els, k).id = <<i, k>>
<1> DEFINE p == <<i>>
<1>1. p \in Seq(Nat) /\ Len(p) = 1 /\ p[1] = i OBVIOUS
<1> HIDE DEF p
<1>2. RowAt(p, els, k).id = Append(p, k) BY RowAtIs
<1>3. Append(p, k) = <<i, k>>
  <2> DEFINE q == Append(p, k)
             z == <<i, k>>
  <2>00. p \in Seq(Nat) BY <1>1
  <2>01. q \in Seq(Nat) BY <2>00, AppendProperties
  <2>02. Len(q) = Len(p) + 1 BY <2>00, AppendProperties
  <2>03. \A a \in 1..Len(p) : q[a] = p[a] BY <2>00, AppendProperties
  <2>04. q[Len(p) + 1] = k BY <2>00, AppendProperties
  <2>0. q \in Seq(Nat) /\ Len(q) = Len(p) + 1 /\ (\A a \in 1..Len(p) : q[a] = p[a]) /\ q[Len(p) + 1] = k
    <3> HIDE DEF q
    <3> QED BY <2>01, <2>02, <2>03, <2>04
  <2>1. q \in Seq(Nat) /\ Len(q) = 2 BY <1>1, <2>0
  <2>2. q[1] = i /\ q[2] = k
    <3> HIDE DEF q
    <3> QED BY <1>1, <2>0
  <2>3. z \in Seq(Nat) /\ Len(z) = 2 /\ z[1] = i /\ z[2] = k OBVIOUS
  <2> HIDE DEF q, z
  <2>4. \A a \in 1..2 : q[a] = z[a] BY <2>2, <2>3
  <2>5. q = z BY <2>1, <2>3, <2>4, SeqEqual
  <2> QED BY <2>5 DEF q, z
<1> QED BY <1>2, <1>3 DEF p

(* A restaurant's menu: its groups, and the dishes of each.                *)
MenuRead(d, g) ==
  /\ \A i \in DOMAIN RESTO_ORDER : Restaurants(d)[i] \in RestaurantDto
  /\ Reading("menuGroups", Each([i \in DOMAIN RESTO_ORDER |-> MenuHeads(Restaurants(d)[i])]), g.menuGroups)
  /\ Reading("menuItems", seedMenuItems(d), g.menuItems)

MenuIs(d, g, i) ==
  Map(groupBy(g.menuGroups, <<i>>), LAMBDA m : [title |-> m.val.title, note |-> m.val.note, items |-> Vals(groupBy(g.menuItems, m.id))])
  = Restaurants(d)[i].groups

LEMMA MenuKept == ASSUME NEW d, NEW g, MenuRead(d, g), NEW i \in DOMAIN RESTO_ORDER PROVE MenuIs(d, g, i)
<1> DEFINE r == Restaurants(d)[i]
           gs == r.groups
           n == Len(gs)
           titles == [j \in DOMAIN RESTO_ORDER |-> MenuHeads(Restaurants(d)[j])]
           els == MenuHeads(r)
           dishes == [p \in Groups(d) |-> Restaurants(d)[p[1]].groups[p[2]].items]
           s == groupBy(g.menuGroups, <<i>>)
<1>1. gs \in Seq(GroupDto)
  <2>1. r \in RestaurantDto BY DEF MenuRead
  <2> QED BY <2>1 DEF RestaurantDto
<1>2. n \in Nat /\ DOMAIN gs = 1..n BY <1>1
<1>3. i \in Nat
  <2>1. RESTO_ORDER \in Seq(Texts) BY CatalogAssumption DEF TextList
  <2> QED BY <2>1
<1>4. DOMAIN els = 1..n /\ \A k \in 1..n : els[k] = [title |-> gs[k].title, note |-> gs[k].note] BY <1>2 DEF MenuHeads
<1>5. DOMAIN titles = DOMAIN RESTO_ORDER /\ titles[i] = els OBVIOUS
<1>6. seedMenuItems(d) = Table(dishes) BY DEF seedMenuItems
<1>7. Reading("menuGroups", Each(titles), g.menuGroups) /\ Reading("menuItems", Table(dishes), g.menuItems) BY <1>6 DEF MenuRead
<1>8. \A k \in 1..n : <<i, k>> \in DOMAIN dishes /\ dishes[<<i, k>>] = gs[k].items
  <2> SUFFICES ASSUME NEW k \in 1..n PROVE <<i, k>> \in DOMAIN dishes /\ dishes[<<i, k>>] = gs[k].items OBVIOUS
  <2>1. <<i, k>> \in Groups(d) BY <1>2 DEF Groups
  <2> QED BY <2>1
<1>9. "menuGroups" \notin ByNothing /\ "menuItems" \notin ByNothing BY DEF ByNothing
<1> HIDE DEF titles, els, dishes
<1>10. {x \in Each(titles) : x.parent = <<i>>} = RowsOf(<<i>>, els) BY <1>5, EachHas
<1>11. IsId(<<i>>) BY <1>3, NoId
<1>12. DOMAIN s = 1..n /\ \A k \in 1..n : s[k] = RowAt(<<i>>, els, k)
  <2> HIDE DEF n, r
  <2> QED BY <1>2, <1>4, <1>7, <1>9, <1>10, <1>11, Grouped
<1> HIDE DEF s, n, gs, r
<1>13. ASSUME NEW k \in 1..n
       PROVE  [title |-> s[k].val.title, note |-> s[k].val.note, items |-> Vals(groupBy(g.menuItems, s[k].id))] = gs[k]
  <2>1. s[k] = RowAt(<<i>>, els, k) BY <1>12
  <2>2. s[k].id = <<i, k>> /\ s[k].val.title = gs[k].title /\ s[k].val.note = gs[k].note
    <3>00. k \in Nat BY <1>2
    <3>01. RowAt(<<i>>, els, k).id = <<i, k>> BY <1>3, <3>00, PairId
    <3>1. s[k].id = <<i, k>> BY <2>1, <3>01, Zenon
    <3>2. s[k].val = els[k] BY <2>1 DEF RowAt, Row
    <3> QED BY <1>4, <3>1, <3>2
  <2>3. IsId(<<i, k>>)
    <3>1. k \in Nat BY <1>2
    <3> QED BY <1>3, <3>1, NoId
  <2>4. IsId(gs[k].items)
    <3>1. gs[k] \in GroupDto BY <1>1, <1>2
    <3>2. gs[k].items \in Seq(DishDto) BY <3>1 DEF GroupDto
    <3> QED BY <3>2 DEF IsId
  <2>5. {x \in Table(dishes) : x.parent = <<i, k>>} = RowsOf(<<i, k>>, gs[k].items)
    <3>1. <<i, k>> \in DOMAIN dishes /\ dishes[<<i, k>>] = gs[k].items BY <1>8
    <3> QED BY <3>1, TableHas
  <2>6. Vals(groupBy(g.menuItems, <<i, k>>)) = gs[k].items BY <1>7, <1>9, <2>3, <2>4, <2>5, GroupedVals
  <2>7. gs[k] = [title |-> gs[k].title, note |-> gs[k].note, items |-> gs[k].items]
    <3> DEFINE x == gs[k]
    <3>1. x \in GroupDto BY <1>1, <1>2
    <3> HIDE DEF x
    <3>2. x = [title |-> x.title, note |-> x.note, items |-> x.items] BY <3>1 DEF GroupDto
    <3> QED BY <3>2 DEF x
  <2> QED BY <2>2, <2>6, <2>7
<1>14. Map(s, LAMBDA m : [title |-> m.val.title, note |-> m.val.note, items |-> Vals(groupBy(g.menuItems, m.id))])
       = [k \in 1..n |-> [title |-> s[k].val.title, note |-> s[k].val.note, items |-> Vals(groupBy(g.menuItems, s[k].id))]] BY <1>12 DEF Map
<1>15. gs = [k \in 1..n |-> gs[k]] BY <1>1, <1>2
<1> QED BY <1>13, <1>14, <1>15 DEF MenuIs, s, gs, r

RestaurantsRead(d, g) ==
  /\ MenuRead(d, g) /\ Reading("restaurants", seedRestaurants(d), g.restaurants)
  /\ Reading("restaurantImages", Each([i \in DOMAIN RESTO_ORDER |-> Restaurants(d)[i].gallery]), g.restaurantImages)

LEMMA RestaurantsKept ==
  ASSUME NEW d, NEW g, RestaurantsRead(d, g)
  PROVE  mapRestaurants(g) = [i \in DOMAIN RESTO_ORDER |-> RestaurantAt(d, i)]
<1> DEFINE n == Len(RESTO_ORDER)
           s == g.restaurants
           v == [i \in DOMAIN RESTO_ORDER |-> [key |-> RESTO_ORDER[i], val |-> Restaurants(d)[i].val]]
           w == [i \in DOMAIN RESTO_ORDER |-> Restaurants(d)[i].gallery]
           gallery(x) == Vals(groupBy(g.restaurantImages, x))
           menu(x) == Map(groupBy(g.menuGroups, x), LAMBDA m : [title |-> m.val.title, note |-> m.val.note, items |-> Vals(groupBy(g.menuItems, m.id))])
<1>1. n \in Nat /\ DOMAIN RESTO_ORDER = 1..n
  <2>1. RESTO_ORDER \in Seq(Texts) BY CatalogAssumption DEF TextList
  <2> QED BY <2>1
<1>2. DOMAIN v = 1..n /\ DOMAIN w = 1..n /\ \A k \in 1..n : v[k].key = RESTO_ORDER[k] /\ v[k].val = Restaurants(d)[k].val /\ w[k] = Restaurants(d)[k].gallery
  BY <1>1
<1>3. Reading("restaurants", insert(v), s) /\ Reading("restaurantImages", Each(w), g.restaurantImages) /\ MenuRead(d, g)
  BY DEF RestaurantsRead, seedRestaurants
<1>4. "restaurants" \notin ByNothing /\ "restaurantImages" \notin ByNothing BY DEF ByNothing
<1>5. mapRestaurants(g) = [k \in DOMAIN s |-> [key |-> s[k].val.key, val |-> s[k].val.val, gallery |-> gallery(s[k].id), groups |-> menu(s[k].id)]]
  BY DEF mapRestaurants, Map
<1> HIDE DEF v, w, s, n
<1>6. DOMAIN s = 1..n /\ \A k \in 1..n : s[k] = RowAt(<<>>, v, k) BY <1>1, <1>2, <1>3, <1>4, WholeTable
<1>7. ASSUME NEW k \in 1..n
      PROVE  s[k].val.key = RESTO_ORDER[k] /\ s[k].val.val = Restaurants(d)[k].val /\ gallery(s[k].id) = Restaurants(d)[k].gallery
             /\ menu(s[k].id) = Restaurants(d)[k].groups
  <2>1. s[k] = RowAt(<<>>, v, k) BY <1>6
  <2>2. s[k].id = <<k>> /\ s[k].val = v[k] BY <2>1 DEF RowAt, Row
  <2>3. IsId(w[k])
    <3>1. Restaurants(d)[k] \in RestaurantDto BY <1>1, <1>3 DEF MenuRead
    <3>2. w[k] \in TextList BY <1>2, <3>1 DEF RestaurantDto
    <3> QED BY <3>2, ListIsId
  <2>4. {r \in Each(w) : r.parent = <<k>>} = RowsOf(<<k>>, w[k]) BY <1>2, EachHas
  <2>5. IsId(<<k>>) BY <1>1, NoId
  <2>6. Vals(groupBy(g.restaurantImages, <<k>>)) = w[k] BY <1>3, <1>4, <2>3, <2>4, <2>5, GroupedVals
  <2>7. gallery(s[k].id) = w[k] BY <2>2, <2>6
  <2>8. menu(<<k>>) = Restaurants(d)[k].groups
    <3>1. k \in DOMAIN RESTO_ORDER BY <1>1
    <3>2. MenuIs(d, g, k) BY <1>3, <3>1, MenuKept
    <3> QED BY <3>2 DEF MenuIs
  <2>9. menu(s[k].id) = menu(<<k>>) BY <2>2
  <2> HIDE DEF menu, gallery
  <2> QED BY <1>2, <2>2, <2>7, <2>8, <2>9
<1> HIDE DEF menu, gallery
<1>8. \A k \in 1..n : [key |-> s[k].val.key, val |-> s[k].val.val, gallery |-> gallery(s[k].id), groups |-> menu(s[k].id)] = RestaurantAt(d, k)
  BY <1>7 DEF RestaurantAt
<1> QED BY <1>1, <1>5, <1>6, <1>8

(* The tiers of a family of packages.                                      *)
PacksRead(d, g) ==
  /\ d.PACKS \in [families : [1..Families -> Seq(PackDto)], addons : TextList, vip : TextList]
  /\ Reading("packageTiers", Each(Tiers(d)), g.packageTiers) /\ Reading("packageTierItems", seedTierItems(d), g.packageTierItems)
  /\ Reading("packageAddons", insert(d.PACKS.addons), g.packageAddons) /\ Reading("vipItems", insert(d.PACKS.vip), g.vipItems)

LEMMA FamilyKept ==
  ASSUME NEW d, NEW g, PacksRead(d, g), NEW f \in 1..Families
  PROVE  withItems(groupBy(g.packageTiers, <<f>>), g.packageTierItems) = d.PACKS.families[f]
<1> DEFINE fs == d.PACKS.families
           els == fs[f]
           n == Len(els)
           tiers == Tiers(d)
           vals == tiers[f]
           items == [p \in TierIds(d) |-> fs[p[1]][p[2]].items]
           s == groupBy(g.packageTiers, <<f>>)
<1>1. fs \in [1..Families -> Seq(PackDto)] BY DEF PacksRead
<1>2. els \in Seq(PackDto) /\ f \in Nat
  <2>1. f \in Nat BY CatalogAssumption
  <2> QED BY <1>1, <2>1
<1> HIDE DEF els
<1>3. n \in Nat /\ DOMAIN els = 1..n BY <1>2
<1>4. DOMAIN tiers = 1..Families /\ DOMAIN vals = 1..n /\ \A k \in 1..n : vals[k] = els[k].val BY <1>1, <1>3 DEF Tiers, els
<1>5. seedTierItems(d) = Table(items) BY DEF seedTierItems
<1>6. \A k \in 1..n : <<f, k>> \in DOMAIN items /\ items[<<f, k>>] = els[k].items
  <2> SUFFICES ASSUME NEW k \in 1..n PROVE <<f, k>> \in DOMAIN items /\ items[<<f, k>>] = els[k].items OBVIOUS
  <2>1. f \in DOMAIN d.PACKS.families /\ k \in DOMAIN d.PACKS.families[f] BY <1>1, <1>3 DEF els
  <2>2. <<f, k>> \in {<<f, i>> : i \in DOMAIN d.PACKS.families[f]} BY <2>1
  <2>3. <<f, k>> \in TierIds(d) BY <2>1, <2>2, SMTT(30) DEF TierIds
  <2> QED BY <2>3 DEF els
<1>7. Reading("packageTiers", Each(tiers), g.packageTiers) /\ Reading("packageTierItems", Table(items), g.packageTierItems) BY <1>5 DEF PacksRead
<1>8. "packageTiers" \notin ByNothing /\ "packageTierItems" \notin ByNothing BY DEF ByNothing
<1> HIDE DEF items, n, fs
<1>9. {x \in Each(tiers) : x.parent = <<f>>} = RowsOf(<<f>>, vals)
  <2> HIDE DEF tiers
  <2> QED BY <1>4, EachHas
<1>10. IsId(<<f>>) BY <1>2, NoId
<1> HIDE DEF tiers, vals
<1>11. DOMAIN s = 1..n /\ \A k \in 1..n : s[k] = RowAt(<<f>>, vals, k)
  <2>1. n \in Nat /\ DOMAIN vals = 1..n BY <1>3, <1>4
  <2>2. DOMAIN s = 1..n BY <1>7, <1>8, <1>9, <1>10, <2>1, Grouped
  <2>3. \A k \in 1..n : s[k] = RowAt(<<f>>, vals, k) BY <1>7, <1>8, <1>9, <1>10, <2>1, Grouped
  <2> QED BY <2>2, <2>3
<1> HIDE DEF s
<1>12. ASSUME NEW k \in 1..n PROVE s[k].val = els[k].val /\ Vals(groupBy(g.packageTierItems, s[k].id)) = els[k].items
  <2>0. k \in Nat BY <1>3
  <2>1. s[k] = RowAt(<<f>>, vals, k) BY <1>11
  <2>2. s[k].id = <<f, k>>
    <3>1. RowAt(<<f>>, vals, k).id = <<f, k>> BY <1>2, <2>0, PairId
    <3> QED BY <2>1, <3>1, Zenon
  <2>3. s[k].val = vals[k] BY <2>1 DEF RowAt, Row
  <2>4. IsId(els[k].items) BY <1>2, <1>3, ListIsId
  <2>5. {x \in Table(items) : x.parent = <<f, k>>} = RowsOf(<<f, k>>, els[k].items)
    <3>1. <<f, k>> \in DOMAIN items /\ items[<<f, k>>] = els[k].items BY <1>6
    <3> QED BY <3>1, TableHas
  <2>6. IsId(<<f, k>>) BY <1>2, <2>0, NoId
  <2>7. Vals(groupBy(g.packageTierItems, <<f, k>>)) = els[k].items BY <1>7, <1>8, <2>4, <2>5, <2>6, GroupedVals
  <2> QED BY <1>4, <2>2, <2>3, <2>7
<1>13. PackHolds(s, g.packageTierItems, els) BY <1>2, <1>3, <1>11, <1>12 DEF PackHolds
<1>14. withItems(s, g.packageTierItems) = els BY <1>13, PacksOf
<1> QED BY <1>14 DEF s, els, fs

LEMMA PacksKept == ASSUME NEW d, NEW g, PacksRead(d, g) PROVE mapPacks(g) = d.PACKS
<1> DEFINE fs == d.PACKS.families
<1>1. d.PACKS \in [families : [1..Families -> Seq(PackDto)], addons : TextList, vip : TextList] BY DEF PacksRead
<1>2. d.PACKS = [families |-> fs, addons |-> d.PACKS.addons, vip |-> d.PACKS.vip] BY <1>1
<1>3. fs = [f \in 1..Families |-> fs[f]] BY <1>1
<1>4. Vals(g.packageAddons) = d.PACKS.addons
  <2>1. IsId(d.PACKS.addons) BY <1>1, ListIsId
  <2>2. Reading("packageAddons", insert(d.PACKS.addons), g.packageAddons) /\ "packageAddons" \notin ByNothing BY DEF PacksRead, ByNothing
  <2> QED BY <2>1, <2>2, WholeVals
<1>5. Vals(g.vipItems) = d.PACKS.vip
  <2>1. IsId(d.PACKS.vip) BY <1>1, ListIsId
  <2>2. Reading("vipItems", insert(d.PACKS.vip), g.vipItems) /\ "vipItems" \notin ByNothing BY DEF PacksRead, ByNothing
  <2> QED BY <2>1, <2>2, WholeVals
<1>6. \A f \in 1..Families : withItems(groupBy(g.packageTiers, <<f>>), g.packageTierItems) = fs[f] BY FamilyKept
<1> HIDE DEF fs
<1> QED BY <1>2, <1>3, <1>4, <1>5, <1>6 DEF mapPacks

(* The price list, by group, and the photo packs, by rate.                 *)
LEMMA PriceListKept ==
  ASSUME NEW d, d.PL \in Seq(TextList \ {<<>>}), NEW g, Reading("priceList", Each(d.PL), g.priceList)
  PROVE  mapPriceList(g) = [k \in DOMAIN d.PL |-> [key |-> <<k>>, rows |-> d.PL[k]]]
<1> DEFINE n == Len(d.PL)
           s == g.priceList
           lists == d.PL
           c == [i \in DOMAIN s |-> s[i].parent]
           keys == FirstSeen(c)
<1>1. n \in Nat /\ DOMAIN lists = 1..n OBVIOUS
<1>2. \A k \in 1..n : lists[k] \in TextList /\ lists[k] # <<>>
  <2>1. lists \in Seq(TextList \ {<<>>}) OBVIOUS
  <2> HIDE DEF lists
  <2> QED BY <1>1, <2>1
<1>3. \A k \in 1..n : 1 \in DOMAIN lists[k]
  <2> SUFFICES ASSUME NEW k \in 1..n PROVE 1 \in DOMAIN lists[k] OBVIOUS
  <2>1. lists[k] \in Seq(Texts) /\ lists[k] # <<>> BY <1>2 DEF TextList
  <2> QED BY <2>1
<1>4. Reading("priceList", Each(lists), s) OBVIOUS
<1>5. mapPriceList(g) = [k \in DOMAIN keys |-> [key |-> keys[k], rows |-> Vals(groupBy(s, keys[k]))]]
  BY DEF mapPriceList, Map
<1> HIDE DEF n, s, lists, keys
<1>6. DOMAIN keys = 1..n /\ \A k \in 1..n : keys[k] = <<k>> BY <1>1, <1>3, <1>4, GroupsInOrder, SMTT(30) DEF keys
<1>7. "priceList" \notin ByNothing BY DEF ByNothing
<1>8. ASSUME NEW k \in 1..n PROVE Vals(groupBy(s, keys[k])) = lists[k]
  <2>1. IsId(lists[k]) BY <1>2, ListIsId
  <2>2. {r \in Each(lists) : r.parent = <<k>>} = RowsOf(<<k>>, lists[k]) BY <1>1, EachHas
  <2>3. IsId(<<k>>) BY <1>1, NoId
  <2>4. Vals(groupBy(s, <<k>>)) = lists[k] BY <1>4, <1>7, <2>1, <2>2, <2>3, GroupedVals
  <2> QED BY <1>6, <2>4
<1> QED BY <1>1, <1>5, <1>6, <1>8 DEF lists

PhotoSections == [{"rr", "nr"} -> [tiers : TextList, addons : TextList]]
LEMMA PhotoPart ==
  ASSUME NEW d, d.PHOTO \in PhotoSections, NEW rate \in {"rr", "nr"}, NEW half \in {"tiers", "addons"}, NEW t, t \notin ByNothing,
         NEW s, Reading(t, seedPhoto(d, half), s)
  PROVE  Vals(groupBy(s, <<rate>>)) = d.PHOTO[rate][half]
<1> DEFINE lists == [p \in {<<"rr">>, <<"nr">>} |-> d.PHOTO[p[1]][half]]
           els == d.PHOTO[rate][half]
<1>1. seedPhoto(d, half) = Table(lists) BY DEF seedPhoto
<1>2. <<rate>> \in DOMAIN lists /\ lists[<<rate>>] = els OBVIOUS
<1>3. els \in TextList
  <2>1. d.PHOTO[rate] \in [tiers : TextList, addons : TextList] BY DEF PhotoSections
  <2> QED BY <2>1
<1>4. IsId(<<rate>>)
  <2>1. <<rate>> \in Seq({"rr", "nr"}) OBVIOUS
  <2> QED BY <2>1 DEF IsId
<1> HIDE DEF lists, els
<1>5. {r \in Table(lists) : r.parent = <<rate>>} = RowsOf(<<rate>>, els) BY <1>2, TableHas
<1>6. Reading(t, Table(lists), s) BY <1>1
<1>7. IsId(els) BY <1>3, ListIsId
<1>8. Vals(groupBy(s, <<rate>>)) = els BY <1>4, <1>5, <1>6, <1>7, GroupedVals
<1> QED BY <1>8 DEF els

LEMMA PhotoKept ==
  ASSUME NEW d, d.PHOTO \in PhotoSections, NEW g,
         Reading("photoTiers", seedPhoto(d, "tiers"), g.photoTiers), Reading("photoAddons", seedPhoto(d, "addons"), g.photoAddons)
  PROVE  mapPhoto(g) = d.PHOTO
<1> DEFINE ph == d.PHOTO
<1>1. "photoTiers" \notin ByNothing /\ "photoAddons" \notin ByNothing BY DEF ByNothing
<1>2. \A rate \in {"rr", "nr"} : Vals(groupBy(g.photoTiers, <<rate>>)) = ph[rate]["tiers"] BY <1>1, PhotoPart
<1>3. \A rate \in {"rr", "nr"} : Vals(groupBy(g.photoAddons, <<rate>>)) = ph[rate]["addons"] BY <1>1, PhotoPart
<1>4. ph \in PhotoSections OBVIOUS
<1> HIDE DEF ph
<1>5. ph = [rate \in {"rr", "nr"} |-> ph[rate]] BY <1>4 DEF PhotoSections
<1>6. \A rate \in {"rr", "nr"} : ph[rate] = [tiers |-> ph[rate].tiers, addons |-> ph[rate].addons] BY <1>4 DEF PhotoSections
<1> QED BY <1>2, <1>3, <1>5, <1>6 DEF mapPhoto, ph

LEMMA ProductsKept ==
  ASSUME NEW S, NEW g, Reading("products", S, g.products)
  PROVE  Range(mapProducts(g)) = {r.val.key : r \in S}
<1> DEFINE s == g.products
<1>1. mapProducts(g) = [i \in DOMAIN s |-> s[i].val.key] BY DEF mapProducts, Map
<1>2. s \in [DOMAIN s -> S] /\ \A r \in S : \E i \in DOMAIN s : s[i] = r BY ReadingIs
<1> HIDE DEF s
<1> QED BY <1>1, <1>2 DEF Range

(* A page built of what the tables were given by one document, with one    *)
(* list of prices, notes and films, is that document as the generator      *)
(* writes it.                                                              *)
TableNames == {"categories", "experiences", "facts", "galleries", "shots", "pins", "restaurants", "restaurantImages",
  "menuGroups", "menuItems", "packageTiers", "packageTierItems", "packageAddons", "vipItems", "combos", "comboItems",
  "cinematicItems", "priceList", "photoTiers", "photoAddons", "teamPacks", "teamPackItems", "heroSlides", "settings"}
PageRead(d, v, g) ==
  /\ \A t \in TableNames \ {"experiences"} : Reading(t, TablesOf(d)[t], g[t])
  /\ Values(d, v) /\ Reading("experiences", insert(v), g.experiences)
  /\ Reading("products", {x \in Products : x.val.active}, g.products)

LEMMA PageKept == ASSUME NEW d, Sections(d), NEW v, NEW g, PageRead(d, v, g) PROVE Faithful(assembleCatalog(g), d)
<1> DEFINE p == assembleCatalog(g)
<1>1. \A t \in TableNames \ {"experiences"} : Reading(t, TablesOf(d)[t], g[t]) BY DEF PageRead
<1>2. p.CAT = Map(CAT_ORDER, LAMBDA k : [key |-> k, val |-> d.CAT[k]])
  <2>1. Reading("categories", seedCategories(d), g.categories) BY <1>1 DEF TableNames, TablesOf
  <2>2. CategoriesAre(d, g) BY <2>1, CategoriesKept
  <2> QED BY <2>2 DEF CategoriesAre, assembleCatalog
<1>3. p.ACTS = d.ACTS
  <2>1. Reading("facts", Items(d.ACTS), g.facts) BY <1>1 DEF TableNames, TablesOf
  <2>2. d.ACTS \in Seq(ActivityDto) BY DEF Sections
  <2>3. mapActivities(g) = d.ACTS BY <2>1, <2>2, ActivitiesKept DEF PageRead
  <2> QED BY <2>3 DEF assembleCatalog
<1>4. p.PINS = d.PINS /\ p.CINE = d.CINE /\ p.HERO = d.HERO
  <2>1. Reading("pins", insert(d.PINS), g.pins) /\ Reading("cinematicItems", insert(d.CINE), g.cinematicItems)
        /\ Reading("heroSlides", insert(d.HERO), g.heroSlides)
    BY <1>1 DEF TableNames, TablesOf
  <2>2. IsId(d.PINS) /\ IsId(d.CINE) /\ IsId(d.HERO) BY ListIsId DEF Sections
  <2>3. "pins" \notin ByNothing /\ "cinematicItems" \notin ByNothing /\ "heroSlides" \notin ByNothing BY DEF ByNothing
  <2>4. Vals(g.pins) = d.PINS BY <2>1, <2>2, <2>3, WholeVals
  <2>5. Vals(g.cinematicItems) = d.CINE BY <2>1, <2>2, <2>3, WholeVals
  <2>6. Vals(g.heroSlides) = d.HERO BY <2>1, <2>2, <2>3, WholeVals
  <2> QED BY <2>4, <2>5, <2>6 DEF assembleCatalog
<1>5. p.RESTOS = [i \in DOMAIN RESTO_ORDER |-> RestaurantAt(d, i)]
  <2>1. Reading("restaurants", seedRestaurants(d), g.restaurants)
        /\ Reading("restaurantImages", Each([i \in DOMAIN RESTO_ORDER |-> Restaurants(d)[i].gallery]), g.restaurantImages)
    BY <1>1 DEF TableNames, TablesOf
  <2>2. Reading("menuGroups", Each([i \in DOMAIN RESTO_ORDER |-> MenuHeads(Restaurants(d)[i])]), g.menuGroups)
        /\ Reading("menuItems", seedMenuItems(d), g.menuItems)
    BY <1>1 DEF TableNames, TablesOf
  <2>3. \A i \in DOMAIN RESTO_ORDER : Restaurants(d)[i] \in RestaurantDto BY DEF Sections, Restaurants
  <2>4. RestaurantsRead(d, g) BY <2>1, <2>2, <2>3 DEF RestaurantsRead, MenuRead
  <2>5. mapRestaurants(g) = [i \in DOMAIN RESTO_ORDER |-> RestaurantAt(d, i)] BY <2>4, RestaurantsKept
  <2> QED BY <2>5 DEF assembleCatalog
<1>6. p.PACKS = d.PACKS
  <2>1. Reading("packageTiers", Each(Tiers(d)), g.packageTiers) /\ Reading("packageTierItems", seedTierItems(d), g.packageTierItems)
    BY <1>1 DEF TableNames, TablesOf
  <2>2. Reading("packageAddons", insert(d.PACKS.addons), g.packageAddons) /\ Reading("vipItems", insert(d.PACKS.vip), g.vipItems)
    BY <1>1 DEF TableNames, TablesOf
  <2>3. PacksRead(d, g) BY <2>1, <2>2 DEF PacksRead, Sections
  <2>4. mapPacks(g) = d.PACKS BY <2>3, PacksKept
  <2> QED BY <2>4 DEF assembleCatalog
<1>7. p.COMBO = d.COMBO /\ p.TEAM = d.TEAM
  <2>1. Reading("combos", Texted(d.COMBO), g.combos) /\ Reading("comboItems", Items(d.COMBO), g.comboItems) BY <1>1 DEF TableNames, TablesOf
  <2>2. Reading("teamPacks", Texted(d.TEAM), g.teamPacks) /\ Reading("teamPackItems", Items(d.TEAM), g.teamPackItems) BY <1>1 DEF TableNames, TablesOf
  <2>3. d.COMBO \in Seq(PackDto) /\ d.TEAM \in Seq(PackDto) BY DEF Sections
  <2>4. "combos" \notin ByNothing /\ "comboItems" \notin ByNothing /\ "teamPacks" \notin ByNothing /\ "teamPackItems" \notin ByNothing
    BY DEF ByNothing
  <2>5. withItems(g.combos, g.comboItems) = d.COMBO BY <2>1, <2>3, <2>4, TextedIs
  <2>6. withItems(g.teamPacks, g.teamPackItems) = d.TEAM BY <2>2, <2>3, <2>4, TextedIs
  <2> QED BY <2>5, <2>6 DEF assembleCatalog, mapCombos, mapTeam
<1>8. Shown(p.GAL) = Shown(d.GAL) /\ Range(p.GAL) = Range(d.GAL) /\ Len(p.GAL) = Len(d.GAL)
  <2>1. Reading("shots", Each([i \in DOMAIN d.GAL |-> d.GAL[i].shots]), g.shots) /\ Reading("galleries", seedGalleries(d), g.galleries)
    BY <1>1 DEF TableNames, TablesOf
  <2>2. GalleriesRead(d, g) BY <2>1 DEF GalleriesRead, ShotLists, Sections
  <2>3. ShownAre(d, g) /\ AllAre(d, g) BY <2>2, GalleriesKept
  <2>4. p.GAL = mapGalleries(g) BY DEF assembleCatalog
  <2> QED BY <2>3, <2>4 DEF ShownAre, AllAre
<1>9. p.PL = [k \in DOMAIN d.PL |-> [key |-> <<k>>, rows |-> d.PL[k]]]
  <2>1. Reading("priceList", Each(d.PL), g.priceList) BY <1>1 DEF TableNames, TablesOf
  <2>2. d.PL \in Seq(TextList \ {<<>>}) BY DEF Sections
  <2>3. mapPriceList(g) = [k \in DOMAIN d.PL |-> [key |-> <<k>>, rows |-> d.PL[k]]] BY <2>1, <2>2, PriceListKept
  <2> QED BY <2>3 DEF assembleCatalog
<1>10. p.PHOTO = d.PHOTO
  <2>1. Reading("photoTiers", seedPhoto(d, "tiers"), g.photoTiers) /\ Reading("photoAddons", seedPhoto(d, "addons"), g.photoAddons)
    BY <1>1 DEF TableNames, TablesOf
  <2>2. d.PHOTO \in PhotoSections BY DEF Sections, PhotoSections
  <2>3. mapPhoto(g) = d.PHOTO BY <2>1, <2>2, PhotoKept
  <2> QED BY <2>3 DEF assembleCatalog
<1>11. \A i \in DOMAIN d.ENTRY : p.ENTRY[d.ENTRY[i].key] = d.ENTRY[i].price
  <2>1. Reading("settings", insert(d.ENTRY), g.settings) BY <1>1 DEF TableNames, TablesOf
  <2>2. \A i, j \in DOMAIN d.ENTRY : d.ENTRY[i].key = d.ENTRY[j].key => i = j BY DEF Sections
  <2>3. \A i \in DOMAIN d.ENTRY : entrySettings(g)[d.ENTRY[i].key] = d.ENTRY[i].price BY <2>1, <2>2, EntryKept
  <2>4. p.ENTRY = entrySettings(g) BY DEF assembleCatalog
  <2> QED BY <2>3, <2>4
<1>12. Range(p.PRODUCTS) = {r.val.key : r \in {x \in Products : x.val.active}}
  <2>1. Range(mapProducts(g)) = {r.val.key : r \in {x \in Products : x.val.active}} BY ProductsKept DEF PageRead
  <2> QED BY <2>1 DEF assembleCatalog
<1> HIDE DEF p
<1>13. Faithful(p, d) BY <1>2, <1>3, <1>4, <1>5, <1>6, <1>7, <1>8, <1>9, <1>10, <1>11, <1>12 DEF Faithful
<1> QED BY <1>13 DEF p

LEMMA ContentIs == Range(Content) = TableNames
<1>1. DOMAIN Content = 1..24 BY DEF Content
<1>2. \A i \in 1..24 : Content[i] \in TableNames BY DEF Content, TableNames
<1>3. Content[1] = "categories" /\ Content[2] = "experiences" /\ Content[3] = "facts" /\ Content[4] = "galleries"
      /\ Content[5] = "shots" /\ Content[6] = "pins" /\ Content[7] = "restaurants" /\ Content[8] = "restaurantImages"
  BY DEF Content
<1>4. Content[9] = "menuGroups" /\ Content[10] = "menuItems" /\ Content[11] = "packageTiers" /\ Content[12] = "packageTierItems"
      /\ Content[13] = "packageAddons" /\ Content[14] = "vipItems" /\ Content[15] = "combos" /\ Content[16] = "comboItems"
  BY DEF Content
<1>5. Content[17] = "cinematicItems" /\ Content[18] = "priceList" /\ Content[19] = "photoTiers" /\ Content[20] = "photoAddons"
      /\ Content[21] = "teamPacks" /\ Content[22] = "teamPackItems" /\ Content[23] = "heroSlides" /\ Content[24] = "settings"
  BY DEF Content
<1>6. \A t \in TableNames : \E i \in 1..24 : Content[i] = t
  <2> HIDE DEF Content
  <2> QED BY <1>3, <1>4, <1>5 DEF TableNames
<1> QED BY <1>1, <1>2, <1>6 DEF Range

(* Every table the generator writes is finite.                             *)
Finite(lists) == IsFiniteSet(DOMAIN lists) /\ \A i \in DOMAIN lists : IsFiniteSet(DOMAIN lists[i])
LEMMA ListFinite == \A X : \A els \in Seq(X) : IsFiniteSet(DOMAIN els)
<1> SUFFICES ASSUME NEW X, NEW els \in Seq(X) PROVE IsFiniteSet(DOMAIN els) OBVIOUS
<1> DEFINE n == Len(els)
<1>1. n \in Nat /\ DOMAIN els = 1..n OBVIOUS
<1> HIDE DEF n
<1> QED BY <1>1, FS_Interval

LEMMA InsertFinite == ASSUME NEW els, IsFiniteSet(DOMAIN els) PROVE IsFiniteSet(insert(els))
BY RowsFinite DEF insert

LEMMA PairsFinite ==
  ASSUME NEW I, IsFiniteSet(I), NEW J, \A i \in I : IsFiniteSet(J[i])
  PROVE  IsFiniteSet(UNION {{<<i, j>> : j \in J[i]} : i \in I})
<1> DEFINE pairs(i) == {<<i, j>> : j \in J[i]}
           F == [i \in I |-> pairs(i)]
           R == {F[i] : i \in I}
<1>1. ASSUME NEW i \in I PROVE IsFiniteSet(pairs(i))
  <2> DEFINE f == [j \in J[i] |-> <<i, j>>]
  <2>1. pairs(i) = {f[j] : j \in J[i]} OBVIOUS
  <2> HIDE DEF f, pairs
  <2> QED BY <2>1, ImageFinite
<1>2. UNION {{<<i, j>> : j \in J[i]} : i \in I} = UNION R OBVIOUS
<1>3. \A T \in R : IsFiniteSet(T) BY <1>1
<1> HIDE DEF F
<1>4. IsFiniteSet(R) BY ImageFinite
<1> HIDE DEF R
<1>5. IsFiniteSet(UNION R) BY <1>3, <1>4, FS_UNION
<1> QED BY <1>2, <1>5

LEMMA SeedFinite ==
  ASSUME NEW d, Sections(d), NEW t \in TableNames
  PROVE  IsFiniteSet(TablesOf(d)[t])
<1>1. IsFiniteSet(DOMAIN CAT_ORDER) /\ IsFiniteSet(DOMAIN RESTO_ORDER) BY ListFinite, CatalogAssumption DEF TextList
<1>2. \A els \in TextList : IsFiniteSet(DOMAIN els) BY ListFinite DEF TextList
<1>3. \A els \in Seq(PackDto) : IsFiniteSet(DOMAIN els) BY ListFinite
<1>4. \A i \in DOMAIN RESTO_ORDER : Restaurants(d)[i] \in RestaurantDto BY DEF Sections, Restaurants
<1>5. CASE t \in {"categories", "experiences", "galleries", "restaurants"}
  <2>1. IsFiniteSet(DOMAIN d.ACTS) /\ IsFiniteSet(DOMAIN d.GAL) BY ListFinite DEF Sections
  <2>2. IsFiniteSet(seedCategories(d)) BY <1>1, InsertFinite DEF seedCategories
  <2>3. IsFiniteSet(seedExperiences(d)) BY <2>1, InsertFinite DEF seedExperiences
  <2>4. IsFiniteSet(seedGalleries(d)) BY <2>1, InsertFinite DEF seedGalleries
  <2>5. IsFiniteSet(seedRestaurants(d)) BY <1>1, InsertFinite DEF seedRestaurants
  <2> QED BY <1>5, <2>2, <2>3, <2>4, <2>5 DEF TablesOf
<1>6. CASE t \in {"pins", "cinematicItems", "heroSlides", "packageAddons", "vipItems", "settings"}
  <2>1. d.PINS \in TextList /\ d.CINE \in TextList /\ d.HERO \in TextList /\ d.PACKS.addons \in TextList /\ d.PACKS.vip \in TextList
    BY DEF Sections
  <2>2. IsFiniteSet(DOMAIN d.ENTRY) BY ListFinite DEF Sections
  <2>3. IsFiniteSet(insert(d.PINS)) /\ IsFiniteSet(insert(d.CINE)) /\ IsFiniteSet(insert(d.HERO))
        /\ IsFiniteSet(insert(d.PACKS.addons)) /\ IsFiniteSet(insert(d.PACKS.vip)) /\ IsFiniteSet(insert(d.ENTRY))
    BY <1>2, <2>1, <2>2, InsertFinite
  <2> QED BY <1>6, <2>3 DEF TablesOf
<1>7. ASSUME NEW els \in Seq(PackDto) PROVE IsFiniteSet(Texted(els)) /\ IsFiniteSet(Items(els))
  <2> DEFINE v == [i \in DOMAIN els |-> els[i].val]
             w == [i \in DOMAIN els |-> els[i].items]
  <2>1. \A i \in DOMAIN els : IsFiniteSet(DOMAIN els[i].items)
    <3>1. \A i \in DOMAIN els : els[i] \in PackDto BY ListIsId
    <3> QED BY <1>2, <3>1 DEF PackDto
  <2>2. IsFiniteSet(DOMAIN v) /\ IsFiniteSet(DOMAIN w) /\ \A i \in DOMAIN w : IsFiniteSet(DOMAIN w[i]) BY <1>3, <2>1
  <2> HIDE DEF v, w
  <2>3. IsFiniteSet(insert(v)) BY <2>2, InsertFinite
  <2>4. IsFiniteSet(Each(w)) BY <2>2, EachFinite
  <2> QED BY <2>3, <2>4 DEF Texted, Items, v, w
<1>8. CASE t \in {"combos", "comboItems", "teamPacks", "teamPackItems"}
  <2>1. d.COMBO \in Seq(PackDto) /\ d.TEAM \in Seq(PackDto) BY DEF Sections
  <2> QED BY <1>7, <1>8, <2>1 DEF TablesOf
<1>9. CASE t = "facts"
  <2> DEFINE w == [i \in DOMAIN d.ACTS |-> d.ACTS[i].items]
  <2>1. \A i \in DOMAIN d.ACTS : d.ACTS[i] \in ActivityDto BY DEF Sections
  <2>2. IsFiniteSet(DOMAIN w) /\ \A i \in DOMAIN w : IsFiniteSet(DOMAIN w[i])
    <3>1. IsFiniteSet(DOMAIN d.ACTS) BY ListFinite DEF Sections
    <3>2. \A i \in DOMAIN d.ACTS : IsFiniteSet(DOMAIN d.ACTS[i].items) BY <1>2, <2>1 DEF ActivityDto
    <3> QED BY <3>1, <3>2
  <2> HIDE DEF w
  <2>3. IsFiniteSet(Each(w)) BY <2>2, EachFinite
  <2> QED BY <1>9, <2>3 DEF TablesOf, Items, w
<1>10. CASE t = "shots"
  <2> DEFINE w == [i \in DOMAIN d.GAL |-> d.GAL[i].shots]
  <2>1. \A i \in DOMAIN d.GAL : d.GAL[i] \in GalleryDto BY DEF Sections
  <2>2. IsFiniteSet(DOMAIN w) /\ \A i \in DOMAIN w : IsFiniteSet(DOMAIN w[i])
    <3>1. IsFiniteSet(DOMAIN d.GAL) BY ListFinite DEF Sections
    <3>2. \A i \in DOMAIN d.GAL : IsFiniteSet(DOMAIN d.GAL[i].shots) BY <1>2, <2>1 DEF GalleryDto
    <3> QED BY <3>1, <3>2
  <2> HIDE DEF w
  <2>3. IsFiniteSet(Each(w)) BY <2>2, EachFinite
  <2> QED BY <1>10, <2>3 DEF TablesOf, w
<1>11. CASE t = "restaurantImages"
  <2> DEFINE w == [i \in DOMAIN RESTO_ORDER |-> Restaurants(d)[i].gallery]
  <2>1. IsFiniteSet(DOMAIN w) /\ \A i \in DOMAIN w : IsFiniteSet(DOMAIN w[i]) BY <1>1, <1>2, <1>4 DEF RestaurantDto
  <2> HIDE DEF w
  <2>2. IsFiniteSet(Each(w)) BY <2>1, EachFinite
  <2> QED BY <1>11, <2>2 DEF TablesOf, w
<1>12. \A i \in DOMAIN RESTO_ORDER : Restaurants(d)[i].groups \in Seq(GroupDto) BY <1>4 DEF RestaurantDto
<1>13. \A i \in DOMAIN RESTO_ORDER : IsFiniteSet(DOMAIN Restaurants(d)[i].groups) BY <1>12, ListFinite
<1>14. CASE t = "menuGroups"
  <2> DEFINE w == [i \in DOMAIN RESTO_ORDER |-> MenuHeads(Restaurants(d)[i])]
  <2>1. IsFiniteSet(DOMAIN w) /\ \A i \in DOMAIN w : IsFiniteSet(DOMAIN w[i]) BY <1>1, <1>13 DEF MenuHeads
  <2> HIDE DEF w
  <2>2. IsFiniteSet(Each(w)) BY <2>1, EachFinite
  <2> QED BY <1>14, <2>2 DEF TablesOf, w
<1>15. CASE t = "menuItems"
  <2> DEFINE dishes == [p \in Groups(d) |-> Restaurants(d)[p[1]].groups[p[2]].items]
             J == [i \in DOMAIN RESTO_ORDER |-> DOMAIN Restaurants(d)[i].groups]
  <2>1. Groups(d) = UNION {{<<i, j>> : j \in J[i]} : i \in DOMAIN RESTO_ORDER} BY DEF Groups
  <2>2. \A i \in DOMAIN RESTO_ORDER : IsFiniteSet(J[i]) BY <1>13
  <2> HIDE DEF J
  <2>3. IsFiniteSet(Groups(d)) BY <1>1, <2>1, <2>2, PairsFinite
  <2>4. ASSUME NEW p \in Groups(d) PROVE IsFiniteSet(DOMAIN dishes[p])
    <3>1. PICK i \in DOMAIN RESTO_ORDER : \E j \in DOMAIN Restaurants(d)[i].groups : p = <<i, j>> BY <2>4 DEF Groups
    <3>2. PICK j \in DOMAIN Restaurants(d)[i].groups : p = <<i, j>> BY <3>1
    <3> DEFINE gs == Restaurants(d)[i].groups
    <3>3. gs \in Seq(GroupDto) /\ j \in DOMAIN gs BY <1>12
    <3>4. p[1] = i /\ p[2] = j BY <3>2
    <3>5. dishes[p] = gs[j].items BY <2>4, <3>4
    <3> HIDE DEF gs, dishes
    <3>6. gs[j] \in GroupDto BY <3>3
    <3>7. gs[j].items \in Seq(DishDto) BY <3>6 DEF GroupDto
    <3>8. IsFiniteSet(DOMAIN gs[j].items) BY <3>7, ListFinite
    <3> QED BY <3>5, <3>8
  <2>5. DOMAIN dishes = Groups(d) OBVIOUS
  <2> HIDE DEF dishes
  <2>6. IsFiniteSet(Table(dishes)) BY <2>3, <2>4, <2>5, TableFinite
  <2> QED BY <1>15, <2>6 DEF TablesOf, seedMenuItems, dishes
<1>16. d.PACKS.families \in [1..Families -> Seq(PackDto)] BY DEF Sections
<1>17. IsFiniteSet(1..Families) BY CatalogAssumption, FS_Interval
<1>18. CASE t = "packageTiers"
  <2> DEFINE w == Tiers(d)
  <2>1. DOMAIN w = 1..Families /\ \A f \in 1..Families : DOMAIN w[f] = DOMAIN d.PACKS.families[f] BY <1>16 DEF Tiers
  <2>2. \A f \in 1..Families : IsFiniteSet(DOMAIN d.PACKS.families[f]) BY <1>3, <1>16
  <2> HIDE DEF w
  <2>3. IsFiniteSet(Each(w)) BY <1>17, <2>1, <2>2, EachFinite
  <2> QED BY <1>18, <2>3 DEF TablesOf, w
<1>19. CASE t = "packageTierItems"
  <2> DEFINE fs == d.PACKS.families
             items == [p \in TierIds(d) |-> fs[p[1]][p[2]].items]
             J == [f \in DOMAIN fs |-> DOMAIN fs[f]]
  <2>0. DOMAIN fs = 1..Families BY <1>16
  <2>1. TierIds(d) = UNION {{<<i, j>> : j \in J[i]} : i \in DOMAIN fs}
    <3> DEFINE K == DOMAIN fs
               U == UNION {{<<i, j>> : j \in J[i]} : i \in K}
    <3>1. \A i \in K : J[i] = DOMAIN fs[i] OBVIOUS
    <3>2. TierIds(d) = UNION {{<<i, j>> : j \in DOMAIN fs[i]} : i \in K} BY DEF TierIds
    <3> HIDE DEF J, fs, K
    <3>3. UNION {{<<i, j>> : j \in DOMAIN fs[i]} : i \in K} = U BY <3>1
    <3> QED BY <3>2, <3>3 DEF K
  <2>2. \A i \in DOMAIN fs : IsFiniteSet(J[i]) BY <1>3, <1>16, <2>0
  <2>20. IsFiniteSet(DOMAIN fs) BY <1>17, <2>0
  <2> HIDE DEF J, fs
  <2>3. IsFiniteSet(TierIds(d)) BY <2>1, <2>2, <2>20, PairsFinite
  <2> USE DEF fs
  <2>4. ASSUME NEW p \in TierIds(d) PROVE IsFiniteSet(DOMAIN items[p])
    <3>1. PICK f \in 1..Families : \E j \in DOMAIN fs[f] : p = <<f, j>> BY <1>16, <2>4 DEF TierIds
    <3>2. PICK j \in DOMAIN fs[f] : p = <<f, j>> BY <3>1
    <3>3. p[1] = f /\ p[2] = j BY <3>2
    <3>4. items[p] = fs[f][j].items BY <2>4, <3>3
    <3>5. fs[f] \in Seq(PackDto) BY <1>16
    <3> HIDE DEF items
    <3>6. fs[f][j] \in PackDto BY <3>2, <3>5
    <3>7. fs[f][j].items \in TextList BY <3>6 DEF PackDto
    <3> QED BY <1>2, <3>4, <3>7
  <2>5. DOMAIN items = TierIds(d) OBVIOUS
  <2>6. seedTierItems(d) = Table(items) BY DEF seedTierItems
  <2> HIDE DEF items
  <2>7. IsFiniteSet(Table(items)) BY <2>3, <2>4, <2>5, TableFinite
  <2> QED BY <1>19, <2>6, <2>7 DEF TablesOf
<1>20. CASE t = "priceList"
  <2> DEFINE w == d.PL
  <2>1. w \in Seq(TextList \ {<<>>}) BY DEF Sections
  <2> HIDE DEF w
  <2>2. \A i \in DOMAIN w : w[i] \in TextList BY <2>1
  <2>3. IsFiniteSet(DOMAIN w) BY <2>1, ListFinite
  <2>4. IsFiniteSet(Each(w)) BY <1>2, <2>2, <2>3, EachFinite
  <2> QED BY <1>20, <2>4 DEF TablesOf, w
<1>21. CASE t \in {"photoTiers", "photoAddons"}
  <2>1. ASSUME NEW half \in {"tiers", "addons"} PROVE IsFiniteSet(seedPhoto(d, half))
    <3> DEFINE P == {<<"rr">>, <<"nr">>}
               lists == [p \in P |-> d.PHOTO[p[1]][half]]
    <3>1. IsFiniteSet(P)
      <4>1. IsFiniteSet({<<"rr">>}) BY FS_Singleton
      <4>2. IsFiniteSet({<<"rr">>} \cup {<<"nr">>}) BY <4>1, FS_AddElement
      <4>3. P = {<<"rr">>} \cup {<<"nr">>} OBVIOUS
      <4> QED BY <4>2, <4>3
    <3>2. d.PHOTO["rr"] \in [tiers : TextList, addons : TextList] /\ d.PHOTO["nr"] \in [tiers : TextList, addons : TextList] BY DEF Sections
    <3>3. d.PHOTO["rr"][half] \in TextList /\ d.PHOTO["nr"][half] \in TextList BY <2>1, <3>2
    <3>4. lists[<<"rr">>] = d.PHOTO["rr"][half] /\ lists[<<"nr">>] = d.PHOTO["nr"][half] OBVIOUS
    <3>5. DOMAIN lists = P OBVIOUS
    <3>6. seedPhoto(d, half) = Table(lists) BY DEF seedPhoto
    <3> HIDE DEF lists
    <3>7. \A p \in P : IsFiniteSet(DOMAIN lists[p]) BY <1>2, <3>3, <3>4
    <3> HIDE DEF P
    <3>8. IsFiniteSet(Table(lists)) BY <3>1, <3>5, <3>7, TableFinite
    <3> QED BY <3>6, <3>8
  <2> QED BY <1>21, <2>1 DEF TablesOf
<1> QED BY <1>5, <1>6, <1>8, <1>9, <1>10, <1>11, <1>14, <1>15, <1>18, <1>19, <1>20, <1>21 DEF TableNames

Priced(v) == DOMAIN v = {"key", "val", "price", "rr", "nr"} /\ v = [f \in DOMAIN v |-> v[f]]
Keyed(rows) ==
  /\ IsFiniteSet(rows)
  /\ \A r \in rows : r = Row(r.id, r.parent, r.sort, r.val) /\ Priced(r.val)
  /\ \A r, s \in rows : r.val.key = s.val.key => r = s

(* The tables hold what one document gave them, but for the rates of the   *)
(* experiences; a build no write fell into has read each whole.            *)
Stored(b, t) == IF t = "products" THEN {p \in b[t] : p.val.active} ELSE b[t]
Seeded(d, b) ==
  /\ \A t \in TableNames \ {"experiences"} : b[t] = TablesOf(d)[t]
  /\ b.products = Products /\ TableNames \cup {"products"} \subseteq DOMAIN b
  /\ \E v : Values(d, v) /\ b.experiences = insert(v)
CatalogInv ==
  /\ CatalogTypeOK /\ mixed \in BOOLEAN /\ Seeded(content, db)
  /\ "products" \in DOMAIN got => TableNames \subseteq DOMAIN got
  /\ ~mixed => \A t \in DOMAIN got : Reading(t, Stored(db, t), got[t])
  /\ CatalogHold

LEMMA ValuesKeyed ==
  ASSUME NEW d, Sections(d), NEW v, Values(d, v)
  PROVE  Keyed(insert(v))
<1> DEFINE I == DOMAIN d.ACTS
           S == RowsOf(<<>>, v)
<1>1. IsFiniteSet(I) /\ \A i, j \in I : d.ACTS[i].key = d.ACTS[j].key => i = j
  <2>1. IsFiniteSet(I) BY ListFinite DEF Sections
  <2> QED BY <2>1 DEF Sections
<1>2. insert(v) = S BY DEF insert
<1>3. DOMAIN v = I
      /\ \A i \in I : v[i] = [key |-> d.ACTS[i].key, val |-> d.ACTS[i].val, price |-> d.ACTS[i].price, rr |-> v[i].rr, nr |-> v[i].nr]
  BY DEF Values
<1>4. \A i \in I : v[i].key = d.ACTS[i].key /\ Priced(v[i])
  <2> SUFFICES ASSUME NEW i \in I PROVE v[i].key = d.ACTS[i].key /\ Priced(v[i]) OBVIOUS
  <2> DEFINE w == v[i]
  <2>1. w = [key |-> d.ACTS[i].key, val |-> d.ACTS[i].val, price |-> d.ACTS[i].price, rr |-> w.rr, nr |-> w.nr] BY <1>3
  <2> HIDE DEF w
  <2>2. w.key = d.ACTS[i].key /\ Priced(w) BY <2>1 DEF Priced
  <2> QED BY <2>2 DEF w
<1>5. \A r \in S : \E i \in I : r = RowAt(<<>>, v, i) BY <1>3, RowsAre
<1>6. IsFiniteSet(S) BY <1>1, <1>3, RowsFinite
<1> HIDE DEF S, I
<1>7. \A r \in S : r = Row(r.id, r.parent, r.sort, r.val) /\ Priced(r.val)
  <2> SUFFICES ASSUME NEW r \in S PROVE r = Row(r.id, r.parent, r.sort, r.val) /\ Priced(r.val) OBVIOUS
  <2>1. PICK i \in I : r = RowAt(<<>>, v, i) BY <1>5
  <2>2. r.val = v[i] BY <2>1, RowAtIs
  <2>3. r = [id |-> r.id, parent |-> r.parent, sort |-> r.sort, val |-> r.val] BY <2>1 DEF RowAt, Row
  <2> QED BY <1>4, <2>2, <2>3 DEF Row
<1>8. \A r, s \in S : r.val.key = s.val.key => r = s
  <2> SUFFICES ASSUME NEW r \in S, NEW s \in S, r.val.key = s.val.key PROVE r = s OBVIOUS
  <2>1. PICK i \in I : r = RowAt(<<>>, v, i) BY <1>5
  <2>2. PICK j \in I : s = RowAt(<<>>, v, j) BY <1>5
  <2>3. r.val = v[i] BY <2>1, RowAtIs
  <2>4. s.val = v[j] BY <2>2, RowAtIs
  <2>5. i = j BY <1>1, <1>4, <2>3, <2>4
  <2> QED BY <2>1, <2>2, <2>5
<1> QED BY <1>2, <1>6, <1>7, <1>8 DEF Keyed

LEMMA SeedIs == ASSUME NEW d PROVE \E v : Values(d, v) /\ seedExperiences(d) = insert(v)
<1> DEFINE v == [i \in DOMAIN d.ACTS |->
                  LET a == d.ACTS[i]  rated == a.key \in DOMAIN d.RATEP IN
                  [key |-> a.key, val |-> a.val, price |-> a.price,
                   rr |-> IF rated THEN d.RATEP[a.key][1] ELSE NoPrice, nr |-> IF rated THEN d.RATEP[a.key][2] ELSE NoPrice]]
<1>1. seedExperiences(d) = insert(v) BY SMTT(30) DEF seedExperiences
<1>2. Values(d, v) BY DEF Values
<1> HIDE DEF v
<1> QED BY <1>1, <1>2

LEMMA SeededIs == ASSUME NEW d, NEW b, DOMAIN TablesOf(d) \subseteq DOMAIN b, b.products = Products, \A t \in TableNames : b[t] = TablesOf(d)[t] PROVE Seeded(d, b)
<1>1. "experiences" \in TableNames /\ "experiences" \in DOMAIN TablesOf(d) /\ TablesOf(d).experiences = seedExperiences(d) BY DEF TableNames, TablesOf
<1>2. b.experiences = seedExperiences(d) /\ TableNames \cup {"products"} \subseteq DOMAIN b BY <1>1 DEF TableNames, TablesOf
<1>3. PICK v : Values(d, v) /\ seedExperiences(d) = insert(v) BY SeedIs
<1> QED BY <1>2, <1>3 DEF Seeded

LEMMA StoredFinite ==
  ASSUME NEW d, Sections(d), NEW b, Seeded(d, b), NEW t \in TableNames \cup {"products"}
  PROVE  IsFiniteSet(Stored(b, t))
<1>1. CASE t = "products"
  <2>1. IsFiniteSet(Products) /\ b.products = Products BY CatalogAssumption DEF Seeded
  <2>2. Stored(b, t) \subseteq Products BY <1>1, <2>1 DEF Stored
  <2> QED BY <2>1, <2>2, FS_Subset
<1>2. CASE t = "experiences"
  <2>1. PICK v : Values(d, v) /\ b.experiences = insert(v) BY DEF Seeded
  <2>2. IsFiniteSet(insert(v)) BY <2>1, ValuesKeyed DEF Keyed
  <2> QED BY <1>2, <2>1, <2>2 DEF Stored
<1>3. CASE t \in TableNames \ {"experiences"}
  <2>1. t # "products" BY <1>3 DEF TableNames
  <2>2. Stored(b, t) = TablesOf(d)[t] BY <1>3, <2>1 DEF Stored, Seeded
  <2> QED BY <1>3, <2>2, SeedFinite
<1> QED BY <1>1, <1>2, <1>3

LEMMA ReadRows ==
  ASSUME NEW t, NEW s \in readings(t), IsFiniteSet(Stored(db, t))
  PROVE  Reading(t, Stored(db, t), s)
<1> DEFINE rows == Stored(db, t)
<1>1. s \in SetToSeqs(rows) /\ \A i, j \in DOMAIN s : i < j => ~before(t, s[j], s[i]) BY DEF readings, Stored
<1> HIDE DEF rows
<1>2. IsFiniteSet(rows) BY DEF rows
<1>3. Reading(t, rows, s) BY <1>1, <1>2 DEF Reading
<1> QED BY <1>3 DEF rows

LEMMA QuotesCharged ==
  ASSUME NEW g, NEW rows, Keyed(rows), Range(g.experiences) = rows, NEW r \in rows, NEW rate \in {"rr", "nr"}
  PROVE  LET k == r.val.key
             act == CHOOSE a \in Range(mapActivities(g)) : a.key = k
             quoted == IF k \in DOMAIN mapRatePrices(g) THEN mapRatePrices(g)[k][IF rate = "rr" THEN 1 ELSE 2] ELSE act.price
         IN quoted = priceFor(r.val, rate)
<1> DEFINE acts == mapActivities(g)
           rates == mapRatePrices(g)
           k == r.val.key
           rated == {x \in rows : x.val.rr # NoPrice}
<1>1. \A x, y \in rows : x.val.key = y.val.key => x = y BY DEF Keyed
<1>2. acts = [i \in DOMAIN g.experiences |->
                LET e == g.experiences[i] IN
                [key |-> e.val.key, val |-> e.val.val, price |-> e.val.price, items |-> Vals(groupBy(g.facts, e.id))]]
  BY DEF mapActivities, Map
<1>3. DOMAIN acts = DOMAIN g.experiences
      /\ \A i \in DOMAIN acts : acts[i].key = g.experiences[i].val.key /\ acts[i].price = g.experiences[i].val.price
  BY <1>2
<1>4. rates = [x \in {y.val.key : y \in rated} |->
                 LET e == (CHOOSE y \in rated : y.val.key = x).val IN <<e.rr, IF e.nr # NoPrice THEN e.nr ELSE e.rr>>]
  BY DEF mapRatePrices
<1> HIDE DEF acts, rates
<1>5. PICK i \in DOMAIN g.experiences : g.experiences[i] = r BY DEF Range
<1>6. \A a \in Range(acts) : a.key = k => a.price = r.val.price
  <2> SUFFICES ASSUME NEW j \in DOMAIN acts, acts[j].key = k PROVE acts[j].price = r.val.price BY DEF Range
  <2>1. g.experiences[j] \in rows BY <1>3 DEF Range
  <2>2. g.experiences[j].val.key = r.val.key BY <1>3
  <2>3. g.experiences[j] = r BY <1>1, <2>1, <2>2
  <2> QED BY <1>3, <2>3
<1>7. acts[i] \in Range(acts) /\ acts[i].key = k BY <1>3, <1>5 DEF Range
<1>8. (CHOOSE a \in Range(acts) : a.key = k).price = r.val.price BY <1>6, <1>7
<1>9. CASE r.val.rr = NoPrice
  <2>1. k \notin DOMAIN rates
    <3> SUFFICES ASSUME k \in DOMAIN rates PROVE FALSE OBVIOUS
    <3>1. PICK y \in rated : y.val.key = k BY <1>4
    <3>2. y = r BY <1>1, <3>1
    <3> QED BY <1>9, <3>2
  <2>2. priceFor(r.val, rate) = r.val.price BY <1>9 DEF priceFor
  <2> QED BY <1>8, <2>1, <2>2 DEF acts, rates
<1>10. CASE r.val.rr # NoPrice
  <2>1. r \in rated BY <1>10
  <2>2. (CHOOSE y \in rated : y.val.key = k) = r BY <1>1, <2>1
  <2>3. k \in DOMAIN rates /\ rates[k] = <<r.val.rr, IF r.val.nr # NoPrice THEN r.val.nr ELSE r.val.rr>>
    <3>1. k \in {y.val.key : y \in rated} BY <2>1
    <3> HIDE DEF rated
    <3>2. k \in DOMAIN rates BY <1>4, <3>1
    <3>3. rates[k] = LET e == (CHOOSE y \in rated : y.val.key = k).val IN <<e.rr, IF e.nr # NoPrice THEN e.nr ELSE e.rr>> BY <1>4, <3>1
    <3>4. (CHOOSE y \in rated : y.val.key = k).val = r.val BY <2>2
    <3> HIDE DEF k
    <3> QED BY <3>2, <3>3, <3>4
  <2>4. rates[k][IF rate = "rr" THEN 1 ELSE 2] = priceFor(r.val, rate)
    <3>1. CASE rate = "rr" BY <1>10, <2>3, <3>1 DEF priceFor
    <3>2. CASE rate = "nr"
      <4>1. rates[k][2] = IF r.val.nr # NoPrice THEN r.val.nr ELSE r.val.rr BY <2>3
      <4> QED BY <1>10, <3>2, <4>1 DEF priceFor
    <3> QED BY <3>1, <3>2
  <2> QED BY <2>3, <2>4 DEF acts, rates
<1> QED BY <1>9, <1>10

(* What is given for three sections takes their place.                     *)
LEMMA SeqOver ==
  ASSUME NEW S, NEW T, NEW s \in Seq(S), NEW f, f = [i \in DOMAIN s |-> f[i]], \A i \in DOMAIN s : f[i] \in T
  PROVE  f \in Seq(T)
<1>1. Len(s) \in Nat /\ DOMAIN s = 1..Len(s) OBVIOUS
<1>2. f \in [1..Len(s) -> T] BY <1>1
<1> QED BY <1>1, <1>2

LEMMA WithSections ==
  ASSUME NEW d, Sections(d), NEW acts \in Seq(ActivityDto), \A i, j \in DOMAIN acts : acts[i].key = acts[j].key => i = j,
         NEW galleries \in Seq(GalleryDto), NEW restos, \A i \in DOMAIN RESTO_ORDER : restos[RESTO_ORDER[i]] \in RestaurantDto
  PROVE  Sections(With(d, acts, galleries, restos))
<1> DEFINE w == With(d, acts, galleries, restos)
<1>1. w.ACTS = acts /\ w.PACKS = d.PACKS /\ w.COMBO = d.COMBO /\ w.TEAM = d.TEAM /\ w.PINS = d.PINS /\ w.CINE = d.CINE
      /\ w.HERO = d.HERO /\ w.PL = d.PL /\ w.PHOTO = d.PHOTO /\ w.ENTRY = d.ENTRY /\ w.GAL = galleries /\ w.RESTOS = restos
  BY DEF With
<1> HIDE DEF w
<1>2. w.ACTS \in Seq(ActivityDto) /\ (\A i, j \in DOMAIN w.ACTS : w.ACTS[i].key = w.ACTS[j].key => i = j) BY <1>1
<1>3. w.GAL \in Seq(GalleryDto) /\ \A i \in DOMAIN RESTO_ORDER : w.RESTOS[RESTO_ORDER[i]] \in RestaurantDto BY <1>1
<1>4. w.PACKS \in [families : [1..Families -> Seq(PackDto)], addons : TextList, vip : TextList] BY <1>1 DEF Sections
<1>5. w.COMBO \in Seq(PackDto) /\ w.TEAM \in Seq(PackDto) /\ w.PINS \in TextList /\ w.CINE \in TextList /\ w.HERO \in TextList
  BY <1>1 DEF Sections
<1>6. w.PL \in Seq(TextList \ {<<>>}) /\ w.PHOTO \in [{"rr", "nr"} -> [tiers : TextList, addons : TextList]] BY <1>1 DEF Sections
<1>7. w.ENTRY \in Seq([key : Texts, price : Nat]) /\ (\A i, j \in DOMAIN w.ENTRY : w.ENTRY[i].key = w.ENTRY[j].key => i = j)
  BY <1>1 DEF Sections
<1>8. Sections(w) BY <1>2, <1>3, <1>4, <1>5, <1>6, <1>7 DEF Sections
<1> QED BY <1>8 DEF w

(* A restaurant with other menu groups, and such a group with other dishes.*)
LEMMA MenuFits ==
  ASSUME NEW r \in RestaurantDto, NEW f, f = [g \in DOMAIN r.groups |-> f[g]], \A g \in DOMAIN r.groups : f[g] \in GroupDto
  PROVE  [val |-> r.val, gallery |-> r.gallery, groups |-> f] \in RestaurantDto
<1>1. r.groups \in Seq(GroupDto) /\ r.val \in Texts /\ r.gallery \in TextList BY DEF RestaurantDto
<1>2. f \in Seq(GroupDto) BY <1>1, SeqOver
<1> HIDE DEF GroupDto
<1> QED BY <1>1, <1>2 DEF RestaurantDto

LEMMA GroupFits ==
  ASSUME NEW m \in GroupDto, NEW noted \in BOOLEAN, NEW f, f = [k \in DOMAIN m.items |-> f[k]],
         \A k \in DOMAIN m.items : f[k].allergens \in BOOLEAN /\ f[k] = [dish |-> m.items[k].dish, allergens |-> f[k].allergens]
  PROVE  [title |-> m.title, note |-> noted, items |-> f] \in GroupDto
<1>1. m.items \in Seq(DishDto) /\ m.title \in Texts BY DEF GroupDto
<1>2. ASSUME NEW k \in DOMAIN m.items PROVE f[k] \in DishDto
  <2>1. m.items[k] \in DishDto BY <1>1
  <2>2. m.items[k].dish \in Texts BY <2>1 DEF DishDto
  <2> DEFINE a == f[k].allergens
  <2>3. a \in BOOLEAN /\ f[k] = [dish |-> m.items[k].dish, allergens |-> a] OBVIOUS
  <2> HIDE DEF a
  <2> QED BY <2>2, <2>3 DEF DishDto
<1>3. f \in Seq(DishDto) BY <1>1, <1>2, SeqOver, ZenonT(60)
<1> HIDE DEF DishDto
<1> QED BY <1>1, <1>3 DEF GroupDto

LEMMA SeedableSections == ASSUME NEW d, Sections(d) PROVE Sections(Seedable(d))
<1> DEFINE galleries == [i \in DOMAIN d.GAL |-> Silent(d.GAL[i])]
           restos == [k \in Range(RESTO_ORDER) |-> PlainMenu(d.RESTOS[k])]
<1>1. galleries \in Seq(GalleryDto)
  <2>1. d.GAL \in Seq(GalleryDto) BY DEF Sections
  <2>2. \A i \in DOMAIN d.GAL : galleries[i] \in GalleryDto
    <3> SUFFICES ASSUME NEW i \in DOMAIN d.GAL PROVE galleries[i] \in GalleryDto OBVIOUS
    <3>1. d.GAL[i] \in GalleryDto BY <2>1
    <3> QED BY <3>1 DEF GalleryDto, Silent
  <2>3. galleries = [i \in DOMAIN d.GAL |-> galleries[i]] OBVIOUS
  <2> HIDE DEF galleries
  <2> QED BY <2>1, <2>2, <2>3, SeqOver
<1>2. ASSUME NEW i \in DOMAIN RESTO_ORDER PROVE restos[RESTO_ORDER[i]] \in RestaurantDto
  <2> DEFINE r == d.RESTOS[RESTO_ORDER[i]]
             f == [g \in DOMAIN r.groups |-> Plain(r.groups[g])]
  <2>1. r \in RestaurantDto BY DEF Sections
  <2>2. restos[RESTO_ORDER[i]] = [val |-> r.val, gallery |-> r.gallery, groups |-> f] BY DEF Range, PlainMenu
  <2>3. ASSUME NEW g \in DOMAIN r.groups PROVE f[g] \in GroupDto
    <3> DEFINE m == r.groups[g]
               h == [k \in DOMAIN m.items |-> [dish |-> m.items[k].dish, allergens |-> FALSE]]
    <3>1. r.groups \in Seq(GroupDto) BY <2>1 DEF RestaurantDto
    <3>2. m \in GroupDto BY <3>1, SMTT(30)
    <3>3. f[g] = [title |-> m.title, note |-> FALSE, items |-> h] BY DEF Plain
    <3>4. h = [k \in DOMAIN m.items |-> h[k]] BY SMTT(30)
    <3>5. \A k \in DOMAIN m.items : h[k].allergens \in BOOLEAN /\ h[k] = [dish |-> m.items[k].dish, allergens |-> h[k].allergens] OBVIOUS
    <3> HIDE DEF m, h, f
    <3> QED BY <3>2, <3>3, <3>4, <3>5, GroupFits, ZenonT(60)
  <2>4. f = [g \in DOMAIN r.groups |-> f[g]] OBVIOUS
  <2> HIDE DEF r, f
  <2> QED BY <2>1, <2>2, <2>3, <2>4, MenuFits
<1> HIDE DEF galleries, restos
<1>4. d.ACTS \in Seq(ActivityDto) /\ \A i, j \in DOMAIN d.ACTS : d.ACTS[i].key = d.ACTS[j].key => i = j BY DEF Sections
<1>3. Sections(With(d, d.ACTS, galleries, restos)) BY <1>1, <1>2, <1>4, WithSections
<1> QED BY <1>3 DEF Seedable, galleries, restos

LEMMA CatalogInitially == CatalogInit => CatalogInv
<1> SUFFICES ASSUME CatalogInit PROVE CatalogInv OBVIOUS
<1>1. got = <<>> /\ built = NoBuilt /\ mixed = FALSE /\ reprices = 0 BY DEF CatalogInit
<1>2. DOMAIN got = {} BY <1>1
<1>0. PICK d \in Documents : content = Seedable(d) /\ db = seed(d) BY DEF CatalogInit
<1>00. Sections(content) BY <1>0, CatalogAssumption, SeedableSections
<1>01. db = TablesOf(content) BY <1>0 DEF seed
<1>3. Seeded(content, db)
  <2>1. db.products = Products BY <1>01 DEF TablesOf
  <2> QED BY <1>01, <2>1, SeededIs
<1>4. CatalogTypeOK BY <1>00, <1>1, <1>2, CatalogAssumption DEF CatalogTypeOK
<1>5. CatalogHold BY <1>1 DEF CatalogHold, RoundTrip, QuotedIsCharged
<1> QED BY <1>1, <1>2, <1>3, <1>4, <1>5 DEF CatalogInv

LEMMA TableRead ==
  ASSUME CatalogInv, NEW t \in TableNames \cup {"products"}, Load(t),
         t = "products" => TableNames \subseteq DOMAIN got
  PROVE  CatalogInv'
<1>1. PICK s \in readings(t) : got' = [u \in DOMAIN got \cup {t} |-> IF u = t THEN s ELSE got[u]] BY DEF Load
<1>2. mixed' = (DOMAIN got # {} /\ mixed) /\ content' = content /\ db' = db /\ built' = built /\ reprices' = reprices BY DEF Load
<1>3. mixed \in BOOLEAN /\ CatalogTypeOK /\ Seeded(content, db) BY DEF CatalogInv
<1>4. mixed' \in BOOLEAN /\ (~mixed' => DOMAIN got = {} \/ ~mixed) BY <1>2, <1>3
<1>5. DOMAIN got' = DOMAIN got \cup {t} /\ got'[t] = s /\ \A u \in DOMAIN got \ {t} : got'[u] = got[u] BY <1>1
<1>6. Sections(content) BY <1>3, CatalogAssumption DEF CatalogTypeOK
<1>7. Reading(t, Stored(db, t), s)
  <2>1. IsFiniteSet(Stored(db, t)) BY <1>3, <1>6, StoredFinite
  <2> QED BY <2>1, ReadRows
<1>8. ASSUME ~mixed', NEW u \in DOMAIN got' PROVE Reading(u, Stored(db, u), got'[u])
  <2>1. CASE u = t BY <1>5, <1>7, <2>1
  <2>2. CASE u # t
    <3>1. u \in DOMAIN got /\ got'[u] = got[u] BY <1>5, <1>8, <2>2
    <3>2. ~mixed BY <1>4, <1>8, <3>1
    <3>3. Reading(u, Stored(db, u), got[u]) BY <3>1, <3>2 DEF CatalogInv
    <3> QED BY <3>1, <3>3
  <2> QED BY <2>1, <2>2
<1>9. CatalogTypeOK'
  <2>1. ASSUME ~mixed', NEW u \in DOMAIN got' PROVE Range(got'[u]) \subseteq db[u]
    <3>1. Reading(u, Stored(db, u), got'[u]) BY <1>8, <2>1
    <3>2. got'[u] \in [DOMAIN got'[u] -> Stored(db, u)] BY <3>1, ReadingIs
    <3>3. Stored(db, u) \subseteq db[u] BY DEF Stored
    <3> QED BY <3>2, <3>3 DEF Range
  <2>2. DOMAIN got' \subseteq Range(Content) \cup {"products"} BY <1>3, <1>5, ContentIs DEF CatalogTypeOK
  <2>3. Sections(content)' /\ reprices' \in 0..MaxReprices BY <1>2, <1>3 DEF CatalogTypeOK
  <2>4. \A u \in DOMAIN got' : mixed' \/ Range(got'[u]) \subseteq db'[u] BY <1>2, <2>1
  <2> QED BY <2>2, <2>3, <2>4 DEF CatalogTypeOK
<1>10. "products" \in DOMAIN got' => TableNames \subseteq DOMAIN got' BY <1>5 DEF CatalogInv
<1>11. Seeded(content, db)' BY <1>2, <1>3
<1>12. CatalogHold' BY <1>2 DEF CatalogInv, CatalogHold, RoundTrip, QuotedIsCharged, priceFor
<1>13. (~mixed => \A u \in DOMAIN got : Reading(u, Stored(db, u), got[u]))' BY <1>2, <1>8
<1> QED BY <1>4, <1>9, <1>10, <1>11, <1>12, <1>13 DEF CatalogInv

LEMMA Built ==
  ASSUME CatalogInv, buildCatalog
  PROVE  CatalogInv'
<1>1. /\ "products" \in DOMAIN got /\ got' = <<>>
      /\ built' = [made |-> TRUE, data |-> assembleCatalog(got), of |-> content, rows |-> db.experiences, mixed |-> mixed]
      /\ content' = content /\ db' = db /\ mixed' = mixed /\ reprices' = reprices
  BY DEF buildCatalog
<1>2. DOMAIN got' = {} BY <1>1
<1>3. TableNames \subseteq DOMAIN got /\ mixed \in BOOLEAN /\ Seeded(content, db) /\ CatalogTypeOK BY <1>1 DEF CatalogInv
<1>4. CatalogTypeOK' BY <1>1, <1>2, <1>3 DEF CatalogTypeOK
<1>5. built'.rows = db.experiences /\ built'.mixed = mixed /\ built'.data = assembleCatalog(got) /\ built'.of = content BY <1>1
<1>6. built'.data.ACTS = mapActivities(got) /\ built'.data.RATEP = mapRatePrices(got) BY <1>5 DEF assembleCatalog
<1>7. Sections(content) BY <1>3, CatalogAssumption DEF CatalogTypeOK
<1>8. PICK v : Values(content, v) /\ db.experiences = insert(v) BY <1>3 DEF Seeded
<1>9. ASSUME ~mixed PROVE \A t \in TableNames \cup {"products"} : Reading(t, Stored(db, t), got[t]) BY <1>1, <1>3, <1>9 DEF CatalogInv
<1>10. ASSUME ~mixed PROVE Reading("experiences", db.experiences, got.experiences)
  <2>1. "experiences" \in TableNames /\ Stored(db, "experiences") = db.experiences BY DEF TableNames, Stored
  <2>2. Reading("experiences", Stored(db, "experiences"), got["experiences"]) BY <1>9, <1>10, <2>1
  <2> QED BY <2>1, <2>2
<1>11. QuotedIsCharged'
  <2> SUFFICES ASSUME ~mixed, NEW r \in db.experiences, NEW rate \in {"rr", "nr"}
               PROVE  LET k == r.val.key
                          act == CHOOSE a \in Range(built'.data.ACTS) : a.key = k
                          quoted == IF k \in DOMAIN built'.data.RATEP THEN built'.data.RATEP[k][IF rate = "rr" THEN 1 ELSE 2] ELSE act.price
                      IN quoted = priceFor(r.val, rate)
    BY <1>5 DEF QuotedIsCharged, priceFor
  <2>1. Keyed(db.experiences) BY <1>7, <1>8, ValuesKeyed
  <2>2. got.experiences \in SetToSeqs(db.experiences) BY <1>10 DEF Reading
  <2>3. Range(got.experiences) = db.experiences BY <2>1, <2>2, AllRead DEF Keyed
  <2> QED BY <1>6, <2>1, <2>3, QuotesCharged
<1>12. RoundTrip'
  <2> SUFFICES ASSUME ~mixed PROVE Faithful(assembleCatalog(got), content) BY <1>5 DEF RoundTrip
  <2>1. ASSUME NEW t \in TableNames \ {"experiences"} PROVE Reading(t, TablesOf(content)[t], got[t])
    <3>1. t # "products" BY DEF TableNames
    <3>2. Stored(db, t) = TablesOf(content)[t] BY <1>3, <3>1 DEF Stored, Seeded
    <3>3. Reading(t, Stored(db, t), got[t]) BY <1>9
    <3> QED BY <3>2, <3>3
  <2>2. Reading("experiences", insert(v), got.experiences) BY <1>8, <1>10
  <2>3. Reading("products", {x \in Products : x.val.active}, got.products)
    <3>1. Stored(db, "products") = {x \in Products : x.val.active} BY <1>3 DEF Stored, Seeded
    <3>2. Reading("products", Stored(db, "products"), got["products"]) BY <1>9
    <3> QED BY <3>1, <3>2
  <2>4. PageRead(content, v, got) BY <1>8, <2>1, <2>2, <2>3 DEF PageRead
  <2> QED BY <1>7, <2>4, PageKept
<1>13. CatalogHold' BY <1>11, <1>12 DEF CatalogHold
<1>14. Seeded(content, db)' BY <1>1, <1>3
<1> QED BY <1>1, <1>2, <1>3, <1>4, <1>13, <1>14 DEF CatalogInv

(* Whoever writes rows leaves tables that hold what they were given.       *)
LEMMA RowsChanged == ASSUME CatalogInv, Writing, Sections(content'), Seeded(content', db') PROVE CatalogInv'
<1>1. reprices < MaxReprices /\ reprices' = reprices + 1 /\ mixed' = TRUE /\ got' = got /\ built' = built BY DEF Writing
<1>2. CatalogTypeOK' BY <1>1, CatalogAssumption DEF CatalogInv, CatalogTypeOK
<1>3. CatalogHold' BY <1>1 DEF CatalogInv, CatalogHold, RoundTrip, QuotedIsCharged, priceFor
<1> QED BY <1>1, <1>2, <1>3 DEF CatalogInv

(* Rows that take new values are the rows of the lists that have them.     *)
Revised(p, els, new, vals) ==
  /\ DOMAIN new = DOMAIN els
  /\ \A k \in DOMAIN els : new[k] = IF RowAt(p, els, k) \in DOMAIN vals THEN vals[RowAt(p, els, k)] ELSE els[k]

LEMMA RowsUpdated ==
  ASSUME NEW p, NEW els, NEW new, NEW vals, Revised(p, els, new, vals)
  PROVE  update(RowsOf(p, els), vals) = RowsOf(p, new)
<1> DEFINE Put(r) == Row(r.id, r.parent, r.sort, IF r \in DOMAIN vals THEN vals[r] ELSE r.val)
<1>1. update(RowsOf(p, els), vals) = {Put(r) : r \in RowsOf(p, els)} BY DEF update
<1>2. ASSUME NEW k \in DOMAIN els PROVE Put(RowAt(p, els, k)) = RowAt(p, new, k)
  <2> DEFINE r == RowAt(p, els, k)
  <2>1. r.id = Append(p, k) /\ r.parent = p /\ r.sort = k - 1 /\ r.val = els[k] BY RowAtIs
  <2>2. new[k] = IF r \in DOMAIN vals THEN vals[r] ELSE els[k] BY DEF Revised
  <2>3. RowAt(p, new, k) = Row(Append(p, k), p, k - 1, new[k]) BY DEF RowAt
  <2>4. Put(r) = RowAt(p, new, k)
    <3> HIDE DEF r
    <3> QED BY <2>1, <2>2, <2>3
  <2> QED BY <2>4
<1> HIDE DEF Put
<1>3. DOMAIN new = DOMAIN els BY DEF Revised
<1>4. \A r : r \in RowsOf(p, els) <=> \E k \in DOMAIN els : r = RowAt(p, els, k) BY RowsAre
<1>5. \A r : r \in RowsOf(p, new) <=> \E k \in DOMAIN els : r = RowAt(p, new, k) BY <1>3, RowsAre
<1>6. \A r : r \in {Put(x) : x \in RowsOf(p, els)} <=> r \in RowsOf(p, new) BY <1>2, <1>4, <1>5
<1> QED BY <1>1, <1>6

LEMMA TableUpdated ==
  ASSUME NEW lists, NEW news, DOMAIN news = DOMAIN lists, NEW vals, \A p \in DOMAIN lists : Revised(p, lists[p], news[p], vals)
  PROVE  update(Table(lists), vals) = Table(news)
<1> DEFINE Put(r) == Row(r.id, r.parent, r.sort, IF r \in DOMAIN vals THEN vals[r] ELSE r.val)
<1>1. update(Table(lists), vals) = {Put(r) : r \in Table(lists)} BY DEF update
<1>2. \A r : r \in Table(lists) <=> \E p \in DOMAIN lists : r \in RowsOf(p, lists[p]) BY DEF Table
<1>3. \A r : r \in Table(news) <=> \E p \in DOMAIN lists : r \in RowsOf(p, news[p]) BY DEF Table
<1>4. ASSUME NEW p \in DOMAIN lists, NEW r PROVE (\E x \in RowsOf(p, lists[p]) : r = Put(x)) <=> r \in RowsOf(p, news[p])
  <2>1. update(RowsOf(p, lists[p]), vals) = RowsOf(p, news[p]) BY RowsUpdated
  <2>2. update(RowsOf(p, lists[p]), vals) = {Put(x) : x \in RowsOf(p, lists[p])} BY DEF update
  <2> HIDE DEF Put
  <2> QED BY <2>1, <2>2
<1> HIDE DEF Put
<1>5. \A r : r \in {Put(x) : x \in Table(lists)} <=> r \in Table(news)
  <2> SUFFICES ASSUME NEW r PROVE (\E x \in Table(lists) : r = Put(x)) <=> r \in Table(news) OBVIOUS
  <2> QED BY <1>2, <1>3, <1>4
<1> QED BY <1>1, <1>5

LEMMA EachUpdated ==
  ASSUME NEW lists, NEW news, DOMAIN news = DOMAIN lists, NEW vals, \A i \in DOMAIN lists : Revised(<<i>>, lists[i], news[i], vals)
  PROVE  update(Each(lists), vals) = Each(news)
<1> DEFINE f == [p \in {<<i>> : i \in DOMAIN lists} |-> lists[p[1]]]
           h == [p \in {<<i>> : i \in DOMAIN news} |-> news[p[1]]]
<1>1. Each(lists) = Table(f) /\ Each(news) = Table(h) BY DEF Each
<1>2. DOMAIN h = DOMAIN f
  <2>1. {<<i>> : i \in DOMAIN news} = {<<i>> : i \in DOMAIN lists} OBVIOUS
  <2> QED BY <2>1
<1>3. ASSUME NEW p \in DOMAIN f PROVE Revised(p, f[p], h[p], vals)
  <2>1. PICK i \in DOMAIN lists : p = <<i>> OBVIOUS
  <2>2. f[p] = lists[i] /\ h[p] = news[i] BY <2>1
  <2> HIDE DEF f, h
  <2> QED BY <2>1, <2>2
<1> HIDE DEF f, h
<1> QED BY <1>1, <1>2, <1>3, TableUpdated

(* Other prices, galleries and menus leave the other tables as they are.   *)
Others == TableNames \ {"experiences", "galleries", "shots", "restaurants", "restaurantImages", "menuGroups", "menuItems"}
LEMMA OthersSame ==
  ASSUME NEW d, NEW acts, Items(acts) = Items(d.ACTS), NEW galleries, NEW restos, NEW t \in Others
  PROVE  TablesOf(With(d, acts, galleries, restos))[t] = TablesOf(d)[t]
<1> DEFINE w == With(d, acts, galleries, restos)
<1>1. w.ACTS = acts /\ w.PACKS = d.PACKS /\ w.COMBO = d.COMBO /\ w.TEAM = d.TEAM /\ w.PINS = d.PINS /\ w.CINE = d.CINE
      /\ w.HERO = d.HERO /\ w.PL = d.PL /\ w.PHOTO = d.PHOTO /\ w.ENTRY = d.ENTRY /\ w.CAT = d.CAT
  BY DEF With
<1> HIDE DEF w
<1>2. seedCategories(w) = seedCategories(d)
  <2> DEFINE f == [i \in DOMAIN CAT_ORDER |-> [key |-> CAT_ORDER[i], val |-> w.CAT[CAT_ORDER[i]]]]
             h == [i \in DOMAIN CAT_ORDER |-> [key |-> CAT_ORDER[i], val |-> d.CAT[CAT_ORDER[i]]]]
  <2>1. f = h BY <1>1
  <2>2. seedCategories(w) = insert(f) /\ seedCategories(d) = insert(h) BY DEF seedCategories
  <2> HIDE DEF f, h
  <2> QED BY <2>1, <2>2
<1>3. Tiers(w) = Tiers(d) BY <1>1 DEF Tiers
<1>4. seedTierItems(w) = seedTierItems(d)
  <2> DEFINE f == [p \in TierIds(w) |-> w.PACKS.families[p[1]][p[2]].items]
             h == [p \in TierIds(d) |-> d.PACKS.families[p[1]][p[2]].items]
  <2>1. TierIds(w) = TierIds(d)
    <3>1. TierIds(w) = UNION {{<<g, i>> : i \in DOMAIN w.PACKS.families[g]} : g \in DOMAIN w.PACKS.families} BY DEF TierIds
    <3>2. TierIds(d) = UNION {{<<g, i>> : i \in DOMAIN d.PACKS.families[g]} : g \in DOMAIN d.PACKS.families} BY DEF TierIds
    <3> DEFINE fs == d.PACKS.families
    <3>3. w.PACKS.families = fs /\ d.PACKS.families = fs BY <1>1
    <3> HIDE DEF fs
    <3> QED BY <3>1, <3>2, <3>3
  <2>2. f = h BY <1>1, <2>1
  <2>3. seedTierItems(w) = Table(f) /\ seedTierItems(d) = Table(h) BY DEF seedTierItems
  <2> HIDE DEF f, h
  <2> QED BY <2>2, <2>3
<1>5. ASSUME NEW half PROVE seedPhoto(w, half) = seedPhoto(d, half)
  <2> DEFINE f == [p \in {<<"rr">>, <<"nr">>} |-> w.PHOTO[p[1]][half]]
             h == [p \in {<<"rr">>, <<"nr">>} |-> d.PHOTO[p[1]][half]]
  <2>1. f = h BY <1>1
  <2>2. seedPhoto(w, half) = Table(f) /\ seedPhoto(d, half) = Table(h) BY DEF seedPhoto
  <2> HIDE DEF f, h
  <2> QED BY <2>1, <2>2
<1>6. TablesOf(w)[t] = TablesOf(d)[t]
  <2>1. CASE t \in {"categories", "facts", "pins", "packageTiers", "packageTierItems", "packageAddons", "vipItems"}
    BY <1>1, <1>2, <1>3, <1>4, <2>1 DEF TablesOf
  <2>2. CASE t \in {"combos", "comboItems", "cinematicItems", "priceList"} BY <1>1, <2>2 DEF TablesOf
  <2>3. CASE t \in {"photoTiers", "photoAddons", "teamPacks", "teamPackItems", "heroSlides", "settings"} BY <1>1, <1>5, <2>3 DEF TablesOf
  <2> QED BY <2>1, <2>2, <2>3 DEF Others, TableNames
<1> QED BY <1>6 DEF w

LEMMA MenusSame ==
  ASSUME NEW d, NEW w, Restaurants(w) = Restaurants(d)
  PROVE  /\ TablesOf(w).restaurants = TablesOf(d).restaurants /\ TablesOf(w).restaurantImages = TablesOf(d).restaurantImages
         /\ TablesOf(w).menuGroups = TablesOf(d).menuGroups /\ TablesOf(w).menuItems = TablesOf(d).menuItems
<1> DEFINE R(x) == Restaurants(x)
<1>1. TablesOf(w).restaurants = TablesOf(d).restaurants
  <2> DEFINE f(x) == [i \in DOMAIN RESTO_ORDER |-> [key |-> RESTO_ORDER[i], val |-> Restaurants(x)[i].val]]
  <2>1. f(w) = f(d) OBVIOUS
  <2>2. \A x : TablesOf(x).restaurants = insert(f(x)) BY DEF TablesOf, seedRestaurants
  <2> HIDE DEF f
  <2> QED BY <2>1, <2>2
<1>2. TablesOf(w).restaurantImages = TablesOf(d).restaurantImages
  <2> DEFINE f(x) == [i \in DOMAIN RESTO_ORDER |-> Restaurants(x)[i].gallery]
  <2>1. f(w) = f(d) OBVIOUS
  <2>2. \A x : TablesOf(x).restaurantImages = Each(f(x)) BY DEF TablesOf
  <2> HIDE DEF f
  <2> QED BY <2>1, <2>2
<1>3. TablesOf(w).menuGroups = TablesOf(d).menuGroups
  <2> DEFINE f(x) == [i \in DOMAIN RESTO_ORDER |-> MenuHeads(Restaurants(x)[i])]
  <2>1. f(w) = f(d) OBVIOUS
  <2>2. \A x : TablesOf(x).menuGroups = Each(f(x)) BY DEF TablesOf
  <2> HIDE DEF f
  <2> QED BY <2>1, <2>2
<1>4. TablesOf(w).menuItems = TablesOf(d).menuItems
  <2> DEFINE f(x) == [p \in Groups(x) |-> Restaurants(x)[p[1]].groups[p[2]].items]
  <2>1. Groups(w) = Groups(d) BY DEF Groups
  <2>2. f(w) = f(d) BY <2>1
  <2>3. \A x : TablesOf(x).menuItems = Table(f(x)) BY DEF TablesOf, seedMenuItems
  <2> HIDE DEF f
  <2> QED BY <2>2, <2>3
<1> QED BY <1>1, <1>2, <1>3, <1>4

(* A migration's prices: those of one experience, and nothing else of it.  *)
PriceContent(c, key, price) == With(c, [i \in DOMAIN c.ACTS |-> Based(c.ACTS[i], key, price)], c.GAL, c.RESTOS)
PriceTables(b, r, price, rr, nr) ==
  [b EXCEPT !.experiences = (@ \ {r}) \cup {Row(r.id, r.parent, r.sort, Reprice(r.val, price, rr, nr))}]

LEMMA BasePrice == ASSUME NEW d, Sections(d), NEW b, Seeded(d, b), NEW r \in b.experiences PROVE r.val.price \in Nat
<1>1. PICK v : Values(d, v) /\ b.experiences = insert(v) BY DEF Seeded
<1>2. PICK k \in DOMAIN v : r = RowAt(<<>>, v, k) BY <1>1, RowsAre DEF insert
<1>3. k \in DOMAIN d.ACTS BY <1>1 DEF Values
<1> DEFINE z == v[k]
<1>4. z = [key |-> d.ACTS[k].key, val |-> d.ACTS[k].val, price |-> d.ACTS[k].price, rr |-> z.rr, nr |-> z.nr] BY <1>1, <1>3 DEF Values
<1>5. r.val = z BY <1>2, RowAtIs
<1> HIDE DEF z
<1>6. r.val.price = d.ACTS[k].price BY <1>4, <1>5
<1>7. d.ACTS[k] \in ActivityDto BY <1>3 DEF Sections
<1>8. d.ACTS[k].price \in Nat BY <1>7 DEF ActivityDto
<1> QED BY <1>6, <1>8

LEMMA PriceSections == ASSUME NEW c, Sections(c), NEW key, NEW price \in Nat PROVE Sections(PriceContent(c, key, price))
<1> DEFINE acts == [i \in DOMAIN c.ACTS |-> Based(c.ACTS[i], key, price)]
<1>1. c.ACTS \in Seq(ActivityDto) /\ \A i, j \in DOMAIN c.ACTS : c.ACTS[i].key = c.ACTS[j].key => i = j BY DEF Sections
<1>2. ASSUME NEW i \in DOMAIN c.ACTS PROVE acts[i] \in ActivityDto /\ acts[i].key = c.ACTS[i].key
  <2> DEFINE a == c.ACTS[i]
             n == IF a.key = key THEN price ELSE a.price
  <2>1. a \in ActivityDto BY <1>1
  <2>2. acts[i] = [key |-> a.key, val |-> a.val, price |-> n, items |-> a.items] BY DEF Based
  <2>3. a.key \in Texts /\ a.val \in Texts /\ a.price \in Nat /\ a.items \in TextList BY <2>1 DEF ActivityDto
  <2>4. n \in Nat BY <2>3
  <2> HIDE DEF a, n, acts
  <2>5. acts[i].key = a.key BY <2>2
  <2> QED BY <2>2, <2>3, <2>4, <2>5 DEF ActivityDto, a
<1>3. acts = [i \in DOMAIN c.ACTS |-> acts[i]] /\ DOMAIN acts = DOMAIN c.ACTS OBVIOUS
<1> HIDE DEF acts
<1>4. acts \in Seq(ActivityDto) BY <1>1, <1>2, <1>3, SeqOver
<1>5. c.GAL \in Seq(GalleryDto) /\ \A i \in DOMAIN RESTO_ORDER : c.RESTOS[RESTO_ORDER[i]] \in RestaurantDto BY DEF Sections
<1>6. \A i, j \in DOMAIN acts : acts[i].key = acts[j].key => i = j BY <1>1, <1>2, <1>3
<1>7. Sections(With(c, acts, c.GAL, c.RESTOS)) BY <1>4, <1>5, <1>6, WithSections
<1> QED BY <1>7 DEF PriceContent, acts

LEMMA Repriced ==
  ASSUME NEW d, Sections(d), NEW b, Seeded(d, b), NEW r \in b.experiences, NEW price, NEW rr, NEW nr
  PROVE  Seeded(PriceContent(d, r.val.key, price), PriceTables(b, r, price, rr, nr))
<1> DEFINE new == Row(r.id, r.parent, r.sort, Reprice(r.val, price, rr, nr))
           S == (b.experiences \ {r}) \cup {new}
           B == PriceTables(b, r, price, rr, nr)
           c == PriceContent(d, r.val.key, price)
           acts == [i \in DOMAIN d.ACTS |-> Based(d.ACTS[i], r.val.key, price)]
<1>1. PICK v : Values(d, v) /\ b.experiences = insert(v) BY DEF Seeded
<1>2. insert(v) = RowsOf(<<>>, v) BY DEF insert
<1>3. PICK k \in DOMAIN v : r = RowAt(<<>>, v, k) BY <1>1, <1>2, RowsAre
<1> DEFINE x == v[k]
           y == [key |-> x.key, val |-> x.val, price |-> price, rr |-> rr, nr |-> nr]
           w == [i \in DOMAIN v |-> IF i = k THEN y ELSE v[i]]
<1>4. DOMAIN v = DOMAIN d.ACTS
      /\ \A i \in DOMAIN d.ACTS : v[i] = [key |-> d.ACTS[i].key, val |-> d.ACTS[i].val, price |-> d.ACTS[i].price, rr |-> v[i].rr, nr |-> v[i].nr]
  BY <1>1 DEF Values
<1>5. x = [key |-> d.ACTS[k].key, val |-> d.ACTS[k].val, price |-> d.ACTS[k].price, rr |-> x.rr, nr |-> x.nr] BY <1>3, <1>4
<1>6. r.val = x /\ r.id = Append(<<>>, k) /\ r.parent = <<>> /\ r.sort = k - 1 BY <1>3 DEF RowAt, Row
<1>7. Reprice(r.val, price, rr, nr) = y BY <1>6 DEF Reprice
<1>70. c.ACTS = acts /\ c.GAL = d.GAL /\ c.RESTOS = d.RESTOS BY DEF PriceContent, With
<1>71. \A i \in DOMAIN d.ACTS : acts[i] = Based(d.ACTS[i], r.val.key, price) OBVIOUS
<1>72. r.val.key = d.ACTS[k].key
  <2> HIDE DEF x
  <2> QED BY <1>5, <1>6
<1>73. \A i \in DOMAIN d.ACTS : d.ACTS[i].key = r.val.key <=> i = k BY <1>3, <1>4, <1>72 DEF Sections
<1>74. ASSUME NEW i \in DOMAIN d.ACTS
       PROVE  acts[i].key = d.ACTS[i].key /\ acts[i].val = d.ACTS[i].val /\ acts[i].items = d.ACTS[i].items
              /\ acts[i].price = IF i = k THEN price ELSE d.ACTS[i].price
  <2> DEFINE a == d.ACTS[i]
             n == IF a.key = r.val.key THEN price ELSE a.price
             z == acts[i]
  <2>1. z = [key |-> a.key, val |-> a.val, price |-> n, items |-> a.items] BY <1>71 DEF Based
  <2>2. a.key = r.val.key <=> i = k BY <1>73
  <2>3. n = IF i = k THEN price ELSE a.price
    <3> HIDE DEF a
    <3> QED BY <2>2
  <2> HIDE DEF z, n, a
  <2>4. z.key = a.key /\ z.val = a.val /\ z.price = n /\ z.items = a.items BY <2>1
  <2> QED BY <2>3, <2>4 DEF z, a
<1>75. DOMAIN acts = DOMAIN d.ACTS OBVIOUS
<1> HIDE DEF acts
<1>8. new = RowAt(<<>>, w, k)
  <2>1. w[k] = y BY <1>3
  <2> HIDE DEF w, y
  <2> QED BY <1>6, <1>7, <2>1 DEF RowAt, Row
<1>9. Values(c, w)
  <2>1. DOMAIN w = DOMAIN d.ACTS BY <1>4
  <2>2. ASSUME NEW i \in DOMAIN d.ACTS
        PROVE  w[i] = [key |-> acts[i].key, val |-> acts[i].val, price |-> acts[i].price, rr |-> w[i].rr, nr |-> w[i].nr]
    <3>1. CASE i = k
      <4>1. w[i] = y BY <1>3, <3>1
      <4>2. x.key = d.ACTS[i].key /\ x.val = d.ACTS[i].val
        <5> HIDE DEF x
        <5> QED BY <1>5, <3>1
      <4> HIDE DEF w, x
      <4>3. y = [key |-> acts[i].key, val |-> acts[i].val, price |-> acts[i].price, rr |-> rr, nr |-> nr] BY <1>74, <3>1, <4>2
      <4>4. w[i].rr = rr /\ w[i].nr = nr BY <4>1
      <4> HIDE DEF y
      <4> QED BY <4>1, <4>3, <4>4
    <3>2. CASE i # k
      <4>1. w[i] = v[i] BY <1>4, <3>2
      <4> HIDE DEF w
      <4> QED BY <1>4, <1>74, <3>2, <4>1
    <3> QED BY <3>1, <3>2
  <2> HIDE DEF w, c
  <2> QED BY <1>70, <1>75, <2>1, <2>2 DEF Values
<1>10. \A i \in DOMAIN v : i # k => RowAt(<<>>, w, i) = RowAt(<<>>, v, i) BY DEF RowAt
<1>11. \A i \in DOMAIN v : RowAt(<<>>, v, i) = r => i = k
  <2> SUFFICES ASSUME NEW i \in DOMAIN v, RowAt(<<>>, v, i) = r PROVE i = k OBVIOUS
  <2>1. RowAt(<<>>, v, i).val = v[i] BY RowAtIs
  <2>2. v[i].key = d.ACTS[i].key /\ v[k].key = d.ACTS[k].key
    <3>1. ASSUME NEW j \in DOMAIN v PROVE v[j].key = d.ACTS[j].key
      <4> DEFINE z == v[j]
      <4>1. z = [key |-> d.ACTS[j].key, val |-> d.ACTS[j].val, price |-> d.ACTS[j].price, rr |-> z.rr, nr |-> z.nr] BY <1>4
      <4> HIDE DEF z
      <4>2. z.key = d.ACTS[j].key BY <4>1
      <4> QED BY <4>2 DEF z
    <3> QED BY <3>1
  <2>3. d.ACTS[i].key = d.ACTS[k].key BY <1>6, <2>1, <2>2
  <2> QED BY <1>4, <2>3 DEF Sections
<1>12. DOMAIN w = DOMAIN v OBVIOUS
<1> HIDE DEF new, w, x, y, c
<1>13. S = RowsOf(<<>>, w)
  <2>1. \A s : s \in b.experiences <=> \E i \in DOMAIN v : s = RowAt(<<>>, v, i) BY <1>1, <1>2, RowsAre
  <2>2. \A s : s \in RowsOf(<<>>, w) <=> \E i \in DOMAIN v : s = RowAt(<<>>, w, i) BY <1>12, RowsAre
  <2>3. ASSUME NEW s \in S PROVE s \in RowsOf(<<>>, w)
    <3>1. CASE s = new BY <1>3, <1>8, <2>2, <3>1
    <3>2. CASE s \in b.experiences /\ s # r
      <4>1. PICK i \in DOMAIN v : s = RowAt(<<>>, v, i) BY <2>1, <3>2
      <4>2. i # k BY <1>3, <3>2, <4>1
      <4>3. s = RowAt(<<>>, w, i) BY <1>10, <4>1, <4>2
      <4> QED BY <2>2, <4>3
    <3> QED BY <3>1, <3>2
  <2>4. ASSUME NEW s \in RowsOf(<<>>, w) PROVE s \in S
    <3>1. PICK i \in DOMAIN v : s = RowAt(<<>>, w, i) BY <2>2
    <3>2. CASE i = k BY <1>8, <3>1, <3>2
    <3>3. CASE i # k
      <4>1. s = RowAt(<<>>, v, i) BY <1>10, <3>1, <3>3
      <4>2. s \in b.experiences /\ s # r BY <1>11, <2>1, <3>3, <4>1
      <4> QED BY <4>2
    <3> QED BY <3>2, <3>3
  <2> HIDE DEF S
  <2> QED BY <2>3, <2>4
<1> HIDE DEF S
<1>14. B.experiences = S /\ DOMAIN B = DOMAIN b /\ TableNames \cup {"products"} \subseteq DOMAIN b
  <2>1. TableNames \cup {"products"} \subseteq DOMAIN b BY DEF Seeded
  <2>2. "experiences" \in DOMAIN b BY <2>1 DEF TableNames
  <2> QED BY <2>1, <2>2 DEF S, PriceTables, new
<1>15. ASSUME NEW t \in TableNames \ {"experiences"} PROVE B[t] = TablesOf(c)[t]
  <2>1. b[t] = TablesOf(d)[t] BY DEF Seeded
  <2>2. t \in DOMAIN b /\ t # "experiences" BY <1>14
  <2>3. B[t] = b[t] BY <2>2 DEF PriceTables
  <2>4. CASE t \in Others
    <3> DEFINE f == [i \in DOMAIN acts |-> acts[i].items]
               h == [i \in DOMAIN d.ACTS |-> d.ACTS[i].items]
    <3>1. Items(acts) = Each(f) /\ Items(d.ACTS) = Each(h) BY DEF Items
    <3>2. f = h BY <1>74, <1>75
    <3> HIDE DEF f, h
    <3>3. Items(acts) = Items(d.ACTS) BY <3>1, <3>2
    <3>4. c = With(d, acts, d.GAL, d.RESTOS) BY DEF c, PriceContent, acts
    <3>5. TablesOf(c)[t] = TablesOf(d)[t] BY <2>4, <3>3, <3>4, OthersSame
    <3> QED BY <2>1, <2>3, <3>5
  <2>5. CASE t \in {"galleries", "shots", "restaurants", "restaurantImages", "menuGroups", "menuItems"}
    <3>1. Restaurants(c) = Restaurants(d) BY <1>70 DEF Restaurants
    <3>2. TablesOf(c).restaurants = TablesOf(d).restaurants /\ TablesOf(c).restaurantImages = TablesOf(d).restaurantImages
          /\ TablesOf(c).menuGroups = TablesOf(d).menuGroups /\ TablesOf(c).menuItems = TablesOf(d).menuItems
      BY <3>1, MenusSame
    <3>3. TablesOf(c).galleries = TablesOf(d).galleries /\ TablesOf(c).shots = TablesOf(d).shots
      BY <1>70 DEF TablesOf, seedGalleries
    <3>4. TablesOf(c)[t] = TablesOf(d)[t] BY <2>5, <3>2, <3>3
    <3> QED BY <2>1, <2>3, <3>4
  <2> QED BY <2>4, <2>5 DEF Others
<1>16. B.products = b.products
  <2>1. "products" \in DOMAIN b /\ "products" # "experiences" BY <1>14
  <2> QED BY <2>1 DEF PriceTables
<1> HIDE DEF B
<1>17. B.experiences = insert(w) BY <1>13, <1>14 DEF insert
<1>18. Seeded(c, B) BY <1>9, <1>14, <1>15, <1>16, <1>17 DEF Seeded
<1> QED BY <1>18 DEF B, c

(* A migration's film.                                                     *)
FilmContent(c, key) == With(c, c.ACTS, [i \in DOMAIN c.GAL |-> Filmed(c.GAL[i], key)], c.RESTOS)
FilmTables(b, key) ==
  [b EXCEPT !.galleries = update(@, [r \in {r \in b.galleries : r.val.key = key} |-> [key |-> key, val |-> r.val.val, film |-> TRUE]])]

LEMMA FilmSections == ASSUME NEW c, Sections(c), NEW key PROVE Sections(FilmContent(c, key))
<1> DEFINE galleries == [i \in DOMAIN c.GAL |-> Filmed(c.GAL[i], key)]
<1>1. c.GAL \in Seq(GalleryDto) BY DEF Sections
<1>2. ASSUME NEW i \in DOMAIN c.GAL PROVE galleries[i] \in GalleryDto
  <2>1. c.GAL[i] \in GalleryDto BY <1>1
  <2> DEFINE x == c.GAL[i]
             film == x.film \/ x.key = key
  <2>2. galleries[i] = [key |-> x.key, val |-> x.val, film |-> film, shots |-> x.shots] BY DEF Filmed
  <2>3. film \in BOOLEAN OBVIOUS
  <2>4. x.key \in Texts /\ x.val \in Texts /\ x.shots \in TextList BY <2>1 DEF GalleryDto
  <2> HIDE DEF x, film, galleries
  <2> QED BY <2>2, <2>3, <2>4 DEF GalleryDto
<1>3. galleries = [i \in DOMAIN c.GAL |-> galleries[i]] OBVIOUS
<1> HIDE DEF galleries
<1>4. galleries \in Seq(GalleryDto) BY <1>1, <1>2, <1>3, SeqOver
<1>5. \A i \in DOMAIN RESTO_ORDER : c.RESTOS[RESTO_ORDER[i]] \in RestaurantDto BY DEF Sections
<1>7. c.ACTS \in Seq(ActivityDto) /\ \A i, j \in DOMAIN c.ACTS : c.ACTS[i].key = c.ACTS[j].key => i = j BY DEF Sections
<1>6. Sections(With(c, c.ACTS, galleries, c.RESTOS)) BY <1>4, <1>5, <1>7, WithSections
<1> QED BY <1>6 DEF FilmContent, galleries

LEMMA FilmSeeded == ASSUME NEW c, Sections(c), NEW b, Seeded(c, b), NEW key PROVE Seeded(FilmContent(c, key), FilmTables(b, key))
<1> DEFINE w == FilmContent(c, key)
           B == FilmTables(b, key)
           given == [i \in DOMAIN c.GAL |-> Filmed(c.GAL[i], key)]
           els == [i \in DOMAIN c.GAL |-> [key |-> c.GAL[i].key, val |-> c.GAL[i].val, film |-> c.GAL[i].film]]
           new == [i \in DOMAIN c.GAL |-> [key |-> given[i].key, val |-> given[i].val, film |-> given[i].film]]
           vals == [r \in {r \in b.galleries : r.val.key = key} |-> [key |-> key, val |-> r.val.val, film |-> TRUE]]
<1>1. w.GAL = given /\ w.RESTOS = c.RESTOS /\ w.ACTS = c.ACTS BY DEF FilmContent, With
<1>2. "galleries" \in DOMAIN b /\ TableNames \cup {"products"} \subseteq DOMAIN b BY DEF Seeded, TableNames
<1>3. b.galleries = insert(els)
  <2>1. "galleries" \in TableNames \ {"experiences"} BY DEF TableNames
  <2>2. b["galleries"] = TablesOf(c)["galleries"] BY <2>1 DEF Seeded
  <2> QED BY <2>2 DEF TablesOf, seedGalleries
<1>4. DOMAIN given = DOMAIN c.GAL /\ \A i \in DOMAIN c.GAL : given[i] = Filmed(c.GAL[i], key) OBVIOUS
<1>5. TablesOf(w).galleries = insert(new)
  <2>1. seedGalleries(w) = insert([i \in DOMAIN w.GAL |-> [key |-> w.GAL[i].key, val |-> w.GAL[i].val, film |-> w.GAL[i].film]]) BY DEF seedGalleries
  <2> HIDE DEF w
  <2>2. [i \in DOMAIN w.GAL |-> [key |-> w.GAL[i].key, val |-> w.GAL[i].val, film |-> w.GAL[i].film]] = new BY <1>1, <1>4
  <2> HIDE DEF new
  <2> QED BY <2>1, <2>2 DEF TablesOf
<1>6. B.galleries = update(b.galleries, vals) /\ DOMAIN B = DOMAIN b /\ \A t \in DOMAIN b \ {"galleries"} : B[t] = b[t]
  BY <1>2 DEF FilmTables
<1>7. Revised(<<>>, els, new, vals)
  <2>1. ASSUME NEW k \in DOMAIN c.GAL
        PROVE  new[k] = IF RowAt(<<>>, els, k) \in DOMAIN vals THEN vals[RowAt(<<>>, els, k)] ELSE els[k]
    <3> DEFINE x == c.GAL[k]
               r == RowAt(<<>>, els, k)
    <3>1. x \in GalleryDto BY DEF Sections
    <3>2. x.film \in BOOLEAN BY <3>1, SMTT(30) DEF GalleryDto
    <3>3. new[k] = [key |-> x.key, val |-> x.val, film |-> x.film \/ x.key = key] BY DEF Filmed
    <3>4. els[k] = [key |-> x.key, val |-> x.val, film |-> x.film] OBVIOUS
    <3>5. r.val = els[k] BY RowAtIs
    <3>6. r \in b.galleries BY <1>3, RowsAre DEF insert
    <3>7. r \in DOMAIN vals <=> x.key = key BY <3>4, <3>5, <3>6
    <3>80. r.val.val = x.val BY <3>4, <3>5
    <3>8. x.key = key => vals[r] = [key |-> key, val |-> x.val, film |-> TRUE]
      <4> SUFFICES ASSUME x.key = key PROVE vals[r] = [key |-> key, val |-> x.val, film |-> TRUE] OBVIOUS
      <4>1. r \in DOMAIN vals BY <3>7
      <4> HIDE DEF r, x
      <4> QED BY <3>80, <4>1
    <3> HIDE DEF x, r, vals, els, new
    <3>9. CASE x.key = key
      <4>1. (x.film \/ x.key = key) = TRUE BY <3>9
      <4> QED BY <3>3, <3>7, <3>8, <3>9, <4>1 DEF r
    <3>10. CASE x.key # key
      <4>1. (x.film \/ x.key = key) = x.film BY <3>2, <3>10
      <4> QED BY <3>3, <3>4, <3>7, <3>10, <4>1 DEF r
    <3> QED BY <3>9, <3>10
  <2>2. DOMAIN new = DOMAIN els /\ DOMAIN els = DOMAIN c.GAL OBVIOUS
  <2> HIDE DEF new, els, vals
  <2> QED BY <2>1, <2>2 DEF Revised
<1> HIDE DEF new, els, vals
<1>8. B.galleries = TablesOf(w).galleries BY <1>3, <1>5, <1>6, <1>7, RowsUpdated DEF insert
<1>9. ASSUME NEW t \in TableNames \ {"experiences"} PROVE B[t] = TablesOf(w)[t]
  <2>1. b[t] = TablesOf(c)[t] BY DEF Seeded
  <2>2. CASE t = "galleries" BY <1>8, <2>2
  <2>3. CASE t \in Others
    <3>1. TablesOf(w)[t] = TablesOf(c)[t] BY <2>3, OthersSame DEF FilmContent
    <3>2. B[t] = b[t] BY <1>2, <1>6, <2>3 DEF Others
    <3> QED BY <2>1, <3>1, <3>2
  <2>4. CASE t \in {"shots", "restaurants", "restaurantImages", "menuGroups", "menuItems"}
    <3>1. B[t] = b[t] BY <1>2, <1>6, <2>4
    <3>2. \A i \in DOMAIN c.GAL : given[i].shots = c.GAL[i].shots BY DEF Filmed
    <3> DEFINE f == [i \in DOMAIN w.GAL |-> w.GAL[i].shots]
               h == [i \in DOMAIN c.GAL |-> c.GAL[i].shots]
    <3>3. TablesOf(w).shots = Each(f) /\ TablesOf(c).shots = Each(h) BY DEF TablesOf
    <3> HIDE DEF w, given
    <3>4. f = h BY <1>1, <1>4, <3>2
    <3> HIDE DEF f, h
    <3>5. TablesOf(w).shots = TablesOf(c).shots BY <3>3, <3>4
    <3>6. Restaurants(w) = Restaurants(c) BY <1>1 DEF Restaurants
    <3>7. TablesOf(w).restaurants = TablesOf(c).restaurants /\ TablesOf(w).restaurantImages = TablesOf(c).restaurantImages
          /\ TablesOf(w).menuGroups = TablesOf(c).menuGroups /\ TablesOf(w).menuItems = TablesOf(c).menuItems
      BY <3>6, MenusSame
    <3>8. TablesOf(w)[t] = TablesOf(c)[t] BY <2>4, <3>5, <3>7
    <3> QED BY <2>1, <3>1, <3>8
  <2> QED BY <2>2, <2>3, <2>4 DEF Others
<1>10. B.products = Products
  <2>1. "products" # "galleries" /\ "products" \in DOMAIN b BY <1>2
  <2> QED BY <1>6, <2>1 DEF Seeded
<1>11. \E v : Values(w, v) /\ B.experiences = insert(v)
  <2>1. PICK v : Values(c, v) /\ b.experiences = insert(v) BY DEF Seeded
  <2>2. "experiences" \in DOMAIN b \ {"galleries"} BY <1>2 DEF TableNames
  <2>3. B.experiences = insert(v) BY <1>6, <2>1, <2>2
  <2> HIDE DEF w
  <2>4. Values(w, v) BY <1>1, <2>1 DEF Values
  <2> QED BY <2>3, <2>4
<1> HIDE DEF w, B
<1>12. Seeded(w, B) BY <1>2, <1>6, <1>9, <1>10, <1>11 DEF Seeded
<1> QED BY <1>12 DEF w, B

(* A migration's menu notes and allergens.                                 *)
MenuGroups(b, key, title) == {m \in b.menuGroups : RESTO_ORDER[m.parent[1]] = key /\ m.val.title = title}
MenuDishes(b, key, title, dish) == {k \in b.menuItems : k.val.dish = dish /\ \E m \in MenuGroups(b, key, title) : k.parent = m.id}
MenuContent(c, key, title, dish) ==
  With(c, c.ACTS, c.GAL, [k \in Range(RESTO_ORDER) |-> IF k = key THEN Noted(c.RESTOS[k], title, dish) ELSE c.RESTOS[k]])
MenuTables(b, key, title, dish) ==
  [b EXCEPT !.menuGroups = update(@, [m \in MenuGroups(b, key, title) |-> [title |-> title, note |-> TRUE]]),
            !.menuItems = update(@, [k \in MenuDishes(b, key, title, dish) |-> [dish |-> dish, allergens |-> TRUE]])]

LEMMA NotedFits == ASSUME NEW r \in RestaurantDto, NEW title, NEW dish PROVE Noted(r, title, dish) \in RestaurantDto
<1> DEFINE f == Noted(r, title, dish).groups
           n(m) == m.note \/ m.title = title
           h(m) == [k \in DOMAIN m.items |->
                     [dish |-> m.items[k].dish, allergens |-> m.items[k].allergens \/ (m.title = title /\ m.items[k].dish = dish)]]
<1>1. f = [g \in DOMAIN r.groups |-> LET m == r.groups[g] IN [title |-> m.title, note |-> n(m), items |-> h(m)]] BY DEF Noted
<1>2. Noted(r, title, dish) = [val |-> r.val, gallery |-> r.gallery, groups |-> f] BY DEF Noted
<1> HIDE DEF f, n, h
<1>3. ASSUME NEW g \in DOMAIN r.groups PROVE f[g] \in GroupDto
  <2> DEFINE m == r.groups[g]
             y == h(m)
             z == n(m)
  <2>1. r.groups \in Seq(GroupDto) BY DEF RestaurantDto
  <2>2. m \in GroupDto BY <2>1
  <2>3. f[g] = [title |-> m.title, note |-> z, items |-> y] BY <1>1
  <2>4. z \in BOOLEAN BY DEF n
  <2>5. y = [k \in DOMAIN m.items |-> y[k]] BY DEF h
  <2>6. ASSUME NEW k \in DOMAIN m.items PROVE y[k].allergens \in BOOLEAN /\ y[k] = [dish |-> m.items[k].dish, allergens |-> y[k].allergens]
    <3> DEFINE a == m.items[k].allergens \/ (m.title = title /\ m.items[k].dish = dish)
    <3>1. y[k] = [dish |-> m.items[k].dish, allergens |-> a] BY DEF h
    <3>2. a \in BOOLEAN OBVIOUS
    <3> HIDE DEF a, y
    <3> QED BY <3>1, <3>2
  <2> HIDE DEF m, y, z
  <2> QED BY <2>2, <2>3, <2>4, <2>5, <2>6, GroupFits
<1>4. f = [g \in DOMAIN r.groups |-> f[g]] BY <1>1
<1> QED BY <1>2, <1>3, <1>4, MenuFits

LEMMA MenuSections == ASSUME NEW c, Sections(c), NEW key, NEW title, NEW dish PROVE Sections(MenuContent(c, key, title, dish))
<1> DEFINE restos == [k \in Range(RESTO_ORDER) |-> IF k = key THEN Noted(c.RESTOS[k], title, dish) ELSE c.RESTOS[k]]
<1>1. ASSUME NEW i \in DOMAIN RESTO_ORDER PROVE restos[RESTO_ORDER[i]] \in RestaurantDto
  <2>1. c.RESTOS[RESTO_ORDER[i]] \in RestaurantDto BY DEF Sections
  <2>2. RESTO_ORDER[i] \in Range(RESTO_ORDER) BY DEF Range
  <2> QED BY <2>1, <2>2, NotedFits
<1>2. c.GAL \in Seq(GalleryDto) BY DEF Sections
<1> HIDE DEF restos
<1>4. c.ACTS \in Seq(ActivityDto) /\ \A i, j \in DOMAIN c.ACTS : c.ACTS[i].key = c.ACTS[j].key => i = j BY DEF Sections
<1>3. Sections(With(c, c.ACTS, c.GAL, restos)) BY <1>1, <1>2, <1>4, WithSections
<1> QED BY <1>3 DEF MenuContent, restos

(* What the note is given to, place by place.                              *)
NotedAt(c, w, key, title, dish) ==
  \A i \in DOMAIN RESTO_ORDER :
    LET r == Restaurants(c)[i]  s == Restaurants(w)[i] IN
    /\ s.val = r.val /\ s.gallery = r.gallery /\ DOMAIN s.groups = DOMAIN r.groups
    /\ \A g \in DOMAIN r.groups :
         LET m == r.groups[g]  hit == RESTO_ORDER[i] = key /\ m.title = title IN
         /\ s.groups[g].title = m.title /\ s.groups[g].note = (m.note \/ hit) /\ DOMAIN s.groups[g].items = DOMAIN m.items
         /\ \A k \in DOMAIN m.items :
              s.groups[g].items[k] = [dish |-> m.items[k].dish, allergens |-> m.items[k].allergens \/ (hit /\ m.items[k].dish = dish)]
LEMMA MenuNoted == ASSUME NEW c, Sections(c), NEW key, NEW title, NEW dish PROVE NotedAt(c, MenuContent(c, key, title, dish), key, title, dish)
<1> DEFINE w == MenuContent(c, key, title, dish)
<1>1. w.RESTOS = [k \in Range(RESTO_ORDER) |-> IF k = key THEN Noted(c.RESTOS[k], title, dish) ELSE c.RESTOS[k]] BY DEF MenuContent, With
<1> HIDE DEF w
<1>2. ASSUME NEW i \in DOMAIN RESTO_ORDER
      PROVE  Restaurants(w)[i] = IF RESTO_ORDER[i] = key THEN Noted(Restaurants(c)[i], title, dish) ELSE Restaurants(c)[i]
  <2>1. RESTO_ORDER[i] \in Range(RESTO_ORDER) BY DEF Range
  <2> QED BY <1>1, <2>1, SMTT(30) DEF Restaurants
<1>3. ASSUME NEW i \in DOMAIN RESTO_ORDER
      PROVE  LET r == Restaurants(c)[i]  s == Restaurants(w)[i] IN
             /\ s.val = r.val /\ s.gallery = r.gallery /\ DOMAIN s.groups = DOMAIN r.groups
             /\ \A g \in DOMAIN r.groups :
                  LET m == r.groups[g]  hit == RESTO_ORDER[i] = key /\ m.title = title IN
                  /\ s.groups[g].title = m.title /\ s.groups[g].note = (m.note \/ hit) /\ DOMAIN s.groups[g].items = DOMAIN m.items
                  /\ \A k \in DOMAIN m.items :
                       s.groups[g].items[k] = [dish |-> m.items[k].dish, allergens |-> m.items[k].allergens \/ (hit /\ m.items[k].dish = dish)]
  <2> DEFINE r == Restaurants(c)[i]
             s == Restaurants(w)[i]
  <2>1. r \in RestaurantDto BY DEF Sections, Restaurants
  <2>2. r.groups \in Seq(GroupDto) BY <2>1, SMTT(30) DEF RestaurantDto
  <2>3. CASE RESTO_ORDER[i] = key
    <3>1. s = Noted(r, title, dish) BY <1>2, <2>3
    <3>2. s.val = r.val /\ s.gallery = r.gallery /\ DOMAIN s.groups = DOMAIN r.groups
      <4> HIDE DEF s, r
      <4> QED BY <3>1, SMTT(30) DEF Noted
    <3>3. ASSUME NEW g \in DOMAIN r.groups
          PROVE  LET m == r.groups[g] IN
                 /\ s.groups[g].title = m.title /\ s.groups[g].note = (m.note \/ m.title = title) /\ DOMAIN s.groups[g].items = DOMAIN m.items
                 /\ \A k \in DOMAIN m.items :
                      s.groups[g].items[k] = [dish |-> m.items[k].dish, allergens |-> m.items[k].allergens \/ (m.title = title /\ m.items[k].dish = dish)]
      <4> HIDE DEF s, r
      <4> QED BY <3>1 DEF Noted
    <3> HIDE DEF s, r
    <3>4. ASSUME NEW g \in DOMAIN r.groups
          PROVE  LET m == r.groups[g]  hit == RESTO_ORDER[i] = key /\ m.title = title IN
                 /\ s.groups[g].title = m.title /\ s.groups[g].note = (m.note \/ hit) /\ DOMAIN s.groups[g].items = DOMAIN m.items
                 /\ \A k \in DOMAIN m.items :
                      s.groups[g].items[k] = [dish |-> m.items[k].dish, allergens |-> m.items[k].allergens \/ (hit /\ m.items[k].dish = dish)]
      <4>1. (RESTO_ORDER[i] = key /\ r.groups[g].title = title) = (r.groups[g].title = title) BY <2>3
      <4> QED BY <3>3, <4>1
    <3> QED BY <3>2, <3>4 DEF s, r
  <2>4. CASE RESTO_ORDER[i] # key
    <3>1. s = r BY <1>2, <2>4, SMTT(30)
    <3>2. ASSUME NEW g \in DOMAIN r.groups
          PROVE  LET m == r.groups[g]  hit == RESTO_ORDER[i] = key /\ m.title = title IN
                 /\ r.groups[g].note = (m.note \/ hit)
                 /\ \A k \in DOMAIN m.items :
                      r.groups[g].items[k] = [dish |-> m.items[k].dish, allergens |-> m.items[k].allergens \/ (hit /\ m.items[k].dish = dish)]
      <4> DEFINE m == r.groups[g]
                 hit == RESTO_ORDER[i] = key /\ m.title = title
      <4>1. m \in GroupDto BY <2>2
      <4>2. m.note \in BOOLEAN /\ m.items \in Seq(DishDto) BY <4>1 DEF GroupDto
      <4>3. hit = FALSE BY <2>4
      <4>4. m.note = (m.note \/ hit) BY <4>2, <4>3
      <4>5. ASSUME NEW k \in DOMAIN m.items
            PROVE  m.items[k] = [dish |-> m.items[k].dish, allergens |-> m.items[k].allergens \/ (hit /\ m.items[k].dish = dish)]
        <5> DEFINE x == m.items[k]
                   a == x.allergens \/ (hit /\ x.dish = dish)
        <5>1. x \in DishDto BY <4>2
        <5>2. a = x.allergens
          <6>1. x.allergens \in BOOLEAN BY <5>1 DEF DishDto
          <6> HIDE DEF x
          <6> QED BY <4>3, <6>1
        <5>3. x = [dish |-> x.dish, allergens |-> a]
          <6> HIDE DEF x, a
          <6> QED BY <5>1, <5>2, SMTT(30) DEF DishDto
        <5> QED BY <5>3
      <4> QED BY <4>4, <4>5
    <3> HIDE DEF s, r
    <3> QED BY <3>1, <3>2 DEF s, r
  <2> QED BY <2>3, <2>4
<1>4. NotedAt(c, w, key, title, dish) BY <1>3 DEF NotedAt
<1> QED BY <1>4 DEF w

(* The rows of the groups it is given to.                                  *)
AllHeads(c) == [i \in DOMAIN RESTO_ORDER |-> MenuHeads(Restaurants(c)[i])]
GroupNamed(c, key, title, i, j) == RESTO_ORDER[i] = key /\ Restaurants(c)[i].groups[j].title = title
GroupFound(b, key, title, i, j) == \E m \in MenuGroups(b, key, title) : <<i, j>> = m.id
LEMMA GroupIn ==
  ASSUME NEW c, Sections(c), NEW b, b.menuGroups = Each(AllHeads(c)), NEW key, NEW title,
         NEW i \in DOMAIN RESTO_ORDER, NEW j \in DOMAIN Restaurants(c)[i].groups
  PROVE  /\ RowAt(<<i>>, AllHeads(c)[i], j) \in MenuGroups(b, key, title) <=> RESTO_ORDER[i] = key /\ Restaurants(c)[i].groups[j].title = title
         /\ GroupFound(b, key, title, i, j) <=> GroupNamed(c, key, title, i, j)
<1> DEFINE heads == AllHeads(c)
           G == MenuGroups(b, key, title)
<1>1. DOMAIN heads = DOMAIN RESTO_ORDER
      /\ \A a \in DOMAIN RESTO_ORDER : DOMAIN heads[a] = DOMAIN Restaurants(c)[a].groups
           /\ \A k \in DOMAIN heads[a] : heads[a][k].title = Restaurants(c)[a].groups[k].title
  BY DEF AllHeads, MenuHeads
<1>2. DOMAIN RESTO_ORDER \subseteq Nat
  <2>1. RESTO_ORDER \in Seq(Texts) BY CatalogAssumption DEF TextList
  <2> QED BY <2>1
<1>3. ASSUME NEW a \in DOMAIN RESTO_ORDER, NEW k \in DOMAIN Restaurants(c)[a].groups PROVE k \in Nat
  <2>1. Restaurants(c)[a] \in RestaurantDto BY DEF Sections, Restaurants
  <2>2. Restaurants(c)[a].groups \in Seq(GroupDto) BY <2>1 DEF RestaurantDto
  <2> QED BY <2>2
<1> HIDE DEF heads
<1>4. ASSUME NEW a \in DOMAIN RESTO_ORDER, NEW k \in DOMAIN Restaurants(c)[a].groups
      PROVE  RowAt(<<a>>, heads[a], k) \in G <=> RESTO_ORDER[a] = key /\ Restaurants(c)[a].groups[k].title = title
  <2> DEFINE m == RowAt(<<a>>, heads[a], k)
  <2>1. m.parent = <<a>> /\ m.val = heads[a][k] BY RowAtIs
  <2>2. m \in Each(heads)
    <3>1. {r \in Each(heads) : r.parent = <<a>>} = RowsOf(<<a>>, heads[a]) BY <1>1, EachHas
    <3>2. m \in RowsOf(<<a>>, heads[a]) BY <1>1, RowsAre
    <3> QED BY <3>1, <3>2
  <2>3. m \in b.menuGroups BY <2>2 DEF heads
  <2>4. m.parent[1] = a /\ m.val.title = Restaurants(c)[a].groups[k].title BY <1>1, <2>1
  <2> HIDE DEF m
  <2>5. m \in G <=> RESTO_ORDER[a] = key /\ Restaurants(c)[a].groups[k].title = title BY <2>3, <2>4 DEF MenuGroups
  <2> QED BY <2>5 DEF m
<1>5. ASSUME NEW a \in DOMAIN RESTO_ORDER, NEW k \in DOMAIN Restaurants(c)[a].groups PROVE RowAt(<<a>>, heads[a], k).id = <<a, k>>
  <2>1. a \in Nat /\ k \in Nat BY <1>2, <1>3
  <2> QED BY <2>1, PairId
<1>6. ASSUME NEW m \in G, <<i, j>> = m.id PROVE RESTO_ORDER[i] = key /\ Restaurants(c)[i].groups[j].title = title
  <2>1. m \in Each(heads) BY DEF MenuGroups, heads
  <2>2. PICK a \in DOMAIN heads : m \in RowsOf(<<a>>, heads[a])
    <3> DEFINE f == [p \in {<<x>> : x \in DOMAIN heads} |-> heads[p[1]]]
    <3>1. Each(heads) = Table(f) BY DEF Each
    <3>2. PICK p \in DOMAIN f : m \in RowsOf(p, f[p])
      <4>1. m \in Table(f) BY <2>1, <3>1
      <4> HIDE DEF f
      <4> QED BY <4>1 DEF Table
    <3>3. PICK a \in DOMAIN heads : p = <<a>> BY <3>2
    <3>4. f[p] = heads[a] BY <3>3
    <3> HIDE DEF f
    <3> QED BY <3>2, <3>3, <3>4
  <2>3. PICK k \in DOMAIN heads[a] : m = RowAt(<<a>>, heads[a], k) BY <2>2, RowsAre
  <2>4. a \in DOMAIN RESTO_ORDER /\ k \in DOMAIN Restaurants(c)[a].groups BY <1>1, <2>3
  <2>5. m.id = <<a, k>> BY <1>5, <2>3, <2>4
  <2>6. a = i /\ k = j
    <3>1. <<i, j>> = <<a, k>> BY <1>6, <2>5
    <3> QED BY <3>1
  <2>7. RowAt(<<i>>, heads[i], j) \in G BY <2>3, <2>6
  <2> QED BY <1>4, <2>7
<1>7. ASSUME RESTO_ORDER[i] = key, Restaurants(c)[i].groups[j].title = title PROVE \E m \in G : <<i, j>> = m.id
  <2>1. RowAt(<<i>>, heads[i], j) \in G BY <1>4, <1>7
  <2>2. RowAt(<<i>>, heads[i], j).id = <<i, j>> BY <1>5
  <2> QED BY <2>1, <2>2
<1>8. RowAt(<<i>>, heads[i], j) \in G <=> RESTO_ORDER[i] = key /\ Restaurants(c)[i].groups[j].title = title BY <1>4
<1>9. (\E m \in G : <<i, j>> = m.id) <=> RESTO_ORDER[i] = key /\ Restaurants(c)[i].groups[j].title = title BY <1>6, <1>7
<1> QED BY <1>8, <1>9 DEF heads, GroupFound, GroupNamed

LEMMA HeadsRevised ==
  ASSUME NEW c, Sections(c), NEW b, b.menuGroups = Each(AllHeads(c)), NEW key, NEW title, NEW dish, NEW w, NotedAt(c, w, key, title, dish)
  PROVE  update(Each(AllHeads(c)), [m \in MenuGroups(b, key, title) |-> [title |-> title, note |-> TRUE]]) = Each(AllHeads(w))
<1> DEFINE vals == [m \in MenuGroups(b, key, title) |-> [title |-> title, note |-> TRUE]]
<1>1. DOMAIN AllHeads(w) = DOMAIN RESTO_ORDER /\ DOMAIN AllHeads(c) = DOMAIN RESTO_ORDER BY DEF AllHeads
<1>2. ASSUME NEW i \in DOMAIN RESTO_ORDER PROVE Revised(<<i>>, AllHeads(c)[i], AllHeads(w)[i], vals)
  <2> DEFINE r == Restaurants(c)[i]
             s == Restaurants(w)[i]
             els == AllHeads(c)[i]
             new == AllHeads(w)[i]
  <2>1. DOMAIN s.groups = DOMAIN r.groups
        /\ \A j \in DOMAIN r.groups : s.groups[j].title = r.groups[j].title
             /\ s.groups[j].note = (r.groups[j].note \/ (RESTO_ORDER[i] = key /\ r.groups[j].title = title))
    BY DEF NotedAt
  <2>2. els = [j \in DOMAIN r.groups |-> [title |-> r.groups[j].title, note |-> r.groups[j].note]] BY DEF AllHeads, MenuHeads
  <2>3. new = [j \in DOMAIN s.groups |-> [title |-> s.groups[j].title, note |-> s.groups[j].note]] BY DEF AllHeads, MenuHeads
  <2>4. ASSUME NEW j \in DOMAIN r.groups
        PROVE  new[j] = IF RowAt(<<i>>, els, j) \in DOMAIN vals THEN vals[RowAt(<<i>>, els, j)] ELSE els[j]
    <3> DEFINE m == RowAt(<<i>>, els, j)
               x == r.groups[j]
               hit == RESTO_ORDER[i] = key /\ x.title = title
    <3>1. m \in DOMAIN vals <=> hit BY GroupIn
    <3>2. m \in DOMAIN vals => vals[m] = [title |-> title, note |-> TRUE] OBVIOUS
    <3>3. x.note \in BOOLEAN
      <4>1. r \in RestaurantDto BY DEF Sections, Restaurants
      <4>2. r.groups \in Seq(GroupDto) BY <4>1 DEF RestaurantDto
      <4>3. x \in GroupDto BY <4>2
      <4> QED BY <4>3 DEF GroupDto
    <3> DEFINE n == x.note \/ hit
    <3>4. new[j] = [title |-> x.title, note |-> n] BY <2>1, <2>3
    <3>5. els[j] = [title |-> x.title, note |-> x.note] BY <2>2
    <3>6. hit => n = TRUE OBVIOUS
    <3>7. ~hit => n = x.note BY <3>3
    <3>8. hit => x.title = title OBVIOUS
    <3> HIDE DEF m, x, n, hit, vals, new, els
    <3> QED BY <3>1, <3>2, <3>4, <3>5, <3>6, <3>7, <3>8 DEF m
  <2>5. DOMAIN new = DOMAIN els /\ DOMAIN els = DOMAIN r.groups BY <2>1, <2>2, <2>3
  <2> HIDE DEF new, els, vals, r, s
  <2> QED BY <2>4, <2>5 DEF Revised, new, els
<1> HIDE DEF vals
<1>3. update(Each(AllHeads(c)), vals) = Each(AllHeads(w)) BY <1>1, <1>2, EachUpdated
<1> QED BY <1>3 DEF vals

AllDishes(c) == [p \in Groups(c) |-> Restaurants(c)[p[1]].groups[p[2]].items]
LEMMA DishesRevised ==
  ASSUME NEW c, Sections(c), NEW b, b.menuGroups = Each(AllHeads(c)), b.menuItems = Table(AllDishes(c)),
         NEW key, NEW title, NEW dish, NEW w, NotedAt(c, w, key, title, dish)
  PROVE  update(Table(AllDishes(c)), [k \in MenuDishes(b, key, title, dish) |-> [dish |-> dish, allergens |-> TRUE]]) = Table(AllDishes(w))
<1> DEFINE vals == [k \in MenuDishes(b, key, title, dish) |-> [dish |-> dish, allergens |-> TRUE]]
<1>1. DOMAIN AllDishes(c) = Groups(c) /\ DOMAIN AllDishes(w) = Groups(w) BY DEF AllDishes
<1>2. Groups(w) = Groups(c)
  <2> DEFINE J == [i \in DOMAIN RESTO_ORDER |-> DOMAIN Restaurants(c)[i].groups]
             K == [i \in DOMAIN RESTO_ORDER |-> DOMAIN Restaurants(w)[i].groups]
  <2>1. J = K BY DEF NotedAt
  <2>2. Groups(c) = UNION {{<<i, j>> : j \in J[i]} : i \in DOMAIN RESTO_ORDER} BY DEF Groups
  <2>3. Groups(w) = UNION {{<<i, j>> : j \in K[i]} : i \in DOMAIN RESTO_ORDER} BY DEF Groups
  <2> HIDE DEF J, K
  <2> QED BY <2>1, <2>2, <2>3
<1>20. ASSUME NEW i \in DOMAIN RESTO_ORDER, NEW j \in DOMAIN Restaurants(c)[i].groups
       PROVE  (\E m \in MenuGroups(b, key, title) : <<i, j>> = m.id) <=> RESTO_ORDER[i] = key /\ Restaurants(c)[i].groups[j].title = title
  <2>1. GroupFound(b, key, title, i, j) <=> GroupNamed(c, key, title, i, j) BY GroupIn
  <2> QED BY <2>1 DEF GroupFound, GroupNamed
<1>3. ASSUME NEW p \in Groups(c) PROVE Revised(p, AllDishes(c)[p], AllDishes(w)[p], vals)
  <2>1. PICK i \in DOMAIN RESTO_ORDER : \E j \in DOMAIN Restaurants(c)[i].groups : p = <<i, j>> BY <1>3 DEF Groups
  <2>2. PICK j \in DOMAIN Restaurants(c)[i].groups : p = <<i, j>> BY <2>1
  <2> DEFINE els == AllDishes(c)[p]
             new == AllDishes(w)[p]
             hit == RESTO_ORDER[i] = key /\ Restaurants(c)[i].groups[j].title = title
  <2>3. els = Restaurants(c)[i].groups[j].items /\ new = Restaurants(w)[i].groups[j].items
    <3>1. p[1] = i /\ p[2] = j BY <2>2, SMTT(30)
    <3> QED BY <1>2, <3>1 DEF AllDishes
  <2>4. DOMAIN new = DOMAIN els /\ \A k \in DOMAIN els : new[k] = [dish |-> els[k].dish, allergens |-> els[k].allergens \/ (hit /\ els[k].dish = dish)]
    BY <2>3 DEF NotedAt
  <2>5. (\E m \in MenuGroups(b, key, title) : p = m.id) <=> hit BY <1>20, <2>2
  <2>6. els \in Seq(DishDto)
    <3> DEFINE r == Restaurants(c)[i]
    <3>1. r \in RestaurantDto BY DEF Sections, Restaurants
    <3>2. r.groups \in Seq(GroupDto) BY <3>1 DEF RestaurantDto
    <3>3. r.groups[j] \in GroupDto BY <3>2
    <3> QED BY <2>3, <3>3 DEF GroupDto
  <2>7. \A k \in DOMAIN els : RowAt(p, els, k) \in b.menuItems
    <3>1. {r \in Table(AllDishes(c)) : r.parent = p} = RowsOf(p, els) BY <1>1, TableHas
    <3>2. \A k \in DOMAIN els : RowAt(p, els, k) \in RowsOf(p, els) BY RowsAre
    <3> HIDE DEF els
    <3> QED BY <3>1, <3>2
  <2> HIDE DEF els, new, hit
  <2>8. ASSUME NEW k \in DOMAIN els PROVE new[k] = IF RowAt(p, els, k) \in DOMAIN vals THEN vals[RowAt(p, els, k)] ELSE els[k]
    <3> DEFINE r == RowAt(p, els, k)
               x == els[k]
               a == x.allergens \/ (hit /\ x.dish = dish)
    <3>1. r.parent = p /\ r.val = x BY RowAtIs
    <3>2. r \in b.menuItems BY <2>7
    <3>3. new[k] = [dish |-> x.dish, allergens |-> a] BY <2>4
    <3>4. x \in DishDto BY <2>6
    <3> HIDE DEF r, x
    <3>5. r \in DOMAIN vals <=> x.dish = dish /\ hit BY <2>5, <3>1, <3>2 DEF MenuDishes
    <3>6. r \in DOMAIN vals => vals[r] = [dish |-> dish, allergens |-> TRUE] OBVIOUS
    <3>7. x.allergens \in BOOLEAN /\ x = [dish |-> x.dish, allergens |-> x.allergens] BY <3>4 DEF DishDto
    <3>8. x.dish = dish /\ hit => a = TRUE OBVIOUS
    <3>9. ~(x.dish = dish /\ hit) => a = x.allergens BY <3>7
    <3> HIDE DEF a, vals
    <3> QED BY <3>3, <3>5, <3>6, <3>7, <3>8, <3>9 DEF r, x
  <2> HIDE DEF vals
  <2>9. Revised(p, els, new, vals) BY <2>4, <2>8 DEF Revised
  <2> QED BY <2>9 DEF els, new
<1> HIDE DEF vals
<1>4. update(Table(AllDishes(c)), vals) = Table(AllDishes(w)) BY <1>1, <1>2, <1>3, TableUpdated
<1> QED BY <1>4 DEF vals

LEMMA MenuSeeded ==
  ASSUME NEW c, Sections(c), NEW b, Seeded(c, b), NEW key, NEW title, NEW dish
  PROVE  Seeded(MenuContent(c, key, title, dish), MenuTables(b, key, title, dish))
<1> DEFINE w == MenuContent(c, key, title, dish)
           B == MenuTables(b, key, title, dish)
           heads == [m \in MenuGroups(b, key, title) |-> [title |-> title, note |-> TRUE]]
           dishes == [k \in MenuDishes(b, key, title, dish) |-> [dish |-> dish, allergens |-> TRUE]]
<1>1. w.GAL = c.GAL /\ w.ACTS = c.ACTS BY DEF MenuContent, With
<1>2. TableNames \cup {"products"} \subseteq DOMAIN b BY DEF Seeded
<1>3. "menuGroups" \in DOMAIN b /\ "menuItems" \in DOMAIN b BY <1>2 DEF TableNames
<1>4. \A x : TablesOf(x).menuGroups = Each(AllHeads(x)) /\ TablesOf(x).menuItems = Table(AllDishes(x))
  BY DEF TablesOf, AllHeads, seedMenuItems, AllDishes
<1>5. b.menuGroups = Each(AllHeads(c)) /\ b.menuItems = Table(AllDishes(c))
  <2>1. "menuGroups" \in TableNames \ {"experiences"} /\ "menuItems" \in TableNames \ {"experiences"} BY DEF TableNames
  <2>2. b["menuGroups"] = TablesOf(c)["menuGroups"] /\ b["menuItems"] = TablesOf(c)["menuItems"] BY <2>1 DEF Seeded
  <2> QED BY <1>4, <2>2
<1>6. NotedAt(c, w, key, title, dish) BY MenuNoted
<1>7. B.menuGroups = update(b.menuGroups, heads) /\ B.menuItems = update(b.menuItems, dishes) /\ DOMAIN B = DOMAIN b
      /\ \A t \in DOMAIN b \ {"menuGroups", "menuItems"} : B[t] = b[t]
  BY <1>3 DEF MenuTables
<1>8. B.menuGroups = TablesOf(w).menuGroups
  <2> HIDE DEF w, B
  <2>1. update(Each(AllHeads(c)), heads) = Each(AllHeads(w)) BY <1>5, <1>6, HeadsRevised
  <2> HIDE DEF heads, dishes
  <2> QED BY <1>4, <1>5, <1>7, <2>1
<1>9. B.menuItems = TablesOf(w).menuItems
  <2> HIDE DEF w, B
  <2>1. update(Table(AllDishes(c)), dishes) = Table(AllDishes(w)) BY <1>5, <1>6, DishesRevised
  <2> HIDE DEF heads, dishes
  <2> QED BY <1>4, <1>5, <1>7, <2>1
<1> HIDE DEF heads, dishes
<1>10. ASSUME NEW t \in TableNames \ {"experiences"} PROVE B[t] = TablesOf(w)[t]
  <2>1. b[t] = TablesOf(c)[t] BY DEF Seeded
  <2>2. CASE t \in {"menuGroups", "menuItems"} BY <1>8, <1>9, <2>2
  <2>3. CASE t \in Others
    <3>1. TablesOf(w)[t] = TablesOf(c)[t] BY <2>3, OthersSame DEF MenuContent
    <3>2. B[t] = b[t] BY <1>2, <1>7, <2>3 DEF Others
    <3> QED BY <2>1, <3>1, <3>2
  <2>4. CASE t \in {"galleries", "shots"}
    <3>1. B[t] = b[t] BY <1>2, <1>7, <2>4
    <3> HIDE DEF w
    <3> DEFINE f(x) == [i \in DOMAIN x.GAL |-> x.GAL[i].shots]
               h(x) == [i \in DOMAIN x.GAL |-> [key |-> x.GAL[i].key, val |-> x.GAL[i].val, film |-> x.GAL[i].film]]
    <3>2. f(w) = f(c) /\ h(w) = h(c) BY <1>1
    <3>3. \A x : TablesOf(x).shots = Each(f(x)) /\ TablesOf(x).galleries = insert(h(x)) BY DEF TablesOf, seedGalleries
    <3> HIDE DEF f, h
    <3>4. TablesOf(w).shots = TablesOf(c).shots /\ TablesOf(w).galleries = TablesOf(c).galleries BY <3>2, <3>3
    <3>5. TablesOf(w)[t] = TablesOf(c)[t] BY <2>4, <3>4
    <3> QED BY <2>1, <3>1, <3>5
  <2>5. CASE t \in {"restaurants", "restaurantImages"}
    <3>1. B[t] = b[t] BY <1>2, <1>7, <2>5
    <3> HIDE DEF w
    <3>2. \A i \in DOMAIN RESTO_ORDER : Restaurants(w)[i].val = Restaurants(c)[i].val /\ Restaurants(w)[i].gallery = Restaurants(c)[i].gallery
      BY <1>6 DEF NotedAt
    <3> DEFINE f(x) == [i \in DOMAIN RESTO_ORDER |-> [key |-> RESTO_ORDER[i], val |-> Restaurants(x)[i].val]]
               h(x) == [i \in DOMAIN RESTO_ORDER |-> Restaurants(x)[i].gallery]
    <3>3. f(w) = f(c) /\ h(w) = h(c) BY <3>2
    <3>4. \A x : TablesOf(x).restaurants = insert(f(x)) /\ TablesOf(x).restaurantImages = Each(h(x)) BY DEF TablesOf, seedRestaurants
    <3> HIDE DEF f, h
    <3>5. TablesOf(w).restaurants = TablesOf(c).restaurants /\ TablesOf(w).restaurantImages = TablesOf(c).restaurantImages BY <3>3, <3>4
    <3>6. TablesOf(w)[t] = TablesOf(c)[t] BY <2>5, <3>5
    <3> QED BY <2>1, <3>1, <3>6
  <2> QED BY <2>2, <2>3, <2>4, <2>5 DEF Others
<1>11. B.products = Products
  <2>1. "products" \in DOMAIN b \ {"menuGroups", "menuItems"} BY <1>2
  <2> QED BY <1>7, <2>1 DEF Seeded
<1>12. \E v : Values(w, v) /\ B.experiences = insert(v)
  <2>1. PICK v : Values(c, v) /\ b.experiences = insert(v) BY DEF Seeded
  <2>2. "experiences" \in DOMAIN b \ {"menuGroups", "menuItems"} BY <1>2 DEF TableNames
  <2>3. B.experiences = insert(v) BY <1>7, <2>1, <2>2
  <2> HIDE DEF w
  <2>4. Values(w, v) BY <1>1, <2>1 DEF Values
  <2> QED BY <2>3, <2>4
<1> HIDE DEF w, B
<1>13. Seeded(w, B) BY <1>2, <1>7, <1>10, <1>11, <1>12 DEF Seeded
<1> QED BY <1>13 DEF w, B

LEMMA CatalogStep == CatalogInv /\ [CatalogNext]_catalogVars => CatalogInv'
<1> SUFFICES ASSUME CatalogInv, [CatalogNext]_catalogVars PROVE CatalogInv' OBVIOUS
<1>1. CASE loadRows
  <2>1. PICK i \in DOMAIN Content : Load(Content[i]) BY <1>1 DEF loadRows
  <2>2. Content[i] \in TableNames BY <2>1, ContentIs DEF Range
  <2>3. Content[i] # "products" BY <2>2 DEF TableNames
  <2> QED BY <2>1, <2>2, <2>3, TableRead
<1>2. CASE loadProducts BY <1>2, TableRead, ContentIs DEF loadProducts
<1>3. CASE buildCatalog BY <1>3, Built
<1>4. ASSUME NEW d \in Documents, reseed(d) PROVE CatalogInv'
  <2>1. Writing /\ content' = Seedable(d) /\ db' = [seed(d) EXCEPT !.products = db.products] BY <1>4 DEF reseed
  <2> DEFINE c == Seedable(d)
             b == [TablesOf(c) EXCEPT !.products = db.products]
  <2>2. Sections(c) BY CatalogAssumption, SeedableSections
  <2>3. Seeded(c, b)
    <3> HIDE DEF c
    <3>1. db.products = Products BY DEF CatalogInv, Seeded
    <3>2. DOMAIN b = DOMAIN TablesOf(c) OBVIOUS
    <3>3. \A t \in TableNames : b[t] = TablesOf(c)[t] BY DEF TableNames, TablesOf
    <3>4. b.products = Products BY <3>1 DEF TablesOf
    <3> HIDE DEF b
    <3> QED BY <3>2, <3>3, <3>4, SeededIs
  <2>4. content' = c /\ db' = b BY <2>1 DEF seed
  <2> HIDE DEF b, c
  <2> QED BY <2>1, <2>2, <2>3, <2>4, RowsChanged
<1>5. ASSUME NEW r \in db.experiences, NEW rr \in Prices, NEW nr \in Prices,
             NEW price \in {r.val.price} \cup (Prices \ {NoPrice}), migratePrice(r, price, rr, nr)
      PROVE  CatalogInv'
  <2>1. Seeded(content, db) /\ Sections(content) BY DEF CatalogInv, CatalogTypeOK
  <2>2. Writing /\ content' = PriceContent(content, r.val.key, price) /\ db' = PriceTables(db, r, price, rr, nr)
    BY <1>5 DEF migratePrice, PriceContent, PriceTables
  <2>3. price \in Nat
    <3>1. r.val.price \in Nat BY <2>1, BasePrice
    <3> QED BY <3>1, CatalogAssumption
  <2>4. Sections(PriceContent(content, r.val.key, price)) BY <2>1, <2>3, PriceSections
  <2>5. Seeded(PriceContent(content, r.val.key, price), PriceTables(db, r, price, rr, nr)) BY <2>1, Repriced
  <2> QED BY <2>2, <2>4, <2>5, RowsChanged
<1>7. ASSUME NEW key, NEW title, NEW dish, migrateMenu(key, title, dish) PROVE CatalogInv'
  <2>1. Seeded(content, db) /\ Sections(content) BY DEF CatalogInv, CatalogTypeOK
  <2>2. Writing /\ content' = MenuContent(content, key, title, dish) /\ db' = MenuTables(db, key, title, dish)
    BY <1>7 DEF migrateMenu, MenuContent, MenuTables, MenuGroups, MenuDishes
  <2>3. Sections(MenuContent(content, key, title, dish)) BY <2>1, MenuSections
  <2>4. Seeded(MenuContent(content, key, title, dish), MenuTables(db, key, title, dish)) BY <2>1, MenuSeeded
  <2> QED BY <2>2, <2>3, <2>4, RowsChanged
<1>8. ASSUME NEW key, migrateFilm(key) PROVE CatalogInv'
  <2>1. Seeded(content, db) /\ Sections(content) BY DEF CatalogInv, CatalogTypeOK
  <2>2. Writing /\ content' = FilmContent(content, key) /\ db' = FilmTables(db, key)
    BY <1>8 DEF migrateFilm, FilmContent, FilmTables
  <2>3. Sections(FilmContent(content, key)) BY <2>1, FilmSections
  <2>4. Seeded(FilmContent(content, key), FilmTables(db, key)) BY <2>1, FilmSeeded
  <2> QED BY <2>2, <2>3, <2>4, RowsChanged
<1>6. CASE UNCHANGED catalogVars
  <2>1. content' = content /\ db' = db /\ got' = got /\ built' = built /\ mixed' = mixed /\ reprices' = reprices BY <1>6 DEF catalogVars
  <2> QED BY <2>1 DEF CatalogInv, CatalogTypeOK, CatalogHold, RoundTrip, QuotedIsCharged, priceFor
<1> QED BY <1>1, <1>2, <1>3, <1>4, <1>5, <1>6, <1>7, <1>8 DEF CatalogNext

LEMMA CatalogSafe == CatalogInv => CatalogTypeOK /\ CatalogHold
BY DEF CatalogInv
-----------------------------------------------------------------------------
(***************************************************************************)
(* The parts side by side: a step moves one of them.                       *)
(***************************************************************************)
LEMMA OneMoves ==
  ASSUME [ToldNext]_toldVars
  PROVE  /\ [OffersNext]_offerVars /\ [CouponsNext]_couponVars /\ [MessagesNext]_messageVars /\ [PhotosNext]_photoVars /\ [TablesNext]_tableVars
         /\ [ThreadsNext]_threadVars /\ [BootNext]_bootVars /\ [OffsiteNext]_offsiteVars /\ [TillNext]_tillVars
         /\ [ListsNext]_listVars /\ [CatalogNext]_catalogVars
BY DEF ToldNext, toldVars

(* What the picker calls full or closed is refused and all else granted, a *)
(* page that took six queries offers nothing that was never free, unless a *)
(* hold became a booking or the calendar changed meanwhile; and a code's   *)
(* uses are the bookings that took it, whatever the desk does to it, but   *)
(* for a use counted between the two readings of a switch and for a code   *)
(* created twice.                                                          *)
THEOREM OffersHonestly == ToldSpec => []OffersHonest
<1>1. ToldInit => OffersInv /\ CouponsInv BY OffersInitially, CouponsInitially DEF ToldInit
<1>2. OffersInv /\ CouponsInv /\ [ToldNext]_toldVars => (OffersInv /\ CouponsInv)' BY OneMoves, OffersStep, CouponsStep
<1>3. OffersInv /\ CouponsInv => OffersHonest BY OffersSafe, CouponsSafe DEF OffersHonest
<1> QED BY <1>1, <1>2, <1>3, PTL DEF ToldSpec

(* A guest is told the truth.  Of a booking: the links of every message    *)
(* they got open until their secret is given up, ticket_sent_at says that  *)
(* a ticket came, and the last change is in one.  Of the photos: the one   *)
(* e-mail goes out when there is a photo to see.  Of a table: its status,  *)
(* once everything arrived, unless two decided at once or mail failed.     *)
THEOREM GuestsHold == ToldSpec => []GuestsTold
<1> DEFINE I == MessagesInv /\ PhotosInv /\ TablesInv
<1>1. ToldInit => I BY MessagesInitially, PhotosInitially, TablesInitially DEF ToldInit
<1>2. I /\ [ToldNext]_toldVars => I' BY OneMoves, MessagesStep, PhotosStep, TablesStep
<1>3. I => GuestsTold BY MessagesSafe, PhotosSafe, TablesSafe DEF GuestsTold
<1> QED BY <1>1, <1>2, <1>3, PTL DEF ToldSpec

(* The operators' list: a visitor has two open conversations only if two   *)
(* of their sessions began at the same moment, and a tab shows every       *)
(* conversation as it is once the handlers that were alone on it are done. *)
THEOREM BoardHolds == ToldSpec => []BoardTold
<1>1. ToldInit => ThreadInv BY ThreadsInitially DEF ToldInit
<1>2. ThreadInv /\ [ToldNext]_toldVars => ThreadInv' BY OneMoves, ThreadsStep
<1>3. ThreadInv => BoardTold BY ThreadsSafe DEF BoardTold
<1> QED BY <1>1, <1>2, <1>3, PTL DEF ToldSpec

(* A release script wipes nothing that holds bookings without being told   *)
(* to, the API serves a database that has all it needs, whatever failed or *)
(* was run again; and every night's copy stays for its days off site, with *)
(* the newest one kept whatever the uploads and deletions left out.        *)
THEOREM ScriptsHold == ToldSpec => []ScriptsSafe
<1>1. ToldInit => BootInv /\ OffsiteInv BY BootInitially, OffsiteInitially DEF ToldInit
<1>2. BootInv /\ OffsiteInv /\ [ToldNext]_toldVars => (BootInv /\ OffsiteInv)' BY OneMoves, BootStep, OffsiteStep
<1>3. BootInv /\ OffsiteInv => ScriptsSafe BY BootSafe, OffsiteSafe DEF ScriptsSafe
<1> QED BY <1>1, <1>2, <1>3, PTL DEF ToldSpec

(* What the back office counts adds up: on every report the figures of the *)
(* days, activities, modes, months, options and nationalities add up to    *)
(* what it reports as a whole, its totals are those of the bookings in its *)
(* range, and the day's ledger tells what every booking was paid, but for  *)
(* bookings whose paid amount a save of the desk or the gate put back,     *)
(* whose transfer was recorded twice, or whose cut was left without its    *)
(* entry.                                                                  *)
THEOREM ReportsBalanced == ToldSpec => []ReportsBalance
<1>1. ToldInit => TillInv BY TillInitially DEF ToldInit
<1>2. TillInv /\ [ToldNext]_toldVars => TillInv' BY OneMoves, TillStep
<1>3. TillInv => ReportsBalance BY TillSafe DEF ReportsBalance
<1> QED BY <1>1, <1>2, <1>3, PTL DEF ToldSpec

(* Whoever reads a list page after page, to its end, is shown every row    *)
(* that stayed on it, if the list is by age and unfiltered or no row was   *)
(* pulled up, a file too unless it is full; and of a list nothing changed, *)
(* each row once, in order, as many as the total says.                     *)
THEOREM PagesHold == ToldSpec => []PagesWhole
<1>1. ToldInit => ListsInv BY ListsInitially DEF ToldInit
<1>2. ListsInv /\ [ToldNext]_toldVars => ListsInv' BY OneMoves, ListsStep
<1>3. ListsInv => PagesWhole BY ListsSafe DEF PagesWhole
<1> QED BY <1>1, <1>2, <1>3, PTL DEF ToldSpec

(* A page built while no write fell into it is what the tables were given: *)
(* the document as the generator writes it, with the prices, notes and     *)
(* films the writes since then have set, whatever order the database       *)
(* returned tied rows in; and it quotes for every activity, resident or    *)
(* not, the price that a booking of it is charged.                         *)
THEOREM PagesFaithful == ToldSpec => []CatalogFaithful
<1>1. ToldInit => CatalogInv BY CatalogInitially DEF ToldInit
<1>2. CatalogInv /\ [ToldNext]_toldVars => CatalogInv' BY OneMoves, CatalogStep
<1>3. CatalogInv => CatalogFaithful BY CatalogSafe DEF CatalogFaithful
<1> QED BY <1>1, <1>2, <1>3, PTL DEF ToldSpec

(* Every part keeps its types: above all, nothing paid falls below zero, a *)
(* channel is never both sent to and still to do, no two rows of a list    *)
(* are equally old, and a code has no more uses than there are couples.    *)
THEOREM ToldTyped == ToldSpec => []ToldTypeOK
<1> DEFINE I == /\ TillInv /\ OffersInv /\ CouponsInv /\ MessagesInv /\ PhotosInv /\ TablesInv
                /\ ThreadInv /\ ListsInv /\ CatalogInv /\ BootInv /\ OffsiteInv /\ part \in Parts
<1>1. ToldInit => I
  BY TillInitially, OffersInitially, CouponsInitially, MessagesInitially, PhotosInitially, TablesInitially,
     ThreadsInitially, ListsInitially, CatalogInitially, BootInitially, OffsiteInitially DEF ToldInit
<1>2. I /\ [ToldNext]_toldVars => I'
  <2> SUFFICES ASSUME I, [ToldNext]_toldVars PROVE I' OBVIOUS
  <2>1. part' = part BY DEF ToldNext, toldVars
  <2>2. (TillInv /\ OffersInv /\ CouponsInv /\ MessagesInv)' BY OneMoves, TillStep, OffersStep, CouponsStep, MessagesStep
  <2>3. (PhotosInv /\ TablesInv /\ ThreadInv /\ ListsInv)' BY OneMoves, PhotosStep, TablesStep, ThreadsStep, ListsStep
  <2>4. (CatalogInv /\ BootInv /\ OffsiteInv)' BY OneMoves, CatalogStep, BootStep, OffsiteStep
  <2> QED BY <2>1, <2>2, <2>3, <2>4
<1>3. I => ToldTypeOK
  <2> SUFFICES ASSUME I PROVE ToldTypeOK OBVIOUS
  <2>1. TillTypeOK /\ OffersTypeOK /\ CouponsTypeOK /\ MessagesTypeOK BY TillSafe, OffersSafe, CouponsSafe, MessagesSafe
  <2>2. PhotosTypeOK /\ TablesTypeOK /\ ThreadsTypeOK /\ ListsTypeOK BY PhotosSafe, TablesSafe, ThreadsSafe, ListsSafe
  <2>3. CatalogTypeOK /\ BootTypeOK /\ OffsiteTypeOK BY CatalogSafe, BootSafe, OffsiteSafe
  <2> QED BY <2>1, <2>2, <2>3 DEF ToldTypeOK, Parts
<1> QED BY <1>1, <1>2, <1>3, PTL DEF ToldSpec
=============================================================================
