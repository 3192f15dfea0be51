-------------------------------- MODULE Till ---------------------------------
(***************************************************************************)
(* What the back office counts (staff/reports): the sales of a range of    *)
(* visit dates, the day's reconciliation with the money recorded that day, *)
(* the forecast and the dashboard - all read from bookings that the desk   *)
(* takes, is paid for, edits and cancels meanwhile.  The ledger is the     *)
(* trail: an entry for every move of a booking's paid amount, written      *)
(* after it and, for a desk booking paid by transfer, apart from it.  The  *)
(* desk's call and the gate's check-in read a booking without a lock and   *)
(* save the whole row later, with the paid amount as it was.               *)
(***************************************************************************)
EXTENDS Sequences, FiniteSets, Sums

CONSTANTS
  Bookings, AtDesk, \* bookings, and those taken at the desk
  Options,        \* options of experiences
  Asked,          \* what new bookings ask for: order, slot, mode and guests
  Amounts,        \* rupees taken at once
  MonthLength, LastDay,
  MaxEntries,     \* bound: entries of the trail
  MaxEdits        \* bound: edits, check-ins, and calls cut or repeated

VARIABLES
  today,
  sold,           \* the bookings rows
  trail,          \* their trail's entries that move the paid amount, in order
  desk,           \* the call that takes a booking at the desk, and the row it read
  gate,           \* the check-in at the gate, and the row it read
  gatewayHas,     \* external: what the provider captured and did not give back
  spoiled,        \* history: bookings whose paid amount a save moved, or a cut left, without its entry
  edits           \* how many there were
tillVars == <<today, sold, trail, desk, gate, gatewayHas, spoiled, edits>>

Days == 0..LastDay
Methods == {"cash", "card", "juice", "transfer", "online", "other"}
Statuses == {"confirmed", "arrived", "postponed", "cancelled"}
Orders ==   \* columns of the booking, and what its lines, rows of their own, come to by kind
  [entry : Nat, subtotal : Nat, lines : [Options -> Nat], products : Nat, pass : Nat, offer : Nat]
Nationalities == {ask.nationality : ask \in Asked}
Sales ==
  [order : Orders, slot : {"morning", "afternoon"}, mode : {"online", "gate"}, nationality : Nationalities, guests : Nat,
   status : Statuses, visit : Days, made : Days, paid : Nat]
NoSale == [status |-> "none"]
NoAnswer == [step |-> "idle", row |-> NoSale, takes |-> 0]
NoGuest == [step |-> "idle", row |-> NoSale]
LineSum(o) == SumOf(Options, o.lines)
Total(o) == o.subtotal - o.pass - o.offer
Sold == {b \in Bookings : sold[b] # NoSale}

ASSUME TillAssumption ==
  /\ IsFiniteSet(Bookings) /\ IsFiniteSet(Options) /\ Amounts \subseteq Nat /\ MonthLength \in Nat \ {0} /\ LastDay \in Nat
  /\ Asked \subseteq [order : Orders, slot : {"morning", "afternoon"}, mode : {"online", "gate"}, nationality : Nationalities, guests : Nat]

TillTypeOK ==
  /\ today \in Days /\ gatewayHas \in [Bookings -> Nat]
  /\ sold \in [Bookings -> {NoSale} \cup Sales]
  /\ trail \in Seq([of : Bookings, day : 0..today, from : Int, to : Int, method : Methods \cup {"refund"}])
  /\ desk \in [Bookings -> [step : {"idle", "read", "save", "entry", "pay"}, row : {NoSale} \cup Sales, takes : Nat]]
  /\ gate \in [Bookings -> [step : {"idle", "viewed", "read"}, row : {NoSale} \cup Sales]]

NewRow(ask, visit) ==
  [order |-> ask.order, slot |-> ask.slot, mode |-> ask.mode, nationality |-> ask.nationality, guests |-> ask.guests,
   status |-> "confirmed", visit |-> visit, made |-> today, paid |-> 0]

TillInit ==
  /\ today = 0 /\ sold \in [Bookings -> {NoSale} \cup {NewRow(ask, LastDay) : ask \in Asked}] /\ trail = <<>>
  /\ desk = [b \in Bookings |-> NoAnswer] /\ gate = [b \in Bookings |-> NoGuest] /\ gatewayHas = [b \in Bookings |-> 0] /\ spoiled = {} /\ edits = 0
  /\ \A b \in Bookings : b \in AtDesk <=> sold[b] = NoSale

Edited == edits < MaxEdits /\ edits' = edits + 1
Save(b, row) == sold' = [sold EXCEPT ![b] = row]
\* A row saved as it was read: its columns go back, the lines stay.
AsRead(b, row) == [row EXCEPT !.order = [@ EXCEPT !.lines = sold[b].order.lines, !.products = sold[b].order.products]]
SetDesk(b, call) == desk' = [desk EXCEPT ![b] = call]
Entry(b, from, to, method) == [of |-> b, day |-> today, from |-> from, to |-> to, method |-> method]
Enter(b, from, to, method) ==
  Len(trail) < MaxEntries /\ trail' = Append(trail, Entry(b, from, to, method))

(***************************************************************************)
(* Bookings are taken: on the website, or by an operator in several steps, *)
(* each one statement of its own.                                          *)
(***************************************************************************)
sell(b, ask, visit) ==
  /\ sold[b] = NoSale /\ visit >= today /\ Save(b, NewRow(ask, visit))
  /\ UNCHANGED <<today, trail, gate, gatewayHas, spoiled, edits>>

\* takes: what the cashier takes in the same call, if anything.
createForGuest(b, ask, visit, takes) ==
  /\ b \in AtDesk /\ sell(b, ask, visit) /\ SetDesk(b, [NoAnswer EXCEPT !.step = "read", !.takes = takes])

\* The same request again: the key finds the booking, and the rest runs once more.
deskAgain(b, takes) ==
  /\ b \in AtDesk /\ sold[b] # NoSale /\ desk[b].step = "idle"
  /\ SetDesk(b, [NoAnswer EXCEPT !.step = "read", !.takes = takes]) /\ Edited
  /\ UNCHANGED <<today, sold, trail, gate, gatewayHas, spoiled>>

readCreated(b) ==
  /\ desk[b].step = "read" /\ SetDesk(b, [desk[b] EXCEPT !.step = "save", !.row = sold[b]])
  /\ UNCHANGED <<today, sold, trail, gate, gatewayHas, spoiled, edits>>

\* "Online" and nothing for the cashier: a transfer has arrived.
prepaid(call) == call.row.mode = "online" /\ call.takes = 0 /\ Total(call.row.order) > 0

(* The whole row goes back, as it was read or, when the money has arrived, *)
(* with the total as paid, for an entry that moves the amount up from      *)
(* nothing: an amount that was another one by now moves without an entry.  *)
saveTaken(b) ==
  LET row == desk[b].row IN
  /\ desk[b].step = "save"
  /\ Save(b, AsRead(b, IF prepaid(desk[b]) THEN [row EXCEPT !.paid = Total(row.order)] ELSE row))
  /\ SetDesk(b, [desk[b] EXCEPT !.step = IF prepaid(desk[b]) THEN "entry" ELSE "pay"])
  /\ spoiled' = IF sold[b].paid = (IF prepaid(desk[b]) THEN 0 ELSE row.paid) THEN spoiled ELSE spoiled \cup {b}
  /\ UNCHANGED <<today, trail, gate, gatewayHas, edits>>

prepaidEntry(b) ==
  /\ desk[b].step = "entry" /\ Enter(b, 0, Total(desk[b].row.order), "transfer")
  /\ SetDesk(b, NoAnswer) /\ UNCHANGED <<today, sold, gate, gatewayHas, spoiled, edits>>

Paid(b, amount, method) ==
  /\ Save(b, [sold[b] EXCEPT !.paid = @ + amount])
  /\ Enter(b, sold[b].paid, sold[b].paid + amount, method)

deskPays(b) ==
  /\ desk[b].step = "pay" /\ SetDesk(b, NoAnswer)
  /\ IF desk[b].takes > 0 /\ Total(desk[b].row.order) > 0 /\ sold[b].status # "cancelled"
     THEN Paid(b, desk[b].takes, "card") ELSE UNCHANGED <<sold, trail>>
  /\ UNCHANGED <<today, gate, gatewayHas, spoiled, edits>>

\* The server is restarted in the middle of the call: after its save the entry never comes.
deskCut(b) ==
  /\ desk[b].step # "idle" /\ SetDesk(b, NoAnswer) /\ Edited
  /\ spoiled' = IF desk[b].step = "entry" THEN spoiled \cup {b} ELSE spoiled
  /\ UNCHANGED <<today, sold, trail, gate, gatewayHas>>

(***************************************************************************)
(* Money moves: each in one transaction with its entry.                    *)
(***************************************************************************)
recordPayment(b, amount) ==
  /\ sold[b].status \notin {"none", "cancelled"} /\ Paid(b, amount, "cash")
  /\ UNCHANGED <<today, desk, gate, gatewayHas, spoiled, edits>>

settle(b) ==
  /\ sold[b].status # "none" /\ Total(sold[b].order) > sold[b].paid
  /\ LET due == Total(sold[b].order) - sold[b].paid IN
     Paid(b, due, "online") /\ gatewayHas' = [gatewayHas EXCEPT ![b] = @ + due]
  /\ UNCHANGED <<today, desk, gate, spoiled, edits>>

Returned(b, amount, left) ==
  /\ sold[b].status # "none" /\ amount <= gatewayHas[b]
  /\ Save(b, [sold[b] EXCEPT !.paid = left]) /\ Enter(b, sold[b].paid, left, "refund")
  /\ gatewayHas' = [gatewayHas EXCEPT ![b] = @ - amount]
  /\ UNCHANGED <<today, desk, gate, spoiled, edits>>

\* Mutant: what was paid may go below nothing.
refundBelow(b, amount) == Returned(b, amount, sold[b].paid - amount)

\* The entry of a refund names no method; it went back online.
refund(b, amount) == Returned(b, amount, Max({0, sold[b].paid - amount}))

\* Desk edits: another order on another day, or another status (cancelled bookings come back too).
resell(b, o, visit) ==
  /\ sold[b].status \in {"confirmed", "postponed"} /\ Save(b, [sold[b] EXCEPT !.order = o, !.visit = visit])
  /\ Edited /\ UNCHANGED <<today, trail, desk, gate, gatewayHas, spoiled>>

setStatus(b, status) ==
  /\ sold[b].status # "none" /\ Save(b, [sold[b] EXCEPT !.status = status])
  /\ Edited /\ UNCHANGED <<today, trail, desk, gate, gatewayHas, spoiled>>

(***************************************************************************)
(* The gate: a view of the booking decides, the row is read again, and     *)
(* saved whole, without a lock and later (the override is module Visit's). *)
(***************************************************************************)
SetGate(b, visit) == gate' = [gate EXCEPT ![b] = visit]

gateView(b) ==
  /\ gate[b].step = "idle" /\ sold[b].status \notin {"none", "cancelled", "arrived"}
  /\ SetGate(b, [NoGuest EXCEPT !.step = "viewed"]) /\ Edited /\ UNCHANGED <<today, sold, trail, desk, gatewayHas, spoiled>>

gateReads(b) ==
  /\ gate[b].step = "viewed" /\ SetGate(b, [step |-> "read", row |-> sold[b]])
  /\ UNCHANGED <<today, sold, trail, desk, gatewayHas, spoiled, edits>>

\* What was paid meanwhile goes back to what it was, and its entry stays.
checkIn(b) ==
  /\ gate[b].step = "read" /\ Save(b, AsRead(b, [gate[b].row EXCEPT !.status = "arrived"])) /\ SetGate(b, NoGuest)
  /\ spoiled' = IF sold[b].paid = gate[b].row.paid THEN spoiled ELSE spoiled \cup {b}
  /\ UNCHANGED <<today, trail, desk, gatewayHas, edits>>

Tomorrow == today < LastDay /\ today' = today + 1 /\ UNCHANGED <<sold, trail, desk, gate, gatewayHas, spoiled, edits>>

TillNext ==
  \/ \E b \in Bookings, visit \in Days, ask \in Asked :
       \/ sell(b, ask, visit) /\ UNCHANGED desk
       \/ \E takes \in {0} \cup Amounts : createForGuest(b, ask, visit, takes)
       \/ resell(b, ask.order, visit)
  \/ \E b \in Bookings :
       \/ \E takes \in {0} \cup Amounts : deskAgain(b, takes)
       \/ readCreated(b) \/ saveTaken(b) \/ prepaidEntry(b) \/ deskPays(b) \/ deskCut(b) \/ settle(b)
       \/ gateView(b) \/ gateReads(b) \/ checkIn(b)
       \/ \E status \in Statuses : setStatus(b, status)
       \/ \E amount \in Amounts : recordPayment(b, amount) \/ refund(b, amount)
  \/ Tomorrow

(***************************************************************************)
(* The reports.                                                            *)
(***************************************************************************)
Between(from, to) == {b \in Sold : from <= sold[b].visit /\ sold[b].visit <= to}
LiveSale(from, to) == {b \in Between(from, to) : sold[b].status # "cancelled"}
Revenue(S) == SumOf(S, [b \in S |-> Total(sold[b].order)])
Guests(S) == SumOf(S, [b \in S |-> sold[b].guests])
Figures(S) == [bookings |-> Cardinality(S), guests |-> Guests(S), revenue |-> Revenue(S)]

totals(from, to) ==
  LET S == LiveSale(from, to)
      Add(field) == SumOf(S, [b \in S |-> sold[b].order[field]])
      lines == SumOf(S, [b \in S |-> LineSum(sold[b].order)])
      over == [b \in S |-> Max({0, sold[b].paid - Total(sold[b].order)})]
  IN [sales |-> Figures(S), cancelled |-> Cardinality(Between(from, to) \ S),
      entry |-> Add("entry"), experiences |-> lines, products |-> Add("products"),
      other |-> Add("subtotal") - Add("entry") - lines - Add("products"),
      discounts |-> Add("pass") + Add("offer"), refundsDue |-> SumOf(S, over),
      online |-> Revenue({b \in S : sold[b].mode = "online"}), gate |-> Revenue({b \in S : sold[b].mode = "gate"})]

\* By payment mode, slot and so on; a key nobody has does not appear.
breakdown(col, from, to) == [k \in {sold[b][col] : b \in LiveSale(from, to)} |-> Figures({b \in LiveSale(from, to) : sold[b][col] = k})]

\* Tenths of percent, rounded half up.
nationalities(from, to) ==
  LET rows == breakdown("nationality", from, to)
      all == Max({1, Guests(LiveSale(from, to))})
  IN [k \in DOMAIN rows |-> [figures |-> rows[k], share |-> (2000 * rows[k].guests + all) \div (2 * all)]]

daily(from, to) == [d \in from..to |-> Figures(LiveSale(d, d))]

experiences(from, to) ==
  LET S == LiveSale(from, to) IN [x \in Options |-> SumOf(S, [b \in S |-> sold[b].order.lines[x]])]

reconciliationTotals(rows, passed) ==
  LET live == {b \in rows : sold[b].status # "cancelled"}
      here == {b \in live : sold[b].mode = "gate"}
      arrived == {b \in live : sold[b].status = "arrived"} IN
  [expected |-> Guests(live), gateExpected |-> Revenue(here), gateCollected |-> Revenue(here \cap arrived),
   gateOutstanding |-> Revenue(here \ arrived), onlinePaid |-> Revenue(live \ here),
   noShows |-> IF passed THEN Cardinality({b \in live : sold[b].status = "confirmed"}) ELSE 0]

\* Mutant: the entry's new balance instead of what moved.
paymentLedgerBalance(rows) == {[i |-> i, method |-> trail[i].method, amount |-> trail[i].to] : i \in rows}

\* What moved, under the till's column it belongs to; entries that moved nothing are left out.
paymentLedger(rows) ==
  LET column(m) == IF m = "refund" THEN "online" ELSE IF m \in Methods THEN m ELSE "other" IN
  {[i |-> i, method |-> column(trail[i].method), amount |-> trail[i].to - trail[i].from] :
     i \in {n \in rows : trail[n].to # trail[n].from}}

collectedByMethod(entries) ==
  [m \in Methods |-> SumOf({e \in entries : e.method = m}, [e \in entries |-> e.amount])]

\* The entries of a day, of some bookings.
collected(d, S) == collectedByMethod(paymentLedger({i \in DOMAIN trail : trail[i].day = d /\ trail[i].of \in S}))

reconciliation(d) == [totals |-> reconciliationTotals(Between(d, d), d < today), collected |-> collected(d, Bookings)]

forecast(days) ==
  [d \in today..Min({LastDay, today + days - 1}) |->
     LET At(slot) == Figures({b \in LiveSale(d, d) : sold[b].slot = slot})
         m == At("morning")  a == At("afternoon") IN
     [bookings |-> m.bookings + a.bookings, guests |-> m.guests + a.guests, revenue |-> m.revenue + a.revenue]]

\* The bookings' file alone has the cancelled ones, with their status.
exportCsv(type, from, to) ==
  CASE type = "bookings" -> [b \in Between(from, to) |-> [status |-> sold[b].status, total |-> Total(sold[b].order), guests |-> sold[b].guests]]
    [] type = "daily" -> daily(from, to)
    [] type = "nationalities" -> nationalities(from, to)
    [] type = "experiences" -> experiences(from, to)

monthRevenue(day) ==
  Revenue({b \in Sold : sold[b].status # "cancelled" /\ sold[b].made \div MonthLength = day \div MonthLength})

-----------------------------------------------------------------------------
(* The till's columns of all days, for any of the bookings, add up to what *)
(* those were paid, whatever was taken, refunded, re-priced, moved or      *)
(* cancelled: an entry for every move and no move without one.  Left out   *)
(* are a booking whose prepaid entry is still to come, and for good one    *)
(* whose paid amount was written without an entry that tells it            *)
(* (spoiled): a check-in at the gate put back what was paid since it read  *)
(* the row; the desk's call put back what was paid since it read the row,  *)
(* or recorded the transfer of a booking that had been paid, as a repeated *)
(* call does; or the call was cut between its save and the entry           *)
(* (reconciliation.ts, createForGuest, checkIn).                           *)
LedgerTellsPaid ==
  \A S \in SUBSET {b \in Sold \ spoiled : desk[b].step # "entry"} :
    SumOf(Days, [d \in Days |-> SumOf(Methods, collected(d, S))]) = SumOf(S, [b \in S |-> sold[b].paid])

(* The reports tell one story: the range, its days, its breakdowns, the    *)
(* day's reconciliation, the forecast, the files and the dashboard count   *)
(* the same guests and rupees of the same visits, and the shares of the    *)
(* guests add up to all of them but for their rounding (reports.service,   *)
(* stats).                                                                 *)
ReportsAgree ==
  LET all == totals(0, LastDay)
      days == daily(0, LastDay)
      modes == breakdown("mode", 0, LastDay)
      options == exportCsv("experiences", 0, LastDay)
      nations == exportCsv("nationalities", 0, LastDay)
      file == exportCsv("bookings", 0, LastDay)
      live == {b \in DOMAIN file : file[b].status # "cancelled"}
      months == 0..(LastDay \div MonthLength)
      ahead == forecast(LastDay + 1)
  IN
  /\ all.sales.revenue = all.entry + all.experiences + all.products + all.other - all.discounts
  /\ all.sales.revenue = SumOf(Days, [d \in Days |-> days[d].revenue])
  /\ all.sales.revenue = all.online + all.gate
  /\ all.sales.revenue = SumOf(DOMAIN modes, [k \in DOMAIN modes |-> modes[k].revenue])
  /\ all.sales.revenue = SumOf(months, [m \in months |-> monthRevenue(m * MonthLength)])
  /\ all.sales.revenue = SumOf(live, [b \in live |-> file[b].total])
  /\ all.experiences = SumOf(Options, options)
  /\ all.sales.guests = SumOf(DOMAIN nations, [k \in DOMAIN nations |-> nations[k].figures.guests])
  /\ all.sales.guests > 0 =>
       SumOf(DOMAIN nations, [k \in DOMAIN nations |-> nations[k].share])
         \in (1000 - Cardinality(DOMAIN nations))..(1000 + Cardinality(DOMAIN nations))
  /\ \A d \in Days :
       LET t == reconciliationTotals(Between(d, d), d < today) IN
       /\ t.expected = days[d].guests /\ t.gateExpected + t.onlinePaid = days[d].revenue
       /\ t.gateCollected + t.gateOutstanding = t.gateExpected
       /\ d \in DOMAIN ahead => ahead[d] = days[d]

\* The ledger and the reports together.
TillBalances == LedgerTellsPaid /\ ReportsAgree
=============================================================================
