------------------------------ MODULE Payments ------------------------------
(***************************************************************************)
(* The money of bookings: checkouts opened at a payment gateway, their     *)
(* outcomes settled from notices and return pages, the sweep that gives up *)
(* unfinished ones, the cashier, refunds, and the gate, whose check-in     *)
(* saves the whole booking row.                                            *)
(*                                                                         *)
(* A handler runs in a worker, one at a time, and a worker serves request  *)
(* after request; the sweep has one of its own.  Transactions lock rows    *)
(* (the payment's, the booking's) and become visible at their commit.  The *)
(* gateway is outside: what it captured or gave back survives a restart of *)
(* the server, and its notices come late, more than once, or never.        *)
(***************************************************************************)
EXTENDS FiniteSets, Sums

CONSTANTS
  Bookings,
  Payments,     \* bound: rows of the payments table
  Requests,     \* workers that serve requests
  Sweeper,      \* the worker of the sweep
  NoWorker,
  NoPayment,
  Total,        \* what each booking costs
  MaxTakings,   \* bound: cash taken at the desk for one booking
  MaxFaults,    \* bound: restarts of the server and answers lost
  Ops           \* what happens in this instance

Workers == Requests \cup {Sweeper}

ASSUME PaymentsAssumption ==
  /\ Total \in Nat \ {0}
  /\ MaxTakings \in Nat /\ MaxFaults \in Nat
  /\ Sweeper \notin Requests /\ NoWorker \notin Workers /\ NoPayment \notin Payments
  /\ IsFiniteSet(Payments) /\ Bookings # {}

VARIABLES
  booking,   \* the bookings rows: status, paid
  payment,   \* the payments rows
  order,     \* external: the gateway's orders, by payment
  pc,        \* the step each worker is at
  call,      \* what it works on
  payLock,   \* row lock of each payment
  bookLock,  \* row lock of each booking
  mailing,   \* bookings whose ticket a settlement has just asked for
  tickets,   \* the paid amounts the tickets sent for each booking have shown
  takings,   \* history: cash the desk recorded for each booking
  faults

vars == <<booking, payment, order, pc, call, payLock, bookLock, mailing, tickets, takings, faults>>
locks == <<payLock, bookLock>>

NoCall == [op |-> "none", booking |-> CHOOSE b \in Bookings : TRUE, payment |-> NoPayment, outcome |-> "none",
           amount |-> 0, from |-> 0]

BookingRow == [status : {"none", "confirmed", "arrived", "cancelled"}, paid : Nat]
PaymentRow ==
  [status : {"none", "pending", "paid", "failed", "cancelled", "refunded"},
   booking : Bookings, amount : Nat, refunded : Nat]
Order == [state : {"none", "open", "failed", "captured"}, captured : Nat, returned : Nat]
Step == {"idle", "save", "session", "payment", "booking", "lookup", "give", "commit", "after", "gate"}
Call ==
  [op : {"none", "create", "payNow", "settle", "refund", "gate"},
   booking : Bookings, payment : Payments \cup {NoPayment},
   outcome : {"none", "paid", "failed", "cancelled"}, amount : Nat, from : Nat]

TypeOK ==
  /\ booking \in [Bookings -> BookingRow]
  /\ payment \in [Payments -> PaymentRow]
  /\ order \in [Payments -> Order]
  /\ pc \in [Workers -> Step]
  /\ call \in [Workers -> Call]
  /\ payLock \in [Payments -> Workers \cup {NoWorker}]
  /\ bookLock \in [Bookings -> Workers \cup {NoWorker}]
  /\ mailing \in SUBSET Bookings
  /\ tickets \in [Bookings -> SUBSET Nat]
  /\ takings \in [Bookings -> Nat]
  /\ faults \in 0..MaxFaults

Init ==
  /\ booking = [b \in Bookings |-> [status |-> "none", paid |-> 0]]
  /\ payment = [p \in Payments |-> [status |-> "none", booking |-> NoCall.booking, amount |-> 0, refunded |-> 0]]
  /\ order = [p \in Payments |-> [state |-> "none", captured |-> 0, returned |-> 0]]
  /\ pc = [w \in Workers |-> "idle"]
  /\ call = [w \in Workers |-> NoCall]
  /\ payLock = [p \in Payments |-> NoWorker]
  /\ bookLock = [b \in Bookings |-> NoWorker]
  /\ mailing = {}
  /\ tickets = [b \in Bookings |-> {}]
  /\ takings = [b \in Bookings |-> 0]
  /\ faults = 0

Begin(w, step, c) ==
  /\ pc[w] = "idle"
  /\ pc' = [pc EXCEPT ![w] = step]
  /\ call' = [call EXCEPT ![w] = c]

Goto(w, step) ==
  /\ pc' = [pc EXCEPT ![w] = step]
  /\ UNCHANGED call

Return(w) ==
  /\ pc' = [pc EXCEPT ![w] = "idle"]
  /\ call' = [call EXCEPT ![w] = NoCall]

(* The transaction of w ends and its row locks go.                         *)
Release(w) ==
  /\ payLock' = [p \in Payments |-> IF payLock[p] = w THEN NoWorker ELSE payLock[p]]
  /\ bookLock' = [b \in Bookings |-> IF bookLock[b] = w THEN NoWorker ELSE bookLock[b]]

SendTicket(b) == tickets' = [tickets EXCEPT ![b] = @ \cup {booking[b].paid}]

Unused(p) == payment[p].status = "none" /\ \A w \in Workers : call[w].payment # p

-----------------------------------------------------------------------------
(* Checkout.                                                               *)

(* A booking made with "pay online now": committed, then its checkout is   *)
(* opened and its ticket held back.                                        *)
CreateOnline(w) ==
  /\ w \in Requests
  /\ \E b \in Bookings, p \in Payments :
       /\ booking[b].status = "none" /\ Unused(p)
       /\ booking' = [booking EXCEPT ![b].status = "confirmed"]
       /\ Begin(w, "save", [NoCall EXCEPT !.op = "create", !.booking = b, !.payment = p, !.amount = Total])
  /\ UNCHANGED <<payment, order, locks, mailing, tickets, takings, faults>>

(* "Pay now" on the ticket page: what is due is read without a lock.       *)
PayNow(w) ==
  /\ w \in Requests
  /\ \E b \in Bookings, p \in Payments :
       /\ booking[b].status \notin {"none", "cancelled"} /\ booking[b].paid < Total /\ Unused(p)
       /\ Begin(w, "save", [NoCall EXCEPT !.op = "payNow", !.booking = b, !.payment = p,
                                          !.amount = Total - booking[b].paid])
  /\ UNCHANGED <<booking, payment, order, locks, mailing, tickets, takings, faults>>

(* The pending row is saved ...                                            *)
SavePending(w) ==
  /\ pc[w] = "save"
  /\ payment' = [payment EXCEPT ![call[w].payment] =
       [status |-> "pending", booking |-> call[w].booking, amount |-> call[w].amount, refunded |-> 0]]
  /\ Goto(w, "session")
  /\ UNCHANGED <<booking, order, locks, mailing, tickets, takings, faults>>

(* ... and the gateway opens its page, where the guest is sent.            *)
OpenSession(w) ==
  /\ pc[w] = "session"
  /\ order' = [order EXCEPT ![call[w].payment].state = "open"]
  /\ Return(w)
  /\ UNCHANGED <<booking, payment, locks, mailing, tickets, takings, faults>>

(* The gateway does not answer: the payment stays pending; a new booking   *)
(* gets its ticket at once.                                                *)
SessionFails(w) ==
  /\ pc[w] = "session"
  /\ IF call[w].op = "create" THEN SendTicket(call[w].booking) ELSE UNCHANGED tickets
  /\ Return(w)
  /\ UNCHANGED <<booking, payment, order, locks, mailing, takings, faults>>

(* External: the guest pays on the gateway's page, or the card is declined *)
(* (and another tried).                                                    *)
GuestPays(p) ==
  /\ order[p].state \in {"open", "failed"}
  /\ order' = [order EXCEPT ![p] = [@ EXCEPT !.state = "captured", !.captured = payment[p].amount]]
  /\ UNCHANGED <<booking, payment, pc, call, locks, mailing, tickets, takings, faults>>

CardDeclined(p) ==
  /\ "decline" \in Ops /\ order[p].state = "open"
  /\ order' = [order EXCEPT ![p].state = "failed"]
  /\ UNCHANGED <<booking, payment, pc, call, locks, mailing, tickets, takings, faults>>

-----------------------------------------------------------------------------
(* Settlement.                                                             *)

(* A notice, or the guest coming back: the gateway's record is read, and   *)
(* settles the payment, now or later.                                      *)
Notice(w) ==
  /\ w \in Requests
  /\ \E p \in Payments :
       /\ order[p].state \in {"captured", "failed"}
       /\ Begin(w, "payment", [NoCall EXCEPT !.op = "settle", !.booking = payment[p].booking, !.payment = p,
            !.outcome = IF order[p].state = "captured" THEN "paid" ELSE "failed",
            !.amount = order[p].captured])
  /\ UNCHANGED <<booking, payment, order, locks, mailing, tickets, takings, faults>>

(* releaseAbandoned: the grace period of a pending payment has passed.     *)
Sweep(w) ==
  /\ w = Sweeper
  /\ \E p \in Payments :
       /\ payment[p].status = "pending"
       /\ \A u \in Workers : pc[u] = "session" => call[u].payment # p
       /\ Begin(w, "payment", [NoCall EXCEPT !.op = "settle", !.booking = payment[p].booking,
                                             !.payment = p, !.outcome = "cancelled"])
  /\ UNCHANGED <<booking, payment, order, locks, mailing, tickets, takings, faults>>

(* Mutant: an outcome is applied whatever became of the payment.           *)
LockPaymentAgain(w) ==
  /\ pc[w] = "payment" /\ payLock[call[w].payment] = NoWorker
  /\ payLock' = [payLock EXCEPT ![call[w].payment] = w]
  /\ Goto(w, IF call[w].outcome = "paid" THEN "booking" ELSE "commit")
  /\ UNCHANGED <<bookLock, booking, payment, order, mailing, tickets, takings, faults>>

(* settle: the payment locked; an outcome already applied is ignored.      *)
LockPayment(w) ==
  LET p == call[w].payment
  IN  /\ pc[w] = "payment" /\ payLock[p] = NoWorker
      /\ \/ /\ payment[p].status # "pending"
            /\ Return(w) /\ UNCHANGED payLock
         \/ /\ payment[p].status = "pending"
            /\ payLock' = [payLock EXCEPT ![p] = w]
            /\ Goto(w, IF call[w].outcome = "paid" THEN "booking" ELSE "commit")
      /\ UNCHANGED <<bookLock, booking, payment, order, mailing, tickets, takings, faults>>

(* Mutant: the booking is read without its row lock.                       *)
LockBookingUnlocked(w) ==
  LET b == call[w].booking
  IN  /\ pc[w] = "booking"
      /\ call' = [call EXCEPT ![w].from = booking[b].paid]
      /\ pc' = [pc EXCEPT ![w] = IF call[w].op = "settle" THEN "commit" ELSE "lookup"]
      /\ mailing' = IF call[w].op = "settle" THEN mailing \cup {b} ELSE mailing
      /\ UNCHANGED <<locks, booking, payment, order, tickets, takings, faults>>

(* The booking locked and read, to be credited or refunded.  A settlement  *)
(* asks for the ticket here, before its commit.                            *)
LockBooking(w) ==
  LET b == call[w].booking
  IN  /\ pc[w] = "booking" /\ bookLock[b] = NoWorker
      /\ bookLock' = [bookLock EXCEPT ![b] = w]
      /\ call' = [call EXCEPT ![w].from = booking[b].paid]
      /\ pc' = [pc EXCEPT ![w] = IF call[w].op = "settle" THEN "commit" ELSE "lookup"]
      /\ mailing' = IF call[w].op = "settle" THEN mailing \cup {b} ELSE mailing
      /\ UNCHANGED <<payLock, booking, payment, order, tickets, takings, faults>>

(* What a settlement writes: the outcome, the amount really taken, and for *)
(* a payment the booking's credit.                                         *)
Apply(w, outcome) ==
  LET c == call[w]
      amount == IF c.amount > 0 THEN c.amount ELSE payment[c.payment].amount
  IN  /\ payment' = [payment EXCEPT ![c.payment] = [@ EXCEPT !.status = outcome, !.amount = amount]]
      /\ booking' = IF c.outcome = "paid" THEN [booking EXCEPT ![c.booking].paid = c.from + amount]
                    ELSE booking

(* Mutant: the row keeps the gateway's own word for the outcome.           *)
SettleRaw(w) ==
  /\ pc[w] = "commit" /\ call[w].op = "settle"
  /\ Apply(w, order[call[w].payment].state)
  /\ Release(w)
  /\ IF w = Sweeper THEN Goto(w, "after") ELSE Return(w)
  /\ UNCHANGED <<order, mailing, tickets, takings, faults>>

(* Mutant: only a payment changes the row.                                 *)
SettlePaidOnly(w) ==
  /\ pc[w] = "commit" /\ call[w].op = "settle"
  /\ Apply(w, IF call[w].outcome = "paid" THEN "paid" ELSE "pending")
  /\ Release(w)
  /\ IF w = Sweeper THEN Goto(w, "after") ELSE Return(w)
  /\ UNCHANGED <<order, mailing, tickets, takings, faults>>

(* Mutant: the ticket of an abandoned checkout is forgotten.               *)
SettleAndForget(w) ==
  /\ pc[w] = "commit" /\ call[w].op = "settle"
  /\ Apply(w, call[w].outcome)
  /\ Release(w)
  /\ Return(w)
  /\ UNCHANGED <<order, mailing, tickets, takings, faults>>

(* Commit of a settlement; the sweep then sees to the ticket.              *)
Settle(w) ==
  /\ pc[w] = "commit" /\ call[w].op = "settle"
  /\ Apply(w, call[w].outcome)
  /\ Release(w)
  /\ IF w = Sweeper THEN Goto(w, "after") ELSE Return(w)
  /\ UNCHANGED <<order, mailing, tickets, takings, faults>>

(* The ticket a settlement asked for, as the booking reads by then.        *)
Mail(b) ==
  /\ b \in mailing
  /\ mailing' = mailing \ {b}
  /\ SendTicket(b)
  /\ UNCHANGED <<booking, payment, order, pc, call, locks, takings, faults>>

(* After an abandoned checkout: a ticket to pay on arrival, unless one went*)
(* out or the booking is cancelled.                                        *)
TicketOnArrival(w) ==
  LET b == call[w].booking
  IN  /\ pc[w] = "after"
      /\ IF booking[b].status # "cancelled" /\ tickets[b] = {} THEN SendTicket(b) ELSE UNCHANGED tickets
      /\ Return(w)
      /\ UNCHANGED <<booking, payment, order, locks, mailing, takings, faults>>

-----------------------------------------------------------------------------
(* The desk and the gate.                                                  *)

(* recordPayment: one row lock, one commit.                                *)
RecordPayment(w) ==
  /\ w \in Requests /\ pc[w] = "idle"
  /\ \E b \in Bookings, n \in 1..Total :
       /\ booking[b].status \notin {"none", "cancelled"} /\ bookLock[b] = NoWorker
       /\ takings[b] + n <= MaxTakings
       /\ booking' = [booking EXCEPT ![b].paid = @ + n]
       /\ takings' = [takings EXCEPT ![b] = @ + n]
  /\ UNCHANGED <<payment, order, pc, call, locks, mailing, tickets, faults>>

Cancel(b) ==
  /\ "cancel" \in Ops /\ booking[b].status \in {"confirmed", "arrived"} /\ bookLock[b] = NoWorker
  /\ booking' = [booking EXCEPT ![b].status = "cancelled"]
  /\ UNCHANGED <<payment, order, pc, call, locks, mailing, tickets, takings, faults>>

(* A refund: the booking locked, then a paid payment of it with that much  *)
(* left (which of several does not matter here), then the gateway, then    *)
(* the commit.                                                             *)
Refund(w) ==
  /\ "refund" \in Ops /\ w \in Requests
  /\ \E b \in Bookings, n \in 1..Total :
       booking[b].status # "none" /\ Begin(w, "booking", [NoCall EXCEPT !.op = "refund", !.booking = b, !.amount = n])
  /\ UNCHANGED <<booking, payment, order, locks, mailing, tickets, takings, faults>>

(* Mutant: only the payment's amount limits a refund.                      *)
RefundableWhole(w, p) ==
  /\ payment[p].status = "paid" /\ payment[p].booking = call[w].booking
  /\ call[w].amount <= payment[p].amount

(* The payment is paid and has that much left.                             *)
Refundable(w, p) ==
  /\ payment[p].status = "paid" /\ payment[p].booking = call[w].booking
  /\ call[w].amount <= payment[p].amount - payment[p].refunded

FindPayment(w) ==
  /\ pc[w] = "lookup"
  /\ \E p \in Payments :
       /\ Refundable(w, p) /\ payLock[p] = NoWorker
       /\ payLock' = [payLock EXCEPT ![p] = w]
       /\ call' = [call EXCEPT ![w].payment = p]
  /\ pc' = [pc EXCEPT ![w] = "give"]
  /\ UNCHANGED <<bookLock, booking, payment, order, mailing, tickets, takings, faults>>

NothingToRefund(w) ==
  /\ pc[w] = "lookup"
  /\ LET paid == {p \in Payments : payment[p].status = "paid" /\ payment[p].booking = call[w].booking}
     IN  paid = {} \/ \E p \in paid : ~Refundable(w, p)
  /\ Release(w)
  /\ Return(w)
  /\ UNCHANGED <<booking, payment, order, mailing, tickets, takings, faults>>

(* The gateway gives the money back, at once and for good, or refuses.     *)
GiveBack(w) ==
  /\ pc[w] = "give"
  /\ order' = [order EXCEPT ![call[w].payment].returned = @ + call[w].amount]
  /\ Goto(w, "commit")
  /\ UNCHANGED <<booking, payment, locks, mailing, tickets, takings, faults>>

GatewayRefuses(w) ==
  /\ pc[w] = "give"
  /\ Release(w)
  /\ Return(w)
  /\ UNCHANGED <<booking, payment, order, mailing, tickets, takings, faults>>

(* Its answer does not come within 20 s: the transaction rolls back.       *)
AnswerLost(w) ==
  /\ pc[w] = "commit" /\ call[w].op = "refund" /\ faults < MaxFaults
  /\ faults' = faults + 1
  /\ Release(w)
  /\ Return(w)
  /\ UNCHANGED <<booking, payment, order, mailing, tickets, takings>>

CommitRefund(w) ==
  LET c == call[w]
      paid == payment[c.payment]
      refunded == paid.refunded + c.amount
      status == IF refunded >= paid.amount THEN "refunded" ELSE paid.status
  IN  /\ pc[w] = "commit" /\ c.op = "refund"
      /\ payment' = [payment EXCEPT ![c.payment] =
           [@ EXCEPT !.refunded = refunded, !.status = status]]
      /\ booking' = [booking EXCEPT ![c.booking].paid = IF c.from > c.amount THEN c.from - c.amount ELSE 0]
      /\ Release(w)
      /\ Return(w)
      /\ UNCHANGED <<order, mailing, tickets, takings, faults>>

(* The gate reads the booking without a lock and later saves it: of the    *)
(* row, what still differs from a second reading just before.              *)
CheckIn(w) ==
  /\ "gate" \in Ops /\ w \in Requests
  /\ \E b \in Bookings :
       /\ booking[b].status = "confirmed"
       /\ Begin(w, "gate", [NoCall EXCEPT !.op = "gate", !.booking = b, !.from = booking[b].paid])
  /\ UNCHANGED <<booking, payment, order, locks, mailing, tickets, takings, faults>>

SaveArrival(w) ==
  LET b == call[w].booking
  IN  /\ pc[w] = "gate" /\ bookLock[b] = NoWorker
      /\ \E paid \in {booking[b].paid, call[w].from} :
           booking' = [booking EXCEPT ![b] = [status |-> "arrived", paid |-> paid]]
      /\ Return(w)
      /\ UNCHANGED <<payment, order, locks, mailing, tickets, takings, faults>>

(* The server restarts: transactions roll back, what was in memory is gone.*)
Crash ==
  /\ faults < MaxFaults
  /\ faults' = faults + 1
  /\ pc' = [w \in Workers |-> "idle"]
  /\ call' = [w \in Workers |-> NoCall]
  /\ payLock' = [p \in Payments |-> NoWorker]
  /\ bookLock' = [b \in Bookings |-> NoWorker]
  /\ mailing' = {}
  /\ UNCHANGED <<booking, payment, order, tickets, takings>>

Proceed(w) ==
  \/ SavePending(w) \/ OpenSession(w) \/ SessionFails(w)
  \/ LockPayment(w) \/ LockBooking(w) \/ Settle(w) \/ TicketOnArrival(w)
  \/ FindPayment(w) \/ NothingToRefund(w) \/ GiveBack(w) \/ GatewayRefuses(w) \/ AnswerLost(w) \/ CommitRefund(w)
  \/ SaveArrival(w)

Next ==
  \/ \E w \in Workers : \/ CreateOnline(w) \/ PayNow(w) \/ Notice(w) \/ Sweep(w)
                        \/ RecordPayment(w) \/ Refund(w) \/ CheckIn(w) \/ Proceed(w)
  \/ \E b \in Bookings : Mail(b) \/ Cancel(b)
  \/ \E p \in Payments : GuestPays(p) \/ CardDeclined(p)
  \/ Crash

Spec == Init /\ [][Next]_vars

(* Handlers run on, row locks are granted in the order they are asked for, *)
(* the sweep runs every five minutes, a ticket task runs.  Nothing obliges *)
(* a guest to pay or a gateway to send its notices.                        *)
FairSpec ==
  /\ Spec
  /\ \A w \in Workers : SF_vars(Proceed(w))
  /\ WF_vars(Sweep(Sweeper))
  /\ \A b \in Bookings : WF_vars(Mail(b))

-----------------------------------------------------------------------------
(* The properties.                                                         *)

Credited(b) == {p \in Payments : payment[p].booking = b /\ payment[p].status \in {"paid", "refunded"}}
Left == [p \in Payments |-> payment[p].amount - payment[p].refunded]

(* What a booking shows as paid is what the desk took and the gateway      *)
(* captured for it, less what was refunded, whatever settles, is counted   *)
(* or refunded at the same time and however often a notice comes.          *)
PaidIsLedger ==
  \A b \in Bookings : booking[b].paid = takings[b] + SumOf(Credited(b), Left)

(* Money is credited only as it was captured, and what a payment records   *)
(* as given back, in however many refunds, is money the gateway returned   *)
(* and never more than it took.                                            *)
CreditBacked ==
  \A p \in Payments :
    /\ payment[p].status \in {"paid", "refunded"} => payment[p].amount = order[p].captured
    /\ payment[p].refunded <= order[p].returned
    /\ payment[p].refunded <= payment[p].amount

(* "Applies an outcome exactly once": a payment once settled keeps its     *)
(* outcome; only a paid one can become refunded.                           *)
SettledOnce ==
  [][\A p \in Payments : payment[p].status \notin {"none", "pending"} =>
       \/ payment'[p].status = payment[p].status
       \/ payment[p].status = "paid" /\ payment'[p].status = "refunded"]_vars

(* The workers, with their locks, their calls and what gets lost of them,  *)
(* are the accounts of PaymentAccounts: a checkout is credited to its      *)
(* booking, given up or refunded in single steps, each by exactly what the *)
(* gateway took or gave back, and a booking's row moves in no other way.   *)
Shown == [b \in Bookings |-> booking[b].paid]
Captured == [p \in Payments |-> order[p].captured]
Returned == [p \in Payments |-> order[p].returned]

Accounts == INSTANCE PaymentAccounts WITH
  Price <- Total, shown <- Shown, cash <- takings, checkout <- payment,
  captured <- Captured, returned <- Returned

ImplementsAccounts == Accounts!Spec

(* No checkout stays pending for ever, paid for or not.                    *)
PendingSettles ==
  \A p \in Payments : payment[p].status = "pending" ~> payment[p].status # "pending"

(* "hold the ticket until the money arrives (...) or as pay-on-arrival     *)
(* once the checkout is abandoned": every online booking gets a ticket,    *)
(* unless it is cancelled first, a card is declined or the server restarts.*)
TicketArrives ==
  \A b \in Bookings :
    booking[b].status = "confirmed" ~>
      \/ tickets[b] # {}
      \/ booking[b].status = "cancelled"
      \/ \E p \in Payments : payment[p].booking = b /\ payment[p].status = "failed"
      \/ faults > 0

(* "with the booking's paid_amount kept in step": money captured at the    *)
(* gateway is credited, provided its notice comes.                         *)
CaptureCredited ==
  \A p \in Payments : order[p].state = "captured" ~> payment[p].status \in {"paid", "refunded"}

(* The gateway's notices do come.                                          *)
NoticeFairSpec == FairSpec /\ \A w \in Requests : SF_vars(Notice(w))

=============================================================================
