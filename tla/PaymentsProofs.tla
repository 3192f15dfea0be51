--------------------------- MODULE PaymentsProofs ---------------------------
(***************************************************************************)
(* Payments is type correct, credits only what was captured, and applies   *)
(* each outcome once, for any number of bookings, payments and workers.    *)
(*                                                                         *)
(* The invariant ties what a worker carries to the rows and to the         *)
(* gateway's orders: a settlement past its lock holds a payment that is    *)
(* still pending, a refund past its choice holds a paid one with enough    *)
(* left, and what a notice said of a captured order stays true.            *)
(***************************************************************************)
EXTENDS Payments, SumsProofs, TLAPS

(* What a worker carries.                                                  *)
Carries(w) ==
  /\ pc[w] \in {"save", "session"} => call[w].payment \in Payments /\ call[w].amount > 0
  /\ pc[w] \in {"payment", "booking", "lookup", "give", "commit"} => call[w].op \in {"settle", "refund"}
  /\ pc[w] = "payment" => call[w].op = "settle"
  /\ pc[w] \in {"lookup", "give"} => call[w].op = "refund"
  /\ pc[w] = "booking" /\ call[w].op = "settle" => call[w].outcome = "paid"
  /\ pc[w] \in {"give", "commit"} => call[w].payment \in Payments

(* What a settlement knows: a captured order and its amount, or nothing.   *)
Told(w) ==
  call[w].op = "settle" =>
    /\ call[w].payment \in Payments
    /\ call[w].outcome # "none"
    /\ call[w].outcome = "paid" =>
         /\ order[call[w].payment].state = "captured"
         /\ call[w].amount = order[call[w].payment].captured
    /\ call[w].outcome # "paid" => call[w].amount = 0

(* A settlement past its lock.                                             *)
Settling(w) ==
  pc[w] \in {"booking", "commit"} /\ call[w].op = "settle" =>
    payLock[call[w].payment] = w /\ payment[call[w].payment].status = "pending"

(* A refund past its choice.                                               *)
Refunding(w) ==
  pc[w] \in {"give", "commit"} /\ call[w].op = "refund" =>
    /\ payLock[call[w].payment] = w
    /\ payment[call[w].payment].status = "paid"
    /\ call[w].amount <= payment[call[w].payment].amount - payment[call[w].payment].refunded
    /\ pc[w] = "commit" =>
         payment[call[w].payment].refunded + call[w].amount <= order[call[w].payment].returned

(* A checkout being opened has its payment for itself.                     *)
Opening(w) ==
  pc[w] \in {"save", "session"} =>
    /\ order[call[w].payment].state = "none"
    /\ pc[w] = "save" => payment[call[w].payment].status = "none"
    /\ pc[w] = "session" => payment[call[w].payment].status # "none"
    /\ \A u \in Workers \ {w} : call[u].payment # call[w].payment

(* A payments row beside the gateway's order.                              *)
Backed(p) ==
  /\ payment[p].status = "none" => order[p].state = "none"
  /\ payment[p].status # "none" => payment[p].amount > 0
  /\ payment[p].status \notin {"paid", "refunded"} => payment[p].refunded = 0
  /\ payment[p].status \in {"paid", "refunded"} =>
       order[p].state = "captured" /\ payment[p].amount = order[p].captured
  /\ IF order[p].state = "captured" THEN order[p].captured > 0 ELSE order[p].captured = 0
  /\ payment[p].refunded <= order[p].returned
  /\ payment[p].refunded <= payment[p].amount

WorkersInv == \A w \in Workers : Carries(w) /\ Told(w) /\ Settling(w) /\ Refunding(w) /\ Opening(w)

PaymentsInv == TypeOK /\ WorkersInv /\ \A p \in Payments : Backed(p)


-----------------------------------------------------------------------------
(* Types.                                                                  *)

LEMMA NoCallType == NoCall \in Call /\ NoCall.op = "none" /\ NoCall.payment = NoPayment
  <1>1. (CHOOSE b \in Bookings : TRUE) \in Bookings
    BY PaymentsAssumption
  <1> QED BY <1>1 DEF NoCall, Call

LEMMA Fields ==
  ASSUME TypeOK
  PROVE  /\ \A b \in Bookings : booking[b] \in BookingRow /\ booking[b].paid \in Nat
         /\ \A p \in Payments : /\ payment[p] \in PaymentRow /\ payment[p].booking \in Bookings
                               /\ payment[p].amount \in Nat /\ payment[p].refunded \in Nat
         /\ \A p \in Payments : order[p] \in Order /\ order[p].captured \in Nat /\ order[p].returned \in Nat
         /\ \A w \in Workers : /\ call[w] \in Call /\ call[w].booking \in Bookings
                              /\ call[w].amount \in Nat /\ call[w].from \in Nat
  BY DEF TypeOK, BookingRow, PaymentRow, Order, Call

(* What a handler may begin with, and what ends a transaction.             *)
LEMMA BeginType ==
  ASSUME NEW w \in Workers, NEW step, NEW c \in Call, TypeOK, Begin(w, step, c),
         step \in {"save", "payment", "booking", "gate"}
  PROVE  /\ pc' \in [Workers -> Step]
         /\ call' \in [Workers -> Call]
  BY DEF TypeOK, Begin, Step

LEMMA ReturnType ==
  ASSUME NEW w \in Workers, TypeOK, Return(w)
  PROVE  /\ pc' \in [Workers -> Step]
         /\ call' \in [Workers -> Call]
  BY NoCallType DEF TypeOK, Return, Step

LEMMA ReleaseType ==
  ASSUME NEW w \in Workers, TypeOK, Release(w)
  PROVE  /\ payLock' \in [Payments -> Workers \cup {NoWorker}]
         /\ bookLock' \in [Bookings -> Workers \cup {NoWorker}]
  BY DEF TypeOK, Release

LEMMA TicketType ==
  ASSUME NEW b \in Bookings, TypeOK, SendTicket(b) \/ UNCHANGED tickets
  PROVE  tickets' \in [Bookings -> SUBSET Nat]
<1>1. booking[b].paid \in Nat
  BY Fields
<1> QED BY <1>1 DEF TypeOK, SendTicket

LEMMA TypeInit == Init => TypeOK
<1>1. NoCall.booking \in Bookings
  BY NoCallType DEF Call
<1>2. Init => payment \in [Payments -> PaymentRow] /\ booking \in [Bookings -> BookingRow]
  BY <1>1 DEF Init, PaymentRow, BookingRow
<1> QED BY <1>2, NoCallType, PaymentsAssumption DEF Init, TypeOK, Order, Step

LEMMA TypeStep == PaymentsInv /\ [Next]_vars => TypeOK'
<1> SUFFICES ASSUME PaymentsInv, [Next]_vars PROVE TypeOK'
  OBVIOUS
<1> USE PaymentsAssumption DEF locks
<1>0. TypeOK /\ WorkersInv /\ \A p \in Payments : Backed(p)
  BY DEF PaymentsInv
<1> USE Fields
<1>1. ASSUME NEW w \in Workers, CreateOnline(w) PROVE TypeOK'
  <2>1. PICK b \in Bookings, p \in Payments :
          /\ booking' = [booking EXCEPT ![b].status = "confirmed"]
          /\ Begin(w, "save", [NoCall EXCEPT !.op = "create", !.booking = b, !.payment = p, !.amount = Total])
    BY <1>1 DEF CreateOnline
  <2>2. [NoCall EXCEPT !.op = "create", !.booking = b, !.payment = p, !.amount = Total] \in Call
    BY NoCallType DEF Call
  <2>3. booking' \in [Bookings -> BookingRow]
    BY <1>0, <2>1 DEF TypeOK, BookingRow
  <2> QED BY <1>0, <1>1, <2>1, <2>2, <2>3, BeginType DEF TypeOK, CreateOnline
<1>2. ASSUME NEW w \in Workers, PayNow(w) PROVE TypeOK'
  <2>1. PICK b \in Bookings, p \in Payments :
          /\ booking[b].paid < Total
          /\ Begin(w, "save", [NoCall EXCEPT !.op = "payNow", !.booking = b, !.payment = p,
                                             !.amount = Total - booking[b].paid])
    BY <1>2 DEF PayNow
  <2>2. Total - booking[b].paid \in Nat
    BY <1>0, <2>1 DEF TypeOK
  <2>3. [NoCall EXCEPT !.op = "payNow", !.booking = b, !.payment = p,
                       !.amount = Total - booking[b].paid] \in Call
    BY NoCallType, <2>2 DEF Call
  <2> QED BY <1>0, <1>2, <2>1, <2>3, BeginType DEF TypeOK, PayNow
<1>3. ASSUME NEW w \in Workers, Notice(w) PROVE TypeOK'
  <2> DEFINE c(p) == [NoCall EXCEPT !.op = "settle", !.booking = payment[p].booking, !.payment = p,
                        !.outcome = IF order[p].state = "captured" THEN "paid" ELSE "failed",
                        !.amount = order[p].captured]
  <2>1. PICK p \in Payments : Begin(w, "payment", c(p))
    BY <1>3 DEF Notice
  <2>2. payment[p].booking \in Bookings /\ order[p].captured \in Nat
    BY <1>0 DEF TypeOK
  <2>3. c(p) \in Call
    BY NoCallType, <2>2 DEF Call
  <2> HIDE DEF c
  <2> QED BY <1>0, <1>3, <2>1, <2>3, BeginType DEF TypeOK, Notice
<1>4. ASSUME NEW w \in Workers, Sweep(w) PROVE TypeOK'
  <2> DEFINE c(p) == [NoCall EXCEPT !.op = "settle", !.booking = payment[p].booking,
                                    !.payment = p, !.outcome = "cancelled"]
  <2>1. PICK p \in Payments : Begin(w, "payment", c(p))
    BY <1>4 DEF Sweep
  <2>2. payment[p].booking \in Bookings
    BY <1>0 DEF TypeOK
  <2>3. c(p) \in Call
    BY NoCallType, <2>2 DEF Call
  <2> HIDE DEF c
  <2> QED BY <1>0, <1>4, <2>1, <2>3, BeginType DEF TypeOK, Sweep
<1>5. ASSUME NEW w \in Workers, RecordPayment(w) PROVE TypeOK'
  <2>1. PICK b \in Bookings, n \in 1..Total :
          /\ booking' = [booking EXCEPT ![b].paid = @ + n]
          /\ takings' = [takings EXCEPT ![b] = @ + n]
    BY <1>5 DEF RecordPayment
  <2>2. booking' \in [Bookings -> BookingRow] /\ takings' \in [Bookings -> Nat]
    BY <1>0, <2>1, SMTT(30) DEF TypeOK, BookingRow
  <2> QED BY <1>0, <1>5, <2>2 DEF TypeOK, RecordPayment
<1>6. ASSUME NEW w \in Workers, Refund(w) PROVE TypeOK'
  <2> DEFINE c(b, n) == [NoCall EXCEPT !.op = "refund", !.booking = b, !.amount = n]
  <2>1. PICK b \in Bookings, n \in 1..Total : Begin(w, "booking", c(b, n))
    BY <1>6 DEF Refund
  <2>2. n \in Nat
    OBVIOUS
  <2>3. c(b, n) \in Call
    BY NoCallType, <2>2 DEF Call
  <2> HIDE DEF c
  <2> QED BY <1>0, <1>6, <2>1, <2>3, BeginType DEF TypeOK, Refund
<1>7. ASSUME NEW w \in Workers, CheckIn(w) PROVE TypeOK'
  <2> DEFINE c(b) == [NoCall EXCEPT !.op = "gate", !.booking = b, !.from = booking[b].paid]
  <2>1. PICK b \in Bookings : Begin(w, "gate", c(b))
    BY <1>7 DEF CheckIn
  <2>2. c(b) \in Call
    BY NoCallType, <1>0 DEF Call, TypeOK
  <2> HIDE DEF c
  <2> QED BY <1>0, <1>7, <2>1, <2>2, BeginType DEF TypeOK, CheckIn
<1>8. ASSUME NEW w \in Workers, Proceed(w) PROVE TypeOK'
  <2> USE <1>0
  <2>0. call[w] \in Call /\ call[w].booking \in Bookings /\ call[w].amount \in Nat /\ call[w].from \in Nat
    BY DEF TypeOK, Call
  <2>1. CASE SavePending(w)
    <3>1. [status |-> "pending", booking |-> call[w].booking, amount |-> call[w].amount, refunded |-> 0] \in PaymentRow
      BY <2>0 DEF PaymentRow
    <3>2. payment' \in [Payments -> PaymentRow]
      BY <2>1, <3>1 DEF SavePending, TypeOK
    <3> QED BY <2>1, <3>2 DEF TypeOK, SavePending, Goto, Step
  <2>2. CASE OpenSession(w)
    <3>1. order' \in [Payments -> Order]
      BY <2>2 DEF OpenSession, TypeOK, Order
    <3> QED BY <2>2, <3>1, ReturnType DEF TypeOK, OpenSession
  <2>3. CASE SessionFails(w)
    BY <2>0, <2>3, ReturnType, TicketType DEF TypeOK, SessionFails
  <2>4. CASE LockPayment(w)
    <3>1. payLock' \in [Payments -> Workers \cup {NoWorker}]
      BY <2>4 DEF TypeOK, LockPayment
    <3>2. pc' \in [Workers -> Step] /\ call' \in [Workers -> Call]
      BY <2>4, ReturnType DEF TypeOK, LockPayment, Goto, Step
    <3> QED BY <2>4, <3>1, <3>2 DEF TypeOK, LockPayment
  <2>5. CASE LockBooking(w)
    <3>1. call' = [call EXCEPT ![w].from = booking[call[w].booking].paid]
          /\ booking[call[w].booking].paid \in Nat
      BY <2>0, <2>5 DEF LockBooking, TypeOK
    <3>2. [call[w] EXCEPT !.from = booking[call[w].booking].paid] \in Call
      BY <2>0, <3>1 DEF Call
    <3>3. call' \in [Workers -> Call]
      BY <3>1, <3>2 DEF TypeOK
    <3> QED BY <2>0, <2>5, <3>3 DEF TypeOK, LockBooking, Step
  <2>6. CASE Settle(w)
    <3> DEFINE p == call[w].payment
    <3>1. p \in Payments /\ call[w].outcome \in {"paid", "failed", "cancelled"}
      BY <2>0, <2>6 DEF WorkersInv, Told, Settle, Call
    <3>2. (IF call[w].amount > 0 THEN call[w].amount ELSE payment[p].amount) \in Nat
      BY <2>0, <3>1 DEF TypeOK
    <3>3. PICK a \in Nat : payment' = [payment EXCEPT ![p] = [@ EXCEPT !.status = call[w].outcome, !.amount = a]]
      BY <2>6, <3>2 DEF Settle, Apply
    <3>4. [payment[p] EXCEPT !.status = call[w].outcome, !.amount = a] \in PaymentRow
      BY <3>1 DEF PaymentRow
    <3>5. payment' \in [Payments -> PaymentRow]
      BY <3>3, <3>4 DEF TypeOK
    <3>6. booking' \in [Bookings -> BookingRow]
      BY <2>0, <2>6, <3>1, <3>2, SMTT(30) DEF TypeOK, Settle, Apply, BookingRow
    <3>7. pc' \in [Workers -> Step] /\ call' \in [Workers -> Call]
      BY <2>6, ReturnType DEF Settle, Goto, TypeOK, Step
    <3> QED BY <2>6, <3>5, <3>6, <3>7, ReleaseType DEF TypeOK, Settle
  <2>7. CASE TicketOnArrival(w)
    BY <2>0, <2>7, ReturnType, TicketType DEF TypeOK, TicketOnArrival
  <2>8. CASE FindPayment(w)
    <3>1. PICK p \in Payments : payLock' = [payLock EXCEPT ![p] = w] /\ call' = [call EXCEPT ![w].payment = p]
      BY <2>8 DEF FindPayment
    <3>2. [call[w] EXCEPT !.payment = p] \in Call
      BY <2>0 DEF Call
    <3>3. call' \in [Workers -> Call]
      BY <3>1, <3>2 DEF TypeOK
    <3> QED BY <2>8, <3>1, <3>3 DEF TypeOK, FindPayment, Step
  <2>9. CASE NothingToRefund(w)
    BY <2>9, ReturnType, ReleaseType DEF TypeOK, NothingToRefund
  <2>10. CASE GiveBack(w)
    <3>1. call[w].payment \in Payments
      BY <2>10 DEF GiveBack, WorkersInv, Carries
    <3>2. order[call[w].payment].returned + call[w].amount \in Nat
      BY <2>0, <3>1
    <3>3. order' \in [Payments -> Order]
      BY <2>10, <3>1, <3>2 DEF GiveBack, TypeOK, Order
    <3> QED BY <2>10, <3>3 DEF TypeOK, GiveBack, Goto, Step
  <2>11. CASE GatewayRefuses(w)
    BY <2>11, ReturnType, ReleaseType DEF TypeOK, GatewayRefuses
  <2>12. CASE AnswerLost(w)
    BY <2>12, ReturnType, ReleaseType DEF TypeOK, AnswerLost
  <2>13. CASE CommitRefund(w)
    <3> DEFINE n == payment[call[w].payment].refunded + call[w].amount
               s == IF n >= payment[call[w].payment].amount THEN "refunded" ELSE payment[call[w].payment].status
    <3>1. call[w].payment \in Payments
      BY <2>13 DEF CommitRefund, WorkersInv, Carries
    <3>2. n \in Nat
      BY <2>0, <3>1 DEF TypeOK
    <3>3. (IF call[w].from > call[w].amount THEN call[w].from - call[w].amount ELSE 0) \in Nat
      BY <2>0
    <3>4. payment' = [payment EXCEPT ![call[w].payment] = [@ EXCEPT !.refunded = n, !.status = s]]
      BY <2>13 DEF CommitRefund
    <3> HIDE DEF n
    <3>5. [payment[call[w].payment] EXCEPT !.refunded = n, !.status = s] \in PaymentRow
      BY <3>1, <3>2 DEF PaymentRow
    <3>6. payment' \in [Payments -> PaymentRow]
      BY <3>4, <3>5 DEF TypeOK
    <3>7. booking' \in [Bookings -> BookingRow]
      BY <2>0, <2>13, <3>3 DEF TypeOK, CommitRefund, BookingRow
    <3> QED BY <2>13, <3>6, <3>7, ReturnType, ReleaseType DEF TypeOK, CommitRefund
  <2>14. CASE SaveArrival(w)
    <3>1. booking' \in [Bookings -> BookingRow]
      BY <2>0, <2>14 DEF SaveArrival, TypeOK, BookingRow
    <3> QED BY <2>14, <3>1, ReturnType DEF TypeOK, SaveArrival
  <2> QED BY <1>8, <2>1, <2>2, <2>3, <2>4, <2>5, <2>6, <2>7, <2>8, <2>9, <2>10, <2>11, <2>12, <2>13, <2>14
          DEF Proceed
<1>9. ASSUME NEW b \in Bookings, Mail(b) PROVE TypeOK'
  BY <1>0, <1>9, TicketType DEF TypeOK, Mail
<1>10. ASSUME NEW b \in Bookings, Cancel(b) PROVE TypeOK'
  BY <1>0, <1>10 DEF TypeOK, Cancel, BookingRow
<1>11. ASSUME NEW p \in Payments, GuestPays(p) \/ CardDeclined(p) PROVE TypeOK'
  <2>1. [order[p] EXCEPT !.state = "captured", !.captured = payment[p].amount] \in Order
    BY <1>0 DEF Order
  <2>2. order' \in [Payments -> Order]
    <3>1. CASE GuestPays(p)
      BY <1>0, <2>1, <3>1 DEF TypeOK, GuestPays
    <3>2. CASE CardDeclined(p)
      BY <1>0, <3>2 DEF TypeOK, CardDeclined, Order
    <3> QED BY <1>11, <3>1, <3>2
  <2> QED BY <1>0, <1>11, <2>2 DEF TypeOK, GuestPays, CardDeclined
<1>12. CASE Crash
  BY <1>0, <1>12, NoCallType DEF TypeOK, Crash, Step
<1>13. CASE UNCHANGED vars
  BY <1>0, <1>13 DEF TypeOK, vars
<1> QED BY <1>1, <1>2, <1>3, <1>4, <1>5, <1>6, <1>7, <1>8, <1>9, <1>10, <1>11, <1>12, <1>13 DEF Next

-----------------------------------------------------------------------------
(* What a step leaves to the workers that do not take it.                  *)

WorkerInv(u) == Carries(u) /\ Told(u) /\ Settling(u) /\ Refunding(u) /\ Opening(u)

(* The payment is in the hands of u: it opens it, or has locked it.        *)
Holds(u, p) == call[u].payment = p /\ (pc[u] \in {"save", "session"} \/ payLock[p] = u)

(* A worker that takes no step keeps its part of the invariant as long as  *)
(* what was captured stays captured, and nobody touches the payment it has *)
(* locked or is opening.                                                   *)
LEMMA Undisturbed ==
  ASSUME NEW u \in Workers, TypeOK, WorkerInv(u), pc'[u] = pc[u], call'[u] = call[u],
         \A p \in Payments : order[p].state = "captured" =>
           order'[p].state = "captured" /\ order'[p].captured = order[p].captured,
         \A p \in Payments : Holds(u, p) => payment'[p] = payment[p] /\ order'[p] = order[p],
         \A p \in Payments : payLock[p] = u => payLock'[p] = u,
         pc[u] \in {"save", "session"} => \A v \in Workers \ {u} : call'[v].payment # call[u].payment
  PROVE  WorkerInv(u)'
<1>1. Carries(u)'
  BY DEF WorkerInv, Carries
<1>2. Told(u)'
  BY DEF WorkerInv, Told
<1>3. Settling(u)'
  BY DEF WorkerInv, Settling, Told, Holds
<1>4. Refunding(u)'
  BY DEF WorkerInv, Refunding, Carries, Holds
<1>5. Opening(u)'
  BY DEF WorkerInv, Opening, Carries, Holds
<1> QED BY <1>1, <1>2, <1>3, <1>4, <1>5 DEF WorkerInv

(* A step that touches no payment, order or worker.                        *)
LEMMA Quiet ==
  ASSUME PaymentsInv, UNCHANGED <<payment, order, pc, call, payLock>>
  PROVE  WorkersInv' /\ \A p \in Payments : Backed(p)'
<1>1. \A p \in Payments : Backed(p)'
  BY DEF PaymentsInv, Backed
<1>2. ASSUME NEW u \in Workers PROVE WorkerInv(u)'
  BY DEF PaymentsInv, WorkersInv, WorkerInv, Carries, Told, Settling, Refunding, Opening
<1> QED BY <1>1, <1>2 DEF WorkersInv, WorkerInv

(* A worker is done, committed or not, with nothing left to write.         *)
LEMMA Ends ==
  ASSUME PaymentsInv, NEW w \in Workers, Return(w), Release(w) \/ UNCHANGED payLock, UNCHANGED <<payment, order>>
  PROVE  WorkersInv' /\ \A p \in Payments : Backed(p)'
<1>1. \A p \in Payments : Backed(p)'
  BY DEF PaymentsInv, Backed
<1>2. pc'[w] = "idle" /\ call'[w] = NoCall
  BY DEF Return, PaymentsInv, TypeOK
<1>3. WorkerInv(w)'
  BY <1>2, NoCallType DEF WorkerInv, Carries, Told, Settling, Refunding, Opening
<1>4. ASSUME NEW u \in Workers \ {w} PROVE WorkerInv(u)'
  <2>1. pc'[u] = pc[u] /\ call'[u] = call[u]
    BY DEF Return, PaymentsInv, TypeOK
  <2>2. \A p \in Payments : payLock[p] = u => payLock'[p] = u
    BY DEF Release
  <2>3. pc[u] \in {"save", "session"} => \A v \in Workers \ {u} : call'[v].payment # call[u].payment
    BY <1>2, NoCallType, PaymentsAssumption DEF Return, PaymentsInv, TypeOK, WorkersInv, Opening, Carries
  <2> QED BY <2>1, <2>2, <2>3, Undisturbed DEF PaymentsInv, WorkersInv, WorkerInv
<1> QED BY <1>1, <1>3, <1>4 DEF WorkersInv, WorkerInv

(* A worker begins a handler, with what its request or the sweep knows, on *)
(* a payment nobody is opening.                                            *)
LEMMA Begins ==
  ASSUME PaymentsInv, NEW w \in Workers, NEW step, NEW c \in Call, Begin(w, step, c),
         UNCHANGED <<payment, order, payLock>>,
         \A u \in Workers \ {w} : pc[u] \in {"save", "session"} => c.payment # call[u].payment,
         \/ /\ step = "save" /\ c.op # "settle" /\ c.amount > 0
            /\ c.payment \in Payments /\ Unused(c.payment)
         \/ /\ step = "payment" /\ c.op = "settle" /\ c.payment \in Payments /\ c.outcome # "none"
            /\ c.outcome = "paid" =>
                 order[c.payment].state = "captured" /\ c.amount = order[c.payment].captured
            /\ c.outcome # "paid" => c.amount = 0
         \/ step = "booking" /\ c.op = "refund"
         \/ step = "gate" /\ c.op = "gate"
  PROVE  WorkersInv' /\ \A p \in Payments : Backed(p)'
<1>1. \A p \in Payments : Backed(p)'
  BY DEF PaymentsInv, Backed
<1>2. pc'[w] = step /\ call'[w] = c
  BY DEF Begin, PaymentsInv, TypeOK
<1>3. ASSUME NEW u \in Workers \ {w} PROVE pc'[u] = pc[u] /\ call'[u] = call[u]
  BY DEF Begin, PaymentsInv, TypeOK
<1>4. WorkerInv(w)'
  <2>1. Carries(w)' /\ Told(w)' /\ Settling(w)' /\ Refunding(w)'
    BY <1>2 DEF Carries, Told, Settling, Refunding
  <2>2. Opening(w)'
    BY <1>2, <1>3 DEF Opening, Unused, PaymentsInv, Backed
  <2> QED BY <2>1, <2>2 DEF WorkerInv
<1>5. ASSUME NEW u \in Workers \ {w} PROVE WorkerInv(u)'
  <2>1. pc[u] \in {"save", "session"} => \A v \in Workers \ {u} : call'[v].payment # call[u].payment
    BY <1>2, <1>3 DEF PaymentsInv, WorkersInv, Opening
  <2> QED BY <1>3, <2>1, Undisturbed DEF PaymentsInv, WorkersInv, WorkerInv
<1> QED BY <1>1, <1>4, <1>5 DEF WorkersInv, WorkerInv

-----------------------------------------------------------------------------
(* The steps.                                                              *)

(* Handlers begin.                                                         *)
LEMMA BeginSteps ==
  ASSUME PaymentsInv, NEW w \in Workers,
         CreateOnline(w) \/ PayNow(w) \/ Notice(w) \/ Sweep(w) \/ Refund(w) \/ CheckIn(w)
  PROVE  WorkersInv' /\ \A p \in Payments : Backed(p)'
<1> USE Fields, NoCallType, PaymentsAssumption DEF locks
<1>0. TypeOK /\ (\A u \in Workers : Carries(u) /\ Opening(u)) /\ \A p \in Payments : Backed(p)
  BY DEF PaymentsInv, WorkersInv
<1>1. CASE CreateOnline(w)
  <2> DEFINE c(b, p) == [NoCall EXCEPT !.op = "create", !.booking = b, !.payment = p, !.amount = Total]
  <2>1. PICK b \in Bookings, p \in Payments : Unused(p) /\ Begin(w, "save", c(b, p))
    BY <1>1 DEF CreateOnline
  <2>2. Total \in Nat /\ Total > 0
    OBVIOUS
  <2>3. c(b, p) \in Call /\ c(b, p).op = "create" /\ c(b, p).amount > 0 /\ c(b, p).payment = p
    BY <2>2 DEF Call
  <2>4. \A u \in Workers \ {w} : p # call[u].payment
    BY <2>1 DEF Unused
  <2> HIDE DEF c
  <2> QED BY <1>1, <2>1, <2>3, <2>4, Begins, ZenonT(60) DEF CreateOnline
<1>2. CASE PayNow(w)
  <2> DEFINE c(b, p) == [NoCall EXCEPT !.op = "payNow", !.booking = b, !.payment = p,
                                       !.amount = Total - booking[b].paid]
  <2>1. PICK b \in Bookings, p \in Payments : booking[b].paid < Total /\ Unused(p) /\ Begin(w, "save", c(b, p))
    BY <1>2 DEF PayNow
  <2>2. Total - booking[b].paid \in Nat /\ Total - booking[b].paid > 0
    BY <1>0, <2>1
  <2>3. c(b, p) \in Call /\ c(b, p).op = "payNow" /\ c(b, p).amount > 0 /\ c(b, p).payment = p
    BY <2>2 DEF Call
  <2>4. \A u \in Workers \ {w} : p # call[u].payment
    BY <2>1 DEF Unused
  <2> HIDE DEF c
  <2> QED BY <1>2, <2>1, <2>3, <2>4, Begins, ZenonT(60) DEF PayNow
<1>3. CASE Notice(w)
  <2> DEFINE c(p) == [NoCall EXCEPT !.op = "settle", !.booking = payment[p].booking, !.payment = p,
                        !.outcome = IF order[p].state = "captured" THEN "paid" ELSE "failed",
                        !.amount = order[p].captured]
  <2>1. PICK p \in Payments : order[p].state \in {"captured", "failed"} /\ Begin(w, "payment", c(p))
    BY <1>3 DEF Notice
  <2>2. /\ c(p) \in Call /\ c(p).op = "settle" /\ c(p).payment = p /\ c(p).amount = order[p].captured
        /\ c(p).outcome = IF order[p].state = "captured" THEN "paid" ELSE "failed"
    BY <1>0 DEF Call
  <2>3. order[p].state # "captured" => order[p].captured = 0
    BY <1>0 DEF Backed
  <2>4. \A u \in Workers \ {w} : pc[u] \in {"save", "session"} => p # call[u].payment
    BY <1>0, <2>1 DEF Opening
  <2> HIDE DEF c
  <2> QED BY <1>3, <2>1, <2>2, <2>3, <2>4, Begins DEF Notice
<1>4. CASE Sweep(w)
  <2> DEFINE c(p) == [NoCall EXCEPT !.op = "settle", !.booking = payment[p].booking,
                                    !.payment = p, !.outcome = "cancelled"]
  <2>1. PICK p \in Payments :
          /\ payment[p].status = "pending"
          /\ \A u \in Workers : pc[u] = "session" => call[u].payment # p
          /\ Begin(w, "payment", c(p))
    BY <1>4 DEF Sweep
  <2>2. c(p) \in Call /\ c(p).op = "settle" /\ c(p).payment = p /\ c(p).amount = 0 /\ c(p).outcome = "cancelled"
    BY <1>0 DEF Call, NoCall
  <2>3. \A u \in Workers \ {w} : pc[u] \in {"save", "session"} => p # call[u].payment
    BY <1>0, <2>1 DEF Opening
  <2> HIDE DEF c
  <2> QED BY <1>4, <2>1, <2>2, <2>3, Begins, ZenonT(60) DEF Sweep
<1>5. CASE Refund(w)
  <2> DEFINE c(b, n) == [NoCall EXCEPT !.op = "refund", !.booking = b, !.amount = n]
  <2>1. PICK b \in Bookings, n \in 1..Total : Begin(w, "booking", c(b, n))
    BY <1>5 DEF Refund
  <2>2. n \in Nat
    OBVIOUS
  <2>3. c(b, n) \in Call /\ c(b, n).op = "refund" /\ c(b, n).payment = NoPayment
    BY <2>2 DEF Call
  <2>4. \A u \in Workers \ {w} : pc[u] \in {"save", "session"} => NoPayment # call[u].payment
    BY <1>0 DEF Carries
  <2> HIDE DEF c
  <2> QED BY <1>5, <2>1, <2>3, <2>4, Begins DEF Refund
<1>6. CASE CheckIn(w)
  <2> DEFINE c(b) == [NoCall EXCEPT !.op = "gate", !.booking = b, !.from = booking[b].paid]
  <2>1. PICK b \in Bookings : Begin(w, "gate", c(b))
    BY <1>6 DEF CheckIn
  <2>2. c(b) \in Call /\ c(b).op = "gate" /\ c(b).payment = NoPayment
    BY <1>0 DEF Call
  <2>3. \A u \in Workers \ {w} : pc[u] \in {"save", "session"} => NoPayment # call[u].payment
    BY <1>0 DEF Carries
  <2> HIDE DEF c
  <2> QED BY <1>6, <2>1, <2>2, <2>3, Begins DEF CheckIn
<1> QED BY <1>1, <1>2, <1>3, <1>4, <1>5, <1>6

(* A payments row or an order is written by a worker, and is in the hands  *)
(* of no other.                                                            *)
LEMMA OneRow ==
  ASSUME PaymentsInv, NEW w \in Workers, NEW p \in Payments,
         \A u \in Workers \ {w} : pc'[u] = pc[u] /\ call'[u] = call[u] /\ ~Holds(u, p),
         call'[w].payment \in {call[w].payment, p, NoPayment},
         \A q \in Payments \ {p} : payment'[q] = payment[q] /\ order'[q] = order[q],
         order[p].state = "captured" => order'[p].state = "captured" /\ order'[p].captured = order[p].captured,
         \A q \in Payments, u \in Workers \ {w} : payLock[q] = u => payLock'[q] = u,
         WorkerInv(w)',
         Backed(p)'
  PROVE  WorkersInv' /\ \A q \in Payments : Backed(q)'
<1> USE PaymentsAssumption
<1>1. \A q \in Payments \ {p} : Backed(q)'
  BY DEF PaymentsInv, Backed
<1>2. ASSUME NEW u \in Workers \ {w} PROVE WorkerInv(u)'
  <2>1. pc[u] \in {"save", "session"} => \A v \in Workers \ {u} : call'[v].payment # call[u].payment
    BY DEF PaymentsInv, WorkersInv, Carries, Opening, Holds
  <2>2. \A q \in Payments : Holds(u, q) => payment'[q] = payment[q] /\ order'[q] = order[q]
    OBVIOUS
  <2>3. \A q \in Payments : order[q].state = "captured" =>
          order'[q].state = "captured" /\ order'[q].captured = order[q].captured
    OBVIOUS
  <2> QED BY <2>1, <2>2, <2>3, Undisturbed DEF PaymentsInv, WorkersInv, WorkerInv
<1> QED BY <1>1, <1>2 DEF WorkersInv, WorkerInv

(* Opening a checkout.                                                     *)
LEMMA OpenSteps ==
  ASSUME PaymentsInv, NEW w \in Workers, SavePending(w) \/ OpenSession(w)
  PROVE  WorkersInv' /\ \A p \in Payments : Backed(p)'
<1> USE Fields, NoCallType, PaymentsAssumption DEF locks
<1>0. TypeOK /\ WorkerInv(w) /\ \A q \in Payments : Backed(q)
  BY DEF PaymentsInv, WorkersInv, WorkerInv
<1> PICK p \in Payments : p = call[w].payment
  BY <1>0 DEF SavePending, OpenSession, WorkerInv, Carries
<1>1. call[w].amount > 0 /\ order[p].state = "none" /\ order[p].captured = 0
  BY <1>0 DEF SavePending, OpenSession, WorkerInv, Carries, Opening, Backed
<1>2. \A u \in Workers \ {w} : ~Holds(u, p)
  BY <1>0 DEF SavePending, OpenSession, WorkerInv, Opening, Holds
<1>3. \A u \in Workers \ {w} : call[u].payment # p
  BY <1>0 DEF SavePending, OpenSession, WorkerInv, Opening
<1>4. CASE SavePending(w)
  <2>1. /\ payment'[p].status = "pending" /\ payment'[p].amount = call[w].amount /\ payment'[p].refunded = 0
        /\ \A q \in Payments \ {p} : payment'[q] = payment[q]
    BY <1>0, <1>1, <1>4 DEF SavePending, TypeOK
  <2>2. pc'[w] = "session" /\ pc[w] = "save" /\ call' = call /\ order' = order /\ payLock' = payLock
        /\ \A u \in Workers \ {w} : pc'[u] = pc[u]
    BY <1>0, <1>4 DEF SavePending, Goto, TypeOK
  <2>3. Backed(p)'
    BY <1>0, <1>1, <2>1, <2>2 DEF Backed
  <2>4. Carries(w)' /\ Told(w)' /\ Settling(w)' /\ Refunding(w)'
    BY <1>0, <1>1, <2>2 DEF WorkerInv, Carries, Told, Settling, Refunding
  <2>5. Opening(w)'
    BY <1>1, <1>3, <2>1, <2>2 DEF Opening
  <2> QED BY <1>1, <1>2, <2>1, <2>2, <2>3, <2>4, <2>5, OneRow DEF WorkerInv
<1>5. CASE OpenSession(w)
  <2>1. /\ order'[p].state = "open" /\ order'[p].captured = order[p].captured /\ order'[p].returned = order[p].returned
        /\ \A q \in Payments \ {p} : order'[q] = order[q]
    BY <1>0, <1>1, <1>5 DEF OpenSession, TypeOK, Order
  <2>2. pc'[w] = "idle" /\ pc[w] = "session" /\ call'[w] = NoCall /\ payment' = payment /\ payLock' = payLock
        /\ \A u \in Workers \ {w} : pc'[u] = pc[u] /\ call'[u] = call[u]
    BY <1>0, <1>5 DEF OpenSession, Return, TypeOK
  <2>3. payment[p].status \notin {"none", "paid", "refunded"}
    BY <1>0, <1>1, <2>2 DEF Backed, WorkerInv, Opening
  <2>4. Backed(p)'
    BY <1>0, <1>1, <2>1, <2>2, <2>3 DEF Backed
  <2>5. WorkerInv(w)'
    BY <2>2 DEF WorkerInv, Carries, Told, Settling, Refunding, Opening
  <2> QED BY <1>1, <1>2, <2>1, <2>2, <2>4, <2>5, OneRow
<1> QED BY <1>4, <1>5

(* The guest at the gateway's page.                                        *)
LEMMA GuestSteps ==
  ASSUME PaymentsInv, NEW p \in Payments, GuestPays(p) \/ CardDeclined(p)
  PROVE  WorkersInv' /\ \A q \in Payments : Backed(q)'
<1> USE Fields, PaymentsAssumption DEF locks
<1>0. TypeOK /\ WorkersInv /\ Backed(p)
  BY DEF PaymentsInv
<1>1. order[p].state \in {"open", "failed"} /\ UNCHANGED <<payment, pc, call, payLock>>
  BY DEF GuestPays, CardDeclined
<1>2. payment[p].status \notin {"none", "paid", "refunded"} /\ payment[p].amount > 0 /\ order[p].captured = 0
  BY <1>0, <1>1 DEF Backed
<1>3. /\ \/ order'[p].state = "captured" /\ order'[p].captured = payment[p].amount
         \/ order'[p].state = "failed" /\ order'[p].captured = order[p].captured
      /\ order'[p].returned = order[p].returned
      /\ \A q \in Payments \ {p} : order'[q] = order[q]
  <2>1. CASE GuestPays(p)
    BY <1>0, <2>1 DEF GuestPays, TypeOK, Order
  <2>2. CASE CardDeclined(p)
    BY <1>0, <2>2 DEF CardDeclined, TypeOK, Order
  <2> QED BY <2>1, <2>2
<1>4. Backed(p)'
  BY <1>0, <1>1, <1>2, <1>3 DEF Backed
<1>5. \A q \in Payments \ {p} : Backed(q)'
  BY <1>1, <1>3 DEF PaymentsInv, Backed
<1>6. ASSUME NEW u \in Workers PROVE WorkerInv(u)'
  <2>1. Carries(u)' /\ Settling(u)'
    BY <1>0, <1>1 DEF WorkersInv, Carries, Settling
  <2>2. Told(u)'
    BY <1>0, <1>1, <1>3 DEF WorkersInv, Told
  <2>3. Refunding(u)'
    BY <1>0, <1>1, <1>3 DEF WorkersInv, Refunding, Carries
  <2>4. Opening(u)'
    BY <1>0, <1>1, <1>3 DEF WorkersInv, Opening, Carries
  <2> QED BY <2>1, <2>2, <2>3, <2>4 DEF WorkerInv
<1> QED BY <1>4, <1>5, <1>6 DEF WorkersInv, WorkerInv

(* A worker that writes no row and takes no payment up.                    *)
LEMMA Walks ==
  ASSUME PaymentsInv, NEW w \in Workers, UNCHANGED <<payment, order, payLock>>,
         \A u \in Workers \ {w} : pc'[u] = pc[u] /\ call'[u] = call[u],
         call'[w].payment = call[w].payment, WorkerInv(w)'
  PROVE  WorkersInv' /\ \A p \in Payments : Backed(p)'
<1>1. \A p \in Payments : Backed(p)'
  BY DEF PaymentsInv, Backed
<1>2. ASSUME NEW u \in Workers \ {w} PROVE WorkerInv(u)'
  <2>1. pc[u] \in {"save", "session"} => \A v \in Workers \ {u} : call'[v].payment # call[u].payment
    BY DEF PaymentsInv, WorkersInv, Opening
  <2> QED BY <2>1, Undisturbed DEF PaymentsInv, WorkersInv, WorkerInv
<1> QED BY <1>1, <1>2 DEF WorkersInv, WorkerInv

(* A payment in the hands of w is in nobody else's.                        *)
LEMMA OneHolder ==
  ASSUME PaymentsInv, NEW w \in Workers, NEW u \in Workers \ {w},
         call[w].payment \in Payments, payLock[call[w].payment] \in {w, NoWorker}
  PROVE  ~Holds(u, call[w].payment)
BY PaymentsAssumption DEF PaymentsInv, WorkersInv, Opening, Holds

(* settle.                                                                 *)
LEMMA SettleSteps ==
  ASSUME PaymentsInv, NEW w \in Workers, LockPayment(w) \/ LockBooking(w) \/ Settle(w)
  PROVE  WorkersInv' /\ \A q \in Payments : Backed(q)'
<1> USE Fields, NoCallType, PaymentsAssumption DEF locks
<1>0. TypeOK /\ WorkerInv(w) /\ \A q \in Payments : Backed(q)
  BY DEF PaymentsInv, WorkersInv, WorkerInv
<1>1. CASE LockPayment(w)
  <2> PICK p \in Payments : p = call[w].payment
    BY <1>0, <1>1 DEF LockPayment, WorkerInv, Told, Carries
  <2>1. CASE payment[p].status # "pending"
    BY <1>1, <2>1, Ends DEF LockPayment
  <2>2. CASE payment[p].status = "pending"
    <3>1. /\ pc[w] = "payment" /\ call' = call /\ payment' = payment /\ order' = order
          /\ pc'[w] = IF call[w].outcome = "paid" THEN "booking" ELSE "commit"
          /\ \A u \in Workers \ {w} : pc'[u] = pc[u]
          /\ payLock[p] = NoWorker /\ payLock'[p] = w
          /\ \A q \in Payments \ {p} : payLock'[q] = payLock[q]
      BY <1>0, <1>1, <2>2 DEF LockPayment, Goto, TypeOK
    <3>2. Carries(w)' /\ Told(w)' /\ Settling(w)' /\ Refunding(w)' /\ Opening(w)'
      BY <1>0, <2>2, <3>1 DEF WorkerInv, Carries, Told, Settling, Refunding, Opening
    <3>3. \A u \in Workers \ {w} : ~Holds(u, p)
      BY <3>1, OneHolder
    <3>4. Backed(p)'
      BY <1>0, <3>1 DEF Backed
    <3>5. \A q \in Payments, u \in Workers \ {w} : payLock[q] = u => payLock'[q] = u
      BY <3>1
    <3> QED BY <3>1, <3>2, <3>3, <3>4, <3>5, OneRow DEF WorkerInv
  <2> QED BY <2>1, <2>2
<1>2. CASE LockBooking(w)
  <2>1. /\ pc[w] = "booking" /\ pc'[w] = IF call[w].op = "settle" THEN "commit" ELSE "lookup"
        /\ call'[w].op = call[w].op /\ call'[w].payment = call[w].payment
        /\ call'[w].outcome = call[w].outcome /\ call'[w].amount = call[w].amount
        /\ \A u \in Workers \ {w} : pc'[u] = pc[u] /\ call'[u] = call[u]
        /\ UNCHANGED <<payment, order, payLock>>
    BY <1>0, <1>2 DEF LockBooking, TypeOK, Call
  <2>2. Carries(w)' /\ Told(w)' /\ Settling(w)' /\ Refunding(w)' /\ Opening(w)'
    BY <1>0, <2>1 DEF WorkerInv, Carries, Told, Settling, Refunding, Opening
  <2> QED BY <2>1, <2>2, Walks DEF WorkerInv
<1>3. CASE Settle(w)
  <2>1. pc[w] = "commit" /\ call[w].op = "settle"
    BY <1>3 DEF Settle
  <2> PICK p \in Payments : p = call[w].payment
    BY <1>0, <2>1 DEF WorkerInv, Carries
  <2>2. payLock[p] = w /\ payment[p].status = "pending"
    BY <1>0, <2>1 DEF WorkerInv, Settling
  <2>3. /\ payment'[p].status = call[w].outcome /\ payment'[p].refunded = payment[p].refunded
        /\ payment'[p].amount = IF call[w].amount > 0 THEN call[w].amount ELSE payment[p].amount
        /\ \A q \in Payments \ {p} : payment'[q] = payment[q]
    BY <1>0, <1>3 DEF Settle, Apply, TypeOK, PaymentRow
  <2>4. /\ order' = order
        /\ \/ pc'[w] = "idle" /\ call'[w] = NoCall
           \/ pc'[w] = "after" /\ call'[w] = call[w]
        /\ \A u \in Workers \ {w} : pc'[u] = pc[u] /\ call'[u] = call[u]
    BY <1>0, <1>3 DEF Settle, Goto, Return, TypeOK
  <2>5. Backed(p)'
    <3>1. payment[p].amount > 0 /\ payment[p].refunded = 0
      BY <1>0, <2>2 DEF Backed
    <3>2. CASE call[w].outcome = "paid"
      <4>1. order[p].state = "captured" /\ call[w].amount = order[p].captured /\ order[p].captured > 0
        BY <1>0, <2>1, <3>2 DEF WorkerInv, Told, Backed
      <4> QED BY <1>0, <2>3, <2>4, <3>1, <3>2, <4>1 DEF Backed
    <3>3. CASE call[w].outcome # "paid"
      <4>1. call[w].outcome \in {"failed", "cancelled"} /\ call[w].amount = 0
        BY <1>0, <2>1, <3>3 DEF WorkerInv, Told, Call
      <4> QED BY <1>0, <2>3, <2>4, <3>1, <4>1 DEF Backed
    <3> QED BY <3>2, <3>3
  <2>6. Carries(w)' /\ Told(w)' /\ Settling(w)' /\ Refunding(w)' /\ Opening(w)'
    BY <1>0, <2>1, <2>4 DEF WorkerInv, Carries, Told, Settling, Refunding, Opening
  <2>7. \A u \in Workers \ {w} : ~Holds(u, p)
    BY <2>2, OneHolder
  <2>8. \A q \in Payments, u \in Workers \ {w} : payLock[q] = u => payLock'[q] = u
    BY <1>3 DEF Settle, Release
  <2> QED BY <2>3, <2>4, <2>5, <2>6, <2>7, <2>8, OneRow DEF WorkerInv
<1> QED BY <1>1, <1>2, <1>3

(* refund.                                                                 *)
LEMMA RefundSteps ==
  ASSUME PaymentsInv, NEW w \in Workers, FindPayment(w) \/ GiveBack(w) \/ CommitRefund(w)
  PROVE  WorkersInv' /\ \A q \in Payments : Backed(q)'
<1> USE Fields, NoCallType, PaymentsAssumption DEF locks
<1>0. TypeOK /\ WorkerInv(w) /\ \A q \in Payments : Backed(q)
  BY DEF PaymentsInv, WorkersInv, WorkerInv
<1>1. CASE FindPayment(w)
  <2>1. PICK p \in Payments : /\ Refundable(w, p) /\ payLock[p] = NoWorker
                              /\ payLock' = [payLock EXCEPT ![p] = w]
                              /\ call' = [call EXCEPT ![w].payment = p]
    BY <1>1 DEF FindPayment
  <2>2. /\ pc[w] = "lookup" /\ pc'[w] = "give" /\ payment' = payment /\ order' = order
        /\ call'[w].payment = p /\ call'[w].op = call[w].op /\ call'[w].amount = call[w].amount
        /\ \A u \in Workers \ {w} : pc'[u] = pc[u] /\ call'[u] = call[u]
        /\ payLock'[p] = w /\ \A q \in Payments \ {p} : payLock'[q] = payLock[q]
    BY <1>0, <1>1, <2>1 DEF FindPayment, TypeOK, Call
  <2>3. payment[p].status = "paid" /\ call[w].amount <= payment[p].amount - payment[p].refunded
    BY <2>1 DEF Refundable
  <2>4. Carries(w)' /\ Told(w)' /\ Settling(w)' /\ Refunding(w)' /\ Opening(w)'
    BY <1>0, <2>2, <2>3 DEF WorkerInv, Carries, Told, Settling, Refunding, Opening
  <2>5. \A u \in Workers \ {w} : ~Holds(u, p)
    BY <1>0, <2>1, <2>3 DEF Holds, PaymentsInv, WorkersInv, Opening, Backed
  <2>6. Backed(p)'
    BY <1>0, <2>2 DEF Backed
  <2>7. \A q \in Payments, u \in Workers \ {w} : payLock[q] = u => payLock'[q] = u
    BY <2>1, <2>2
  <2> QED BY <2>2, <2>4, <2>5, <2>6, <2>7, OneRow DEF WorkerInv
<1>2. CASE GiveBack(w)
  <2> PICK p \in Payments : p = call[w].payment
    BY <1>0, <1>2 DEF GiveBack, WorkerInv, Carries
  <2>1. /\ pc[w] = "give" /\ pc'[w] = "commit" /\ payment' = payment /\ payLock' = payLock /\ call' = call
        /\ order'[p].state = order[p].state /\ order'[p].captured = order[p].captured
        /\ order'[p].returned = order[p].returned + call[w].amount
        /\ \A q \in Payments \ {p} : order'[q] = order[q]
        /\ \A u \in Workers \ {w} : pc'[u] = pc[u]
    BY <1>0, <1>2 DEF GiveBack, Goto, TypeOK, Order
  <2>2. call[w].op = "refund"
    BY <1>0, <2>1 DEF WorkerInv, Carries
  <2>3. payLock[p] = w /\ payment[p].status = "paid"
        /\ call[w].amount <= payment[p].amount - payment[p].refunded
    BY <1>0, <2>1, <2>2 DEF WorkerInv, Refunding
  <2>4. payment[p].refunded <= order[p].returned
    BY <1>0 DEF Backed
  <2>5. Carries(w)' /\ Told(w)' /\ Settling(w)' /\ Refunding(w)' /\ Opening(w)'
    BY <1>0, <2>1, <2>2, <2>3, <2>4 DEF WorkerInv, Carries, Told, Settling, Refunding, Opening
  <2>6. Backed(p)'
    BY <1>0, <2>1 DEF Backed
  <2>7. \A u \in Workers \ {w} : ~Holds(u, p)
    BY <2>3, OneHolder
  <2> QED BY <2>1, <2>5, <2>6, <2>7, OneRow DEF WorkerInv
<1>3. CASE CommitRefund(w)
  <2>1. pc[w] = "commit" /\ call[w].op = "refund"
    BY <1>3 DEF CommitRefund
  <2> PICK p \in Payments : p = call[w].payment
    BY <1>0, <2>1 DEF WorkerInv, Carries
  <2>2. /\ payLock[p] = w /\ payment[p].status = "paid"
        /\ call[w].amount <= payment[p].amount - payment[p].refunded
        /\ payment[p].refunded + call[w].amount <= order[p].returned
    BY <1>0, <2>1 DEF WorkerInv, Refunding
  <2>3. /\ payment'[p].refunded = payment[p].refunded + call[w].amount
        /\ payment'[p].status \in {"paid", "refunded"} /\ payment'[p].amount = payment[p].amount
        /\ \A q \in Payments \ {p} : payment'[q] = payment[q]
    BY <1>0, <1>3, <2>2 DEF CommitRefund, TypeOK, PaymentRow
  <2>4. /\ order' = order /\ pc'[w] = "idle" /\ call'[w] = NoCall
        /\ \A u \in Workers \ {w} : pc'[u] = pc[u] /\ call'[u] = call[u]
    BY <1>0, <1>3 DEF CommitRefund, Return, TypeOK
  <2>5. Backed(p)'
    BY <1>0, <2>2, <2>3, <2>4 DEF Backed
  <2>6. Carries(w)' /\ Told(w)' /\ Settling(w)' /\ Refunding(w)' /\ Opening(w)'
    BY <2>4 DEF Carries, Told, Settling, Refunding, Opening
  <2>7. \A u \in Workers \ {w} : ~Holds(u, p)
    BY <2>2, OneHolder
  <2>8. \A q \in Payments, u \in Workers \ {w} : payLock[q] = u => payLock'[q] = u
    BY <1>3 DEF CommitRefund, Release
  <2> QED BY <2>3, <2>4, <2>5, <2>6, <2>7, <2>8, OneRow DEF WorkerInv
<1> QED BY <1>1, <1>2, <1>3

-----------------------------------------------------------------------------
(* The invariant is inductive.                                             *)

LEMMA InvInit == Init => PaymentsInv
<1> SUFFICES ASSUME Init PROVE PaymentsInv
  OBVIOUS
<1>1. \A w \in Workers : pc[w] = "idle" /\ call[w] = NoCall
  BY DEF Init
<1>2. WorkersInv
  BY <1>1, NoCallType DEF WorkersInv, Carries, Told, Settling, Refunding, Opening
<1>3. \A p \in Payments : Backed(p)
  BY DEF Init, Backed
<1> QED BY <1>2, <1>3, TypeInit DEF PaymentsInv

LEMMA InvStep == PaymentsInv /\ [Next]_vars => PaymentsInv'
<1> SUFFICES ASSUME PaymentsInv, [Next]_vars PROVE WorkersInv' /\ \A p \in Payments : Backed(p)'
  BY TypeStep DEF PaymentsInv
<1> USE DEF locks
<1>1. ASSUME NEW w \in Workers,
             CreateOnline(w) \/ PayNow(w) \/ Notice(w) \/ Sweep(w) \/ Refund(w) \/ CheckIn(w)
      PROVE  WorkersInv' /\ \A p \in Payments : Backed(p)'
  BY <1>1, BeginSteps
<1>2. ASSUME NEW w \in Workers, RecordPayment(w)
      PROVE  WorkersInv' /\ \A p \in Payments : Backed(p)'
  BY <1>2, Quiet DEF RecordPayment
<1>3. ASSUME NEW w \in Workers, Proceed(w)
      PROVE  WorkersInv' /\ \A p \in Payments : Backed(p)'
  <2>1. CASE SavePending(w) \/ OpenSession(w)
    BY <2>1, OpenSteps
  <2>2. CASE LockPayment(w) \/ LockBooking(w) \/ Settle(w)
    BY <2>2, SettleSteps
  <2>3. CASE FindPayment(w) \/ GiveBack(w) \/ CommitRefund(w)
    BY <2>3, RefundSteps
  <2>4. CASE SessionFails(w) \/ TicketOnArrival(w) \/ SaveArrival(w)
    BY <2>4, Ends DEF SessionFails, TicketOnArrival, SaveArrival
  <2>5. CASE NothingToRefund(w) \/ GatewayRefuses(w) \/ AnswerLost(w)
    BY <2>5, Ends DEF NothingToRefund, GatewayRefuses, AnswerLost
  <2> QED BY <1>3, <2>1, <2>2, <2>3, <2>4, <2>5 DEF Proceed
<1>4. ASSUME NEW b \in Bookings, Mail(b) \/ Cancel(b)
      PROVE  WorkersInv' /\ \A p \in Payments : Backed(p)'
  BY <1>4, Quiet DEF Mail, Cancel
<1>5. ASSUME NEW p \in Payments, GuestPays(p) \/ CardDeclined(p)
      PROVE  WorkersInv' /\ \A q \in Payments : Backed(q)'
  BY <1>5, GuestSteps
<1>6. CASE Crash
  <2>1. \A w \in Workers : pc'[w] = "idle" /\ call'[w] = NoCall
    BY <1>6 DEF Crash
  <2>2. WorkersInv'
    BY <2>1, NoCallType DEF WorkersInv, Carries, Told, Settling, Refunding, Opening
  <2>3. \A p \in Payments : Backed(p)'
    BY <1>6 DEF Crash, PaymentsInv, Backed
  <2> QED BY <2>2, <2>3
<1>7. CASE UNCHANGED vars
  BY <1>7, Quiet DEF vars
<1> QED BY <1>1, <1>2, <1>3, <1>4, <1>5, <1>6, <1>7 DEF Next

LEMMA InvHolds == Spec => []PaymentsInv
<1> QED BY InvInit, InvStep, PTL DEF Spec

(* Every row and every call has its type in every state: no settlement,    *)
(* refund or gate makes a paid amount negative, and a payment takes only   *)
(* the outcomes it knows.                                                  *)
THEOREM PaymentsTypeCorrect == Spec => []TypeOK
<1>1. PaymentsInv => TypeOK
  BY DEF PaymentsInv
<1> QED BY <1>1, InvHolds, PTL

(* What is credited was captured, and what is recorded as refunded was     *)
(* given back by the gateway and does not exceed the payment, for any      *)
(* number of notices, sweeps, refunds and restarts.                        *)
THEOREM MoneyBacked == Spec => []CreditBacked
<1>1. PaymentsInv => CreditBacked
  BY DEF PaymentsInv, Backed, CreditBacked
<1> QED BY <1>1, InvHolds, PTL

(* A payment's outcome is applied once: no second notice, late sweep or    *)
(* return page changes it; only a refund makes a paid payment refunded.    *)
THEOREM OutcomeOnce == Spec => SettledOnce
<1> DEFINE Kept == \A p \in Payments : payment[p].status \notin {"none", "pending"} =>
                     \/ payment'[p].status = payment[p].status
                     \/ payment[p].status = "paid" /\ payment'[p].status = "refunded"
<1>1. PaymentsInv /\ [Next]_vars => [Kept]_vars
  <2> SUFFICES ASSUME PaymentsInv, Next PROVE Kept
    OBVIOUS
  <2> USE DEF locks
  <2>1. ASSUME NEW w \in Workers, SavePending(w) PROVE Kept
    BY <2>1 DEF SavePending, PaymentsInv, TypeOK, WorkersInv, Opening
  <2>2. ASSUME NEW w \in Workers, Settle(w) PROVE Kept
    BY <2>2 DEF Settle, Apply, PaymentsInv, TypeOK, WorkersInv, Settling
  <2>3. ASSUME NEW w \in Workers, CommitRefund(w) PROVE Kept
    <3>1. payment[call[w].payment].status = "paid" /\ payment \in [Payments -> PaymentRow]
      BY <2>3 DEF CommitRefund, PaymentsInv, TypeOK, WorkersInv, Refunding
    <3>2. /\ payment'[call[w].payment].status \in {"paid", "refunded"}
          /\ \A q \in Payments \ {call[w].payment} : payment'[q] = payment[q]
      BY <2>3, <3>1 DEF CommitRefund, PaymentRow, PaymentsInv, WorkersInv, Carries
    <3> QED BY <3>1, <3>2
  <2>4. ASSUME NEW w \in Workers,
               CreateOnline(w) \/ PayNow(w) \/ Notice(w) \/ Sweep(w) \/ RecordPayment(w) \/ Refund(w) \/ CheckIn(w)
        PROVE  Kept
    BY <2>4 DEF CreateOnline, PayNow, Notice, Sweep, RecordPayment, Refund, CheckIn
  <2>5. ASSUME NEW w \in Workers,
               \/ OpenSession(w) \/ SessionFails(w) \/ LockPayment(w) \/ LockBooking(w) \/ TicketOnArrival(w)
               \/ FindPayment(w) \/ NothingToRefund(w) \/ GiveBack(w) \/ GatewayRefuses(w) \/ AnswerLost(w)
               \/ SaveArrival(w)
        PROVE  Kept
    BY <2>5 DEF OpenSession, SessionFails, LockPayment, LockBooking, TicketOnArrival, FindPayment,
                NothingToRefund, GiveBack, GatewayRefuses, AnswerLost, SaveArrival
  <2>6. ASSUME NEW b \in Bookings, Mail(b) \/ Cancel(b) PROVE Kept
    BY <2>6 DEF Mail, Cancel
  <2>7. ASSUME NEW p \in Payments, GuestPays(p) \/ CardDeclined(p) PROVE Kept
    BY <2>7 DEF GuestPays, CardDeclined
  <2>8. CASE Crash
    BY <2>8 DEF Crash
  <2> QED BY <2>1, <2>2, <2>3, <2>4, <2>5, <2>6, <2>7, <2>8 DEF Next, Proceed
<1> QED BY <1>1, InvHolds, PTL DEF Spec, SettledOnce

(***************************************************************************)
(* The ledger.                                                             *)
(***************************************************************************)

(* A settlement is of a payment's own booking, and so is a refund; whoever *)
(* is about to credit or debit a booking has it locked and knows what it   *)
(* shows as paid.  The gate, which saves without the lock, is not there.   *)
Debits(w) == call[w].op = "refund" /\ pc[w] \in {"lookup", "give", "commit"}
Credits(w) == call[w].op = "settle" /\ call[w].outcome = "paid" /\ pc[w] = "commit"
Keeps(w) ==
  /\ pc[w] # "gate"
  /\ call[w].op = "settle" => /\ payment[call[w].payment].status # "none"
                              /\ payment[call[w].payment].booking = call[w].booking
  /\ Debits(w) /\ pc[w] # "lookup" => payment[call[w].payment].booking = call[w].booking
  /\ Debits(w) \/ Credits(w) => /\ bookLock[call[w].booking] = w
                                /\ booking[call[w].booking].paid = call[w].from

LedgerInv == PaidIsLedger /\ \A w \in Workers : Keeps(w)

(* A worker that takes no step keeps its part as long as payments keep     *)
(* their booking and a booking it has locked keeps what it shows.          *)
LEMMA KeepsOn ==
  ASSUME PaymentsInv, NEW u \in Workers, Keeps(u), pc'[u] = pc[u], call'[u] = call[u],
         \A p \in Payments : payment[p].status # "none" =>
           payment'[p].status # "none" /\ payment'[p].booking = payment[p].booking,
         \A b \in Bookings : bookLock[b] = u => bookLock'[b] = u /\ booking'[b].paid = booking[b].paid
  PROVE  Keeps(u)'
<1>1. TypeOK /\ WorkerInv(u) BY DEF PaymentsInv, WorkersInv, WorkerInv
<1>2. call[u].booking \in Bookings BY <1>1, Fields
<1>3. call[u].op = "settle" => call[u].payment \in Payments BY <1>1 DEF WorkerInv, Told
<1>4. Debits(u) /\ pc[u] # "lookup" => call[u].payment \in Payments /\ payment[call[u].payment].status = "paid"
  BY <1>1 DEF WorkerInv, Carries, Refunding, Debits
<1> QED BY <1>1, <1>2, <1>3, <1>4 DEF Keeps, Debits, Credits

LEMMA CreditsFinite ==
  ASSUME TypeOK, NEW b \in Bookings
  PROVE  IsFiniteSet(Credited(b)) /\ \A p \in Credited(b) : Left[p] \in Int
<1>1. Credited(b) \subseteq Payments /\ IsFiniteSet(Payments) BY PaymentsAssumption DEF Credited
<1>2. \A p \in Payments : Left[p] \in Int BY Fields DEF Left
<1> QED BY <1>1, <1>2, FS_Subset

(* No payment that counts is written, and no paid amount without its cash. *)
LEMMA LedgerSame ==
  ASSUME TypeOK, PaidIsLedger,
         \A p \in Payments : \/ payment'[p] = payment[p]
                             \/ {payment[p].status, payment'[p].status} \cap {"paid", "refunded"} = {},
         \A b \in Bookings : \E n \in Nat : /\ booking'[b].paid = booking[b].paid + n
                                            /\ takings'[b] = takings[b] + n
  PROVE  PaidIsLedger'
<1> SUFFICES ASSUME NEW b \in Bookings
             PROVE  booking'[b].paid = takings'[b] + SumOf(Credited(b)', Left')
  BY DEF PaidIsLedger
<1>1. Credited(b)' = Credited(b) BY DEF Credited
<1>2. \A p \in Credited(b) : Left[p] \in Int /\ Left[p] = Left'[p]
  BY CreditsFinite DEF Credited, Left
<1>3. PICK s \in Int : s = SumOf(Credited(b), Left) BY CreditsFinite, SumInt
<1>4. SumOf(Credited(b)', Left') = s BY <1>1, <1>2, <1>3, CreditsFinite, SumSame
<1>5. booking[b].paid = takings[b] + s BY <1>3 DEF PaidIsLedger
<1>6. takings[b] \in Nat BY DEF TypeOK
<1> QED BY <1>3, <1>4, <1>5, <1>6

(* A payment of b is written, and counts from now on; what b shows as paid *)
(* moves by as much as what is left of the payment.                        *)
LEMMA LedgerMoves ==
  ASSUME TypeOK, TypeOK', PaidIsLedger, NEW p \in Payments, NEW b \in Bookings, takings' = takings,
         payment[p].booking = b, payment'[p].booking = b, payment'[p].status \in {"paid", "refunded"},
         \A q \in Payments \ {p} : payment'[q] = payment[q],
         \A c \in Bookings \ {b} : booking'[c].paid = booking[c].paid,
         booking'[b].paid = booking[b].paid + Left'[p] -
                            (IF payment[p].status \in {"paid", "refunded"} THEN Left[p] ELSE 0)
  PROVE  PaidIsLedger'
<1>1. \A q \in Payments : Left[q] \in Int /\ Left'[q] \in Int
  <2>1. \A q \in Payments : /\ payment[q].amount \in Nat /\ payment[q].refunded \in Nat
                            /\ payment'[q].amount \in Nat /\ payment'[q].refunded \in Nat
    BY DEF TypeOK, PaymentRow
  <2> QED BY <2>1 DEF Left
<1>2. \A q \in Payments \ {p} : Left'[q] = Left[q] BY DEF Left
<1>3. ASSUME NEW c \in Bookings \ {b} PROVE booking'[c].paid = takings'[c] + SumOf(Credited(c)', Left')
  <2>1. Credited(c)' = Credited(c) /\ p \notin Credited(c) /\ Credited(c) \subseteq Payments BY DEF Credited
  <2>2. SumOf(Credited(c)', Left') = SumOf(Credited(c), Left)
    BY <1>1, <1>2, <2>1, CreditsFinite, SumSame
  <2> QED BY <2>2 DEF PaidIsLedger
<1>4. booking'[b].paid = takings'[b] + SumOf(Credited(b)', Left')
  <2> PICK rest : rest = Credited(b) \ {p} OBVIOUS
  <2>1. Credited(b)' = rest \cup {p} /\ p \notin rest /\ rest \subseteq Payments BY DEF Credited
  <2>2. IsFiniteSet(rest) BY CreditsFinite, FS_Subset
  <2>3. PICK s \in Int : s = SumOf(rest, Left) BY <1>1, <2>1, <2>2, SumInt
  <2>4. SumOf(rest, Left') = s BY <1>1, <1>2, <2>1, <2>2, <2>3, SumSame
  <2>5. SumOf(Credited(b)', Left') = s + Left'[p]
    <3> PICK f : f = Left' OBVIOUS
    <3>1. \A y \in rest \cup {p} : f[y] \in Int BY <1>1, <2>1
    <3>2. SumOf(rest \cup {p}, f) = SumOf(rest, f) + f[p] BY <2>1, <2>2, <3>1, SumAdd
    <3> QED BY <2>1, <2>4, <3>2
  <2>6. SumOf(Credited(b), Left) = s + (IF payment[p].status \in {"paid", "refunded"} THEN Left[p] ELSE 0)
    <3>1. CASE payment[p].status \in {"paid", "refunded"}
      <4>1. p \in Credited(b) BY <3>1 DEF Credited
      <4>2. SumOf(Credited(b), Left) = Left[p] + s BY <2>3, <4>1, CreditsFinite, SumTake
      <4> QED BY <1>1, <3>1, <4>2
    <3>2. CASE payment[p].status \notin {"paid", "refunded"}
      <4>1. rest = Credited(b) BY <3>2 DEF Credited
      <4>2. SumOf(Credited(b), Left) = s BY <2>3, <4>1, Zenon
      <4> QED BY <3>2, <4>2
    <3> QED BY <3>1, <3>2
  <2>7. booking[b].paid = takings[b] + SumOf(Credited(b), Left) BY DEF PaidIsLedger
  <2>8. takings[b] \in Nat BY DEF TypeOK
  <2> QED BY <1>1, <2>3, <2>5, <2>6, <2>7, <2>8
<1> QED BY <1>3, <1>4 DEF PaidIsLedger

(* What is left of a payment that counts is in what the booking shows.     *)
LEMMA LeftIsShown ==
  ASSUME PaymentsInv, PaidIsLedger, NEW p \in Payments, payment[p].status \in {"paid", "refunded"}
  PROVE  Left[p] <= booking[payment[p].booking].paid
<1> PICK b \in Bookings : b = payment[p].booking BY Fields DEF PaymentsInv
<1>1. TypeOK /\ \A q \in Payments : payment[q].refunded <= payment[q].amount BY DEF PaymentsInv, Backed
<1>2. \A q \in Payments : Left[q] \in Nat BY <1>1, Fields DEF Left
<1>3. p \in Credited(b) /\ Credited(b) \subseteq Payments BY DEF Credited
<1>4. IsFiniteSet(Credited(b)) BY <1>1, CreditsFinite
<1>5. PICK rest : rest = Credited(b) \ {p} OBVIOUS
<1>6. IsFiniteSet(rest) /\ rest \subseteq Payments BY <1>3, <1>4, <1>5, FS_Subset
<1>7. SumOf(rest, Left) \in Nat BY <1>2, <1>6, SumNat
<1>8. SumOf(Credited(b), Left) = Left[p] + SumOf(rest, Left) BY <1>2, <1>3, <1>4, <1>5, SumTake
<1>9. takings[b] \in Nat BY <1>1 DEF TypeOK
<1>10. booking[b].paid = takings[b] + SumOf(Credited(b), Left) BY DEF PaidIsLedger
<1> QED BY <1>2, <1>7, <1>8, <1>9, <1>10

LEMMA OthersKeep ==
  ASSUME PaymentsInv, NEW w \in Workers, \A u \in Workers : Keeps(u),
         \A u \in Workers \ {w} : pc'[u] = pc[u] /\ call'[u] = call[u],
         \A p \in Payments : payment[p].status # "none" =>
           payment'[p].status # "none" /\ payment'[p].booking = payment[p].booking,
         \A b \in Bookings, u \in Workers \ {w} : bookLock[b] = u =>
           bookLock'[b] = u /\ booking'[b].paid = booking[b].paid,
         Keeps(w)'
  PROVE  \A u \in Workers : Keeps(u)'
<1>1. ASSUME NEW u \in Workers \ {w} PROVE Keeps(u)'
  BY KeepsOn
<1> QED BY <1>1

(* A step that writes no payment and no paid amount.                       *)
LEMMA LedgerStays ==
  ASSUME TypeOK, PaidIsLedger, UNCHANGED <<payment, takings>>, \A b \in Bookings : booking'[b].paid = booking[b].paid
  PROVE  PaidIsLedger'
<1>1. \A b \in Bookings : \E n \in Nat : booking'[b].paid = booking[b].paid + n /\ takings'[b] = takings[b] + n
  <2> SUFFICES ASSUME NEW b \in Bookings
               PROVE  booking'[b].paid = booking[b].paid + 0 /\ takings'[b] = takings[b] + 0
    OBVIOUS
  <2>1. booking[b].paid \in Nat /\ takings[b] \in Nat BY Fields DEF TypeOK
  <2> QED BY <2>1
<1> QED BY <1>1, LedgerSame

LEMMA LedgerBegins ==
  ASSUME PaymentsInv, LedgerInv, NEW w \in Workers,
         CreateOnline(w) \/ PayNow(w) \/ Notice(w) \/ Sweep(w) \/ Refund(w)
  PROVE  LedgerInv'
<1> USE Fields, NoCallType, PaymentsAssumption DEF locks
<1>0. TypeOK /\ (\A p \in Payments : Backed(p)) /\ (\A u \in Workers : Keeps(u)) /\ PaidIsLedger
  BY DEF PaymentsInv, LedgerInv
<1>1. /\ UNCHANGED <<payment, takings, bookLock>>
      /\ \A b \in Bookings : booking'[b].paid = booking[b].paid
      /\ \A u \in Workers \ {w} : pc'[u] = pc[u] /\ call'[u] = call[u]
  <2>1. \E step, c : Begin(w, step, c)
    BY DEF CreateOnline, PayNow, Notice, Sweep, Refund
  <2>2. \A u \in Workers \ {w} : pc'[u] = pc[u] /\ call'[u] = call[u]
    BY <1>0, <2>1 DEF Begin, TypeOK
  <2>3. UNCHANGED <<payment, takings, bookLock>>
    BY DEF CreateOnline, PayNow, Notice, Sweep, Refund
  <2>4. \A b \in Bookings : booking'[b].paid = booking[b].paid
    <3>1. CASE CreateOnline(w)
      <4>1. PICK b \in Bookings : booking' = [booking EXCEPT ![b].status = "confirmed"]
        BY <3>1 DEF CreateOnline
      <4> QED BY <1>0, <4>1 DEF TypeOK, BookingRow
    <3>2. CASE PayNow(w) \/ Notice(w) \/ Sweep(w) \/ Refund(w)
      BY <3>2 DEF PayNow, Notice, Sweep, Refund
    <3> QED BY <3>1, <3>2
  <2> QED BY <2>2, <2>3, <2>4
<1>2. Keeps(w)'
  <2>1. CASE CreateOnline(w)
    <3>1. pc'[w] = "save" /\ call'[w].op = "create"
      <4>1. PICK b \in Bookings, p \in Payments :
              Begin(w, "save", [NoCall EXCEPT !.op = "create", !.booking = b, !.payment = p, !.amount = Total])
        BY <2>1 DEF CreateOnline
      <4> QED BY <1>0, <4>1 DEF Begin, TypeOK, NoCall
    <3> QED BY <3>1 DEF Keeps, Debits, Credits
  <2>2. CASE PayNow(w)
    <3>1. pc'[w] = "save" /\ call'[w].op = "payNow"
      <4>1. PICK b \in Bookings, p \in Payments :
              Begin(w, "save", [NoCall EXCEPT !.op = "payNow", !.booking = b, !.payment = p,
                                              !.amount = Total - booking[b].paid])
        BY <2>2 DEF PayNow
      <4> QED BY <1>0, <4>1 DEF Begin, TypeOK, NoCall
    <3> QED BY <3>1 DEF Keeps, Debits, Credits
  <2>3. CASE Notice(w) \/ Sweep(w)
    <3>1. PICK p \in Payments : /\ pc'[w] = "payment" /\ call'[w].op = "settle" /\ call'[w].payment = p
                                /\ call'[w].booking = payment[p].booking /\ payment[p].status # "none"
      <4>1. CASE Notice(w)
        <5>1. PICK p \in Payments :
                /\ order[p].state \in {"captured", "failed"}
                /\ Begin(w, "payment", [NoCall EXCEPT !.op = "settle", !.booking = payment[p].booking, !.payment = p,
                     !.outcome = IF order[p].state = "captured" THEN "paid" ELSE "failed",
                     !.amount = order[p].captured])
          BY <4>1 DEF Notice
        <5>2. payment[p].status # "none" BY <1>0, <5>1 DEF Backed
        <5> QED BY <1>0, <5>1, <5>2 DEF Begin, TypeOK, NoCall
      <4>2. CASE Sweep(w)
        <5>1. PICK p \in Payments :
                /\ payment[p].status = "pending"
                /\ Begin(w, "payment", [NoCall EXCEPT !.op = "settle", !.booking = payment[p].booking,
                                                      !.payment = p, !.outcome = "cancelled"])
          BY <4>2 DEF Sweep
        <5> QED BY <1>0, <5>1 DEF Begin, TypeOK, NoCall
      <4> QED BY <2>3, <4>1, <4>2
    <3> QED BY <1>1, <3>1 DEF Keeps, Debits, Credits
  <2>4. CASE Refund(w)
    <3>1. pc'[w] = "booking" /\ call'[w].op = "refund"
      <4>1. PICK b \in Bookings, n \in 1..Total :
              Begin(w, "booking", [NoCall EXCEPT !.op = "refund", !.booking = b, !.amount = n])
        BY <2>4 DEF Refund
      <4> QED BY <1>0, <4>1 DEF Begin, TypeOK, NoCall
    <3> QED BY <3>1 DEF Keeps, Debits, Credits
  <2> QED BY <2>1, <2>2, <2>3, <2>4
<1>3. \A u \in Workers : Keeps(u)' BY <1>0, <1>1, <1>2, OthersKeep
<1> QED BY <1>0, <1>1, <1>3, LedgerStays DEF LedgerInv

(* A worker is done, and wrote nothing that counts.                        *)
LEMMA LedgerEnds ==
  ASSUME PaymentsInv, LedgerInv, NEW w \in Workers, Return(w), Release(w) \/ UNCHANGED bookLock,
         UNCHANGED <<payment, booking, takings>>
  PROVE  LedgerInv'
<1>1. TypeOK /\ (\A u \in Workers : Keeps(u)) /\ PaidIsLedger BY DEF PaymentsInv, LedgerInv
<1>2. \A u \in Workers \ {w} : pc'[u] = pc[u] /\ call'[u] = call[u] BY <1>1 DEF Return, TypeOK
<1>3. \A b \in Bookings, u \in Workers \ {w} : bookLock[b] = u => bookLock'[b] = u BY DEF Release
<1>4. Keeps(w)'
  <2>1. pc'[w] = "idle" /\ call'[w] = NoCall BY <1>1 DEF Return, TypeOK
  <2> QED BY <2>1, NoCallType DEF Keeps, Debits, Credits
<1>5. \A u \in Workers : Keeps(u)' BY <1>1, <1>2, <1>3, <1>4, OthersKeep
<1> QED BY <1>1, <1>5, LedgerStays DEF LedgerInv

LEMMA LedgerWalks ==
  ASSUME PaymentsInv, LedgerInv, NEW w \in Workers,
         LockPayment(w) \/ LockBooking(w) \/ FindPayment(w) \/ GiveBack(w)
  PROVE  LedgerInv'
<1> USE Fields, PaymentsAssumption DEF locks
<1>0. TypeOK /\ WorkerInv(w) /\ (\A u \in Workers : Keeps(u)) /\ PaidIsLedger
  BY DEF PaymentsInv, WorkersInv, WorkerInv, LedgerInv
<1>1. CASE LockPayment(w) /\ payment[call[w].payment].status # "pending"
  BY <1>1, LedgerEnds DEF LockPayment
<1>2. CASE ~ (LockPayment(w) /\ payment[call[w].payment].status # "pending")
  <2>1. /\ UNCHANGED <<payment, booking, takings>>
        /\ \A u \in Workers \ {w} : pc'[u] = pc[u] /\ call'[u] = call[u]
        /\ \A b \in Bookings, u \in Workers \ {w} : bookLock[b] = u => bookLock'[b] = u
    <3>1. CASE LockPayment(w) BY <1>0, <1>2, <3>1 DEF LockPayment, Goto, TypeOK
    <3>2. CASE LockBooking(w) BY <1>0, <3>2 DEF LockBooking, TypeOK
    <3>3. CASE FindPayment(w) BY <1>0, <3>3 DEF FindPayment, TypeOK
    <3>4. CASE GiveBack(w) BY <1>0, <3>4 DEF GiveBack, Goto, TypeOK
    <3> QED BY <3>1, <3>2, <3>3, <3>4
  <2>2. Keeps(w)'
    <3>1. CASE LockPayment(w)
      <4>1. /\ pc[w] = "payment" /\ call' = call /\ payment' = payment
            /\ pc'[w] = IF call[w].outcome = "paid" THEN "booking" ELSE "commit"
        BY <1>0, <1>2, <3>1 DEF LockPayment, Goto, TypeOK
      <4>2. call[w].op = "settle" BY <1>0, <4>1 DEF WorkerInv, Carries
      <4> QED BY <1>0, <4>1, <4>2 DEF Keeps, Debits, Credits
    <3>2. CASE LockBooking(w)
      <4>1. /\ pc'[w] = IF call[w].op = "settle" THEN "commit" ELSE "lookup"
            /\ call'[w].op = call[w].op /\ call'[w].payment = call[w].payment
            /\ call'[w].booking = call[w].booking /\ call'[w].from = booking[call[w].booking].paid
            /\ bookLock'[call[w].booking] = w /\ UNCHANGED <<payment, booking>>
        BY <1>0, <3>2 DEF LockBooking, TypeOK, Call
      <4> QED BY <1>0, <4>1 DEF Keeps, Debits, Credits
    <3>3. CASE FindPayment(w)
      <4>1. PICK p \in Payments : Refundable(w, p) /\ call' = [call EXCEPT ![w].payment = p]
        BY <3>3 DEF FindPayment
      <4>2. /\ pc[w] = "lookup" /\ pc'[w] = "give" /\ UNCHANGED <<payment, booking, bookLock>>
            /\ call'[w].op = call[w].op /\ call'[w].payment = p
            /\ call'[w].booking = call[w].booking /\ call'[w].from = call[w].from
        BY <1>0, <3>3, <4>1 DEF FindPayment, TypeOK, Call
      <4>3. call[w].op = "refund" BY <1>0, <4>2 DEF WorkerInv, Carries
      <4>4. payment[p].booking = call[w].booking BY <4>1 DEF Refundable
      <4> QED BY <1>0, <4>2, <4>3, <4>4 DEF Keeps, Debits, Credits
    <3>4. CASE GiveBack(w)
      <4>1. /\ pc[w] = "give" /\ pc'[w] = "commit" /\ call' = call /\ UNCHANGED <<payment, booking, bookLock>>
        BY <1>0, <3>4 DEF GiveBack, Goto, TypeOK
      <4>2. call[w].op = "refund" BY <1>0, <4>1 DEF WorkerInv, Carries
      <4> QED BY <1>0, <4>1, <4>2 DEF Keeps, Debits, Credits
    <3> QED BY <3>1, <3>2, <3>3, <3>4
  <2>3. \A u \in Workers : Keeps(u)' BY <1>0, <2>1, <2>2, OthersKeep
  <2> QED BY <1>0, <2>1, <2>3, LedgerStays DEF LedgerInv
<1> QED BY <1>1, <1>2

(* The pending row is saved: it does not count yet.                        *)
LEMMA LedgerSaves ==
  ASSUME PaymentsInv, LedgerInv, NEW w \in Workers, SavePending(w)
  PROVE  LedgerInv'
<1> USE Fields, PaymentsAssumption DEF locks
<1>0. TypeOK /\ WorkerInv(w) /\ (\A u \in Workers : Keeps(u)) /\ PaidIsLedger
  BY DEF PaymentsInv, WorkersInv, WorkerInv, LedgerInv
<1>1. pc[w] = "save" BY DEF SavePending
<1> PICK p \in Payments : p = call[w].payment BY <1>0, <1>1 DEF WorkerInv, Carries
<1>2. payment[p].status = "none" BY <1>0, <1>1 DEF WorkerInv, Opening
<1>3. /\ pc'[w] = "session" /\ call' = call /\ UNCHANGED <<booking, takings, bookLock>>
      /\ \A u \in Workers \ {w} : pc'[u] = pc[u]
      /\ payment'[p].status = "pending" /\ \A q \in Payments \ {p} : payment'[q] = payment[q]
  BY <1>0 DEF SavePending, Goto, TypeOK
<1>4. Keeps(w)'
  <2>1. call[w].op # "settle" BY <1>0, <1>2 DEF Keeps
  <2> QED BY <1>3, <2>1 DEF Keeps, Debits, Credits
<1>5. \A u \in Workers : Keeps(u)' BY <1>0, <1>2, <1>3, <1>4, OthersKeep
<1>6. \A b \in Bookings : \E n \in Nat : booking'[b].paid = booking[b].paid + n /\ takings'[b] = takings[b] + n
  <2> SUFFICES ASSUME NEW b \in Bookings
               PROVE  booking'[b].paid = booking[b].paid + 0 /\ takings'[b] = takings[b] + 0
    OBVIOUS
  <2>1. booking[b].paid \in Nat /\ takings[b] \in Nat BY <1>0 DEF TypeOK
  <2> QED BY <1>3, <2>1
<1>7. PaidIsLedger' BY <1>0, <1>2, <1>3, <1>6, LedgerSame
<1> QED BY <1>5, <1>7 DEF LedgerInv

(* A settlement: the booking gets what the payment brings, if it was paid. *)
LEMMA LedgerSettles ==
  ASSUME PaymentsInv, TypeOK', LedgerInv, NEW w \in Workers, Settle(w)
  PROVE  LedgerInv'
<1> USE Fields, PaymentsAssumption DEF locks
<1>0. TypeOK /\ WorkerInv(w) /\ (\A u \in Workers : Keeps(u)) /\ PaidIsLedger /\ \A q \in Payments : Backed(q)
  BY DEF PaymentsInv, WorkersInv, WorkerInv, LedgerInv
<1>1. pc[w] = "commit" /\ call[w].op = "settle" BY DEF Settle
<1> PICK p \in Payments : p = call[w].payment BY <1>0, <1>1 DEF WorkerInv, Carries
<1> PICK b \in Bookings : b = call[w].booking BY <1>0
<1>2. payment[p].status = "pending" /\ payment[p].booking = b
  BY <1>0, <1>1 DEF WorkerInv, Settling, Keeps
<1>3. payment[p].refunded = 0 BY <1>0, <1>2 DEF Backed
<1>4. /\ payment'[p].status = call[w].outcome /\ payment'[p].refunded = 0 /\ payment'[p].booking = b
      /\ payment'[p].amount = IF call[w].amount > 0 THEN call[w].amount ELSE payment[p].amount
      /\ \A q \in Payments \ {p} : payment'[q] = payment[q]
  BY <1>0, <1>2, <1>3 DEF Settle, Apply, TypeOK, PaymentRow
<1>5. /\ UNCHANGED takings
      /\ \/ pc'[w] = "idle" /\ call'[w] = NoCall
         \/ pc'[w] = "after" /\ call'[w] = call[w]
      /\ \A u \in Workers \ {w} : pc'[u] = pc[u] /\ call'[u] = call[u]
  BY <1>0 DEF Settle, Goto, Return, TypeOK
<1>6. \A c \in Bookings, u \in Workers \ {w} : bookLock[c] = u => bookLock'[c] = u
  BY DEF Settle, Release
<1>7. call[w].outcome # "none" BY <1>0, <1>1 DEF WorkerInv, Told
<1>8. Keeps(w)'
  <2>1. payment'[p].status # "none" BY <1>4, <1>7
  <2> QED BY <1>4, <1>5, <2>1, NoCallType DEF Keeps, Debits, Credits
<1>9. CASE call[w].outcome = "paid"
  <2>1. bookLock[b] = w /\ booking[b].paid = call[w].from
    BY <1>0, <1>1, <1>9 DEF Keeps, Credits
  <2>2. /\ booking'[b].paid = booking[b].paid + payment'[p].amount
        /\ \A c \in Bookings \ {b} : booking'[c] = booking[c]
    <3>1. booking' = [booking EXCEPT ![b].paid = call[w].from + payment'[p].amount]
      BY <1>4, <1>9 DEF Settle, Apply
    <3> QED BY <1>0, <2>1, <3>1 DEF TypeOK, BookingRow
  <2>3. Left'[p] = payment'[p].amount /\ booking[b].paid \in Nat
    <3>1. payment'[p].amount \in Nat BY <1>0, <1>4
    <3> QED BY <1>0, <1>4, <3>1 DEF Left
  <2>4. PaidIsLedger'
    <3>1. booking'[b].paid = booking[b].paid + Left'[p] -
                             (IF payment[p].status \in {"paid", "refunded"} THEN Left[p] ELSE 0)
      <4>1. payment'[p].amount \in Nat BY <1>0, <1>4
      <4> QED BY <1>2, <2>2, <2>3, <4>1
    <3> QED BY <1>0, <1>2, <1>4, <1>5, <1>9, <2>2, <3>1, LedgerMoves
  <2>5. \A u \in Workers : Keeps(u)' BY <1>0, <1>2, <1>4, <1>5, <1>6, <1>8, <1>9, <2>1, <2>2, OthersKeep
  <2> QED BY <2>4, <2>5 DEF LedgerInv
<1>10. CASE call[w].outcome # "paid"
  <2>1. booking' = booking BY <1>10 DEF Settle, Apply
  <2>2. call[w].outcome \in {"failed", "cancelled"} BY <1>0, <1>7, <1>10 DEF Call
  <2>3. \A c \in Bookings : \E n \in Nat : booking'[c].paid = booking[c].paid + n /\ takings'[c] = takings[c] + n
    <3> SUFFICES ASSUME NEW c \in Bookings
                 PROVE  booking'[c].paid = booking[c].paid + 0 /\ takings'[c] = takings[c] + 0
      OBVIOUS
    <3>1. booking[c].paid \in Nat /\ takings[c] \in Nat BY <1>0 DEF TypeOK
    <3> QED BY <1>5, <2>1, <3>1
  <2>4. PaidIsLedger' BY <1>0, <1>2, <1>4, <2>2, <2>3, LedgerSame
  <2>5. \A u \in Workers : Keeps(u)' BY <1>0, <1>2, <1>4, <1>5, <1>6, <1>7, <1>8, <2>1, OthersKeep
  <2> QED BY <2>4, <2>5 DEF LedgerInv
<1> QED BY <1>9, <1>10

(* A refund: what is given back was left of the payment, hence shown.      *)
LEMMA LedgerRefunds ==
  ASSUME PaymentsInv, TypeOK', LedgerInv, NEW w \in Workers, CommitRefund(w)
  PROVE  LedgerInv'
<1> USE Fields, PaymentsAssumption DEF locks
<1>0. TypeOK /\ WorkerInv(w) /\ (\A u \in Workers : Keeps(u)) /\ PaidIsLedger
  BY DEF PaymentsInv, WorkersInv, WorkerInv, LedgerInv
<1>1. pc[w] = "commit" /\ call[w].op = "refund" BY DEF CommitRefund
<1> PICK p \in Payments : p = call[w].payment BY <1>0, <1>1 DEF WorkerInv, Carries
<1> PICK b \in Bookings : b = call[w].booking BY <1>0
<1> PICK n \in Nat : n = call[w].amount BY <1>0
<1>2. /\ payment[p].status = "paid" /\ payment[p].booking = b
      /\ n <= payment[p].amount - payment[p].refunded
      /\ bookLock[b] = w /\ booking[b].paid = call[w].from
  BY <1>0, <1>1 DEF WorkerInv, Refunding, Keeps, Debits
<1>3. /\ payment'[p].refunded = payment[p].refunded + n
      /\ payment'[p].status \in {"paid", "refunded"} /\ payment'[p].amount = payment[p].amount
      /\ payment'[p].booking = b
      /\ \A q \in Payments \ {p} : payment'[q] = payment[q]
  BY <1>0, <1>2, SMTT(30) DEF CommitRefund, TypeOK, PaymentRow
<1>4. /\ UNCHANGED takings /\ pc'[w] = "idle" /\ call'[w] = NoCall
      /\ \A u \in Workers \ {w} : pc'[u] = pc[u] /\ call'[u] = call[u]
  BY <1>0 DEF CommitRefund, Return, TypeOK
<1>5. \A c \in Bookings, u \in Workers \ {w} : bookLock[c] = u => bookLock'[c] = u
  BY DEF CommitRefund, Release
<1>6. Left[p] = payment[p].amount - payment[p].refunded /\ Left'[p] = Left[p] - n
  <2>1. payment[p].amount \in Nat /\ payment[p].refunded \in Nat BY <1>0
  <2>2. Left'[p] = payment'[p].amount - payment'[p].refunded BY DEF Left
  <2> QED BY <1>3, <2>1, <2>2 DEF Left
<1>7. n <= booking[b].paid
  <2>1. Left[p] <= booking[b].paid BY <1>0, <1>2, LeftIsShown
  <2>2. Left[p] \in Int /\ booking[b].paid \in Nat BY <1>0, <1>6
  <2> QED BY <1>2, <1>6, <2>1, <2>2
<1>8. booking'[b].paid = booking[b].paid - n /\ \A c \in Bookings \ {b} : booking'[c] = booking[c]
  <2>1. booking' = [booking EXCEPT ![b].paid = IF call[w].from > n THEN call[w].from - n ELSE 0]
    BY DEF CommitRefund
  <2>2. booking[b].paid \in Nat BY <1>0
  <2> QED BY <1>0, <1>2, <1>7, <2>1, <2>2 DEF TypeOK, BookingRow
<1>9. PaidIsLedger'
  <2>1. booking'[b].paid = booking[b].paid + Left'[p] -
                           (IF payment[p].status \in {"paid", "refunded"} THEN Left[p] ELSE 0)
    <3>1. Left[p] \in Int /\ booking[b].paid \in Nat BY <1>0, <1>6
    <3> QED BY <1>2, <1>6, <1>8, <3>1
  <2> QED BY <1>0, <1>2, <1>3, <1>4, <1>8, <2>1, LedgerMoves
<1>10. Keeps(w)' BY <1>4, NoCallType DEF Keeps, Debits, Credits
<1>11. \A u \in Workers : Keeps(u)' BY <1>0, <1>2, <1>3, <1>4, <1>5, <1>8, <1>10, OthersKeep
<1> QED BY <1>9, <1>11 DEF LedgerInv

(* The desk takes cash.                                                    *)
LEMMA LedgerTakes ==
  ASSUME PaymentsInv, LedgerInv, NEW w \in Workers, RecordPayment(w)
  PROVE  LedgerInv'
<1> USE Fields, PaymentsAssumption DEF locks
<1>0. TypeOK /\ (\A u \in Workers : Keeps(u)) /\ PaidIsLedger BY DEF PaymentsInv, LedgerInv
<1>1. PICK b \in Bookings, n \in 1..Total :
        /\ bookLock[b] = NoWorker
        /\ booking' = [booking EXCEPT ![b].paid = @ + n]
        /\ takings' = [takings EXCEPT ![b] = @ + n]
  BY DEF RecordPayment
<1>2. UNCHANGED <<payment, pc, call, bookLock>> BY DEF RecordPayment
<1>3. /\ booking'[b].paid = booking[b].paid + n /\ takings'[b] = takings[b] + n
      /\ \A c \in Bookings \ {b} : booking'[c] = booking[c] /\ takings'[c] = takings[c]
  BY <1>0, <1>1 DEF TypeOK, BookingRow
<1>4. \A c \in Bookings : \E m \in Nat : booking'[c].paid = booking[c].paid + m /\ takings'[c] = takings[c] + m
  <2> SUFFICES ASSUME NEW c \in Bookings \ {b}
               PROVE  booking'[c].paid = booking[c].paid + 0 /\ takings'[c] = takings[c] + 0
    BY <1>3
  <2>1. booking[c].paid \in Nat /\ takings[c] \in Nat BY <1>0 DEF TypeOK
  <2> QED BY <1>3, <2>1
<1>5. PaidIsLedger' BY <1>0, <1>2, <1>4, LedgerSame
<1>6. ASSUME NEW u \in Workers PROVE Keeps(u)'
  <2>1. \A c \in Bookings : bookLock[c] = u => bookLock'[c] = u /\ booking'[c].paid = booking[c].paid
    BY <1>1, <1>2, <1>3
  <2> QED BY <1>0, <1>2, <2>1, KeepsOn
<1> QED BY <1>5, <1>6 DEF LedgerInv

LEMMA LedgerStep == "gate" \notin Ops /\ PaymentsInv /\ TypeOK' /\ LedgerInv /\ [Next]_vars => LedgerInv'
<1> SUFFICES ASSUME "gate" \notin Ops, PaymentsInv, TypeOK', LedgerInv, [Next]_vars PROVE LedgerInv'
  OBVIOUS
<1> USE DEF locks
<1>0. TypeOK /\ (\A u \in Workers : Keeps(u)) /\ PaidIsLedger BY DEF PaymentsInv, LedgerInv
<1>1. ASSUME NEW w \in Workers, CreateOnline(w) \/ PayNow(w) \/ Notice(w) \/ Sweep(w) \/ Refund(w) \/ CheckIn(w)
      PROVE  LedgerInv'
  BY <1>1, LedgerBegins DEF CheckIn
<1>2. ASSUME NEW w \in Workers, RecordPayment(w) PROVE LedgerInv'
  BY <1>2, LedgerTakes
<1>3. ASSUME NEW w \in Workers, Proceed(w) PROVE LedgerInv'
  <2>1. CASE SavePending(w) BY <2>1, LedgerSaves
  <2>2. CASE LockPayment(w) \/ LockBooking(w) \/ FindPayment(w) \/ GiveBack(w) BY <2>2, LedgerWalks
  <2>3. CASE Settle(w) BY <2>3, LedgerSettles
  <2>4. CASE CommitRefund(w) BY <2>4, LedgerRefunds
  <2>5. CASE OpenSession(w) \/ SessionFails(w) \/ TicketOnArrival(w)
    BY <2>5, LedgerEnds DEF OpenSession, SessionFails, TicketOnArrival
  <2>6. CASE NothingToRefund(w) \/ GatewayRefuses(w) \/ AnswerLost(w)
    BY <2>6, LedgerEnds DEF NothingToRefund, GatewayRefuses, AnswerLost
  <2>7. CASE SaveArrival(w) BY <1>0, <2>7 DEF SaveArrival, Keeps
  <2> QED BY <1>3, <2>1, <2>2, <2>3, <2>4, <2>5, <2>6, <2>7 DEF Proceed
<1>4. ASSUME UNCHANGED <<payment, pc, call, bookLock, takings>>, \A b \in Bookings : booking'[b].paid = booking[b].paid
      PROVE  LedgerInv'
  <2>1. ASSUME NEW u \in Workers PROVE Keeps(u)' BY <1>0, <1>4, KeepsOn
  <2>2. PaidIsLedger' BY <1>0, <1>4, LedgerStays
  <2> QED BY <2>1, <2>2 DEF LedgerInv
<1>5. ASSUME NEW b \in Bookings, Mail(b) \/ Cancel(b) PROVE LedgerInv'
  <2>1. \A c \in Bookings : booking'[c].paid = booking[c].paid
    BY <1>0, <1>5 DEF Mail, Cancel, TypeOK, BookingRow
  <2> QED BY <1>4, <1>5, <2>1 DEF Mail, Cancel
<1>6. ASSUME NEW p \in Payments, GuestPays(p) \/ CardDeclined(p) PROVE LedgerInv'
  BY <1>4, <1>6 DEF GuestPays, CardDeclined
<1>7. CASE Crash
  <2>1. \A u \in Workers : pc'[u] = "idle" /\ call'[u] = NoCall BY <1>7 DEF Crash
  <2>2. \A u \in Workers : Keeps(u)' BY <2>1, NoCallType DEF Keeps, Debits, Credits
  <2>3. PaidIsLedger' BY <1>0, <1>7, LedgerStays DEF Crash
  <2> QED BY <2>2, <2>3 DEF LedgerInv
<1>8. CASE UNCHANGED vars BY <1>4, <1>8 DEF vars
<1> QED BY <1>1, <1>2, <1>3, <1>5, <1>6, <1>7, <1>8 DEF Next

LEMMA LedgerInit == Init => LedgerInv
<1> SUFFICES ASSUME Init PROVE LedgerInv OBVIOUS
<1>1. \A w \in Workers : Keeps(w) BY NoCallType DEF Init, Keeps, Debits, Credits
<1>2. ASSUME NEW b \in Bookings PROVE booking[b].paid = takings[b] + SumOf(Credited(b), Left)
  <2>1. Credited(b) = {} BY DEF Init, Credited
  <2>2. SumOf(Credited(b), Left) = 0 BY <2>1, SumEmpty
  <2>3. booking[b].paid = 0 /\ takings[b] = 0 BY DEF Init
  <2> QED BY <2>2, <2>3
<1> QED BY <1>1, <1>2 DEF LedgerInv, PaidIsLedger

(* What a booking shows as paid is the cash the desk took and what its     *)
(* payments brought, less what was given back, for any number of payments, *)
(* workers, sweeps, refunds and restarts.  Where the gate checks guests in *)
(* it is not: its save may put back a paid amount read before              *)
(* (payments.service settle, refund; staff-bookings.service recordPayment).*)
THEOREM LedgerHolds == Spec /\ "gate" \notin Ops => []PaidIsLedger
<1>1. LedgerInv => PaidIsLedger BY DEF LedgerInv
<1>2. PaymentsInv => TypeOK BY DEF PaymentsInv
<1>3. "gate" \notin Ops /\ PaymentsInv /\ PaymentsInv' /\ LedgerInv /\ [Next]_vars => LedgerInv'
  <2>1. PaymentsInv' => TypeOK' BY DEF PaymentsInv
  <2> QED BY <2>1, LedgerStep
<1>4. CASE "gate" \notin Ops BY <1>1, <1>3, <1>4, LedgerInit, InvHolds, PTL DEF Spec
<1> QED BY <1>4

(***************************************************************************)
(* The accounts.                                                           *)
(***************************************************************************)

(* What a checkout asks, and what a refund takes, is an amount a guest was *)
(* charged: at least one, and no more than a booking costs.                *)
Priced ==
  \A w \in Workers :
    /\ pc[w] = "save" => call[w].amount \in 1..Total
    /\ call[w].op = "refund" => call[w].amount \in 1..Total

(* A worker that begins with c.                                            *)
LEMMA PricedBegins ==
  ASSUME TypeOK, Priced, NEW w \in Workers, NEW step, NEW c, Begin(w, step, c),
         step = "save" \/ c.op = "refund" => c.amount \in 1..Total
  PROVE  Priced'
<1>1. /\ pc'[w] = step /\ call'[w] = c
      /\ \A u \in Workers \ {w} : pc'[u] = pc[u] /\ call'[u] = call[u]
  BY DEF Begin, TypeOK
<1> QED BY <1>1 DEF Priced

(* A worker that goes on with the same amount, or ends.                    *)
LEMMA PricedWalks ==
  ASSUME Priced, NEW w \in Workers, \A u \in Workers \ {w} : pc'[u] = pc[u] /\ call'[u] = call[u],
         pc'[w] # "save",
         call'[w].op # "refund" \/ (call'[w].op = call[w].op /\ call'[w].amount = call[w].amount)
  PROVE  Priced'
BY DEF Priced

LEMMA PricedStep == PaymentsInv /\ Priced /\ [Next]_vars => Priced'
<1> SUFFICES ASSUME PaymentsInv, Priced, [Next]_vars PROVE Priced' OBVIOUS
<1> USE DEF locks
<1>0. TypeOK BY DEF PaymentsInv
<1>1. ASSUME NEW w \in Workers, CreateOnline(w) PROVE Priced'
  <2> DEFINE c(b, p) == [NoCall EXCEPT !.op = "create", !.booking = b, !.payment = p, !.amount = Total]
  <2>1. PICK b \in Bookings, p \in Payments : Begin(w, "save", c(b, p)) BY <1>1 DEF CreateOnline
  <2>2. c(b, p).amount = Total BY DEF NoCall
  <2>3. c(b, p).amount \in 1..Total BY <2>2, PaymentsAssumption
  <2> HIDE DEF c
  <2> QED BY <1>0, <2>1, <2>3, PricedBegins
<1>2. ASSUME NEW w \in Workers, PayNow(w) PROVE Priced'
  <2> DEFINE c(b, p) == [NoCall EXCEPT !.op = "payNow", !.booking = b, !.payment = p,
                                       !.amount = Total - booking[b].paid]
  <2>1. PICK b \in Bookings, p \in Payments : booking[b].paid < Total /\ Begin(w, "save", c(b, p))
    BY <1>2 DEF PayNow
  <2>2. c(b, p).amount = Total - booking[b].paid BY DEF NoCall
  <2>3. booking[b].paid \in Nat /\ Total \in Nat BY <1>0, Fields, PaymentsAssumption
  <2>4. c(b, p).amount \in 1..Total BY <2>1, <2>2, <2>3
  <2> HIDE DEF c
  <2> QED BY <1>0, <2>1, <2>4, PricedBegins
<1>3. ASSUME NEW w \in Workers, Notice(w) \/ Sweep(w) PROVE Priced'
  <2>1. CASE Notice(w)
    <3> DEFINE c(p) == [NoCall EXCEPT !.op = "settle", !.booking = payment[p].booking, !.payment = p,
                          !.outcome = IF order[p].state = "captured" THEN "paid" ELSE "failed",
                          !.amount = order[p].captured]
    <3>1. PICK p \in Payments : Begin(w, "payment", c(p)) BY <2>1 DEF Notice
    <3>2. c(p).op = "settle" BY DEF NoCall
    <3> HIDE DEF c
    <3> QED BY <1>0, <3>1, <3>2, PricedBegins
  <2>2. CASE Sweep(w)
    <3> DEFINE c(p) == [NoCall EXCEPT !.op = "settle", !.booking = payment[p].booking,
                                      !.payment = p, !.outcome = "cancelled"]
    <3>1. PICK p \in Payments : Begin(w, "payment", c(p)) BY <2>2 DEF Sweep
    <3>2. c(p).op = "settle" BY DEF NoCall
    <3> HIDE DEF c
    <3> QED BY <1>0, <3>1, <3>2, PricedBegins
  <2> QED BY <1>3, <2>1, <2>2
<1>4. ASSUME NEW w \in Workers, Refund(w) PROVE Priced'
  <2> DEFINE c(b, n) == [NoCall EXCEPT !.op = "refund", !.booking = b, !.amount = n]
  <2>1. PICK b \in Bookings, n \in 1..Total : Begin(w, "booking", c(b, n)) BY <1>4 DEF Refund
  <2>2. c(b, n).amount = n BY DEF NoCall
  <2> HIDE DEF c
  <2> QED BY <1>0, <2>1, <2>2, PricedBegins
<1>5. ASSUME NEW w \in Workers, CheckIn(w) PROVE Priced'
  <2> DEFINE c(b) == [NoCall EXCEPT !.op = "gate", !.booking = b, !.from = booking[b].paid]
  <2>1. PICK b \in Bookings : Begin(w, "gate", c(b)) BY <1>5 DEF CheckIn
  <2>2. c(b).op = "gate" BY DEF NoCall
  <2> HIDE DEF c
  <2> QED BY <1>0, <2>1, <2>2, PricedBegins
<1>6. ASSUME NEW w \in Workers, Return(w) PROVE Priced'
  <2>1. pc'[w] = "idle" /\ call'[w] = NoCall /\ \A u \in Workers \ {w} : pc'[u] = pc[u] /\ call'[u] = call[u]
    BY <1>0, <1>6 DEF Return, TypeOK
  <2> QED BY <2>1, NoCallType, PricedWalks
<1>7. ASSUME NEW w \in Workers, NEW step \in Step \ {"save"}, Goto(w, step) PROVE Priced'
  <2>1. pc'[w] = step /\ call' = call /\ \A u \in Workers \ {w} : pc'[u] = pc[u]
    BY <1>0, <1>7 DEF Goto, TypeOK
  <2> QED BY <2>1, PricedWalks
<1>8. ASSUME NEW w \in Workers, LockBooking(w) \/ FindPayment(w) PROVE Priced'
  <2>1. /\ pc'[w] \in {"commit", "lookup", "give"} /\ call'[w].op = call[w].op /\ call'[w].amount = call[w].amount
        /\ \A u \in Workers \ {w} : pc'[u] = pc[u] /\ call'[u] = call[u]
    BY <1>0, <1>8 DEF LockBooking, FindPayment, TypeOK, Call
  <2> QED BY <2>1, PricedWalks
<1>9. ASSUME NEW w \in Workers, Proceed(w) PROVE Priced'
  <2>1. \/ Return(w) \/ LockBooking(w) \/ FindPayment(w)
        \/ \E step \in Step \ {"save"} : Goto(w, step)
    BY <1>9 DEF Proceed, SavePending, OpenSession, SessionFails, LockPayment, Settle, TicketOnArrival,
                NothingToRefund, GiveBack, GatewayRefuses, AnswerLost, CommitRefund, SaveArrival, Step
  <2> QED BY <1>6, <1>7, <1>8, <2>1
<1>10. ASSUME UNCHANGED <<pc, call>> PROVE Priced' BY <1>10 DEF Priced
<1>11. CASE Crash BY <1>11, NoCallType DEF Crash, Priced
<1> QED BY <1>1, <1>2, <1>3, <1>4, <1>5, <1>9, <1>10, <1>11
        DEF Next, RecordPayment, Refund, Mail, Cancel, GuestPays, CardDeclined, vars

(* The accounts as the rows and the gateway's orders show them.            *)
LEMMA AccountsAre ==
  /\ \A b \in Bookings : Shown[b] = booking[b].paid
  /\ \A p \in Payments : Captured[p] = order[p].captured /\ Returned[p] = order[p].returned
  /\ Shown = [b \in Bookings |-> Shown[b]]
  /\ Captured = [p \in Payments |-> Captured[p]]
  /\ Returned = [p \in Payments |-> Returned[p]]
BY DEF Shown, Captured, Returned

LEMMA AccountsNext ==
  /\ \A b \in Bookings : Shown'[b] = booking'[b].paid
  /\ \A p \in Payments : Captured'[p] = order'[p].captured /\ Returned'[p] = order'[p].returned
  /\ Shown' = [b \in Bookings |-> Shown'[b]]
  /\ Captured' = [p \in Payments |-> Captured'[p]]
  /\ Returned' = [p \in Payments |-> Returned'[p]]
BY DEF Shown, Captured, Returned

LEMMA ShownSame ==
  ASSUME \A b \in Bookings : booking'[b].paid = booking[b].paid PROVE Shown' = Shown
BY DEF Shown

(* One booking shows n more or less.                                       *)
LEMMA ShownMoves ==
  ASSUME NEW b \in Bookings, NEW n, booking'[b].paid = n,
         \A c \in Bookings \ {b} : booking'[c].paid = booking[c].paid
  PROVE  Shown' = [Shown EXCEPT ![b] = n]
<1>1. [Shown EXCEPT ![b] = n] = [c \in Bookings |-> IF c = b THEN n ELSE Shown[c]] BY DEF Shown
<1>2. \A c \in Bookings : Shown'[c] = IF c = b THEN n ELSE Shown[c] BY DEF Shown
<1>3. Shown' = [c \in Bookings |-> Shown'[c]] BY AccountsNext
<1> HIDE DEF Shown
<1> QED BY <1>1, <1>2, <1>3

LEMMA OrdersSame ==
  ASSUME \A p \in Payments : order'[p].captured = order[p].captured /\ order'[p].returned = order[p].returned
  PROVE  Captured' = Captured /\ Returned' = Returned
BY DEF Captured, Returned

(* A step that moves no account.                                           *)
LEMMA Still ==
  ASSUME UNCHANGED <<payment, takings>>, \A b \in Bookings : booking'[b].paid = booking[b].paid,
         \A p \in Payments : order'[p].captured = order[p].captured /\ order'[p].returned = order[p].returned
  PROVE  [Accounts!Next]_(Accounts!accounts)
BY ShownSame, OrdersSame DEF Accounts!accounts

(* The pending row is saved: a checkout is opened.                         *)
LEMMA SaveOpens ==
  ASSUME PaymentsInv, Priced, NEW w \in Workers, SavePending(w)
  PROVE  Accounts!Next
<1>0. TypeOK /\ WorkerInv(w) BY DEF PaymentsInv, WorkersInv, WorkerInv
<1>1. pc[w] = "save" BY DEF SavePending
<1> PICK p \in Payments : p = call[w].payment BY <1>0, <1>1 DEF WorkerInv, Carries
<1> PICK b \in Bookings : b = call[w].booking BY <1>0, Fields
<1> PICK n \in 1..Total : n = call[w].amount BY <1>1 DEF Priced
<1>2. payment[p].status = "none" BY <1>0, <1>1 DEF WorkerInv, Opening
<1>3. payment' = [payment EXCEPT ![p] = [status |-> "pending", booking |-> b, amount |-> n, refunded |-> 0]]
  BY DEF SavePending
<1>4. UNCHANGED <<Shown, takings, Captured, Returned>> BY DEF SavePending, Shown, Captured, Returned
<1>5. Accounts!Open(p, b, n) BY <1>2, <1>3, <1>4 DEF Accounts!Open
<1> QED BY <1>5 DEF Accounts!Next

(* The guest pays: the money is captured.                                  *)
LEMMA PaysCaptures ==
  ASSUME PaymentsInv, NEW p \in Payments, GuestPays(p)
  PROVE  Accounts!Next
<1>0. TypeOK /\ Backed(p) /\ payment[p] \in PaymentRow BY Fields DEF PaymentsInv
<1>1. order[p].state \in {"open", "failed"} BY DEF GuestPays
<1>2. payment[p].status \in {"pending", "failed", "cancelled"} /\ order[p].captured = 0
  BY <1>0, <1>1 DEF Backed, PaymentRow
<1>3. /\ order'[p].captured = payment[p].amount
      /\ \A q \in Payments \ {p} : order'[q] = order[q]
      /\ order'[p].returned = order[p].returned
  BY <1>0 DEF GuestPays, TypeOK, Order
<1>4. Captured' = [Captured EXCEPT ![p] = payment[p].amount]
  <2>1. [Captured EXCEPT ![p] = payment[p].amount] =
          [q \in Payments |-> IF q = p THEN payment[p].amount ELSE Captured[q]]
    BY DEF Captured
  <2>2. \A q \in Payments : Captured'[q] = IF q = p THEN payment[p].amount ELSE Captured[q]
    BY <1>3, AccountsAre, AccountsNext
  <2> QED BY <2>1, <2>2, AccountsNext
<1>5. Returned' = Returned BY <1>3 DEF Returned
<1>6. Captured[p] = 0 BY <1>2, AccountsAre
<1>7. UNCHANGED <<Shown, takings, payment>> BY DEF GuestPays, Shown
<1>8. Accounts!Capture(p) BY <1>2, <1>4, <1>5, <1>6, <1>7 DEF Accounts!Capture
<1> QED BY <1>8 DEF Accounts!Next

(* A settlement commits: the checkout is credited to its booking, or given *)
(* up.                                                                     *)
LEMMA SettleAccounts ==
  ASSUME PaymentsInv, LedgerInv, NEW w \in Workers, Settle(w)
  PROVE  Accounts!Next
<1> USE Fields DEF locks
<1>0. TypeOK /\ WorkerInv(w) /\ Keeps(w) /\ \A q \in Payments : Backed(q)
  BY DEF PaymentsInv, WorkersInv, WorkerInv, LedgerInv
<1>1. pc[w] = "commit" /\ call[w].op = "settle" BY DEF Settle
<1> PICK p \in Payments : p = call[w].payment BY <1>0, <1>1 DEF WorkerInv, Carries
<1> PICK b \in Bookings : b = call[w].booking BY <1>0
<1>2. payment[p].status = "pending" /\ payment[p].booking = b
  BY <1>0, <1>1 DEF WorkerInv, Settling, Keeps
<1>3. UNCHANGED <<takings, Captured, Returned>> BY DEF Settle, Captured, Returned
<1>4. CASE call[w].outcome = "paid"
  <2>1. call[w].amount = order[p].captured /\ order[p].captured > 0
    BY <1>0, <1>1, <1>4 DEF WorkerInv, Told, Backed
  <2>2. bookLock[b] = w /\ booking[b].paid = call[w].from
    BY <1>0, <1>1, <1>4 DEF Keeps, Credits
  <2>3. payment' = [payment EXCEPT ![p] = [@ EXCEPT !.status = "paid", !.amount = Captured[p]]]
    <3>1. Captured[p] = order[p].captured BY AccountsAre
    <3> QED BY <1>4, <2>1, <3>1 DEF Settle, Apply
  <2>4. booking' = [booking EXCEPT ![b].paid = call[w].from + order[p].captured]
    BY <1>4, <2>1 DEF Settle, Apply
  <2>5. booking'[b].paid = Shown[b] + Captured[p] /\ \A c \in Bookings \ {b} : booking'[c] = booking[c]
    BY <1>0, <2>2, <2>4, AccountsAre DEF TypeOK, BookingRow
  <2>6. Shown' = [Shown EXCEPT ![b] = Shown[b] + Captured[p]] BY <2>5, ShownMoves
  <2>7. Captured[p] > 0 BY <2>1, AccountsAre
  <2>8. Accounts!Credit(p) BY <1>2, <1>3, <2>3, <2>6, <2>7 DEF Accounts!Credit
  <2> QED BY <2>8 DEF Accounts!Next
<1>5. CASE call[w].outcome # "paid"
  <2> PICK o \in {"failed", "cancelled"} : o = call[w].outcome
    BY <1>0, <1>1, <1>5 DEF WorkerInv, Told, Call
  <2>1. call[w].amount = 0 BY <1>0, <1>1, <1>5 DEF WorkerInv, Told
  <2>2. payment' = [payment EXCEPT ![p] = [@ EXCEPT !.status = o, !.amount = payment[p].amount]]
    BY <2>1 DEF Settle, Apply
  <2>3. [payment[p] EXCEPT !.status = o, !.amount = payment[p].amount] = [payment[p] EXCEPT !.status = o]
    BY <1>0 DEF PaymentRow
  <2>4. payment' = [payment EXCEPT ![p].status = o] BY <1>0, <2>2, <2>3 DEF TypeOK
  <2>5. booking' = booking BY <1>5 DEF Settle, Apply
  <2>6. Shown' = Shown BY <2>5, ShownSame
  <2>7. Accounts!GiveUp(p, o) BY <1>2, <1>3, <2>4, <2>6 DEF Accounts!GiveUp
  <2> QED BY <2>7 DEF Accounts!Next
<1> QED BY <1>4, <1>5

(* The gateway gives back what a refund asked of it.                       *)
LEMMA GivesBack ==
  ASSUME PaymentsInv, Priced, NEW w \in Workers, GiveBack(w)
  PROVE  Accounts!Next
<1> USE Fields DEF locks
<1>0. TypeOK /\ WorkerInv(w) BY DEF PaymentsInv, WorkersInv, WorkerInv
<1>1. pc[w] = "give" /\ call[w].op = "refund" BY <1>0 DEF GiveBack, WorkerInv, Carries
<1> PICK p \in Payments : p = call[w].payment BY <1>0, <1>1 DEF WorkerInv, Carries
<1>2. PICK n \in 1..Total : n = call[w].amount BY <1>1 DEF Priced
<1>3. payment[p].status = "paid" /\ n <= payment[p].amount - payment[p].refunded
  BY <1>0, <1>1, <1>2 DEF WorkerInv, Refunding
<1>4. order' = [order EXCEPT ![p].returned = @ + n] BY <1>2 DEF GiveBack
<1>5. /\ order'[p].returned = order[p].returned + n /\ order'[p].captured = order[p].captured
      /\ \A q \in Payments \ {p} : order'[q] = order[q]
  BY <1>0, <1>4 DEF TypeOK, Order
<1>6. Returned' = [Returned EXCEPT ![p] = Returned[p] + n]
  <2>1. [Returned EXCEPT ![p] = Returned[p] + n] = [q \in Payments |-> IF q = p THEN Returned[p] + n ELSE Returned[q]]
    BY DEF Returned
  <2>2. \A q \in Payments : Returned'[q] = IF q = p THEN Returned[p] + n ELSE Returned[q]
    BY <1>5, AccountsAre, AccountsNext
  <2> QED BY <2>1, <2>2, AccountsNext
<1>7. Captured' = Captured BY <1>5 DEF Captured
<1>8. UNCHANGED <<Shown, takings, payment>> BY DEF GiveBack, Shown
<1>9. Accounts!GiveBack(p, n) BY <1>3, <1>6, <1>7, <1>8 DEF Accounts!GiveBack
<1>10. n \in 1..payment[p].amount
  <2>1. payment[p].amount \in Nat /\ payment[p].refunded \in Nat BY <1>0
  <2> QED BY <1>2, <1>3, <2>1
<1> QED BY <1>9, <1>10 DEF Accounts!Next

(* A refund commits: checkout and booking lose what was given back.        *)
LEMMA RefundDebits ==
  ASSUME PaymentsInv, LedgerInv, Priced, NEW w \in Workers, CommitRefund(w)
  PROVE  Accounts!Next
<1> USE Fields DEF locks
<1>0. TypeOK /\ WorkerInv(w) /\ Keeps(w) /\ PaidIsLedger
  BY DEF PaymentsInv, WorkersInv, WorkerInv, LedgerInv
<1>1. pc[w] = "commit" /\ call[w].op = "refund" BY DEF CommitRefund
<1> PICK p \in Payments : p = call[w].payment BY <1>0, <1>1 DEF WorkerInv, Carries
<1> PICK b \in Bookings : b = call[w].booking BY <1>0
<1>2. PICK n \in 1..Total : n = call[w].amount BY <1>1 DEF Priced
<1>3. /\ payment[p].status = "paid" /\ payment[p].booking = b
      /\ n <= payment[p].amount - payment[p].refunded
      /\ payment[p].refunded + n <= order[p].returned
      /\ booking[b].paid = call[w].from
  BY <1>0, <1>1, <1>2 DEF WorkerInv, Refunding, Keeps, Debits
<1>4. payment[p].amount \in Nat /\ payment[p].refunded \in Nat /\ booking[b].paid \in Nat BY <1>0
<1> DEFINE m == payment[p].refunded + n
<1>5. m <= payment[p].amount /\ m <= Returned[p] /\ n \in 1..payment[p].amount
  BY <1>2, <1>3, <1>4, AccountsAre
<1>6. n <= Shown[b]
  <2>1. Left[p] <= booking[b].paid BY <1>0, <1>3, LeftIsShown
  <2>2. Left[p] = payment[p].amount - payment[p].refunded BY DEF Left
  <2>3. Shown[b] = booking[b].paid BY AccountsAre
  <2> QED BY <1>2, <1>3, <1>4, <2>1, <2>2, <2>3
<1>7. booking'[b].paid = Shown[b] - n /\ \A c \in Bookings \ {b} : booking'[c] = booking[c]
  <2>1. booking' = [booking EXCEPT ![b].paid = IF call[w].from > n THEN call[w].from - n ELSE 0]
    BY <1>2 DEF CommitRefund
  <2>2. Shown[b] = booking[b].paid BY AccountsAre
  <2>3. (IF call[w].from > n THEN call[w].from - n ELSE 0) = Shown[b] - n BY <1>2, <1>3, <1>4, <1>6, <2>2
  <2> QED BY <1>0, <2>1, <2>3 DEF TypeOK, BookingRow
<1>8. Shown' = [Shown EXCEPT ![b] = Shown[b] - n] BY <1>7, ShownMoves
<1> DEFINE s == IF m = payment[p].amount THEN "refunded" ELSE "paid"
<1>9. payment' = [payment EXCEPT ![p] = [@ EXCEPT !.refunded = m, !.status = s]]
  <2>1. (IF m >= payment[p].amount THEN "refunded" ELSE payment[p].status) = s BY <1>2, <1>3, <1>4, <1>5
  <2> QED BY <1>2, <2>1 DEF CommitRefund
<1>10. UNCHANGED <<takings, Captured, Returned>> BY DEF CommitRefund, Captured, Returned
<1>11. Accounts!Debit(p, n) BY <1>3, <1>5, <1>6, <1>8, <1>9, <1>10 DEF Accounts!Debit
<1> QED BY <1>5, <1>11 DEF Accounts!Next

(* The desk takes cash.                                                    *)
LEMMA DeskTakes ==
  ASSUME PaymentsInv, NEW w \in Workers, RecordPayment(w)
  PROVE  Accounts!Next
<1> USE DEF locks
<1>0. TypeOK BY DEF PaymentsInv
<1>1. PICK b \in Bookings, n \in 1..Total :
        /\ booking' = [booking EXCEPT ![b].paid = @ + n]
        /\ takings' = [takings EXCEPT ![b] = @ + n]
  BY DEF RecordPayment
<1>2. booking'[b].paid = Shown[b] + n /\ \A c \in Bookings \ {b} : booking'[c] = booking[c]
  BY <1>0, <1>1, AccountsAre DEF TypeOK, BookingRow
<1>3. Shown' = [Shown EXCEPT ![b] = Shown[b] + n] BY <1>2, ShownMoves
<1>4. UNCHANGED <<payment, Captured, Returned>> BY DEF RecordPayment, Captured, Returned
<1>5. Accounts!TakeCash(b, n) BY <1>1, <1>3, <1>4 DEF Accounts!TakeCash
<1> QED BY <1>5 DEF Accounts!Next

LEMMA AccountsStep ==
  "gate" \notin Ops /\ PaymentsInv /\ LedgerInv /\ Priced /\ [Next]_vars => [Accounts!Next]_(Accounts!accounts)
<1> SUFFICES ASSUME "gate" \notin Ops, PaymentsInv, LedgerInv, Priced, [Next]_vars
             PROVE  [Accounts!Next]_(Accounts!accounts)
  OBVIOUS
<1> USE DEF locks
<1>0. TypeOK /\ \A w \in Workers : pc[w] # "gate" BY DEF PaymentsInv, LedgerInv, Keeps
<1>1. ASSUME UNCHANGED <<payment, takings, order>>, \A b \in Bookings : booking'[b].paid = booking[b].paid
      PROVE  [Accounts!Next]_(Accounts!accounts)
  BY <1>1, Still
<1>2. ASSUME NEW w \in Workers, CreateOnline(w) PROVE [Accounts!Next]_(Accounts!accounts)
  <2>1. PICK b \in Bookings : booking' = [booking EXCEPT ![b].status = "confirmed"] BY <1>2 DEF CreateOnline
  <2>2. \A c \in Bookings : booking'[c].paid = booking[c].paid BY <1>0, <2>1 DEF TypeOK, BookingRow
  <2> QED BY <1>1, <1>2, <2>2 DEF CreateOnline
<1>3. ASSUME NEW w \in Workers, PayNow(w) \/ Notice(w) \/ Sweep(w) \/ Refund(w) \/ CheckIn(w)
      PROVE  [Accounts!Next]_(Accounts!accounts)
  BY <1>1, <1>3 DEF PayNow, Notice, Sweep, Refund, CheckIn
<1>4. ASSUME NEW w \in Workers, OpenSession(w) PROVE [Accounts!Next]_(Accounts!accounts)
  <2>1. \A p \in Payments : order'[p].captured = order[p].captured /\ order'[p].returned = order[p].returned
    BY <1>0, <1>4 DEF OpenSession, TypeOK, Order
  <2> QED BY <1>4, <2>1, Still DEF OpenSession
<1>5. ASSUME NEW w \in Workers, Proceed(w) PROVE [Accounts!Next]_(Accounts!accounts)
  <2>1. CASE SavePending(w) BY <2>1, SaveOpens
  <2>2. CASE Settle(w) BY <2>2, SettleAccounts
  <2>3. CASE GiveBack(w) BY <2>3, GivesBack
  <2>4. CASE CommitRefund(w) BY <2>4, RefundDebits
  <2>5. CASE \/ SessionFails(w) \/ LockPayment(w) \/ LockBooking(w) \/ TicketOnArrival(w) \/ FindPayment(w)
             \/ NothingToRefund(w) \/ GatewayRefuses(w) \/ AnswerLost(w)
    BY <1>1, <2>5 DEF SessionFails, LockPayment, LockBooking, TicketOnArrival, FindPayment, NothingToRefund,
                      GatewayRefuses, AnswerLost
  <2>6. CASE SaveArrival(w) BY <1>0, <2>6 DEF SaveArrival
  <2> QED BY <1>4, <1>5, <2>1, <2>2, <2>3, <2>4, <2>5, <2>6 DEF Proceed
<1>6. ASSUME NEW b \in Bookings, Mail(b) \/ Cancel(b) PROVE [Accounts!Next]_(Accounts!accounts)
  <2>1. \A c \in Bookings : booking'[c].paid = booking[c].paid
    BY <1>0, <1>6 DEF Mail, Cancel, TypeOK, BookingRow
  <2> QED BY <1>1, <1>6, <2>1 DEF Mail, Cancel
<1>7. ASSUME NEW p \in Payments, CardDeclined(p) PROVE [Accounts!Next]_(Accounts!accounts)
  <2>1. \A q \in Payments : order'[q].captured = order[q].captured /\ order'[q].returned = order[q].returned
    BY <1>0, <1>7 DEF CardDeclined, TypeOK, Order
  <2> QED BY <1>7, <2>1, Still DEF CardDeclined
<1>8. CASE Crash BY <1>1, <1>8 DEF Crash
<1>9. CASE UNCHANGED vars BY <1>1, <1>9 DEF vars
<1> QED BY <1>2, <1>3, <1>5, <1>6, <1>7, <1>8, <1>9, DeskTakes, PaysCaptures DEF Next

LEMMA AccountsInit == Init => Accounts!Init /\ Priced
<1> SUFFICES ASSUME Init PROVE Accounts!Init /\ Priced OBVIOUS
<1>1. Priced BY NoCallType DEF Init, Priced
<1>2. Shown = [b \in Bookings |-> 0] /\ Captured = [p \in Payments |-> 0] /\ Returned = [p \in Payments |-> 0]
  BY DEF Init, Shown, Captured, Returned
<1>3. payment = [p \in Payments |-> Accounts!Unopened] BY DEF Init, NoCall, Accounts!Unopened
<1>4. takings = [b \in Bookings |-> 0] BY DEF Init
<1> QED BY <1>1, <1>2, <1>3, <1>4 DEF Accounts!Init

(* Where no gate saves whole rows, every behaviour of the workers is one   *)
(* of the accounts: however many notices, sweeps, refunds, restarts and    *)
(* lost answers there are, and in whatever order, a checkout is credited   *)
(* once, by what the gateway captured, in the same step as its booking,    *)
(* and what is taken off both was given back (payments.service settle,     *)
(* creditBooking, refund; staff-bookings.service recordPayment).           *)
THEOREM KeepsAccounts == Spec /\ "gate" \notin Ops => ImplementsAccounts
<1>1. "gate" \notin Ops /\ PaymentsInv /\ PaymentsInv' /\ LedgerInv /\ [Next]_vars => LedgerInv'
  <2>1. PaymentsInv' => TypeOK' BY DEF PaymentsInv
  <2> QED BY <2>1, LedgerStep
<1>2. CASE "gate" \notin Ops
  BY <1>1, <1>2, LedgerInit, InvHolds, AccountsInit, PricedStep, AccountsStep, PTL
     DEF Spec, ImplementsAccounts, Accounts!Spec
<1> QED BY <1>2

=============================================================================
