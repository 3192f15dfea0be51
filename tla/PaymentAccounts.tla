--------------------------- MODULE PaymentAccounts ---------------------------
(***************************************************************************)
(* What online payments promise, with nothing of how it is done: accounts  *)
(* that move in single steps.  A checkout is opened, and either the money  *)
(* the gateway captured for it is credited to its booking, once, or it is  *)
(* given up; a refund takes from the checkout and from the booking what    *)
(* the gateway has returned.  There are no workers, no locks and no calls: *)
(* a notice that comes twice, a transaction that rolls back or an answer   *)
(* that is lost can show only as steps of the gateway's own account.       *)
(***************************************************************************)
EXTENDS Naturals

CONSTANTS
  Bookings,
  Payments,
  Price       \* bound: what one checkout, or one taking at the desk, may be

VARIABLES
  shown,      \* what each booking shows as paid
  cash,       \* what the desk took for it
  checkout,   \* each checkout: its outcome, its booking, its amount, what was refunded of it
  captured,   \* what the gateway took for each checkout
  returned    \* what it gave back

accounts == <<shown, cash, checkout, captured, returned>>

Unopened == [status |-> "none", booking |-> CHOOSE b \in Bookings : TRUE, amount |-> 0, refunded |-> 0]

Init ==
  /\ shown = [b \in Bookings |-> 0] /\ cash = [b \in Bookings |-> 0]
  /\ checkout = [p \in Payments |-> Unopened]
  /\ captured = [p \in Payments |-> 0] /\ returned = [p \in Payments |-> 0]

Open(p, b, n) ==
  /\ checkout[p].status = "none"
  /\ checkout' = [checkout EXCEPT ![p] = [status |-> "pending", booking |-> b, amount |-> n, refunded |-> 0]]
  /\ UNCHANGED <<shown, cash, captured, returned>>

(* The guest pays what the checkout asks, even one already given up.       *)
Capture(p) ==
  /\ checkout[p].status \in {"pending", "failed", "cancelled"} /\ captured[p] = 0
  /\ captured' = [captured EXCEPT ![p] = checkout[p].amount]
  /\ UNCHANGED <<shown, cash, checkout, returned>>

(* The captured money is credited: checkout and booking in one step.       *)
Credit(p) ==
  /\ checkout[p].status = "pending" /\ captured[p] > 0
  /\ checkout' = [checkout EXCEPT ![p] = [@ EXCEPT !.status = "paid", !.amount = captured[p]]]
  /\ shown' = [shown EXCEPT ![checkout[p].booking] = @ + captured[p]]
  /\ UNCHANGED <<cash, captured, returned>>

GiveUp(p, outcome) ==
  /\ checkout[p].status = "pending" /\ outcome \in {"failed", "cancelled"}
  /\ checkout' = [checkout EXCEPT ![p].status = outcome]
  /\ UNCHANGED <<shown, cash, captured, returned>>

(* The gateway gives back, of a paid checkout, what is not refunded yet.   *)
GiveBack(p, n) ==
  /\ checkout[p].status = "paid" /\ n <= checkout[p].amount - checkout[p].refunded
  /\ returned' = [returned EXCEPT ![p] = @ + n]
  /\ UNCHANGED <<shown, cash, checkout, captured>>

(* What it gave back is taken off: checkout and booking in one step.       *)
Debit(p, n) ==
  LET refunded == checkout[p].refunded + n
      b == checkout[p].booking
  IN  /\ checkout[p].status = "paid" /\ refunded <= checkout[p].amount /\ refunded <= returned[p]
      /\ n <= shown[b]
      /\ checkout' = [checkout EXCEPT ![p] =
           [@ EXCEPT !.refunded = refunded, !.status = IF refunded = checkout[p].amount THEN "refunded" ELSE "paid"]]
      /\ shown' = [shown EXCEPT ![b] = @ - n]
      /\ UNCHANGED <<cash, captured, returned>>

TakeCash(b, n) ==
  /\ cash' = [cash EXCEPT ![b] = @ + n]
  /\ shown' = [shown EXCEPT ![b] = @ + n]
  /\ UNCHANGED <<checkout, captured, returned>>

Next ==
  \/ \E p \in Payments :
       \/ Capture(p) \/ Credit(p)
       \/ \E outcome \in {"failed", "cancelled"} : GiveUp(p, outcome)
       \/ \E b \in Bookings, n \in 1..Price : Open(p, b, n)
       \/ \E n \in 1..checkout[p].amount : GiveBack(p, n) \/ Debit(p, n)
  \/ \E b \in Bookings, n \in 1..Price : TakeCash(b, n)

Spec == Init /\ [][Next]_accounts
=============================================================================
