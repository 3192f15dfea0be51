----------------------------- MODULE PlaceLedger -----------------------------
(***************************************************************************)
(* What the capacity check promises, with nothing of how it is done: a     *)
(* ledger of grants, each a number of places in one arrival slot, that     *)
(* changes one grant at a time and never grants more than the slot takes.  *)
(* A grant may replace another of the same guest in the same step (a hold  *)
(* that becomes a booking, a booking that moves).                          *)
(***************************************************************************)
EXTENDS Naturals, FiniteSets

CONSTANTS
  Holders,   \* who may be granted places
  Slots,
  MaxParty,  \* bound: places in one grant
  Capacity

VARIABLE grant   \* what each holder is granted

Grant == [slot : Slots, n : 0..MaxParty]

Nothing == [slot |-> CHOOSE s \in Slots : TRUE, n |-> 0]

(* The places granted in a slot, one pair per place.                       *)
Places(g, s) == {p \in Holders \X (1..MaxParty) : g[p[1]].slot = s /\ p[2] <= g[p[1]].n}

Init == grant = [h \in Holders |-> Nothing]

(* Holder h is granted n places in slot s, giving up old, and so do the    *)
(* holders in freed: only if the ledger that results fits.                 *)
Allot(h, freed, s, n) ==
  LET next == [x \in Holders |-> IF x = h THEN [slot |-> s, n |-> n]
                                  ELSE IF x \in freed THEN Nothing ELSE grant[x]]
  IN  /\ Cardinality(Places(next, s)) <= Capacity
      /\ grant' = next

(* Places go back: a cancellation, a postponement, an expiry, or a row the *)
(* gate took out of the ledger.                                            *)
GiveBack(h) == grant' = [grant EXCEPT ![h] = Nothing]

Next ==
  \E h \in Holders :
    \/ GiveBack(h)
    \/ \E s \in Slots, n \in 1..MaxParty, freed \in {{}} \cup {{x} : x \in Holders} : Allot(h, freed, s, n)

Spec == Init /\ [][Next]_grant

(* No slot is granted beyond its capacity.                                 *)
WithinCapacity == \A s \in Slots : Cardinality(Places(grant, s)) <= Capacity
=============================================================================
