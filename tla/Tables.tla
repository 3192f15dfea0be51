-------------------------------- MODULE Tables ---------------------------------
(***************************************************************************)
(* Tables at the park's restaurants (reservations): guests ask for one on  *)
(* the website, the desk confirms or cancels it, and e-mails go out after  *)
(* each - started and not waited for, so they may overtake each other, or  *)
(* fail.                                                                   *)
(***************************************************************************)
EXTENDS Integers, FiniteSets, FiniteSetsExt, Functions

CONSTANTS
  Waiters,         \* operators' requests in progress
  Requests,        \* bound: tables ever asked for
  Askings,         \* what a guest asks for: the day, and whether with an e-mail address or a phone
  ListLimit,       \* rows of the desk's list
  MaxDecisions, LastTableDay   \* bounds

ASSUME TablesAssumption ==
  /\ \A ask \in Askings : ask.day \in Nat /\ ask.email \in BOOLEAN /\ ask.phone \in BOOLEAN
  /\ IsFiniteSet(Requests) /\ ListLimit \in Nat

VARIABLES
  tableDay,
  table,         \* table_reservations
  waiter,        \* the desk's requests, by table
  onItsWay,      \* e-mails started: to whom, about which table, with which status
  guestKnows, deskKnows,   \* per table, the status of the last e-mail that arrived
  blurred,       \* history: tables decided on twice at once, or with e-mails that overtook or failed
  decisions
tableVars == <<tableDay, table, waiter, onItsWay, guestKnows, deskKnows, blurred, decisions>>

NoTable == [status |-> "none"]
NoWaiter == [step |-> "idle"]
Reserved == {r \in Requests : table[r] # NoTable}

TablesTypeOK ==
  /\ \A r \in Reserved : table[r].status \in {"requested", "confirmed", "cancelled"}
  /\ \A m \in onItsWay : m.of \in Reserved
  /\ blurred \subseteq Requests

TablesInit ==
  /\ tableDay = 0 /\ table = [r \in Requests |-> NoTable] /\ waiter = [w \in Waiters |-> NoWaiter] /\ onItsWay = {}
  /\ guestKnows = [r \in Requests |-> "none"] /\ deskKnows = [r \in Requests |-> "none"] /\ blurred = {} /\ decisions = 0

MailTo(who, r, status) == [to |-> who, of |-> r, status |-> status]
Underway(who, r) == {m \in onItsWay : m.to = who /\ m.of = r}

\* A guest without an e-mail address is not written to.
Started(r, row, status) == IF row.email THEN {MailTo("guest", r, status)} ELSE {}

createReservation(r, ask) ==
  /\ table[r] = NoTable /\ ask.day >= tableDay /\ (ask.email \/ ask.phone)
  /\ table' = [table EXCEPT ![r] = [status |-> "requested", day |-> ask.day, email |-> ask.email]]
  /\ onItsWay' = onItsWay \cup {MailTo("desk", r, "requested")} \cup Started(r, ask, "requested")
  /\ UNCHANGED <<tableDay, waiter, guestKnows, deskKnows, blurred, decisions>>

Decides(r) == {w \in Waiters : waiter[w] # NoWaiter /\ waiter[w].of = r}

setReservation(w, r, status) ==
  /\ waiter[w] = NoWaiter /\ table[r] # NoTable /\ decisions < MaxDecisions /\ decisions' = decisions + 1
  /\ waiter' = [waiter EXCEPT ![w] = [step |-> "save", of |-> r, status |-> status]]
  /\ blurred' = IF Decides(r) = {} THEN blurred ELSE blurred \cup {r}
  /\ UNCHANGED <<tableDay, table, onItsWay, guestKnows, deskKnows>>

saveReservation(w) ==
  /\ waiter[w].step = "save"
  /\ table' = [table EXCEPT ![waiter[w].of].status = waiter[w].status]
  /\ waiter' = [waiter EXCEPT ![w].step = "tell"]
  /\ UNCHANGED <<tableDay, onItsWay, guestKnows, deskKnows, blurred, decisions>>

\* The guest hears the status just written.
tellGuest(w) ==
  LET r == waiter[w].of  mail == Started(r, table[r], waiter[w].status) IN
  /\ waiter[w].step = "tell" /\ waiter' = [waiter EXCEPT ![w] = NoWaiter]
  /\ onItsWay' = onItsWay \cup mail
  /\ blurred' = IF mail # {} /\ Underway("guest", r) # {} THEN blurred \cup {r} ELSE blurred
  /\ UNCHANGED <<tableDay, table, guestKnows, deskKnows, decisions>>

\* external: the mail server, in any order.
mailArrives(m) ==
  /\ onItsWay' = onItsWay \ {m}
  /\ IF m.to = "guest" THEN guestKnows' = [guestKnows EXCEPT ![m.of] = m.status] /\ UNCHANGED deskKnows
     ELSE deskKnows' = [deskKnows EXCEPT ![m.of] = m.status] /\ UNCHANGED guestKnows
  /\ UNCHANGED <<tableDay, table, waiter, blurred, decisions>>

\* Logged, and the request has been answered all the same.
mailFails(m) ==
  /\ onItsWay' = onItsWay \ {m} /\ blurred' = blurred \cup {m.of}
  /\ UNCHANGED <<tableDay, table, waiter, guestKnows, deskKnows, decisions>>

TableDayPasses == tableDay < LastTableDay /\ tableDay' = tableDay + 1
                  /\ UNCHANGED <<table, waiter, onItsWay, guestKnows, deskKnows, blurred, decisions>>

\* Of the statuses asked for: soonest first, past days included, no more than the limit; ties are the database's choice.
Soonest(rows) ==
  {s \in [1..Cardinality(rows) -> rows] : Range(s) = rows /\ \A i, j \in DOMAIN s : i < j => table[s[i]].day <= table[s[j]].day}
listReservations(statuses) ==
  LET rows == {r \in Reserved : table[r].status \in statuses} IN
  {Restrict(s, 1..Min({ListLimit, Cardinality(rows)})) : s \in Soonest(rows)}

TablesNext ==
  \/ \E r \in Requests, ask \in Askings : createReservation(r, ask)
  \/ \E w \in Waiters :
       \/ \E r \in Requests, status \in {"confirmed", "cancelled"} : setReservation(w, r, status)
       \/ saveReservation(w) \/ tellGuest(w)
  \/ \E m \in onItsWay : mailArrives(m) \/ mailFails(m)
  \/ TableDayPasses

-----------------------------------------------------------------------------
(* Once everything has arrived the guest, if they can be written to, knows *)
(* the status of their table and the desk knows of it; not so where two    *)
(* operators decided at once, or e-mails overtook each other or failed     *)
(* (create, acknowledge, setStatus, notifyReservation).                    *)
GuestKnowsTable ==
  \A r \in Reserved \ blurred :
    Decides(r) = {} /\ {m \in onItsWay : m.of = r} = {} =>
      /\ deskKnows[r] = "requested"
      /\ guestKnows[r] = IF table[r].email THEN table[r].status ELSE "none"

(* What the desk's list leaves out is no sooner than what it shows (list). *)
ListIsSoonest ==
  \A statuses \in {{"requested"}, {"requested", "confirmed", "cancelled"}} : \A list \in listReservations(statuses) :
    \A r \in Reserved \ Range(list), s \in Range(list) : table[r].status \in statuses => table[s].day <= table[r].day

TablesHold == GuestKnowsTable /\ ListIsSoonest
=============================================================================
