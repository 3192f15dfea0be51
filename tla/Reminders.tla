----------------------------- MODULE Reminders ------------------------------
(***************************************************************************)
(* The evening reminders (notifications/guest-messaging.service): every    *)
(* quarter of an hour a sweep lists tomorrow's confirmed bookings nobody   *)
(* has reminded, then goes through its list: it sends the reminder by      *)
(* e-mail and WhatsApp, marks the row, and, where waivers are missing,     *)
(* sends the waiver mail once and marks that too. Nothing holds the row    *)
(* meanwhile: sweeps may overlap (a slow one, or two servers), the desk    *)
(* may cancel or move a booking already listed, a channel may refuse a     *)
(* message, and a statement may fail and end the sweep. Mail and WhatsApp  *)
(* are external: any of the two may answer that it sent or that it did not.*)
(***************************************************************************)
EXTENDS Naturals, FiniteSets

CONSTANTS
  Sweeps,    \* bound: sweeps under way at once
  Guests,    \* bookings
  LastDay    \* bound: days 0 .. LastDay
ASSUME RemindersAssumption == LastDay \in Nat \ {0}

VARIABLES
  visitOn, bookingStatus,   \* of each booking
  unsigned,          \* its waivers are missing
  marked, nudgeMark, \* reminderSentAt, waiverReminderSentAt are set
  date, evening,     \* the park's clock, evening from REMINDER_HOUR
  sweep,             \* per sweep: what it still has to send, and the row in hand
  reminders, nudges, \* history: messages that went out, per booking
  excuse             \* history: bookings two sweeps had listed, or whose mark failed
reminderVars == <<visitOn, bookingStatus, unsigned, marked, nudgeMark, date, evening, sweep, reminders, nudges, excuse>>

Listed == [guest : Guests, nudged : BOOLEAN]
NoSweep == [todo |-> {}, step |-> "next", row |-> {}, missing |-> FALSE]

RemindersTypeOK ==
  /\ visitOn \in [Guests -> 0..LastDay] /\ bookingStatus \in [Guests -> {"confirmed", "cancelled"}]
  /\ unsigned \in [Guests -> BOOLEAN] /\ marked \in [Guests -> BOOLEAN] /\ nudgeMark \in [Guests -> BOOLEAN]
  /\ date \in 0..LastDay /\ evening \in BOOLEAN
  /\ reminders \in [Guests -> Nat] /\ nudges \in [Guests -> Nat] /\ excuse \subseteq Guests
  /\ \A w \in Sweeps :
       /\ sweep[w].todo \subseteq Listed /\ sweep[w].row \subseteq Listed
       /\ sweep[w].step \in {"next", "mark", "nudge", "markNudge"}
       /\ Cardinality(sweep[w].row) = (IF sweep[w].step = "next" THEN 0 ELSE 1)

RemindersInit ==
  /\ visitOn \in [Guests -> {1}] /\ bookingStatus = [g \in Guests |-> "confirmed"]
  /\ unsigned \in [Guests -> BOOLEAN]
  /\ marked = [g \in Guests |-> FALSE] /\ nudgeMark = [g \in Guests |-> FALSE]
  /\ date = 0 /\ evening = FALSE /\ sweep = [w \in Sweeps |-> NoSweep]
  /\ reminders = [g \in Guests |-> 0] /\ nudges = [g \in Guests |-> 0] /\ excuse = {}

SetSweep(w, s) == sweep' = [sweep EXCEPT ![w] = s]
InHand(w, g) == \E r \in sweep[w].row \cup sweep[w].todo : r.guest = g
Rows == <<visitOn, bookingStatus, unsigned, date, evening>>

(***************************************************************************)
(* A sweep.                                                                *)
(***************************************************************************)
dueReminders ==
  IF evening THEN {g \in Guests : visitOn[g] = date + 1 /\ bookingStatus[g] = "confirmed" /\ ~marked[g]} ELSE {}

\* The rows are read once; a booking another sweep has in hand is listed too.
sendDueReminders(w) ==
  /\ sweep[w] = NoSweep
  /\ SetSweep(w, [NoSweep EXCEPT !.todo = {[guest |-> g, nudged |-> nudgeMark[g]] : g \in dueReminders}])
  /\ excuse' = excuse \cup {g \in dueReminders : \E v \in Sweeps \ {w} : InHand(v, g)}
  /\ UNCHANGED <<Rows, marked, nudgeMark, reminders, nudges>>

\* Bound: messages are counted up to two, the second is already one too many.
Count(ledger, g, sent) == [ledger EXCEPT ![g] = IF sent /\ @ < 2 THEN @ + 1 ELSE @]

\* Mutant: marked only when every channel took it.
TakenByAll(email, wa) == email /\ wa

\* One channel is enough.
Taken(email, wa) == email \/ wa

\* The message goes out; the waivers are counted afresh, and a count that
\* cannot be read means none is missing.
sendReminder(w) ==
  /\ sweep[w].step = "next"
  /\ \E r \in sweep[w].todo, email, wa, counted \in BOOLEAN :
       /\ reminders' = Count(reminders, r.guest, email \/ wa)
       /\ SetSweep(w, [todo |-> sweep[w].todo \ {r}, row |-> {r}, missing |-> counted /\ unsigned[r.guest],
                       step |-> IF Taken(email, wa) THEN "mark" ELSE "nudge"])
  /\ UNCHANGED <<Rows, marked, nudgeMark, nudges, excuse>>

\* The column alone is written, whatever the row has become.
MarkReminded(w) ==
  /\ sweep[w].step = "mark"
  /\ \E r \in sweep[w].row : marked' = [marked EXCEPT ![r.guest] = TRUE]
  /\ SetSweep(w, [sweep[w] EXCEPT !.step = "nudge"])
  /\ UNCHANGED <<Rows, nudgeMark, reminders, nudges, excuse>>

Settled(w) == [sweep[w] EXCEPT !.step = "next", !.row = {}, !.missing = FALSE]

\* Once: the mark is the one the sweep read in its list.
NudgeDue(w, r) == sweep[w].missing /\ ~r.nudged

sendWaiverLink(w) ==
  /\ sweep[w].step = "nudge"
  /\ \E r \in sweep[w].row, sent \in BOOLEAN :
       IF NudgeDue(w, r)
       THEN /\ nudges' = Count(nudges, r.guest, sent)
            /\ SetSweep(w, IF sent THEN [sweep[w] EXCEPT !.step = "markNudge"] ELSE Settled(w))
       ELSE SetSweep(w, Settled(w)) /\ UNCHANGED nudges
  /\ UNCHANGED <<Rows, marked, nudgeMark, reminders, excuse>>

MarkNudged(w) ==
  /\ sweep[w].step = "markNudge"
  /\ \E r \in sweep[w].row : nudgeMark' = [nudgeMark EXCEPT ![r.guest] = TRUE]
  /\ SetSweep(w, Settled(w))
  /\ UNCHANGED <<Rows, marked, reminders, nudges, excuse>>

\* A mark cannot be written: the sweep ends, its list is left to the next.
SweepFails(w) ==
  /\ sweep[w].step \in {"mark", "markNudge"}
  /\ SetSweep(w, NoSweep) /\ excuse' = excuse \cup {r.guest : r \in sweep[w].row}
  /\ UNCHANGED <<Rows, marked, nudgeMark, reminders, nudges>>

(***************************************************************************)
(* The desk, the guests and the clock.                                     *)
(***************************************************************************)
\* An edit moves the visit; the marks of the earlier date stay on the row.
moveVisit(g) ==
  /\ \E d \in date..LastDay : d # visitOn[g] /\ visitOn' = [visitOn EXCEPT ![g] = d]
  /\ UNCHANGED <<bookingStatus, unsigned, marked, nudgeMark, date, evening, sweep, reminders, nudges, excuse>>
cancelVisit(g) ==
  /\ bookingStatus[g] = "confirmed" /\ bookingStatus' = [bookingStatus EXCEPT ![g] = "cancelled"]
  /\ UNCHANGED <<visitOn, unsigned, marked, nudgeMark, date, evening, sweep, reminders, nudges, excuse>>
signWaivers(g) ==
  /\ unsigned[g] /\ unsigned' = [unsigned EXCEPT ![g] = FALSE]
  /\ UNCHANGED <<visitOn, bookingStatus, marked, nudgeMark, date, evening, sweep, reminders, nudges, excuse>>
HoursPass ==
  /\ IF evening THEN date < LastDay /\ date' = date + 1 ELSE UNCHANGED date
  /\ evening' = ~evening
  /\ UNCHANGED <<visitOn, bookingStatus, unsigned, marked, nudgeMark, sweep, reminders, nudges, excuse>>

RemindersNext ==
  \/ \E w \in Sweeps : \/ sendDueReminders(w) \/ sendReminder(w) \/ MarkReminded(w)
                       \/ sendWaiverLink(w) \/ MarkNudged(w) \/ SweepFails(w)
  \/ \E g \in Guests : moveVisit(g) \/ cancelVisit(g) \/ signWaivers(g)
  \/ HoursPass

RemindersSpec == RemindersInit /\ [][RemindersNext]_reminderVars

(***************************************************************************)
(* Properties.                                                             *)
(***************************************************************************)
\* However late a sweep runs and whatever happens to the bookings on its list,
\* a guest is reminded once and sent the waiver mail once; only sweeps that
\* overlap on the booking, or a mark that could not be written, repeat either
\* (guest-messaging.service sendReminder, "once").
OneOfEach == \A g \in Guests \ excuse : reminders[g] <= 1 /\ nudges[g] <= 1
=============================================================================
