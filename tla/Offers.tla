------------------------------- MODULE Offers --------------------------------
(***************************************************************************)
(* What the date picker offers (bookings/availability, bookings.service):  *)
(* a day's slots, activities and sessions with their levels, built by one  *)
(* query after another while other guests hold, book and leave places and  *)
(* the desk edits the calendar (ops.service); and what a hold or a booking *)
(* is then granted (capacity.reservePlaces, whose locking Places models).  *)
(***************************************************************************)
EXTENDS Integers, Sequences, FiniteSets, FiniteSetsExt, Sums

CONSTANTS
  Parties, Unbooked,
  Wants,          \* what a party asks for: slot, guests, lines
  Activities,     \* experiences with a limit or sessions
  flat,           \* those priced per unit, not per person
  Times, noon,    \* start times, in order, and the first an afternoon arrival can take
  Calendars,      \* settings rows the back office may save
  DefaultSlotCapacity, None

VARIABLES
  settings,       \* the rows of the calendar
  booked, held,   \* what each party has booked, what it holds
  page,           \* a page being built or shown: its reads so far
  offered,        \* history: keys that had room at some moment since the page began
  crossed         \* history: a hold became a booking, or the page's calendar was replaced, meanwhile
offerVars == <<settings, booked, held, page, offered, crossed>>

Slots == {"morning", "afternoon"}
Kinds == <<"slot", "activity", "session">>
Keys == ({"slot"} \X {"all"} \X Slots) \cup ({"activity"} \X Activities \X Slots) \cup ({"session"} \X Activities \X Times)
KeysOf(kind) == {k \in Keys : k[1] = kind}
NoPage == [reads |-> 0, cal |-> None, count |-> [k \in Keys |-> 0]]

\* The calendar as the settings keep it; None where an experience has no limit or no seats of its own.
CalendarRows ==
  [slots : Nat, closures : SUBSET [from : Int, to : Int, slot : {"all"} \cup Slots], times : [Activities -> SUBSET Times],
   seats : [Activities -> Nat \cup {None}], caps : [Activities -> [Slots -> Nat \cup {None}]]]

ASSUME OffersAssumption ==
  /\ IsFiniteSet(Parties) /\ Times \subseteq Nat /\ None \notin Nat /\ DefaultSlotCapacity \in Nat \ {0}
  /\ Calendars \subseteq CalendarRows
  /\ \A w \in Wants : w # Unbooked /\ w.slot \in Slots /\ w.guests \in Nat /\ IsFiniteSet(w.lines)
                      /\ \A l \in w.lines : l.guests \in Nat /\ l.units \in Nat \cup {None}

OffersTypeOK ==
  /\ settings \in CalendarRows /\ offered \subseteq Keys /\ crossed \in BOOLEAN
  /\ booked \in [Parties -> Wants \cup {Unbooked}] /\ held \in [Parties -> Wants \cup {Unbooked}]
  /\ page.reads \in 0..6 /\ page.count \in [Keys -> Nat]

OffersInit ==
  /\ settings \in Calendars /\ booked = [p \in Parties |-> Unbooked] /\ held = booked
  /\ page = NoPage /\ offered = {} /\ crossed = FALSE

(***************************************************************************)
(* The calendar, and what is taken.                                        *)
(***************************************************************************)
parseSlotCapacity(raw) == IF raw.slots > 0 THEN raw.slots ELSE DefaultSlotCapacity
parseClosures(raw) == {[c EXCEPT !.to = Max({c.from, c.to})] : c \in raw.closures}
parseSessions(raw) == {a \in Activities : raw.times[a] # {}}
parseCalendar(raw) ==
  [slots |-> parseSlotCapacity(raw), closures |-> parseClosures(raw), caps |-> raw.caps,
   times |-> raw.times, seats |-> raw.seats, sessioned |-> parseSessions(raw)]

\* The day on the page is day 1.
closureFor(cal, slot) == \E c \in cal.closures : c.from <= 1 /\ 1 <= c.to /\ c.slot \in {"all", slot}
sessionsForSlot(cal, a, slot) == IF slot = "morning" THEN cal.times[a] ELSE {t \in cal.times[a] : t >= noon}

capacityOf(cal, k) ==
  CASE k[1] = "slot" -> cal.slots
    [] k[1] = "activity" -> cal.caps[k[2]][k[3]]
    [] k[1] = "session" -> IF k[3] \in cal.times[k[2]] THEN cal.seats[k[2]] ELSE None

\* A line counts its guests, or its units when it is priced by those; one sent without units
\* (None) is checked as one and stored with none.
lineTakes(l) == IF l.id \notin flat THEN l.guests ELSE IF l.units = None THEN 0 ELSE l.units
wanted(l) == IF l.id \in flat /\ l.units = None THEN 1 ELSE lineTakes(l)
takes(w, k) ==
  LET of(lines) == SumOf(lines, [l \in w.lines |-> lineTakes(l)]) IN
  IF w = Unbooked THEN 0
  ELSE CASE k[1] = "slot" -> IF w.slot = k[3] THEN w.guests ELSE 0
         [] k[1] = "activity" -> IF w.slot = k[3] THEN of({l \in w.lines : l.id = k[2]}) ELSE 0
         [] k[1] = "session" -> of({l \in w.lines : l.id = k[2] /\ l.time = k[3]})
taken(rows, k, but) == SumOf(Parties \ but, [p \in Parties |-> takes(rows[p], k)])

\* reservePlaces: the slot, then each line with its session and its activity; p's own hold does not count.
\* One grant at a time: how those of a date's two slots race for a session is module Places.
granted(w, own) ==
  LET cal == parseCalendar(settings)
      have(k) == taken(booked, k, {}) + taken(held, k, own)
      full(k, n) == capacityOf(cal, k) # None /\ have(k) + n > capacityOf(cal, k)
  IN /\ ~closureFor(cal, w.slot)
     /\ ~full(<<"slot", "all", w.slot>>, w.guests)
     /\ \A l \in {x \in w.lines : wanted(x) > 0} :
          /\ l.time # None => /\ l.time \in sessionsForSlot(cal, l.id, w.slot)
                              /\ ~full(<<"session", l.id, l.time>>, wanted(l))
          /\ ~full(<<"activity", l.id, w.slot>>, wanted(l))

(***************************************************************************)
(* Guests and desk.                                                        *)
(***************************************************************************)
\* A page that is complete has been sent.
Leave == page' = IF page.reads = 6 THEN NoPage ELSE page

\* An earlier hold of the same guest is replaced.
hold(p, w) ==
  /\ booked[p] = Unbooked /\ granted(w, {p}) /\ held' = [held EXCEPT ![p] = w]
  /\ crossed' = (crossed \/ held[p] # Unbooked) /\ Leave /\ UNCHANGED <<settings, booked>>

book(p, w) ==
  /\ booked[p] = Unbooked /\ granted(w, {p})
  /\ booked' = [booked EXCEPT ![p] = w] /\ held' = [held EXCEPT ![p] = Unbooked]
  /\ crossed' = (crossed \/ held[p] # Unbooked) /\ Leave /\ UNCHANGED settings

releaseHold(p) ==   \* or its ten minutes are over
  /\ held[p] # Unbooked /\ held' = [held EXCEPT ![p] = Unbooked] /\ Leave /\ UNCHANGED <<settings, booked, crossed>>

cancelBooking(p) ==
  /\ booked[p] # Unbooked /\ booked' = [booked EXCEPT ![p] = Unbooked] /\ Leave /\ UNCHANGED <<settings, held, crossed>>

saveCalendar(raw) ==
  /\ settings' = [raw EXCEPT !.slots = IF raw.slots = 0 THEN settings.slots ELSE raw.slots] /\ settings' # settings
  /\ crossed' = TRUE /\ Leave /\ UNCHANGED <<booked, held>>

(***************************************************************************)
(* The page.                                                               *)
(***************************************************************************)
\* A fresh page reads the calendar first.
availability ==
  /\ page' = [NoPage EXCEPT !.cal = parseCalendar(settings)] /\ crossed' = FALSE
  /\ UNCHANGED <<settings, booked, held>>

Counted(rows, kind) == [k \in Keys |-> page.count[k] + IF k[1] = kind THEN taken(rows, k, {}) ELSE 0]

\* Mutant: places held mid-form are free until they are booked.
addHeldGuestsNot(kind) == page.count

addHeldGuests(kind) == Counted(held, kind)

\* Bookings and live holds are two queries for each kind.
addBookedLoads ==
  /\ page.cal # None /\ page.reads \in {0, 2, 4}
  /\ page' = [page EXCEPT !.reads = @ + 1, !.count = Counted(booked, Kinds[page.reads \div 2 + 1])]
  /\ UNCHANGED <<settings, booked, held, crossed>>

tallyTaken ==
  /\ page.reads \in {1, 3, 5}
  /\ page' = [page EXCEPT !.reads = @ + 1, !.count = addHeldGuests(Kinds[page.reads \div 2 + 1])]
  /\ UNCHANGED <<settings, booked, held, crossed>>

busyLevel(guests, capacity) ==
  IF guests >= capacity THEN "full" ELSE IF 10 * guests >= 7 * capacity THEN "very-busy"
  ELSE IF 20 * guests >= 7 * capacity THEN "busy" ELSE "quiet"
activityLevel(n, cap) ==
  IF cap = None THEN "quiet" ELSE IF n >= cap THEN "full" ELSE IF 10 * n >= 7 * cap THEN "busy" ELSE "quiet"

applySlotLevels(cal, count) ==
  [s \in Slots |-> IF closureFor(cal, s) THEN "closed" ELSE busyLevel(count[<<"slot", "all", s>>], cal.slots)]
applyActivityLevels(cal, count) ==
  [k \in KeysOf("activity") |-> activityLevel(count[k], capacityOf(cal, k))]
applySessionLevels(cal, count) ==
  [k \in {x \in KeysOf("session") : x[3] \in cal.times[x[2]]} |-> activityLevel(count[k], capacityOf(cal, k))]

shows(cal, count) ==
  [slot |-> applySlotLevels(cal, count),
   activity |-> applyActivityLevels(cal, count), session |-> applySessionLevels(cal, count)]

Truth == [k \in Keys |-> taken(booked, k, {}) + taken(held, k, {})]
HasRoom == {k \in Keys : capacityOf(parseCalendar(settings), k) = None \/ Truth[k] < capacityOf(parseCalendar(settings), k)}

OffersNext ==
  /\ \/ \E p \in Parties, w \in Wants : hold(p, w) \/ book(p, w)
     \/ \E p \in Parties : releaseHold(p) \/ cancelBooking(p)
     \/ \E raw \in Calendars : saveCalendar(raw)
     \/ availability \/ addBookedLoads \/ tallyTaken
  /\ offered' = IF page'.cal = None THEN {} ELSE IF page'.reads = 0 THEN HasRoom' ELSE offered \cup HasRoom'

-----------------------------------------------------------------------------
(* What the picker calls full or closed is refused, and anything else is   *)
(* granted to a party of one - slots, activities and sessions, per person  *)
(* and per unit alike (availability.ts beside capacity.ts).  It is about    *)
(* the rows alone, so moments without a page under way are enough.         *)
ShownIsGranted ==
  page = NoPage =>
  LET cal == parseCalendar(settings)
      now == shows(cal, Truth)
      single(s, ls) == [slot |-> s, guests |-> 1, lines |-> ls]
      line(a, t) == [id |-> a, guests |-> 1, units |-> 1, time |-> t]
  IN \A s \in Slots :
       LET welcome == now.slot[s] \notin {"full", "closed"} IN
       /\ granted(single(s, {}), {}) = welcome
       /\ \A a \in Activities :
            granted(single(s, {line(a, None)}), {}) = (welcome /\ now.activity[<<"activity", a, s>>] # "full")
       /\ \A a \in Activities : \A t \in sessionsForSlot(cal, a, s) :
            granted(single(s, {line(a, t)}), {}) =
              (welcome /\ now.activity[<<"activity", a, s>>] # "full" /\ now.session[<<"session", a, t>>] # "full")

(* A page built from one query after another offers no place that was not  *)
(* free at some moment while it was built, unless a hold became a booking  *)
(* between two of them or the calendar was replaced (availability).        *)
NoPhantomOffer ==
  page.reads = 6 /\ ~crossed =>
    LET s == shows(page.cal, page.count) IN
    /\ \A slot \in Slots : s.slot[slot] \notin {"full", "closed"} => <<"slot", "all", slot>> \in offered
    /\ \A k \in DOMAIN s.activity : s.activity[k] # "full" => k \in offered
    /\ \A k \in DOMAIN s.session : s.session[k] # "full" => k \in offered

OffersHold == ShownIsGranted /\ NoPhantomOffer
=============================================================================
