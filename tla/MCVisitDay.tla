----------------------------- MODULE MCVisitDay -----------------------------
(* A booking once it is sold - its price, its guests' visit, the reminder  *)
(* before it - and what a guest is shown meanwhile: the park's board, the  *)
(* exchange rates, the weather and the catalog - and the rules the gate    *)
(* and the waiver form go by.  They share no state, so each behaviour      *)
(* moves one of them.                                                      *)
EXTENDS Visits, Prices, Reminders, LiveBoard, Rates, Forecast, GateRules, TLC

CONSTANTS p1, p2, p3, x1, x2, g1, usd, eur, gbp

\* Six options: three adventures per person, one of them with a price of its own for each rate; a flat
\* one; a senior product residents alone may book; a student one priced in pairs.
Row == [product |-> FALSE, of |-> "x", mode |-> "pp", adventure |-> TRUE, family |-> "none",
        base |-> 100, rr |-> 0, nr |-> 0, pair |-> 0, only |-> "both"]
MCOffer ==
  [zip |-> [Row EXCEPT !.of = "zip", !.rr = 101, !.nr = 205],
   quad |-> [Row EXCEPT !.of = "quad"],
   kayak |-> [Row EXCEPT !.of = "kayak", !.base = 70, !.rr = 50],
   buggy |-> [Row EXCEPT !.of = "buggy", !.mode = "flat", !.base = 300],
   senior |-> [Row EXCEPT !.product = TRUE, !.adventure = FALSE, !.family = "senior", !.only = "rr"],
   pupils |-> [Row EXCEPT !.product = TRUE, !.adventure = FALSE, !.family = "student", !.mode = "pair", !.pair = 150]]
MCOptions == DOMAIN MCOffer
MCEntry == [rr |-> [adult |-> 400, child |-> 275], nr |-> [adult |-> 550, child |-> 325]]
MCCoupon == [kind |-> "percent", value |-> 10, code |-> TRUE]
MCParties == {[adults |-> n[1], kids |-> n[2], infants |-> n[3]] : n \in {<<1, 0, 0>>, <<2, 1, 1>>, <<2, 1, 0>>, <<3, 0, 0>>}}

Riders(a, k) == [None EXCEPT !.a = a, !.k = k]
Basket(some) == some @@ [o \in MCOptions |-> None]
MCBaskets ==
  {Basket(<<>>), Basket([zip |-> Riders(2, 0), senior |-> Riders(1, 0)]),
   Basket([zip |-> Riders(1, 2), quad |-> Riders(1, 0), buggy |-> [None EXCEPT !.u = 1]]),
   Basket([kayak |-> Riders(1, 1), pupils |-> Riders(2, 1)])}
MCCounts == {Riders(1, 0), Riders(0, 1), Riders(1, 2), [None EXCEPT !.u = 1]}
MCAdjustments == {[kind |-> "foc", value |-> 0], [kind |-> "none", value |-> 0], [kind |-> "amount", value |-> 500]}

\* A zipline for twelve and over with a weight, a buggy to drive, a pony for the small, a walk
\* without limits, and a package of the zipline and the pony.
Limit(of, min, max) == [of |-> of, min |-> min, max |-> max]
MCRides == {"zip", "buggy", "pony", "walk"}
MCItems == MCRides \cup {"package"}
MCActivities == [i \in MCItems |-> IF i = "package" THEN {"zip", "pony"} ELSE {i}]
MCLimits == [zip |-> {Limit("age", 12, 999), Limit("kg", 40, 120)}, buggy |-> {Limit("drive", 16, 999)},
             pony |-> {Limit("age", 3, 12)}, walk |-> {}]
MCGateParties ==
  {[adults |-> n[1], kids |-> n[2], infants |-> n[3], group |-> n[4]] :
     n \in {<<1, 0, 0, FALSE>>, <<2, 1, 1, FALSE>>, <<1, 2, 2, FALSE>>, <<2, 0, 1, FALSE>>, <<1, 2, 0, TRUE>>}}
MCParticipants == {[age |-> a, kg |-> w] : a \in {2, 4, 8, 14, 30}, w \in {30, 70, 130}}

VARIABLE part
dayVars == <<part, visitVars, priceVars, reminderVars, boardVars, ratesVars, forecastVars, gateVars>>

DayInit ==
  /\ part \in {"visit", "price", "reminder", "board", "rates", "forecast", "gate"}
  /\ VisitInit /\ PriceInit /\ RemindersInit /\ BoardInit /\ RatesInit /\ ForecastInit /\ GateInit
  /\ part # "visit" => row.party = 1
  /\ part # "gate" => group.adults = 1 /\ ~group.group /\ group.infants = 0
  /\ part # "reminder" => \A g \in Guests : unsigned[g]

DayNext ==
  /\ UNCHANGED part
  /\ \/ /\ part = "visit" /\ VisitNext
        /\ UNCHANGED <<priceVars, reminderVars, boardVars, ratesVars, forecastVars, gateVars>>
     \/ /\ part = "price" /\ PriceNext
        /\ UNCHANGED <<visitVars, reminderVars, boardVars, ratesVars, forecastVars, gateVars>>
     \/ /\ part = "reminder" /\ RemindersNext
        /\ UNCHANGED <<visitVars, priceVars, boardVars, ratesVars, forecastVars, gateVars>>
     \/ /\ part = "board" /\ BoardNext
        /\ UNCHANGED <<visitVars, priceVars, reminderVars, ratesVars, forecastVars, gateVars>>
     \/ /\ part = "rates" /\ RatesNext
        /\ UNCHANGED <<visitVars, priceVars, reminderVars, boardVars, forecastVars, gateVars>>
     \/ /\ part = "forecast" /\ ForecastNext
        /\ UNCHANGED <<visitVars, priceVars, reminderVars, boardVars, ratesVars, gateVars>>
     \/ /\ part = "gate" /\ GateNext
        /\ UNCHANGED <<visitVars, priceVars, reminderVars, boardVars, ratesVars, forecastVars>>

DaySpec == DayInit /\ [][DayNext]_dayVars

-----------------------------------------------------------------------------
(* The parts stay well typed: above all, no amount of a booking falls below*)
(* nothing, and whoever waits for a fetch waits for one under way.         *)
DayTypeOK ==
  /\ VisitTypeOK /\ PricesTypeOK /\ RemindersTypeOK /\ BoardTypeOK
  /\ RatesTypeOK /\ ForecastTypeOK /\ GateTypeOK

(* What a guest is shown is as recent as the code means it to be: an open  *)
(* park pauses no activity; no rate is newer than the date beside the      *)
(* table, rates older than it (rows not posted yet) are asked for again    *)
(* after the retry period and not before, and the bundled table alone is   *)
(* shown only when a fetch failed; no catalog is older than the cache      *)
(* allows (park-status, exchange-rate, catalog).                           *)
ShownIsTrue == OpenMeansOpen /\ AsOfTrue /\ FirstWait /\ BankSpared /\ CatalogFresh

(* What a guest is shown never goes back: no rate or weather is replaced by*)
(* an older one, and a note of the board only by one sent for its activity *)
(* or by a save that was overtaken (live-ops, exchange-rate, weather).     *)
ShownNeverBack == BoardKept /\ RatesNeverOlder /\ WeatherForward

\* Requests of the visit, and the people who sign.
Symmetry == Permutations({p1, p2, p3}) \cup Permutations({x1, x2})
=============================================================================
