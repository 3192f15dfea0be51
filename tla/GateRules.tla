------------------------------ MODULE GateRules -----------------------------
(***************************************************************************)
(* What the gate checks (waivers/waiver-rules): who must sign, which rides *)
(* of the booking a participant's age, weight and height are compared with *)
(* on his waiver, and which the gate checks once for the party because     *)
(* their lines do not say who is on them.  Functions of the party and its  *)
(* lines; the actions only build a booking line by line.  Nobody under six *)
(* is on a line before all the children of six to eleven are.              *)
(***************************************************************************)
EXTENDS Integers, FiniteSets, FiniteSetsExt

CONSTANTS
  Rides,       \* activities
  Items,       \* what a line books: an experience or a package
  lineActivities, \* per item, the rides it puts people on
  Limits,      \* per ride, its limits: what is measured, and between which values
  NeedWaiver,  \* the rides that need a signature
  GateParties, \* bound: parties
  Participants, \* bound: ages and weights of participants
  MaxLines     \* bound: lines of a booking

ASSUME GateAssumption ==
  /\ lineActivities \in [Items -> SUBSET Rides] /\ NeedWaiver \subseteq Rides
  /\ Limits \in [Rides -> SUBSET [of : {"age", "drive", "kg"}, min : Nat, max : Nat]]
  /\ GateParties \subseteq [adults : Nat \ {0}, kids : Nat, infants : Nat, group : BOOLEAN]
  /\ Participants \subseteq [age : Nat, kg : Nat] /\ MaxLines \in Nat

VARIABLES
  group,  \* the party of the booking
  booked  \* its lines
gateVars == <<group, booked>>

Line == [item : Items, adults : Nat, kids : Nat]
Everyone == [adults |-> -1, kids |-> -1]  \* of a ride whose line counts no heads

GateInit == group \in GateParties /\ booked = {}

-----------------------------------------------------------------------------
(* A line of a booking.                                                    *)

assertLineFits(l, p) == l.adults <= p.adults /\ l.kids <= p.kids + p.infants

\* An experience for twelve and over takes no children; a package does.
assertAgeMinimums(l) ==
  l.kids > 0 => \A r \in Rides : lineActivities[l.item] = {r} => \A m \in Limits[r] : m.of # "age" \/ m.min < 12

addLine(l) ==
  /\ Cardinality(booked) < MaxLines
  /\ assertLineFits(l, group) /\ assertAgeMinimums(l)
  /\ booked' = booked \cup {l} /\ UNCHANGED group

GateNext ==
  \E i \in Items, a, k \in 0..(group.adults + group.kids + group.infants) :
    addLine([item |-> i, adults |-> a, kids |-> k])
GateSpec == GateInit /\ [][GateNext]_gateVars

-----------------------------------------------------------------------------
(* The rules.                                                              *)

LinesOf(r) == {l \in booked : r \in lineActivities[l.item]}
Heads(l) == l.adults + l.kids

\* The most people any line puts on each ride.
activitiesFor ==
  [r \in {x \in Rides : LinesOf(x) # {} /\ Limits[x] # {}} |->
     IF \E l \in LinesOf(r) : Heads(l) = 0 THEN Everyone
     ELSE [adults |-> Max({l.adults : l \in LinesOf(r)}), kids |-> Max({l.kids : l \in LinesOf(r)})]]

\* A line that counts only part of a band of ages.
partialOn(n) ==
  n # Everyone /\ (n.adults \in 1..(group.adults - 1) \/ n.kids \in 1..(group.kids - 1) \/ n.kids > group.kids)

gateChecks == {r \in DOMAIN activitiesFor : partialOn(activitiesFor[r])}

\* Mutant: some of the children are all of them.
onLineSome(age, n) ==
  IF age >= 12 THEN (IF n.adults <= 0 THEN "no" ELSE IF n.adults >= group.adults THEN "yes" ELSE "unknown")
  ELSE IF age >= 6 THEN (IF n.kids <= 0 THEN "no" ELSE "yes")
  ELSE IF n.kids <= group.kids THEN "no" ELSE "unknown"

onLine(age, n) ==
  IF age >= 12 THEN (IF n.adults <= 0 THEN "no" ELSE IF n.adults >= group.adults THEN "yes" ELSE "unknown")
  ELSE IF age >= 6 THEN (IF n.kids <= 0 THEN "no" ELSE IF n.kids >= group.kids THEN "yes" ELSE "unknown")
  ELSE IF n.kids <= group.kids THEN "no" ELSE "unknown"

activitiesOf(age) ==
  {r \in DOMAIN activitiesFor : activitiesFor[r] = Everyone \/ onLine(age, activitiesFor[r]) = "yes"}

Outside(p, m) == LET x == IF m.of = "kg" THEN p.kg ELSE p.age IN x < m.min \/ x > m.max

\* Too young or too heavy is stopped; too old, or too young to drive, is looked at.
Level(p, m) == IF m.of = "drive" \/ (m.of = "age" /\ p.age > m.max) THEN "check" ELSE "stop"

flagsFor(p) ==
  UNION {{[ride |-> r, level |-> Level(p, m)] : m \in {x \in Limits[r] : Outside(p, x)}} : r \in activitiesOf(p.age)}

Band(n, of) == IF n <= 0 \/ of <= 0 THEN "none" ELSE IF n >= of THEN "all" ELSE "some"

\* What the waiver form says of a ride, per band of ages.
ageBands(n) ==
  IF n = Everyone THEN [adults |-> "all", kids |-> "all", infants |-> "some"]
  ELSE [adults |-> Band(n.adults, group.adults), kids |-> Band(Min({n.kids, group.kids}), group.kids),
        infants |-> IF n.kids > group.kids THEN "some" ELSE "none"]

Signing == {l \in booked : lineActivities[l.item] \cap NeedWaiver # {}}
Signers(l) == IF Heads(l) > 0 THEN Heads(l) ELSE group.adults + group.kids

\* The largest line that needs a waiver, and every child under six.
waiverRequiredCount ==
  IF group.group THEN 1
  ELSE LET n == Max({0} \cup {Signers(l) : l \in Signing})
       IN  IF n = 0 THEN 0 ELSE Min({n, group.adults + group.kids}) + group.infants

-----------------------------------------------------------------------------
(* Who may be on a line, and who is on it whoever is chosen.               *)
BandOf(age) == IF age >= 12 THEN "adults" ELSE IF age >= 6 THEN "kids" ELSE "infants"
InParty == {p \in Participants : group[BandOf(p.age)] > 0}

MayRide(band, l) ==
  \/ Heads(l) = 0
  \/ band = "adults" /\ l.adults > 0
  \/ band = "kids" /\ l.kids > 0
  \/ band = "infants" /\ l.kids > group.kids
MustRide(band, l) ==
  Heads(l) = 0 \/ (band = "adults" /\ l.adults = group.adults) \/ (band = "kids" /\ l.kids >= group.kids)

GateTypeOK == group \in GateParties /\ \A l \in booked : l \in Line /\ l.adults <= group.adults

\* Whoever of the party may be on a ride outside one of its limits, the gate is
\* told: on his waiver, or by a check of the ride for the whole party - whatever
\* lines, of the ride or of packages with it, count him (waiver-rules gateChecks,
\* activitiesOf, flagsFor).
NobodySlips ==
  \A p \in InParty, l \in booked : MayRide(BandOf(p.age), l) =>
    \A r \in lineActivities[l.item] :
      (\E m \in Limits[r] : Outside(p, m)) => r \in gateChecks \/ \E f \in flagsFor(p) : f.ride = r

\* A warning on a waiver, which may refuse the arrival, is about a ride the
\* participant is on whoever of the party is chosen for it.
FlagsAreTrue ==
  \A p \in InParty : \A f \in flagsFor(p) : \E l \in LinesOf(f.ride) : MustRide(BandOf(p.age), l)

\* The form tells a participant what the gate will do: a ride of "all" his
\* band, and no other, is compared on his waiver, one of "some" is checked at the gate,
\* one of "none" he cannot be on (waiver-views ageBands against waiver-rules onLine).
FormAgrees ==
  \A p \in InParty, r \in DOMAIN activitiesFor :
    LET band == BandOf(p.age)
        said == ageBands(activitiesFor[r])[band]
    IN  /\ said = "none" <=> ~\E l \in LinesOf(r) : MayRide(band, l)
        /\ band # "infants" => (said = "all" <=> r \in activitiesOf(p.age))
        /\ said = "some" => r \in gateChecks \/ r \in activitiesOf(p.age)

\* As many sign as a single line may put on a ride that needs it, children under
\* six among them, and never more than come.
SignersEnough ==
  group.group \/
  /\ \A l \in Signing : (IF Heads(l) = 0 THEN group.adults + group.kids + group.infants ELSE Heads(l)) <= waiverRequiredCount
  /\ waiverRequiredCount <= group.adults + group.kids + group.infants

\* The gate is told all it must know, and nothing false, whatever lines the
\* party of the booking was given (the four statements above).
GateTold == NobodySlips /\ FlagsAreTrue /\ FormAgrees /\ SignersEnough
=============================================================================
