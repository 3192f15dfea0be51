------------------------------- MODULE Prices -------------------------------
(***************************************************************************)
(* The money of one booking: how a new order is priced (bookings/pricing), *)
(* and how the desk's drawer and the guest's ticket page re-price it when  *)
(* the party, the rate, the lines or the adjustment move                   *)
(* (staff-bookings.service, booking-patch). Each call runs under the lock  *)
(* of the booking's row, so a call is one step; the races on the row are   *)
(* in Visits and Places. A line is a count per bookable option: an         *)
(* experience with its variant, or a product. Amounts are rupees; an       *)
(* option's price is that of the season, the catalog the prices are read   *)
(* from.                                                                   *)
(***************************************************************************)
EXTENDS FiniteSets, Sums

CONSTANTS
  Options,      \* what a line can be for
  Offer,        \* the catalog row of each option
  EntryPrice,   \* park entry per rate: adult, child
  Coupon,       \* the code the park gave out: kind, value
  Parties,      \* bound: parties that ever come
  Baskets,      \* bound: lists of lines a new order may ask for
  Counts,       \* bound: counts an edit may put on a line
  Adjustments,  \* bound: manual adjustments the desk gives
  Seasons,      \* bound: price lists, 1 .. Seasons
  MaxEdits      \* bound: edits of the booking
ASSUME PricesAssumption ==
  /\ Parties \subseteq [adults : Nat \ {0}, kids : Nat, infants : Nat] /\ IsFiniteSet(Parties)
  /\ IsFiniteSet(Options) /\ Baskets \subseteq [Options -> [a : Nat, k : Nat, u : Nat]]
  /\ Counts \subseteq [a : Nat, k : Nat, u : Nat] /\ \A c \in Counts : c.a + c.k + c.u > 0
  /\ \A o \in Options : Offer[o].base \in Nat \ {0} /\ {Offer[o].rr, Offer[o].nr, Offer[o].pair} \subseteq Nat
  /\ EntryPrice \in [{"rr", "nr"} -> [adult : Nat, child : Nat]]
  /\ Coupon \in [kind : {"percent", "amount", "foc", "entry_free"}, value : Nat, code : {TRUE}]
  /\ Adjustments \subseteq [kind : {"none", "percent", "amount", "foc", "entry_free"}, value : Nat]
  /\ Seasons \in Nat \ {0} /\ MaxEdits \in Nat

VARIABLES
  party, rate,   \* the booking's party and rate
  lines,         \* its paid lines, the people or units of each
  amount,        \* what each line was priced at
  money,         \* entryAmount, subtotal, discount, adjustmentAmount, total
  adj,           \* adjustmentKind, adjustmentValue, couponCode
  season,        \* the price list in force
  edits,         \* edits made, up to MaxEdits
  priced,        \* history: the price list the booking was last priced from
  overruled      \* history: a code was applied and another kind stored
priceVars == <<party, rate, lines, amount, money, adj, season, edits, priced, overruled>>

Rates == {"rr", "nr"}
None == [a |-> 0, k |-> 0, u |-> 0]
Plain == [kind |-> "none", value |-> 0, code |-> FALSE]
NotBooked == [adults |-> 0, kids |-> 0, infants |-> 0]

PricesTypeOK ==
  /\ party \in Parties \cup {NotBooked} /\ rate \in Rates
  /\ lines \in [Options -> [a : Nat, k : Nat, u : Nat]] /\ amount \in [Options -> Nat]
  /\ money \in [entry : Nat, subtotal : Nat, discount : Nat, adjustment : Nat, total : Nat]
  /\ adj \in [kind : {"none", "percent", "amount", "foc", "entry_free"}, value : Nat, code : BOOLEAN]
  /\ season \in 1..Seasons /\ edits \in 0..MaxEdits /\ priced \in 1..Seasons /\ overruled \in BOOLEAN

PriceInit ==
  /\ party = NotBooked /\ rate = "rr" /\ lines = [o \in Options |-> None]
  /\ amount = [o \in Options |-> 0] /\ adj = Plain
  /\ money = [entry |-> 0, subtotal |-> 0, discount |-> 0, adjustment |-> 0, total |-> 0]
  /\ season = 1 /\ edits = 0 /\ priced = 1 /\ overruled = FALSE

(***************************************************************************)
(* Pricing a list of lines.                                                *)
(***************************************************************************)
Percent(n, share) == (n * share + 50) \div 100
Half(n) == (n + 1) \div 2
LeastOf(m, n) == IF m < n THEN m ELSE n

\* A resident price of 0 stands for none: both rates then pay the base price.
priceFor(o, r) ==
  season * (IF Offer[o].rr = 0 THEN Offer[o].base
            ELSE IF r = "nr" /\ Offer[o].nr # 0 THEN Offer[o].nr ELSE Offer[o].rr)

productAmount(o, r, c) ==
  LET persons == c.a + c.k
      single == priceFor(o, r)
  IN IF Offer[o].mode = "flat" THEN single * c.u
     ELSE IF Offer[o].mode = "pp" THEN single * persons
     ELSE (persons \div 2) * season * Offer[o].pair + (persons % 2) * single

experienceAmount(o, r, c) ==
  IF Offer[o].mode = "flat" THEN priceFor(o, r) * c.u
  ELSE priceFor(o, r) * c.a + Half(priceFor(o, r)) * c.k

\* A product sold by the unit is charged for one at least.
atLeastOne(c) == [c EXCEPT !.u = IF @ = 0 THEN 1 ELSE @]

amountOf(o, r, c) ==
  IF c = None THEN 0
  ELSE IF Offer[o].product THEN productAmount(o, r, atLeastOne(c)) ELSE experienceAmount(o, r, c)
amountsOf(r, ls) == [o \in Options |-> amountOf(o, r, ls[o])]

\* The people whose entry their lines already pay: expo and senior lines are
\* different people, student lines the same pupils.
paidFor(ls, side) ==
  LET ofFamilies(F) == {o \in Options : Offer[o].family \in F /\ ls[o] # None}
      pupils == {ls[o][side] : o \in ofFamilies({"student"})}
  IN SumOf(ofFamilies({"expo", "senior"}), [o \in Options |-> ls[o][side]])
       + (IF pupils = {} THEN 0 ELSE Max(pupils))

\* Mutant, uncapped: a line kept from a larger party lowers the entry below nothing.
entryCoverageUncapped(ls, p) == [adults |-> paidFor(ls, "a"), kids |-> paidFor(ls, "k")]

entryCoverage(ls, p) ==
  [adults |-> LeastOf(p.adults, paidFor(ls, "a")), kids |-> LeastOf(p.kids, paidFor(ls, "k"))]

entryOf(p, r, ls) ==
  LET cover == entryCoverage(ls, p)
  IN season * (EntryPrice[r].adult * (p.adults - cover.adults) + EntryPrice[r].child * (p.kids - cover.kids))

\* Three distinct adventures priced per person earn 15 % of what they cost.
explorerPass(r, ls) ==
  LET qualifying == {o \in Options : /\ ls[o] # None /\ Offer[o].adventure
                                     /\ Offer[o].mode = "pp" /\ amountOf(o, r, ls[o]) > 0}
  IN IF Cardinality({Offer[o].of : o \in qualifying}) >= 3
     THEN Percent(SumOf(qualifying, amountsOf(r, ls)), 15) ELSE 0

\* A product of the other rate, like an inactive one, is refused.
bookable(r, ls) == \A o \in Options : ls[o] # None => Offer[o].only \in {"both", r}

adjustmentAmount(a, entry, due) ==
  CASE a.kind = "foc" -> due
    [] a.kind = "percent" -> LeastOf(due, Percent(due, LeastOf(100, a.value)))
    [] a.kind = "amount" -> LeastOf(due, a.value)
    [] a.kind = "entry_free" -> LeastOf(due, entry)
    [] OTHER -> 0

computeBooking(p, r, ls, a) ==
  LET entry == entryOf(p, r, ls)
      subtotal == entry + SumOf(Options, amountsOf(r, ls))
      discount == explorerPass(r, ls)
      off == adjustmentAmount(a, entry, subtotal - discount)
  IN [entry |-> entry, subtotal |-> subtotal, discount |-> discount,
      adjustment |-> off, total |-> subtotal - discount - off]

\* The row and its lines are written together, at one price list.
Write(p, r, ls, a) ==
  /\ bookable(r, ls)
  /\ party' = p /\ rate' = r /\ lines' = ls /\ adj' = a
  /\ amount' = amountsOf(r, ls)
  /\ money' = computeBooking(p, r, ls, a)
  /\ priced' = season /\ UNCHANGED season

\* No line above the party: children within the children and the under-6s.
assertLinesFitParty(ls, p) ==
  \A o \in Options :
    /\ ls[o].a <= p.adults /\ ls[o].k <= p.kids + p.infants
    /\ ls[o].a + ls[o].k <= p.adults + p.kids + p.infants

\* The website's order, with the coupon's offer or none.
create(p, r, ls, coded) ==
  /\ party = NotBooked /\ assertLinesFitParty(ls, p)
  /\ Write(p, r, ls, IF coded THEN Coupon ELSE Plain)
  /\ UNCHANGED <<edits, overruled>>

(***************************************************************************)
(* Re-pricing an edit.                                                     *)
(***************************************************************************)
\* A line's count follows a side it covered whole, else stays within it.
fit(n, old, next) ==
  IF n = 0 THEN 0 ELSE IF old > 0 /\ n = old THEN next ELSE LeastOf(n, next)

fitLinesToParty(ls, from, to) ==
  [o \in Options |-> [a |-> fit(ls[o].a, from.adults, to.adults),
                      k |-> fit(ls[o].k, from.kids, to.kids), u |-> ls[o].u]]

\* What the patch's lines become: those asked for are clamped to the party,
\* the booking's own follow it when its adults or children move.
fitLines(patch, to) ==
  IF "items" \in DOMAIN patch THEN fitLinesToParty(patch.items, NotBooked, to)
  ELSE IF to.adults = party.adults /\ to.kids = party.kids THEN lines
  ELSE fitLinesToParty(lines, party, to)

\* A coupon's offer first, then what the patch says of the kind and value.
applyAdjustment(patch) ==
  LET coded == IF "code" \notin DOMAIN patch THEN adj
               ELSE IF patch.code THEN Coupon ELSE Plain
      said == IF "kind" \in DOMAIN patch
              THEN [coded EXCEPT !.kind = patch.kind, !.value = patch.value] ELSE coded
  IN IF said.kind = "none" THEN [said EXCEPT !.value = 0] ELSE said

PartyOf(patch) == [f \in DOMAIN party |-> IF f \in DOMAIN patch THEN patch[f] ELSE party[f]]
RateOf(patch) == IF "rate" \in DOMAIN patch THEN patch.rate ELSE rate
currentValue ==
  [adults |-> party.adults, kids |-> party.kids, infants |-> party.infants,
   rate |-> rate, kind |-> adj.kind, value |-> adj.value, code |-> adj.code]

\* Mutant: as if a new rate moved no money.
touchesMoneyButRate(patch) ==
  \E f \in DOMAIN patch \ {"rate"} : f = "items" \/ patch[f] # currentValue[f]

\* Every field of these patches is one of MONEY_FIELDS; lines sent always count as moved.
touchesMoney(patch) == \E f \in DOMAIN patch : f = "items" \/ patch[f] # currentValue[f]

reprice(patch) == Write(PartyOf(patch), RateOf(patch), fitLines(patch, PartyOf(patch)), applyAdjustment(patch))

saveEdit(patch) ==
  /\ party # NotBooked /\ edits < MaxEdits /\ edits' = edits + 1
  /\ IF touchesMoney(patch)
     THEN /\ reprice(patch)
          /\ overruled' = (overruled \/ ("code" \in DOMAIN patch /\ patch.code /\ adj'.kind # Coupon.kind))
     ELSE /\ party' = PartyOf(patch) /\ rate' = RateOf(patch)
          /\ UNCHANGED <<lines, amount, money, adj, season, priced, overruled>>

\* From the ticket page: the lines asked for, or kept, must fit the new party.
guestEdit(patch) ==
  /\ assertLinesFitParty(IF "items" \in DOMAIN patch THEN patch.items ELSE lines, PartyOf(patch))
  /\ saveEdit(patch)

OneLineMoved == {[lines EXCEPT ![o] = c] : o \in Options, c \in Counts \cup {None}}
PartyPatches == {p \in Parties : p # party}
GuestPatches == PartyPatches \cup {[items |-> ls] : ls \in OneLineMoved}
DeskPatches ==
  GuestPatches \cup {[rate |-> r] : r \in Rates} \cup {[code |-> c] : c \in BOOLEAN}
    \cup {[kind |-> a.kind, value |-> a.value, code |-> TRUE] : a \in Adjustments} \cup Adjustments

\* External: the park prints a new price list.
NewSeason ==
  /\ season < Seasons /\ season' = season + 1
  /\ UNCHANGED <<party, rate, lines, amount, money, adj, edits, priced, overruled>>

PriceNext ==
  \/ \E p \in Parties, r \in Rates, ls \in Baskets, coded \in BOOLEAN : create(p, r, ls, coded)
  \/ \E patch \in DeskPatches : saveEdit(patch)
  \/ \E patch \in GuestPatches : guestEdit(patch)
  \/ NewSeason

PriceSpec == PriceInit /\ [][PriceNext]_priceVars

(***************************************************************************)
(* Properties.                                                             *)
(***************************************************************************)
\* Whatever edits led here, the booking costs what a new order of its party,
\* rate, lines and adjustment cost on the price list it was last priced from,
\* and its lines add up to it (staff-bookings.service update, reprice).
PricedAsNew ==
  party # NotBooked /\ priced = season =>
    /\ money = computeBooking(party, rate, lines, adj)
    /\ money.subtotal = money.entry + SumOf(Options, amount)

\* Over any edits no line charges for more adults than come, nor for more
\* children than the party's children and the most under-6s a party brings
\* (booking-patch fitLinesToParty).
NobodyInvented ==
  party # NotBooked => \A o \in Options :
    lines[o].a <= party.adults /\ lines[o].k <= party.kids + Max({p.infants : p \in Parties})

\* An edited booking's price is right, no line is for adults who do not come,
\* nor for more children than the party's and the most under-6s any party brings.
PricesSound == PricedAsNew /\ NobodyInvented

\* A new party never leaves the lines charging for guests who are not coming
\* (the comment over staff-bookings.service fitLines).
NobodyGone == party # NotBooked => assertLinesFitParty(lines, party)

\* A coupon's offer wins over a manual kind (the comment over
\* staff-bookings.service applyAdjustment).
CouponWins == ~overruled
=============================================================================
