------------------------------- MODULE Coupons --------------------------------
(***************************************************************************)
(* The codes of the park (coupons): operators create them and switch them  *)
(* on and off, guests ask what a code gives, and their bookings count a    *)
(* use each.  An operator's save reads the row, reads it once more to see  *)
(* which columns differ, and updates those; a booking's use is counted     *)
(* under a row lock that it keeps to its commit.  One code.                *)
(***************************************************************************)
EXTENDS Naturals, FiniteSets

CONSTANTS
  Clerks,            \* operators' requests in progress
  Couples,           \* bound: bookings with the code
  Benefits,          \* what a code may give: value, first and last day, uses (or NoLimit)
  NoLimit,
  LastCouponDay, MaxClerkCalls   \* bounds
ASSUME CouponsAssumption ==
  /\ IsFiniteSet(Couples) /\ NoLimit \notin Nat
  /\ Benefits \subseteq [value : Nat, from : Nat, to : Nat, max : (Nat \ {0}) \cup {NoLimit}]

VARIABLES
  couponDay,
  coupon,        \* the row
  clerk,         \* the operators' requests, with the row they read and the columns they found to differ
  promised,      \* the bookings priced with the code, before their transaction
  redeemed,      \* the bookings committed with the code
  undone,        \* history: a use was counted between the two readings of a save, or a code created twice
  clerkCalls
couponVars == <<couponDay, coupon, clerk, promised, redeemed, undone, clerkCalls>>

NoCoupon == [active |-> FALSE, offer |-> [value |-> 0], uses |-> 0]
NoClerk == [step |-> "idle"]
Busy(k) == clerk[k] # NoClerk

CouponsTypeOK ==
  /\ coupon.uses \in 0..Cardinality(Couples) /\ redeemed \subseteq promised /\ promised \subseteq Couples
  /\ \A k \in Clerks : clerk[k].step \in {"idle", "look", "insert", "compare", "update"}

CouponsInit ==
  /\ couponDay = 0 /\ coupon = NoCoupon /\ clerk = [k \in Clerks |-> NoClerk] /\ undone = FALSE
  /\ promised = {} /\ redeemed = {} /\ clerkCalls = 0

Clerk(k, c) == clerk' = [clerk EXCEPT ![k] = c]
AskClerk(k, c) == ~Busy(k) /\ clerkCalls < MaxClerkCalls /\ clerkCalls' = clerkCalls + 1 /\ Clerk(k, c)

\* Refused with the reason; a used-up code too.
couponValid ==
  /\ coupon # NoCoupon /\ coupon.active /\ coupon.offer.from <= couponDay /\ couponDay <= coupon.offer.to
  /\ coupon.offer.max # NoLimit => coupon.uses < coupon.offer.max

resolveCoupon(b) ==
  /\ couponValid /\ b \notin redeemed /\ promised' = promised \cup {b}
  /\ UNCHANGED <<couponDay, coupon, clerk, redeemed, undone, clerkCalls>>

\* Dates are not looked at again.
consume(b) ==
  /\ b \in promised \ redeemed
  /\ coupon.active /\ (coupon.offer.max # NoLimit => coupon.uses < coupon.offer.max)
  /\ coupon' = [coupon EXCEPT !.uses = @ + 1] /\ redeemed' = redeemed \cup {b}
  /\ undone' = (undone \/ \E k \in Clerks : clerk[k].step = "compare")
  /\ UNCHANGED <<couponDay, clerk, promised, clerkCalls>>

(***************************************************************************)
(* Operators.                                                              *)
(***************************************************************************)
createCoupon(k, o) ==
  /\ coupon = NoCoupon /\ AskClerk(k, [step |-> "look", offer |-> o])
  /\ UNCHANGED <<couponDay, coupon, promised, redeemed, undone>>

\* The save looks for the code itself: one created meanwhile is overwritten, its uses are kept.
lookAgain(k) ==
  /\ clerk[k].step = "look"
  /\ IF coupon = NoCoupon THEN Clerk(k, [clerk[k] EXCEPT !.step = "insert"]) /\ UNCHANGED <<coupon, undone>>
     ELSE coupon' = [coupon EXCEPT !.offer = clerk[k].offer, !.active = TRUE] /\ undone' = TRUE /\ Clerk(k, NoClerk)
  /\ UNCHANGED <<couponDay, promised, redeemed, clerkCalls>>

\* A second insert of the code fails.
insertCoupon(k) ==
  /\ clerk[k].step = "insert" /\ Clerk(k, NoClerk)
  /\ coupon' = IF coupon = NoCoupon THEN [active |-> TRUE, offer |-> clerk[k].offer, uses |-> 0] ELSE coupon
  /\ UNCHANGED <<couponDay, promised, redeemed, undone, clerkCalls>>

setActive(k, on) ==
  /\ coupon # NoCoupon /\ AskClerk(k, [step |-> "compare", row |-> [coupon EXCEPT !.active = on]])
  /\ UNCHANGED <<couponDay, coupon, promised, redeemed, undone>>

compareCoupon(k) ==
  /\ clerk[k].step = "compare"
  /\ Clerk(k, [step |-> "update", row |-> clerk[k].row,
               columns |-> {c \in DOMAIN coupon : coupon[c] # clerk[k].row[c]}])
  /\ UNCHANGED <<couponDay, coupon, promised, redeemed, undone, clerkCalls>>

updateCoupon(k) ==
  /\ clerk[k].step = "update" /\ Clerk(k, NoClerk)
  /\ coupon' = [c \in DOMAIN coupon |-> IF c \in clerk[k].columns THEN clerk[k].row[c] ELSE coupon[c]]
  /\ UNCHANGED <<couponDay, promised, redeemed, undone, clerkCalls>>

CouponDayPasses == couponDay < LastCouponDay /\ couponDay' = couponDay + 1
                   /\ UNCHANGED <<coupon, clerk, promised, redeemed, undone, clerkCalls>>

CouponsNext ==
  \/ \E k \in Clerks :
       \/ \E o \in Benefits : createCoupon(k, o)
       \/ \E on \in BOOLEAN : setActive(k, on)
       \/ lookAgain(k) \/ insertCoupon(k) \/ compareCoupon(k) \/ updateCoupon(k)
  \/ \E b \in Couples : resolveCoupon(b) \/ consume(b)
  \/ CouponDayPasses

-----------------------------------------------------------------------------
(* The uses counted are the bookings committed with the code, and a        *)
(* limited code is used no more often than it may, however bookings and    *)
(* switches interleave - but for a use counted between the two readings of *)
(* a switch, which is written back as it was read, and for a code created  *)
(* twice, whose limit is the later one's (consume, setActive, create).     *)
UsesAreBookings ==
  undone \/ /\ coupon.uses = Cardinality(redeemed)
            /\ coupon # NoCoupon => coupon.offer.max = NoLimit \/ coupon.uses <= coupon.offer.max
=============================================================================
