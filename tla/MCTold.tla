------------------------------- MODULE MCTold -------------------------------
(* What the park is told and tells: the till's reports, the date picker,   *)
(* promo codes, the messages to a guest, photos, tables, the operators'    *)
(* lists, the catalog, the release that serves them and the copies taken   *)
(* off site. They share no state, so each behaviour moves one of them.     *)
EXTENDS Till, Offers, Coupons, Messages, Photos, Tables, Threads, Lists, Catalog, Bootstrap, Offsite

CONSTANTS b1, b2, v1, x1, x2   \* x1 and x2: parties, senders, handlers, conversations and operators

VARIABLE part
Parts == {"till", "offers", "coupons", "messages", "photos", "tables", "threads", "lists", "catalog", "bootstrap", "offsite"}
toldVars == <<part, tillVars, offerVars, couponVars, messageVars, photoVars, tableVars, threadVars, listVars,
              catalogVars, bootVars, offsiteVars>>

(* Till: one booking of the website and one the desk takes.                *)
MCAsked ==
  {[order |-> [entry |-> 4, subtotal |-> 8, lines |-> [zip |-> 2, quad |-> 1], products |-> 1, pass |-> 1, offer |-> 2],
    slot |-> "morning", mode |-> "online", nationality |-> "MU", guests |-> 2],
   [order |-> [entry |-> 0, subtotal |-> 3, lines |-> [zip |-> 0, quad |-> 2], products |-> 0, pass |-> 0, offer |-> 0],
    slot |-> "afternoon", mode |-> "gate", nationality |-> "FR", guests |-> 1]}

(* Offers: a couple in the morning and a single in the afternoon, for a    *)
(* zip line with sessions and a buggy counted by units; the calendar may   *)
(* lose places and close the afternoon.                                    *)
Line(a, g, u, t) == [id |-> a, guests |-> g, units |-> u, time |-> t]
MCWants ==
  {[slot |-> "morning", guests |-> 2, lines |-> {Line("zip", 2, 0, 14), Line("buggy", 0, 1, None)}],
   [slot |-> "afternoon", guests |-> 1, lines |-> {Line("zip", 1, 0, 14), Line("buggy", 0, None, None)}]}
MCCalendar ==
  [slots |-> 3, closures |-> {}, times |-> [zip |-> {10, 14}, buggy |-> {}], seats |-> [zip |-> 2, buggy |-> None],
   caps |-> [zip |-> [morning |-> 3, afternoon |-> None], buggy |-> [morning |-> 1, afternoon |-> 1]]]
MCCalendars ==
  {MCCalendar, [MCCalendar EXCEPT !.slots = 2, !.seats["zip"] = 1, !.caps["buggy"]["afternoon"] = 0,
                                  !.closures = {[from |-> 1, to |-> 0, slot |-> "afternoon"]}]}

(* Coupons: a code good today for one use, or always; Tables: for tomorrow *)
(* by e-mail, for today by phone, or with neither.                         *)
MCOffers == {[value |-> 1, from |-> 0, to |-> 0, max |-> 1], [value |-> 2, from |-> 0, to |-> 1, max |-> NoLimit]}
MCAskings ==
  {[day |-> 1, email |-> TRUE, phone |-> FALSE], [day |-> 0, email |-> FALSE, phone |-> TRUE], [day |-> 1, email |-> FALSE, phone |-> FALSE]}

(* Messages: both channels, or a phone alone, by either carrier.           *)
MCTerms == {[total |-> 3, deposit |-> 2]}
Number(prefix, d) == [prefix |-> prefix, d |-> d]
Setup(mail, carrier) == [mail |-> mail, whatsapp |-> carrier]
MCContacts ==
  {[email |-> TRUE, phone |-> Number("0", 8), setup |-> Setup(TRUE, "360dialog")],
   [email |-> FALSE, phone |-> Number("00", 11), setup |-> Setup(TRUE, "twilio")]}

(* Lists: three rows that tie in every column, and two filters.            *)
ListRow(v, t, g, s, w) == [visit |-> v, total |-> t, guest |-> g, status |-> s, kind |-> "am", words |-> w]
MCRows == {ListRow(1, 2, 1, "confirmed", {"ana"}), ListRow(2, 1, 1, "confirmed", {"ana", "bo"}), ListRow(1, 1, 2, "cancelled", {"bo"})}
MCQueries ==
  {Unfiltered, [Unfiltered EXCEPT !.sort = "guest", !.status = "confirmed"],
   [Unfiltered EXCEPT !.sort = "visit_desc", !.kind = "am", !.from = 1, !.to = 1, !.words = <<"bo", "ana", "x">>]}

(* Catalog: contents with every section, and with most of them empty.      *)
Elem(v, items) == [val |-> v, items |-> items]
Dish(d, a) == [dish |-> d, allergens |-> a]
Menu(t, n, dishes) == [title |-> t, note |-> n, items |-> dishes]
Resto(groups) == [val |-> "t", gallery |-> <<"i", "j">>, groups |-> groups]
MCDocument ==
 [CAT |-> [adventure |-> "a", nature |-> "n"],
  ACTS |-> << [key |-> "zip", val |-> "z", price |-> 3, items |-> <<"f", "g">>], [key |-> "quad", val |-> "q", price |-> 4, items |-> <<"h">>] >>,
  RATEP |-> [zip |-> <<2, 5>>],
  GAL |-> << [key |-> "luge", val |-> "l", film |-> TRUE, shots |-> <<>>], [key |-> "zip", val |-> "z", film |-> FALSE, shots |-> <<"s", "u">>],
             [key |-> "quad", val |-> "q", film |-> FALSE, shots |-> <<"r">>] >>,
  PINS |-> <<"p", "k">>,
  RESTOS |-> [palmiste |-> Resto(<<>>), citronelle |-> Resto(<<Menu("m", TRUE, <<Dish("x", TRUE), Dish("y", FALSE)>>)>>),
     chamouze |-> Resto(<<Menu("v", FALSE, <<Dish("w", FALSE)>>), Menu("s", FALSE, <<Dish("x", FALSE)>>)>>)],
  PACKS |-> [families |-> << <<Elem("l", <<"a", "b">>), Elem("m", <<"a">>)>>, <<Elem("e", <<>>), Elem("f", <<"c">>)>> >>, addons |-> <<"o">>, vip |-> <<"v", "w">>],
  COMBO |-> <<Elem("c", <<"a">>), Elem("d", <<"b", "a">>)>>, CINE |-> <<"c">>,
  PL |-> << <<"u", "n">>, <<"u">> >>,
  PHOTO |-> [rr |-> [tiers |-> <<"t">>, addons |-> <<"a">>], nr |-> [tiers |-> <<"u", "w">>, addons |-> <<"b">>]],
  TEAM |-> <<Elem("t", <<"a">>), Elem("u", <<"b">>)>>, HERO |-> <<"h", "i">>,
  ENTRY |-> << [key |-> "entry_adult", price |-> 5], [key |-> "entry_child", price |-> 3] >>]
MCEmpty == [MCDocument EXCEPT !.ACTS = <<>>, !.RATEP = <<>>, !.GAL = <<>>, !.PINS = <<>>, !.RESTOS = [citronelle |-> Resto(<<>>), chamouze |-> Resto(<<>>)],
              !.PACKS = [families |-> << <<>>, <<>> >>, addons |-> <<>>, vip |-> <<>>], !.COMBO = <<>>, !.CINE = <<>>, !.PL = <<>>,
              !.PHOTO = [rr |-> [tiers |-> <<>>, addons |-> <<>>], nr |-> [tiers |-> <<>>, addons |-> <<>>]], !.TEAM = <<>>, !.HERO = <<>>, !.ENTRY = <<>>]
MCDocuments == {MCEmpty, MCDocument}
MCProducts == {Row(i, 0, i, [key |-> <<"k", i>>, active |-> i # 2]) : i \in 1..3}
MCPrices == {1, NoPrice}
MCCategories == <<"adventure", "nature">>
MCRestaurants == <<"chamouze", "citronelle">>
MCTexts == STRING

(* Bootstrap: a good production setting, two bad ones, and two of a laptop.*)
Settings(p, h, u, s) == [production |-> p, host |-> h, url |-> u, secrets |-> s, tls |-> TRUE]
MCVariables == {Settings(TRUE, TRUE, TRUE, TRUE), Settings(TRUE, FALSE, TRUE, TRUE), Settings(TRUE, TRUE, FALSE, FALSE),
                Settings(FALSE, FALSE, TRUE, FALSE), Settings(FALSE, FALSE, FALSE, FALSE)}

-----------------------------------------------------------------------------
ToldInit ==
  /\ part \in Parts
  /\ TillInit /\ \A b \in Bookings : sold[b] # NoSale => sold[b].mode = "gate"
  /\ OffersInit /\ settings = MCCalendar
  /\ MessagesInit /\ (part # "messages" => row.phone.d = 8)
  /\ ThreadsInit /\ BootInit /\ CouponsInit /\ PhotosInit /\ TablesInit /\ OffsiteInit
  /\ CatalogInit /\ (part # "catalog" => content = Seedable(MCEmpty))
  /\ ListsInit /\ (part # "lists" => Made = {})
  /\ \A e, f \in Made : e < f => listed[e].made < listed[f].made   \* entries named by age

ToldNext ==
  /\ UNCHANGED part
  /\ \/ part = "till" /\ TillNext
        /\ UNCHANGED <<offerVars, couponVars, messageVars, photoVars, tableVars, threadVars, listVars, catalogVars, bootVars, offsiteVars>>
     \/ part = "offers" /\ OffersNext
        /\ UNCHANGED <<tillVars, couponVars, messageVars, photoVars, tableVars, threadVars, listVars, catalogVars, bootVars, offsiteVars>>
     \/ part = "coupons" /\ CouponsNext
        /\ UNCHANGED <<tillVars, offerVars, messageVars, photoVars, tableVars, threadVars, listVars, catalogVars, bootVars, offsiteVars>>
     \/ part = "messages" /\ MessagesNext
        /\ UNCHANGED <<tillVars, offerVars, couponVars, photoVars, tableVars, threadVars, listVars, catalogVars, bootVars, offsiteVars>>
     \/ part = "photos" /\ PhotosNext
        /\ UNCHANGED <<tillVars, offerVars, couponVars, messageVars, tableVars, threadVars, listVars, catalogVars, bootVars, offsiteVars>>
     \/ part = "tables" /\ TablesNext
        /\ UNCHANGED <<tillVars, offerVars, couponVars, messageVars, photoVars, threadVars, listVars, catalogVars, bootVars, offsiteVars>>
     \/ part = "threads" /\ ThreadsNext
        /\ UNCHANGED <<tillVars, offerVars, couponVars, messageVars, photoVars, tableVars, listVars, catalogVars, bootVars, offsiteVars>>
     \/ part = "lists" /\ ListsNext
        /\ UNCHANGED <<tillVars, offerVars, couponVars, messageVars, photoVars, tableVars, threadVars, catalogVars, bootVars, offsiteVars>>
     \/ part = "catalog" /\ CatalogNext
        /\ UNCHANGED <<tillVars, offerVars, couponVars, messageVars, photoVars, tableVars, threadVars, listVars, bootVars, offsiteVars>>
     \/ part = "bootstrap" /\ BootNext
        /\ UNCHANGED <<tillVars, offerVars, couponVars, messageVars, photoVars, tableVars, threadVars, listVars, catalogVars, offsiteVars>>
     \/ part = "offsite" /\ OffsiteNext
        /\ UNCHANGED <<tillVars, offerVars, couponVars, messageVars, photoVars, tableVars, threadVars, listVars, catalogVars, bootVars>>

ToldSpec == ToldInit /\ [][ToldNext]_toldVars

-----------------------------------------------------------------------------
(* The part that moves keeps its types: above all, nothing paid falls below*)
(* zero, a channel is never both sent to and still to do, and no two rows  *)
(* are equally old.                                                        *)
ToldTypeOK ==
  CASE part = "till" -> TillTypeOK
    [] part = "offers" -> OffersTypeOK
    [] part = "coupons" -> CouponsTypeOK
    [] part = "messages" -> MessagesTypeOK
    [] part = "photos" -> PhotosTypeOK
    [] part = "tables" -> TablesTypeOK
    [] part = "threads" -> ThreadsTypeOK
    [] part = "lists" -> ListsTypeOK
    [] part = "catalog" -> CatalogTypeOK
    [] part = "bootstrap" -> BootTypeOK
    [] part = "offsite" -> OffsiteTypeOK

(* What each module promises, of the behaviours that move its part; in the *)
(* others its variables keep an initial value.                             *)
ReportsBalance == part = "till" => TillBalances
OffersHonest == (part = "offers" => OffersHold) /\ (part = "coupons" => UsesAreBookings)
GuestsTold == (part = "messages" => MessagesHold) /\ (part = "photos" => PhotosHold) /\ (part = "tables" => TablesHold)
BoardTold == part = "threads" => ThreadsHold
PagesWhole == part = "lists" => ListsHold
CatalogFaithful == part = "catalog" => CatalogHold
ScriptsSafe == (part = "bootstrap" => BootHolds) /\ (part = "offsite" => CopiesStay)

Symmetry == Permutations({x1, x2})
=============================================================================
