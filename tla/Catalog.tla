------------------------------- MODULE Catalog --------------------------------
(***************************************************************************)
(* The catalog's way from the content document to a page: generate-seed    *)
(* writes the document (database/seed/data.json) out as rows, the server   *)
(* reads table after table in the order each query asks for, and the       *)
(* mappers put the document together again (catalog.service loadRows,      *)
(* catalog.mappers), beside a new seed and what migrations write into rows *)
(* that are there: a price, a menu group's note with its dishes' allergens,*)
(* a gallery's film.  Rows migrations insert, delete or reword are not     *)
(* modelled.  Texts, images and labels are one value per element.          *)
(***************************************************************************)
EXTENDS Integers, Sequences, FiniteSets, Functions, SequencesExt

CONSTANTS
  Documents,       \* contents of data.json, by section
  Products,        \* rows migrations put in the product table: key, sort, active
  Prices, NoPrice, \* what a migration may set an experience's two rates, and its base price, to
  Texts,           \* names, images, labels: one value per element
  CAT_ORDER, RESTO_ORDER,   \* as in the source
  Families,        \* how many families of packages there are
  MaxReprices      \* bound on writes: seeds and migrations

VARIABLES
  content,    \* history: what the tables were given, by section
  db,         \* the tables
  got,        \* the tables a build has read so far, each in some order
  built,      \* the catalog last built
  mixed,      \* history: rows were replaced or priced while the build was reading
  reprices
catalogVars == <<content, db, got, built, mixed, reprices>>

(***************************************************************************)
(* What data.json holds: the sections' types (catalog.types).              *)
(***************************************************************************)
TextList == Seq(Texts)
ActivityDto == [key : Texts, val : Texts, price : Nat, items : TextList]
DishDto == [dish : Texts, allergens : BOOLEAN]
GroupDto == [title : Texts, note : BOOLEAN, items : Seq(DishDto)]   \* a note comes with its allergens
RestaurantDto == [val : Texts, gallery : TextList, groups : Seq(GroupDto)]
GalleryDto == [key : Texts, val : Texts, film : BOOLEAN, shots : TextList]
PackDto == [val : Texts, items : TextList]   \* a tier of a package, a combo, a team pack

\* A family of packages and a group of the price list are named by their place; a group has rows, or it
\* would be no group of the table's.
Sections(d) ==
  /\ d.ACTS \in Seq(ActivityDto) /\ \A i, j \in DOMAIN d.ACTS : d.ACTS[i].key = d.ACTS[j].key => i = j
  /\ d.GAL \in Seq(GalleryDto)
  /\ \A i \in DOMAIN RESTO_ORDER : d.RESTOS[RESTO_ORDER[i]] \in RestaurantDto
  /\ d.PACKS \in [families : [1..Families -> Seq(PackDto)], addons : TextList, vip : TextList]
  /\ d.COMBO \in Seq(PackDto) /\ d.TEAM \in Seq(PackDto)
  /\ d.PINS \in TextList /\ d.CINE \in TextList /\ d.HERO \in TextList
  /\ d.PL \in Seq(TextList \ {<<>>})
  /\ d.PHOTO \in [{"rr", "nr"} -> [tiers : TextList, addons : TextList]]
  /\ d.ENTRY \in Seq([key : Texts, price : Nat]) /\ \A i, j \in DOMAIN d.ENTRY : d.ENTRY[i].key = d.ENTRY[j].key => i = j

\* The ids of experiences and settings are primary keys (database/schema.sql).
ASSUME CatalogAssumption ==
  /\ MaxReprices \in Nat /\ Families \in Nat /\ IsFiniteSet(Products) /\ Prices \ {NoPrice} \subseteq Nat
  /\ CAT_ORDER \in TextList /\ \A i, j \in DOMAIN CAT_ORDER : CAT_ORDER[i] = CAT_ORDER[j] => i = j
  /\ RESTO_ORDER \in TextList /\ \A d \in Documents : Sections(d)

(***************************************************************************)
(* What the generator writes of it: two restaurants, galleries without     *)
(* their films, menu groups without their notes, dishes without their      *)
(* allergens.                                                              *)
(***************************************************************************)
With(d, acts, galleries, restos) ==
  [CAT |-> d.CAT, ACTS |-> acts, RATEP |-> d.RATEP, PINS |-> d.PINS, PACKS |-> d.PACKS, COMBO |-> d.COMBO, CINE |-> d.CINE,
   PL |-> d.PL, PHOTO |-> d.PHOTO, TEAM |-> d.TEAM, HERO |-> d.HERO, ENTRY |-> d.ENTRY, GAL |-> galleries, RESTOS |-> restos]
Silent(x) == [key |-> x.key, val |-> x.val, film |-> FALSE, shots |-> x.shots]
Plain(m) ==
  [title |-> m.title, note |-> FALSE, items |-> [k \in DOMAIN m.items |-> [dish |-> m.items[k].dish, allergens |-> FALSE]]]
PlainMenu(r) == [val |-> r.val, gallery |-> r.gallery, groups |-> [g \in DOMAIN r.groups |-> Plain(r.groups[g])]]
Seedable(d) ==
  With(d, d.ACTS, [i \in DOMAIN d.GAL |-> Silent(d.GAL[i])], [k \in Range(RESTO_ORDER) |-> PlainMenu(d.RESTOS[k])])

NoBuilt == [made |-> FALSE]
Row(id, parent, sort, val) == [id |-> id, parent |-> parent, sort |-> sort, val |-> val]

(***************************************************************************)
(* generate-seed: a list becomes rows numbered by their place, and what    *)
(* hangs on its elements the rows of a table of its own.  An id is the     *)
(* places that lead to a row; the numbers the source counts out run alike. *)
(***************************************************************************)
RowsOf(parent, list) == {Row(Append(parent, i), parent, i - 1, list[i]) : i \in DOMAIN list}
insert(list) == RowsOf(<<>>, list)
Table(lists) == UNION {RowsOf(p, lists[p]) : p \in DOMAIN lists}
Each(lists) == Table([p \in {<<i>> : i \in DOMAIN lists} |-> lists[p[1]]])
Texted(list) == insert([i \in DOMAIN list |-> list[i].val])
Items(list) == Each([i \in DOMAIN list |-> list[i].items])

seedCategories(d) == insert([i \in DOMAIN CAT_ORDER |-> [key |-> CAT_ORDER[i], val |-> d.CAT[CAT_ORDER[i]]]])
seedExperiences(d) ==
  insert([i \in DOMAIN d.ACTS |->
    LET a == d.ACTS[i]  rated == a.key \in DOMAIN d.RATEP IN
    [key |-> a.key, val |-> a.val, price |-> a.price,
     rr |-> IF rated THEN d.RATEP[a.key][1] ELSE NoPrice, nr |-> IF rated THEN d.RATEP[a.key][2] ELSE NoPrice]])
seedGalleries(d) == insert([i \in DOMAIN d.GAL |-> [key |-> d.GAL[i].key, val |-> d.GAL[i].val, film |-> d.GAL[i].film]])

Restaurants(d) == [i \in DOMAIN RESTO_ORDER |-> d.RESTOS[RESTO_ORDER[i]]]
seedRestaurants(d) == insert([i \in DOMAIN RESTO_ORDER |-> [key |-> RESTO_ORDER[i], val |-> Restaurants(d)[i].val]])
MenuHeads(r) == [g \in DOMAIN r.groups |-> [title |-> r.groups[g].title, note |-> r.groups[g].note]]
Groups(d) == UNION {{<<i, j>> : j \in DOMAIN Restaurants(d)[i].groups} : i \in DOMAIN RESTO_ORDER}
seedMenuItems(d) == Table([p \in Groups(d) |-> Restaurants(d)[p[1]].groups[p[2]].items])

\* The tiers of all families, each with its place in its own.
Tiers(d) == [f \in DOMAIN d.PACKS.families |-> [i \in DOMAIN d.PACKS.families[f] |-> d.PACKS.families[f][i].val]]
TierIds(d) == UNION {{<<f, i>> : i \in DOMAIN d.PACKS.families[f]} : f \in DOMAIN d.PACKS.families}
seedTierItems(d) == Table([p \in TierIds(d) |-> d.PACKS.families[p[1]][p[2]].items])
seedPhoto(d, part) == Table([p \in {<<"rr">>, <<"nr">>} |-> d.PHOTO[p[1]][part]])

TablesOf(d) ==
  [categories |-> seedCategories(d), experiences |-> seedExperiences(d), facts |-> Items(d.ACTS),
   galleries |-> seedGalleries(d), shots |-> Each([i \in DOMAIN d.GAL |-> d.GAL[i].shots]), pins |-> insert(d.PINS),
   restaurants |-> seedRestaurants(d), restaurantImages |-> Each([i \in DOMAIN RESTO_ORDER |-> Restaurants(d)[i].gallery]),
   menuGroups |-> Each([i \in DOMAIN RESTO_ORDER |-> MenuHeads(Restaurants(d)[i])]), menuItems |-> seedMenuItems(d),
   packageTiers |-> Each(Tiers(d)), packageTierItems |-> seedTierItems(d),
   packageAddons |-> insert(d.PACKS.addons), vipItems |-> insert(d.PACKS.vip),
   combos |-> Texted(d.COMBO), comboItems |-> Items(d.COMBO), cinematicItems |-> insert(d.CINE),
   priceList |-> Each(d.PL), photoTiers |-> seedPhoto(d, "tiers"), photoAddons |-> seedPhoto(d, "addons"),
   teamPacks |-> Texted(d.TEAM), teamPackItems |-> Items(d.TEAM), heroSlides |-> insert(d.HERO), settings |-> insert(d.ENTRY),
   products |-> Products]
seed(d) == TablesOf(Seedable(d))

(***************************************************************************)
(* Reading: each table by what its query orders it by, ties in any order.  *)
(***************************************************************************)
Content == <<"categories", "experiences", "facts", "galleries", "shots", "pins", "restaurants", "restaurantImages",
  "menuGroups", "menuItems", "packageTiers", "packageTierItems", "packageAddons", "vipItems", "combos", "comboItems",
  "cinematicItems", "priceList", "photoTiers", "photoAddons", "teamPacks", "teamPackItems", "heroSlides", "settings">>
ByNothing == {"categories", "galleries", "settings"}
ById == {"shots", "priceList"}
ByParent == {"restaurantImages", "menuGroups", "menuItems", "packageTierItems", "comboItems", "teamPackItems"}
smaller(p, q) == \E n \in DOMAIN p : p[n] < q[n] /\ \A m \in 1..(n - 1) : p[m] = q[m]
before(t, a, b) ==
  CASE t \in ByNothing -> FALSE
    [] t \in ById -> smaller(a.id, b.id)
    [] t \in ByParent -> smaller(a.parent, b.parent) \/ (a.parent = b.parent /\ a.sort < b.sort)
    [] OTHER -> a.sort < b.sort
readings(t) ==
  LET rows == IF t = "products" THEN {p \in db[t] : p.val.active} ELSE db[t] IN
  {s \in SetToSeqs(rows) : \A i, j \in DOMAIN s : i < j => ~before(t, s[j], s[i])}

(***************************************************************************)
(* The mappers.                                                            *)
(***************************************************************************)
Map(s, f(_)) == [i \in DOMAIN s |-> f(s[i])]
Vals(s) == Map(s, LAMBDA r : r.val)

\* The elements of s at the places I, in the order of s; and all of them, by the number keys gives each.
At(s, I) == [n \in 1..Cardinality(I) |-> s[CHOOSE i \in I : Cardinality({j \in I : j < i}) = n - 1]]
SortBy(s, keys) ==
  LET ahead(i) == {j \in DOMAIN s : keys[j] < keys[i] \/ (keys[j] = keys[i] /\ j < i)}
  IN [n \in DOMAIN s |-> s[CHOOSE i \in DOMAIN s : Cardinality(ahead(i)) = n - 1]]
filter(s, ok(_)) == At(s, {i \in DOMAIN s : ok(s[i])})
groupBy(s, id) == filter(s, LAMBDA r : r.parent = id)
FirstSeen(s) == At(s, {i \in DOMAIN s : \A j \in 1..(i - 1) : s[j] # s[i]})
withItems(s, items) == Map(s, LAMBDA r : [val |-> r.val, items |-> Vals(groupBy(items, r.id))])

catRank(key) == CHOOSE i \in 1..Len(CAT_ORDER) + 1 : IF i > Len(CAT_ORDER) THEN key \notin Range(CAT_ORDER) ELSE CAT_ORDER[i] = key
mapCategories(g) == SortBy(Vals(g.categories), Map(g.categories, LAMBDA r : catRank(r.val.key)))
mapActivities(g) ==
  Map(g.experiences, LAMBDA e : [key |-> e.val.key, val |-> e.val.val, price |-> e.val.price, items |-> Vals(groupBy(g.facts, e.id))])
mapRatePrices(g) ==
  LET rated == {r \in Range(g.experiences) : r.val.rr # NoPrice} IN
  [k \in {r.val.key : r \in rated} |->
     LET e == (CHOOSE r \in rated : r.val.key = k).val IN <<e.rr, IF e.nr # NoPrice THEN e.nr ELSE e.rr>>]
mapRestaurants(g) ==
  Map(g.restaurants, LAMBDA r :
    [key |-> r.val.key, val |-> r.val.val, gallery |-> Vals(groupBy(g.restaurantImages, r.id)),
     groups |-> Map(groupBy(g.menuGroups, r.id), LAMBDA m : [title |-> m.val.title, note |-> m.val.note, items |-> Vals(groupBy(g.menuItems, m.id))])])
mapPacks(g) ==
  [families |-> [f \in 1..Families |-> withItems(groupBy(g.packageTiers, <<f>>), g.packageTierItems)],
   addons |-> Vals(g.packageAddons), vip |-> Vals(g.vipItems)]

galleryDto(g, r) ==
  LET shots == groupBy(g.shots, r.id) IN
  [key |-> r.val.key, val |-> r.val.val, film |-> r.val.film, shots |-> Vals(SortBy(shots, Map(shots, LAMBDA x : x.sort)))]
\* Mutant: the galleries' order, which no query asks for.
mapGalleriesAsRead(g) == Map(g.galleries, LAMBDA r : galleryDto(g, r))
\* Galleries come in the order of their first shots, those without any last.
mapGalleries(g) ==
  LET keys == FirstSeen(Map(g.shots, LAMBDA x : x.parent) \o Map(g.galleries, LAMBDA r : r.id))
  IN Map(filter(keys, LAMBDA k : \E r \in Range(g.galleries) : r.id = k),
         LAMBDA k : galleryDto(g, CHOOSE r \in Range(g.galleries) : r.id = k))
mapCombos(g) == withItems(g.combos, g.comboItems)
mapTeam(g) == withItems(g.teamPacks, g.teamPackItems)
mapPriceList(g) == Map(FirstSeen(Map(g.priceList, LAMBDA r : r.parent)), LAMBDA k : [key |-> k, rows |-> Vals(groupBy(g.priceList, k))])
mapPhoto(g) ==
  [rate \in {"rr", "nr"} |-> [tiers |-> Vals(groupBy(g.photoTiers, <<rate>>)), addons |-> Vals(groupBy(g.photoAddons, <<rate>>))]]
mapProducts(g) == Map(g.products, LAMBDA r : r.val.key)
entrySettings(g) == [k \in {r.val.key : r \in Range(g.settings)} |-> (CHOOSE r \in Range(g.settings) : r.val.key = k).val.price]

assembleCatalog(g) ==
  [CAT |-> mapCategories(g), ACTS |-> mapActivities(g), PINS |-> Vals(g.pins), RESTOS |-> mapRestaurants(g),
   PRODUCTS |-> mapProducts(g), PACKS |-> mapPacks(g), GAL |-> mapGalleries(g), COMBO |-> mapCombos(g),
   CINE |-> Vals(g.cinematicItems), RATEP |-> mapRatePrices(g), PL |-> mapPriceList(g), PHOTO |-> mapPhoto(g),
   TEAM |-> mapTeam(g), HERO |-> Vals(g.heroSlides), ENTRY |-> entrySettings(g)]

(***************************************************************************)
(* The server and the database.                                            *)
(***************************************************************************)
CatalogTypeOK ==
  /\ Sections(content) /\ reprices \in 0..MaxReprices
  /\ DOMAIN got \subseteq Range(Content) \cup {"products"} /\ \A t \in DOMAIN got : mixed \/ Range(got[t]) \subseteq db[t]

CatalogInit ==
  /\ \E d \in Documents : content = Seedable(d) /\ db = seed(d)
  /\ got = <<>> /\ built = NoBuilt /\ mixed = FALSE /\ reprices = 0

\* The queries of the content run side by side, here in one order of theirs: with no write between them any
\* order reads the same.  The products follow.  One build, whose keeping Forecast models.
Load(t) ==
  /\ \E s \in readings(t) : got' = [u \in DOMAIN got \cup {t} |-> IF u = t THEN s ELSE got[u]]
  /\ mixed' = (DOMAIN got # {} /\ mixed) /\ UNCHANGED <<content, db, built, reprices>>

loadRows == built = NoBuilt /\ \E i \in DOMAIN Content : DOMAIN got = {Content[j] : j \in 1..(i - 1)} /\ Load(Content[i])
loadProducts == DOMAIN got = Range(Content) /\ Load("products")

buildCatalog ==
  /\ "products" \in DOMAIN got /\ got' = <<>>
  /\ built' = [made |-> TRUE, data |-> assembleCatalog(got), of |-> content, rows |-> db.experiences, mixed |-> mixed]
  /\ UNCHANGED <<content, db, mixed, reprices>>

Writing == reprices < MaxReprices /\ reprices' = reprices + 1 /\ mixed' = TRUE /\ UNCHANGED <<got, built>>

\* db-init runs seed.sql, one transaction.
reseed(d) == Writing /\ content' = Seedable(d) /\ db' = [seed(d) EXCEPT !.products = db.products]

\* The rows vals has values for take them.
update(rows, vals) == {Row(r.id, r.parent, r.sort, IF r \in DOMAIN vals THEN vals[r] ELSE r.val) : r \in rows}

\* A migration sets one experience's base price and its price for either rate, or clears the latter.
Reprice(v, price, rr, nr) == [key |-> v.key, val |-> v.val, price |-> price, rr |-> rr, nr |-> nr]
Based(a, key, price) == [key |-> a.key, val |-> a.val, price |-> IF a.key = key THEN price ELSE a.price, items |-> a.items]
migratePrice(r, price, rr, nr) ==
  /\ Writing
  /\ db' = [db EXCEPT !.experiences = (@ \ {r}) \cup {Row(r.id, r.parent, r.sort, Reprice(r.val, price, rr, nr))}]
  /\ content' = With(content, [i \in DOMAIN content.ACTS |-> Based(content.ACTS[i], r.val.key, price)], content.GAL, content.RESTOS)

\* A migration gives the menu groups of one title in a restaurant their note, and a dish of theirs its allergens.
Noted(r, title, dish) ==
  [val |-> r.val, gallery |-> r.gallery,
   groups |-> [g \in DOMAIN r.groups |->
     LET m == r.groups[g] IN
     [title |-> m.title, note |-> m.note \/ m.title = title,
      items |-> [k \in DOMAIN m.items |->
        [dish |-> m.items[k].dish, allergens |-> m.items[k].allergens \/ (m.title = title /\ m.items[k].dish = dish)]]]]]
migrateMenu(key, title, dish) ==
  LET groups == {m \in db.menuGroups : RESTO_ORDER[m.parent[1]] = key /\ m.val.title = title}
      dishes == {k \in db.menuItems : k.val.dish = dish /\ \E m \in groups : k.parent = m.id}
  IN
  /\ Writing
  /\ db' = [db EXCEPT !.menuGroups = update(@, [m \in groups |-> [title |-> title, note |-> TRUE]]),
                      !.menuItems = update(@, [k \in dishes |-> [dish |-> dish, allergens |-> TRUE]])]
  /\ content' = With(content, content.ACTS, content.GAL, [k \in Range(RESTO_ORDER) |->
                   IF k = key THEN Noted(content.RESTOS[k], title, dish) ELSE content.RESTOS[k]])

\* A migration gives a gallery its film.
Filmed(x, key) == [key |-> x.key, val |-> x.val, film |-> x.film \/ x.key = key, shots |-> x.shots]
migrateFilm(key) ==
  LET galleries == {r \in db.galleries : r.val.key = key} IN
  /\ Writing
  /\ db' = [db EXCEPT !.galleries = update(@, [r \in galleries |-> [key |-> key, val |-> r.val.val, film |-> TRUE]])]
  /\ content' = With(content, content.ACTS, [i \in DOMAIN content.GAL |-> Filmed(content.GAL[i], key)], content.RESTOS)

CatalogNext ==
  \/ loadRows \/ loadProducts \/ buildCatalog
  \/ \E d \in Documents : reseed(d)
  \/ \E r \in db.experiences, rr, nr \in Prices :
       \E price \in {r.val.price} \cup (Prices \ {NoPrice}) : migratePrice(r, price, rr, nr)
  \/ \E m \in db.menuGroups, k \in db.menuItems : k.parent = m.id /\ migrateMenu(RESTO_ORDER[m.parent[1]], m.val.title, k.val.dish)
  \/ \E r \in db.galleries : migrateFilm(r.val.key)

-----------------------------------------------------------------------------
Shown(s) == filter(s, LAMBDA x : x.shots # <<>>)
RestaurantAt(d, i) ==
  LET r == Restaurants(d)[i] IN [key |-> RESTO_ORDER[i], val |-> r.val, gallery |-> r.gallery, groups |-> r.groups]
Faithful(p, d) ==
  /\ p.CAT = Map(CAT_ORDER, LAMBDA k : [key |-> k, val |-> d.CAT[k]])
  /\ p.ACTS = d.ACTS /\ p.PINS = d.PINS /\ p.RESTOS = [i \in DOMAIN RESTO_ORDER |-> RestaurantAt(d, i)]
  /\ p.PACKS = d.PACKS /\ p.COMBO = d.COMBO /\ p.CINE = d.CINE /\ p.TEAM = d.TEAM /\ p.HERO = d.HERO
  /\ Shown(p.GAL) = Shown(d.GAL) /\ Range(p.GAL) = Range(d.GAL) /\ Len(p.GAL) = Len(d.GAL)
  /\ p.PL = [g \in DOMAIN d.PL |-> [key |-> <<g>>, rows |-> d.PL[g]]] /\ p.PHOTO = d.PHOTO
  /\ \A i \in DOMAIN d.ENTRY : p.ENTRY[d.ENTRY[i].key] = d.ENTRY[i].price
  /\ Range(p.PRODUCTS) = {r.val.key : r \in {x \in Products : x.val.active}}

(* The page is what the tables were given, element by element and in its   *)
(* order, whatever order the database returns tied rows in: the document as*)
(* the generator writes it (Seedable: without a third restaurant, films,   *)
(* menu notes and allergens, which data.json holds), with the base prices, *)
(* notes, allergens and films migrations set since; galleries without      *)
(* photos come last, in no order (catalog.mappers: "rows in, the exact     *)
(* shape of data.json out").                                               *)
RoundTrip == built # NoBuilt /\ ~built.mixed => Faithful(built.data, built.of)

priceFor(e, rate) == IF e.rr = NoPrice THEN e.price ELSE IF rate = "nr" /\ e.nr # NoPrice THEN e.nr ELSE e.rr

(* What a guest is quoted from the page for an experience is what a booking*)
(* is charged for it, rates missing for one of the two included            *)
(* (mapRatePrices beside priceFor).                                        *)
QuotedIsCharged ==
  built # NoBuilt /\ ~built.mixed =>
    \A r \in built.rows, rate \in {"rr", "nr"} :
      LET k == r.val.key
          act == CHOOSE a \in Range(built.data.ACTS) : a.key = k
          quoted == IF k \in DOMAIN built.data.RATEP THEN built.data.RATEP[k][IF rate = "rr" THEN 1 ELSE 2] ELSE act.price
      IN quoted = priceFor(r.val, rate)

CatalogHold == RoundTrip /\ QuotedIsCharged
=============================================================================
