-------------------------------- MODULE Lists ---------------------------------
(***************************************************************************)
(* The back office's paged lists - bookings, quote requests, applications  *)
(* (staff-bookings list and listQuotes, hr listApplications): filtered,    *)
(* ordered, cut in pages by OFFSET, each page two queries, its rows and    *)
(* the total.  An operator walks through the pages of one of them while    *)
(* rows come in, are edited and change status.                             *)
(***************************************************************************)
EXTENDS Integers, Sequences, FiniteSets, FiniteSetsExt, Functions

CONSTANTS
  Entries, Rows,     \* bound: rows of the list, and what a new or edited one may be
  Queries, NoFilter,      \* a filter left out
  PageSizes, DefaultPageSize, MaxPageSize, ExportSize,
  MaxTerms,          \* words of a search that count
  MaxChanges         \* bound: edits

VARIABLES
  listed,      \* the table; made is when the row was created
  walk,        \* the pages read so far
  stayed,      \* history: rows that matched from the walk's start on
  pulled,      \* history: one of them moved towards the front meanwhile
  changed, changes
listVars == <<listed, walk, stayed, pulled, changed, changes>>

NoEntry == [made |-> 0]
NoWalk == [step |-> "idle"]
Made == {e \in Entries : listed[e] # NoEntry}
Sorts == {"newest", "oldest", "visit_asc", "visit_desc", "total_asc", "total_desc", "guest"}

ASSUME ListsAssumption ==
  /\ IsFiniteSet(Entries) /\ MaxTerms \in Nat /\ {DefaultPageSize, MaxPageSize, ExportSize} \subseteq Nat \ {0} /\ PageSizes \subseteq Int
  /\ \A r \in Rows : r.visit \in Int /\ r.total \in Int /\ r.guest \in Int
  /\ \A q \in Queries : q.sort \in Sorts

ListsTypeOK ==
  /\ listed \in [Entries -> {NoEntry} \cup [made : Nat \ {0}, row : Rows]]
  /\ \A e, f \in Made : listed[e].made = listed[f].made => e = f
  /\ walk # NoWalk => walk.page >= 1 /\ walk.size \in 1..Max({MaxPageSize, ExportSize}) /\ stayed \subseteq Made

ListsInit ==
  /\ \E rs \in [Entries -> Rows], n \in 0..Cardinality(Entries), order \in [Entries -> 1..Cardinality(Entries)] :
       /\ \A e, f \in Entries : order[e] = order[f] => e = f
       /\ listed = [e \in Entries |-> IF order[e] <= n THEN [made |-> order[e], row |-> rs[e]] ELSE NoEntry]
  /\ walk = NoWalk /\ stayed = {} /\ pulled = FALSE /\ changed = FALSE /\ changes = 0

(***************************************************************************)
(* What a list shows.                                                      *)
(***************************************************************************)
searchTerms(q) == {q.words[i] : i \in 1..Min({MaxTerms, Len(q.words)})}

\* kind stands for the slot, the payment mode, the rate and the nationality; a row's words for the
\* parts of its reference, name, e-mail and phone that a search may name.
filterBookings(e, q) ==
  LET r == listed[e].row IN
  /\ q.status \in {NoFilter, r.status} /\ q.kind \in {NoFilter, r.kind}
  /\ q.from = NoFilter \/ r.visit >= q.from
  /\ q.to = NoFilter \/ r.visit <= q.to
  /\ searchTerms(q) \subseteq r.words

\* Ahead of each other by the query's column, then newest first; the other columns never tie.
SORT_ORDER(e, f, q) ==
  LET a == listed[e]  b == listed[f]  newer == a.made > b.made
      by(x, y, rest) == x < y \/ (x = y /\ rest)
  IN CASE q.sort = "newest" -> newer
       [] q.sort = "oldest" -> a.made < b.made
       [] q.sort = "visit_asc" -> by(a.row.visit, b.row.visit, newer)
       [] q.sort = "visit_desc" -> by(b.row.visit, a.row.visit, newer)
       [] q.sort = "total_asc" -> by(a.row.total, b.row.total, newer)
       [] q.sort = "total_desc" -> by(b.row.total, a.row.total, newer)
       [] q.sort = "guest" -> by(a.row.guest, b.row.guest, newer)

Matching(q) == {e \in Made : filterBookings(e, q)}
Rank(e, q) == Cardinality({f \in Matching(q) : SORT_ORDER(f, e, q)})
Ordered(q) == [i \in 1..Cardinality(Matching(q)) |-> CHOOSE e \in Matching(q) : Rank(e, q) = i - 1]

\* 0: not asked for.
resolvePaging(asked) == Min({MaxPageSize, Max({1, IF asked = 0 THEN DefaultPageSize ELSE asked})})

\* Mutant: pages counted from nothing.
pageOffsetFromZero(page, size) == page * size

pageOffset(page, size) == (page - 1) * size

(***************************************************************************)
(* The walk.                                                               *)
(***************************************************************************)
Keep == UNCHANGED <<listed, changes>>

Unfiltered == [sort |-> "newest", status |-> NoFilter, kind |-> NoFilter, from |-> NoFilter, to |-> NoFilter, words |-> <<>>]

Walk(q, size, once) ==
  /\ walk' = [step |-> "rows", query |-> q, page |-> 1, size |-> size, once |-> once, seen |-> <<>>, total |-> 0]
  /\ stayed' = Matching(q) /\ pulled' = FALSE /\ changed' = FALSE /\ Keep

list(q, asked) == Walk(q, resolvePaging(asked), FALSE)
listQuotes(asked) == Walk(Unfiltered, resolvePaging(asked), FALSE)

\* Applications have a status, a vacancy (kind) and one search term, and are listed newest first.
asksApplications(q) == q.sort = "newest" /\ q.from = NoFilter /\ q.to = NoFilter /\ Len(q.words) <= 1
listApplications(q, asked) == asksApplications(q) /\ Walk(q, resolvePaging(asked), FALSE)

\* The first page, of many rows.
exportApplications(q) == asksApplications(q) /\ Walk(q, ExportSize, TRUE)

readRows ==
  /\ walk # NoWalk /\ walk.step = "rows"
  /\ LET from == pageOffset(walk.page, walk.size)
         all == Ordered(walk.query)
     IN walk' = [walk EXCEPT !.step = "count", !.seen = @ \o SubSeq(all, from + 1, Min({Len(all), from + walk.size}))]
  /\ UNCHANGED <<stayed, pulled, changed>> /\ Keep

readTotal ==
  /\ walk # NoWalk /\ walk.step = "count"
  /\ LET total == Cardinality(Matching(walk.query)) IN
     walk' = IF walk.once \/ walk.page * walk.size >= total THEN [walk EXCEPT !.step = "done", !.total = total]
             ELSE [walk EXCEPT !.step = "rows", !.total = total, !.page = @ + 1]
  /\ UNCHANGED <<stayed, pulled, changed>> /\ Keep

leave == walk # NoWalk /\ walk.step = "done" /\ walk' = NoWalk /\ UNCHANGED <<stayed, pulled, changed>> /\ Keep

(***************************************************************************)
(* The rows, meanwhile.                                                    *)
(***************************************************************************)
Write(e, entry) ==
  /\ changes < MaxChanges /\ changes' = changes + 1 /\ listed' = [listed EXCEPT ![e] = entry] /\ listed' # listed
  /\ changed' = TRUE /\ UNCHANGED walk
  /\ IF walk = NoWalk THEN UNCHANGED <<stayed, pulled>>
     ELSE /\ stayed' = stayed \cap Matching(walk.query)'
          /\ pulled' = (pulled \/ \E r \in stayed' : Rank(r, walk.query)' < Rank(r, walk.query))

add(e, r) == listed[e] = NoEntry /\ Write(e, [made |-> Max({0} \cup {listed[f].made : f \in Made}) + 1, row |-> r])
change(e, r) == listed[e] # NoEntry /\ Write(e, [listed[e] EXCEPT !.row = r])

ListsNext ==
  \/ /\ walk = NoWalk
     /\ \/ \E asked \in PageSizes : listQuotes(asked) \/ \E q \in Queries : list(q, asked) \/ listApplications(q, asked)
        \/ \E q \in Queries : exportApplications(q)
  \/ readRows \/ readTotal \/ leave
  \/ \E e \in Entries, r \in Rows : add(e, r) \/ change(e, r)

-----------------------------------------------------------------------------
(* Whoever walks through all pages sees every row that matched all along,  *)
(* although pages are cut by counting while rows come in: always when the  *)
(* list is by age and unfiltered, and otherwise unless an edit moved one of*)
(* those rows towards the front between two pages; an export sees them all *)
(* in its one page (list, listQuotes, listApplications).                   *)
NoneSkipped ==
  walk # NoWalk /\ walk.step = "done" =>
    LET byAge == walk.query \in {[Unfiltered EXCEPT !.sort = s] : s \in {"newest", "oldest"}}
    IN (byAge \/ ~pulled) /\ (walk.once => Len(walk.seen) < walk.size) => stayed \subseteq Range(walk.seen)

(* Undisturbed, the pages one after another are the list: nothing twice,   *)
(* in the order asked for, as many as the total says, or as an export may  *)
(* have (getManyAndCount).                                                 *)
PagesAreList ==
  walk # NoWalk /\ walk.step = "done" /\ ~changed =>
    LET all == Ordered(walk.query) IN
    /\ walk.seen = SubSeq(all, 1, Min({Len(all), IF walk.once THEN walk.size ELSE Len(all)}))
    /\ walk.total = Len(all)

ListsHold == NoneSkipped /\ PagesAreList
=============================================================================
