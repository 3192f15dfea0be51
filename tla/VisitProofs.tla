----------------------------- MODULE VisitProofs -----------------------------
(***************************************************************************)
(* A booking once it is sold, and what its guests are shown meanwhile, for *)
(* any number of requests, people, options, sweeps, operators, readers and *)
(* limits: the desk's, the guest's and the gate's writes, the price, the   *)
(* gate's rules, the reminder, the board, the rates and the forecast, each *)
(* with the invariant it keeps; then the day that holds them all.          *)
(***************************************************************************)
EXTENDS MCVisitDay, SumsProofs

-----------------------------------------------------------------------------
(* The visit: the invariant, part by part.                                 *)

Statuses == {"confirmed", "postponed", "arrived", "cancelled"}
VisitStages == {"new", "drawer", "guest", "gate", "compare", "write", "audit", "supersede", "insert", "done"}

(* What a column holds, and a change to some of the columns.               *)
Column(f) == IF f = "status" THEN Statuses ELSE IF f = "day" THEN 0..MaxDay ELSE 1..MaxParty
Change(D) == {p \in [D -> Statuses \cup Nat] : \A f \in D : p[f] \in Column(f)}
Changes == UNION {Change(D) : D \in SUBSET Fields}

Seen == [row : BookingRow, stamp : Nat, from : Statuses, want : Changes, override : BOOLEAN,
         waiver : WaiverRow, old : Requests \cup {NoRequest}]

VisitTyped ==
  /\ row \in BookingRow /\ told \in BookingRow /\ chain \in BOOLEAN /\ stamp \in Nat /\ today \in 0..MaxDay
  /\ waiver \in [Requests -> WaiverRow] /\ stage \in [Requests -> VisitStages] /\ seen \in [Requests -> Seen]
  /\ raced \subseteq Requests /\ torn \in BOOLEAN /\ overlap \subseteq People
  /\ wrong \subseteq {"raced"}

(* A request stamps the booking at most once, and signs at most once.      *)
Stamped == {r \in Requests : stage[r] \in {"audit", "done"}}
Signatures == {r \in Requests : waiver[r].who # NoPerson}
StampBounded == stamp <= Cardinality(Stamped)
VersionsBounded ==
  \A r \in Requests :
    /\ waiver[r].version <= Cardinality(Signatures)
    /\ seen[r].waiver.version <= Cardinality(Signatures) + 1
    /\ stage[r] \notin {"supersede", "insert"} => seen[r].waiver = NoWaiver

InProgress(r) == stage[r] \notin {"new", "done"}
Signs(r) == stage[r] \in {"supersede", "insert"}

(* What a request relies on: a drawer's stamp is that of the row it shows; *)
(* a gate nobody overtook saw the booking as it is, and let it pass.       *)
DrawerSound(r) ==
  stage[r] = "drawer" => seen[r].stamp <= stamp /\ (seen[r].stamp = stamp => seen[r].row = row)
GateSound(r) ==
  r \notin raced /\ stage[r] \in {"gate", "compare", "write"} =>
    /\ seen[r].from = row.status /\ row.status # "arrived"
    /\ seen[r].override \/ ~blocked(row.party)
    /\ stage[r] # "gate" => seen[r].row = row
    /\ stage[r] = "write" => DOMAIN seen[r].want = {"status"} /\ seen[r].want["status"] = "arrived"
SignerSound(r) ==
  /\ Signs(r) => seen[r].waiver.who \in People /\ seen[r].waiver.state = "current"
  /\ stage[r] = "supersede" => seen[r].old \in Requests /\ waiver[seen[r].old].who = seen[r].waiver.who
  /\ stage[r] # "done" => waiver[r] = NoWaiver
RequestSound(r) == (r \in raced => InProgress(r)) /\ DrawerSound(r) /\ GateSound(r) /\ SignerSound(r)

(* The trail: it adds up to the booking but for the entry the one arrival  *)
(* being written still owes.                                               *)
RacedAudit == \E r \in raced : stage[r] = "audit"
TrailSound ==
  \/ torn \/ RacedAudit
  \/ /\ chain /\ ((\A r \in Requests : stage[r] # "audit") => told = row)
     /\ \A r \in Requests : stage[r] = "audit" =>
          row.status = "arrived" /\ told = [row EXCEPT !.status = seen[r].from]
AuditsApart == \A q, r \in Requests : q # r /\ stage[q] = "audit" /\ stage[r] = "audit" => q \in raced \/ r \in raced

(* A person's signatures, with at most one more on its way.                *)
Signed(p) == {r \in Requests : waiver[r].who = p}
Busy(p) == {r \in Requests : Signs(r) /\ seen[r].waiver.who = p}
LatestSound(p) ==
  /\ \A q, r \in Busy(p) : q = r
  /\ Busy(p) = {} => \/ Signed(p) = {}
                     \/ \E r \in Signed(p) : OfPerson(p) = {r} /\ waiver[r].version = Cardinality(Signed(p))
  /\ \A q \in Busy(p) :
       /\ seen[q].waiver.version = Cardinality(Signed(p)) + 1
       /\ stage[q] = "supersede" => OfPerson(p) = {seen[q].old}
       /\ stage[q] = "insert" => OfPerson(p) = {}

VisitInv ==
  /\ VisitTyped /\ StampBounded /\ VersionsBounded
  /\ \A r \in Requests : RequestSound(r)
  /\ TrailSound /\ AuditsApart
  /\ \A p \in People \ overlap : LatestSound(p)

-----------------------------------------------------------------------------
(* The visit: rows, changes and counts.                                    *)

LEMMA RowIs ==
  ASSUME NEW b
  PROVE  b \in BookingRow <=> /\ b = [f \in Fields |-> b[f]]
                              /\ b["status"] \in Statuses /\ b["day"] \in 0..MaxDay /\ b["party"] \in 1..MaxParty
BY DEF BookingRow, Fields, Statuses

LEMMA ChangeIs ==
  ASSUME NEW p \in Changes
  PROVE  DOMAIN p \subseteq Fields /\ \A f \in DOMAIN p : p[f] \in Column(f)
BY DEF Changes, Change

LEMMA ChangeMade ==
  ASSUME NEW D \in SUBSET Fields, NEW p, p = [f \in D |-> p[f]], \A f \in D : p[f] \in Column(f)
  PROVE  p \in Changes
<1>1. \A f \in D : p[f] \in Statuses \cup Nat BY VisitsAssumption DEF Column
<1>2. p \in Change(D) BY <1>1 DEF Change
<1> QED BY <1>2 DEF Changes

LEMMA Applied ==
  ASSUME NEW p \in Changes, NEW b \in BookingRow
  PROVE  /\ Patched(p, b) \in BookingRow
         /\ \A f \in Fields : Patched(p, b)[f] = IF f \in DOMAIN p THEN p[f] ELSE b[f]
<1>1. DOMAIN p \subseteq Fields /\ \A f \in DOMAIN p : p[f] \in Column(f) BY ChangeIs
<1>2. b["status"] \in Statuses /\ b["day"] \in 0..MaxDay /\ b["party"] \in 1..MaxParty BY RowIs
<1> DEFINE c == Patched(p, b)
<1>3. c = [f \in Fields |-> c[f]] BY DEF Patched
<1>4. \A f \in Fields : c[f] = IF f \in DOMAIN p THEN p[f] ELSE b[f] BY DEF Patched
<1>5. c["status"] \in Statuses /\ c["day"] \in 0..MaxDay /\ c["party"] \in 1..MaxParty
  BY <1>1, <1>2, <1>4 DEF Fields, Column
<1> HIDE DEF c
<1>6. c \in BookingRow BY <1>3, <1>5, RowIs
<1> QED BY <1>4, <1>6 DEF c

LEMMA PatchesAreChanges == Patches \subseteq Changes
<1> USE VisitsAssumption
<1>1. ASSUME NEW s \in Statuses PROVE [status |-> s] \in Changes
  BY <1>1, ChangeMade DEF Fields, Column
<1>2. ASSUME NEW d \in 0..MaxDay PROVE [day |-> d] \in Changes
  BY <1>2, ChangeMade DEF Fields, Column
<1>3. ASSUME NEW n \in 1..MaxParty PROVE [party |-> n] \in Changes
  BY <1>3, ChangeMade DEF Fields, Column
<1>4. ASSUME NEW n \in 1..MaxParty PROVE [status |-> "arrived", party |-> n] \in Changes
  BY <1>4, ChangeMade DEF Fields, Column, Statuses
<1>5. ASSUME NEW d \in 0..MaxDay, NEW n \in 1..MaxParty PROVE [day |-> d, party |-> n] \in Changes
  BY <1>5, ChangeMade DEF Fields, Column
<1> QED BY <1>1, <1>2, <1>3, <1>4, <1>5 DEF Patches, Statuses

LEMMA GuestPatchesAreChanges == today \in 0..MaxDay => guestPatches \subseteq Changes
<1> USE VisitsAssumption
<1> SUFFICES ASSUME today \in 0..MaxDay, NEW p \in guestPatches PROVE p \in Changes OBVIOUS
<1>1. ASSUME NEW d \in today..MaxDay PROVE [day |-> d, status |-> "confirmed"] \in Changes
  <2>1. d \in 0..MaxDay OBVIOUS
  <2> QED BY <2>1, ChangeMade DEF Fields, Column, Statuses
<1>2. ASSUME NEW d \in today..MaxDay PROVE [day |-> d] \in Changes
  <2>1. d \in 0..MaxDay OBVIOUS
  <2> QED BY <2>1, PatchesAreChanges DEF Patches
<1>3. \A n \in 1..MaxParty : [party |-> n] \in Changes BY PatchesAreChanges DEF Patches
<1>4. [status |-> "cancelled"] \in Changes BY PatchesAreChanges DEF Patches
<1> QED BY <1>1, <1>2, <1>3, <1>4 DEF guestPatches

LEMMA Blanks ==
  /\ NoWaiver \in WaiverRow /\ NoWaiver.who = NoPerson /\ NoWaiver.version = 0 /\ NoWaiver.state = "none"
  /\ Blank \in Seen /\ Blank.waiver = NoWaiver
<1>1. NoWaiver \in WaiverRow /\ NoWaiver.who = NoPerson /\ NoWaiver.version = 0 /\ NoWaiver.state = "none"
  BY DEF NoWaiver, WaiverRow
<1>2. Anything \in BookingRow
  <2>1. [status |-> "confirmed", day |-> 0, party |-> 1] \in BookingRow BY VisitsAssumption DEF BookingRow
  <2> QED BY <2>1 DEF Anything
<1>3. Anything.status \in Statuses BY <1>2 DEF BookingRow, Statuses
<1>4. <<>> \in Changes
  <2>1. <<>> = [f \in {} |-> <<>>[f]] OBVIOUS
  <2> QED BY <2>1, ChangeMade
<1> QED BY <1>1, <1>2, <1>3, <1>4 DEF Blank, Seen

LEMMA ReadIs ==
  ASSUME VisitTyped
  PROVE  /\ Read \in Seen /\ Read.row = row /\ Read.stamp = stamp /\ Read.from = row.status
         /\ Read.waiver = NoWaiver
<1>1. row.status \in Statuses BY DEF VisitTyped, BookingRow, Statuses
<1> QED BY <1>1, Blanks DEF Read, Blank, VisitTyped, Seen

LEMMA RequestsFinite ==
  ASSUME NEW S \in SUBSET Requests
  PROVE  IsFiniteSet(S) /\ Cardinality(S) \in Nat /\ Cardinality(S) <= Cardinality(Requests)
         /\ Cardinality(Requests) \in Nat
BY VisitsAssumption, FS_Subset, FS_CardinalityType

LEMMA OneMoreRequest ==
  ASSUME NEW S \in SUBSET Requests, NEW r \in Requests, r \notin S
  PROVE  Cardinality(S \cup {r}) = Cardinality(S) + 1
BY RequestsFinite, FS_AddElement

LEMMA VisitInitially == VisitInit => VisitInv
<1> SUFFICES ASSUME VisitInit PROVE VisitInv OBVIOUS
<1>1. row \in BookingRow /\ told = row BY VisitsAssumption DEF VisitInit, BookingRow
<1>2. waiver \in [Requests -> WaiverRow] /\ seen \in [Requests -> Seen] /\ stage \in [Requests -> VisitStages]
  BY Blanks DEF VisitInit, VisitStages
<1>3. chain \in BOOLEAN /\ torn \in BOOLEAN BY Zenon DEF VisitInit
<1>4. stamp \in Nat /\ today \in 0..MaxDay BY VisitsAssumption DEF VisitInit
<1>5. VisitTyped BY <1>1, <1>2, <1>3, <1>4 DEF VisitTyped, VisitInit
<1>6. StampBounded BY RequestsFinite DEF StampBounded, Stamped, VisitInit
<1>7. VersionsBounded
  <2>1. Signatures \subseteq Requests BY DEF Signatures
  <2>2. Cardinality(Signatures) \in Nat BY <2>1, RequestsFinite
  <2> QED BY <2>2, Blanks DEF VersionsBounded, VisitInit
<1>8. \A r \in Requests : RequestSound(r)
  BY DEF VisitInit, RequestSound, DrawerSound, GateSound, SignerSound, Signs
<1>9. TrailSound /\ AuditsApart BY DEF VisitInit, TrailSound, AuditsApart
<1>10. \A p \in People : LatestSound(p)
  BY VisitsAssumption, Blanks DEF VisitInit, LatestSound, Busy, Signed, Signs
<1> QED BY <1>5, <1>6, <1>7, <1>8, <1>9, <1>10 DEF VisitInv

-----------------------------------------------------------------------------
(* The visit: what holds of the others when request r takes a step.        *)

Turn(r) == \A q \in Requests \ {r} : stage'[q] = stage[q] /\ seen'[q] = seen[q]

(* Whoever is under way has been overtaken, unless nothing was written.    *)
Calm == UNCHANGED <<row, waiver>>
OthersRaced(r) == \A q \in Requests \ {r} : InProgress(q) => q \in raced'
NoNewRace(r) == raced' \ {r} = raced \ {r}
StampMoves == stamp' \in Nat /\ stamp <= stamp' /\ (row' # row => stamp < stamp')
SignersKept(r) == \A q \in Requests \ {r} : waiver'[q].who = waiver[q].who /\ (waiver[q] = NoWaiver => waiver'[q] = NoWaiver)

LEMMA StampOrder ==
  ASSUME VisitTyped, NEW r \in Requests
  PROVE  seen[r].stamp \in Nat /\ stamp \in Nat
BY DEF VisitTyped, Seen

LEMMA OthersSound ==
  ASSUME VisitInv, NEW r \in Requests, Turn(r), SignersKept(r), StampMoves,
         waiver'[r].who = waiver[r].who \/ waiver[r] = NoWaiver,
         raced' \subseteq raced \cup {q \in Requests : InProgress(q)},
         OthersRaced(r) \/ (Calm /\ raced \ {r} \subseteq raced')
  PROVE  \A q \in Requests \ {r} : RequestSound(q)'
<1> SUFFICES ASSUME NEW q \in Requests \ {r} PROVE RequestSound(q)' OBVIOUS
<1>0. RequestSound(q) /\ stage'[q] = stage[q] /\ seen'[q] = seen[q] BY DEF VisitInv, Turn
<1>1. q \in raced' => InProgress(q)' BY <1>0 DEF RequestSound, InProgress
<1>2. DrawerSound(q)'
  <2>1. seen[q].stamp \in Nat /\ stamp \in Nat BY StampOrder DEF VisitInv
  <2>2. ASSUME stage[q] = "drawer" PROVE seen[q].stamp <= stamp' /\ (seen[q].stamp = stamp' => seen[q].row = row')
    <3>1. seen[q].stamp <= stamp /\ (seen[q].stamp = stamp => seen[q].row = row)
      BY <1>0, <2>2 DEF RequestSound, DrawerSound
    <3>2. row' # row => stamp < stamp' BY DEF StampMoves
    <3>3. stamp' \in Nat /\ stamp <= stamp' BY DEF StampMoves
    <3>4. seen[q].stamp <= stamp' BY <2>1, <3>1, <3>3
    <3>5. ASSUME seen[q].stamp = stamp' PROVE seen[q].row = row'
      <4>1. ~ (stamp < stamp') /\ seen[q].stamp = stamp BY <2>1, <3>1, <3>3, <3>5
      <4> QED BY <3>1, <3>2, <4>1
    <3> QED BY <3>4, <3>5
  <2> QED BY <1>0, <2>2 DEF DrawerSound
<1>3. GateSound(q)'
  <2> SUFFICES ASSUME q \notin raced', stage[q] \in {"gate", "compare", "write"} PROVE GateSound(q)'
    BY <1>0 DEF GateSound
  <2>1. ~ OthersRaced(r) BY DEF OthersRaced, InProgress
  <2>2. q \notin raced /\ row' = row /\ waiver' = waiver BY <2>1 DEF Calm
  <2>3. blocked(row.party)' <=> blocked(row.party) BY <2>2 DEF blocked, CurrentWaivers
  <2> QED BY <1>0, <2>2, <2>3 DEF RequestSound, GateSound
<1>4. SignerSound(q)'
  <2>1. SignerSound(q) BY <1>0 DEF RequestSound
  <2>2. stage[q] = "supersede" => waiver'[seen[q].old].who = waiver[seen[q].old].who
    <3> SUFFICES ASSUME stage[q] = "supersede" PROVE waiver'[seen[q].old].who = waiver[seen[q].old].who OBVIOUS
    <3>1. seen[q].old \in Requests /\ waiver[seen[q].old].who = seen[q].waiver.who /\ seen[q].waiver.who \in People
      BY <2>1 DEF SignerSound, Signs
    <3>2. CASE seen[q].old # r BY <3>1, <3>2 DEF SignersKept
    <3>3. CASE seen[q].old = r
      <4>1. waiver[r] # NoWaiver BY <3>1, <3>3, Blanks, VisitsAssumption
      <4> QED BY <3>3, <4>1
    <3> QED BY <3>2, <3>3
  <2> QED BY <1>0, <2>1, <2>2 DEF SignerSound, Signs, SignersKept
<1> QED BY <1>1, <1>2, <1>3, <1>4 DEF RequestSound

(* Away from the waivers, nobody's signatures move.                        *)
LEMMA LatestKept ==
  ASSUME VisitInv, NEW r \in Requests, Turn(r), UNCHANGED <<waiver, overlap>>, ~ Signs(r), ~ Signs(r)'
  PROVE  \A p \in People \ overlap' : LatestSound(p)'
<1> SUFFICES ASSUME NEW p \in People \ overlap PROVE LatestSound(p)' OBVIOUS
<1>1. Busy(p)' = Busy(p) BY DEF Busy, Turn, Signs
<1>2. Signed(p)' = Signed(p) /\ OfPerson(p)' = OfPerson(p) BY DEF Signed, OfPerson, CurrentWaivers
<1>3. \A q \in Busy(p) : q # r BY DEF Busy
<1>4. \A q \in Busy(p) : q \in Requests /\ stage'[q] = stage[q] /\ seen'[q] = seen[q] BY <1>3 DEF Turn, Busy
<1> QED BY <1>1, <1>2, <1>4 DEF VisitInv, LatestSound

LEMMA VersionsKept ==
  ASSUME VisitInv, NEW r \in Requests, Turn(r), UNCHANGED waiver, ~ Signs(r)', seen'[r].waiver = NoWaiver
  PROVE  VersionsBounded'
<1>1. Signatures' = Signatures BY DEF Signatures
<1>2. Cardinality(Signatures) \in Nat BY RequestsFinite DEF Signatures
<1>3. NoWaiver.version = 0 BY Blanks
<1> QED BY <1>1, <1>2, <1>3 DEF VisitInv, VersionsBounded, Turn, Signs

(* Who only looks.                                                         *)
LEMMA LooksKept ==
  ASSUME VisitInv, NEW r \in Requests, Turn(r), NEW s \in VisitStages, NEW k \in Seen,
         stage' = [stage EXCEPT ![r] = s], seen' = [seen EXCEPT ![r] = k],
         stage[r] \notin {"audit", "done", "supersede", "insert"}, s \in {"drawer", "guest", "gate", "compare", "write"},
         k.waiver = NoWaiver, DrawerSound(r)', GateSound(r)',
         UNCHANGED <<row, stamp, waiver, told, chain, today, raced, torn, overlap, wrong>>
  PROVE  VisitInv'
<1>0. stage'[r] = s /\ seen'[r] = k BY DEF VisitInv, VisitTyped
<1>1. VisitTyped' BY DEF VisitInv, VisitTyped
<1>2. Stamped' = Stamped BY <1>0 DEF Stamped, Turn
<1>3. StampBounded' BY <1>2 DEF VisitInv, StampBounded
<1>4. VersionsBounded' BY <1>0, VersionsKept DEF Signs
<1>5. \A q \in Requests \ {r} : RequestSound(q)'
  <2>1. SignersKept(r) /\ StampMoves /\ Calm BY DEF SignersKept, StampMoves, Calm, VisitInv, VisitTyped
  <2> QED BY <2>1, OthersSound
<1>6. RequestSound(r)'
  <2>1. RequestSound(r) BY DEF VisitInv
  <2> QED BY <1>0, <2>1 DEF RequestSound, SignerSound, Signs, InProgress
<1>7. \A q \in Requests : (stage'[q] = "audit" <=> stage[q] = "audit") /\ (stage[q] = "audit" => seen'[q] = seen[q])
  BY <1>0 DEF Turn
<1>8. TrailSound' /\ AuditsApart' BY <1>7 DEF VisitInv, VisitTyped, TrailSound, RacedAudit, AuditsApart
<1>9. \A p \in People \ overlap' : LatestSound(p)' BY <1>0, LatestKept DEF Signs
<1> QED BY <1>1, <1>3, <1>4, <1>5, <1>6, <1>8, <1>9 DEF VisitInv

(* Who is answered and has written nothing.                                *)
LEMMA NothingKept ==
  ASSUME VisitInv, NEW r \in Requests, ~ Signs(r), InProgress(r), stage[r] # "audit", NothingMoves(r),
         UNCHANGED <<waiver, today, torn, overlap, wrong>>
  PROVE  VisitInv'
<1>0. stage' = [stage EXCEPT ![r] = "done"] /\ seen' = [seen EXCEPT ![r] = Blank] /\ raced' = raced \ {r}
      /\ UNCHANGED <<row, stamp, told, chain>>
  BY DEF NothingMoves, Finish, Go
<1>1. stage'[r] = "done" /\ seen'[r] = Blank /\ Turn(r) BY <1>0 DEF VisitInv, VisitTyped, Turn
<1>2. VisitTyped' BY <1>0, Blanks DEF VisitInv, VisitTyped, VisitStages
<1>3. StampBounded'
  <2>1. Stamped' = Stamped \cup {r} /\ r \notin Stamped BY <1>1 DEF Stamped, Turn, InProgress
  <2>2. Stamped \in SUBSET Requests /\ Stamped' \in SUBSET Requests BY DEF Stamped
  <2>3. Cardinality(Stamped') = Cardinality(Stamped) + 1 /\ Cardinality(Stamped) \in Nat
    BY <2>1, <2>2, OneMoreRequest, RequestsFinite
  <2> QED BY <1>0, <2>3 DEF VisitInv, VisitTyped, StampBounded
<1>4. VersionsBounded' BY <1>1, Blanks, VersionsKept DEF Signs
<1>5. \A q \in Requests \ {r} : RequestSound(q)'
  <2>1. SignersKept(r) /\ StampMoves /\ Calm BY <1>0 DEF SignersKept, StampMoves, Calm, VisitInv, VisitTyped
  <2> QED BY <1>0, <1>1, <2>1, OthersSound
<1>6. RequestSound(r)' BY <1>0, <1>1 DEF RequestSound, DrawerSound, GateSound, SignerSound, Signs
<1>7. \A q \in Requests : (stage'[q] = "audit" <=> stage[q] = "audit") /\ (stage[q] = "audit" => q # r /\ seen'[q] = seen[q])
  BY <1>1 DEF Turn
<1>8. TrailSound' /\ AuditsApart' BY <1>0, <1>7 DEF VisitInv, VisitTyped, TrailSound, RacedAudit, AuditsApart
<1>9. \A p \in People \ overlap' : LatestSound(p)' BY <1>1, LatestKept DEF Signs
<1> QED BY <1>2, <1>3, <1>4, <1>5, <1>6, <1>8, <1>9 DEF VisitInv

(* A patch and its entries.                                                *)
LEMMA CommitKept ==
  ASSUME VisitInv, NEW r \in Requests, ~ Signs(r), stage[r] \notin {"audit", "done"}, NEW p \in Changes, Commit(r, p, row),
         UNCHANGED <<waiver, today, torn, overlap>>, wrong' = wrong
  PROVE  VisitInv'
<1> DEFINE moved == {f \in DOMAIN p : p[f] # row[f]}
           entries == [f \in moved |-> p[f]]
<1>0. /\ stage' = [stage EXCEPT ![r] = "done"] /\ seen' = [seen EXCEPT ![r] = Blank]
      /\ raced' = (raced \cup {q \in Requests : stage[q] \notin {"new", "done"}}) \ {r}
      /\ row' = Patched(p, row) /\ stamp' = stamp + 1 /\ told' = Patched(entries, told)
      /\ chain' = (chain /\ \A f \in moved : told[f] = row[f])
  BY DEF Commit, Overtakes, Finish, Go
<1>1. stage'[r] = "done" /\ seen'[r] = Blank /\ Turn(r) BY <1>0 DEF VisitInv, VisitTyped, Turn
<1>a. DOMAIN p \subseteq Fields /\ \A f \in DOMAIN p : p[f] \in Column(f) BY ChangeIs
<1>b. entries \in Changes
  <2>1. moved \in SUBSET Fields /\ \A f \in moved : entries[f] \in Column(f) BY <1>a
  <2>2. entries = [f \in moved |-> entries[f]] OBVIOUS
  <2> HIDE DEF moved, entries
  <2> QED BY <2>1, <2>2, ChangeMade
<1>c. row \in BookingRow /\ told \in BookingRow BY DEF VisitInv, VisitTyped
<1>d. row' \in BookingRow /\ \A f \in Fields : row'[f] = IF f \in DOMAIN p THEN p[f] ELSE row[f]
  BY <1>0, <1>c, Applied
<1>e. told' \in BookingRow /\ \A f \in Fields : told'[f] = IF f \in moved THEN p[f] ELSE told[f]
  <2>1. DOMAIN entries = moved /\ \A f \in moved : entries[f] = p[f] OBVIOUS
  <2> HIDE DEF entries
  <2> QED BY <1>0, <1>b, <1>c, <2>1, Applied
<1>2. VisitTyped'
  <2>1. chain' \in BOOLEAN BY <1>0
  <2>2. stamp' \in Nat BY <1>0 DEF VisitInv, VisitTyped
  <2> HIDE DEF moved, entries
  <2> QED BY <1>0, <1>d, <1>e, <2>1, <2>2, Blanks DEF VisitInv, VisitTyped, VisitStages
<1>3. StampBounded'
  <2>1. Stamped' = Stamped \cup {r} /\ r \notin Stamped BY <1>1 DEF Stamped, Turn
  <2>2. Stamped \in SUBSET Requests /\ Stamped' \in SUBSET Requests BY DEF Stamped
  <2>3. Cardinality(Stamped') = Cardinality(Stamped) + 1 /\ Cardinality(Stamped) \in Nat
    BY <2>1, <2>2, OneMoreRequest, RequestsFinite
  <2> QED BY <1>0, <2>3 DEF VisitInv, VisitTyped, StampBounded
<1>4. VersionsBounded' BY <1>1, Blanks, VersionsKept DEF Signs
<1>5. \A q \in Requests \ {r} : RequestSound(q)'
  <2>1. SignersKept(r) /\ StampMoves BY <1>0 DEF SignersKept, StampMoves, VisitInv, VisitTyped
  <2>2. OthersRaced(r) BY <1>0 DEF OthersRaced, InProgress
  <2>3. raced' \subseteq raced \cup {q \in Requests : InProgress(q)} BY <1>0 DEF InProgress
  <2> QED BY <1>1, <2>1, <2>2, <2>3, OthersSound
<1>6. RequestSound(r)' BY <1>0, <1>1 DEF RequestSound, DrawerSound, GateSound, SignerSound, Signs
<1>7. \A q \in Requests : (stage'[q] = "audit" <=> stage[q] = "audit") /\ (stage[q] = "audit" => q # r /\ q \in raced')
  BY <1>0, <1>1 DEF Turn
<1>8. TrailSound'
  <2>1. CASE torn \/ RacedAudit BY <1>0, <1>7, <2>1 DEF TrailSound, RacedAudit
  <2>2. CASE \E q \in Requests : stage[q] = "audit" BY <1>7, <2>2 DEF TrailSound, RacedAudit
  <2>3. CASE (\A q \in Requests : stage[q] # "audit") /\ ~ torn /\ ~ RacedAudit
    <3>1. chain /\ told = row BY <2>3 DEF VisitInv, TrailSound
    <3>2. \A f \in Fields : told'[f] = row'[f] BY <1>d, <1>e, <3>1
    <3>3. told' = row'
      <4>1. told' = [f \in Fields |-> told'[f]] /\ row' = [f \in Fields |-> row'[f]] BY <1>d, <1>e, RowIs
      <4> HIDE DEF moved, entries
      <4> QED BY <3>2, <4>1
    <3>4. chain' BY <1>0, <3>1
    <3> QED BY <1>7, <2>3, <3>3, <3>4 DEF TrailSound
  <2> QED BY <2>1, <2>2, <2>3
<1>9. AuditsApart' BY <1>7 DEF AuditsApart
<1>10. \A q \in People \ overlap' : LatestSound(q)' BY <1>1, LatestKept DEF Signs
<1> QED BY <1>2, <1>3, <1>4, <1>5, <1>6, <1>8, <1>9, <1>10 DEF VisitInv

(* The trail, by a step that neither writes the booking nor reports to it. *)
LEMMA TrailKept ==
  ASSUME VisitInv, NEW r \in Requests, Turn(r), stage[r] # "audit", stage'[r] # "audit",
         UNCHANGED <<row, told, chain, torn>>, raced \ {r} \subseteq raced'
  PROVE  TrailSound' /\ AuditsApart'
<1>1. \A q \in Requests : (stage'[q] = "audit" <=> stage[q] = "audit") /\ (stage[q] = "audit" => q # r /\ seen'[q] = seen[q])
  BY DEF Turn
<1> QED BY <1>1 DEF VisitInv, VisitTyped, TrailSound, RacedAudit, AuditsApart

(* Every step ends a request, or leaves it where it counts as before.      *)
LEMMA StampKept ==
  ASSUME VisitInv, NEW r \in Requests, Turn(r), stage[r] \notin {"audit", "done"},
         \/ stage'[r] \in {"audit", "done"} /\ stamp' \in {stamp, stamp + 1}
         \/ stage'[r] \notin {"audit", "done"} /\ stamp' = stamp
  PROVE  StampBounded'
<1>1. stamp \in Nat /\ stamp <= Cardinality(Stamped) BY DEF VisitInv, VisitTyped, StampBounded
<1>2. Stamped \in SUBSET Requests BY DEF Stamped
<1>3. Cardinality(Stamped) \in Nat BY <1>2, RequestsFinite
<1>4. CASE stage'[r] \in {"audit", "done"} /\ stamp' \in {stamp, stamp + 1}
  <2>1. Stamped' = Stamped \cup {r} /\ r \notin Stamped BY <1>4 DEF Stamped, Turn
  <2>2. Cardinality(Stamped') = Cardinality(Stamped) + 1 BY <1>2, <2>1, OneMoreRequest
  <2> QED BY <1>1, <1>3, <1>4, <2>2 DEF StampBounded
<1>5. CASE stage'[r] \notin {"audit", "done"} /\ stamp' = stamp
  <2>1. Stamped' = Stamped BY <1>5 DEF Stamped, Turn
  <2> QED BY <1>1, <1>5, <2>1 DEF StampBounded
<1> QED BY <1>4, <1>5

-----------------------------------------------------------------------------
(* The visit: its actions.                                                 *)

LEMMA TurnOf ==
  ASSUME VisitInv, NEW r \in Requests, NEW s, NEW k, stage' = [stage EXCEPT ![r] = s], seen' = [seen EXCEPT ![r] = k]
  PROVE  Turn(r) /\ stage'[r] = s /\ seen'[r] = k
BY DEF Turn, VisitInv, VisitTyped

LEMMA SeenOf ==
  ASSUME VisitInv, NEW r \in Requests
  PROVE  /\ seen[r] \in Seen /\ row \in BookingRow /\ row.status \in Statuses /\ stage[r] \in VisitStages
         /\ ~ Signs(r) => seen[r].waiver = NoWaiver
BY DEF VisitInv, VisitTyped, VersionsBounded, Signs, BookingRow, Statuses

LEMMA openDrawerKept ==
  ASSUME VisitInv, NEW r \in Requests, openDrawer(r)
  PROVE  VisitInv'
<1>1. stage' = [stage EXCEPT ![r] = "drawer"] /\ seen' = [seen EXCEPT ![r] = Read] BY DEF openDrawer, Go
<1>2. Turn(r) /\ stage'[r] = "drawer" /\ seen'[r] = Read BY <1>1, TurnOf
<1>3. Read \in Seen /\ Read.row = row /\ Read.stamp = stamp /\ Read.waiver = NoWaiver BY ReadIs DEF VisitInv
<1>4. DrawerSound(r)'
  <2>1. stamp <= stamp BY StampOrder DEF VisitInv
  <2> QED BY <1>2, <1>3, <2>1 DEF DrawerSound, openDrawer
<1>5. GateSound(r)' BY <1>2 DEF GateSound
<1> QED BY <1>1, <1>2, <1>3, <1>4, <1>5, LooksKept DEF openDrawer, VisitStages

LEMMA guestAsksKept ==
  ASSUME VisitInv, NEW r \in Requests, guestAsks(r)
  PROVE  VisitInv'
<1>1. PICK patch \in guestPatches : seen' = [seen EXCEPT ![r] = [Blank EXCEPT !.row = row, !.want = patch]]
  BY DEF guestAsks
<1> DEFINE k == [Blank EXCEPT !.row = row, !.want = patch]
<1>2. stage' = [stage EXCEPT ![r] = "guest"] BY DEF guestAsks, Go
<1>3. patch \in Changes BY GuestPatchesAreChanges DEF VisitInv, VisitTyped
<1>4. k \in Seen /\ k.waiver = NoWaiver BY <1>3, SeenOf, Blanks DEF Seen
<1> HIDE DEF k
<1>5. Turn(r) /\ stage'[r] = "guest" /\ seen'[r] = k BY <1>1, <1>2, TurnOf DEF k
<1>6. DrawerSound(r)' /\ GateSound(r)' BY <1>5 DEF DrawerSound, GateSound
<1>7. seen' = [seen EXCEPT ![r] = k] BY <1>1 DEF k
<1> QED BY <1>2, <1>4, <1>5, <1>6, <1>7, LooksKept DEF guestAsks, VisitStages

LEMMA gateViewKept ==
  ASSUME VisitInv, NEW r \in Requests, gateView(r)
  PROVE  VisitInv'
<1>1. PICK override \in BOOLEAN :
        /\ override \/ ~blocked(required)
        /\ seen' = [seen EXCEPT ![r] = [Read EXCEPT !.override = override]]
  BY DEF gateView
<1> DEFINE k == [Read EXCEPT !.override = override]
<1>2. stage' = [stage EXCEPT ![r] = "gate"] BY DEF gateView, Go
<1>3. k \in Seen /\ k.waiver = NoWaiver /\ k.from = row.status /\ k.override = override
  BY ReadIs DEF VisitInv, Seen
<1> HIDE DEF k
<1>4. Turn(r) /\ stage'[r] = "gate" /\ seen'[r] = k BY <1>1, <1>2, TurnOf DEF k
<1>5. DrawerSound(r)' BY <1>4 DEF DrawerSound
<1>6. GateSound(r)'
  <2>1. blocked(row.party)' <=> blocked(row.party) BY DEF gateView, blocked, CurrentWaivers
  <2>2. row' = row /\ row.status # "arrived" BY DEF gateView
  <2> QED BY <1>1, <1>3, <1>4, <2>1, <2>2 DEF GateSound, required
<1>7. seen' = [seen EXCEPT ![r] = k] BY <1>1 DEF k
<1> QED BY <1>2, <1>3, <1>4, <1>5, <1>6, <1>7, LooksKept DEF gateView, VisitStages

LEMMA checkInKept ==
  ASSUME VisitInv, NEW r \in Requests, checkIn(r)
  PROVE  VisitInv'
<1> DEFINE k == [seen[r] EXCEPT !.row = row]
<1>1. stage' = [stage EXCEPT ![r] = "compare"] /\ seen' = [seen EXCEPT ![r] = k] BY DEF checkIn, Go
<1>2. k \in Seen /\ k.waiver = NoWaiver /\ k.from = seen[r].from /\ k.override = seen[r].override /\ k.row = row
  BY SeenOf DEF checkIn, Seen, Signs
<1> HIDE DEF k
<1>3. Turn(r) /\ stage'[r] = "compare" /\ seen'[r] = k BY <1>1, TurnOf
<1>4. DrawerSound(r)' BY <1>3 DEF DrawerSound
<1>5. GateSound(r)'
  <2>1. blocked(row.party)' <=> blocked(row.party) BY DEF checkIn, blocked, CurrentWaivers
  <2>2. row' = row /\ raced' = raced /\ GateSound(r) /\ stage[r] = "gate" BY DEF checkIn, VisitInv, RequestSound
  <2> QED BY <1>2, <1>3, <2>1, <2>2 DEF GateSound
<1> QED BY <1>1, <1>2, <1>3, <1>4, <1>5, LooksKept DEF checkIn, VisitStages

LEMMA CompareKept ==
  ASSUME VisitInv, NEW r \in Requests, Compare(r)
  PROVE  VisitInv'
<1> DEFINE entity == [seen[r].row EXCEPT !.status = "arrived"]
           differ == {f \in Fields : entity[f] # row[f]}
           want == [f \in differ |-> entity[f]]
           k == [seen[r] EXCEPT !.want = want]
<1>1. stage' = [stage EXCEPT ![r] = "write"] /\ seen' = [seen EXCEPT ![r] = k] BY DEF Compare, Go
<1>a. seen[r] \in Seen /\ seen[r].waiver = NoWaiver BY SeenOf DEF Compare, Signs
<1>b. seen[r].row \in BookingRow BY <1>a DEF Seen
<1>c. entity \in BookingRow /\ entity["status"] = "arrived" /\ \A f \in Fields \ {"status"} : entity[f] = seen[r].row[f]
  BY <1>b DEF BookingRow, Fields
<1>2. want \in Changes
  <2>1. \A f \in differ : want[f] \in Column(f)
    <3>1. entity["status"] \in Statuses /\ entity["day"] \in 0..MaxDay /\ entity["party"] \in 1..MaxParty
      BY <1>c, RowIs
    <3>2. \A f \in differ : f \in Fields /\ want[f] = entity[f] OBVIOUS
    <3> HIDE DEF differ, want, entity
    <3>3. \A f \in Fields : entity[f] \in Column(f) BY <3>1 DEF Column, Fields
    <3> QED BY <3>2, <3>3
  <2>2. differ \in SUBSET Fields /\ want = [f \in differ |-> want[f]] OBVIOUS
  <2> HIDE DEF differ, want
  <2> QED BY <2>1, <2>2, ChangeMade
<1>d. DOMAIN want = differ /\ \A f \in differ : want[f] = entity[f] OBVIOUS
<1>3. k \in Seen /\ k.waiver = NoWaiver /\ k.from = seen[r].from /\ k.override = seen[r].override /\ k.row = seen[r].row
      /\ k.want = want
  <2> HIDE DEF want
  <2> QED BY <1>2, <1>a DEF Seen
<1> HIDE DEF k, want
<1>4. Turn(r) /\ stage'[r] = "write" /\ seen'[r] = k BY <1>1, TurnOf
<1>5. DrawerSound(r)' BY <1>4 DEF DrawerSound
<1>6. GateSound(r)'
  <2>1. blocked(row.party)' <=> blocked(row.party) BY DEF Compare, blocked, CurrentWaivers
  <2>2. row' = row /\ raced' = raced /\ GateSound(r) /\ stage[r] = "compare" BY DEF Compare, VisitInv, RequestSound
  <2>3. ASSUME r \notin raced PROVE DOMAIN want = {"status"} /\ want["status"] = "arrived"
    <3>1. seen[r].row = row /\ row.status # "arrived" BY <2>2, <2>3 DEF GateSound
    <3>2. differ = {"status"} BY <1>c, <3>1 DEF Fields
    <3> QED BY <1>c, <1>d, <3>2
  <2> QED BY <1>3, <1>4, <2>1, <2>2, <2>3 DEF GateSound
<1> QED BY <1>1, <1>3, <1>4, <1>5, <1>6, LooksKept DEF Compare, VisitStages

LEMMA saveDrawerKept ==
  ASSUME VisitInv, NEW r \in Requests, saveDrawer(r)
  PROVE  VisitInv'
<1>1. stage[r] = "drawer" /\ ~ Signs(r) /\ InProgress(r) /\ UNCHANGED <<waiver, today, torn, overlap>>
  BY DEF saveDrawer, Signs, InProgress
<1>2. PICK patch \in Patches, expected \in BOOLEAN, override \in BOOLEAN :
       LET goes == /\ expected => stamp = seen[r].stamp
                   /\ Moves(patch) /\ arrivalRule(patch, override)
           arrives == "status" \in DOMAIN patch /\ patch.status = "arrived" /\ row.status # "arrived"
       IN  \/ /\ goes /\ update(r, patch)
              /\ wrong' = wrong
                   \cup (IF expected /\ row # seen[r].row THEN {"blind"} ELSE {})
                   \cup (IF arrives /\ ~override /\ "party" \notin DOMAIN patch /\ blocked(row.party)
                         THEN {"plain"} ELSE {})
           \/ (goes => NeedsRoom(patch)) /\ NothingMoves(r) /\ UNCHANGED wrong
  BY DEF saveDrawer
<1>3. patch \in Changes BY PatchesAreChanges
<1>4. CASE NothingMoves(r) /\ UNCHANGED wrong BY <1>1, <1>4, NothingKept
<1>5. CASE /\ expected => stamp = seen[r].stamp
           /\ arrivalRule(patch, override) /\ update(r, patch)
           /\ wrong' = wrong
                   \cup (IF expected /\ row # seen[r].row THEN {"blind"} ELSE {})
                   \cup (IF /\ "status" \in DOMAIN patch /\ patch.status = "arrived" /\ row.status # "arrived"
                            /\ ~override /\ "party" \notin DOMAIN patch /\ blocked(row.party)
                         THEN {"plain"} ELSE {})
  <2>1. ~ (expected /\ row # seen[r].row) BY <1>1, <1>5 DEF VisitInv, RequestSound, DrawerSound
  <2>2. ~ (/\ "status" \in DOMAIN patch /\ patch.status = "arrived" /\ row.status # "arrived"
           /\ ~override /\ "party" \notin DOMAIN patch /\ blocked(row.party))
    BY <1>5 DEF arrivalRule, required
  <2>3. wrong' = wrong BY <1>5, <2>1, <2>2
  <2> QED BY <1>1, <1>3, <1>5, <2>3, CommitKept DEF update
<1> QED BY <1>2, <1>4, <1>5

LEMMA postponeKept ==
  ASSUME VisitInv, NEW r \in Requests, postpone(r)
  PROVE  VisitInv'
<1>1. [status |-> "postponed"] \in Changes BY PatchesAreChanges DEF Patches
<1> QED BY <1>1, CommitKept DEF postpone, update, Signs

LEMMA guestChangeKept ==
  ASSUME VisitInv, NEW r \in Requests, guestChange(r)
  PROVE  VisitInv'
<1>1. seen[r].want \in Changes BY SeenOf DEF Seen
<1>2. stage[r] = "guest" /\ ~ Signs(r) /\ InProgress(r) /\ UNCHANGED <<waiver, today, torn, overlap, wrong>>
  BY DEF guestChange, Signs, InProgress
<1>3. update(r, seen[r].want) \/ NothingMoves(r) BY DEF guestChange
<1> QED BY <1>1, <1>2, <1>3, CommitKept, NothingKept DEF update

(* Nobody's signatures move but the signer's, who is one of those under    *)
(* way before or after the step.                                           *)
LEMMA OtherSigners ==
  ASSUME VisitInv, NEW r \in Requests, Turn(r), NEW s \in People, overlap \subseteq overlap',
         Signs(r) => seen[r].waiver.who = s, Signs(r)' => seen'[r].waiver.who = s,
         Signed(s)' \ {r} = Signed(s) \ {r},
         \A q \in Requests : waiver'[q] # waiver[q] => waiver'[q].who = s /\ waiver[q].who \in {s, NoPerson}
  PROVE  \A p \in People \ overlap' : p # s => LatestSound(p)'
<1> SUFFICES ASSUME NEW p \in People \ overlap', p # s PROVE LatestSound(p)' OBVIOUS
<1>0. LatestSound(p) /\ p # NoPerson BY VisitsAssumption DEF VisitInv
<1>1. Busy(p)' = Busy(p) BY DEF Busy, Turn, Signs
<1>2. \A q \in Requests : (waiver[q].who = p \/ waiver'[q].who = p) => waiver'[q] = waiver[q] BY <1>0
<1>3. Signed(p)' = Signed(p) /\ \A q \in Signed(p) : waiver'[q] = waiver[q] BY <1>2 DEF Signed
<1>4. OfPerson(p)' = OfPerson(p) BY <1>2 DEF OfPerson, CurrentWaivers
<1>5. \A q \in Busy(p) : q # r BY DEF Busy
<1>6. \A q \in Busy(p) : q \in Requests /\ stage'[q] = stage[q] /\ seen'[q] = seen[q] BY <1>5 DEF Turn, Busy
<1> QED BY <1>0, <1>1, <1>3, <1>4, <1>6 DEF LatestSound

LEMMA signKept ==
  ASSUME VisitInv, NEW r \in Requests, sign(r)
  PROVE  VisitInv'
<1>1. PICK p \in People, stop \in BOOLEAN :
       \E old \in (IF OfPerson(p) = {} THEN {NoRequest} ELSE OfPerson(p)) :
         /\ old = NoRequest => Cardinality(CurrentWaivers) < required
         /\ seen' = [seen EXCEPT ![r] = [Blank EXCEPT !.old = old, !.waiver =
              [who |-> p, stop |-> stop, state |-> "current",
               version |-> IF old = NoRequest THEN 1 ELSE waiver[old].version + 1]]]
         /\ Go(r, IF old = NoRequest THEN "insert" ELSE "supersede")
         /\ overlap' = IF \E q \in Requests : stage[q] \in {"supersede", "insert"} /\ seen[q].waiver.who = p
                       THEN overlap \cup {p} ELSE overlap
  BY DEF sign
<1>2. PICK old \in (IF OfPerson(p) = {} THEN {NoRequest} ELSE OfPerson(p)) :
         /\ old = NoRequest => Cardinality(CurrentWaivers) < required
         /\ seen' = [seen EXCEPT ![r] = [Blank EXCEPT !.old = old, !.waiver =
              [who |-> p, stop |-> stop, state |-> "current",
               version |-> IF old = NoRequest THEN 1 ELSE waiver[old].version + 1]]]
         /\ Go(r, IF old = NoRequest THEN "insert" ELSE "supersede")
         /\ overlap' = IF \E q \in Requests : stage[q] \in {"supersede", "insert"} /\ seen[q].waiver.who = p
                       THEN overlap \cup {p} ELSE overlap
  BY <1>1
<1> DEFINE n == IF old = NoRequest THEN 1 ELSE waiver[old].version + 1
           w == [who |-> p, stop |-> stop, state |-> "current", version |-> n]
           k == [Blank EXCEPT !.old = old, !.waiver = w]
           s == IF old = NoRequest THEN "insert" ELSE "supersede"
<1>3. OfPerson(p) \subseteq Requests /\ \A q \in OfPerson(p) : waiver[q].who = p BY DEF OfPerson, CurrentWaivers
<1>4. /\ old # NoRequest => old \in OfPerson(p) /\ old \in Requests
      /\ old = NoRequest => OfPerson(p) = {}
      /\ old \in Requests \cup {NoRequest}
  BY <1>2, <1>3, VisitsAssumption
<1>5. n \in Nat
  <2>1. ASSUME old \in Requests PROVE waiver[old].version \in Nat BY <2>1 DEF VisitInv, VisitTyped, WaiverRow
  <2> QED BY <1>4, <2>1
<1>6. w \in WaiverRow /\ w.who = p /\ w.state = "current" /\ w.version = n
  <2> HIDE DEF n
  <2> QED BY <1>5 DEF WaiverRow
<1>7. k \in Seen /\ k.old = old /\ k.waiver = w
  <2> HIDE DEF w
  <2> QED BY <1>4, <1>6, Blanks DEF Seen
<1>8. stage' = [stage EXCEPT ![r] = s] /\ seen' = [seen EXCEPT ![r] = k] /\ s \in {"insert", "supersede"}
  BY <1>2 DEF Go
<1> HIDE DEF k, w, s
<1>9. stage'[r] = s /\ seen'[r] = k /\ Turn(r) BY <1>8, TurnOf
<1>10. stage[r] = "new" /\ ~ Signs(r) /\ UNCHANGED <<row, stamp, waiver, told, chain, today, raced, torn, wrong>>
  BY DEF sign, Signs
<1>11. overlap \subseteq overlap' /\ overlap' \subseteq People BY <1>2 DEF VisitInv, VisitTyped
<1>12. VisitTyped' BY <1>7, <1>8, <1>10, <1>11 DEF VisitInv, VisitTyped, VisitStages
<1>13. StampBounded'
  <2>1. stage'[r] \notin {"audit", "done"} /\ stamp' = stamp /\ stage[r] \notin {"audit", "done"}
    BY <1>8, <1>9, <1>10
  <2> QED BY <1>9, <2>1, StampKept
<1>14. VersionsBounded'
  <2>1. Signatures' = Signatures BY <1>10 DEF Signatures
  <2>2. Cardinality(Signatures) \in Nat BY RequestsFinite DEF Signatures
  <2>3. n <= Cardinality(Signatures) + 1
    <3>1. ASSUME old \in Requests
          PROVE  waiver[old].version <= Cardinality(Signatures) /\ waiver[old].version \in Nat
      BY <3>1 DEF VisitInv, VersionsBounded, VisitTyped, WaiverRow
    <3> QED BY <1>4, <2>2, <3>1
  <2> HIDE DEF n
  <2>4. seen'[r].waiver.version <= Cardinality(Signatures) + 1 BY <1>6, <1>7, <1>9, <2>3
  <2>5. \A q \in Requests \ {r} : stage'[q] = stage[q] /\ seen'[q] = seen[q] BY <1>9 DEF Turn
  <2> QED BY <1>8, <1>9, <1>10, <2>1, <2>4, <2>5 DEF VisitInv, VersionsBounded
<1>15. \A q \in Requests \ {r} : RequestSound(q)'
  <2>1. SignersKept(r) /\ StampMoves /\ Calm BY <1>10 DEF SignersKept, StampMoves, Calm, VisitInv, VisitTyped
  <2> QED BY <1>9, <1>10, <2>1, OthersSound
<1>16. RequestSound(r)'
  <2>1. RequestSound(r) BY DEF VisitInv
  <2>2. s = "supersede" => old \in Requests /\ waiver[old].who = p BY <1>3, <1>4 DEF s
  <2>3. SignerSound(r)' BY <1>6, <1>7, <1>9, <1>10, <2>1, <2>2 DEF RequestSound, SignerSound, Signs
  <2> QED BY <1>8, <1>9, <1>10, <2>1, <2>3 DEF RequestSound, DrawerSound, GateSound, InProgress
<1>17. TrailSound' /\ AuditsApart' BY <1>8, <1>9, <1>10, TrailKept
<1>18. \A q \in People \ overlap' : q # p => LatestSound(q)'
  <2>1. seen'[r].waiver.who = p BY <1>6, <1>7, <1>9
  <2>2. Signed(p)' = Signed(p) BY <1>10 DEF Signed
  <2> QED BY <1>9, <1>10, <1>11, <2>1, <2>2, OtherSigners
<1>19. ASSUME p \notin overlap' PROVE LatestSound(p)'
  <2>1. Busy(p) = {} BY <1>2, <1>19 DEF Busy, Signs
  <2>2. Busy(p)' = {r}
    <3>1. Signs(r)' /\ seen'[r].waiver.who = p BY <1>6, <1>7, <1>8, <1>9 DEF Signs
    <3> QED BY <1>9, <2>1, <3>1 DEF Busy, Turn, Signs
  <2>3. Signed(p)' = Signed(p) /\ OfPerson(p)' = OfPerson(p) BY <1>10 DEF Signed, OfPerson, CurrentWaivers
  <2>4. \/ Signed(p) = {}
        \/ \E q \in Signed(p) : OfPerson(p) = {q} /\ waiver[q].version = Cardinality(Signed(p))
    BY <1>11, <1>19, <2>1 DEF VisitInv, LatestSound
  <2>5. OfPerson(p) \subseteq Signed(p) BY DEF OfPerson, Signed, CurrentWaivers
  <2>6. CASE old = NoRequest
    <3>1. Signed(p) = {} /\ OfPerson(p) = {} BY <1>4, <2>4, <2>6
    <3>2. Cardinality(Signed(p)) = 0 BY <3>1, FS_EmptySet
    <3>3. n = Cardinality(Signed(p)) + 1 BY <2>6, <3>2
    <3>4. s = "insert" BY <2>6 DEF s
    <3> HIDE DEF n
    <3> QED BY <1>6, <1>7, <1>9, <2>2, <2>3, <3>1, <3>3, <3>4 DEF LatestSound
  <2>7. CASE old # NoRequest
    <3>1. OfPerson(p) = {old} /\ waiver[old].version = Cardinality(Signed(p)) BY <1>4, <2>4, <2>5, <2>7
    <3>2. n = Cardinality(Signed(p)) + 1 BY <2>7, <3>1
    <3>3. s = "supersede" BY <2>7 DEF s
    <3> HIDE DEF n
    <3> QED BY <1>6, <1>7, <1>9, <2>2, <2>3, <3>1, <3>2, <3>3 DEF LatestSound
  <2> QED BY <2>6, <2>7
<1>20. \A q \in People \ overlap' : LatestSound(q)' BY <1>18, <1>19
<1> QED BY <1>12, <1>13, <1>14, <1>15, <1>16, <1>17, <1>20 DEF VisitInv

(* What a signer is owed before the second write, and before the first.    *)
LEMMA SignerIs ==
  ASSUME VisitInv, NEW r \in Requests, Signs(r)
  PROVE  /\ seen[r].waiver \in WaiverRow /\ seen[r].waiver.who \in People /\ seen[r].waiver.who # NoPerson
         /\ seen[r].waiver.state = "current" /\ seen[r].waiver.version \in Nat
         /\ waiver[r] = NoWaiver /\ r \notin Signed(seen[r].waiver.who)
<1>1. SignerSound(r) /\ seen[r] \in Seen BY DEF VisitInv, RequestSound, VisitTyped
<1>2. seen[r].waiver \in WaiverRow BY <1>1 DEF Seen
<1>3. seen[r].waiver.version \in Nat BY <1>2 DEF WaiverRow
<1>4. seen[r].waiver.who \in People /\ seen[r].waiver.state = "current" /\ waiver[r] = NoWaiver
  BY <1>1 DEF SignerSound, Signs
<1> QED BY <1>2, <1>3, <1>4, Blanks, VisitsAssumption DEF Signed

LEMMA SupersedeKept ==
  ASSUME VisitInv, NEW r \in Requests, Supersede(r)
  PROVE  VisitInv'
<1> DEFINE old == seen[r].old
<1>1. /\ stage[r] = "supersede" /\ Signs(r) /\ stage' = [stage EXCEPT ![r] = "insert"] /\ seen' = seen
      /\ waiver' = [q \in Requests |-> IF q = old THEN [waiver[q] EXCEPT !.state = "superseded"] ELSE waiver[q]]
      /\ raced' = (raced \cup {q \in Requests : stage[q] \notin {"new", "done"}}) \ {r}
      /\ UNCHANGED <<row, stamp, told, chain, today, torn, overlap, wrong>>
  BY DEF Supersede, SupersedeThose, Go, Overtakes, Signs
<1>s. PICK s \in People : s = seen[r].waiver.who BY <1>1, SignerIs
<1>2. s \in People /\ s # NoPerson /\ waiver[r] = NoWaiver /\ r \notin Signed(s) BY <1>1, <1>s, SignerIs
<1>3. old \in Requests /\ waiver[old].who = s BY <1>1, <1>s DEF VisitInv, RequestSound, SignerSound
<1>4. old # r BY <1>2, <1>3, Blanks
<1>5. waiver' \in [Requests -> WaiverRow] /\ waiver \in [Requests -> WaiverRow]
  BY <1>1 DEF VisitInv, VisitTyped, WaiverRow
<1>6. \A q \in Requests : waiver'[q].who = waiver[q].who /\ waiver'[q].version = waiver[q].version
  BY <1>1, <1>5 DEF WaiverRow
<1>7. \A q \in Requests : q # old => waiver'[q] = waiver[q] BY <1>1
<1>8. waiver'[old].state = "superseded" BY <1>1, <1>3, <1>5 DEF WaiverRow
<1>9. Turn(r) /\ stage'[r] = "insert" /\ seen'[r] = seen[r] BY <1>1 DEF Turn, VisitInv, VisitTyped
<1> HIDE DEF old
<1>10. VisitTyped' BY <1>1, <1>5 DEF VisitInv, VisitTyped, VisitStages
<1>11. StampBounded' BY <1>1, <1>9, StampKept
<1>12. VersionsBounded'
  <2>1. Signatures' = Signatures BY <1>6 DEF Signatures
  <2> QED BY <1>1, <1>6, <1>9, <2>1 DEF VisitInv, VersionsBounded, Turn
<1>13. \A q \in Requests \ {r} : RequestSound(q)'
  <2>1. waiver[old] # NoWaiver BY <1>2, <1>3, Blanks
  <2>2. SignersKept(r) BY <1>6, <1>7, <2>1 DEF SignersKept
  <2>3. OthersRaced(r) /\ raced' \subseteq raced \cup {q \in Requests : InProgress(q)}
    BY <1>1 DEF OthersRaced, InProgress
  <2>4. StampMoves BY <1>1 DEF StampMoves, VisitInv, VisitTyped
  <2> QED BY <1>6, <1>9, <2>2, <2>3, <2>4, OthersSound
<1>14. RequestSound(r)'
  <2>1. RequestSound(r) BY DEF VisitInv
  <2>2. SignerSound(r)' BY <1>1, <1>2, <1>4, <1>7, <1>9, <2>1 DEF RequestSound, SignerSound, Signs
  <2> QED BY <1>1, <1>9, <2>2 DEF RequestSound, DrawerSound, GateSound, InProgress
<1>15. TrailSound' /\ AuditsApart' BY <1>1, <1>9, TrailKept
<1>16. \A q \in People \ overlap' : q # s => LatestSound(q)'
  <2>1. Signed(s)' = Signed(s) BY <1>6 DEF Signed
  <2>2. \A q \in Requests : waiver'[q] # waiver[q] => waiver'[q].who = s /\ waiver[q].who = s
    BY <1>3, <1>6, <1>7
  <2> QED BY <1>1, <1>2, <1>9, <2>1, <2>2, <1>s, OtherSigners
<1>17. ASSUME s \notin overlap' PROVE LatestSound(s)'
  <2>1. r \in Busy(s) /\ Busy(s)' = Busy(s) BY <1>1, <1>9, <1>s DEF Busy, Signs, Turn
  <2>2. LatestSound(s) BY <1>1, <1>2, <1>17 DEF VisitInv
  <2>3. Busy(s) = {r} BY <2>1, <2>2 DEF LatestSound
  <2>4. OfPerson(s) = {old} BY <1>1, <2>1, <2>2 DEF LatestSound, old
  <2>5. OfPerson(s)' = {}
    <3>1. \A q \in Requests : waiver'[q].state = "current" => q # old /\ waiver'[q] = waiver[q] BY <1>7, <1>8
    <3> QED BY <2>4, <3>1 DEF OfPerson, CurrentWaivers
  <2>6. Signed(s)' = Signed(s) BY <1>6 DEF Signed
  <2>7. seen'[r].waiver.version = Cardinality(Signed(s)) + 1 BY <1>9, <2>1, <2>2 DEF LatestSound
  <2> QED BY <1>9, <2>1, <2>3, <2>5, <2>6, <2>7 DEF LatestSound
<1>18. \A q \in People \ overlap' : LatestSound(q)' BY <1>16, <1>17
<1> QED BY <1>10, <1>11, <1>12, <1>13, <1>14, <1>15, <1>18 DEF VisitInv

LEMMA InsertWaiverKept ==
  ASSUME VisitInv, NEW r \in Requests, InsertWaiver(r)
  PROVE  VisitInv'
<1> DEFINE w == seen[r].waiver
<1>1. /\ stage[r] = "insert" /\ Signs(r) /\ stage' = [stage EXCEPT ![r] = "done"] /\ seen' = [seen EXCEPT ![r] = Blank]
      /\ waiver' = [waiver EXCEPT ![r] = w]
      /\ raced' = (raced \cup {q \in Requests : stage[q] \notin {"new", "done"}}) \ {r}
      /\ UNCHANGED <<row, stamp, told, chain, today, torn, overlap, wrong>>
  BY DEF InsertWaiver, Finish, Go, Overtakes, Signs
<1>s. PICK s \in People : s = w.who BY <1>1, SignerIs
<1>2. /\ w \in WaiverRow /\ s \in People /\ s # NoPerson /\ w.state = "current" /\ w.version \in Nat
      /\ waiver[r] = NoWaiver /\ r \notin Signed(s)
  BY <1>1, <1>s, SignerIs
<1> HIDE DEF w
<1>3. Turn(r) /\ stage'[r] = "done" /\ seen'[r] = Blank BY <1>1, TurnOf
<1>4. waiver'[r] = w /\ \A q \in Requests \ {r} : waiver'[q] = waiver[q] BY <1>1 DEF VisitInv, VisitTyped
<1>5. VisitTyped' BY <1>1, <1>2, Blanks DEF VisitInv, VisitTyped, VisitStages
<1>6. StampBounded' BY <1>1, <1>3, StampKept
<1>7. VersionsBounded'
  <2>1. Signatures' = Signatures \cup {r} /\ r \notin Signatures BY <1>2, <1>4, <1>s, Blanks DEF Signatures
  <2>2. Signatures \in SUBSET Requests BY DEF Signatures
  <2>3. Cardinality(Signatures') = Cardinality(Signatures) + 1 /\ Cardinality(Signatures) \in Nat
    BY <2>1, <2>2, OneMoreRequest, RequestsFinite
  <2>4. w.version <= Cardinality(Signatures) + 1 BY DEF VisitInv, VersionsBounded, w
  <2>5. NoWaiver.version = 0 /\ Blank.waiver = NoWaiver BY Blanks
  <2>6. \A q \in Requests : waiver'[q].version <= Cardinality(Signatures')
    <3> SUFFICES ASSUME NEW q \in Requests PROVE waiver'[q].version <= Cardinality(Signatures') OBVIOUS
    <3>1. CASE q = r BY <1>4, <2>3, <2>4, <3>1
    <3>2. CASE q # r
      <4>1. waiver[q].version <= Cardinality(Signatures) /\ waiver[q].version \in Nat
        BY DEF VisitInv, VersionsBounded, VisitTyped, WaiverRow
      <4> QED BY <1>4, <2>3, <3>2, <4>1
    <3> QED BY <3>1, <3>2
  <2>7. \A q \in Requests : seen'[q].waiver.version <= Cardinality(Signatures') + 1
    <3> SUFFICES ASSUME NEW q \in Requests PROVE seen'[q].waiver.version <= Cardinality(Signatures') + 1 OBVIOUS
    <3>1. CASE q = r BY <1>3, <2>3, <2>5, <3>1
    <3>2. CASE q # r
      <4>1. seen[q].waiver.version <= Cardinality(Signatures) + 1 /\ seen[q].waiver.version \in Nat
        BY DEF VisitInv, VersionsBounded, VisitTyped, Seen, WaiverRow
      <4>2. seen'[q] = seen[q] BY <1>3, <3>2 DEF Turn
      <4> QED BY <2>3, <4>1, <4>2
    <3> QED BY <3>1, <3>2
  <2>8. \A q \in Requests : stage'[q] \notin {"supersede", "insert"} => seen'[q].waiver = NoWaiver
    BY <1>3, <2>5 DEF VisitInv, VersionsBounded, Turn
  <2> QED BY <2>6, <2>7, <2>8 DEF VersionsBounded
<1>8. \A q \in Requests \ {r} : RequestSound(q)'
  <2>1. SignersKept(r) BY <1>4 DEF SignersKept
  <2>2. OthersRaced(r) /\ raced' \subseteq raced \cup {q \in Requests : InProgress(q)}
    BY <1>1 DEF OthersRaced, InProgress
  <2>3. StampMoves BY <1>1 DEF StampMoves, VisitInv, VisitTyped
  <2> QED BY <1>2, <1>3, <2>1, <2>2, <2>3, OthersSound
<1>9. RequestSound(r)' BY <1>1, <1>3 DEF RequestSound, DrawerSound, GateSound, SignerSound, Signs
<1>10. TrailSound' /\ AuditsApart' BY <1>1, <1>3, TrailKept
<1>11. \A q \in People \ overlap' : q # s => LatestSound(q)'
  <2>1. Signed(s)' \ {r} = Signed(s) \ {r} BY <1>4 DEF Signed
  <2>2. \A q \in Requests : waiver'[q] # waiver[q] => waiver'[q].who = s /\ waiver[q].who = NoPerson
    BY <1>2, <1>4, <1>s, Blanks
  <2>3. Signs(r) => seen[r].waiver.who = s BY <1>s DEF w
  <2>4. ~ Signs(r)' BY <1>3 DEF Signs
  <2> QED BY <1>1, <1>2, <1>3, <2>1, <2>2, <2>3, <2>4, OtherSigners
<1>12. ASSUME s \notin overlap' PROVE LatestSound(s)'
  <2>1. r \in Busy(s) BY <1>1, <1>s DEF Busy, w
  <2>2. LatestSound(s) BY <1>1, <1>2, <1>12 DEF VisitInv
  <2>3. Busy(s) = {r} BY <2>1, <2>2 DEF LatestSound
  <2>4. Busy(s)' = {}
    <3>1. ~ Signs(r)' BY <1>3 DEF Signs
    <3> QED BY <1>3, <2>3, <3>1 DEF Busy, Turn, Signs
  <2>5. OfPerson(s) = {} /\ w.version = Cardinality(Signed(s)) + 1 BY <1>1, <2>1, <2>2 DEF LatestSound, w
  <2>6. Signed(s)' = Signed(s) \cup {r} BY <1>4, <1>s DEF Signed
  <2>7. Signed(s) \in SUBSET Requests BY DEF Signed
  <2>8. Cardinality(Signed(s)') = Cardinality(Signed(s)) + 1 BY <1>2, <2>6, <2>7, OneMoreRequest
  <2>9. OfPerson(s)' = {r} BY <1>2, <1>4, <1>s, <2>5 DEF OfPerson, CurrentWaivers
  <2>10. r \in Signed(s)' /\ waiver'[r].version = Cardinality(Signed(s)') BY <1>4, <2>5, <2>6, <2>8
  <2> QED BY <2>4, <2>9, <2>10 DEF LatestSound
<1>13. \A q \in People \ overlap' : LatestSound(q)' BY <1>11, <1>12
<1> QED BY <1>5, <1>6, <1>7, <1>8, <1>9, <1>10, <1>13 DEF VisitInv

LEMMA InsertFailsKept ==
  ASSUME VisitInv, NEW r \in Requests, InsertFails(r)
  PROVE  VisitInv'
<1>s. PICK s \in People : s = seen[r].waiver.who BY SignerIs DEF InsertFails, Signs
<1>1. /\ stage[r] = "insert" /\ Signs(r) /\ stage' = [stage EXCEPT ![r] = "done"] /\ seen' = [seen EXCEPT ![r] = Blank]
      /\ raced' = raced \ {r} /\ overlap' = overlap \cup {s}
      /\ UNCHANGED <<row, stamp, waiver, told, chain, today, torn, wrong>>
  BY <1>s DEF InsertFails, Finish, Go, Signs
<1>2. s \in People OBVIOUS
<1>3. Turn(r) /\ stage'[r] = "done" /\ seen'[r] = Blank BY <1>1, TurnOf
<1>4. VisitTyped' BY <1>1, <1>2, Blanks DEF VisitInv, VisitTyped, VisitStages
<1>5. StampBounded' BY <1>1, <1>3, StampKept
<1>6. VersionsBounded' BY <1>1, <1>3, Blanks, VersionsKept DEF Signs
<1>7. \A q \in Requests \ {r} : RequestSound(q)'
  <2>1. SignersKept(r) /\ StampMoves /\ Calm BY <1>1 DEF SignersKept, StampMoves, Calm, VisitInv, VisitTyped
  <2> QED BY <1>1, <1>3, <2>1, OthersSound
<1>8. RequestSound(r)' BY <1>1, <1>3 DEF RequestSound, DrawerSound, GateSound, SignerSound, Signs
<1>9. TrailSound' /\ AuditsApart' BY <1>1, <1>3, TrailKept
<1>10. \A q \in People \ overlap' : LatestSound(q)'
  <2>1. Signed(s)' = Signed(s) /\ \A q \in Requests : waiver'[q] = waiver[q] BY <1>1 DEF Signed
  <2>2. ~ Signs(r)' BY <1>3 DEF Signs
  <2> QED BY <1>1, <1>2, <1>3, <1>s, <2>1, <2>2, OtherSigners
<1> QED BY <1>4, <1>5, <1>6, <1>7, <1>8, <1>9, <1>10 DEF VisitInv

LEMMA WriteArrivedKept ==
  ASSUME VisitInv, NEW r \in Requests, WriteArrived(r)
  PROVE  VisitInv'
<1> DEFINE p == seen[r].want
<1>1. /\ stage[r] = "write" /\ stage' = [stage EXCEPT ![r] = "audit"] /\ seen' = seen
      /\ row' = Patched(p, row) /\ stamp' = stamp + 1
      /\ raced' = raced \cup {q \in Requests \ {r} : stage[q] \notin {"new", "done"}}
      /\ torn' = (torn \/ r \in raced)
      /\ wrong' = IF row'.status # row.status /\ ~seen[r].override /\ blocked(row'.party)
                  THEN wrong \cup {IF r \in raced THEN "raced" ELSE "plain"} ELSE wrong
      /\ UNCHANGED <<waiver, told, chain, today, overlap>>
  BY DEF WriteArrived, WriteStamp, Go
<1>2. p \in Changes /\ row \in BookingRow /\ seen[r].waiver = NoWaiver BY <1>1, SeenOf DEF Seen, Signs
<1>3. row' \in BookingRow /\ \A f \in Fields : row'[f] = IF f \in DOMAIN p THEN p[f] ELSE row[f]
  BY <1>1, <1>2, Applied
<1>4. Turn(r) /\ stage'[r] = "audit" /\ seen'[r] = seen[r] BY <1>1 DEF Turn, VisitInv, VisitTyped
<1>5. r \in raced' <=> r \in raced BY <1>1
<1>6. ASSUME r \notin raced
      PROVE  /\ DOMAIN p = {"status"} /\ p["status"] = "arrived" /\ seen[r].from = row.status
             /\ seen[r].override \/ ~blocked(row.party)
  BY <1>1, <1>6 DEF VisitInv, RequestSound, GateSound
<1> HIDE DEF p
<1>7. ASSUME r \notin raced PROVE row' = [row EXCEPT !.status = "arrived"]
  <2>1. row' = [f \in Fields |-> row'[f]] /\ row = [f \in Fields |-> row[f]] BY <1>2, <1>3, RowIs
  <2>2. row'["status"] = "arrived" /\ row'["day"] = row["day"] /\ row'["party"] = row["party"]
    BY <1>3, <1>6, <1>7 DEF Fields
  <2> QED BY <2>1, <2>2 DEF Fields
<1>8. wrong' \subseteq {"raced"}
  <2>1. CASE r \in raced BY <1>1, <2>1 DEF VisitInv, VisitTyped
  <2>2. CASE r \notin raced
    <3>1. row'.party = row.party BY <1>2, <1>7, <2>2 DEF BookingRow
    <3>2. wrong' = wrong BY <1>1, <1>6, <2>2, <3>1
    <3> QED BY <3>2 DEF VisitInv, VisitTyped
  <2> QED BY <2>1, <2>2
<1>9. VisitTyped'
  <2>1. torn' \in BOOLEAN BY <1>1
  <2>2. stamp' \in Nat BY <1>1 DEF VisitInv, VisitTyped
  <2>3. stage' \in [Requests -> VisitStages] /\ raced' \subseteq Requests BY <1>1 DEF VisitInv, VisitTyped, VisitStages
  <2> QED BY <1>1, <1>3, <1>8, <2>1, <2>2, <2>3 DEF VisitInv, VisitTyped
<1>10. StampBounded' BY <1>1, <1>4, StampKept
<1>11. VersionsBounded' BY <1>1, <1>2, <1>4, VersionsKept DEF Signs
<1>12. \A q \in Requests \ {r} : RequestSound(q)'
  <2>1. SignersKept(r) BY <1>1 DEF SignersKept
  <2>2. StampMoves BY <1>1 DEF StampMoves, VisitInv, VisitTyped
  <2>3. OthersRaced(r) /\ raced' \subseteq raced \cup {q \in Requests : InProgress(q)}
    BY <1>1 DEF OthersRaced, InProgress
  <2> QED BY <1>1, <1>4, <2>1, <2>2, <2>3, OthersSound
<1>13. RequestSound(r)'
  <2>1. RequestSound(r) BY DEF VisitInv
  <2>2. SignerSound(r)' BY <1>1, <1>4, <2>1 DEF RequestSound, SignerSound, Signs
  <2> QED BY <1>4, <2>2 DEF RequestSound, DrawerSound, GateSound, InProgress
<1>14. \A q \in Requests \ {r} : (stage'[q] = "audit" <=> stage[q] = "audit") /\ (stage[q] = "audit" => q \in raced')
  BY <1>1, <1>4 DEF Turn
<1>15. AuditsApart' BY <1>14 DEF AuditsApart
<1>16. TrailSound'
  <2>1. CASE torn \/ RacedAudit
    <3>1. CASE torn BY <1>1, <3>1 DEF TrailSound
    <3>2. CASE RacedAudit
      <4>1. PICK q \in raced : stage[q] = "audit" BY <3>2 DEF RacedAudit
      <4>2. q \in Requests \ {r} BY <1>1, <4>1 DEF VisitInv, VisitTyped
      <4> QED BY <1>14, <4>1, <4>2 DEF TrailSound, RacedAudit
    <3> QED BY <2>1, <3>1, <3>2
  <2>2. CASE r \in raced BY <1>1, <2>2 DEF TrailSound
  <2>3. CASE \E q \in Requests \ {r} : stage[q] = "audit" BY <1>14, <2>3 DEF TrailSound, RacedAudit
  <2>4. CASE (\A q \in Requests \ {r} : stage[q] # "audit") /\ r \notin raced /\ ~ torn /\ ~ RacedAudit
    <3>1. chain /\ told = row BY <1>1, <2>4 DEF VisitInv, TrailSound
    <3>2. row' = [row EXCEPT !.status = "arrived"] /\ seen[r].from = row.status BY <1>6, <1>7, <2>4
    <3>3. row'.status = "arrived" /\ [row' EXCEPT !.status = seen[r].from] = row
      BY <1>2, <3>2 DEF BookingRow
    <3>4. \A q \in Requests : stage'[q] = "audit" <=> q = r BY <1>4, <1>14, <2>4
    <3>5. chain' /\ told' = row BY <1>1, <3>1
    <3> QED BY <1>4, <3>3, <3>4, <3>5 DEF TrailSound
  <2> QED BY <2>1, <2>2, <2>3, <2>4
<1>17. \A q \in People \ overlap' : LatestSound(q)' BY <1>1, <1>4, LatestKept DEF Signs
<1> QED BY <1>9, <1>10, <1>11, <1>12, <1>13, <1>15, <1>16, <1>17 DEF VisitInv

LEMMA AuditArrivedKept ==
  ASSUME VisitInv, NEW r \in Requests, AuditArrived(r)
  PROVE  VisitInv'
<1>1. /\ stage[r] = "audit" /\ stage' = [stage EXCEPT ![r] = "done"] /\ seen' = [seen EXCEPT ![r] = Blank]
      /\ raced' = raced \ {r} /\ chain' = (chain /\ told.status = seen[r].from)
      /\ told' = [told EXCEPT !.status = "arrived"] /\ torn' = (torn \/ r \in raced)
      /\ UNCHANGED <<row, stamp, waiver, today, overlap, wrong>>
  BY DEF AuditArrived, Finish, Go
<1>2. Turn(r) /\ stage'[r] = "done" /\ seen'[r] = Blank BY <1>1, TurnOf
<1>3. told' \in BookingRow BY <1>1 DEF VisitInv, VisitTyped, BookingRow
<1>4. VisitTyped'
  <2>1. chain' \in BOOLEAN /\ torn' \in BOOLEAN BY <1>1
  <2> QED BY <1>1, <1>3, <2>1, Blanks DEF VisitInv, VisitTyped, VisitStages
<1>5. StampBounded'
  <2>1. Stamped' = Stamped BY <1>1, <1>2 DEF Stamped, Turn
  <2> QED BY <1>1, <2>1 DEF VisitInv, StampBounded
<1>6. VersionsBounded' BY <1>1, <1>2, Blanks, VersionsKept DEF Signs
<1>7. \A q \in Requests \ {r} : RequestSound(q)'
  <2>1. SignersKept(r) /\ StampMoves /\ Calm BY <1>1 DEF SignersKept, StampMoves, Calm, VisitInv, VisitTyped
  <2> QED BY <1>1, <1>2, <2>1, OthersSound
<1>8. RequestSound(r)' BY <1>1, <1>2 DEF RequestSound, DrawerSound, GateSound, SignerSound, Signs
<1>9. \A q \in Requests \ {r} : stage'[q] = stage[q] /\ seen'[q] = seen[q] BY <1>2 DEF Turn
<1>10. TrailSound'
  <2>1. CASE torn \/ r \in raced BY <1>1, <2>1 DEF TrailSound
  <2>2. CASE \E q \in raced \ {r} : stage[q] = "audit"
    BY <1>1, <1>9, <2>2 DEF TrailSound, RacedAudit, VisitInv, VisitTyped
  <2>3. CASE ~ torn /\ r \notin raced /\ ~ \E q \in raced \ {r} : stage[q] = "audit"
    <3>1. chain /\ row.status = "arrived" /\ told = [row EXCEPT !.status = seen[r].from]
      BY <1>1, <2>3 DEF VisitInv, TrailSound, RacedAudit
    <3>2. \A q \in Requests \ {r} : stage[q] # "audit" BY <1>1, <2>3 DEF VisitInv, AuditsApart
    <3>3. \A q \in Requests : stage'[q] # "audit" BY <1>2, <1>9, <3>2
    <3>4. row \in BookingRow BY DEF VisitInv, VisitTyped
    <3>5. told.status = seen[r].from /\ told' = row BY <1>1, <3>1, <3>4 DEF BookingRow
    <3>6. chain' BY <1>1, <3>1, <3>5
    <3> QED BY <1>1, <3>3, <3>5, <3>6 DEF TrailSound
  <2> QED BY <2>1, <2>2, <2>3
<1>11. AuditsApart' BY <1>1, <1>2, <1>9 DEF AuditsApart, VisitInv
<1>12. \A q \in People \ overlap' : LatestSound(q)' BY <1>1, <1>2, LatestKept DEF Signs
<1> QED BY <1>4, <1>5, <1>6, <1>7, <1>8, <1>10, <1>11, <1>12 DEF VisitInv

(* Nothing but the day, or nothing at all.                                 *)
LEMMA VisitStutter ==
  ASSUME VisitInv, today' \in 0..MaxDay, UNCHANGED <<row, stamp, waiver, told, chain, stage, seen, raced, torn, overlap, wrong>>
  PROVE  VisitInv'
<1>1. VisitTyped' BY DEF VisitInv, VisitTyped
<1>2. StampBounded' /\ VersionsBounded' BY DEF VisitInv, StampBounded, Stamped, VersionsBounded, Signatures
<1>3. \A r \in Requests : RequestSound(r)'
  BY DEF VisitInv, RequestSound, DrawerSound, GateSound, SignerSound, Signs, InProgress, blocked, CurrentWaivers
<1>4. TrailSound' /\ AuditsApart' BY DEF VisitInv, TrailSound, RacedAudit, AuditsApart
<1>5. \A p \in People \ overlap' : LatestSound(p)'
  <2> SUFFICES ASSUME NEW p \in People \ overlap PROVE LatestSound(p)' OBVIOUS
  <2>1. Busy(p)' = Busy(p) /\ Signed(p)' = Signed(p) /\ OfPerson(p)' = OfPerson(p)
    BY DEF Busy, Signed, Signs, OfPerson, CurrentWaivers
  <2> QED BY <2>1 DEF VisitInv, LatestSound
<1> QED BY <1>1, <1>2, <1>3, <1>4, <1>5 DEF VisitInv

LEMMA VisitStep == VisitInv /\ [VisitNext]_visitVars => VisitInv'
<1> SUFFICES ASSUME VisitInv, [VisitNext]_visitVars PROVE VisitInv' OBVIOUS
<1>1. ASSUME NEW r \in Requests,
             \/ openDrawer(r) \/ saveDrawer(r) \/ postpone(r) \/ guestAsks(r) \/ guestChange(r)
             \/ sign(r) \/ Supersede(r) \/ InsertWaiver(r) \/ InsertFails(r)
             \/ gateView(r) \/ checkIn(r) \/ Compare(r) \/ WriteArrived(r) \/ AuditArrived(r)
      PROVE  VisitInv'
  BY <1>1, openDrawerKept, saveDrawerKept, postponeKept, guestAsksKept, guestChangeKept, signKept, SupersedeKept,
     InsertWaiverKept, InsertFailsKept, gateViewKept, checkInKept, CompareKept, WriteArrivedKept, AuditArrivedKept
<1>2. CASE NextDay
  <2>1. today \in 0..MaxDay BY DEF VisitInv, VisitTyped
  <2>2. today' \in 0..MaxDay BY <1>2, <2>1, VisitsAssumption DEF NextDay
  <2> QED BY <1>2, <2>2, VisitStutter DEF NextDay
<1>3. CASE UNCHANGED visitVars BY <1>3, VisitStutter DEF visitVars, VisitInv, VisitTyped
<1> QED BY <1>1, <1>2, <1>3 DEF VisitNext

LEMMA VisitInvImplies == VisitInv => VisitTypeOK /\ WritesAccounted /\ WaiversCount
<1> SUFFICES ASSUME VisitInv PROVE VisitTypeOK /\ WritesAccounted /\ WaiversCount OBVIOUS
<1>1. stamp \in 0..Cardinality(Requests)
  <2>1. Stamped \in SUBSET Requests BY DEF Stamped
  <2> QED BY <2>1, RequestsFinite DEF VisitInv, VisitTyped, StampBounded
<1>2. ASSUME NEW r \in Requests PROVE seen[r].row \in BookingRow /\ seen[r].waiver.version <= Cardinality(Requests)
  <2>1. seen[r].row \in BookingRow /\ seen[r].waiver.version \in Nat BY SeenOf DEF Seen, WaiverRow
  <2>2. Signatures \in SUBSET Requests BY DEF Signatures
  <2>3. CASE Signs(r)
    <3>1. r \notin Signatures BY <2>3, SignerIs, Blanks DEF Signatures
    <3>2. Signatures \cup {r} \in SUBSET Requests BY <2>2
    <3>3. Cardinality(Signatures) + 1 <= Cardinality(Requests) /\ Cardinality(Signatures) \in Nat
      BY <2>2, <3>1, <3>2, OneMoreRequest, RequestsFinite
    <3>4. seen[r].waiver.version <= Cardinality(Signatures) + 1 BY DEF VisitInv, VersionsBounded
    <3>5. Cardinality(Requests) \in Nat BY <2>2, RequestsFinite
    <3> QED BY <2>1, <3>3, <3>4, <3>5
  <2>4. CASE ~ Signs(r)
    <3>1. seen[r].waiver.version = 0 BY <2>4, SeenOf, Blanks
    <3> QED BY <2>1, <2>2, <3>1, RequestsFinite
  <2> QED BY <2>3, <2>4
<1>3. VisitTypeOK BY <1>1, <1>2 DEF VisitInv, VisitTyped, VisitTypeOK, VisitStages
<1>4. StampHonoured /\ ArrivalChecked BY DEF VisitInv, VisitTyped, StampHonoured, ArrivalChecked
<1>5. TrailTellsRow BY DEF VisitInv, TrailSound, RacedAudit, TrailTellsRow
<1>6. LatestCounts
  <2> SUFFICES ASSUME NEW p \in People \ overlap, Signed(p) # {},
                      ~ \E r \in Requests : stage[r] \in {"supersede", "insert"} /\ seen[r].waiver.who = p
               PROVE  \E r \in Signed(p) : OfPerson(p) = {r} /\ waiver[r].version = Cardinality(Signed(p))
    BY DEF LatestCounts, Signed
  <2>1. Busy(p) = {} BY DEF Busy, Signs
  <2> QED BY <2>1 DEF VisitInv, LatestSound
<1> QED BY <1>3, <1>4, <1>5, <1>6 DEF WritesAccounted, WaiversCount

(* An edit of the desk that carries the stamp of the row its screen showed *)
(* lands on that row only (unstamped edits and the guest's own check       *)
(* nothing), and the trail tells what each write changed of the row it met,*)
(* but for a check-in, which takes no lock, that was overtaken (staff-     *)
(* bookings.service update, waivers.service checkIn).                      *)
THEOREM WritesFollowed == VisitSpec => []WritesAccounted
<1>1. VisitInv => WritesAccounted BY VisitInvImplies
<1> QED BY <1>1, VisitInitially, VisitStep, PTL DEF VisitSpec

(* Nobody arrives with waivers missing unless a write came between scan and*)
(* save; and whoever signed, but for people two of whose signatures        *)
(* overlapped or one of whose failed half-way, has one current waiver, the *)
(* latest (booking-patch arrivalRule, waivers.service checkIn and sign).   *)
THEOREM WaiversHold == VisitSpec => []WaiversCount
<1>1. VisitInv => WaiversCount BY VisitInvImplies
<1> QED BY <1>1, VisitInitially, VisitStep, PTL DEF VisitSpec

-----------------------------------------------------------------------------
(* The price: the invariant. Between price lists, the booking costs what a *)
(* new order costs, line by line; no line is for more than come.           *)

PartyRow == [adults : Nat \ {0}, kids : Nat, infants : Nat]
OneLine == [a : Nat, k : Nat, u : Nat]
BookingLines == [Options -> OneLine]
MoneyRow == [entry : Nat, subtotal : Nat, discount : Nat, adjustment : Nat, total : Nat]
AdjKinds == {"none", "percent", "amount", "foc", "entry_free"}
AdjRow == [kind : AdjKinds, value : Nat, code : BOOLEAN]
MostInfants == Max({p.infants : p \in Parties})

Within(ls, p) == \A o \in Options : ls[o].a <= p.adults /\ ls[o].k <= p.kids + MostInfants

PriceTyped ==
  /\ party \in Parties \cup {NotBooked} /\ rate \in Rates /\ lines \in BookingLines
  /\ amount \in [Options -> Nat] /\ money \in MoneyRow /\ adj \in AdjRow
  /\ season \in 1..Seasons /\ edits \in 0..MaxEdits /\ priced \in 1..Seasons /\ overruled \in BOOLEAN

PriceInv ==
  /\ PriceTyped /\ priced <= season
  /\ party # NotBooked =>
       /\ \A p, r, ls, a : priced = season /\ <<p, r, ls, a>> = <<party, rate, lines, adj>> =>
            money = computeBooking(p, r, ls, a) /\ amount = amountsOf(r, ls)
       /\ Within(lines, party)

-----------------------------------------------------------------------------
(* The price: amounts are amounts.                                         *)

LEMMA Times ==
  ASSUME NEW m \in Nat, NEW n \in Nat
  PROVE  m * n \in Nat
OBVIOUS

LEMMA Percents ==
  ASSUME NEW n \in Nat, NEW share \in Nat
  PROVE  /\ Percent(n, share) \in Nat
         /\ Percent(n, 15) <= n
<1>1. n * share \in Nat BY Times
<1>2. (n * share + 50) \div 100 \in Nat
  <2> DEFINE m == n * share
  <2> HIDE DEF m
  <2>1. (m + 50) \div 100 \in Nat BY <1>1 DEF m
  <2> QED BY <2>1 DEF m
<1>3. (n * 15 + 50) \div 100 <= n OBVIOUS
<1> QED BY <1>2, <1>3 DEF Percent

LEMMA Least ==
  ASSUME NEW m \in Nat, NEW n \in Nat
  PROVE  LeastOf(m, n) \in Nat /\ LeastOf(m, n) <= m /\ LeastOf(m, n) <= n
BY DEF LeastOf

LEMMA PriceIs ==
  ASSUME season \in Nat, NEW o \in Options, NEW r
  PROVE  priceFor(o, r) \in Nat
<1> DEFINE p == IF Offer[o].rr = 0 THEN Offer[o].base
                ELSE IF r = "nr" /\ Offer[o].nr # 0 THEN Offer[o].nr ELSE Offer[o].rr
<1>1. p \in Nat BY PricesAssumption
<1>2. priceFor(o, r) = season * p BY DEF priceFor
<1> HIDE DEF p
<1> QED BY <1>1, <1>2, Times

LEMMA AmountIs ==
  ASSUME season \in Nat, NEW o \in Options, NEW r, NEW c \in OneLine
  PROVE  amountOf(o, r, c) \in Nat
<1>1. c.a \in Nat /\ c.k \in Nat /\ c.u \in Nat /\ c.a + c.k \in Nat BY DEF OneLine
<1>2. PICK p \in Nat : p = priceFor(o, r) BY PriceIs
<1>3. ASSUME NEW n \in OneLine PROVE productAmount(o, r, n) \in Nat
  <2>0. n.a \in Nat /\ n.k \in Nat /\ n.u \in Nat /\ n.a + n.k \in Nat BY DEF OneLine
  <2>1. p * n.u \in Nat /\ p * (n.a + n.k) \in Nat BY <2>0, Times
  <2>2. (n.a + n.k) \div 2 \in Nat /\ (n.a + n.k) % 2 \in Nat BY <2>0
  <2>3. Offer[o].pair \in Nat BY PricesAssumption
  <2>4. ((n.a + n.k) \div 2) * season \in Nat BY <2>2, Times
  <2>5. ((n.a + n.k) \div 2) * season * Offer[o].pair \in Nat BY <2>3, <2>4, Times
  <2>6. ((n.a + n.k) % 2) * p \in Nat BY <2>2, Times
  <2>7. ((n.a + n.k) \div 2) * season * Offer[o].pair + ((n.a + n.k) % 2) * p \in Nat BY <2>5, <2>6
  <2> QED BY <1>2, <2>1, <2>7 DEF productAmount
<1>4. experienceAmount(o, r, c) \in Nat
  <2>1. p * c.u \in Nat /\ p * c.a \in Nat BY <1>1, Times
  <2>2. Half(p) \in Nat BY DEF Half
  <2>3. Half(p) * c.k \in Nat BY <1>1, <2>2, Times
  <2>4. p * c.a + Half(p) * c.k \in Nat BY <2>1, <2>3
  <2> QED BY <1>2, <2>1, <2>4 DEF experienceAmount
<1>5. atLeastOne(c) \in OneLine BY DEF atLeastOne, OneLine
<1> QED BY <1>3, <1>4, <1>5 DEF amountOf

LEMMA AmountsAre ==
  ASSUME season \in Nat, NEW r, NEW ls \in BookingLines
  PROVE  /\ amountsOf(r, ls) \in [Options -> Nat]
         /\ \A S \in SUBSET Options : /\ SumOf(S, amountsOf(r, ls)) \in Nat
                                      /\ SumOf(S, amountsOf(r, ls)) <= SumOf(Options, amountsOf(r, ls))
<1> DEFINE f == amountsOf(r, ls)
<1>1. \A o \in Options : amountOf(o, r, ls[o]) \in Nat BY AmountIs DEF BookingLines
<1>2. f \in [Options -> Nat] BY <1>1 DEF amountsOf
<1> HIDE DEF f
<1>3. IsFiniteSet(Options) BY PricesAssumption
<1>4. ASSUME NEW S \in SUBSET Options PROVE SumOf(S, f) \in Nat /\ SumOf(S, f) <= SumOf(Options, f)
  <2>1. IsFiniteSet(S) /\ (\A x \in S : f[x] \in Nat) /\ \A x \in Options : f[x] \in Nat BY <1>2, <1>3, FS_Subset
  <2> QED BY <1>3, <2>1, SumNat, SumPart
<1> QED BY <1>2, <1>4 DEF f

LEMMA PaidForIs ==
  ASSUME NEW ls \in BookingLines, NEW side \in {"a", "k"}
  PROVE  paidFor(ls, side) \in Nat
<1> DEFINE those(F) == {o \in Options : Offer[o].family \in F /\ ls[o] # None}
           f == [o \in Options |-> ls[o][side]]
           pupils == {ls[o][side] : o \in those({"student"})}
<1>1. \A o \in Options : ls[o][side] \in Nat BY DEF BookingLines, OneLine
<1>2. f \in [Options -> Nat] BY <1>1
<1>3. \A F : those(F) \subseteq Options /\ IsFiniteSet(those(F)) BY PricesAssumption, FS_Subset
<1>4. SumOf(those({"expo", "senior"}), f) \in Nat
  <2>1. those({"expo", "senior"}) \subseteq Options /\ IsFiniteSet(those({"expo", "senior"})) BY <1>3
  <2> HIDE DEF those, f
  <2>2. \A o \in those({"expo", "senior"}) : f[o] \in Nat BY <1>2, <2>1
  <2> QED BY <2>1, <2>2, SumNat
<1>5. pupils # {} => Max(pupils) \in Nat
  <2> SUFFICES ASSUME pupils # {} PROVE Max(pupils) \in Nat OBVIOUS
  <2> DEFINE S == those({"student"})
  <2>1. S \subseteq Options /\ IsFiniteSet(S) BY <1>3
  <2>2. pupils = {f[o] : o \in S} OBVIOUS
  <2> HIDE DEF those, f, S
  <2>3. IsFiniteSet({f[o] : o \in S}) BY <2>1, ImageFinite
  <2>4. \A x \in {f[o] : o \in S} : x \in Nat BY <1>2, <2>1
  <2>5. IsFiniteSet(pupils) /\ \A x \in pupils : x \in Nat BY <2>2, <2>3, <2>4
  <2> HIDE DEF pupils
  <2>6. \A x \in pupils : x \in Int BY <2>5
  <2>7. Max(pupils) \in pupils BY <2>5, <2>6, MaxIs
  <2> QED BY <2>5, <2>7
<1>6. paidFor(ls, side) = SumOf(those({"expo", "senior"}), f) + (IF pupils = {} THEN 0 ELSE Max(pupils))
  BY DEF paidFor
<1> HIDE DEF those, f, pupils
<1> QED BY <1>4, <1>5, <1>6

LEMMA EntryIs ==
  ASSUME season \in Nat, NEW p \in PartyRow, NEW r \in Rates, NEW ls \in BookingLines
  PROVE  entryOf(p, r, ls) \in Nat
<1> DEFINE cover == entryCoverage(ls, p)
<1>1. p.adults \in Nat /\ p.kids \in Nat BY DEF PartyRow
<1>2. paidFor(ls, "a") \in Nat /\ paidFor(ls, "k") \in Nat BY PaidForIs
<1>3. cover.adults = LeastOf(p.adults, paidFor(ls, "a")) /\ cover.kids = LeastOf(p.kids, paidFor(ls, "k"))
  BY DEF entryCoverage
<1>4. /\ cover.adults \in Nat /\ cover.adults <= p.adults
      /\ cover.kids \in Nat /\ cover.kids <= p.kids
  BY <1>1, <1>2, <1>3, Least
<1> HIDE DEF cover
<1>5. p.adults - cover.adults \in Nat /\ p.kids - cover.kids \in Nat BY <1>1, <1>4
<1>6. EntryPrice[r].adult \in Nat /\ EntryPrice[r].child \in Nat BY PricesAssumption DEF Rates
<1>7. EntryPrice[r].adult * (p.adults - cover.adults) \in Nat /\ EntryPrice[r].child * (p.kids - cover.kids) \in Nat
  BY <1>5, <1>6, Times
<1>8. EntryPrice[r].adult * (p.adults - cover.adults) + EntryPrice[r].child * (p.kids - cover.kids) \in Nat BY <1>7
<1> QED BY <1>8, Times DEF entryOf, cover

LEMMA PassIs ==
  ASSUME season \in Nat, NEW r \in Rates, NEW ls \in BookingLines
  PROVE  explorerPass(r, ls) \in Nat /\ explorerPass(r, ls) <= SumOf(Options, amountsOf(r, ls))
<1> DEFINE T == SumOf(Options, amountsOf(r, ls))
<1>1. T \in Nat BY AmountsAre
<1>2. \A S \in SUBSET Options : Percent(SumOf(S, amountsOf(r, ls)), 15) \in Nat
                               /\ Percent(SumOf(S, amountsOf(r, ls)), 15) <= T
  <2> SUFFICES ASSUME NEW S \in SUBSET Options
               PROVE  Percent(SumOf(S, amountsOf(r, ls)), 15) \in Nat /\ Percent(SumOf(S, amountsOf(r, ls)), 15) <= T
    OBVIOUS
  <2>1. PICK n \in Nat : n = SumOf(S, amountsOf(r, ls)) /\ n <= T BY AmountsAre
  <2> HIDE DEF T
  <2>2. Percent(n, 15) \in Nat /\ Percent(n, 15) <= n BY Percents
  <2> QED BY <1>1, <2>1, <2>2
<1>3. 0 <= T BY <1>1
<1> HIDE DEF T
<1> QED BY <1>2, <1>3 DEF explorerPass, T

LEMMA OffIs ==
  ASSUME NEW a \in AdjRow, NEW entry \in Nat, NEW due \in Nat
  PROVE  adjustmentAmount(a, entry, due) \in Nat /\ adjustmentAmount(a, entry, due) <= due
<1>1. a.value \in Nat BY DEF AdjRow
<1>2. LeastOf(100, a.value) \in Nat BY <1>1, Least
<1>3. Percent(due, LeastOf(100, a.value)) \in Nat BY <1>2, Percents
<1>4. /\ LeastOf(due, Percent(due, LeastOf(100, a.value))) \in Nat
      /\ LeastOf(due, Percent(due, LeastOf(100, a.value))) <= due
  BY <1>3, Least
<1>5. LeastOf(due, a.value) \in Nat /\ LeastOf(due, a.value) <= due BY <1>1, Least
<1>6. LeastOf(due, entry) \in Nat /\ LeastOf(due, entry) <= due BY Least
<1> QED BY <1>4, <1>5, <1>6 DEF adjustmentAmount

LEMMA BookingIs ==
  ASSUME season \in Nat, NEW p \in PartyRow, NEW r \in Rates, NEW ls \in BookingLines, NEW a \in AdjRow
  PROVE  /\ computeBooking(p, r, ls, a) \in MoneyRow
         /\ computeBooking(p, r, ls, a).subtotal = computeBooking(p, r, ls, a).entry + SumOf(Options, amountsOf(r, ls))
<1>1. PICK entry \in Nat : entry = entryOf(p, r, ls) BY EntryIs
<1>2. PICK sum \in Nat : sum = SumOf(Options, amountsOf(r, ls)) BY AmountsAre
<1>3. PICK discount \in Nat : discount = explorerPass(r, ls) /\ discount <= sum BY <1>2, PassIs
<1>4. entry + sum \in Nat /\ (entry + sum) - discount \in Nat BY <1>3
<1>5. PICK off \in Nat : off = adjustmentAmount(a, entry, (entry + sum) - discount) /\ off <= (entry + sum) - discount
  BY <1>4, OffIs
<1>6. (entry + sum) - discount - off \in Nat BY <1>4, <1>5
<1>7. computeBooking(p, r, ls, a) = [entry |-> entry, subtotal |-> entry + sum, discount |-> discount,
                                     adjustment |-> off, total |-> (entry + sum) - discount - off]
  BY <1>1, <1>2, <1>3, <1>5 DEF computeBooking
<1> QED BY <1>2, <1>4, <1>6, <1>7 DEF MoneyRow

-----------------------------------------------------------------------------
(* The price: what an edit asks for.                                       *)

LEMMA InfantsWithin ==
  ASSUME NEW p \in Parties
  PROVE  MostInfants \in Nat /\ p.infants <= MostInfants
<1> DEFINE f == [q \in Parties |-> q.infants]
           S == {q.infants : q \in Parties}
<1>1. S = {f[q] : q \in Parties} OBVIOUS
<1>2. S # {} /\ (\A x \in S : x \in Nat) /\ p.infants \in S BY PricesAssumption
<1> HIDE DEF f
<1>3. IsFiniteSet({f[q] : q \in Parties}) BY PricesAssumption, ImageFinite
<1>4. IsFiniteSet(S) BY <1>1, <1>3
<1>5. MostInfants = Max(S) BY DEF MostInfants
<1> HIDE DEF S
<1>6. \A x \in S : x \in Int BY <1>2
<1>7. Max(S) \in S /\ \A y \in S : y <= Max(S) BY <1>2, <1>4, <1>6, MaxIs
<1> QED BY <1>2, <1>5, <1>7

LEMMA PartiesAre ==
  /\ NotBooked \notin Parties /\ Parties \subseteq PartyRow
  /\ \A p \in Parties \cup {NotBooked} : /\ p = [f \in {"adults", "kids", "infants"} |-> p[f]]
                                         /\ p.adults \in Nat /\ p.kids \in Nat /\ p.infants \in Nat
<1>1. Parties \subseteq PartyRow BY PricesAssumption DEF PartyRow
<1>2. NotBooked \notin PartyRow BY DEF NotBooked, PartyRow
<1>3. \A p \in PartyRow : /\ p = [f \in {"adults", "kids", "infants"} |-> p[f]]
                          /\ p.adults \in Nat /\ p.kids \in Nat /\ p.infants \in Nat
  BY DEF PartyRow
<1>4. /\ NotBooked = [f \in {"adults", "kids", "infants"} |-> NotBooked[f]]
      /\ NotBooked.adults \in Nat /\ NotBooked.kids \in Nat /\ NotBooked.infants \in Nat
  BY DEF NotBooked
<1> QED BY <1>1, <1>2, <1>3, <1>4

(* A line follows the party, and never passes it.                          *)
LEMMA FitIs ==
  ASSUME NEW n \in Nat, NEW old \in Nat, NEW next \in Nat
  PROVE  fit(n, old, next) \in Nat /\ fit(n, old, next) <= next
BY Least DEF fit

LEMMA FittedWithin ==
  ASSUME NEW ls \in BookingLines, NEW from \in Parties \cup {NotBooked}, NEW to \in Parties
  PROVE  fitLinesToParty(ls, from, to) \in BookingLines /\ Within(fitLinesToParty(ls, from, to), to)
<1> DEFINE a(o) == fit(ls[o].a, from.adults, to.adults)
           k(o) == fit(ls[o].k, from.kids, to.kids)
           fs == fitLinesToParty(ls, from, to)
<1>1. fs = [o \in Options |-> [a |-> a(o), k |-> k(o), u |-> ls[o].u]] BY DEF fitLinesToParty
<1>2. \A o \in Options : ls[o].a \in Nat /\ ls[o].k \in Nat /\ ls[o].u \in Nat BY DEF BookingLines, OneLine
<1>3. from.adults \in Nat /\ from.kids \in Nat /\ to.adults \in Nat /\ to.kids \in Nat BY PartiesAre
<1>4. \A o \in Options : a(o) \in Nat /\ k(o) \in Nat /\ a(o) <= to.adults /\ k(o) <= to.kids BY <1>2, <1>3, FitIs
<1>5. MostInfants \in Nat BY InfantsWithin
<1> HIDE DEF a, k, fs
<1>6. \A o \in Options : fs[o] = [a |-> a(o), k |-> k(o), u |-> ls[o].u] BY <1>1
<1>7. ASSUME NEW o \in Options PROVE fs[o] \in OneLine /\ fs[o].a = a(o) /\ fs[o].k = k(o)
  <2>1. PICK x \in Nat, y \in Nat : x = a(o) /\ y = k(o) BY <1>4
  <2>2. fs[o] = [a |-> x, k |-> y, u |-> ls[o].u] BY <1>6, <2>1
  <2> QED BY <1>2, <2>1, <2>2 DEF OneLine
<1>8. fs \in BookingLines BY <1>1, <1>7 DEF BookingLines
<1>9. Within(fs, to) BY <1>3, <1>4, <1>5, <1>7 DEF Within
<1> QED BY <1>8, <1>9 DEF fs

(* The fields a patch may carry, and what they hold.                       *)
PatchFits(patch) ==
  /\ "items" \in DOMAIN patch => patch.items \in BookingLines
  /\ "rate" \in DOMAIN patch => patch.rate \in Rates
  /\ "code" \in DOMAIN patch => patch.code \in BOOLEAN
  /\ "kind" \in DOMAIN patch => patch.kind \in AdjKinds /\ patch.value \in Nat
  /\ patch \in Parties \/ DOMAIN patch \cap {"adults", "kids", "infants"} = {}

LEMMA PatchesFit ==
  ASSUME PriceInv, NEW patch \in DeskPatches \cup GuestPatches
  PROVE  PatchFits(patch)
<1>1. ASSUME NEW p \in Parties PROVE PatchFits(p)
  <2>1. DOMAIN p = {"adults", "kids", "infants"} BY PricesAssumption
  <2> QED BY <1>1, <2>1 DEF PatchFits
<1>2. ASSUME NEW ls \in BookingLines PROVE PatchFits([items |-> ls]) BY <1>2 DEF PatchFits
<1>3. OneLineMoved \subseteq BookingLines
  <2>1. None \in OneLine /\ Counts \subseteq OneLine BY PricesAssumption DEF None, OneLine
  <2>2. lines \in BookingLines BY DEF PriceInv, PriceTyped
  <2> QED BY <2>1, <2>2 DEF OneLineMoved, BookingLines
<1>4. ASSUME NEW r \in Rates PROVE PatchFits([rate |-> r]) BY <1>4 DEF PatchFits
<1>5. ASSUME NEW c \in BOOLEAN PROVE PatchFits([code |-> c]) BY <1>5 DEF PatchFits
<1>6. ASSUME NEW a \in Adjustments PROVE PatchFits(a) /\ PatchFits([kind |-> a.kind, value |-> a.value, code |-> TRUE])
  <2>1. a.kind \in AdjKinds /\ a.value \in Nat /\ DOMAIN a = {"kind", "value"} BY PricesAssumption DEF AdjKinds
  <2>2. PatchFits(a) BY <2>1 DEF PatchFits
  <2> DEFINE b == [kind |-> a.kind, value |-> a.value, code |-> TRUE]
  <2>3. b.kind = a.kind /\ b.value = a.value /\ b.code = TRUE /\ DOMAIN b = {"kind", "value", "code"} OBVIOUS
  <2> HIDE DEF b
  <2>4. b.code \in BOOLEAN BY <2>3
  <2>5. PatchFits(b) BY <2>1, <2>3, <2>4 DEF PatchFits
  <2> QED BY <2>2, <2>5 DEF b
<1>7. \A p \in PartyPatches \cup {[items |-> ls] : ls \in OneLineMoved} : PatchFits(p)
  BY <1>1, <1>2, <1>3 DEF PartyPatches
<1> QED BY <1>4, <1>5, <1>6, <1>7 DEF DeskPatches, GuestPatches

LEMMA PartyOfIs ==
  ASSUME party \in Parties, NEW patch, PatchFits(patch)
  PROVE  PartyOf(patch) \in Parties
<1>1. DOMAIN party = {"adults", "kids", "infants"} /\ party = [f \in {"adults", "kids", "infants"} |-> party[f]]
  BY PartiesAre
<1>2. CASE patch \in Parties
  <2>1. DOMAIN patch = {"adults", "kids", "infants"} /\ patch = [f \in {"adults", "kids", "infants"} |-> patch[f]]
    BY <1>2, PartiesAre
  <2>2. PartyOf(patch) = patch BY <1>1, <2>1 DEF PartyOf
  <2> QED BY <1>2, <2>2
<1>3. CASE DOMAIN patch \cap {"adults", "kids", "infants"} = {}
  <2>1. PartyOf(patch) = party BY <1>1, <1>3 DEF PartyOf
  <2> QED BY <2>1
<1> QED BY <1>2, <1>3 DEF PatchFits

LEMMA AdjustedIs ==
  ASSUME adj \in AdjRow, NEW patch, PatchFits(patch)
  PROVE  applyAdjustment(patch) \in AdjRow
<1> DEFINE coded == IF "code" \notin DOMAIN patch THEN adj ELSE IF patch.code THEN Coupon ELSE Plain
           said == IF "kind" \in DOMAIN patch THEN [coded EXCEPT !.kind = patch.kind, !.value = patch.value] ELSE coded
<1>1. Coupon \in AdjRow /\ Plain \in AdjRow
  <2>1. Coupon \in AdjRow
    <3>1. \A c \in [kind : {"percent", "amount", "foc", "entry_free"}, value : Nat, code : {TRUE}] : c \in AdjRow
      BY DEF AdjRow, AdjKinds
    <3> QED BY <3>1, PricesAssumption
  <2>2. Plain \in AdjRow BY DEF Plain, AdjRow, AdjKinds
  <2> QED BY <2>1, <2>2
<1>2. coded \in AdjRow BY <1>1
<1> HIDE DEF coded
<1>3. said \in AdjRow BY <1>2 DEF PatchFits, AdjRow
<1> HIDE DEF said
<1>4. [said EXCEPT !.value = 0] \in AdjRow BY <1>3 DEF AdjRow
<1>5. applyAdjustment(patch) = IF said.kind = "none" THEN [said EXCEPT !.value = 0] ELSE said
  BY DEF applyAdjustment, said, coded
<1> QED BY <1>3, <1>4, <1>5

-----------------------------------------------------------------------------
(* The price: its actions.                                                 *)

LEMMA PriceInitially == PriceInit => PriceInv
<1> SUFFICES ASSUME PriceInit PROVE PriceInv OBVIOUS
<1>1. None \in OneLine /\ Plain \in AdjRow BY DEF None, OneLine, Plain, AdjRow, AdjKinds
<1>2. lines \in BookingLines /\ amount \in [Options -> Nat] BY <1>1 DEF PriceInit, BookingLines
<1>3. money \in MoneyRow BY DEF PriceInit, MoneyRow
<1>4. season \in 1..Seasons /\ priced \in 1..Seasons /\ edits \in 0..MaxEdits /\ priced <= season
  BY PricesAssumption DEF PriceInit
<1>5. overruled \in BOOLEAN BY Zenon DEF PriceInit
<1> QED BY <1>1, <1>2, <1>3, <1>4, <1>5 DEF PriceInit, PriceInv, PriceTyped, Rates

(* The price list is all a price depends on.                               *)
LEMMA SamePrices ==
  ASSUME season' = season
  PROVE  /\ \A p, r, ls, a : computeBooking(p, r, ls, a)' = computeBooking(p, r, ls, a)
         /\ \A r, ls : amountsOf(r, ls)' = amountsOf(r, ls)
<1>1. \A o, r : priceFor(o, r)' = priceFor(o, r) BY DEF priceFor
<1>2. \A o, r, c : amountOf(o, r, c)' = amountOf(o, r, c) BY <1>1 DEF amountOf, atLeastOne, productAmount, experienceAmount
<1>3. \A r, ls : amountsOf(r, ls)' = amountsOf(r, ls) BY <1>2 DEF amountsOf
<1>4. \A p, r, ls : entryOf(p, r, ls)' = entryOf(p, r, ls) BY DEF entryOf
<1>5. \A r, ls : explorerPass(r, ls)' = explorerPass(r, ls)
  <2> SUFFICES ASSUME NEW r, NEW ls PROVE explorerPass(r, ls)' = explorerPass(r, ls) OBVIOUS
  <2> DEFINE Q == {o \in Options : /\ ls[o] # None /\ Offer[o].adventure
                                   /\ Offer[o].mode = "pp" /\ amountOf(o, r, ls[o]) > 0}
             give(q, t) == IF Cardinality({Offer[o].of : o \in q}) >= 3 THEN Percent(SumOf(q, t), 15) ELSE 0
  <2>1. Q' = Q BY <1>2
  <2>2. explorerPass(r, ls) = give(Q, amountsOf(r, ls)) BY DEF explorerPass
  <2>3. explorerPass(r, ls)' = give(Q', amountsOf(r, ls)') BY DEF explorerPass
  <2> HIDE DEF Q, give
  <2> QED BY <1>3, <2>1, <2>2, <2>3
<1>6. \A p, r, ls, a : computeBooking(p, r, ls, a)' = computeBooking(p, r, ls, a) BY <1>3, <1>4, <1>5 DEF computeBooking
<1> QED BY <1>3, <1>6

LEMMA WriteKept ==
  ASSUME PriceInv, NEW p \in Parties, NEW r \in Rates, NEW ls \in BookingLines, NEW a \in AdjRow, Write(p, r, ls, a),
         Within(ls, p), edits' \in 0..MaxEdits, overruled' \in BOOLEAN
  PROVE  PriceInv'
<1>1. /\ party' = p /\ rate' = r /\ lines' = ls /\ adj' = a /\ amount' = amountsOf(r, ls)
      /\ money' = computeBooking(p, r, ls, a) /\ priced' = season /\ season' = season
  BY DEF Write
<1>2. season \in 1..Seasons /\ season \in Nat BY PricesAssumption DEF PriceInv, PriceTyped
<1>3. p \in PartyRow BY PartiesAre
<1>4. money' \in MoneyRow BY <1>1, <1>2, <1>3, BookingIs
<1>5. amount' \in [Options -> Nat] BY <1>1, <1>2, AmountsAre
<1>6. \A q, s, ms, b : <<q, s, ms, b>> = <<party', rate', lines', adj'>> =>
        money' = computeBooking(q, s, ms, b)' /\ amount' = amountsOf(s, ms)'
  BY <1>1, SamePrices
<1>7. Within(lines, party)' BY <1>1 DEF Within, MostInfants
<1>8. PriceTyped' BY <1>1, <1>2, <1>4, <1>5 DEF PriceTyped
<1>9. priced' <= season' BY <1>1, <1>2
<1> QED BY <1>1, <1>6, <1>7, <1>8, <1>9 DEF PriceInv

LEMMA createKept ==
  ASSUME PriceInv, NEW p \in Parties, NEW r \in Rates, NEW ls \in Baskets, NEW coded \in BOOLEAN, create(p, r, ls, coded)
  PROVE  PriceInv'
<1> DEFINE a == IF coded THEN Coupon ELSE Plain
<1>1. a \in AdjRow
  <2>1. \A c \in [kind : {"percent", "amount", "foc", "entry_free"}, value : Nat, code : {TRUE}] : c \in AdjRow
    BY DEF AdjRow, AdjKinds
  <2>2. Plain \in AdjRow BY DEF Plain, AdjRow, AdjKinds
  <2> QED BY <2>1, <2>2, PricesAssumption
<1>2. ls \in BookingLines BY PricesAssumption DEF BookingLines, OneLine
<1>3. Within(ls, p)
  <2>1. \A o \in Options : ls[o].a <= p.adults /\ ls[o].k <= p.kids + p.infants BY DEF create, assertLinesFitParty
  <2>2. \A o \in Options : ls[o].k \in Nat BY <1>2 DEF BookingLines, OneLine
  <2>3. p.infants \in Nat /\ p.kids \in Nat /\ MostInfants \in Nat /\ p.infants <= MostInfants BY PartiesAre, InfantsWithin
  <2> QED BY <2>1, <2>2, <2>3 DEF Within
<1>4. edits' \in 0..MaxEdits /\ overruled' \in BOOLEAN BY DEF create, PriceInv, PriceTyped
<1>5. Write(p, r, ls, a) BY DEF create
<1> HIDE DEF a
<1> QED BY <1>1, <1>2, <1>3, <1>4, <1>5, WriteKept

LEMMA saveEditKept ==
  ASSUME PriceInv, NEW patch, PatchFits(patch), saveEdit(patch)
  PROVE  PriceInv'
<1>1. party \in Parties /\ rate \in Rates /\ adj \in AdjRow /\ lines \in BookingLines /\ Within(lines, party)
  BY DEF saveEdit, PriceInv, PriceTyped
<1>2. edits' \in 0..MaxEdits BY PricesAssumption DEF saveEdit, PriceInv, PriceTyped
<1>3. CASE touchesMoney(patch)
  <2> DEFINE to == PartyOf(patch)
             ls == fitLines(patch, to)
  <2>1. to \in Parties BY <1>1, PartyOfIs
  <2>2. RateOf(patch) \in Rates BY <1>1 DEF RateOf, PatchFits
  <2>3. applyAdjustment(patch) \in AdjRow BY <1>1, AdjustedIs
  <2>4. ls \in BookingLines /\ Within(ls, to)
    <3> HIDE DEF to
    <3>1. CASE "items" \in DOMAIN patch
      <4>1. patch.items \in BookingLines BY <3>1 DEF PatchFits
      <4>2. ls = fitLinesToParty(patch.items, NotBooked, to) BY <3>1 DEF fitLines
      <4> QED BY <2>1, <4>1, <4>2, FittedWithin
    <3>2. CASE "items" \notin DOMAIN patch /\ to.adults = party.adults /\ to.kids = party.kids
      <4>1. ls = lines BY <3>2 DEF fitLines
      <4> QED BY <1>1, <3>2, <4>1 DEF Within
    <3>3. CASE "items" \notin DOMAIN patch /\ ~ (to.adults = party.adults /\ to.kids = party.kids)
      <4>1. ls = fitLinesToParty(lines, party, to) BY <3>3 DEF fitLines
      <4> QED BY <1>1, <2>1, <4>1, FittedWithin
    <3> QED BY <3>1, <3>2, <3>3
  <2>5. Write(to, RateOf(patch), ls, applyAdjustment(patch)) BY <1>3 DEF saveEdit, reprice
  <2>6. overruled' \in BOOLEAN
    <3>1. overruled' = (overruled \/ ("code" \in DOMAIN patch /\ patch.code /\ adj'.kind # Coupon.kind))
      BY <1>3 DEF saveEdit
    <3> QED BY <3>1, Zenon
  <2> HIDE DEF to, ls
  <2> QED BY <1>2, <2>1, <2>2, <2>3, <2>4, <2>5, <2>6, WriteKept
<1>4. CASE ~ touchesMoney(patch)
  <2>1. /\ party' = PartyOf(patch) /\ rate' = RateOf(patch)
        /\ UNCHANGED <<lines, amount, money, adj, season, priced, overruled>>
    BY <1>4 DEF saveEdit
  <2>2. \A f \in DOMAIN patch : patch[f] = currentValue[f] BY <1>4 DEF touchesMoney
  <2>3. party = [f \in {"adults", "kids", "infants"} |-> party[f]] BY <1>1, PartiesAre
  <2>4. currentValue["adults"] = party["adults"] /\ currentValue["kids"] = party["kids"]
        /\ currentValue["infants"] = party["infants"] /\ currentValue["rate"] = rate
    BY DEF currentValue
  <2>5. PartyOf(patch) = party
    <3>1. DOMAIN party = {"adults", "kids", "infants"} BY <2>3
    <3>2. \A f \in DOMAIN party : (IF f \in DOMAIN patch THEN patch[f] ELSE party[f]) = party[f]
      BY <2>2, <2>4, <3>1
    <3>3. PartyOf(patch) = [f \in DOMAIN party |-> party[f]] BY <3>2 DEF PartyOf
    <3> QED BY <2>3, <3>1, <3>3
  <2>6. RateOf(patch) = rate BY <2>2, <2>4 DEF RateOf
  <2>7. \A p, r, ls, a : priced' = season' /\ <<p, r, ls, a>> = <<party', rate', lines', adj'>> =>
          money' = computeBooking(p, r, ls, a)' /\ amount' = amountsOf(r, ls)'
    BY <1>1, <2>1, <2>5, <2>6, SamePrices, PartiesAre DEF PriceInv
  <2>8. Within(lines, party)' BY <1>1, <2>1, <2>5 DEF Within, MostInfants
  <2>9. PriceTyped' BY <1>2, <2>1, <2>5, <2>6 DEF PriceInv, PriceTyped
  <2> QED BY <2>1, <2>5, <2>6, <2>7, <2>8, <2>9 DEF PriceInv
<1> QED BY <1>3, <1>4

LEMMA PriceStep == PriceInv /\ [PriceNext]_priceVars => PriceInv'
<1> SUFFICES ASSUME PriceInv, [PriceNext]_priceVars PROVE PriceInv' OBVIOUS
<1>1. ASSUME NEW p \in Parties, NEW r \in Rates, NEW ls \in Baskets, NEW coded \in BOOLEAN, create(p, r, ls, coded)
      PROVE  PriceInv'
  BY <1>1, createKept
<1>2. ASSUME NEW patch \in DeskPatches, saveEdit(patch) PROVE PriceInv' BY <1>2, PatchesFit, saveEditKept
<1>3. ASSUME NEW patch \in GuestPatches, guestEdit(patch) PROVE PriceInv'
  BY <1>3, PatchesFit, saveEditKept DEF guestEdit
<1>4. CASE NewSeason
  <2>1. /\ season' = season + 1 /\ season' \in 1..Seasons /\ priced' = priced /\ priced' \in 1..Seasons
        /\ priced' < season' /\ priced' # season'
    BY <1>4, PricesAssumption DEF NewSeason, PriceInv, PriceTyped
  <2>2. UNCHANGED <<party, rate, lines, amount, money, adj, edits, priced, overruled>> BY <1>4 DEF NewSeason
  <2>3. PriceTyped' BY <2>1, <2>2 DEF PriceInv, PriceTyped
  <2>4. priced' <= season' BY <2>1 DEF PriceInv, PriceTyped
  <2>5. party' # NotBooked => Within(lines, party)' BY <2>2 DEF PriceInv, Within, MostInfants
  <2> QED BY <2>1, <2>3, <2>4, <2>5 DEF PriceInv
<1>5. CASE UNCHANGED priceVars
  <2>1. UNCHANGED <<party, rate, lines, amount, money, adj, season, edits, priced, overruled>> BY <1>5 DEF priceVars
  <2>2. PriceTyped' /\ priced' <= season' BY <2>1 DEF PriceInv, PriceTyped
  <2>3. party' # NotBooked => \A p, r, ls, a : priced' = season' /\ <<p, r, ls, a>> = <<party', rate', lines', adj'>> =>
          money' = computeBooking(p, r, ls, a)' /\ amount' = amountsOf(r, ls)'
    BY <2>1, SamePrices DEF PriceInv
  <2>4. Within(lines, party)' <=> Within(lines, party) BY <2>1 DEF Within, MostInfants
  <2> QED BY <2>1, <2>2, <2>3, <2>4 DEF PriceInv
<1> QED BY <1>1, <1>2, <1>3, <1>4, <1>5 DEF PriceNext

LEMMA PriceInvImplies == PriceInv => PricesTypeOK /\ PricesSound
<1> SUFFICES ASSUME PriceInv PROVE PricesTypeOK /\ PricesSound OBVIOUS
<1>1. PricesTypeOK BY DEF PriceInv, PriceTyped, PricesTypeOK, BookingLines, OneLine, MoneyRow, AdjRow, AdjKinds
<1>2. PricedAsNew
  <2> SUFFICES ASSUME party # NotBooked, priced = season
               PROVE  /\ money = computeBooking(party, rate, lines, adj)
                      /\ money.subtotal = money.entry + SumOf(Options, amount)
    BY DEF PricedAsNew
  <2>1. money = computeBooking(party, rate, lines, adj) /\ amount = amountsOf(rate, lines) BY DEF PriceInv
  <2>2. season \in Nat /\ party \in PartyRow /\ rate \in Rates /\ lines \in BookingLines /\ adj \in AdjRow
    BY PartiesAre, PricesAssumption DEF PriceInv, PriceTyped
  <2> QED BY <2>1, <2>2, BookingIs
<1>3. NobodyInvented BY DEF NobodyInvented, PriceInv, Within, MostInfants
<1> QED BY <1>1, <1>2, <1>3 DEF PricesSound

(* Whatever edits led there, a booking costs what a new order of its party,*)
(* rate, lines and adjustment costs on the price list it was last priced   *)
(* from, and its lines add up to it; no line charges for more adults than  *)
(* come, nor for more children than the party's and the most under-6s any  *)
(* party brings (staff-bookings.service update, reprice, fitLines).        *)
THEOREM PricesAreRight == PriceSpec => []PricesSound
<1>1. PriceInv => PricesSound BY PriceInvImplies
<1> QED BY <1>1, PriceInitially, PriceStep, PTL DEF PriceSpec

-----------------------------------------------------------------------------
(* The gate: the invariant is what addLine and the party's form let in.    *)

GateInv ==
  /\ group \in GateParties /\ booked \subseteq Line /\ IsFiniteSet(booked)
  /\ \A l \in booked : assertLineFits(l, group)

LEMMA GateInitially == GateInit => GateInv
BY FS_EmptySet DEF GateInit, GateInv

LEMMA GateStep == GateInv /\ [GateNext]_gateVars => GateInv'
<1> SUFFICES ASSUME GateInv, [GateNext]_gateVars PROVE GateInv' OBVIOUS
<1>1. ASSUME NEW i \in Items, NEW a \in 0..(group.adults + group.kids + group.infants),
             NEW k \in 0..(group.adults + group.kids + group.infants), addLine([item |-> i, adults |-> a, kids |-> k])
      PROVE  GateInv'
  <2> DEFINE l == [item |-> i, adults |-> a, kids |-> k]
  <2>1. group \in [adults : Nat \ {0}, kids : Nat, infants : Nat, group : BOOLEAN] BY GateAssumption DEF GateInv
  <2>2. l \in Line BY <2>1 DEF Line
  <2> HIDE DEF l
  <2>3. booked' = booked \cup {l} /\ group' = group /\ assertLineFits(l, group) BY <1>1 DEF addLine, l
  <2>4. IsFiniteSet(booked') BY <2>3, FS_AddElement DEF GateInv
  <2> QED BY <2>2, <2>3, <2>4 DEF GateInv
<1>2. CASE UNCHANGED gateVars BY <1>2 DEF gateVars, GateInv
<1> QED BY <1>1, <1>2 DEF GateNext

LEMMA PartyIs ==
  ASSUME GateInv
  PROVE  /\ group \in [adults : Nat \ {0}, kids : Nat, infants : Nat, group : BOOLEAN]
         /\ group.adults \in Nat /\ group.adults > 0 /\ group.kids \in Nat /\ group.infants \in Nat
         /\ \A l \in booked : /\ l \in Line /\ l.item \in Items /\ l.adults \in Nat /\ l.kids \in Nat
                              /\ l.adults <= group.adults /\ l.kids <= group.kids + group.infants
<1>1. group \in [adults : Nat \ {0}, kids : Nat, infants : Nat, group : BOOLEAN] BY GateAssumption DEF GateInv
<1>2. \A l \in booked : l \in Line /\ l.item \in Items /\ l.adults \in Nat /\ l.kids \in Nat BY DEF GateInv, Line
<1> QED BY <1>1, <1>2 DEF GateInv, assertLineFits

(* What activitiesFor says of a ride that counts heads.                    *)
LEMMA Most ==
  ASSUME GateInv, NEW r \in DOMAIN activitiesFor
  PROVE  /\ r \in Rides /\ LinesOf(r) # {} /\ LinesOf(r) \subseteq booked
         /\ (activitiesFor[r] = Everyone) <=> (\E l \in LinesOf(r) : Heads(l) = 0)
         /\ activitiesFor[r] # Everyone =>
              /\ activitiesFor[r].adults \in Nat /\ activitiesFor[r].kids \in Nat
              /\ \A l \in LinesOf(r) : l.adults <= activitiesFor[r].adults /\ l.kids <= activitiesFor[r].kids
              /\ \E l \in LinesOf(r) : l.adults = activitiesFor[r].adults
              /\ \E l \in LinesOf(r) : l.kids = activitiesFor[r].kids
<1> DEFINE L == LinesOf(r)
           as == {l.adults : l \in L}
           ks == {l.kids : l \in L}
<1>1. r \in Rides /\ L # {} /\ L \subseteq booked BY DEF activitiesFor, LinesOf
<1>2. activitiesFor[r] = IF \E l \in L : Heads(l) = 0 THEN Everyone ELSE [adults |-> Max(as), kids |-> Max(ks)]
  BY DEF activitiesFor
<1> HIDE DEF L
<1>3. \A l \in L : l.adults \in Nat /\ l.kids \in Nat BY <1>1, PartyIs
<1>4. IsFiniteSet(L) BY <1>1, FS_Subset DEF GateInv
<1>5. Max(as) \in as /\ \A y \in as : y <= Max(as)
  <2> DEFINE f == [l \in L |-> l.adults]
  <2>1. as = {f[l] : l \in L} OBVIOUS
  <2> HIDE DEF f
  <2>2. IsFiniteSet(as) BY <1>4, <2>1, ImageFinite
  <2>3. as # {} /\ \A x \in as : x \in Int BY <1>1, <1>3
  <2> HIDE DEF as
  <2> QED BY <2>2, <2>3, MaxIs
<1>6. Max(ks) \in ks /\ \A y \in ks : y <= Max(ks)
  <2> DEFINE f == [l \in L |-> l.kids]
  <2>1. ks = {f[l] : l \in L} OBVIOUS
  <2> HIDE DEF f
  <2>2. IsFiniteSet(ks) BY <1>4, <2>1, ImageFinite
  <2>3. ks # {} /\ \A x \in ks : x \in Int BY <1>1, <1>3
  <2> HIDE DEF ks
  <2> QED BY <2>2, <2>3, MaxIs
<1>7. PICK a \in Nat, k \in Nat : a = Max(as) /\ k = Max(ks) BY <1>3, <1>5, <1>6
<1>8. /\ \A l \in L : l.adults <= a /\ l.kids <= k
      /\ \E l \in L : l.adults = a
      /\ \E l \in L : l.kids = k
  BY <1>5, <1>6, <1>7
<1>9. activitiesFor[r] = IF \E l \in L : Heads(l) = 0 THEN Everyone ELSE [adults |-> a, kids |-> k] BY <1>2, <1>7
<1>10. [adults |-> a, kids |-> k] # Everyone
  <2>1. Everyone.adults = 0 - 1 BY DEF Everyone
  <2>2. [adults |-> a, kids |-> k].adults = a /\ a # 0 - 1 OBVIOUS
  <2> QED BY <2>1, <2>2
<1> QED BY <1>1, <1>8, <1>9, <1>10 DEF L

LEMMA Bands ==
  ASSUME NEW p, p.age \in Nat
  PROVE  /\ BandOf(p.age) \in {"adults", "kids", "infants"}
         /\ BandOf(p.age) = "adults" <=> p.age >= 12
         /\ BandOf(p.age) = "kids" <=> p.age >= 6 /\ p.age < 12
         /\ BandOf(p.age) = "infants" <=> p.age < 6
<1>1. CASE p.age >= 12 BY <1>1 DEF BandOf
<1>2. CASE p.age < 12 /\ p.age >= 6 BY <1>2 DEF BandOf
<1>3. CASE p.age < 6 BY <1>3 DEF BandOf
<1> QED BY <1>1, <1>2, <1>3

LEMMA Aged ==
  ASSUME NEW p \in InParty
  PROVE  p.age \in Nat /\ p.kg \in Nat /\ group[BandOf(p.age)] > 0
BY GateAssumption DEF InParty

(* Whoever may be on a line of a ride is on it for sure, or the ride is    *)
(* checked for the party.                                                  *)
LEMMA OnOrChecked ==
  ASSUME GateInv, NEW p \in InParty, NEW r \in DOMAIN activitiesFor, NEW l \in LinesOf(r), MayRide(BandOf(p.age), l)
  PROVE  r \in activitiesOf(p.age) \/ r \in gateChecks
<1> DEFINE n == activitiesFor[r]
<1>1. CASE n = Everyone BY <1>1 DEF activitiesOf
<1>2. CASE n # Everyone
  <2>1. /\ n.adults \in Nat /\ n.kids \in Nat /\ l.adults <= n.adults /\ l.kids <= n.kids
        /\ Heads(l) # 0 /\ l \in booked
    BY <1>2, Most
  <2>2. l.adults \in Nat /\ l.kids \in Nat /\ group.adults \in Nat /\ group.kids \in Nat BY <2>1, PartyIs
  <2>3. p.age \in Nat BY Aged
  <2> HIDE DEF n
  <2>4. partialOn(n) => r \in gateChecks BY DEF gateChecks, n
  <2>5. onLine(p.age, n) = "yes" => r \in activitiesOf(p.age) BY DEF activitiesOf, n
  <2>6. CASE p.age >= 12
    <3>1. BandOf(p.age) = "adults" BY <2>3, <2>6, Bands
    <3>2. n.adults > 0 BY <2>1, <2>2, <3>1 DEF MayRide
    <3>3. CASE n.adults >= group.adults
      <4>1. onLine(p.age, n) = "yes" BY <2>1, <2>2, <2>6, <3>2, <3>3 DEF onLine
      <4> QED BY <2>5, <4>1
    <3>4. CASE n.adults < group.adults
      <4>1. n.adults \in 1..(group.adults - 1) BY <2>1, <2>2, <3>2, <3>4
      <4> QED BY <1>2, <2>4, <4>1 DEF partialOn
    <3> QED BY <2>1, <2>2, <3>3, <3>4
  <2>7. CASE p.age >= 6 /\ p.age < 12
    <3>1. BandOf(p.age) = "kids" BY <2>3, <2>7, Bands
    <3>2. n.kids > 0 BY <2>1, <2>2, <3>1 DEF MayRide
    <3>3. CASE n.kids >= group.kids
      <4>1. onLine(p.age, n) = "yes" BY <2>1, <2>2, <2>3, <2>7, <3>2, <3>3 DEF onLine
      <4> QED BY <2>5, <4>1
    <3>4. CASE n.kids < group.kids
      <4>1. n.kids \in 1..(group.kids - 1) BY <2>1, <2>2, <3>2, <3>4
      <4> QED BY <1>2, <2>4, <4>1 DEF partialOn
    <3> QED BY <2>1, <2>2, <3>3, <3>4
  <2>8. CASE p.age < 6
    <3>1. BandOf(p.age) = "infants" BY <2>3, <2>8, Bands
    <3>2. n.kids > group.kids BY <2>1, <2>2, <3>1 DEF MayRide
    <3> QED BY <1>2, <2>4, <3>2 DEF partialOn
  <2> QED BY <2>3, <2>6, <2>7, <2>8
<1> QED BY <1>1, <1>2

LEMMA FlagIs ==
  ASSUME NEW p
  PROVE  /\ \A r \in activitiesOf(p.age) : \A m \in Limits[r] :
              Outside(p, m) => \E f \in flagsFor(p) : f.ride = r
         /\ \A f \in flagsFor(p) : f.ride \in activitiesOf(p.age)
<1> DEFINE on(r) == {[ride |-> r, level |-> Level(p, m)] : m \in {x \in Limits[r] : Outside(p, x)}}
<1>1. flagsFor(p) = UNION {on(r) : r \in activitiesOf(p.age)} BY DEF flagsFor
<1>2. ASSUME NEW r \in activitiesOf(p.age), NEW m \in Limits[r], Outside(p, m) PROVE \E f \in flagsFor(p) : f.ride = r
  <2> DEFINE f == [ride |-> r, level |-> Level(p, m)]
  <2>1. f \in on(r) /\ f.ride = r BY <1>2
  <2> HIDE DEF f, on
  <2> QED BY <1>1, <2>1
<1>3. ASSUME NEW f \in flagsFor(p) PROVE f.ride \in activitiesOf(p.age)
  <2>1. PICK r \in activitiesOf(p.age) : f \in on(r) BY <1>1
  <2>2. f.ride = r BY <2>1
  <2> QED BY <2>2
<1> QED BY <1>2, <1>3

LEMMA GateNobodySlips == GateInv => NobodySlips
<1> SUFFICES ASSUME GateInv, NEW p \in InParty, NEW l \in booked, MayRide(BandOf(p.age), l),
                    NEW r \in lineActivities[l.item], NEW m \in Limits[r], Outside(p, m)
             PROVE  r \in gateChecks \/ \E f \in flagsFor(p) : f.ride = r
  BY DEF NobodySlips
<1>1. r \in Rides BY PartyIs, GateAssumption
<1>2. l \in LinesOf(r) BY DEF LinesOf
<1>3. r \in DOMAIN activitiesFor BY <1>1, <1>2 DEF activitiesFor
<1>4. r \in activitiesOf(p.age) \/ r \in gateChecks BY <1>2, <1>3, OnOrChecked
<1> QED BY <1>4, FlagIs

(* A ride compared on a waiver has a line its owner is on.                 *)
LEMMA OnForSure ==
  ASSUME GateInv, NEW p \in InParty, NEW r \in activitiesOf(p.age)
  PROVE  \E l \in LinesOf(r) : MustRide(BandOf(p.age), l)
<1> DEFINE n == activitiesFor[r]
<1>1. r \in DOMAIN activitiesFor /\ (n = Everyone \/ onLine(p.age, n) = "yes") BY DEF activitiesOf
<1>2. CASE n = Everyone
  <2>1. \E l \in LinesOf(r) : Heads(l) = 0 BY <1>1, <1>2, Most
  <2> QED BY <2>1 DEF MustRide
<1>3. CASE n # Everyone
  <2>1. /\ n.adults \in Nat /\ n.kids \in Nat
        /\ \E l \in LinesOf(r) : l.adults = n.adults
        /\ \E l \in LinesOf(r) : l.kids = n.kids
        /\ LinesOf(r) \subseteq booked
    BY <1>1, <1>3, Most
  <2>2. group.adults \in Nat /\ group.kids \in Nat BY PartyIs
  <2>3. p.age \in Nat BY Aged
  <2>4. onLine(p.age, n) = "yes" BY <1>1, <1>3
  <2> HIDE DEF n
  <2>5. CASE p.age >= 12
    <3>1. BandOf(p.age) = "adults" BY <2>3, <2>5, Bands
    <3>2. n.adults >= group.adults BY <2>1, <2>2, <2>4, <2>5 DEF onLine
    <3>3. PICK l \in LinesOf(r) : l.adults = n.adults BY <2>1
    <3>4. l.adults <= group.adults /\ l.adults \in Nat BY <2>1, PartyIs
    <3>5. l.adults = group.adults BY <2>1, <2>2, <3>2, <3>3, <3>4
    <3> QED BY <3>1, <3>5 DEF MustRide
  <2>6. CASE p.age >= 6 /\ p.age < 12
    <3>1. BandOf(p.age) = "kids" BY <2>3, <2>6, Bands
    <3>2. n.kids >= group.kids BY <2>1, <2>2, <2>3, <2>4, <2>6 DEF onLine
    <3> QED BY <2>1, <3>1, <3>2 DEF MustRide
  <2>7. CASE p.age < 6
    <3>1. onLine(p.age, n) # "yes"
      <4>1. ~ (p.age >= 12) /\ ~ (p.age >= 6) BY <2>3, <2>7
      <4> QED BY <4>1 DEF onLine
    <3> QED BY <2>4, <3>1
  <2> QED BY <2>3, <2>5, <2>6, <2>7
<1> QED BY <1>2, <1>3

LEMMA GateFlagsAreTrue == GateInv => FlagsAreTrue
BY FlagIs, OnForSure DEF FlagsAreTrue

LEMMA GateFormAgrees == GateInv => FormAgrees
<1> SUFFICES ASSUME GateInv, NEW p \in InParty, NEW r \in DOMAIN activitiesFor
             PROVE  LET band == BandOf(p.age)
                        said == ageBands(activitiesFor[r])[band]
                    IN  /\ said = "none" <=> ~\E l \in LinesOf(r) : MayRide(band, l)
                        /\ band # "infants" => (said = "all" <=> r \in activitiesOf(p.age))
                        /\ said = "some" => r \in gateChecks \/ r \in activitiesOf(p.age)
  BY DEF FormAgrees
<1> DEFINE n == activitiesFor[r]
           band == BandOf(p.age)
           said == ageBands(n)[band]
<1>0. p.age \in Nat /\ group[band] > 0 BY Aged
<1>1. CASE n = Everyone
  <2>1. said = IF band = "infants" THEN "some" ELSE "all" BY <1>0, <1>1, Bands DEF ageBands
  <2>2. \E l \in LinesOf(r) : MayRide(band, l) BY <1>1, Most DEF MayRide
  <2>3. r \in activitiesOf(p.age) BY <1>1 DEF activitiesOf
  <2> QED BY <2>1, <2>2, <2>3
<1>2. CASE n # Everyone
  <2>1. /\ n.adults \in Nat /\ n.kids \in Nat /\ LinesOf(r) \subseteq booked
        /\ \A l \in LinesOf(r) : l.adults <= n.adults /\ l.kids <= n.kids /\ Heads(l) # 0
        /\ \E l \in LinesOf(r) : l.adults = n.adults
        /\ \E l \in LinesOf(r) : l.kids = n.kids
    BY <1>2, Most
  <2>2. /\ group.adults \in Nat /\ group.kids \in Nat
        /\ \A l \in LinesOf(r) : l.adults \in Nat /\ l.kids \in Nat
    BY <2>1, PartyIs
  <2>3. r \in activitiesOf(p.age) <=> onLine(p.age, n) = "yes" BY <1>2 DEF activitiesOf
  <2>4. partialOn(n) => r \in gateChecks BY DEF gateChecks
  <2> DEFINE least == Min({n.kids, group.kids})
  <2>5. ageBands(n) = [adults |-> Band(n.adults, group.adults), kids |-> Band(least, group.kids),
                       infants |-> IF n.kids > group.kids THEN "some" ELSE "none"]
    BY <1>2 DEF ageBands
  <2> HIDE DEF n
  <2>6. least = IF n.kids <= group.kids THEN n.kids ELSE group.kids
    <3>1. n.kids \in Int /\ group.kids \in Int BY <2>1, <2>2
    <3> QED BY <3>1, PairLeast
  <2> HIDE DEF least
  <2>7. CASE p.age >= 12
    <3>1. band = "adults" BY <1>0, <2>7, Bands
    <3>2. said = Band(n.adults, group.adults) BY <2>5, <3>1
    <3>3. group.adults > 0 BY <1>0, <3>1
    <3>4. (\E l \in LinesOf(r) : MayRide(band, l)) <=> n.adults > 0 BY <2>1, <2>2, <3>1 DEF MayRide
    <3>5. onLine(p.age, n) = "yes" <=> n.adults > 0 /\ n.adults >= group.adults
      BY <2>1, <2>2, <2>7 DEF onLine
    <3>6. n.adults > 0 /\ n.adults < group.adults => partialOn(n)
      <4> SUFFICES ASSUME n.adults > 0, n.adults < group.adults PROVE partialOn(n) OBVIOUS
      <4>1. n.adults \in 1..(group.adults - 1) BY <2>1, <2>2
      <4> QED BY <1>2, <4>1 DEF partialOn, n
    <3>7. said = "none" <=> ~ (n.adults > 0) BY <2>1, <2>2, <3>2, <3>3 DEF Band
    <3>8. said = "all" <=> n.adults > 0 /\ n.adults >= group.adults BY <2>1, <2>2, <3>2, <3>3 DEF Band
    <3>9. said = "some" => n.adults > 0 /\ n.adults < group.adults BY <2>1, <2>2, <3>2, <3>3 DEF Band
    <3> HIDE DEF said, band
    <3>10. said = "none" <=> ~\E l \in LinesOf(r) : MayRide(band, l) BY <3>4, <3>7
    <3>11. said = "all" <=> r \in activitiesOf(p.age) BY <2>3, <3>5, <3>8
    <3>12. said = "some" => r \in gateChecks BY <2>4, <3>6, <3>9
    <3> QED BY <3>10, <3>11, <3>12 DEF said, band, n
  <2>8. CASE p.age >= 6 /\ p.age < 12
    <3>1. band = "kids" BY <1>0, <2>8, Bands
    <3>2. said = Band(least, group.kids) BY <2>5, <3>1
    <3>3. group.kids > 0 BY <1>0, <3>1
    <3>4. (\E l \in LinesOf(r) : MayRide(band, l)) <=> n.kids > 0 BY <2>1, <2>2, <3>1 DEF MayRide
    <3>5. onLine(p.age, n) = "yes" <=> n.kids > 0 /\ n.kids >= group.kids
      BY <1>0, <2>1, <2>2, <2>8 DEF onLine
    <3>6. n.kids > 0 /\ n.kids < group.kids => partialOn(n)
      <4> SUFFICES ASSUME n.kids > 0, n.kids < group.kids PROVE partialOn(n) OBVIOUS
      <4>1. n.kids \in 1..(group.kids - 1) BY <2>1, <2>2
      <4> QED BY <1>2, <4>1 DEF partialOn, n
    <3>7. said = "none" <=> ~ (n.kids > 0) BY <2>1, <2>2, <2>6, <3>2, <3>3 DEF Band
    <3>8. said = "all" <=> n.kids > 0 /\ n.kids >= group.kids BY <2>1, <2>2, <2>6, <3>2, <3>3 DEF Band
    <3>9. said = "some" => n.kids > 0 /\ n.kids < group.kids BY <2>1, <2>2, <2>6, <3>2, <3>3 DEF Band
    <3> HIDE DEF said, band
    <3>10. said = "none" <=> ~\E l \in LinesOf(r) : MayRide(band, l) BY <3>4, <3>7
    <3>11. said = "all" <=> r \in activitiesOf(p.age) BY <2>3, <3>5, <3>8
    <3>12. said = "some" => r \in gateChecks BY <2>4, <3>6, <3>9
    <3> QED BY <3>10, <3>11, <3>12 DEF said, band, n
  <2>9. CASE p.age < 6
    <3>1. band = "infants" BY <1>0, <2>9, Bands
    <3>2. said = IF n.kids > group.kids THEN "some" ELSE "none" BY <2>5, <3>1
    <3>3. (\E l \in LinesOf(r) : MayRide(band, l)) <=> n.kids > group.kids BY <2>1, <2>2, <3>1 DEF MayRide
    <3>4. n.kids > group.kids => partialOn(n) BY <1>2 DEF partialOn, n
    <3> HIDE DEF said, band
    <3>5. said = "none" <=> ~\E l \in LinesOf(r) : MayRide(band, l) BY <3>2, <3>3
    <3>6. said = "some" => r \in gateChecks BY <2>4, <3>2, <3>4
    <3> QED BY <3>1, <3>5, <3>6 DEF said, band, n
  <2> QED BY <1>0, <2>7, <2>8, <2>9
<1> QED BY <1>1, <1>2

LEMMA GateSignersEnough == GateInv => SignersEnough
<1> SUFFICES ASSUME GateInv, ~ group.group
             PROVE  /\ \A l \in Signing : (IF Heads(l) = 0 THEN group.adults + group.kids + group.infants ELSE Heads(l))
                                            <= waiverRequiredCount
                    /\ waiverRequiredCount <= group.adults + group.kids + group.infants
  BY DEF SignersEnough
<1> DEFINE all == group.adults + group.kids
           these == {Signers(l) : l \in Signing}
           upTo == {0} \cup these
           n == Max(upTo)
<1>1. all \in Nat /\ all > 0 /\ group.infants \in Nat BY PartyIs
<1>2. ASSUME NEW l \in Signing
      PROVE  /\ Heads(l) \in Nat /\ Heads(l) <= all + group.infants
             /\ Signers(l) \in Nat /\ Signers(l) = IF Heads(l) > 0 THEN Heads(l) ELSE all
  <2>1. l \in booked BY DEF Signing
  <2>2. l.adults \in Nat /\ l.kids \in Nat /\ l.adults <= group.adults /\ l.kids <= group.kids + group.infants
    BY <2>1, PartyIs
  <2> QED BY <2>2, PartyIs DEF Heads, Signers
<1> HIDE DEF all
<1>3. IsFiniteSet(upTo)
  <2> DEFINE f == [l \in Signing |-> Signers(l)]
  <2>1. these = {f[l] : l \in Signing} OBVIOUS
  <2>2. IsFiniteSet(Signing) BY FS_Subset DEF GateInv, Signing
  <2> HIDE DEF f, these
  <2>3. IsFiniteSet(these)
    <3>1. IsFiniteSet({f[l] : l \in Signing}) BY <2>2, ImageFinite
    <3> QED BY <2>1, <3>1
  <2>4. upTo = these \cup {0} OBVIOUS
  <2> QED BY <2>3, <2>4, FS_AddElement
<1>4. upTo # {} /\ (\A x \in upTo : x \in Nat) /\ \A l \in Signing : Signers(l) \in upTo BY <1>2
<1>5. n \in upTo /\ \A y \in upTo : y <= n
  <2>1. \A x \in upTo : x \in Int BY <1>4
  <2> HIDE DEF upTo
  <2> QED BY <1>3, <1>4, <2>1, MaxIs
<1>6. n \in Nat /\ \A l \in Signing : Signers(l) <= n BY <1>4, <1>5
<1>7. waiverRequiredCount = IF n = 0 THEN 0 ELSE Min({n, all}) + group.infants BY DEF waiverRequiredCount, all, these, upTo
<1> HIDE DEF n, these, upTo
<1>8. Min({n, all}) = IF n <= all THEN n ELSE all
  <2>1. n \in Int /\ all \in Int BY <1>1, <1>6
  <2> QED BY <2>1, PairLeast
<1>9. ASSUME NEW l \in Signing
      PROVE  (IF Heads(l) = 0 THEN all + group.infants ELSE Heads(l)) <= waiverRequiredCount
  BY <1>1, <1>2, <1>6, <1>7, <1>8
<1>10. waiverRequiredCount <= all + group.infants BY <1>1, <1>6, <1>7, <1>8
<1> QED BY <1>9, <1>10 DEF all

LEMMA GateInvImplies == GateInv => GateTypeOK /\ GateTold
<1> SUFFICES ASSUME GateInv PROVE GateTypeOK /\ GateTold OBVIOUS
<1>1. GateTypeOK BY PartyIs DEF GateTypeOK, GateInv
<1> QED BY <1>1, GateNobodySlips, GateFlagsAreTrue, GateFormAgrees, GateSignersEnough DEF GateTold

(* The gate is told all it must know of every party and any lines: nobody  *)
(* outside a limit slips through, no warning is false, the form says what  *)
(* the gate does, and enough people sign (waiver-rules, waiver-views).     *)
THEOREM GateKnows == GateSpec => []GateTold
<1>1. GateInv => GateTold BY GateInvImplies
<1> QED BY <1>1, GateInitially, GateStep, PTL DEF GateSpec

-----------------------------------------------------------------------------
(* Reminders: the invariant, part by part.                                 *)

Sweep == [todo : SUBSET Listed, step : {"next", "mark", "nudge", "markNudge"}, row : SUBSET Listed, missing : BOOLEAN]

RemindersTyped ==
  /\ visitOn \in [Guests -> 0..LastDay] /\ bookingStatus \in [Guests -> {"confirmed", "cancelled"}]
  /\ unsigned \in [Guests -> BOOLEAN] /\ marked \in [Guests -> BOOLEAN] /\ nudgeMark \in [Guests -> BOOLEAN]
  /\ date \in 0..LastDay /\ evening \in BOOLEAN
  /\ reminders \in [Guests -> Nat] /\ nudges \in [Guests -> Nat] /\ excuse \subseteq Guests
  /\ sweep \in [Sweeps -> Sweep]

(* A sweep has one row in hand or none, and a booking on its list once.    *)
ListSound(w) ==
  /\ sweep[w].step = "next" => sweep[w].row = {}
  /\ sweep[w].step # "next" => \E r \in Listed : sweep[w].row = {r}
  /\ \A r \in sweep[w].todo : \A s \in sweep[w].todo : r.guest = s.guest => r = s
  /\ \A r \in sweep[w].todo : \A s \in sweep[w].row : r.guest # s.guest

Holds(w, g) == \E r \in sweep[w].row : r.guest = g

(* A booking no two sweeps had and whose marks were written: whoever lists *)
(* it has sent nothing yet, and what was sent is marked or about to be.    *)
GuestSound(g) ==
  /\ \A v, w \in Sweeps : InHand(v, g) /\ InHand(w, g) => v = w
  /\ reminders[g] <= 1 /\ nudges[g] <= 1
  /\ \A w \in Sweeps : \A r \in sweep[w].todo : r.guest = g => reminders[g] = 0 /\ (~r.nudged => nudges[g] = 0)
  /\ \A w \in Sweeps : \A r \in sweep[w].row :
       r.guest = g /\ sweep[w].step \in {"mark", "nudge"} /\ ~r.nudged => nudges[g] = 0
  /\ reminders[g] > 0 /\ ~marked[g] => \E w \in Sweeps : sweep[w].step = "mark" /\ Holds(w, g)
  /\ nudges[g] > 0 /\ ~nudgeMark[g] => \E w \in Sweeps : sweep[w].step = "markNudge" /\ Holds(w, g)

RemindersInv ==
  /\ RemindersTyped
  /\ \A w \in Sweeps : ListSound(w)
  /\ \A g \in Guests \ excuse : GuestSound(g)

-----------------------------------------------------------------------------
(* Reminders: step by step.                                                *)

LEMMA RemindersInitially == RemindersInit => RemindersInv
<1> SUFFICES ASSUME RemindersInit PROVE RemindersInv OBVIOUS
<1>1. RemindersTyped
  <2>1. 0 \in 0..LastDay BY RemindersAssumption
  <2>2. visitOn \in [Guests -> 0..LastDay]
    <3>1. 1 \in 0..LastDay BY RemindersAssumption
    <3> QED BY <3>1 DEF RemindersInit
  <2>3. sweep \in [Sweeps -> Sweep] BY DEF RemindersInit, Sweep, NoSweep
  <2>4. date \in 0..LastDay /\ evening \in BOOLEAN BY <2>1, Zenon DEF RemindersInit
  <2>5. bookingStatus \in [Guests -> {"confirmed", "cancelled"}] BY DEF RemindersInit
  <2> QED BY <2>2, <2>3, <2>4, <2>5 DEF RemindersInit, RemindersTyped
<1>2. \A w \in Sweeps : ListSound(w) BY DEF RemindersInit, ListSound, NoSweep
<1>3. \A g \in Guests : GuestSound(g) BY DEF RemindersInit, GuestSound, NoSweep, InHand
<1> QED BY <1>1, <1>2, <1>3 DEF RemindersInv

(* One sweep moves, from its record to s.                                  *)
LEMMA SweepMoves ==
  ASSUME RemindersInv, NEW w \in Sweeps, NEW s \in Sweep, SetSweep(w, s), UNCHANGED Rows,
         marked' \in [Guests -> BOOLEAN], nudgeMark' \in [Guests -> BOOLEAN],
         reminders' \in [Guests -> Nat], nudges' \in [Guests -> Nat], excuse \subseteq excuse', excuse' \subseteq Guests
  PROVE  /\ sweep'[w] = s /\ \A v \in Sweeps \ {w} : sweep'[v] = sweep[v]
         /\ RemindersTyped' /\ (ListSound(w)' => \A v \in Sweeps : ListSound(v)')
         /\ \A g \in Guests \ excuse' : GuestSound(g)
<1>1. sweep'[w] = s /\ \A v \in Sweeps \ {w} : sweep'[v] = sweep[v] BY DEF SetSweep, RemindersInv, RemindersTyped
<1>2. RemindersTyped' BY DEF RemindersInv, RemindersTyped, SetSweep, Rows
<1>3. \A v \in Sweeps \ {w} : ListSound(v)' BY <1>1 DEF RemindersInv, ListSound
<1> QED BY <1>1, <1>2, <1>3 DEF RemindersInv

LEMMA ListKept == ASSUME RemindersInv, NEW w \in Sweeps, sendDueReminders(w) PROVE RemindersInv'
<1> DEFINE s == [NoSweep EXCEPT !.todo = {[guest |-> g, nudged |-> nudgeMark[g]] : g \in dueReminders}]
<1>0. dueReminders \subseteq Guests /\ \A g \in dueReminders : ~marked[g] BY DEF dueReminders
<1>1. s.todo = {[guest |-> g, nudged |-> nudgeMark[g]] : g \in dueReminders} /\ s.row = {} /\ s.step = "next"
  BY DEF NoSweep
<1>2. s.todo \subseteq Listed BY <1>0, <1>1 DEF RemindersInv, RemindersTyped, Listed
<1>3. s \in Sweep BY <1>2 DEF Sweep, NoSweep
<1>4. /\ sweep[w] = NoSweep /\ SetSweep(w, s) /\ UNCHANGED <<Rows, marked, nudgeMark, reminders, nudges>>
      /\ excuse' = excuse \cup {g \in dueReminders : \E v \in Sweeps \ {w} : InHand(v, g)}
  BY DEF sendDueReminders
<1> HIDE DEF s
<1>5. /\ sweep'[w] = s /\ \A v \in Sweeps \ {w} : sweep'[v] = sweep[v]
      /\ RemindersTyped' /\ (ListSound(w)' => \A v \in Sweeps : ListSound(v)')
      /\ \A g \in Guests \ excuse' : GuestSound(g)
  BY <1>0, <1>3, <1>4, SweepMoves DEF RemindersInv, RemindersTyped
<1>6. ListSound(w)' BY <1>1, <1>5 DEF ListSound
<1>7. ASSUME NEW g \in Guests \ excuse' PROVE GuestSound(g)'
  <2>1. GuestSound(g) /\ ~ InHand(w, g) BY <1>4, <1>5 DEF InHand, NoSweep
  <2>2. \A v \in Sweeps \ {w} : (InHand(v, g)' <=> InHand(v, g)) /\ (Holds(v, g)' <=> Holds(v, g))
    BY <1>5 DEF InHand, Holds
  <2>3. InHand(w, g)' => g \in dueReminders /\ \A v \in Sweeps : ~ InHand(v, g)
    <3>1. InHand(w, g)' => g \in dueReminders BY <1>1, <1>5 DEF InHand
    <3> QED BY <1>4, <2>1, <3>1
  <2>4. \A v, u \in Sweeps : InHand(v, g)' /\ InHand(u, g)' => v = u BY <2>1, <2>2, <2>3 DEF GuestSound
  <2>5. (\A v \in Sweeps : ~ InHand(v, g)) => \A v \in Sweeps : ~ Holds(v, g) BY DEF InHand, Holds
  <2>6. g \in dueReminders /\ InHand(w, g)' => reminders[g] = 0 /\ (~nudgeMark[g] => nudges[g] = 0)
    <3>1. reminders[g] \in Nat /\ nudges[g] \in Nat BY DEF RemindersInv, RemindersTyped
    <3> QED BY <1>0, <2>1, <2>3, <2>5, <3>1 DEF GuestSound
  <2>7. \A r \in sweep'[w].todo : r.guest = g => InHand(w, g)' /\ g \in dueReminders /\ r.nudged = nudgeMark[g]
    BY <1>1, <1>5 DEF InHand
  <2>8. \A v \in Sweeps : \A r \in sweep'[v].todo : r.guest = g => reminders'[g] = 0 /\ (~r.nudged => nudges'[g] = 0)
    BY <1>4, <1>5, <2>1, <2>6, <2>7 DEF GuestSound
  <2>9. \A v \in Sweeps : \A r \in sweep'[v].row :
          r.guest = g /\ sweep'[v].step \in {"mark", "nudge"} /\ ~r.nudged => nudges'[g] = 0
    BY <1>1, <1>4, <1>5, <2>1 DEF GuestSound
  <2>10. \A v \in Sweeps : Holds(v, g) => v # w BY <1>4 DEF Holds, NoSweep
  <2> QED BY <1>4, <1>5, <2>1, <2>2, <2>4, <2>8, <2>9, <2>10 DEF GuestSound
<1> QED BY <1>5, <1>6, <1>7 DEF RemindersInv

LEMMA SendKept == ASSUME RemindersInv, NEW w \in Sweeps, sendReminder(w) PROVE RemindersInv'
<1>1. PICK r \in sweep[w].todo, email \in BOOLEAN, wa \in BOOLEAN, counted \in BOOLEAN :
        /\ reminders' = Count(reminders, r.guest, email \/ wa)
        /\ SetSweep(w, [todo |-> sweep[w].todo \ {r}, row |-> {r}, missing |-> counted /\ unsigned[r.guest],
                        step |-> IF Taken(email, wa) THEN "mark" ELSE "nudge"])
  BY DEF sendReminder
<1> DEFINE s == [todo |-> sweep[w].todo \ {r}, row |-> {r}, missing |-> counted /\ unsigned[r.guest],
                 step |-> IF Taken(email, wa) THEN "mark" ELSE "nudge"]
<1>2. sweep[w] \in Sweep /\ sweep[w].step = "next" /\ ListSound(w) BY DEF sendReminder, RemindersInv, RemindersTyped
<1>3. r \in Listed /\ r.guest \in Guests BY <1>2 DEF Sweep, Listed
<1>4. s \in Sweep
  <2>1. (counted /\ unsigned[r.guest]) \in BOOLEAN OBVIOUS
  <2> QED BY <1>2, <1>3, <2>1 DEF Sweep
<1>5. UNCHANGED <<Rows, marked, nudgeMark, nudges, excuse>> BY DEF sendReminder
<1>6. s.todo = sweep[w].todo \ {r} /\ s.row = {r} /\ s.step = (IF email \/ wa THEN "mark" ELSE "nudge") BY DEF Taken
<1>7. reminders' = [reminders EXCEPT ![r.guest] = IF (email \/ wa) /\ reminders[r.guest] < 2 THEN reminders[r.guest] + 1
                                                  ELSE reminders[r.guest]]
  BY <1>1 DEF Count
<1>8. SetSweep(w, s) BY <1>1
<1> HIDE DEF s
<1>9. reminders' \in [Guests -> Nat] BY <1>3, <1>7 DEF RemindersInv, RemindersTyped
<1>10. /\ sweep'[w] = s /\ \A v \in Sweeps \ {w} : sweep'[v] = sweep[v]
       /\ RemindersTyped' /\ (ListSound(w)' => \A v \in Sweeps : ListSound(v)')
       /\ \A g \in Guests \ excuse' : GuestSound(g)
  BY <1>4, <1>5, <1>8, <1>9, SweepMoves DEF RemindersInv, RemindersTyped
<1>11. ListSound(w)' BY <1>2, <1>3, <1>6, <1>10 DEF ListSound
<1>12. ASSUME NEW g \in Guests \ excuse' PROVE GuestSound(g)'
  <2>1. GuestSound(g) /\ reminders[g] \in Nat /\ nudges[g] \in Nat BY <1>10 DEF RemindersInv, RemindersTyped
  <2>2. \A v \in Sweeps : InHand(v, g)' => InHand(v, g) BY <1>6, <1>10 DEF InHand
  <2>3. CASE g # r.guest
    <3>1. reminders'[g] = reminders[g] BY <1>3, <1>7, <2>3 DEF RemindersInv, RemindersTyped
    <3>2. \A v \in Sweeps : Holds(v, g) => v # w BY <1>2 DEF Holds, ListSound
    <3>3. \A v \in Sweeps \ {w} : Holds(v, g)' <=> Holds(v, g) BY <1>10 DEF Holds
    <3> QED BY <1>5, <1>6, <1>10, <2>1, <2>2, <2>3, <3>1, <3>2, <3>3 DEF GuestSound
  <2>4. CASE g = r.guest
    <3>1. reminders[g] = 0 /\ (~r.nudged => nudges[g] = 0) BY <2>1, <2>4 DEF GuestSound
    <3>2. reminders'[g] = IF email \/ wa THEN 1 ELSE 0 BY <1>7, <2>4, <3>1 DEF RemindersInv, RemindersTyped
    <3>3. \A v \in Sweeps \ {w} : ~ InHand(v, g) BY <2>1, <2>4 DEF GuestSound, InHand
    <3>4. \A v \in Sweeps : \A q \in sweep'[v].todo : q.guest # g
      <4>1. \A q \in s.todo : q.guest # g BY <1>2, <1>6, <2>4 DEF ListSound
      <4> QED BY <1>10, <3>3, <4>1 DEF InHand
    <3>5. \A v \in Sweeps : \A q \in sweep'[v].row : q.guest = g => q = r /\ v = w
      BY <1>6, <1>10, <3>3 DEF InHand
    <3>6. Holds(w, g)' BY <1>6, <1>10, <2>4 DEF Holds
    <3>7. \A v \in Sweeps : Holds(v, g) => FALSE
      BY <1>2, <3>3 DEF Holds, InHand, ListSound
    <3>8. reminders'[g] > 0 => sweep'[w].step = "mark" BY <1>6, <1>10, <3>2
    <3> QED BY <1>5, <2>1, <2>2, <3>1, <3>2, <3>4, <3>5, <3>6, <3>7, <3>8 DEF GuestSound
  <2> QED BY <2>3, <2>4
<1> QED BY <1>10, <1>11, <1>12 DEF RemindersInv

LEMMA MarkKept == ASSUME RemindersInv, NEW w \in Sweeps, MarkReminded(w) PROVE RemindersInv'
<1> DEFINE s == [sweep[w] EXCEPT !.step = "nudge"]
<1>1. PICK r \in sweep[w].row : marked' = [marked EXCEPT ![r.guest] = TRUE] BY DEF MarkReminded
<1>2. sweep[w] \in Sweep /\ sweep[w].step = "mark" /\ ListSound(w) BY DEF MarkReminded, RemindersInv, RemindersTyped
<1>3. r \in Listed /\ r.guest \in Guests /\ sweep[w].row = {r} BY <1>2 DEF Sweep, Listed, ListSound
<1>4. s \in Sweep /\ s.todo = sweep[w].todo /\ s.row = {r} /\ s.step = "nudge" BY <1>2, <1>3 DEF Sweep
<1>5. UNCHANGED <<Rows, nudgeMark, reminders, nudges, excuse>> /\ SetSweep(w, s) BY DEF MarkReminded
<1> HIDE DEF s
<1>6. marked' \in [Guests -> BOOLEAN] BY <1>1 DEF RemindersInv, RemindersTyped
<1>10. /\ sweep'[w] = s /\ \A v \in Sweeps \ {w} : sweep'[v] = sweep[v]
       /\ RemindersTyped' /\ (ListSound(w)' => \A v \in Sweeps : ListSound(v)')
       /\ \A g \in Guests \ excuse' : GuestSound(g)
  BY <1>4, <1>5, <1>6, SweepMoves DEF RemindersInv, RemindersTyped
<1>11. ListSound(w)' BY <1>2, <1>3, <1>4, <1>10 DEF ListSound
<1>12. ASSUME NEW g \in Guests \ excuse' PROVE GuestSound(g)'
  <2>1. GuestSound(g) BY <1>10
  <2>2. \A v \in Sweeps : sweep'[v].todo = sweep[v].todo /\ sweep'[v].row = sweep[v].row
    BY <1>3, <1>4, <1>10
  <2>3. \A v \in Sweeps : (InHand(v, g)' <=> InHand(v, g)) /\ (Holds(v, g)' <=> Holds(v, g))
    BY <2>2 DEF InHand, Holds
  <2>4. \A v \in Sweeps : /\ sweep'[v].step \in {"mark", "nudge"} => sweep[v].step \in {"mark", "nudge"}
                          /\ sweep[v].step = "markNudge" => sweep'[v].step = "markNudge"
    BY <1>2, <1>4, <1>10
  <2>5. marked'[g] \/ (~marked[g] /\ \A v \in Sweeps : sweep[v].step = "mark" /\ Holds(v, g) => sweep'[v].step = "mark")
    <3>1. CASE g = r.guest BY <1>1, <3>1 DEF RemindersInv, RemindersTyped
    <3>2. CASE g # r.guest
      <4>1. ~ Holds(w, g) BY <1>3, <3>2 DEF Holds
      <4>2. marked'[g] = marked[g] BY <1>1, <3>2 DEF RemindersInv, RemindersTyped
      <4> QED BY <1>10, <4>1, <4>2
    <3> QED BY <3>1, <3>2
  <2>6. reminders'[g] > 0 /\ ~marked'[g] => \E v \in Sweeps : sweep'[v].step = "mark" /\ Holds(v, g)'
    BY <1>5, <2>1, <2>3, <2>5 DEF GuestSound
  <2> QED BY <1>5, <2>1, <2>2, <2>3, <2>4, <2>6 DEF GuestSound
<1> QED BY <1>10, <1>11, <1>12 DEF RemindersInv

LEMMA SettledIs ==
  ASSUME NEW w \in Sweeps, sweep[w] \in Sweep
  PROVE  Settled(w) \in Sweep /\ Settled(w).todo = sweep[w].todo /\ Settled(w).row = {} /\ Settled(w).step = "next"
BY DEF Settled, Sweep

(* A row is put away, or its waiver mail goes out and waits to be marked.  *)
LEMMA NudgeKept == ASSUME RemindersInv, NEW w \in Sweeps, sendWaiverLink(w) PROVE RemindersInv'
<1> DEFINE m == [sweep[w] EXCEPT !.step = "markNudge"]
<1>1. PICK r \in sweep[w].row, sent \in BOOLEAN :
        IF NudgeDue(w, r)
        THEN /\ nudges' = Count(nudges, r.guest, sent)
             /\ SetSweep(w, IF sent THEN m ELSE Settled(w))
        ELSE SetSweep(w, Settled(w)) /\ UNCHANGED nudges
  BY DEF sendWaiverLink
<1>2. sweep[w] \in Sweep /\ sweep[w].step = "nudge" /\ ListSound(w) BY DEF sendWaiverLink, RemindersInv, RemindersTyped
<1>3. r \in Listed /\ r.guest \in Guests /\ sweep[w].row = {r} BY <1>2 DEF Sweep, Listed, ListSound
<1>4. m \in Sweep /\ m.todo = sweep[w].todo /\ m.row = {r} /\ m.step = "markNudge" BY <1>2, <1>3 DEF Sweep
<1>5. UNCHANGED <<Rows, marked, nudgeMark, reminders, excuse>> BY DEF sendWaiverLink
<1> HIDE DEF m
<1>6. \/ ~r.nudged /\ SetSweep(w, m) /\ nudges' = [nudges EXCEPT ![r.guest] = IF nudges[r.guest] < 2 THEN nudges[r.guest] + 1
                                                                             ELSE nudges[r.guest]]
      \/ SetSweep(w, Settled(w)) /\ nudges' = nudges
  <2>1. nudges = [nudges EXCEPT ![r.guest] = nudges[r.guest]] BY DEF RemindersInv, RemindersTyped
  <2> QED BY <1>1, <2>1 DEF NudgeDue, Count
<1>7. PICK s \in {m, Settled(w)} :
        /\ SetSweep(w, s)
        /\ \/ s = Settled(w) /\ nudges' = nudges
           \/ /\ s = m /\ ~r.nudged
              /\ nudges' = [nudges EXCEPT ![r.guest] = IF nudges[r.guest] < 2 THEN nudges[r.guest] + 1
                                                       ELSE nudges[r.guest]]
  BY <1>6
<1>8. s \in Sweep /\ s.todo = sweep[w].todo /\ s.row \subseteq {r} /\ s.step \in {"next", "markNudge"}
      /\ (s.step = "next" => s.row = {}) /\ (s.step # "next" => s.row = {r})
  BY <1>2, <1>4, SettledIs
<1>9. nudges' \in [Guests -> Nat] BY <1>3, <1>7 DEF RemindersInv, RemindersTyped
<1>10. /\ sweep'[w] = s /\ \A v \in Sweeps \ {w} : sweep'[v] = sweep[v]
       /\ RemindersTyped' /\ (ListSound(w)' => \A v \in Sweeps : ListSound(v)')
       /\ \A g \in Guests \ excuse' : GuestSound(g)
  BY <1>5, <1>7, <1>8, <1>9, SweepMoves DEF RemindersInv, RemindersTyped
<1>11. ListSound(w)' BY <1>2, <1>3, <1>8, <1>10 DEF ListSound
<1>12. ASSUME NEW g \in Guests \ excuse' PROVE GuestSound(g)'
  <2>1. GuestSound(g) /\ nudges[g] \in Nat BY <1>10 DEF RemindersInv, RemindersTyped
  <2>2. \A v \in Sweeps : InHand(v, g)' => InHand(v, g) BY <1>3, <1>8, <1>10 DEF InHand
  <2>3. \A v \in Sweeps \ {w} : Holds(v, g)' <=> Holds(v, g) BY <1>10 DEF Holds
  <2>4. reminders'[g] > 0 /\ ~marked'[g] => \E v \in Sweeps : sweep'[v].step = "mark" /\ Holds(v, g)'
    BY <1>2, <1>5, <1>10, <2>1, <2>3 DEF GuestSound
  <2>5. CASE g # r.guest \/ s = Settled(w)
    <3>1. nudges'[g] = nudges[g] BY <1>2, <1>4, <1>7, <2>5, SettledIs DEF RemindersInv, RemindersTyped
    <3>2. nudges'[g] > 0 /\ ~nudgeMark'[g] => \E v \in Sweeps : sweep'[v].step = "markNudge" /\ Holds(v, g)'
      BY <1>2, <1>5, <1>10, <2>1, <2>3, <3>1 DEF GuestSound
    <3> QED BY <1>5, <1>8, <1>10, <2>1, <2>2, <2>4, <3>1, <3>2 DEF GuestSound
  <2>6. CASE g = r.guest /\ s = m
    <3>1. ~r.nudged /\ nudges[g] = 0 BY <1>2, <1>3, <1>4, <1>7, <2>1, <2>6, SettledIs DEF GuestSound
    <3>2. nudges'[g] = 1 BY <1>2, <1>4, <1>7, <2>6, <3>1, SettledIs DEF RemindersInv, RemindersTyped
    <3>3. \A v \in Sweeps \ {w} : ~ InHand(v, g) BY <1>3, <2>1, <2>6 DEF GuestSound, InHand
    <3>4. \A v \in Sweeps : \A q \in sweep'[v].todo : q.guest # g
      BY <1>2, <1>3, <1>8, <1>10, <2>6, <3>3 DEF ListSound, InHand
    <3>5. \A v \in Sweeps : \A q \in sweep'[v].row : q.guest = g => v = w BY <1>10, <3>3 DEF InHand
    <3>6. Holds(w, g)' /\ sweep'[w].step = "markNudge" BY <1>4, <1>10, <2>6 DEF Holds
    <3> QED BY <1>5, <2>1, <2>2, <2>4, <3>2, <3>4, <3>5, <3>6 DEF GuestSound
  <2> QED BY <1>7, <2>5, <2>6
<1> QED BY <1>10, <1>11, <1>12 DEF RemindersInv

LEMMA MarkNudgedKept == ASSUME RemindersInv, NEW w \in Sweeps, MarkNudged(w) PROVE RemindersInv'
<1> DEFINE s == Settled(w)
<1>1. PICK r \in sweep[w].row : nudgeMark' = [nudgeMark EXCEPT ![r.guest] = TRUE] BY DEF MarkNudged
<1>2. sweep[w] \in Sweep /\ sweep[w].step = "markNudge" /\ ListSound(w) BY DEF MarkNudged, RemindersInv, RemindersTyped
<1>3. r \in Listed /\ r.guest \in Guests /\ sweep[w].row = {r} BY <1>2 DEF Sweep, Listed, ListSound
<1>4. s \in Sweep /\ s.todo = sweep[w].todo /\ s.row = {} /\ s.step = "next" BY <1>2, SettledIs
<1>5. UNCHANGED <<Rows, marked, reminders, nudges, excuse>> /\ SetSweep(w, s) BY DEF MarkNudged
<1> HIDE DEF s
<1>6. nudgeMark' \in [Guests -> BOOLEAN] BY <1>1 DEF RemindersInv, RemindersTyped
<1>10. /\ sweep'[w] = s /\ \A v \in Sweeps \ {w} : sweep'[v] = sweep[v]
       /\ RemindersTyped' /\ (ListSound(w)' => \A v \in Sweeps : ListSound(v)')
       /\ \A g \in Guests \ excuse' : GuestSound(g)
  BY <1>4, <1>5, <1>6, SweepMoves DEF RemindersInv, RemindersTyped
<1>11. ListSound(w)' BY <1>2, <1>4, <1>10 DEF ListSound
<1>12. ASSUME NEW g \in Guests \ excuse' PROVE GuestSound(g)'
  <2>1. GuestSound(g) BY <1>10
  <2>2. \A v \in Sweeps : InHand(v, g)' => InHand(v, g) BY <1>4, <1>10 DEF InHand
  <2>3. \A v \in Sweeps \ {w} : Holds(v, g)' <=> Holds(v, g) BY <1>10 DEF Holds
  <2>4. reminders'[g] > 0 /\ ~marked'[g] => \E v \in Sweeps : sweep'[v].step = "mark" /\ Holds(v, g)'
    BY <1>2, <1>5, <1>10, <2>1, <2>3 DEF GuestSound
  <2>5. nudges'[g] > 0 /\ ~nudgeMark'[g] => \E v \in Sweeps : sweep'[v].step = "markNudge" /\ Holds(v, g)'
    <3>1. CASE g = r.guest BY <1>1, <3>1 DEF RemindersInv, RemindersTyped
    <3>2. CASE g # r.guest
      <4>1. ~ Holds(w, g) BY <1>3, <3>2 DEF Holds
      <4>2. nudgeMark'[g] = nudgeMark[g] BY <1>1, <3>2 DEF RemindersInv, RemindersTyped
      <4> QED BY <1>5, <1>10, <2>1, <2>3, <4>1, <4>2 DEF GuestSound
    <3> QED BY <3>1, <3>2
  <2> QED BY <1>4, <1>5, <1>10, <2>1, <2>2, <2>4, <2>5 DEF GuestSound
<1> QED BY <1>10, <1>11, <1>12 DEF RemindersInv

LEMMA FailsKept == ASSUME RemindersInv, NEW w \in Sweeps, SweepFails(w) PROVE RemindersInv'
<1>1. /\ SetSweep(w, NoSweep) /\ excuse' = excuse \cup {r.guest : r \in sweep[w].row}
      /\ UNCHANGED <<Rows, marked, nudgeMark, reminders, nudges>>
  BY DEF SweepFails
<1>2. sweep[w] \in Sweep BY DEF RemindersInv, RemindersTyped
<1>3. excuse' \subseteq Guests BY <1>1, <1>2 DEF RemindersInv, RemindersTyped, Sweep, Listed
<1>4. NoSweep \in Sweep /\ NoSweep.todo = {} /\ NoSweep.row = {} /\ NoSweep.step = "next" BY DEF NoSweep, Sweep
<1>10. /\ sweep'[w] = NoSweep /\ \A v \in Sweeps \ {w} : sweep'[v] = sweep[v]
       /\ RemindersTyped' /\ (ListSound(w)' => \A v \in Sweeps : ListSound(v)')
       /\ \A g \in Guests \ excuse' : GuestSound(g)
  BY <1>1, <1>3, <1>4, SweepMoves DEF RemindersInv, RemindersTyped
<1>11. ListSound(w)' BY <1>4, <1>10 DEF ListSound
<1>12. ASSUME NEW g \in Guests \ excuse' PROVE GuestSound(g)'
  <2>1. GuestSound(g) BY <1>10
  <2>2. \A v \in Sweeps : InHand(v, g)' => InHand(v, g) BY <1>4, <1>10 DEF InHand
  <2>3. \A v \in Sweeps \ {w} : Holds(v, g)' <=> Holds(v, g) BY <1>10 DEF Holds
  <2>4. ~ Holds(w, g) BY <1>1 DEF Holds
  <2> QED BY <1>1, <1>4, <1>10, <2>1, <2>2, <2>3, <2>4 DEF GuestSound
<1> QED BY <1>10, <1>11, <1>12 DEF RemindersInv

LEMMA AroundRemindersKept ==
  ASSUME RemindersInv,
         (\E g \in Guests : moveVisit(g) \/ cancelVisit(g) \/ signWaivers(g)) \/ HoursPass \/ UNCHANGED reminderVars
  PROVE  RemindersInv'
<1>1. UNCHANGED <<marked, nudgeMark, sweep, reminders, nudges, excuse>>
  BY DEF moveVisit, cancelVisit, signWaivers, HoursPass, reminderVars
<1>2. RemindersTyped'
  <2>1. visitOn' \in [Guests -> 0..LastDay] BY DEF RemindersInv, RemindersTyped, moveVisit, cancelVisit, signWaivers, HoursPass, reminderVars
  <2>2. bookingStatus' \in [Guests -> {"confirmed", "cancelled"}] /\ unsigned' \in [Guests -> BOOLEAN]
    BY DEF RemindersInv, RemindersTyped, moveVisit, cancelVisit, signWaivers, HoursPass, reminderVars
  <2>3. date' \in 0..LastDay
    BY RemindersAssumption DEF RemindersInv, RemindersTyped, moveVisit, cancelVisit, signWaivers, HoursPass, reminderVars
  <2>4. evening' \in BOOLEAN
    BY DEF RemindersInv, RemindersTyped, moveVisit, cancelVisit, signWaivers, HoursPass, reminderVars
  <2> QED BY <1>1, <2>1, <2>2, <2>3, <2>4 DEF RemindersInv, RemindersTyped
<1> QED BY <1>1, <1>2 DEF RemindersInv, ListSound, GuestSound, InHand, Holds

LEMMA RemindersStep == RemindersInv /\ [RemindersNext]_reminderVars => RemindersInv'
BY ListKept, SendKept, MarkKept, NudgeKept, MarkNudgedKept, FailsKept, AroundRemindersKept DEF RemindersNext

LEMMA RemindersInvImplies == RemindersInv => RemindersTypeOK /\ OneOfEach
<1> SUFFICES ASSUME RemindersInv PROVE RemindersTypeOK /\ OneOfEach OBVIOUS
<1>1. OneOfEach BY DEF RemindersInv, GuestSound, OneOfEach
<1>2. ASSUME NEW w \in Sweeps
      PROVE  /\ sweep[w].todo \subseteq Listed /\ sweep[w].row \subseteq Listed
             /\ sweep[w].step \in {"next", "mark", "nudge", "markNudge"}
             /\ Cardinality(sweep[w].row) = (IF sweep[w].step = "next" THEN 0 ELSE 1)
  <2>1. sweep[w] \in Sweep /\ ListSound(w) BY DEF RemindersInv, RemindersTyped
  <2>2. Cardinality(sweep[w].row) = (IF sweep[w].step = "next" THEN 0 ELSE 1)
    BY <2>1, FS_EmptySet, FS_Singleton DEF ListSound
  <2> QED BY <2>1, <2>2 DEF Sweep
<1> QED BY <1>1, <1>2 DEF RemindersInv, RemindersTyped, RemindersTypeOK

(* However late a sweep runs and whatever happens to the bookings on its   *)
(* list, a guest is reminded once and sent the waiver mail once, unless    *)
(* sweeps overlap on the booking or a mark cannot be written               *)
(* (guest-messaging.service sendDueReminders, sendReminder).               *)
THEOREM RemindedOnce == RemindersSpec => []OneOfEach
<1>1. RemindersInv => OneOfEach BY RemindersInvImplies
<1> QED BY <1>1, RemindersInitially, RemindersStep, PTL DEF RemindersSpec

-----------------------------------------------------------------------------
(* The board: what a save that nothing crossed will write is the board as  *)
(* it is, but for the activities sent.                                     *)

BoardInv ==
  /\ BoardTypeOK
  /\ parkStatus.state = "open" => parkStatus.paused = {}
  /\ \A o \in Operators : input[o] # {} /\ o \notin crossed =>
       \A a \in Activities \ input[o] : saving[o][a] = board[a]

LEMMA BoardInitially == BoardInit => BoardInv
<1> SUFFICES ASSUME BoardInit PROVE BoardInv OBVIOUS
<1>1. Idle \in [Activities -> Notes] BY LiveBoardAssumption DEF Idle
<1>2. parkStatus \in ParkStatus BY DEF BoardInit, ParkStatus
<1> QED BY <1>1, <1>2 DEF BoardInit, BoardInv, BoardTypeOK

LEMMA BoardStep == BoardInv /\ [BoardNext]_boardVars => BoardInv'
<1> SUFFICES ASSUME BoardInv, [BoardNext]_boardVars PROVE BoardInv' OBVIOUS
<1>0. Idle \in [Activities -> Notes] BY LiveBoardAssumption DEF Idle
<1>1. ASSUME NEW o \in Operators, setLive(o) PROVE BoardInv'
  <2>1. PICK sent \in SUBSET Activities \ {{}}, notes \in [Activities -> Notes] :
          /\ saving' = [saving EXCEPT ![o] = merge(sent, notes)]
          /\ input' = [input EXCEPT ![o] = sent]
    BY <1>1 DEF setLive
  <2>2. merge(sent, notes) \in [Activities -> Notes] /\ \A a \in Activities \ sent : merge(sent, notes)[a] = board[a]
    BY DEF merge, BoardInv, BoardTypeOK
  <2>3. UNCHANGED <<board, parkStatus, crossed>> BY <1>1 DEF setLive
  <2>4. saving'[o] = merge(sent, notes) /\ input'[o] = sent BY <2>1 DEF BoardInv, BoardTypeOK
  <2>5. \A p \in Operators \ {o} : saving'[p] = saving[p] /\ input'[p] = input[p] BY <2>1 DEF BoardInv, BoardTypeOK
  <2>6. BoardTypeOK' BY <2>1, <2>2, <2>3 DEF BoardInv, BoardTypeOK
  <2> QED BY <2>2, <2>3, <2>4, <2>5, <2>6 DEF BoardInv
<1>2. ASSUME NEW o \in Operators, SaveLive(o) PROVE BoardInv'
  <2>1. BoardTypeOK' BY <1>0, <1>2 DEF SaveLive, BoardInv, BoardTypeOK
  <2>2. input'[o] = {} /\ \A p \in Operators \ {o} : input'[p] # {} => p \in crossed'
    BY <1>2 DEF SaveLive, BoardInv, BoardTypeOK
  <2> QED BY <1>2, <2>1, <2>2 DEF SaveLive, BoardInv
<1>3. CASE setStatus
  <2>1. PICK state \in {"open", "partial", "closed"}, paused \in SUBSET Activities :
          parkStatus' = [state |-> stateOf(state, paused),
                         paused |-> IF stateOf(state, paused) = "closed" THEN {} ELSE paused]
    BY <1>3 DEF setStatus
  <2>2. stateOf(state, paused) \in {"open", "partial", "closed"} /\ (stateOf(state, paused) = "open" => paused = {})
    BY DEF stateOf
  <2>3. parkStatus' \in ParkStatus BY <2>1, <2>2 DEF ParkStatus
  <2> QED BY <1>3, <2>1, <2>2, <2>3 DEF setStatus, BoardInv, BoardTypeOK
<1>4. CASE UNCHANGED boardVars BY <1>4 DEF boardVars, BoardInv, BoardTypeOK
<1> QED BY <1>1, <1>2, <1>3, <1>4 DEF BoardNext

LEMMA BoardInvImplies == BoardInv => BoardTypeOK /\ OpenMeansOpen
BY DEF BoardInv, OpenMeansOpen, shownPaused

LEMMA BoardKeeps ==
  BoardInv /\ [BoardNext]_boardVars =>
    [\A a \in Activities : board'[a] # board[a] =>
       \E o \in Operators : input[o] # {} /\ input'[o] = {} /\ (a \in input[o] \/ o \in crossed)]_boardVars
<1> SUFFICES ASSUME BoardInv, BoardNext, NEW a \in Activities, board'[a] # board[a]
             PROVE  \E o \in Operators : input[o] # {} /\ input'[o] = {} /\ (a \in input[o] \/ o \in crossed)
  OBVIOUS
<1>1. PICK o \in Operators : SaveLive(o) BY DEF BoardNext, setLive, setStatus
<1>2. input[o] # {} /\ board' = saving[o] /\ input'[o] = {} BY <1>1 DEF SaveLive, BoardInv, BoardTypeOK
<1>3. a \in input[o] \/ o \in crossed BY <1>2 DEF BoardInv
<1> QED BY <1>2, <1>3

-----------------------------------------------------------------------------
(* The rates: the bank's page is never older than the table, and the next  *)
(* fetch is due no sooner than the retry period after the last one.        *)

RatesInv ==
  /\ RatesTypeOK /\ AsOfTrue /\ mishap = {}
  /\ \A c \in Currencies : table[c] <= page[c]
  /\ ~live /\ ~failed => nextFetch = 0
  /\ live \/ failed => ended + Retry <= nextFetch

LEMMA NewestIs ==
  ASSUME page \in [Currencies -> Dates]
  PROVE  newest \in Dates /\ \A c \in Currencies : page[c] <= newest
<1> DEFINE P == {page[c] : c \in Currencies}
<1>1. IsFiniteSet(P) BY RatesAssumption, ImageFinite
<1>2. P # {} /\ P \subseteq Dates BY RatesAssumption
<1>3. \A x \in P : x \in Int BY <1>2 DEF Dates
<1>4. Max(P) \in P /\ \A y \in P : y <= Max(P)
  <2> HIDE DEF P
  <2> QED BY <1>1, <1>2, <1>3, MaxIs
<1> QED BY <1>2, <1>4 DEF newest

LEMMA RatesInitially == RatesInit => RatesInv
<1> SUFFICES ASSUME RatesInit PROVE RatesInv OBVIOUS
<1>1. 0 \in Dates /\ 0 \in 0..MaxClock /\ 0 \in 0..(MaxClock + Refresh) BY RatesAssumption DEF Dates
<1>2. RatesTypeOK
  <2>1. live \in BOOLEAN /\ inflight \in BOOLEAN /\ failed \in BOOLEAN BY Zenon DEF RatesInit
  <2> QED BY <1>1, <2>1 DEF RatesInit, RatesTypeOK
<1>3. AsOfTrue BY DEF RatesInit, AsOfTrue
<1> QED BY <1>2, <1>3 DEF RatesInit, RatesInv

(* What a fetch writes.                                                    *)
LEMMA MergedIs ==
  ASSUME RatesInv, parsed # {}
  PROVE  /\ merged \in [Currencies -> Dates] /\ newest \in Dates
         /\ \A c \in Currencies : table[c] <= merged[c] /\ merged[c] <= page[c] /\ merged[c] <= newest
         /\ newest \in {merged[Usd], merged[Eur]}
<1>1. /\ page \in [Currencies -> Dates] /\ table \in [Currencies -> Dates]
      /\ \A c \in Currencies : table[c] <= page[c]
  BY DEF RatesInv, RatesTypeOK
<1>2. newest \in Dates /\ \A c \in Currencies : page[c] <= newest BY <1>1, NewestIs
<1>3. merged \in [Currencies -> Dates] BY <1>1 DEF merged
<1>4. \A c \in Currencies : page[c] \in Int /\ table[c] \in Int /\ newest \in Int BY <1>1, <1>2 DEF Dates
<1>5. ASSUME NEW c \in Currencies PROVE table[c] <= merged[c] /\ merged[c] <= page[c] /\ merged[c] <= newest
  <2>1. merged[c] = page[c] \/ merged[c] = table[c] BY DEF merged
  <2> QED BY <1>1, <1>2, <1>4, <2>1
<1>6. parsed = rowsOfNewest /\ rowsOfNewest \cap {Usd, Eur} # {} BY DEF parsed
<1>7. PICK c \in {Usd, Eur} : c \in rowsOfNewest BY <1>6
<1>8. merged[c] = newest BY <1>6, <1>7, RatesAssumption DEF merged, rowsOfNewest
<1> QED BY <1>2, <1>3, <1>5, <1>7, <1>8

LEMMA RatesStep == RatesInv /\ [RatesNext]_ratesVars => RatesInv'
<1> SUFFICES ASSUME RatesInv, [RatesNext]_ratesVars PROVE RatesInv' OBVIOUS
<1> USE RatesAssumption
<1>0. /\ clock \in Nat /\ clock <= MaxClock /\ nextFetch \in Nat /\ nextFetch <= MaxClock + Refresh
      /\ ended \in Nat /\ ended <= MaxClock
  BY DEF RatesInv, RatesTypeOK
<1>1. ASSUME NEW v \in Visitors, rates(v) PROVE RatesInv'
  <2>1. UNCHANGED <<page, table, asOf, live, nextFetch, clock, failed, ended>> BY <1>1 DEF rates
  <2>2. ~(~inflight /\ (live \/ failed) /\ clock >= nextFetch /\ clock < ended + Retry)
    BY <1>0 DEF RatesInv
  <2>3. ~(clock >= nextFetch) => live \/ failed BY <1>0 DEF RatesInv
  <2>4. mishap' = {} BY <1>1, <2>2, <2>3 DEF rates, RatesInv
  <2>5. waiting' \subseteq Visitors /\ (waiting' # {} => inflight') /\ inflight' \in BOOLEAN
    BY <1>1 DEF rates, RatesInv, RatesTypeOK
  <2> QED BY <2>1, <2>4, <2>5 DEF RatesInv, RatesTypeOK, AsOfTrue
<1>2. CASE refresh
  <2>1. /\ parsed # {} /\ table' = merged /\ asOf' = newest /\ live' = TRUE /\ inflight' = FALSE
        /\ waiting' = {} /\ ended' = clock /\ UNCHANGED <<page, clock, failed, mishap>>
        /\ nextFetch' = clock + (IF parsed = Currencies THEN Refresh ELSE Retry)
    BY <1>2 DEF refresh
  <2>2. nextFetch' \in 0..(MaxClock + Refresh) /\ ended' \in 0..MaxClock /\ ended' + Retry <= nextFetch'
    <3>1. nextFetch' \in {clock + Refresh, clock + Retry} BY <2>1
    <3>2. ended' = clock BY <2>1
    <3> HIDE DEF refresh
    <3> QED BY <1>0, <3>1, <3>2
  <2>3. live' \in BOOLEAN /\ inflight' \in BOOLEAN BY <2>1, Zenon
  <2>4. RatesTypeOK' BY <2>1, <2>2, <2>3, MergedIs DEF RatesInv, RatesTypeOK
  <2>5. AsOfTrue'
    <3>1. parsed = Currencies => \A c \in Currencies : merged[c] = newest BY DEF parsed, rowsOfNewest, merged
    <3>2. parsed # Currencies => nextFetch' <= ended' + Retry BY <1>0, <2>1
    <3> HIDE DEF refresh
    <3> QED BY <2>1, <3>1, <3>2, MergedIs DEF AsOfTrue
  <2>6. \A c \in Currencies : table'[c] <= page'[c] BY <2>1, MergedIs
  <2> QED BY <2>1, <2>2, <2>4, <2>5, <2>6 DEF RatesInv
<1>3. CASE FetchFails
  <2>1. /\ nextFetch' = clock + Retry /\ failed' = TRUE /\ inflight' = FALSE /\ waiting' = {} /\ ended' = clock
        /\ UNCHANGED <<page, table, asOf, live, clock, mishap>>
    BY <1>3 DEF FetchFails
  <2>2. nextFetch' \in 0..(MaxClock + Refresh) /\ ended' \in 0..MaxClock /\ ended' + Retry <= nextFetch' BY <1>0, <2>1
  <2>3. failed' \in BOOLEAN /\ inflight' \in BOOLEAN BY <2>1, Zenon
  <2> QED BY <2>1, <2>2, <2>3 DEF RatesInv, RatesTypeOK, AsOfTrue
<1>4. CASE Post
  <2>1. PICK c \in Currencies, d \in Dates : d > page[c] /\ page' = [page EXCEPT ![c] = d] BY <1>4 DEF Post
  <2>2. UNCHANGED <<table, asOf, live, nextFetch, inflight, clock, waiting, failed, ended, mishap>> BY <1>4 DEF Post
  <2>3. page' \in [Currencies -> Dates] BY <2>1 DEF RatesInv, RatesTypeOK
  <2>4. ASSUME NEW e \in Currencies PROVE table'[e] <= page'[e]
    <3>1. table[e] <= page[e] /\ table[e] \in Int /\ page[e] \in Int /\ d \in Int
      BY DEF RatesInv, RatesTypeOK, Dates
    <3>2. page'[e] = d \/ page'[e] = page[e] BY <2>1 DEF RatesInv, RatesTypeOK
    <3>3. page'[e] # page[e] => page'[e] = d /\ d > page[e] BY <2>1, <3>2 DEF RatesInv, RatesTypeOK
    <3> QED BY <2>2, <3>1, <3>3
  <2> QED BY <2>2, <2>3, <2>4 DEF RatesInv, RatesTypeOK, AsOfTrue
<1>5. CASE RatesTick
  BY <1>0, <1>5 DEF RatesTick, RatesInv, RatesTypeOK, AsOfTrue
<1>6. CASE UNCHANGED ratesVars BY <1>6 DEF ratesVars, RatesInv, RatesTypeOK, AsOfTrue
<1> QED BY <1>1, <1>2, <1>3, <1>4, <1>5, <1>6 DEF RatesNext

LEMMA RatesInvImplies == RatesInv => RatesTypeOK /\ AsOfTrue /\ FirstWait /\ BankSpared
BY DEF RatesInv, FirstWait, BankSpared

LEMMA RatesKeep == RatesInv /\ [RatesNext]_ratesVars => [\A c \in Currencies : table'[c] >= table[c]]_ratesVars
<1> SUFFICES ASSUME RatesInv, RatesNext, NEW c \in Currencies PROVE table'[c] >= table[c] OBVIOUS
<1>1. table[c] \in Int BY DEF RatesInv, RatesTypeOK, Dates
<1>2. table' = table \/ (parsed # {} /\ table' = merged)
  BY DEF RatesNext, rates, refresh, FetchFails, Post, RatesTick
<1>3. CASE table' = table BY <1>1, <1>3
<1>4. CASE parsed # {} /\ table' = merged
  <2>1. merged[c] \in Int /\ table[c] <= merged[c] BY <1>4, MergedIs DEF Dates
  <2> QED BY <1>1, <1>4, <2>1
<1> QED BY <1>2, <1>3, <1>4

-----------------------------------------------------------------------------
(* The weather and the catalog: the one fetch in progress began after the  *)
(* view kept was read, and a catalog is kept since when its build, or one  *)
(* that overtook it, ended.                                                *)

ForecastInv ==
  /\ ForecastTypeOK /\ slip = {}
  /\ \A b, c \in fetches : b = c
  /\ weather # Never => weather <= now /\ \A b \in fetches : weather <= b
  /\ \A b \in fetches : b <= now
  /\ \A r \in Readers : build[r] # Never => build[r] <= now /\ now <= build[r] + MaxWait
  /\ catalogAt # Never => /\ catalog \in Ticks /\ catalogAt <= now
                          /\ catalogAt <= catalog + MaxWait

LEMMA ForecastInitially == ForecastInit => ForecastInv
BY ForecastAssumption DEF ForecastInit, ForecastInv, ForecastTypeOK, Ticks, Never

LEMMA ForecastStep == ForecastInv /\ [ForecastNext]_forecastVars => ForecastInv'
<1> SUFFICES ASSUME ForecastInv, [ForecastNext]_forecastVars PROVE ForecastInv' OBVIOUS
<1> USE ForecastAssumption
<1>0. now \in Nat /\ now <= MaxTick /\ Never = MaxTick + 1 BY DEF ForecastInv, ForecastTypeOK, Ticks, Never
<1>1. ASSUME NEW r \in Readers, current(r) PROVE ForecastInv'
  BY <1>0, <1>1 DEF current, ForecastInv, ForecastTypeOK, Ticks
<1>2. ASSUME NEW r \in Readers, loadRows(r) PROVE ForecastInv'
  BY <1>0, <1>2 DEF loadRows, ForecastInv, ForecastTypeOK, Ticks
<1>3. ASSUME NEW r \in Readers, getCatalog(r) PROVE ForecastInv'
  BY <1>0, <1>3 DEF getCatalog, ForecastInv, ForecastTypeOK, Ticks
<1>4. ASSUME NEW r \in Readers, CatalogHit(r) PROVE ForecastInv'
  <2>1. ~ (now - catalog > CacheAge + MaxWait)
    BY <1>0, <1>4 DEF CatalogHit, Kept, ForecastInv, ForecastTypeOK, Ticks
  <2> QED BY <1>4, <2>1 DEF CatalogHit, ForecastInv, ForecastTypeOK
<1>5. CASE fetchFresh
  BY <1>0, <1>5 DEF fetchFresh, ForecastInv, ForecastTypeOK, Ticks
<1>6. CASE FetchFailed
  BY <1>0, <1>6 DEF FetchFailed, ForecastInv, ForecastTypeOK
<1>7. CASE Later
  BY <1>0, <1>7 DEF Later, ForecastInv, ForecastTypeOK, Ticks
<1>8. CASE UNCHANGED forecastVars BY <1>8 DEF forecastVars, ForecastInv, ForecastTypeOK, Ticks
<1> QED BY <1>1, <1>2, <1>3, <1>4, <1>5, <1>6, <1>7, <1>8 DEF ForecastNext

LEMMA ForecastInvImplies == ForecastInv => ForecastTypeOK /\ CatalogFresh
BY DEF ForecastInv, CatalogFresh

LEMMA WeatherKeeps ==
  ForecastInv /\ [ForecastNext]_forecastVars => [weather # Never => weather' >= weather]_forecastVars
<1> SUFFICES ASSUME ForecastInv, ForecastNext, weather # Never PROVE weather' >= weather OBVIOUS
<1>0. weather \in Int BY DEF ForecastInv, ForecastTypeOK, Ticks
<1>1. CASE fetchFresh BY <1>0, <1>1 DEF fetchFresh, ForecastInv, ForecastTypeOK, Ticks
<1>2. CASE ~ fetchFresh
  <2>1. weather' = weather BY <1>2 DEF ForecastNext, current, loadRows, getCatalog, CatalogHit, FetchFailed, Later
  <2> QED BY <1>0, <2>1
<1> QED BY <1>1, <1>2

-----------------------------------------------------------------------------
(* The day: each behaviour moves one of the parts.                         *)

DayInv == VisitInv /\ PriceInv /\ RemindersInv /\ BoardInv /\ RatesInv /\ ForecastInv /\ GateInv

LEMMA DayParts ==
  [DayNext]_dayVars =>
    /\ [VisitNext]_visitVars /\ [PriceNext]_priceVars /\ [RemindersNext]_reminderVars
    /\ [BoardNext]_boardVars /\ [RatesNext]_ratesVars /\ [ForecastNext]_forecastVars /\ [GateNext]_gateVars
<1> SUFFICES ASSUME [DayNext]_dayVars
             PROVE  /\ [VisitNext]_visitVars /\ [PriceNext]_priceVars /\ [RemindersNext]_reminderVars
                    /\ [BoardNext]_boardVars /\ [RatesNext]_ratesVars /\ [ForecastNext]_forecastVars /\ [GateNext]_gateVars
  OBVIOUS
<1>1. CASE UNCHANGED dayVars BY <1>1 DEF dayVars
<1>2. CASE DayNext BY <1>2 DEF DayNext
<1> QED BY <1>1, <1>2

LEMMA DayInitially == DayInit => DayInv
BY VisitInitially, PriceInitially, RemindersInitially, BoardInitially, RatesInitially, ForecastInitially, GateInitially
   DEF DayInit, DayInv

LEMMA DayStep == DayInv /\ [DayNext]_dayVars => DayInv'
BY DayParts, VisitStep, PriceStep, RemindersStep, BoardStep, RatesStep, ForecastStep, GateStep DEF DayInv

LEMMA DayAlways == DaySpec => []DayInv
BY DayInitially, DayStep, PTL DEF DaySpec

(* No part leaves its types: above all, no amount of a booking falls below *)
(* nothing, and whoever waits for a fetch waits for one under way.         *)
THEOREM DayTypeCorrect == DaySpec => []DayTypeOK
<1>1. DayInv => DayTypeOK
  BY VisitInvImplies, PriceInvImplies, RemindersInvImplies, BoardInvImplies, RatesInvImplies, ForecastInvImplies,
     GateInvImplies DEF DayInv, DayTypeOK
<1> QED BY <1>1, DayAlways, PTL

(* An open park pauses no activity; no rate is newer than the date beside  *)
(* the table, older ones are asked for again after the retry period and not*)
(* before, the bundled table alone shows only after a failed fetch; and no *)
(* catalog is older than its cache allows, whoever fetches, saves or reads *)
(* at the same time (park-status, exchange-rate, catalog).                 *)
THEOREM ShownTrue == DaySpec => []ShownIsTrue
<1>1. DayInv => ShownIsTrue
  BY BoardInvImplies, RatesInvImplies, ForecastInvImplies DEF DayInv, ShownIsTrue
<1> QED BY <1>1, DayAlways, PTL

(* No rate and no weather is replaced by an older one, and a note of the   *)
(* board only by one sent for its activity or by a save that was overtaken *)
(* (live-ops, exchange-rate, weather).                                     *)
THEOREM ShownForward == DaySpec => ShownNeverBack
<1>1. DayInv /\ [DayNext]_dayVars =>
        [\A a \in Activities : board'[a] # board[a] =>
           \E o \in Operators : input[o] # {} /\ input'[o] = {} /\ (a \in input[o] \/ o \in crossed)]_boardVars
  BY DayParts, BoardKeeps DEF DayInv
<1>2. DayInv /\ [DayNext]_dayVars => [\A c \in Currencies : table'[c] >= table[c]]_ratesVars
  BY DayParts, RatesKeep DEF DayInv
<1>3. DayInv /\ [DayNext]_dayVars => [weather # Never => weather' >= weather]_forecastVars
  BY DayParts, WeatherKeeps DEF DayInv
<1>4. DaySpec => BoardKept BY <1>1, DayAlways, PTL DEF DaySpec, BoardKept
<1>5. DaySpec => RatesNeverOlder BY <1>2, DayAlways, PTL DEF DaySpec, RatesNeverOlder
<1>6. DaySpec => WeatherForward BY <1>3, DayAlways, PTL DEF DaySpec, WeatherForward
<1> QED BY <1>4, <1>5, <1>6, PTL DEF ShownNeverBack
=============================================================================
