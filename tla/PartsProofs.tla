---------------------------- MODULE PartsProofs -----------------------------
(***************************************************************************)
(* Inductive invariants of what the park tells: each of these modules has  *)
(* one of its own, that its initial states satisfy (...Initially), every   *)
(* step keeps (...Step), and that says what the module promises (...Safe), *)
(* for every value of the constants.  At the end, lemmas on how the        *)
(* catalog's mappers pick, sort and group rows.                            *)
(***************************************************************************)
EXTENDS Bootstrap, Offsite, Offers, Photos, Messages, Tables, Coupons, Threads, Catalog, SumsProofs, SequenceTheorems
-----------------------------------------------------------------------------
(* The release: how far the script has come, from the files it has left.   *)

Db == [tables : BOOLEAN, content : BOOLEAN, since : SUBSET (1..Migrations), last : 0..Migrations,
       bookings : 0..MaxBooked, payments : Nat, hasPayments : BOOLEAN, linked : BOOLEAN,
       passwords : {"none", "starter", "own"}]
File == [kind : {"schema", "seed", "migration"}, n : Nat]
Script == [at : {"none", "probing", "applying", "ok", "failed"}, flag : Flags, confirmed : BOOLEAN,
           target : Databases, todo : Seq(File), runs : 0..MaxRuns]
Release == [up : BOOLEAN, uses : Databases, production : BOOLEAN]

BootTyped ==
  /\ dbase \in [Databases -> Db] /\ script \in Script /\ api \in Release /\ wiped \subseteq BOOLEAN

(* A database without tables is blank, one without content has nobody's    *)
(* password, and payments come with their table.                           *)
DbSound(d) ==
  /\ ~d.tables => ~d.content /\ d.bookings = 0
  /\ ~d.content => d.passwords = "none"
  /\ ~d.hasPayments => d.payments = 0
  /\ d.linked => d.payments <= d.bookings

FileAt(n) == IF n = 1 THEN Schema ELSE IF n = 2 THEN Seed ELSE Migration(n - 2)
Applied == Migrations + 2 - Len(script.todo)

(* What is left is the end of the list schema, seed, migrations; what is   *)
(* gone has been applied; and without a flag nothing is dropped that is    *)
(* not empty.                                                              *)
Progress(d) ==
  script.at = "applying" =>
    /\ Len(script.todo) <= Migrations + 2
    /\ \A n \in 1..Len(script.todo) : script.todo[n] = FileAt(Applied + n)
    /\ Applied = 0 /\ script.flag = "none" => ~d.tables
    /\ Applied = 1 => d.tables /\ (script.flag = "none" => ~d.content /\ d.bookings = 0)
    /\ Applied >= 2 => /\ d.tables /\ d.content /\ 1..(Applied - 2) \subseteq d.since
                       /\ Applied > 2 => d.last = Applied - 2

BootInv ==
  /\ BootTyped /\ FALSE \notin wiped /\ ReleaseWhole
  /\ \A b \in Databases : DbSound(dbase[b])
  /\ script.at \in {"probing", "applying"} /\ script.flag # "none" => script.confirmed
  /\ Progress(dbase[script.target])

LEMMA BlankIs ==
  /\ Blank \in Db /\ DbSound(Blank)
  /\ \A v : scriptTarget(v) \in Databases /\ apiTarget(v) \in Databases
BY BootstrapAssumption DEF Blank, Db, DbSound, scriptTarget, apiTarget, Databases

LEMMA BootInitially == BootInit => BootInv
<1> SUFFICES ASSUME BootInit PROVE BootInv OBVIOUS
<1>1. NoScript \in Script
  BY BootstrapAssumption DEF NoScript, Script, Flags, Databases
<1>2. NoRelease \in Release BY DEF NoRelease, Release, Databases
<1>3. BootTyped BY <1>1, <1>2, BlankIs DEF BootInit, BootTyped
<1>4. script.at = "none" /\ ~api.up BY DEF BootInit, NoScript, NoRelease
<1>5. ReleaseWhole /\ Progress(dbase[script.target]) BY <1>4 DEF ReleaseWhole, Progress
<1>6. FALSE \notin wiped /\ \A b \in Databases : DbSound(dbase[b]) BY BlankIs DEF BootInit
<1> QED BY <1>3, <1>4, <1>5, <1>6 DEF BootInv

DbFields == {"tables", "content", "since", "last", "bookings", "payments", "hasPayments", "linked", "passwords"}

LEMMA DbIs ==
  ASSUME NEW e, e = [f \in DbFields |-> e[f]],
         e.tables \in BOOLEAN, e.content \in BOOLEAN, e.since \in SUBSET (1..Migrations), e.last \in 0..Migrations,
         e.bookings \in 0..MaxBooked, e.payments \in Nat, e.hasPayments \in BOOLEAN, e.linked \in BOOLEAN,
         e.passwords \in {"none", "starter", "own"}
  PROVE  e \in Db
BY DEF Db, DbFields

(* What each file leaves.                                                  *)
LEMMA SchemaLeaves ==
  ASSUME NEW d \in Db, DbSound(d)
  PROVE  LET e == schemaSql(d) IN
         /\ e \in Db /\ DbSound(e)
         /\ e.tables /\ ~e.content /\ e.bookings = 0 /\ e.passwords = "none"
<1> DEFINE e == schemaSql(d)
<1>1. /\ e.tables = TRUE /\ e.content = FALSE /\ e.since = {} /\ e.last = 0 /\ e.bookings = 0
      /\ e.linked = FALSE /\ e.passwords = "none"
  BY DEF schemaSql, Db
<1>2. e.payments = d.payments /\ e.hasPayments = d.hasPayments BY DEF schemaSql, Db
<1>3. e = [f \in DbFields |-> e[f]] BY Zenon DEF schemaSql, Db, DbFields
<1>4. d.payments \in Nat /\ d.hasPayments \in BOOLEAN BY DEF Db
<1> HIDE DEF e
<1>5. e \in Db
  <2>1. e.tables \in BOOLEAN /\ e.content \in BOOLEAN /\ e.hasPayments \in BOOLEAN /\ e.linked \in BOOLEAN
    BY <1>1, <1>2, <1>4
  <2>2. e.since \in SUBSET (1..Migrations) BY <1>1
  <2>3. e.last \in 0..Migrations /\ e.bookings \in 0..MaxBooked BY <1>1, BootstrapAssumption
  <2>4. e.payments \in Nat BY <1>2, <1>4
  <2>5. e.passwords \in {"none", "starter", "own"} BY <1>1
  <2> QED BY <1>3, <2>1, <2>2, <2>3, <2>4, <2>5, DbIs
<1>6. DbSound(e) BY <1>1, <1>2 DEF DbSound
<1> QED BY <1>1, <1>5, <1>6 DEF e

LEMMA SeedLeaves ==
  ASSUME NEW d \in Db, DbSound(d), d.tables
  PROVE  LET e == seedSql(d) IN
         /\ e \in Db /\ DbSound(e)
         /\ e.tables /\ e.content /\ e.bookings = 0
<1> DEFINE e == seedSql(d)
<1>1. e.content = TRUE /\ e.since = {} /\ e.last = 0 /\ e.bookings = 0 /\ e.passwords = "starter"
  BY DEF seedSql, Db
<1>2. /\ e.tables = d.tables /\ e.hasPayments = d.hasPayments /\ e.linked = d.linked
      /\ e.payments = IF d.linked THEN 0 ELSE d.payments
  BY DEF seedSql, Db
<1>3. e = [f \in DbFields |-> e[f]] BY Zenon DEF seedSql, Db, DbFields
<1>4. d.payments \in Nat /\ d.hasPayments \in BOOLEAN /\ d.linked \in BOOLEAN /\ d.tables \in BOOLEAN BY DEF Db
<1> HIDE DEF e
<1>5. e \in Db
  <2>1. e.tables \in BOOLEAN /\ e.content \in BOOLEAN /\ e.hasPayments \in BOOLEAN /\ e.linked \in BOOLEAN
    BY <1>1, <1>2, <1>4
  <2>2. e.since \in SUBSET (1..Migrations) BY <1>1
  <2>3. e.last \in 0..Migrations /\ e.bookings \in 0..MaxBooked BY <1>1, BootstrapAssumption
  <2>4. e.payments \in Nat BY <1>2, <1>4
  <2>5. e.passwords \in {"none", "starter", "own"} BY <1>1
  <2> QED BY <1>3, <2>1, <2>2, <2>3, <2>4, <2>5, DbIs
<1>6. DbSound(e) BY <1>1, <1>2 DEF DbSound
<1> QED BY <1>1, <1>2, <1>5, <1>6 DEF e

LEMMA MigrationLeaves ==
  ASSUME NEW d \in Db, DbSound(d), NEW n \in 1..Migrations
  PROVE  LET e == migration(d, n) IN
         /\ e \in Db /\ DbSound(e)
         /\ e.tables = d.tables /\ e.content = d.content /\ e.bookings = d.bookings /\ e.passwords = d.passwords
         /\ e.since = d.since \cup {n} /\ e.last = n
<1> DEFINE e == migration(d, n)
<1>1. e.since = d.since \cup {n} /\ e.last = n /\ e.hasPayments = TRUE /\ e.linked = (d.linked \/ ~d.hasPayments)
  BY DEF migration, Db
<1>2. /\ e.tables = d.tables /\ e.content = d.content /\ e.bookings = d.bookings
      /\ e.payments = d.payments /\ e.passwords = d.passwords
  BY DEF migration, Db
<1>3. e = [f \in DbFields |-> e[f]] BY Zenon DEF migration, Db, DbFields
<1>4. /\ d.tables \in BOOLEAN /\ d.content \in BOOLEAN /\ d.since \in SUBSET (1..Migrations)
      /\ d.bookings \in 0..MaxBooked /\ d.payments \in Nat /\ d.passwords \in {"none", "starter", "own"}
  BY DEF Db
<1> HIDE DEF e
<1>5. e \in Db
  <2>1. e.tables \in BOOLEAN /\ e.content \in BOOLEAN /\ e.hasPayments \in BOOLEAN /\ e.linked \in BOOLEAN
    BY <1>1, <1>2, <1>4
  <2>2. e.since \in SUBSET (1..Migrations) BY <1>1, <1>4
  <2>3. e.last \in 0..Migrations /\ e.bookings \in 0..MaxBooked BY <1>1, <1>2, <1>4, BootstrapAssumption
  <2>4. e.payments \in Nat BY <1>2, <1>4
  <2>5. e.passwords \in {"none", "starter", "own"} BY <1>2, <1>4
  <2> QED BY <1>3, <2>1, <2>2, <2>3, <2>4, <2>5, DbIs
<1>6. DbSound(e)
  <2>1. /\ ~d.tables => ~d.content /\ d.bookings = 0
        /\ ~d.content => d.passwords = "none"
    BY DEF DbSound
  <2>2. ASSUME d.linked \/ ~d.hasPayments PROVE d.payments <= d.bookings
    <3>1. d.linked => d.payments <= d.bookings BY DEF DbSound
    <3>2. ~d.hasPayments => d.payments = 0 BY DEF DbSound
    <3> QED BY <1>4, <2>2, <3>1, <3>2, BootstrapAssumption
  <2>3. e.linked => e.payments <= e.bookings BY <1>1, <1>2, <2>2, Zenon
  <2> QED BY <1>1, <1>2, <2>1, <2>3, Zenon DEF DbSound
<1> QED BY <1>1, <1>2, <1>5, <1>6 DEF e

(* The lists of files.                                                     *)
LEMMA PlanIs ==
  ASSUME NEW d \in Db, NEW flag \in Flags
  PROVE  LET todo == plan(d, flag) \o migrations(d) IN
         /\ todo \in Seq(File)
         /\ Len(todo) = Migrations + (IF flag = "reset" \/ ~d.tables THEN 2
                                      ELSE IF flag = "reseed" \/ ~d.content THEN 1 ELSE 0)
         /\ \A n \in 1..Len(todo) : todo[n] = FileAt(Migrations + 2 - Len(todo) + n)
<1>1. Migrations \in Nat \ {0} BY BootstrapAssumption
<1> USE <1>1
<1>2. migrations(d) \in Seq(File) /\ Len(migrations(d)) = Migrations
      /\ \A n \in 1..Migrations : migrations(d)[n] = FileAt(n + 2)
  BY DEF migrations, Migration, File, FileAt
<1>3. /\ Schema \in File /\ Seed \in File /\ FileAt(1) = Schema /\ FileAt(2) = Seed
  BY DEF Schema, Seed, File, FileAt
<1>4. CASE flag = "reset" \/ ~d.tables
  <2>1. plan(d, flag) = <<Schema, Seed>> BY <1>4 DEF plan
  <2> QED BY <1>2, <1>3, <1>4, <2>1
<1>5. CASE ~(flag = "reset" \/ ~d.tables) /\ (flag = "reseed" \/ ~d.content)
  <2>1. plan(d, flag) = <<Seed>> BY <1>5 DEF plan, Flags
  <2> QED BY <1>2, <1>3, <1>5, <2>1
<1>6. CASE ~(flag = "reset" \/ ~d.tables) /\ ~(flag = "reseed" \/ ~d.content)
  <2>1. plan(d, flag) = <<>> BY <1>6 DEF plan, Flags
  <2> QED BY <1>2, <1>3, <1>6, <2>1
<1> QED BY <1>4, <1>5, <1>6

LEMMA StartStep ==
  ASSUME BootInv, NEW v \in Variables, NEW flag \in Flags, NEW confirm \in BOOLEAN, Start(v, flag, confirm)
  PROVE  BootInv'
<1> USE BootstrapAssumption
<1>1. BootTyped /\ FALSE \notin wiped /\ \A b \in Databases : DbSound(dbase[b]) BY DEF BootInv
<1>2. UNCHANGED <<dbase, api, wiped>> BY DEF Start
<1>3. /\ script'.at = (IF flag # "none" /\ ~confirm THEN "failed" ELSE "probing")
      /\ script'.flag = flag /\ script'.confirmed = confirm /\ script' \in Script
  <2>1. scriptTarget(v) \in Databases BY BlankIs
  <2>2. script.runs + 1 \in 0..MaxRuns BY <1>1 DEF Start, BootTyped, Script
  <2>3. <<>> \in Seq(File) OBVIOUS
  <2>4. (IF flag # "none" /\ ~confirm THEN "failed" ELSE "probing") \in {"none", "probing", "applying", "ok", "failed"}
    OBVIOUS
  <2> QED BY <2>1, <2>2, <2>3, <2>4 DEF Start, Script
<1>4. BootTyped' BY <1>1, <1>2, <1>3 DEF BootTyped
<1>5. (script.at \in {"probing", "applying"} /\ script.flag # "none" => script.confirmed)' BY <1>3
<1>6. script'.at \in {"failed", "probing"} BY <1>3
<1>7. ReleaseWhole' BY <1>6 DEF ReleaseWhole
<1>8. Progress(dbase[script.target])' BY <1>6 DEF Progress
<1> QED BY <1>1, <1>2, <1>4, <1>5, <1>7, <1>8 DEF BootInv

LEMMA ProbeStep == ASSUME BootInv, Probe PROVE BootInv'
<1> USE BootstrapAssumption
<1>1. BootTyped /\ FALSE \notin wiped /\ \A b \in Databases : DbSound(dbase[b]) BY DEF BootInv
<1> PICK d \in Db : d = dbase[script.target] BY <1>1 DEF BootTyped, Script
<1>2. UNCHANGED <<dbase, api, wiped>> /\ script.at = "probing" BY DEF Probe
<1>3. script.flag \in Flags /\ script.target \in Databases BY <1>1 DEF BootTyped, Script
<1>4. CASE refuses(d, script.flag)
  <2>1. script' = [script EXCEPT !.at = "failed"] BY <1>4 DEF Probe
  <2>2. script' \in Script /\ script'.at = "failed" BY <1>1, <2>1 DEF BootTyped, Script
  <2>3. ReleaseWhole' /\ Progress(dbase[script.target])' BY <2>2 DEF ReleaseWhole, Progress
  <2> QED BY <1>1, <1>2, <2>2, <2>3 DEF BootInv, BootTyped
<1>5. CASE ~refuses(d, script.flag)
  <2> PICK todo : todo = plan(d, script.flag) \o migrations(d) OBVIOUS
  <2>1. script' = [script EXCEPT !.at = "applying", !.todo = todo] BY <1>5 DEF Probe
  <2>2. /\ todo \in Seq(File)
        /\ Len(todo) = Migrations + (IF script.flag = "reset" \/ ~d.tables THEN 2
                                     ELSE IF script.flag = "reseed" \/ ~d.content THEN 1 ELSE 0)
        /\ \A n \in 1..Len(todo) : todo[n] = FileAt(Migrations + 2 - Len(todo) + n)
    BY <1>3, PlanIs
  <2>3. /\ script' \in Script /\ script'.at = "applying" /\ script'.todo = todo
        /\ script'.flag = script.flag /\ script'.target = script.target /\ script'.confirmed = script.confirmed
    BY <1>1, <2>1, <2>2 DEF BootTyped, Script
  <2>4. ReleaseWhole' BY <2>3 DEF ReleaseWhole
  <2>5. Applied' = Migrations + 2 - Len(todo) /\ dbase'[script'.target] = d BY <1>2, <2>3 DEF Applied
  <2>6. Progress(dbase[script.target])'
    <3>1. Len(todo) <= Migrations + 2 BY <2>2
    <3>2. Applied' = 0 /\ script.flag = "none" => ~d.tables BY <2>2, <2>5
    <3>3. Applied' = 1 => d.tables /\ (script.flag = "none" => ~d.content /\ d.bookings = 0)
      <4>1. Applied' = 1 => d.tables /\ (script.flag = "none" => ~d.content) BY <2>2, <2>5, SMTT(30)
      <4>2. script.flag = "none" /\ d.tables /\ ~d.content => d.bookings = 0 BY <1>5 DEF refuses, Db
      <4> QED BY <4>1, <4>2
    <3>4. Applied' >= 2 => d.tables /\ d.content /\ Applied' = 2 BY <2>2, <2>5
    <3>5. \A n \in 1..Len(todo) : todo[n] = FileAt(Applied' + n) BY <2>2, <2>5
    <3> QED BY <2>3, <2>5, <3>1, <3>2, <3>3, <3>4, <3>5 DEF Progress
  <2>7. (script.at \in {"probing", "applying"} /\ script.flag # "none" => script.confirmed)'
    BY <1>2, <2>3 DEF BootInv
  <2> QED BY <1>1, <1>2, <2>3, <2>4, <2>6, <2>7 DEF BootInv, BootTyped
<1> QED BY <1>4, <1>5

LEMMA ApplyStep == ASSUME BootInv, ApplyNext PROVE BootInv'
<1> USE BootstrapAssumption
<1>1. BootTyped /\ FALSE \notin wiped /\ (\A b \in Databases : DbSound(dbase[b])) /\ Progress(dbase[script.target])
  BY DEF BootInv
<1>2. script.at = "applying" /\ script.todo # <<>> /\ UNCHANGED api BY DEF ApplyNext
<1>3. /\ script.flag \in Flags /\ script.target \in Databases /\ script.todo \in Seq(File)
      /\ dbase \in [Databases -> Db]
  BY <1>1 DEF BootTyped, Script
<1> PICK d \in Db : d = dbase[script.target] BY <1>3
<1> PICK file : file = Head(script.todo) OBVIOUS
<1> PICK after : after = applied(d, file) OBVIOUS
<1>4. /\ dbase' = [dbase EXCEPT ![script.target] = after]
      /\ script' = [script EXCEPT !.todo = Tail(@)]
      /\ wiped' = IF takesAway(d, after) THEN wiped \union {script.flag # "none" /\ script.confirmed} ELSE wiped
  BY DEF ApplyNext
<1>5. Len(script.todo) \in Nat \ {0} /\ Applied \in 0..(Migrations + 1)
  BY <1>1, <1>2, <1>3, SMTT(30) DEF Progress, Applied
<1>6. file = FileAt(Applied + 1)
  <2>1. file = script.todo[1] BY <1>2, <1>3
  <2> QED BY <1>1, <1>2, <1>5, <2>1 DEF Progress
<1>7. /\ script' \in Script /\ script'.at = "applying" /\ script'.flag = script.flag /\ script'.target = script.target
      /\ script'.confirmed = script.confirmed /\ script'.todo = Tail(script.todo)
  <2>1. PICK rest : rest = Tail(script.todo) OBVIOUS
  <2>2. rest \in Seq(File) BY <1>2, <1>3, <2>1
  <2>3. script' = [script EXCEPT !.todo = rest] BY <1>4, <2>1
  <2>4. script \in Script BY <1>1 DEF BootTyped
  <2>5. script' \in Script BY <2>2, <2>3, <2>4 DEF Script
  <2>6. script'.todo = rest BY <2>3, <2>4 DEF Script
  <2> QED BY <1>2, <2>1, <2>3, <2>4, <2>5, <2>6 DEF Script
<1>8. /\ Len(script'.todo) = Len(script.todo) - 1 /\ Applied' = Applied + 1
      /\ \A n \in 1..Len(script'.todo) : script'.todo[n] = FileAt(Applied' + n)
  <2>1. Len(Tail(script.todo)) = Len(script.todo) - 1 BY <1>2, <1>3
  <2>2. Applied' = Applied + 1
    <3>1. Applied' = Migrations + 2 - Len(script'.todo) BY DEF Applied
    <3>2. Len(script'.todo) = Len(script.todo) - 1 BY <1>7, <2>1
    <3>3. Len(script.todo) \in Nat BY <1>5
    <3> QED BY <3>1, <3>2, <3>3 DEF Applied
  <2>3. ASSUME NEW n \in 1..Len(Tail(script.todo)) PROVE Tail(script.todo)[n] = FileAt(Applied' + n)
    <3>1. Tail(script.todo)[n] = script.todo[n + 1] BY <1>2, <1>3
    <3>2. n + 1 \in 1..Len(script.todo) BY <1>5, <2>1
    <3>3. script.todo[n + 1] = FileAt(Applied + (n + 1)) BY <1>1, <1>2, <3>2 DEF Progress
    <3> QED BY <1>5, <2>2, <3>1, <3>3
  <2> QED BY <1>7, <2>1, <2>2, <2>3
<1>9. DbSound(d) BY <1>1, <1>3
<1>10. /\ after \in Db /\ DbSound(after)
       /\ Applied = 0 => after.tables /\ ~after.content /\ after.bookings = 0
       /\ Applied = 1 => after.tables /\ after.content
       /\ Applied >= 2 => after.tables /\ after.content /\ 1..(Applied - 1) \subseteq after.since /\ after.last = Applied - 1
       /\ script.flag = "none" => ~takesAway(d, after)
  <2>1. CASE Applied = 0
    <3>1. after = schemaSql(d) BY <1>6, <2>1 DEF applied, FileAt, Schema
    <3>2. script.flag = "none" => ~d.tables BY <1>1, <1>2, <2>1 DEF Progress
    <3>3. ~d.tables => d.bookings = 0 /\ d.passwords = "none" BY <1>9 DEF DbSound
    <3>4. /\ after \in Db /\ DbSound(after) /\ after.tables /\ ~after.content /\ after.bookings = 0
      BY <1>9, <3>1, SchemaLeaves
    <3>5. script.flag = "none" => ~takesAway(d, after) BY <3>2, <3>3, <3>4 DEF takesAway
    <3>6. Applied # 1 /\ ~(Applied >= 2) BY <2>1
    <3> QED BY <3>4, <3>5, <3>6
  <2>2. CASE Applied = 1
    <3>1. after = seedSql(d) BY <1>6, <2>2 DEF applied, FileAt, Seed
    <3>2. d.tables /\ (script.flag = "none" => ~d.content /\ d.bookings = 0) BY <1>1, <1>2, <2>2 DEF Progress
    <3>3. ~d.content => d.passwords = "none" BY <1>9 DEF DbSound
    <3>4. /\ after \in Db /\ DbSound(after) /\ after.tables /\ after.content /\ after.bookings = 0
      BY <1>9, <3>1, <3>2, SeedLeaves
    <3>5. script.flag = "none" => ~takesAway(d, after) BY <3>2, <3>3, <3>4 DEF takesAway
    <3>6. Applied # 0 /\ ~(Applied >= 2) BY <2>2
    <3> QED BY <3>4, <3>5, <3>6
  <2>3. CASE Applied >= 2
    <3>1. Applied - 1 \in 1..Migrations BY <1>5, <2>3
    <3>2. after = migration(d, Applied - 1)
      <4>1. FileAt(Applied + 1) = Migration(Applied - 1) BY <1>5, <2>3 DEF FileAt
      <4> QED BY <1>6, <4>1 DEF applied, Migration
    <3>3. d.tables /\ d.content /\ 1..(Applied - 2) \subseteq d.since BY <1>1, <1>2, <2>3 DEF Progress
    <3>4. /\ after \in Db /\ DbSound(after) /\ after.tables = d.tables /\ after.content = d.content
          /\ after.bookings = d.bookings /\ after.passwords = d.passwords
          /\ after.since = d.since \cup {Applied - 1} /\ after.last = Applied - 1
      BY <1>9, <3>1, <3>2, MigrationLeaves, SMTT(30)
    <3>5. 1..(Applied - 1) \subseteq after.since BY <1>5, <3>3, <3>4
    <3>6. ~takesAway(d, after) BY <3>4 DEF takesAway, Db
    <3>7. Applied # 0 /\ Applied # 1 BY <2>3
    <3> QED BY <3>3, <3>4, <3>5, <3>6, <3>7
  <2>4. Applied = 0 \/ Applied = 1 \/ Applied >= 2 BY <1>5
  <2> QED BY <2>1, <2>2, <2>3, <2>4
<1>11. wiped' \subseteq BOOLEAN /\ FALSE \notin wiped'
  <2>1. script.flag # "none" => script.confirmed BY <1>2 DEF BootInv
  <2>2. wiped \subseteq BOOLEAN BY <1>1 DEF BootTyped
  <2>3. CASE takesAway(d, after)
    <3>1. script.flag # "none" BY <1>10, <2>3
    <3>2. wiped' = wiped \union {TRUE} BY <1>4, <2>1, <2>3, <3>1
    <3> QED BY <1>1, <2>2, <3>2
  <2>4. CASE ~takesAway(d, after) BY <1>1, <1>4, <2>2, <2>4
  <2> QED BY <2>3, <2>4
<1>12. BootTyped' BY <1>1, <1>2, <1>3, <1>4, <1>7, <1>10, <1>11 DEF BootTyped
<1>13. \A b \in Databases : DbSound(dbase'[b]) BY <1>1, <1>3, <1>4, <1>10
<1>14. dbase'[script'.target] = after BY <1>3, <1>4, <1>7
<1>15. Progress(dbase[script.target])'
  <2>1. Len(script'.todo) <= Migrations + 2 BY <1>5, <1>8 DEF Applied
  <2>2. Applied' # 0 BY <1>5, <1>8
  <2>3. Applied' = 1 => after.tables /\ ~after.content /\ after.bookings = 0 BY <1>5, <1>8, <1>10
  <2>4. Applied' >= 2 => /\ after.tables /\ after.content /\ 1..(Applied' - 2) \subseteq after.since
                         /\ Applied' > 2 => after.last = Applied' - 2
    <3>1. CASE Applied = 0 BY <1>8, <3>1
    <3>2. CASE Applied = 1 BY <1>8, <1>10, <3>2
    <3>3. CASE Applied >= 2
      <4>1. Applied' - 2 = Applied - 1 BY <1>5, <1>8
      <4> QED BY <1>10, <3>3, <4>1
    <3> QED BY <1>5, <3>1, <3>2, <3>3
  <2> QED BY <1>8, <1>14, <2>1, <2>2, <2>3, <2>4 DEF Progress
<1>16. ReleaseWhole' BY <1>7 DEF ReleaseWhole
<1>17. (script.at \in {"probing", "applying"} /\ script.flag # "none" => script.confirmed)'
  BY <1>2, <1>7 DEF BootInv
<1> QED BY <1>11, <1>12, <1>13, <1>15, <1>16, <1>17 DEF BootInv

LEMMA EndStep == ASSUME BootInv, Finish \/ Fail PROVE BootInv'
<1> USE BootstrapAssumption
<1>1. BootTyped /\ FALSE \notin wiped /\ (\A b \in Databases : DbSound(dbase[b])) /\ Progress(dbase[script.target])
  BY DEF BootInv
<1>2. UNCHANGED <<dbase, api, wiped>> BY DEF Finish, Fail
<1>3. CASE Finish
  <2>1. script.at = "applying" /\ script.todo = <<>> /\ script' = [script EXCEPT !.at = "ok"] BY <1>3 DEF Finish
  <2>2. script' \in Script /\ script'.at = "ok" /\ script'.target = script.target BY <1>1, <2>1 DEF BootTyped, Script
  <2>3. Applied = Migrations + 2 BY <2>1 DEF Applied
  <2>4. Whole(dbase[script.target])
    <3>1. dbase[script.target] \in Db BY <1>1 DEF BootTyped, Script
    <3>2. dbase[script.target].since \in SUBSET (1..Migrations) BY <3>1 DEF Db
    <3>3. Applied >= 2 /\ Applied > 2 BY <2>3
    <3>4. Applied - 2 = Migrations BY <2>3
    <3>5. /\ dbase[script.target].tables /\ dbase[script.target].content
          /\ 1..(Applied - 2) \subseteq dbase[script.target].since /\ dbase[script.target].last = Applied - 2
      BY <1>1, <2>1, <3>3 DEF Progress
    <3>6. dbase[script.target].since = 1..Migrations BY <3>2, <3>4, <3>5
    <3> QED BY <3>4, <3>5, <3>6 DEF Whole
  <2>5. ReleaseWhole' /\ Progress(dbase[script.target])' BY <1>2, <2>2, <2>4 DEF ReleaseWhole, Progress
  <2> QED BY <1>1, <1>2, <2>2, <2>5 DEF BootInv, BootTyped
<1>4. CASE Fail
  <2>1. script' = [script EXCEPT !.at = "failed", !.todo = <<>>] BY <1>4 DEF Fail
  <2>2. <<>> \in Seq(File) OBVIOUS
  <2>3. script' \in Script /\ script'.at = "failed" BY <1>1, <2>1, <2>2 DEF BootTyped, Script
  <2>4. ReleaseWhole' /\ Progress(dbase[script.target])' BY <2>3 DEF ReleaseWhole, Progress
  <2> QED BY <1>1, <1>2, <2>3, <2>4 DEF BootInv, BootTyped
<1> QED BY <1>3, <1>4

LEMMA ServeStep == ASSUME BootInv, NEW v \in Variables, Serve(v) PROVE BootInv'
<1>1. BootTyped /\ FALSE \notin wiped /\ (\A b \in Databases : DbSound(dbase[b])) /\ ReleaseWhole BY DEF BootInv
<1>2. /\ UNCHANGED <<dbase, wiped>> /\ script.at = "ok" /\ loadEnv(v) /\ scriptTarget(v) = script.target
      /\ api' = [up |-> TRUE, uses |-> apiTarget(v), production |-> v.production]
      /\ script' = [script EXCEPT !.at = "none"]
  BY DEF Serve
<1>3. script' \in Script /\ script'.at = "none" BY <1>1, <1>2 DEF BootTyped, Script
<1>4. v.production => api'.uses = script.target BY <1>2 DEF loadEnv, scriptTarget, apiTarget
<1>5. api'.uses \in Databases /\ api'.up = TRUE /\ api'.production = v.production BY <1>2, BlankIs
<1>6. Whole(dbase[script.target]) BY <1>1, <1>2 DEF ReleaseWhole
<1>7. ReleaseWhole' /\ Progress(dbase[script.target])'
  BY <1>2, <1>3, <1>4, <1>5, <1>6 DEF ReleaseWhole, Progress
<1>8. api' \in Release
  <2>1. v.production \in BOOLEAN BY BootstrapAssumption
  <2>2. apiTarget(v) \in Databases BY BlankIs
  <2> QED BY <1>2, <2>1, <2>2 DEF Release
<1>9. BootTyped' BY <1>1, <1>2, <1>3, <1>8 DEF BootTyped
<1> QED BY <1>1, <1>2, <1>3, <1>7, <1>9 DEF BootInv

(* A database changed alone, and neither its files nor its content.        *)
LEMMA DbChanges ==
  ASSUME BootInv, NEW b \in Databases, NEW e \in Db, DbSound(e),
         dbase' = [dbase EXCEPT ![b] = e], UNCHANGED <<script, api, wiped>>,
         e.tables = dbase[b].tables, e.content = dbase[b].content, e.since = dbase[b].since, e.last = dbase[b].last,
         dbase[b].content
  PROVE  BootInv'
<1>1. /\ BootTyped /\ FALSE \notin wiped /\ (\A c \in Databases : DbSound(dbase[c])) /\ Progress(dbase[script.target])
      /\ ReleaseWhole
  BY DEF BootInv
<1>2. dbase \in [Databases -> Db] /\ script.target \in Databases /\ api.uses \in Databases
  BY <1>1 DEF BootTyped, Script, Release
<1>3. BootTyped' BY <1>1, <1>2 DEF BootTyped
<1>4. \A c \in Databases : DbSound(dbase'[c]) BY <1>1, <1>2
<1>5. \A c \in Databases : Whole(dbase[c]) => Whole(dbase'[c]) BY <1>2 DEF Whole
<1>6. ReleaseWhole' BY <1>1, <1>2, <1>5 DEF ReleaseWhole
<1>7. Progress(dbase[script.target])'
  <2>1. CASE script.target = b
    <3>1. dbase'[script'.target] = e /\ script' = script /\ Applied' = Applied BY <1>2, <2>1 DEF Applied
    <3> QED BY <1>1, <2>1, <3>1 DEF Progress
  <2>2. CASE script.target # b
    <3>1. dbase'[script'.target] = dbase[script.target] /\ script' = script /\ Applied' = Applied
      BY <1>2, <2>2 DEF Applied
    <3> QED BY <1>1, <3>1 DEF Progress
  <2> QED BY <2>1, <2>2
<1> QED BY <1>1, <1>3, <1>4, <1>6, <1>7 DEF BootInv

LEMMA VisitStep == ASSUME BootInv, Visit PROVE BootInv'
<1> USE BootstrapAssumption
<1>1. BootTyped /\ api.uses \in Databases BY DEF BootInv, BootTyped, Release
<1> PICK d \in Db : d = dbase[api.uses] BY <1>1 DEF BootTyped
<1> PICK e : e = [d EXCEPT !.bookings = @ + 1, !.payments = @ + 1] OBVIOUS
<1>2. /\ d.tables /\ d.content /\ d.hasPayments /\ d.bookings < MaxBooked
      /\ UNCHANGED <<script, api, wiped>>
  BY DEF Visit
<1>3. dbase' = [dbase EXCEPT ![api.uses] = e] BY <1>1 DEF Visit, BootTyped
<1>4. d.bookings \in 0..MaxBooked /\ d.payments \in Nat BY DEF Db
<1>5. /\ e.tables = d.tables /\ e.content = d.content /\ e.since = d.since /\ e.last = d.last
      /\ e.hasPayments = d.hasPayments /\ e.linked = d.linked /\ e.passwords = d.passwords
      /\ e.bookings = d.bookings + 1 /\ e.payments = d.payments + 1
  BY DEF Db
<1>6. d.bookings + 1 \in 0..MaxBooked /\ d.payments + 1 \in Nat BY <1>2, <1>4
<1>7. e \in Db BY <1>6 DEF Db
<1>8. DbSound(d) BY <1>1 DEF BootInv
<1>9. DbSound(e)
  <2>1. e.linked => e.payments <= e.bookings
    <3>1. ASSUME d.linked PROVE d.payments + 1 <= d.bookings + 1 BY <1>4, <1>8, <3>1 DEF DbSound
    <3> QED BY <1>5, <3>1
  <2> QED BY <1>2, <1>5, <1>8, <2>1, Zenon DEF DbSound
<1> QED BY <1>1, <1>2, <1>3, <1>5, <1>7, <1>9, DbChanges, ZenonT(60)

LEMMA RotateStep == ASSUME BootInv, NEW v \in Variables, Rotate(v) PROVE BootInv'
<1>1. BootTyped /\ scriptTarget(v) \in Databases BY BlankIs DEF BootInv
<1> PICK b \in Databases : b = scriptTarget(v) BY <1>1
<1> PICK d \in Db : d = dbase[b] BY <1>1 DEF BootTyped
<1> PICK e : e = [d EXCEPT !.passwords = "own"] OBVIOUS
<1>2. d.passwords # "none" /\ dbase' = [dbase EXCEPT ![b] = e] /\ UNCHANGED <<script, api, wiped>>
  BY <1>1 DEF Rotate, BootTyped
<1>3. DbSound(d) BY <1>1 DEF BootInv
<1>4. d.content BY <1>2, <1>3 DEF DbSound
<1>5. /\ e.tables = d.tables /\ e.content = d.content /\ e.since = d.since /\ e.last = d.last
      /\ e.hasPayments = d.hasPayments /\ e.linked = d.linked /\ e.bookings = d.bookings /\ e.payments = d.payments
  BY DEF Db
<1>6. e \in Db BY DEF Db
<1>7. DbSound(e) BY <1>3, <1>4, <1>5, Zenon DEF DbSound
<1> QED BY <1>2, <1>4, <1>5, <1>6, <1>7, DbChanges

LEMMA BootStep == BootInv /\ [BootNext]_bootVars => BootInv'
<1> SUFFICES ASSUME BootInv, [BootNext]_bootVars PROVE BootInv' OBVIOUS
<1>1. CASE UNCHANGED bootVars
  BY <1>1 DEF bootVars, BootInv, BootTyped, DbSound, ReleaseWhole, Progress, Applied
<1>2. ASSUME NEW v \in Variables, NEW flag \in Flags, NEW confirm \in BOOLEAN, Start(v, flag, confirm) PROVE BootInv'
  BY <1>2, StartStep
<1>3. CASE Probe BY <1>3, ProbeStep
<1>4. CASE ApplyNext BY <1>4, ApplyStep
<1>5. CASE Finish \/ Fail BY <1>5, EndStep
<1>6. ASSUME NEW v \in Variables, Serve(v) PROVE BootInv' BY <1>6, ServeStep
<1>7. CASE Visit BY <1>7, VisitStep
<1>8. ASSUME NEW v \in Variables, Rotate(v) PROVE BootInv' BY <1>8, RotateStep
<1> QED BY <1>1, <1>2, <1>3, <1>4, <1>5, <1>6, <1>7, <1>8 DEF BootNext

LEMMA BootSafe == BootInv => BootTypeOK /\ BootHolds
<1> SUFFICES ASSUME BootInv PROVE BootTypeOK /\ BootHolds OBVIOUS
<1>1. BootTyped /\ FALSE \notin wiped /\ ReleaseWhole /\ \A b \in Databases : DbSound(dbase[b]) BY DEF BootInv
<1>2. ASSUME NEW b \in Databases
      PROVE  /\ dbase[b].since \subseteq 1 .. Migrations /\ dbase[b].last \in 0 .. Migrations
             /\ dbase[b].bookings \in 0 .. MaxBooked /\ dbase[b].passwords \in {"none", "starter", "own"}
  BY <1>1 DEF BootTyped, Db
<1>3. BootTypeOK BY <1>1, <1>2 DEF BootTypeOK, BootTyped, Script, Release
<1>4. NothingLost BY <1>1 DEF NothingLost, DbSound
<1> QED BY <1>1, <1>3, <1>4 DEF BootHolds
-----------------------------------------------------------------------------
(***************************************************************************)
(* The copies off site.                                                    *)
(***************************************************************************)

(* Tonight's copy is complete before anything is deleted, and what is to   *)
(* be deleted is past its days.                                            *)
Copying ==
  {Idling} \cup [step : {"done", "list"}] \cup [step : {"dump", "manifest"}, kind : {"plain", "enc"}]
  \cup [step : {"delete"}, keys : SUBSET bucket]
DumpUp == {Key(copyNight, "plain"), Key(copyNight, "enc")} \cap bucket # {}

OffsiteInv ==
  /\ copyNight \in 1..LastCopyNight /\ copied \subseteq 1..copyNight
  /\ copying \in Copying
  /\ copying.step = "manifest" => DumpUp
  /\ copying.step \in {"list", "delete"} => CopyOf(copyNight)
  /\ copying.step = "delete" => \A k \in copying.keys : k # Strange /\ copyNight - k.night >= KeepDays
  /\ \A n \in copied : copyNight - n < KeepDays => CopyOf(n)
  /\ copied # {} => \E n \in 1..copyNight : (\A m \in copied : n >= m) /\ CopyOf(n)
  /\ Strange \in bucket

LEMMA NightIs ==
  ASSUME OffsiteInv
  PROVE  /\ copyNight \in Nat \ {0} /\ copyNight \in 1..copyNight /\ LastCopyNight \in Nat /\ KeepDays \in Nat \ {0}
         /\ copied \subseteq 1..copyNight /\ \A n \in copied : n \in Nat /\ n <= copyNight
<1>1. copyNight \in 1..LastCopyNight /\ copied \subseteq 1..copyNight BY DEF OffsiteInv
<1>2. LastCopyNight \in Nat /\ KeepDays \in Nat \ {0} BY OffsiteAssumption
<1> QED BY <1>1, <1>2

LEMMA KeyIs ==
  \A n, m, kind, other : /\ Key(n, kind).night = n /\ Key(n, kind).kind = kind
                         /\ Key(n, kind) = Key(m, other) => n = m /\ kind = other
BY DEF Key

(* Keys put up leave every copy there.                                     *)
LEMMA CopiesKept ==
  ASSUME bucket \subseteq bucket', NEW n, CopyOf(n)
  PROVE  CopyOf(n)'
BY DEF CopyOf

LEMMA OffsiteInitially == OffsiteInit => OffsiteInv
BY OffsiteAssumption DEF OffsiteInit, OffsiteInv, Copying, Idling

(* A step that deletes nothing and reports nothing.                        *)
LEMMA GoesOn ==
  ASSUME OffsiteInv, bucket \subseteq bucket', UNCHANGED copyNight, UNCHANGED copied,
         copying' \in Copying',
         copying'.step = "manifest" => DumpUp',
         copying'.step \in {"list", "delete"} => CopyOf(copyNight)',
         copying'.step = "delete" => \A k \in copying'.keys : k # Strange /\ copyNight - k.night >= KeepDays
  PROVE  OffsiteInv'
<1>1. \A n : CopyOf(n) => CopyOf(n)' BY CopiesKept
<1>2. Strange \in bucket' BY DEF OffsiteInv
<1> QED BY <1>1, <1>2 DEF OffsiteInv

LEMMA IsReported ==
  ASSUME OffsiteInv, copying.step \in {"list", "delete"}, Reported, UNCHANGED bucket
  PROVE  OffsiteInv'
<1>1. /\ copied' = copied \cup {copyNight} /\ copying' = [step |-> "done"] /\ UNCHANGED <<copyNight, bucket>>
  BY DEF Reported
<1>2. copyNight \in Nat /\ copied' \subseteq 1..copyNight BY <1>1, NightIs
<1>3. CopyOf(copyNight) /\ \A n : CopyOf(n)' = CopyOf(n) BY <1>1 DEF OffsiteInv, CopyOf
<1>4. \A m \in copied' : copyNight >= m BY <1>2
<1>5. \E n \in 1..copyNight : (\A m \in copied' : n >= m) /\ CopyOf(n)
  <2>1. copyNight \in 1..copyNight BY NightIs
  <2> QED BY <1>3, <1>4, <2>1
<1>6. copying' \in Copying' /\ copying'.step = "done" BY <1>1 DEF Copying
<1> QED BY <1>1, <1>2, <1>3, <1>5, <1>6 DEF OffsiteInv

LEMMA DeletesOne ==
  ASSUME OffsiteInv, copying.step = "delete", Stays, NEW k \in copying.keys,
         bucket' = bucket \ {k}, copying' = [copying EXCEPT !.keys = @ \ {k}]
  PROVE  OffsiteInv'
<1>1. copying \in [step : {"delete"}, keys : SUBSET bucket] BY DEF OffsiteInv, Copying, Idling
<1>2. copying' \in Copying' /\ copying'.step = "delete" /\ copying'.keys = copying.keys \ {k}
  BY <1>1 DEF Copying
<1>3. k # Strange /\ copyNight - k.night >= KeepDays BY DEF OffsiteInv
<1>4. UNCHANGED <<copyNight, copied>> /\ copyNight \in Nat /\ KeepDays \in Nat \ {0}
  BY NightIs DEF Stays
<1>5. ASSUME NEW n, CopyOf(n), k.night # n PROVE CopyOf(n)'
  BY <1>5, KeyIs DEF CopyOf
<1>6. \A n \in 1..copyNight : copyNight - n < KeepDays => k.night # n BY <1>3, <1>4
<1>7. CopyOf(copyNight)'
  <2>1. k.night # copyNight BY <1>3, <1>4
  <2>2. CopyOf(copyNight) BY DEF OffsiteInv
  <2>3. \A n : CopyOf(n) /\ k.night # n => CopyOf(n)' BY <1>5
  <2> HIDE <1>5
  <2> QED BY <1>4, <2>1, <2>2, <2>3 DEF CopyOf
<1>8. \A n \in copied : copyNight - n < KeepDays => CopyOf(n)' BY <1>5, <1>6 DEF OffsiteInv
<1>9. \E n \in 1..copyNight : (\A m \in copied : n >= m) /\ CopyOf(n)'
  <2>1. copyNight \in 1..copyNight /\ \A m \in copied : copyNight >= m BY NightIs
  <2>2. PICK n \in 1..copyNight : n = copyNight BY <2>1
  <2>3. CopyOf(n)' BY <1>4, <1>7, <2>2 DEF CopyOf
  <2> QED BY <2>1, <2>2, <2>3
<1>10. Strange \in bucket' BY <1>3 DEF OffsiteInv
<1> QED BY <1>2, <1>4, <1>7, <1>8, <1>9, <1>10 DEF OffsiteInv

LEMMA NightGoes == ASSUME OffsiteInv, CopyNightPasses PROVE OffsiteInv'
<1>1. /\ copyNight' = copyNight + 1 /\ copying' = Idling /\ UNCHANGED <<bucket, copied>>
      /\ copyNight \in 1..LastCopyNight /\ copyNight < LastCopyNight
  BY DEF OffsiteInv, CopyNightPasses
<1>2. KeepDays \in Nat /\ LastCopyNight \in Nat BY OffsiteAssumption
<1>3. copyNight' \in 1..LastCopyNight /\ copied' \subseteq 1..copyNight' BY <1>1, <1>2 DEF OffsiteInv
<1>4. \A n : CopyOf(n)' = CopyOf(n) BY <1>1 DEF CopyOf
<1>5. \A n \in copied : copyNight' - n < KeepDays => copyNight - n < KeepDays BY <1>1, <1>2 DEF OffsiteInv
<1>6. \A n \in 1..copyNight : n \in 1..copyNight' BY <1>1, <1>2
<1>7. copying' \in Copying' /\ copying'.step = "due" BY <1>1 DEF Copying, Idling
<1>8. \A n \in copied' : copyNight' - n < KeepDays => CopyOf(n)' BY <1>1, <1>4, <1>5 DEF OffsiteInv
<1>9. copied' # {} => \E n \in 1..copyNight' : (\A m \in copied' : n >= m) /\ CopyOf(n)'
  BY <1>1, <1>4, <1>6 DEF OffsiteInv
<1> QED BY <1>1, <1>3, <1>7, <1>8, <1>9 DEF OffsiteInv

LEMMA OffsiteStep == OffsiteInv /\ [OffsiteNext]_offsiteVars => OffsiteInv'
<1> SUFFICES ASSUME OffsiteInv, [OffsiteNext]_offsiteVars PROVE OffsiteInv' OBVIOUS
<1>1. CASE UNCHANGED offsiteVars BY <1>1 DEF offsiteVars, OffsiteInv, Copying, DumpUp, CopyOf
<1>2. CASE offsiteConfig
  <2>1. copying' \in Copying' /\ copying'.step \in {"done", "dump"} BY <1>2 DEF offsiteConfig, Copying
  <2> QED BY <1>2, <2>1, GoesOn DEF offsiteConfig, Stays
<1>3. CASE putDump
  <2>1. copying \in [step : {"dump", "manifest"}, kind : {"plain", "enc"}] /\ copying.step = "dump"
    BY <1>3 DEF putDump, OffsiteInv, Copying, Idling
  <2>2. CASE bucket' = bucket \cup {Key(copyNight, copying.kind)} /\ copying' = [copying EXCEPT !.step = "manifest"]
    <3>1. copying' \in Copying' /\ copying'.step = "manifest" BY <2>1, <2>2 DEF Copying
    <3>2. DumpUp' BY <1>3, <2>1, <2>2 DEF DumpUp, putDump, Stays
    <3> QED BY <1>3, <2>2, <3>1, <3>2, GoesOn DEF putDump, Stays
  <2>3. CASE copying' = [step |-> "done"] /\ UNCHANGED bucket
    <3>1. copying' \in Copying' /\ copying'.step = "done" BY <2>3 DEF Copying
    <3> QED BY <1>3, <2>3, <3>1, GoesOn DEF putDump, Stays
  <2> QED BY <1>3, <2>2, <2>3 DEF putDump
<1>4. CASE putManifest
  <2>1. DumpUp BY <1>4 DEF putManifest, OffsiteInv
  <2>2. CASE bucket' = bucket \cup {Key(copyNight, "manifest")} /\ copying' = [step |-> "list"]
    <3>1. copying' \in Copying' /\ copying'.step = "list" BY <2>2 DEF Copying
    <3>2. CopyOf(copyNight)' BY <1>4, <2>1, <2>2 DEF DumpUp, CopyOf, putManifest, Stays
    <3> QED BY <1>4, <2>2, <3>1, <3>2, GoesOn DEF putManifest, Stays
  <2>3. CASE copying' = [step |-> "done"] /\ UNCHANGED bucket
    <3>1. copying' \in Copying' /\ copying'.step = "done" BY <2>3 DEF Copying
    <3> QED BY <1>4, <2>3, <3>1, GoesOn DEF putManifest, Stays
  <2> QED BY <1>4, <2>2, <2>3 DEF putManifest
<1>5. CASE listKeys
  <2>1. CASE Reported BY <1>5, <2>1, IsReported DEF listKeys
  <2>2. CASE copying' = [step |-> "delete", keys |-> expiredKeys(bucket, KeepDays)] /\ Stays
    <3>1. UNCHANGED <<bucket, copyNight, copied>> BY <1>5, <2>2 DEF listKeys, Stays
    <3>2. copying' \in Copying' /\ copying'.step = "delete" BY <2>2, <3>1 DEF Copying, expiredKeys
    <3>3. \A k \in copying'.keys : k # Strange /\ copyNight - k.night >= KeepDays BY <2>2 DEF expiredKeys
    <3>4. CopyOf(copyNight)' BY <1>5, <3>1 DEF listKeys, OffsiteInv, CopyOf
    <3> QED BY <3>1, <3>2, <3>3, <3>4, GoesOn
  <2> QED BY <1>5, <2>1, <2>2 DEF listKeys
<1>6. CASE deleteExpired
  <2>1. ASSUME NEW k \in copying.keys, bucket' = bucket \ {k}, copying' = [copying EXCEPT !.keys = @ \ {k}], Stays
        PROVE  OffsiteInv'
    BY <1>6, <2>1, DeletesOne DEF deleteExpired
  <2>2. CASE Reported /\ UNCHANGED bucket BY <1>6, <2>2, IsReported DEF deleteExpired
  <2> QED BY <1>6, <2>1, <2>2 DEF deleteExpired
<1>7. CASE copyKilled
  <2>1. copying' \in Copying' /\ copying'.step = "done" BY <1>7 DEF copyKilled, Copying
  <2> QED BY <1>7, <2>1, GoesOn DEF copyKilled, Stays
<1>8. CASE CopyNightPasses BY <1>8, NightGoes
<1> QED BY <1>1, <1>2, <1>3, <1>4, <1>5, <1>6, <1>7, <1>8 DEF OffsiteNext

LEMMA OffsiteSafe == OffsiteInv => OffsiteTypeOK /\ CopiesStay
<1> SUFFICES ASSUME OffsiteInv PROVE OffsiteTypeOK /\ CopiesStay OBVIOUS
<1>1. copyNight \in Nat /\ copyNight <= LastCopyNight /\ LastCopyNight \in Nat /\ copied \subseteq 1..copyNight
  <2>1. copyNight \in 1..LastCopyNight BY DEF OffsiteInv
  <2> QED BY <2>1, NightIs
<1>2. copied \subseteq 1..LastCopyNight BY <1>1
<1>3. copying.step \in {"due", "dump", "manifest", "list", "delete", "done"} BY DEF OffsiteInv, Copying, Idling
<1>4. ASSUME copied # {} PROVE \E n \in 1..LastCopyNight : n >= Max(copied) /\ CopyOf(n)
  <2>1. PICK n \in 1..copyNight : (\A m \in copied : n >= m) /\ CopyOf(n) BY <1>4 DEF OffsiteInv
  <2>2. Max(copied) \in copied
    <3>1. IsFiniteSet(1..copyNight) BY <1>1, FS_Interval
    <3>2. IsFiniteSet(copied) BY <1>1, <3>1, FS_Subset
    <3>3. \A x \in copied : x \in Int BY <1>1
    <3> QED BY <1>4, <3>2, <3>3, MaxIs
  <2>3. n >= Max(copied) BY <2>1, <2>2
  <2>4. n \in 1..LastCopyNight BY <1>1
  <2> QED BY <2>1, <2>3, <2>4
<1> QED BY <1>2, <1>3, <1>4 DEF OffsiteTypeOK, CopiesStay, OffsiteInv
-----------------------------------------------------------------------------
(***************************************************************************)
(* What the date picker offers.                                            *)
(***************************************************************************)

Parsed == {parseCalendar(raw) : raw \in CalendarRows}
PartyRows == [Parties -> Wants \cup {Unbooked}]
PageTyped == /\ page.reads \in 0..6 /\ page.count \in [Keys -> Nat] /\ page.cal \in Parsed \cup {None}
             /\ page = [reads |-> page.reads, cal |-> page.cal, count |-> page.count]
OffersTyped ==
  /\ settings \in CalendarRows /\ booked \in PartyRows /\ held \in PartyRows /\ PageTyped
  /\ offered \subseteq Keys /\ crossed \in BOOLEAN

(* The reads that come before a kind's own.  Of a place that never was free*)
(* since the page began, what is counted after the first read is at least  *)
(* what is booked now, and after the second the whole capacity.            *)
Before(k) == CASE k[1] = "slot" -> 0 [] k[1] = "activity" -> 2 [] k[1] = "session" -> 4
CountsFull(k) ==
  /\ page.reads = Before(k) + 1 => page.count[k] >= taken(booked, k, {})
  /\ page.reads > Before(k) + 1 => page.count[k] >= capacityOf(page.cal, k)

OffersInv ==
  /\ OffersTyped
  /\ page.cal = None => page.reads = 0
  /\ page.cal # None /\ ~ crossed =>
       page.cal = parseCalendar(settings) /\ HasRoom \subseteq offered /\ \A k \in Keys \ offered : CountsFull(k)

LEMMA KeysAre ==
  ASSUME NEW k \in Keys
  PROVE  \/ \E s \in Slots : k = <<"slot", "all", s>>
         \/ \E a \in Activities, s \in Slots : k = <<"activity", a, s>>
         \/ \E a \in Activities, t \in Times : k = <<"session", a, t>>
BY DEF Keys

LEMMA CalendarIs ==
  ASSUME NEW raw \in CalendarRows, NEW cal, cal = parseCalendar(raw)
  PROVE  /\ cal.slots \in Nat \ {0} /\ cal.times = raw.times /\ cal.seats = raw.seats /\ cal.caps = raw.caps
         /\ \A k \in Keys : capacityOf(cal, k) \in Nat \cup {None}
         /\ \A s \in Slots : capacityOf(cal, <<"slot", "all", s>>) = cal.slots
<1>1. raw.slots \in Nat BY DEF CalendarRows
<1>2. cal.slots \in Nat \ {0} BY <1>1, OffersAssumption DEF parseCalendar, parseSlotCapacity
<1>3. cal.times = raw.times /\ cal.seats = raw.seats /\ cal.caps = raw.caps BY DEF parseCalendar
<1>4. raw.seats \in [Activities -> Nat \cup {None}] /\ raw.caps \in [Activities -> [Slots -> Nat \cup {None}]]
  BY DEF CalendarRows
<1>5. \A s \in Slots : capacityOf(cal, <<"slot", "all", s>>) = cal.slots BY DEF capacityOf
<1>6. ASSUME NEW a \in Activities, NEW s \in Slots PROVE capacityOf(cal, <<"activity", a, s>>) \in Nat \cup {None}
  BY <1>3, <1>4, <1>6 DEF capacityOf
<1>7. ASSUME NEW a \in Activities, NEW t \in Times PROVE capacityOf(cal, <<"session", a, t>>) \in Nat \cup {None}
  BY <1>3, <1>4, <1>7 DEF capacityOf
<1>8. \A k \in Keys : capacityOf(cal, k) \in Nat \cup {None} BY <1>2, <1>5, <1>6, <1>7, KeysAre
<1> QED BY <1>2, <1>3, <1>5, <1>8

LEMMA LineIs == ASSUME NEW w \in Wants, NEW l \in w.lines PROVE lineTakes(l) \in Nat
BY OffersAssumption DEF lineTakes

LEMMA LinesSum ==
  ASSUME NEW w \in Wants, NEW some \in SUBSET w.lines, NEW f, f = [l \in w.lines |-> lineTakes(l)]
  PROVE  /\ SumOf(some, f) \in Nat
         /\ (\A l \in some : lineTakes(l) = 0) => SumOf(some, f) = 0
         /\ \A l \in some : some = {l} => SumOf(some, f) = lineTakes(l)
<1>1. IsFiniteSet(some) /\ \A l \in some : f[l] \in Nat /\ f[l] = lineTakes(l)
  <2>1. IsFiniteSet(w.lines) BY OffersAssumption
  <2>2. IsFiniteSet(some) BY <2>1, FS_Subset
  <2> QED BY <2>2, LineIs
<1>2. SumOf(some, f) \in Nat BY <1>1, SumNat
<1>3. ASSUME \A l \in some : lineTakes(l) = 0 PROVE SumOf(some, f) = 0 BY <1>1, <1>3, SumZero
<1>4. ASSUME NEW l \in some, some = {l} PROVE SumOf(some, f) = lineTakes(l)
  <2>1. SumOf(some, f) = f[l] + SumOf(some \ {l}, f)
    <3>1. \A y \in some : f[y] \in Int BY <1>1
    <3> QED BY <1>1, <3>1, SumTake
  <2>2. some \ {l} = {} BY <1>4
  <2> QED BY <1>1, <2>1, <2>2, SumEmpty
<1> QED BY <1>2, <1>3, <1>4

(* What one party takes of a place, and what all of them do.               *)
LEMMA TakesIs ==
  ASSUME NEW w \in Wants \cup {Unbooked}, NEW k \in Keys
  PROVE  takes(w, k) \in Nat /\ (w = Unbooked => takes(w, k) = 0)
<1>1. CASE w = Unbooked BY <1>1 DEF takes
<1>2. CASE w # Unbooked
  <2>1. w \in Wants /\ w.guests \in Nat BY <1>2, OffersAssumption
  <2> PICK f : f = [l \in w.lines |-> lineTakes(l)] OBVIOUS
  <2>2. \A some \in SUBSET w.lines : SumOf(some, f) \in Nat BY <2>1, LinesSum
  <2>3. CASE k[1] = "slot" BY <1>2, <2>1, <2>3 DEF takes
  <2>4. CASE k[1] = "activity"
    <3>1. takes(w, k) = IF w.slot = k[3] THEN SumOf({l \in w.lines : l.id = k[2]}, f) ELSE 0 BY <1>2, <2>4 DEF takes
    <3> QED BY <1>2, <2>2, <3>1
  <2>5. CASE k[1] = "session"
    <3>1. takes(w, k) = SumOf({l \in w.lines : l.id = k[2] /\ l.time = k[3]}, f) BY <1>2, <2>5 DEF takes
    <3> QED BY <1>2, <2>2, <3>1
  <2> QED BY <2>3, <2>4, <2>5, KeysAre
<1> QED BY <1>1, <1>2

LEMMA TakenIs ==
  ASSUME NEW rows \in PartyRows, NEW k \in Keys, NEW but \in SUBSET Parties
  PROVE  taken(rows, k, but) \in Nat
<1> PICK f : f = [p \in Parties |-> takes(rows[p], k)] OBVIOUS
<1>1. \A p \in Parties : f[p] \in Nat BY TakesIs DEF PartyRows
<1>2. IsFiniteSet(Parties \ but) BY OffersAssumption, FS_Subset
<1>3. SumOf(Parties \ but, f) \in Nat BY <1>1, <1>2, SumNat
<1> QED BY <1>3 DEF taken

LEMMA TakenBut ==
  ASSUME NEW rows \in PartyRows, NEW k \in Keys, NEW p \in Parties
  PROVE  taken(rows, k, {}) = takes(rows[p], k) + taken(rows, k, {p})
<1> PICK f : f = [q \in Parties |-> takes(rows[q], k)] OBVIOUS
<1>1. IsFiniteSet(Parties) /\ \A q \in Parties : f[q] \in Int BY TakesIs, OffersAssumption DEF PartyRows
<1>2. SumOf(Parties, f) = f[p] + SumOf(Parties \ {p}, f) BY <1>1, SumTake
<1>3. Parties \ {} = Parties OBVIOUS
<1> QED BY <1>2, <1>3 DEF taken

LEMMA TakenChanged ==
  ASSUME NEW rows \in PartyRows, NEW k \in Keys, NEW p \in Parties, NEW new \in PartyRows, \A q \in Parties \ {p} : new[q] = rows[q]
  PROVE  taken(new, k, {}) = takes(new[p], k) + taken(rows, k, {p})
<1> PICK f : f = [q \in Parties |-> takes(rows[q], k)] OBVIOUS
<1> PICK e : e = [q \in Parties |-> takes(new[q], k)] OBVIOUS
<1>1. IsFiniteSet(Parties \ {p}) /\ \A q \in Parties \ {p} : f[q] \in Int /\ f[q] = e[q]
  BY TakesIs, OffersAssumption, FS_Subset DEF PartyRows
<1>2. SumOf(Parties \ {p}, f) = SumOf(Parties \ {p}, e) BY <1>1, SumSame
<1>3. taken(new, k, {p}) = taken(rows, k, {p}) BY <1>2 DEF taken
<1> QED BY <1>3, TakenBut

(* Room for n more of what k counts, the hold of own apart.                *)
Full(k, n, own) ==
  LET cap == capacityOf(parseCalendar(settings), k) IN cap # None /\ taken(booked, k, {}) + taken(held, k, own) + n > cap

LEMMA GrantedIs ==
  ASSUME NEW w, NEW own
  PROVE  granted(w, own) =
           (/\ ~ closureFor(parseCalendar(settings), w.slot)
            /\ ~ Full(<<"slot", "all", w.slot>>, w.guests, own)
            /\ \A l \in {x \in w.lines : wanted(x) > 0} :
                 /\ l.time # None => /\ l.time \in sessionsForSlot(parseCalendar(settings), l.id, w.slot)
                                     /\ ~ Full(<<"session", l.id, l.time>>, wanted(l), own)
                 /\ ~ Full(<<"activity", l.id, w.slot>>, wanted(l), own))
BY Zenon DEF granted, Full

LEMMA RoomIs ==
  ASSUME OffersTyped, NEW k \in Keys, NEW p \in Parties, held[p] = Unbooked, NEW n \in Nat \ {0}, ~ Full(k, n, {p})
  PROVE  k \in HasRoom
<1> PICK cap : cap = capacityOf(parseCalendar(settings), k) OBVIOUS
<1>1. cap \in Nat \cup {None} BY CalendarIs DEF OffersTyped
<1>2. taken(held, k, {}) = taken(held, k, {p})
  <2>1. takes(held[p], k) = 0 BY TakesIs
  <2>2. taken(held, k, {p}) \in Nat BY TakenIs DEF OffersTyped
  <2> QED BY <2>1, <2>2, TakenBut DEF OffersTyped
<1>3. taken(booked, k, {}) \in Nat /\ taken(held, k, {}) \in Nat BY TakenIs DEF OffersTyped
<1>4. Truth[k] = taken(booked, k, {}) + taken(held, k, {}) BY DEF Truth
<1>5. cap = None \/ Truth[k] < cap BY <1>1, <1>2, <1>3, <1>4 DEF Full
<1> QED BY <1>5 DEF HasRoom

(* Only what had room is granted to one who held nothing.                  *)
LEMMA GrantedRoom ==
  ASSUME OffersTyped, NEW w \in Wants, NEW p \in Parties, held[p] = Unbooked, granted(w, {p}), NEW k \in Keys, takes(w, k) # 0
  PROVE  k \in HasRoom
<1> PICK f : f = [l \in w.lines |-> lineTakes(l)] OBVIOUS
<1>1. w # Unbooked /\ w.guests \in Nat BY OffersAssumption
<1>2. /\ ~ Full(<<"slot", "all", w.slot>>, w.guests, {p})
      /\ \A l \in w.lines : lineTakes(l) > 0 =>
           /\ l.time # None => ~ Full(<<"session", l.id, l.time>>, lineTakes(l), {p})
           /\ ~ Full(<<"activity", l.id, w.slot>>, lineTakes(l), {p})
  <2>1. \A l \in w.lines : lineTakes(l) > 0 => wanted(l) = lineTakes(l) BY DEF wanted, lineTakes
  <2> QED BY <2>1, GrantedIs
<1>3. ASSUME NEW s \in Slots, k = <<"slot", "all", s>> PROVE k \in HasRoom
  <2>1. w.slot = s /\ w.guests # 0 BY <1>1, <1>3 DEF takes
  <2> QED BY <1>1, <1>2, <1>3, <2>1, RoomIs
<1>4. ASSUME NEW some \in SUBSET w.lines, SumOf(some, f) # 0 PROVE \E l \in some : lineTakes(l) \in Nat \ {0} /\ lineTakes(l) > 0
  BY <1>4, LinesSum, LineIs
<1>5. ASSUME NEW a \in Activities, NEW s \in Slots, k = <<"activity", a, s>> PROVE k \in HasRoom
  <2>1. takes(w, k) = IF w.slot = s THEN SumOf({l \in w.lines : l.id = a}, f) ELSE 0 BY <1>1, <1>5 DEF takes
  <2>2. w.slot = s /\ SumOf({l \in w.lines : l.id = a}, f) # 0 BY <2>1
  <2>3. PICK l \in w.lines : l.id = a /\ lineTakes(l) \in Nat \ {0} /\ lineTakes(l) > 0 BY <1>4, <2>2
  <2> QED BY <1>2, <1>5, <2>2, <2>3, RoomIs
<1>6. ASSUME NEW a \in Activities, NEW t \in Times, k = <<"session", a, t>> PROVE k \in HasRoom
  <2>1. takes(w, k) = SumOf({l \in w.lines : l.id = a /\ l.time = t}, f) BY <1>1, <1>6 DEF takes
  <2>2. PICK l \in w.lines : l.id = a /\ l.time = t /\ lineTakes(l) \in Nat \ {0} /\ lineTakes(l) > 0 BY <1>4, <2>1
  <2>3. t # None BY OffersAssumption
  <2> QED BY <1>2, <1>6, <2>2, <2>3, RoomIs
<1> QED BY <1>3, <1>5, <1>6, KeysAre

LEMMA PageIs ==
  ASSUME NEW reads \in 0..6, NEW cal \in Parsed \cup {None}, NEW count \in [Keys -> Nat],
         page' = [reads |-> reads, cal |-> cal, count |-> count]
  PROVE  PageTyped' /\ page'.reads = reads /\ page'.cal = cal /\ page'.count = count
BY DEF PageTyped

LEMMA NoPageIs == NoPage = [reads |-> 0, cal |-> None, count |-> NoPage.count] /\ NoPage.count \in [Keys -> Nat] /\ NoPage.reads = 0 /\ NoPage.cal = None
BY DEF NoPage

LEMMA OffersInitially == OffersInit => OffersInv
<1> SUFFICES ASSUME OffersInit PROVE OffersInv OBVIOUS
<1>1. PageTyped
  <2>1. page.reads = 0 /\ page.cal = None /\ page.count = NoPage.count BY NoPageIs DEF OffersInit
  <2> QED BY <2>1, NoPageIs DEF OffersInit, PageTyped
<1>2. OffersTyped BY <1>1, OffersAssumption DEF OffersInit, OffersTyped, PartyRows
<1>3. page.cal = None /\ page.reads = 0 BY NoPageIs DEF OffersInit
<1> QED BY <1>2, <1>3 DEF OffersInv

(* Guests and desk go on: the page stays, unless it was complete.          *)
LEMMA RowsChange ==
  ASSUME OffersInv, Leave, settings' \in CalendarRows, booked' \in PartyRows, held' \in PartyRows, crossed' \in BOOLEAN, crossed => crossed',
         offered' = IF page'.cal = None THEN {} ELSE IF page'.reads = 0 THEN HasRoom' ELSE offered \cup HasRoom',
         ~ crossed' => settings' = settings /\ \A k \in Keys \ HasRoom : taken(booked, k, {})' <= taken(booked, k, {})
  PROVE  OffersInv'
<1>1. OffersTyped BY DEF OffersInv
<1>2. offered' \subseteq Keys BY <1>1 DEF HasRoom, OffersTyped
<1>3. CASE page.reads = 6
  <2>1. page' = NoPage BY <1>3 DEF Leave
  <2>2. PageTyped' /\ page'.cal = None /\ page'.reads = 0 BY <2>1, NoPageIs DEF PageTyped
  <2>3. OffersTyped' BY <1>2, <2>2 DEF OffersTyped
  <2> QED BY <2>2, <2>3 DEF OffersInv
<1>4. CASE page.reads # 6
  <2>1. page' = page BY <1>4 DEF Leave
  <2>2. PageTyped' BY <1>1, <2>1 DEF PageTyped, OffersTyped
  <2>3. OffersTyped' BY <1>2, <2>2 DEF OffersTyped
  <2>4. (page.cal = None => page.reads = 0)' BY <2>1 DEF OffersInv
  <2>5. ASSUME page.cal # None, ~ crossed', NEW k \in Keys \ offered' PROVE CountsFull(k)'
    <3>1. ~ crossed /\ settings' = settings BY <1>1, <2>5 DEF OffersTyped
    <3>2. page.cal = parseCalendar(settings) /\ HasRoom \subseteq offered /\ \A q \in Keys \ offered : CountsFull(q)
      BY <2>5, <3>1 DEF OffersInv
    <3>3. CASE page.reads = 0
      <4>1. Before(k) \in Nat BY <2>5, KeysAre DEF Before
      <4> QED BY <2>1, <3>3, <4>1 DEF CountsFull
    <3>4. CASE page.reads # 0
      <4>1. k \notin offered /\ k \notin HasRoom BY <2>1, <2>5, <3>2, <3>4
      <4>2. CountsFull(k) BY <3>2, <4>1, <2>5
      <4>3. taken(booked, k, {})' <= taken(booked, k, {}) BY <2>5, <4>1
      <4>4. taken(booked, k, {})' \in Nat /\ taken(booked, k, {}) \in Nat /\ page.count[k] \in Nat
        BY <1>1, <2>3, TakenIs DEF OffersTyped, PageTyped
      <4> QED BY <2>1, <4>2, <4>3, <4>4 DEF CountsFull
    <3> QED BY <3>3, <3>4
  <2>6. page.cal # None => HasRoom' \subseteq offered' BY <2>1
  <2>7. ASSUME page.cal # None, ~ crossed' PROVE page.cal = parseCalendar(settings')
    BY <2>7 DEF OffersInv, OffersTyped
  <2> QED BY <2>1, <2>3, <2>4, <2>5, <2>6, <2>7 DEF OffersInv
<1> QED BY <1>3, <1>4

LEMMA KindIs ==
  ASSUME NEW reads \in 0..5, NEW k \in Keys
  PROVE  Before(k) \in {0, 2, 4} /\ (k[1] = Kinds[reads \div 2 + 1] <=> Before(k) \in {reads, reads - 1})
<1>1. CASE reads \in {0, 1}
  <2>1. reads \div 2 + 1 = 1 BY <1>1
  <2>2. Kinds[reads \div 2 + 1] = "slot" BY <2>1 DEF Kinds
  <2> QED BY <1>1, <2>2, KeysAre DEF Before
<1>2. CASE reads \in {2, 3}
  <2>1. reads \div 2 + 1 = 2 BY <1>2
  <2>2. Kinds[reads \div 2 + 1] = "activity" BY <2>1 DEF Kinds
  <2> QED BY <1>2, <2>2, KeysAre DEF Before
<1>3. CASE reads \in {4, 5}
  <2>1. reads \div 2 + 1 = 3 BY <1>3
  <2>2. Kinds[reads \div 2 + 1] = "session" BY <2>1 DEF Kinds
  <2> QED BY <1>3, <2>2, KeysAre DEF Before
<1> QED BY <1>1, <1>2, <1>3

(* A read adds what its kind has booked, the next one what is held.        *)
LEMMA PageReads ==
  ASSUME OffersInv, NEW reads \in 0..5, page.reads = reads, page.cal # None, NEW rows \in PartyRows,
         reads \in {0, 2, 4} => rows = booked, reads \in {1, 3, 5} => rows = held,
         page' = [page EXCEPT !.reads = @ + 1, !.count = Counted(rows, Kinds[reads \div 2 + 1])],
         UNCHANGED <<settings, booked, held, crossed>>,
         offered' = IF page'.cal = None THEN {} ELSE IF page'.reads = 0 THEN HasRoom' ELSE offered \cup HasRoom'
  PROVE  OffersInv'
<1>1. OffersTyped BY DEF OffersInv
<1> PICK count : count = Counted(rows, Kinds[reads \div 2 + 1]) OBVIOUS
<1>2. \A k \in Keys : page.count[k] \in Nat BY <1>1 DEF OffersTyped, PageTyped
<1>3. ASSUME NEW k \in Keys
      PROVE  /\ count[k] \in Nat /\ page.count[k] <= count[k]
             /\ Before(k) \in {reads, reads - 1} => count[k] = page.count[k] + taken(rows, k, {})
  <2>1. count[k] = page.count[k] + IF k[1] = Kinds[reads \div 2 + 1] THEN taken(rows, k, {}) ELSE 0 BY <1>3 DEF Counted
  <2>2. taken(rows, k, {}) \in Nat BY <1>3, TakenIs
  <2>3. page.count[k] \in Nat BY <1>2, <1>3
  <2>4. CASE k[1] = Kinds[reads \div 2 + 1] BY <2>1, <2>2, <2>3, <2>4
  <2>5. CASE k[1] # Kinds[reads \div 2 + 1]
    <3>1. Before(k) \notin {reads, reads - 1} BY <1>3, <2>5, KindIs
    <3> QED BY <2>1, <2>3, <2>5, <3>1
  <2> QED BY <2>4, <2>5
<1>4. count \in [Keys -> Nat]
  <2>1. count = [k \in Keys |-> count[k]] BY DEF Counted
  <2> QED BY <1>3, <2>1
<1>5. page' = [reads |-> reads + 1, cal |-> page.cal, count |-> count]
  <2>1. page = [reads |-> page.reads, cal |-> page.cal, count |-> page.count] BY <1>1 DEF OffersTyped, PageTyped
  <2> QED BY <2>1
<1>6. PageTyped' /\ page'.reads = reads + 1 /\ page'.cal = page.cal /\ page'.count = count
  <2>1. reads + 1 \in 0..6 /\ page.cal \in Parsed \cup {None} BY <1>1 DEF OffersTyped, PageTyped
  <2> QED BY <1>4, <1>5, <2>1, PageIs
<1>7. HasRoom' = HasRoom BY DEF HasRoom, Truth
<1>8. offered' = offered \cup HasRoom BY <1>6, <1>7
<1>9. OffersTyped' BY <1>1, <1>6, <1>8 DEF OffersTyped, HasRoom
<1>10. ASSUME ~ crossed, NEW k \in Keys \ offered' PROVE CountsFull(k)'
  <2>1. page.cal = parseCalendar(settings) /\ CountsFull(k) /\ k \notin HasRoom BY <1>8, <1>10 DEF OffersInv
  <2>2. Before(k) \in {0, 2, 4} BY KindIs
  <2>3. taken(booked, k, {}) \in Nat /\ taken(held, k, {}) \in Nat BY <1>1, TakenIs DEF OffersTyped
  <2>4. Truth[k] = taken(booked, k, {}) + taken(held, k, {}) BY DEF Truth
  <2>5. capacityOf(page.cal, k) \in Nat /\ capacityOf(page.cal, k) <= Truth[k]
    <3>1. capacityOf(page.cal, k) \in Nat \cup {None} BY <1>1, <2>1, CalendarIs DEF OffersTyped
    <3> QED BY <2>1, <2>3, <2>4, <3>1 DEF HasRoom
  <2>6. page.count[k] \in Nat /\ count[k] \in Nat /\ page.count[k] <= count[k]
        /\ (Before(k) \in {reads, reads - 1} => count[k] = page.count[k] + taken(rows, k, {}))
    BY <1>2, <1>3
  <2>7. reads + 1 = Before(k) + 1 => count[k] >= taken(booked, k, {}) BY <2>2, <2>3, <2>6
  <2>8. reads = Before(k) + 1 => count[k] >= capacityOf(page.cal, k)
    <3> SUFFICES ASSUME reads = Before(k) + 1 PROVE count[k] >= capacityOf(page.cal, k) OBVIOUS
    <3>1. rows = held /\ count[k] = page.count[k] + taken(held, k, {}) BY <2>2, <2>6
    <3>2. page.count[k] >= taken(booked, k, {}) BY <2>1 DEF CountsFull
    <3> QED BY <2>3, <2>4, <2>5, <2>6, <3>1, <3>2
  <2>9. reads > Before(k) + 1 => count[k] >= capacityOf(page.cal, k)
    <3> SUFFICES ASSUME reads > Before(k) + 1 PROVE count[k] >= capacityOf(page.cal, k) OBVIOUS
    <3>1. page.count[k] >= capacityOf(page.cal, k) BY <2>1 DEF CountsFull
    <3> QED BY <2>5, <2>6, <3>1
  <2>10. page'.reads = Before(k) + 1 => page'.count[k] >= taken(booked', k, {}) BY <1>6, <2>2, <2>7
  <2>11. page'.reads > Before(k) + 1 => page'.count[k] >= capacityOf(page'.cal, k) BY <1>6, <2>2, <2>8, <2>9
  <2> QED BY <2>10, <2>11 DEF CountsFull
<1>11. ~ crossed => page.cal = parseCalendar(settings) /\ HasRoom \subseteq offered BY DEF OffersInv
<1> QED BY <1>6, <1>7, <1>8, <1>9, <1>10, <1>11 DEF OffersInv

(* The history, as every step keeps it.                                    *)
Keeps == offered' = IF page'.cal = None THEN {} ELSE IF page'.reads = 0 THEN HasRoom' ELSE offered \cup HasRoom'

LEMMA PageReadsOn ==
  ASSUME OffersInv, Keeps, addBookedLoads \/ tallyTaken
  PROVE  OffersInv'
<1>1. OffersTyped /\ (page.cal = None => page.reads = 0) BY DEF OffersInv
<1>2. booked \in PartyRows /\ held \in PartyRows BY <1>1 DEF OffersTyped
<1> PICK reads : reads = page.reads OBVIOUS
<1>3. CASE addBookedLoads
  <2>1. /\ page.cal # None /\ reads \in {0, 2, 4}
        /\ page' = [page EXCEPT !.reads = @ + 1, !.count = Counted(booked, Kinds[reads \div 2 + 1])]
        /\ UNCHANGED <<settings, booked, held, crossed>>
    BY <1>3 DEF addBookedLoads
  <2>2. reads \in 0..5 /\ ~ reads \in {1, 3, 5} BY <2>1
  <2> PICK rows \in PartyRows : rows = booked BY <1>2
  <2>3. page' = [page EXCEPT !.reads = @ + 1, !.count = Counted(rows, Kinds[reads \div 2 + 1])] BY <2>1
  <2> QED BY <2>1, <2>2, <2>3, PageReads DEF Keeps
<1>4. CASE tallyTaken
  <2>1. /\ page.cal # None /\ reads \in {1, 3, 5}
        /\ page' = [page EXCEPT !.reads = @ + 1, !.count = Counted(held, Kinds[reads \div 2 + 1])]
        /\ UNCHANGED <<settings, booked, held, crossed>>
    BY <1>1, <1>4 DEF tallyTaken, addHeldGuests
  <2>2. reads \in 0..5 /\ ~ reads \in {0, 2, 4} BY <2>1
  <2> PICK rows \in PartyRows : rows = held BY <1>2
  <2>3. page' = [page EXCEPT !.reads = @ + 1, !.count = Counted(rows, Kinds[reads \div 2 + 1])] BY <2>1
  <2> QED BY <2>1, <2>2, <2>3, PageReads DEF Keeps
<1> QED BY <1>3, <1>4

LEMMA OneBegins ==
  ASSUME OffersInv, Keeps, availability
  PROVE  OffersInv'
<1>1. OffersTyped BY DEF OffersInv
<1> PICK cal : cal = parseCalendar(settings) OBVIOUS
<1>2. page' = [reads |-> 0, cal |-> cal, count |-> NoPage.count] /\ crossed' = FALSE /\ UNCHANGED <<settings, booked, held>>
  BY NoPageIs DEF availability
<1>3. cal \in Parsed BY <1>1 DEF Parsed, OffersTyped
<1>4. PageTyped' /\ page'.reads = 0 /\ page'.cal = cal BY <1>2, <1>3, NoPageIs, PageIs
<1>5. OffersTyped' BY <1>1, <1>2, <1>4 DEF OffersTyped, Keeps, HasRoom
<1>6. ASSUME NEW k \in Keys PROVE CountsFull(k)'
  <2>1. Before(k) \in Nat BY <1>6, KeysAre DEF Before
  <2> QED BY <1>4, <2>1 DEF CountsFull
<1>7. page'.cal # None => HasRoom' \subseteq offered' BY <1>4 DEF Keeps
<1> QED BY <1>2, <1>4, <1>5, <1>6, <1>7 DEF OffersInv

LEMMA OneBooks ==
  ASSUME OffersInv, Keeps, NEW p \in Parties, NEW w \in Wants, hold(p, w) \/ book(p, w)
  PROVE  OffersInv'
<1>1. OffersTyped /\ booked \in PartyRows /\ held \in PartyRows /\ settings \in CalendarRows BY DEF OffersInv, OffersTyped
<1>2. CASE hold(p, w)
  <2>1. /\ held' = [held EXCEPT ![p] = w] /\ Leave /\ UNCHANGED <<settings, booked>> BY <1>2 DEF hold
  <2>2. crossed' = (crossed \/ held[p] # Unbooked) BY <1>2, Zenon DEF hold
  <2>3. held' \in PartyRows BY <1>1, <2>1 DEF PartyRows
  <2>4. crossed' \in BOOLEAN /\ (crossed => crossed') BY <2>2, Zenon
  <2>5. \A k \in Keys : taken(booked, k, {})' <= taken(booked, k, {})
    <3>1. \A k \in Keys : taken(booked, k, {}) \in Nat BY <1>1, TakenIs
    <3>2. booked' = booked BY <2>1
    <3> QED BY <3>1, <3>2
  <2> QED BY <1>1, <2>1, <2>3, <2>4, <2>5, RowsChange DEF Keeps
<1>3. CASE book(p, w)
  <2>1. /\ booked[p] = Unbooked /\ granted(w, {p}) /\ booked' = [booked EXCEPT ![p] = w] /\ held' = [held EXCEPT ![p] = Unbooked]
        /\ Leave /\ UNCHANGED settings
    BY <1>3 DEF book
  <2>2. crossed' = (crossed \/ held[p] # Unbooked) BY <1>3, Zenon DEF book
  <2>3. held' \in PartyRows BY <1>1, <2>1 DEF PartyRows
  <2>4. crossed' \in BOOLEAN /\ (crossed => crossed') /\ (~ crossed' => held[p] = Unbooked) BY <2>2, Zenon
  <2>5. booked' \in PartyRows BY <1>1, <2>1 DEF PartyRows
  <2>6. ASSUME ~ crossed', NEW k \in Keys \ HasRoom PROVE taken(booked, k, {})' <= taken(booked, k, {})
    <3>1. takes(w, k) = 0 BY <1>1, <2>1, <2>4, <2>6, GrantedRoom
    <3> PICK new \in PartyRows : new = booked' BY <2>5
    <3>2. new[p] = w /\ \A q \in Parties \ {p} : new[q] = booked[q] BY <1>1, <2>1 DEF PartyRows
    <3>3. taken(new, k, {}) = takes(w, k) + taken(booked, k, {p}) BY <1>1, <3>2, TakenChanged
    <3>4. taken(booked, k, {}) = takes(booked[p], k) + taken(booked, k, {p}) BY <1>1, TakenBut
    <3>5. takes(booked[p], k) = 0 BY <2>1, TakesIs
    <3>6. taken(booked, k, {p}) \in Nat BY <1>1, TakenIs
    <3> QED BY <3>1, <3>3, <3>4, <3>5, <3>6
  <2> QED BY <1>1, <2>1, <2>3, <2>4, <2>5, <2>6, RowsChange DEF Keeps
<1> QED BY <1>2, <1>3

LEMMA OneLeaves ==
  ASSUME OffersInv, Keeps, NEW p \in Parties, releaseHold(p) \/ cancelBooking(p)
  PROVE  OffersInv'
<1>1. OffersTyped /\ booked \in PartyRows /\ held \in PartyRows /\ settings \in CalendarRows /\ crossed \in BOOLEAN
  BY DEF OffersInv, OffersTyped
<1>2. /\ Leave /\ UNCHANGED <<settings, crossed>>
      /\ booked' = booked \/ booked' = [booked EXCEPT ![p] = Unbooked]
      /\ held' = held \/ held' = [held EXCEPT ![p] = Unbooked]
  BY DEF releaseHold, cancelBooking
<1>3. held' \in PartyRows /\ booked' \in PartyRows BY <1>1, <1>2 DEF PartyRows
<1>4. ASSUME NEW k \in Keys PROVE taken(booked, k, {})' <= taken(booked, k, {})
  <2>1. taken(booked, k, {}) \in Nat /\ taken(booked, k, {p}) \in Nat BY <1>1, TakenIs
  <2>2. CASE booked' = booked BY <2>1, <2>2
  <2>3. CASE booked' = [booked EXCEPT ![p] = Unbooked]
    <3> PICK new \in PartyRows : new = booked' BY <1>3
    <3>1. new[p] = Unbooked /\ \A q \in Parties \ {p} : new[q] = booked[q] BY <1>1, <2>3 DEF PartyRows
    <3>2. taken(new, k, {}) = takes(Unbooked, k) + taken(booked, k, {p}) BY <1>1, <3>1, TakenChanged
    <3>3. taken(booked, k, {}) = takes(booked[p], k) + taken(booked, k, {p}) BY <1>1, TakenBut
    <3>4. takes(Unbooked, k) = 0 BY TakesIs
    <3>5. takes(booked[p], k) \in Nat
      <4>1. booked[p] \in Wants \cup {Unbooked} BY <1>1 DEF PartyRows
      <4> QED BY <4>1, TakesIs
    <3> QED BY <2>1, <3>2, <3>3, <3>4, <3>5
  <2> QED BY <1>2, <2>2, <2>3
<1> QED BY <1>1, <1>2, <1>3, <1>4, RowsChange DEF Keeps

LEMMA OneSavesCalendar ==
  ASSUME OffersInv, Keeps, NEW raw \in Calendars, saveCalendar(raw)
  PROVE  OffersInv'
<1>1. OffersTyped /\ booked \in PartyRows /\ held \in PartyRows /\ settings \in CalendarRows BY DEF OffersInv, OffersTyped
<1>2. settings' = [raw EXCEPT !.slots = IF raw.slots = 0 THEN settings.slots ELSE raw.slots] /\ crossed' = TRUE /\ Leave
      /\ UNCHANGED <<booked, held>>
  BY DEF saveCalendar
<1>3. settings' \in CalendarRows
  <2> PICK n : n = IF raw.slots = 0 THEN settings.slots ELSE raw.slots OBVIOUS
  <2>1. raw \in CalendarRows BY OffersAssumption
  <2>2. n \in Nat BY <1>1, <2>1 DEF CalendarRows
  <2>3. settings' = [raw EXCEPT !.slots = n] BY <1>2
  <2> QED BY <2>1, <2>2, <2>3 DEF CalendarRows
<1> QED BY <1>1, <1>2, <1>3, RowsChange DEF Keeps

LEMMA OffersStep == OffersInv /\ [OffersNext]_offerVars => OffersInv'
<1> SUFFICES ASSUME OffersInv, OffersNext \/ UNCHANGED offerVars PROVE OffersInv' OBVIOUS
<1>1. CASE OffersNext
  <2>1. Keeps BY <1>1 DEF OffersNext, Keeps
  <2>2. ASSUME NEW p \in Parties, NEW w \in Wants, hold(p, w) \/ book(p, w) PROVE OffersInv' BY <2>1, <2>2, OneBooks
  <2>3. ASSUME NEW p \in Parties, releaseHold(p) \/ cancelBooking(p) PROVE OffersInv' BY <2>1, <2>3, OneLeaves
  <2>4. ASSUME NEW raw \in Calendars, saveCalendar(raw) PROVE OffersInv' BY <2>1, <2>4, OneSavesCalendar
  <2> QED BY <1>1, <2>1, <2>2, <2>3, <2>4, OneBegins, PageReadsOn DEF OffersNext
<1>2. CASE UNCHANGED offerVars
  BY <1>2 DEF offerVars, OffersInv, OffersTyped, PageTyped, HasRoom, Truth, CountsFull
<1> QED BY <1>1, <1>2

(* A level is full exactly when there is no room for one more.             *)
LEMMA LevelIs ==
  ASSUME NEW n \in Nat, NEW cap \in Nat \cup {None}
  PROVE  /\ activityLevel(n, cap) = "full" <=> cap # None /\ n >= cap
         /\ busyLevel(n, cap) = "full" <=> n >= cap
         /\ busyLevel(n, cap) # "closed"
BY DEF activityLevel, busyLevel

(* What the picker shows of a place, beside what a party of one is granted.*)
LEMMA FullIs ==
  ASSUME OffersTyped, NEW k \in Keys
  PROVE  /\ Full(k, 1, {}) <=> activityLevel(Truth[k], capacityOf(parseCalendar(settings), k)) = "full"
         /\ Truth[k] \in Nat
<1> PICK cap \in Nat \cup {None} : cap = capacityOf(parseCalendar(settings), k) BY CalendarIs DEF OffersTyped
<1>1. taken(booked, k, {}) \in Nat /\ taken(held, k, {}) \in Nat BY TakenIs DEF OffersTyped
<1> PICK n \in Nat : n = Truth[k] /\ n = taken(booked, k, {}) + taken(held, k, {}) BY <1>1 DEF Truth
<1>2. Full(k, 1, {}) <=> cap # None /\ n + 1 > cap BY DEF Full
<1>3. activityLevel(n, cap) = "full" <=> cap # None /\ n >= cap BY LevelIs
<1>4. cap # None => (n + 1 > cap <=> n >= cap) OBVIOUS
<1> QED BY <1>2, <1>3, <1>4

Single(s, lines) == [slot |-> s, guests |-> 1, lines |-> lines]
SingleLine(a, t) == [id |-> a, guests |-> 1, units |-> 1, time |-> t]

LEMMA WelcomeIs ==
  ASSUME OffersTyped, NEW s \in Slots, NEW welcome,
         welcome = (shows(parseCalendar(settings), Truth).slot[s] \notin {"full", "closed"})
  PROVE  welcome <=> ~ closureFor(parseCalendar(settings), s) /\ ~ Full(<<"slot", "all", s>>, 1, {})
<1> PICK cal \in Parsed : cal = parseCalendar(settings) BY DEF OffersTyped, Parsed
<1> PICK k \in Keys : k = <<"slot", "all", s>> BY DEF Keys
<1>1. capacityOf(cal, k) = cal.slots /\ cal.slots \in Nat \ {0} BY CalendarIs DEF OffersTyped
<1>2. Truth[k] \in Nat BY FullIs
<1>3. cal.slots # None BY <1>1, OffersAssumption
<1>4. Full(k, 1, {}) <=> busyLevel(Truth[k], cal.slots) = "full"
  <2>1. Full(k, 1, {}) <=> activityLevel(Truth[k], cal.slots) = "full" BY <1>1, FullIs
  <2> QED BY <1>1, <1>2, <1>3, <2>1, LevelIs
<1>5. busyLevel(Truth[k], cal.slots) # "closed" BY <1>1, <1>2, LevelIs
<1>6. shows(cal, Truth).slot[s] = IF closureFor(cal, s) THEN "closed" ELSE busyLevel(Truth[k], cal.slots)
  BY DEF shows, applySlotLevels
<1>7. CASE closureFor(cal, s)
  <2>1. shows(cal, Truth).slot[s] = "closed" BY <1>6, <1>7
  <2> QED BY <1>7, <2>1
<1>8. CASE ~ closureFor(cal, s)
  <2>1. shows(cal, Truth).slot[s] = busyLevel(Truth[k], cal.slots) BY <1>6, <1>8
  <2> QED BY <1>4, <1>5, <1>8, <2>1
<1> QED BY <1>7, <1>8

LEMMA SingleIs ==
  ASSUME NEW s
  PROVE  granted(Single(s, {}), {}) = (~ closureFor(parseCalendar(settings), s) /\ ~ Full(<<"slot", "all", s>>, 1, {}))
<1>1. {x \in {} : wanted(x) > 0} = {} OBVIOUS
<1>2. Single(s, {}).slot = s /\ Single(s, {}).guests = 1 /\ Single(s, {}).lines = {} BY DEF Single
<1>3. granted(Single(s, {}), {}) =
        (/\ ~ closureFor(parseCalendar(settings), s) /\ ~ Full(<<"slot", "all", s>>, 1, {})
         /\ \A x \in {} :
              /\ x.time # None => /\ x.time \in sessionsForSlot(parseCalendar(settings), x.id, s)
                                  /\ ~ Full(<<"session", x.id, x.time>>, wanted(x), {})
              /\ ~ Full(<<"activity", x.id, s>>, wanted(x), {}))
  BY <1>1, <1>2, GrantedIs, Zenon
<1> QED BY <1>3, Zenon

LEMMA SingleLineIs ==
  ASSUME NEW s, NEW a, NEW t
  PROVE  granted(Single(s, {SingleLine(a, t)}), {}) =
              (/\ ~ closureFor(parseCalendar(settings), s) /\ ~ Full(<<"slot", "all", s>>, 1, {})
               /\ t # None => t \in sessionsForSlot(parseCalendar(settings), a, s) /\ ~ Full(<<"session", a, t>>, 1, {})
               /\ ~ Full(<<"activity", a, s>>, 1, {}))
<1> PICK l : l = SingleLine(a, t) OBVIOUS
<1>1. l.id = a /\ l.time = t /\ wanted(l) = 1 BY OffersAssumption DEF SingleLine, wanted, lineTakes
<1>2. {x \in {l} : wanted(x) > 0} = {l} BY <1>1
<1>3. Single(s, {l}).slot = s /\ Single(s, {l}).guests = 1 /\ Single(s, {l}).lines = {l} BY DEF Single
<1>4. granted(Single(s, {l}), {}) =
        (/\ ~ closureFor(parseCalendar(settings), s) /\ ~ Full(<<"slot", "all", s>>, 1, {})
         /\ \A x \in {l} :
              /\ x.time # None => /\ x.time \in sessionsForSlot(parseCalendar(settings), x.id, s)
                                  /\ ~ Full(<<"session", x.id, x.time>>, wanted(x), {})
              /\ ~ Full(<<"activity", x.id, s>>, wanted(x), {}))
  BY <1>2, <1>3, GrantedIs, Zenon
<1> QED BY <1>1, <1>4, Zenon

LEMMA PickerIsHonest == OffersTyped => ShownIsGranted
<1> SUFFICES ASSUME OffersTyped PROVE ShownIsGranted OBVIOUS
<1> DEFINE now == shows(parseCalendar(settings), Truth)
<1>1. ASSUME NEW s \in Slots, NEW welcome, welcome = (now.slot[s] \notin {"full", "closed"})
      PROVE  /\ granted(Single(s, {}), {}) = welcome
             /\ \A a \in Activities :
                  granted(Single(s, {SingleLine(a, None)}), {}) = (welcome /\ now.activity[<<"activity", a, s>>] # "full")
             /\ \A a \in Activities : \A t \in sessionsForSlot(parseCalendar(settings), a, s) :
                  granted(Single(s, {SingleLine(a, t)}), {}) =
                    (welcome /\ now.activity[<<"activity", a, s>>] # "full" /\ now.session[<<"session", a, t>>] # "full")
  <2>1. welcome \in BOOLEAN /\ (welcome <=> ~ closureFor(parseCalendar(settings), s) /\ ~ Full(<<"slot", "all", s>>, 1, {}))
    BY <1>1, WelcomeIs
  <2>2. ASSUME NEW a \in Activities
        PROVE  Full(<<"activity", a, s>>, 1, {}) <=> now.activity[<<"activity", a, s>>] = "full"
    <3> PICK k : k = <<"activity", a, s>> OBVIOUS
    <3>1. k \in Keys /\ k[1] = "activity" BY <1>1, <2>2 DEF Keys
    <3>2. k \in KeysOf("activity") BY <3>1 DEF KeysOf
    <3>3. now.activity[k] = activityLevel(Truth[k], capacityOf(parseCalendar(settings), k)) BY <3>2 DEF shows, applyActivityLevels
    <3> QED BY <3>3, <3>1, FullIs
  <2>3. ASSUME NEW a \in Activities, NEW t \in sessionsForSlot(parseCalendar(settings), a, s)
        PROVE  (Full(<<"session", a, t>>, 1, {}) <=> now.session[<<"session", a, t>>] = "full") /\ t # None
    <3>1. t \in parseCalendar(settings).times[a] BY <2>3 DEF sessionsForSlot
    <3>2. t \in Times BY <1>1, <2>3, <3>1, CalendarIs DEF OffersTyped, CalendarRows
    <3> PICK k : k = <<"session", a, t>> OBVIOUS
    <3>3. k \in Keys /\ k[1] = "session" /\ k[2] = a /\ k[3] = t BY <2>3, <3>2 DEF Keys
    <3>4. k \in KeysOf("session") BY <3>3 DEF KeysOf
    <3>5. now.session[k] = activityLevel(Truth[k], capacityOf(parseCalendar(settings), k))
      BY <3>1, <3>3, <3>4 DEF shows, applySessionLevels
    <3> QED BY <3>2, <3>5, <3>3, FullIs, OffersAssumption
  <2>4. granted(Single(s, {}), {}) = welcome BY <2>1, SingleIs, Zenon
  <2>5. ASSUME NEW a \in Activities
        PROVE  granted(Single(s, {SingleLine(a, None)}), {}) = (welcome /\ now.activity[<<"activity", a, s>>] # "full")
    BY <2>1, <2>2, SingleLineIs, Zenon
  <2>6. ASSUME NEW a \in Activities, NEW t \in sessionsForSlot(parseCalendar(settings), a, s)
        PROVE  granted(Single(s, {SingleLine(a, t)}), {}) =
                 (welcome /\ now.activity[<<"activity", a, s>>] # "full" /\ now.session[<<"session", a, t>>] # "full")
    BY <2>1, <2>2, <2>3, <2>6, SingleLineIs, Zenon
  <2> QED BY <2>4, <2>5, <2>6
<1>2. \A s \in Slots :
         /\ granted(Single(s, {}), {}) = (now.slot[s] \notin {"full", "closed"})
         /\ \A a \in Activities :
              granted(Single(s, {SingleLine(a, None)}), {}) =
                (now.slot[s] \notin {"full", "closed"} /\ now.activity[<<"activity", a, s>>] # "full")
         /\ \A a \in Activities : \A t \in sessionsForSlot(parseCalendar(settings), a, s) :
              granted(Single(s, {SingleLine(a, t)}), {}) =
                (now.slot[s] \notin {"full", "closed"} /\ now.activity[<<"activity", a, s>>] # "full"
                 /\ now.session[<<"session", a, t>>] # "full")
  BY <1>1, ZenonT(60)
<1> QED BY <1>2, Zenon DEF ShownIsGranted, Single, SingleLine

LEMMA OffersSafe == OffersInv => OffersTypeOK /\ OffersHold
<1> SUFFICES ASSUME OffersInv PROVE OffersTypeOK /\ OffersHold OBVIOUS
<1>1. OffersTyped BY DEF OffersInv
<1>2. OffersTypeOK BY <1>1 DEF OffersTyped, PageTyped, PartyRows, OffersTypeOK
<1>3. NoPhantomOffer
  <2> SUFFICES ASSUME page.reads = 6, ~ crossed, NEW s, s = shows(page.cal, page.count)
               PROVE  /\ \A slot \in Slots : s.slot[slot] \notin {"full", "closed"} => <<"slot", "all", slot>> \in offered
                      /\ \A k \in DOMAIN s.activity : s.activity[k] # "full" => k \in offered
                      /\ \A k \in DOMAIN s.session : s.session[k] # "full" => k \in offered
    BY Zenon DEF NoPhantomOffer
  <2> PICK cal : cal = page.cal OBVIOUS
  <2> PICK count \in [Keys -> Nat] : count = page.count BY <1>1 DEF OffersTyped, PageTyped
  <2>1. cal # None BY DEF OffersInv
  <2>2. cal = parseCalendar(settings) /\ HasRoom \subseteq offered /\ \A k \in Keys \ offered : CountsFull(k)
    BY <2>1 DEF OffersInv
  <2>3. ASSUME NEW k \in Keys \ offered
        PROVE  capacityOf(cal, k) \in Nat /\ count[k] \in Nat /\ count[k] >= capacityOf(cal, k)
    <3>1. capacityOf(cal, k) \in Nat \cup {None} BY <1>1, <2>2, CalendarIs DEF OffersTyped
    <3>2. capacityOf(cal, k) # None BY <2>2, <2>3 DEF HasRoom
    <3>3. Before(k) \in {0, 2, 4} BY <2>3, KeysAre DEF Before
    <3>4. CountsFull(k) BY <2>2, <2>3
    <3>5. count[k] >= capacityOf(cal, k) BY <3>3, <3>4 DEF CountsFull
    <3> QED BY <3>1, <3>2, <3>5
  <2>4. ASSUME NEW k \in Keys \ offered PROVE activityLevel(count[k], capacityOf(cal, k)) = "full"
    <3>1. capacityOf(cal, k) \in Nat /\ count[k] \in Nat /\ count[k] >= capacityOf(cal, k) BY <2>3, <2>4
    <3>2. capacityOf(cal, k) # None BY <3>1, OffersAssumption
    <3> QED BY <3>1, <3>2, LevelIs
  <2>5. ASSUME NEW slot \in Slots, s.slot[slot] \notin {"full", "closed"} PROVE <<"slot", "all", slot>> \in offered
    <3> SUFFICES ASSUME <<"slot", "all", slot>> \notin offered PROVE FALSE OBVIOUS
    <3> PICK k \in Keys \ offered : k = <<"slot", "all", slot>> BY <2>5 DEF Keys
    <3>1. capacityOf(cal, k) = cal.slots BY <1>1, <2>2, <2>5, CalendarIs DEF OffersTyped
    <3>2. busyLevel(count[k], cal.slots) = "full" BY <2>3, <3>1, LevelIs
    <3>3. s.slot[slot] = IF closureFor(cal, slot) THEN "closed" ELSE busyLevel(count[k], cal.slots)
      BY <2>5 DEF shows, applySlotLevels
    <3> QED BY <2>5, <3>2, <3>3
  <2>6. DOMAIN s.activity \subseteq Keys /\ \A k \in DOMAIN s.activity : s.activity[k] = activityLevel(count[k], capacityOf(cal, k))
    BY DEF shows, applyActivityLevels, KeysOf
  <2>7. DOMAIN s.session \subseteq Keys /\ \A k \in DOMAIN s.session : s.session[k] = activityLevel(count[k], capacityOf(cal, k))
    BY DEF shows, applySessionLevels, KeysOf
  <2> QED BY <2>4, <2>5, <2>6, <2>7
<1> QED BY <1>1, <1>2, <1>3, PickerIsHonest DEF OffersHold
-----------------------------------------------------------------------------
(***************************************************************************)
(* A visit's photos.                                                       *)
(***************************************************************************)

(* A set being marked ready has photos as long as none was removed, and    *)
(* the ready mark, once written, stays.                                    *)
PhotoCall ==
  {NoPhotoCall} \cup [step : {"save"}, photo : Shots] \cup [step : {"mark", "count"}] \cup [step : {"tell"}, count : Nat]
Saving == {k \in Uploads : photoCall[k].step = "save"}
Marked(k) ==
  /\ photoCall[k].step = "save" => photoCall[k].photo \in shot
  /\ photoCall[k].step \in {"mark", "count"} /\ ~thinned => album # {}
  /\ photoCall[k].step \in {"count", "tell"} => photosReadyAt
  /\ photoCall[k].step = "tell" /\ ~thinned => photoCall[k].count > 0

PhotosInv ==
  /\ album \subseteq shot /\ shot \subseteq Shots /\ photoCall \in [Uploads -> PhotoCall]
  /\ thinned \in BOOLEAN /\ photosReadyAt \in BOOLEAN
  /\ AlbumNearLimit /\ \A k \in Uploads : Marked(k)

LEMMA AlbumCounted ==
  ASSUME PhotosInv
  PROVE  /\ IsFiniteSet(album) /\ IsFiniteSet(Saving) /\ Cardinality(album) \in Nat /\ Cardinality(Saving) \in Nat
         /\ IsFiniteSet(Uploads) /\ Cardinality(Uploads) \in Nat /\ PHOTOS_PER_BOOKING \in Nat \ {0}
         /\ Cardinality(album) + Cardinality(Saving) <= PHOTOS_PER_BOOKING + Cardinality(Uploads) - 1
<1>1. IsFiniteSet(Uploads) /\ IsFiniteSet(Shots) BY PhotosAssumption
<1>2. album \subseteq Shots /\ Saving \subseteq Uploads BY DEF PhotosInv, Saving
<1>3. IsFiniteSet(album) /\ IsFiniteSet(Saving) BY <1>1, <1>2, FS_Subset
<1>4. Cardinality(album) + Cardinality(Saving) <= PHOTOS_PER_BOOKING + Cardinality(Uploads) - 1
  BY DEF PhotosInv, AlbumNearLimit, Saving
<1> QED BY <1>1, <1>3, <1>4, PhotosAssumption, FS_CardinalityType

LEMMA PhotosInitially == PhotosInit => PhotosInv
<1> SUFFICES ASSUME PhotosInit PROVE PhotosInv OBVIOUS
<1>1. photoCall = [k \in Uploads |-> NoPhotoCall] /\ album = {} /\ shot = {} BY DEF PhotosInit
<1>2. \A k \in Uploads : photoCall[k].step = "idle" BY <1>1 DEF NoPhotoCall
<1>3. Saving = {} BY <1>2 DEF Saving
<1>4. AlbumNearLimit
  <2>1. Cardinality(Uploads) \in Nat /\ PHOTOS_PER_BOOKING \in Nat \ {0} BY PhotosAssumption, FS_CardinalityType
  <2>2. Cardinality({}) = 0 BY FS_EmptySet
  <2>3. Cardinality(album) + Cardinality(Saving) <= PHOTOS_PER_BOOKING + Cardinality(Uploads) - 1
    BY <1>1, <1>3, <2>1, <2>2
  <2> QED BY <2>3 DEF AlbumNearLimit, Saving
<1>5. \A k \in Uploads : Marked(k) BY <1>2 DEF Marked
<1> QED BY <1>1, <1>4, <1>5 DEF PhotosInv, PhotosInit, PhotoCall

(* A call that goes on with nothing to save, and none removed.             *)
LEMMA CallGoesOn ==
  ASSUME PhotosInv, NEW k \in Uploads, NEW c \in PhotoCall, c.step # "save",
         photoCall' = [photoCall EXCEPT ![k] = c], UNCHANGED <<album, shot>>,
         thinned' \in BOOLEAN, photosReadyAt' \in BOOLEAN, photosReadyAt => photosReadyAt',
         \A j \in Uploads \ {k} : photoCall[j].step \in {"mark", "count", "tell"} /\ thinned => thinned',
         Marked(k)'
  PROVE  PhotosInv'
<1>1. photoCall' \in [Uploads -> PhotoCall] /\ photoCall'[k] = c /\ \A j \in Uploads \ {k} : photoCall'[j] = photoCall[j]
  BY DEF PhotosInv
<1>2. Saving' \subseteq Saving BY <1>1 DEF Saving
<1>3. AlbumNearLimit'
  <2>1. IsFiniteSet(Saving) /\ Cardinality(Saving') <= Cardinality(Saving) BY <1>2, AlbumCounted, FS_Subset
  <2>2. Cardinality(Saving') \in Nat BY <1>2, <2>1, FS_Subset, FS_CardinalityType
  <2>3. Cardinality(album) + Cardinality(Saving') <= PHOTOS_PER_BOOKING + Cardinality(Uploads) - 1
    BY <2>1, <2>2, AlbumCounted
  <2> QED BY <2>3 DEF AlbumNearLimit, Saving
<1>4. ASSUME NEW j \in Uploads PROVE Marked(j)'
  <2>1. CASE j = k BY <2>1
  <2>2. CASE j # k BY <1>1, <2>2 DEF PhotosInv, Marked
  <2> QED BY <2>1, <2>2
<1> QED BY <1>1, <1>3, <1>4 DEF PhotosInv

LEMMA PhotoAdded == ASSUME PhotosInv, NEW k \in Uploads, NEW p \in Shots, addPhoto(k, p) PROVE PhotosInv'
<1> DEFINE c == [step |-> "save", photo |-> p]
<1>1. /\ photoCall[k] = NoPhotoCall /\ p \notin shot /\ Cardinality(album) < PHOTOS_PER_BOOKING
      /\ photoCall' = [photoCall EXCEPT ![k] = c] /\ shot' = shot \cup {p}
      /\ UNCHANGED <<album, thinned, photosReadyAt>>
  BY DEF addPhoto, Starts
<1>2. c \in PhotoCall BY DEF PhotoCall
<1>3. photoCall' \in [Uploads -> PhotoCall] /\ photoCall'[k] = c /\ \A j \in Uploads \ {k} : photoCall'[j] = photoCall[j]
  BY <1>1, <1>2 DEF PhotosInv
<1>4. Saving' = Saving \cup {k} /\ k \notin Saving BY <1>1, <1>3 DEF Saving, NoPhotoCall
<1>5. AlbumNearLimit'
  <2>1. Saving' \subseteq Uploads BY DEF Saving
  <2>2. IsFiniteSet(Saving') /\ Saving' \subseteq Uploads BY <2>1, AlbumCounted, FS_Subset
  <2>3. Cardinality(Saving') <= Cardinality(Uploads) /\ Cardinality(Saving') \in Nat
    BY <2>2, AlbumCounted, FS_Subset, FS_CardinalityType
  <2>4. Cardinality(album) <= PHOTOS_PER_BOOKING - 1 BY <1>1, AlbumCounted
  <2>5. Cardinality(album) + Cardinality(Saving') <= PHOTOS_PER_BOOKING + Cardinality(Uploads) - 1
    BY <2>3, <2>4, AlbumCounted
  <2> QED BY <1>1, <2>5 DEF AlbumNearLimit, Saving
<1>6. ASSUME NEW j \in Uploads PROVE Marked(j)'
  <2>1. CASE j = k BY <1>1, <1>3, <2>1 DEF Marked
  <2>2. CASE j # k BY <1>1, <1>3, <2>2 DEF PhotosInv, Marked
  <2> QED BY <2>1, <2>2
<1> QED BY <1>1, <1>3, <1>5, <1>6 DEF PhotosInv

LEMMA PhotoSaved == ASSUME PhotosInv, NEW k \in Uploads, savePhoto(k) PROVE PhotosInv'
<1> DEFINE p == photoCall[k].photo
<1>1. /\ photoCall[k].step = "save" /\ album' = album \cup {p}
      /\ photoCall' = [photoCall EXCEPT ![k] = NoPhotoCall] /\ UNCHANGED <<shot, photosReadyAt, thinned>>
  BY DEF savePhoto, Reply
<1>2. photoCall' \in [Uploads -> PhotoCall] /\ photoCall'[k] = NoPhotoCall
      /\ \A j \in Uploads \ {k} : photoCall'[j] = photoCall[j]
  BY <1>1 DEF PhotosInv, PhotoCall
<1>3. p \in shot BY <1>1 DEF PhotosInv, Marked
<1>4. Saving' = Saving \ {k} /\ k \in Saving BY <1>1, <1>2 DEF Saving, NoPhotoCall
<1>5. AlbumNearLimit'
  <2>1. Cardinality(Saving') = Cardinality(Saving) - 1 BY <1>4, AlbumCounted, FS_RemoveElement
  <2>2. Cardinality(album') \in Nat /\ Cardinality(album') <= Cardinality(album) + 1
    <3>1. CASE p \in album
      <4>1. album' = album BY <1>1, <3>1
      <4> QED BY <4>1, AlbumCounted
    <3>2. CASE p \notin album
      <4>1. Cardinality(album') = Cardinality(album) + 1
        <5>1. IsFiniteSet(album) BY AlbumCounted
        <5> HIDE DEF p
        <5> QED BY <1>1, <3>2, <5>1, FS_AddElement
      <4> QED BY <4>1, AlbumCounted
    <3> QED BY <3>1, <3>2
  <2>3. Cardinality(album') + Cardinality(Saving') <= PHOTOS_PER_BOOKING + Cardinality(Uploads) - 1
    BY <2>1, <2>2, AlbumCounted
  <2> QED BY <2>3 DEF AlbumNearLimit, Saving
<1>6. ASSUME NEW j \in Uploads PROVE Marked(j)'
  <2>1. CASE j = k BY <1>1, <1>2, <2>1 DEF Marked, NoPhotoCall
  <2>2. CASE j # k BY <1>1, <1>2, <2>2 DEF PhotosInv, Marked
  <2> QED BY <2>1, <2>2
<1> QED BY <1>1, <1>2, <1>3, <1>5, <1>6 DEF PhotosInv

LEMMA PhotoRemoved == ASSUME PhotosInv, NEW k \in Uploads, NEW p \in Shots, removePhoto(k, p) PROVE PhotosInv'
<1>1. /\ p \in album /\ album' = album \ {p} /\ UNCHANGED <<shot, photoCall, photosReadyAt>>
      /\ thinned' = (thinned \/ \E j \in Uploads : photoCall[j].step \in {"mark", "count"})
  BY DEF removePhoto, Starts
<1>2. AlbumNearLimit'
  <2>1. Cardinality(album') = Cardinality(album) - 1 BY <1>1, AlbumCounted, FS_RemoveElement
  <2>2. Saving' = Saving BY <1>1 DEF Saving
  <2>3. Cardinality(album') + Cardinality(Saving') <= PHOTOS_PER_BOOKING + Cardinality(Uploads) - 1
    BY <2>1, <2>2, AlbumCounted
  <2> QED BY <2>3 DEF AlbumNearLimit, Saving
<1>3. \A j \in Uploads : Marked(j)' BY <1>1 DEF PhotosInv, Marked
<1>4. thinned' \in BOOLEAN BY <1>1
<1> QED BY <1>1, <1>2, <1>3, <1>4 DEF PhotosInv

LEMMA ReadyMarked == ASSUME PhotosInv, NEW k \in Uploads, markReady(k) PROVE PhotosInv'
<1>1. /\ album # {} /\ photoCall' = [photoCall EXCEPT ![k] = [step |-> "mark"]] /\ UNCHANGED <<album, shot, photosReadyAt>>
      /\ thinned' = (thinned /\ \E j \in Uploads : photoCall[j].step \in {"mark", "count", "tell"})
  BY DEF markReady, Starts
<1>2. [step |-> "mark"] \in PhotoCall BY DEF PhotoCall
<1>3. thinned' \in BOOLEAN /\ photosReadyAt' \in BOOLEAN BY <1>1 DEF PhotosInv
<1>4. photoCall'[k] = [step |-> "mark"] BY <1>1 DEF PhotosInv
<1>5. Marked(k)' BY <1>1, <1>4 DEF Marked
<1> QED BY <1>1, <1>2, <1>3, <1>5, CallGoesOn

LEMMA ReadyGoesOn ==
  ASSUME PhotosInv, NEW k \in Uploads, writeReady(k) \/ readSet(k) \/ tellReady(k)
  PROVE  PhotosInv'
<1>1. photoCall \in [Uploads -> PhotoCall] /\ thinned \in BOOLEAN /\ photosReadyAt \in BOOLEAN /\ Marked(k) BY DEF PhotosInv
<1>2. CASE writeReady(k)
  <2>1. /\ photoCall[k].step = "mark" /\ photosReadyAt' = TRUE /\ UNCHANGED <<album, shot, thinned>>
        /\ photoCall' = [photoCall EXCEPT ![k] = [step |-> "count"]]
    BY <1>2 DEF writeReady
  <2>2. [step |-> "count"] \in PhotoCall BY DEF PhotoCall
  <2>3. photoCall'[k] = [step |-> "count"] BY <1>1, <2>1
  <2>4. Marked(k)' BY <1>1, <2>1, <2>3 DEF Marked
  <2> QED BY <1>1, <2>1, <2>2, <2>4, CallGoesOn
<1>3. CASE readSet(k)
  <2> DEFINE c == [step |-> "tell", count |-> Cardinality(album)]
  <2>1. /\ photoCall[k].step = "count" /\ UNCHANGED <<album, shot, thinned, photosReadyAt>>
        /\ photoCall' = [photoCall EXCEPT ![k] = c]
    BY <1>3 DEF readSet
  <2>2. c \in PhotoCall BY AlbumCounted DEF PhotoCall
  <2>3. photoCall'[k] = c BY <1>1, <2>1
  <2>4. album # {} => Cardinality(album) > 0
    BY AlbumCounted, FS_EmptySet
  <2>5. Marked(k)' BY <1>1, <2>1, <2>3, <2>4 DEF Marked
  <2> QED BY <1>1, <2>1, <2>2, <2>5, CallGoesOn
<1>4. CASE tellReady(k)
  <2>1. UNCHANGED <<album, shot, thinned, photosReadyAt>> /\ photoCall' = [photoCall EXCEPT ![k] = NoPhotoCall]
    BY <1>4 DEF tellReady, Reply
  <2>2. NoPhotoCall \in PhotoCall /\ NoPhotoCall.step = "idle" BY DEF PhotoCall, NoPhotoCall
  <2>3. photoCall'[k] = NoPhotoCall BY <1>1, <2>1
  <2>4. Marked(k)' BY <2>2, <2>3 DEF Marked
  <2> QED BY <1>1, <2>1, <2>2, <2>4, CallGoesOn
<1> QED BY <1>2, <1>3, <1>4

LEMMA PhotosStep == PhotosInv /\ [PhotosNext]_photoVars => PhotosInv'
<1> SUFFICES ASSUME PhotosInv, [PhotosNext]_photoVars PROVE PhotosInv' OBVIOUS
<1>1. CASE UNCHANGED photoVars \/ cancelVisit
  BY <1>1 DEF photoVars, cancelVisit, PhotosInv, AlbumNearLimit, Marked
<1>2. ASSUME NEW k \in Uploads, NEW p \in Shots, addPhoto(k, p) \/ removePhoto(k, p) PROVE PhotosInv'
  BY <1>2, PhotoAdded, PhotoRemoved
<1>3. ASSUME NEW k \in Uploads, savePhoto(k) \/ markReady(k) \/ writeReady(k) \/ readSet(k) \/ tellReady(k) PROVE PhotosInv'
  BY <1>3, PhotoSaved, ReadyMarked, ReadyGoesOn
<1> QED BY <1>1, <1>2, <1>3 DEF PhotosNext

LEMMA PhotosSafe == PhotosInv => PhotosTypeOK /\ PhotosHold
<1> SUFFICES ASSUME PhotosInv PROVE PhotosTypeOK /\ PhotosHold OBVIOUS
<1>1. \A k \in Uploads : photoCall[k].step \in {"idle", "save", "mark", "count", "tell"}
  BY DEF PhotosInv, PhotoCall, NoPhotoCall
<1>2. ReadyMeansPhotos BY DEF PhotosInv, Marked, ReadyMeansPhotos, photoSet
<1> QED BY <1>1, <1>2 DEF PhotosInv, PhotosTypeOK, PhotosHold
-----------------------------------------------------------------------------
(***************************************************************************)
(* What a guest is sent.                                                   *)
(***************************************************************************)

BookingRow ==
  [version : Nat, total : Nat, deposit : {t.deposit : t \in Terms}, paid : Nat, email : {c.email : c \in Contacts},
   phone : {c.phone : c \in Contacts}, status : {"confirmed", "cancelled"}]
Letter ==
  [kind : {"ticket", "waiver", "photos", "copy"}, row : BookingRow, todo : SUBSET {"email", "whatsapp"},
   sent : SUBSET {"email", "whatsapp"}, signed : Nat \ {0}, step : {"read", "alert", "send"}]

MessagesTyped ==
  /\ row \in BookingRow /\ ticketSentAt \in BOOLEAN /\ missed \in BOOLEAN
  /\ sender \in [Senders -> {Idle} \cup Letter]
  /\ secret \in Nat \ {0} /\ previousSecret \in 0..(secret - 1) /\ row.version + secret <= MaxEvents
  /\ retired = (1..secret) \ {secret, previousSecret}
  /\ changedAt \in Nat /\ changedAt <= row.version

(* What is in the inbox opens as long as its secret does; a message tells  *)
(* of the booking as it was at some moment, and a change's is its ticket.  *)
InboxSound == \A m \in inbox : m.links # {} /\ m.signed \in Nat \ {0} /\ m.signed <= secret /\ m.version \in Nat
LetterSound(m) ==
  /\ m.signed <= secret /\ m.sent \cap m.todo = {} /\ (m.step # "send" => m.kind = "ticket" /\ m.sent = {})
  /\ m.row.version <= row.version /\ (m.row.status = "cancelled" => row.status = "cancelled")

(* A ticket of the booking as it was then, or later, has come; a message   *)
(* whose end will be marked; one that tells the guest's last change.       *)
Arrived(v) == \E m \in inbox : m.kind = "ticket" /\ m.version >= v
Reached == \E m \in inbox : m.kind = "ticket"
Marks(m) == m # Idle /\ m.kind = "ticket" /\ m.sent # {}
Tidings(m) == m # Idle /\ m.kind = "ticket" /\ (m.step = "read" \/ m.row.version >= changedAt)

MessagesInv ==
  /\ MessagesTyped /\ InboxSound
  /\ \A s \in Senders : sender[s] # Idle => LetterSound(sender[s])
  /\ \A s \in Senders : Marks(sender[s]) => Arrived(sender[s].row.version)
  /\ ticketSentAt => Reached
  /\ ~ missed /\ Reached /\ ~ ticketSentAt => \E s \in Senders : Marks(sender[s])
  /\ ~ missed /\ changedAt > 0 /\ row.status # "cancelled" => Arrived(changedAt) \/ \E s \in Senders : Tidings(sender[s])

LEMMA LetterIs ==
  ASSUME NEW m \in Letter
  PROVE  /\ m # Idle /\ m.kind \in {"ticket", "waiver", "photos", "copy"} /\ m.row \in BookingRow
         /\ m.todo \subseteq {"email", "whatsapp"} /\ m.sent \subseteq {"email", "whatsapp"}
         /\ m.signed \in Nat \ {0} /\ m.step \in {"read", "alert", "send"}
BY DEF Letter, Idle

LEMMA BookingRowIs ==
  ASSUME NEW b \in BookingRow
  PROVE  /\ b.version \in Nat /\ b.total \in Nat /\ b.paid \in Nat /\ b.status \in {"confirmed", "cancelled"}
BY DEF BookingRow

LEMMA MessagesInitially == MessagesInit => MessagesInv
<1> SUFFICES ASSUME MessagesInit PROVE MessagesInv OBVIOUS
<1>1. PICK t \in Terms, c \in Contacts :
        /\ channels = c.setup
        /\ row = [version |-> 0, total |-> t.total, deposit |-> t.deposit, paid |-> 0, email |-> c.email, phone |-> c.phone, status |-> "confirmed"]
  BY DEF MessagesInit
<1>2. /\ ticketSentAt = FALSE /\ secret = 1 /\ previousSecret = 0
      /\ sender = [s \in Senders |-> Idle] /\ inbox = {} /\ retired = {}
      /\ changedAt = 0 /\ missed = FALSE /\ sends = 0
  BY DEF MessagesInit
<1>3. t.total \in Nat /\ MaxEvents \in Nat \ {0} BY MessagesAssumption
<1>4. row \in BookingRow /\ row.version = 0 BY <1>1, <1>3 DEF BookingRow
<1>5. retired = (1..secret) \ {secret, previousSecret} BY <1>2
<1>6. MessagesTyped
  <2>1. sender \in [Senders -> {Idle} \cup Letter] BY <1>2
  <2>2. secret \in Nat \ {0} /\ previousSecret \in 0..(secret - 1) /\ row.version + secret <= MaxEvents BY <1>2, <1>3, <1>4
  <2>3. changedAt \in Nat /\ changedAt <= row.version BY <1>2, <1>4
  <2>4. ticketSentAt \in BOOLEAN /\ missed \in BOOLEAN BY <1>2, Zenon
  <2> QED BY <1>4, <1>5, <2>1, <2>2, <2>3, <2>4 DEF MessagesTyped
<1>7. \A s \in Senders : sender[s] = Idle BY <1>2
<1> QED BY <1>2, <1>6, <1>7 DEF MessagesInv, InboxSound, Marks, Tidings, Reached, Arrived

(* A message as it is written.                                             *)
LEMMA MessageIs ==
  ASSUME NEW kind \in {"ticket", "waiver", "photos", "copy"}, NEW b \in BookingRow, NEW step \in {"read", "alert", "send"},
         MessagesTyped, NEW m,
         m = [Message(kind, b) EXCEPT !.step = step] \/ (step = "send" /\ m = Message(kind, b))
  PROVE  m \in Letter /\ m.kind = kind /\ m.row = b /\ m.sent = {} /\ m.signed = secret /\ m.step = step
<1>1. reachable(b) \in SUBSET {"email", "whatsapp"}
  <2>1. \A x, y : (IF x THEN {"email"} ELSE {}) \cup (IF y THEN {"whatsapp"} ELSE {}) \subseteq {"email", "whatsapp"}
    OBVIOUS
  <2> QED BY <2>1, Zenon DEF reachable
<1>2. secret \in Nat \ {0} BY DEF MessagesTyped
<1>3. m = [kind |-> kind, row |-> b, todo |-> reachable(b), sent |-> {}, signed |-> secret, step |-> step]
  BY DEF Message, token
<1> QED BY <1>1, <1>2, <1>3 DEF Letter

(* What is on its way stays sound as the booking changes.                  *)
LEMMA LettersStay ==
  ASSUME NEW m \in Letter, LetterSound(m), row \in BookingRow, row' \in BookingRow, row.version <= row'.version,
         row.status = "cancelled" => row'.status = "cancelled",
         secret \in Nat, secret' \in Nat, secret <= secret'
  PROVE  LetterSound(m)'
<1>1. m.row.version \in Nat /\ m.signed \in Nat BY LetterIs, BookingRowIs
<1>2. row.version \in Nat /\ row'.version \in Nat BY BookingRowIs
<1> QED BY <1>1, <1>2 DEF LetterSound

(* A message begins, or its sender goes on to what is written later.       *)
LEMMA Proceeds ==
  ASSUME MessagesInv, NEW s \in Senders, NEW m \in {Idle} \cup Letter, sender' = [sender EXCEPT ![s] = m],
         ~ Marks(sender[s]), m # Idle => LetterSound(m)' /\ m.sent = {},
         row' \in BookingRow, row.version <= row'.version, row'.version + secret <= MaxEvents,
         row.status = "cancelled" => row'.status = "cancelled",
         changedAt' = changedAt \/ changedAt' = row'.version,
         (Tidings(sender[s]) \/ changedAt' # changedAt) /\ row'.status # "cancelled" => Tidings(m)',
         UNCHANGED <<ticketSentAt, inbox, missed, secret, previousSecret, retired>>
  PROVE  MessagesInv'
<1>1. MessagesTyped BY DEF MessagesInv
<1>2. \A g \in Senders \ {s} : sender'[g] = sender[g] BY <1>1 DEF MessagesTyped
<1>3. sender'[s] = m /\ sender' \in [Senders -> {Idle} \cup Letter] BY <1>1 DEF MessagesTyped
<1>4. row \in BookingRow /\ secret \in Nat /\ changedAt \in Nat /\ changedAt <= row.version BY <1>1 DEF MessagesTyped
<1>5. row.version \in Nat /\ row'.version \in Nat BY <1>4, BookingRowIs
<1>6. MessagesTyped'
  <2>1. changedAt' \in Nat /\ changedAt' <= row'.version BY <1>4, <1>5
  <2> QED BY <1>1, <1>3, <2>1 DEF MessagesTyped
<1>7. InboxSound' BY DEF MessagesInv, InboxSound
<1>8. (\A g \in Senders : sender[g] # Idle => LetterSound(sender[g]))'
  <2> SUFFICES ASSUME NEW g \in Senders, sender'[g] # Idle PROVE LetterSound(sender[g])' OBVIOUS
  <2> PICK e : e = sender'[g] OBVIOUS
  <2>1. CASE g = s BY <1>3, <2>1
  <2>2. CASE g # s
    <3>1. e \in Letter /\ LetterSound(e) BY <1>1, <1>2, <2>2 DEF MessagesInv, MessagesTyped
    <3>2. LetterSound(e)' BY <1>4, <3>1, LettersStay
    <3> QED BY <3>2
  <2> QED BY <2>1, <2>2
<1>9. (\A g \in Senders : Marks(sender[g]) => Arrived(sender[g].row.version))'
  <2> SUFFICES ASSUME NEW g \in Senders, Marks(sender[g])' PROVE Arrived(sender[g].row.version)' OBVIOUS
  <2>1. g # s BY <1>3 DEF Marks
  <2>2. Marks(sender[g]) BY <1>2, <2>1 DEF Marks
  <2>3. Arrived(sender[g].row.version) BY <2>2 DEF MessagesInv
  <2> QED BY <1>2, <2>1, <2>3 DEF Arrived
<1>10. (ticketSentAt => Reached)' BY DEF MessagesInv, Reached
<1>11. (~ missed /\ Reached /\ ~ ticketSentAt => \E g \in Senders : Marks(sender[g]))'
  <2> SUFFICES ASSUME ~ missed, Reached, ~ ticketSentAt PROVE \E g \in Senders : Marks(sender[g])' BY DEF Reached
  <2>1. PICK g \in Senders : Marks(sender[g]) BY DEF MessagesInv
  <2>2. g # s BY <2>1
  <2> QED BY <1>2, <2>1, <2>2 DEF Marks
<1>12. (~ missed /\ changedAt > 0 /\ row.status # "cancelled" => Arrived(changedAt) \/ \E g \in Senders : Tidings(sender[g]))'
  <2> SUFFICES ASSUME ~ missed, changedAt' > 0, row'.status # "cancelled"
               PROVE  Arrived(changedAt)' \/ \E g \in Senders : Tidings(sender[g])'
    OBVIOUS
  <2>1. CASE Tidings(sender[s]) \/ changedAt' # changedAt BY <1>3, <2>1 DEF Tidings
  <2>2. CASE changedAt' = changedAt /\ ~ Tidings(sender[s])
    <3>1. Arrived(changedAt) \/ \E g \in Senders : Tidings(sender[g]) BY <2>2 DEF MessagesInv
    <3>2. CASE Arrived(changedAt) BY <2>2, <3>2 DEF Arrived
    <3>3. ASSUME NEW g \in Senders, Tidings(sender[g]) PROVE Tidings(sender[g])'
      <4>1. g # s BY <2>2, <3>3
      <4> QED BY <1>2, <2>2, <3>3, <4>1 DEF Tidings
    <3> QED BY <3>1, <3>2, <3>3
  <2> QED BY <2>1, <2>2
<1> QED BY <1>6, <1>7, <1>8, <1>9, <1>10, <1>11, <1>12 DEF MessagesInv

LEMMA Begins ==
  ASSUME MessagesInv, NEW s \in Senders, NEW kind \in {"ticket", "waiver", "photos", "copy"}, NEW b \in BookingRow, NEW m,
         m = Message(kind, b) \/ (kind = "ticket" /\ m = [Message(kind, b) EXCEPT !.step = "read"]), Begin(s, m),
         row' \in BookingRow, row.version <= row'.version, row'.version + secret <= MaxEvents,
         row.status = "cancelled" => row'.status = "cancelled",
         b.version <= row'.version, b.status = "cancelled" => row'.status = "cancelled",
         changedAt' = changedAt \/ (changedAt' = row'.version /\ kind = "ticket" /\ m.step = "read"),
         UNCHANGED <<ticketSentAt, inbox, missed, secret, previousSecret, retired>>
  PROVE  MessagesInv'
<1>1. MessagesTyped BY DEF MessagesInv
<1>2. sender[s] = Idle /\ sender' = [sender EXCEPT ![s] = m] BY DEF Begin
<1>3. m \in Letter /\ m.kind = kind /\ m.row = b /\ m.sent = {} /\ m.signed = secret /\ (m.step # "send" => m.kind = "ticket")
  <2>1. CASE m = Message(kind, b) BY <1>1, <2>1, MessageIs
  <2>2. CASE kind = "ticket" /\ m = [Message(kind, b) EXCEPT !.step = "read"] BY <1>1, <2>2, MessageIs
  <2> QED BY <2>1, <2>2
<1>4. secret \in Nat BY <1>1 DEF MessagesTyped
<1>5. LetterSound(m)' BY <1>3, <1>4 DEF LetterSound
<1>6. ~ Marks(sender[s]) /\ ~ Tidings(sender[s]) BY <1>2 DEF Marks, Tidings
<1>7. changedAt' # changedAt => Tidings(m)' BY <1>3, LetterIs DEF Tidings
<1> QED BY <1>2, <1>3, <1>5, <1>6, <1>7, Proceeds

LEMMA WrittenIs ==
  ASSUME MessagesTyped, NEW b \in BookingRow, Written(b), secret' = secret
  PROVE  /\ row' \in BookingRow /\ row'.version = row.version + 1 /\ row.version < row'.version
         /\ row'.status = b.status /\ row'.version + secret <= MaxEvents
<1>1. row \in BookingRow /\ secret \in Nat /\ row.version \in Nat BY BookingRowIs DEF MessagesTyped
<1>2. row.version + secret < MaxEvents /\ row' = [b EXCEPT !.version = row.version + 1] BY DEF Written
<1>3. row.version + 1 \in Nat BY <1>1
<1>4. row' \in BookingRow /\ row'.version = row.version + 1 /\ row'.status = b.status BY <1>2, <1>3 DEF BookingRow
<1>5. MaxEvents \in Nat BY MessagesAssumption
<1> QED BY <1>1, <1>2, <1>4, <1>5

LEMMA OneResends ==
  ASSUME MessagesInv, NEW s \in Senders, NEW kind \in {"ticket", "waiver", "photos", "copy"}, resend(s, kind)
  PROVE  MessagesInv'
<1>1. /\ Begin(s, Message(kind, row)) /\ UNCHANGED <<row, ticketSentAt, inbox, changedAt, missed>>
      /\ UNCHANGED <<secret, previousSecret, retired>>
  BY DEF resend, Rest
<1>2. row \in BookingRow /\ row.version + secret <= MaxEvents BY DEF MessagesInv, MessagesTyped
<1>3. row.version \in Nat BY <1>2, BookingRowIs
<1>4. row' = row /\ row' \in BookingRow /\ row.version <= row'.version /\ row'.version + secret <= MaxEvents BY <1>1, <1>2, <1>3
<1> PICK b : b = row OBVIOUS
<1> PICK m : m = Message(kind, b) OBVIOUS
<1>5. Begin(s, m) /\ b \in BookingRow /\ b.version <= row'.version /\ (b.status = "cancelled" => row'.status = "cancelled")
  BY <1>1, <1>2, <1>4
<1> QED BY <1>1, <1>4, <1>5, Begins

LEMMA OneChanges ==
  ASSUME MessagesInv, NEW s \in Senders, NEW t \in Terms, NEW status \in {"confirmed", "cancelled"}, guestChange(s, t, status)
  PROVE  MessagesInv'
<1> PICK b : b = [row EXCEPT !.total = t.total, !.status = status] OBVIOUS
<1> PICK after : after = row' OBVIOUS
<1> PICK m : m = [Message("ticket", after) EXCEPT !.step = "read"] OBVIOUS
<1>1. /\ row.status = "confirmed" /\ Written(b) /\ Begin(s, m) /\ changedAt' = after.version
      /\ UNCHANGED <<ticketSentAt, inbox, missed>> /\ UNCHANGED <<secret, previousSecret, retired>>
  BY DEF guestChange, Rest
<1>2. MessagesTyped /\ row \in BookingRow BY DEF MessagesInv, MessagesTyped
<1>3. b \in BookingRow
  <2>1. b = [[row EXCEPT !.total = t.total] EXCEPT !.status = status] OBVIOUS
  <2>2. t.total \in Nat BY MessagesAssumption
  <2>3. [row EXCEPT !.total = t.total] \in BookingRow BY <1>2, <2>2 DEF BookingRow
  <2>4. \A d \in BookingRow : [d EXCEPT !.status = status] \in BookingRow BY DEF BookingRow
  <2> QED BY <2>1, <2>3, <2>4
<1>4. /\ after \in BookingRow /\ row.version <= after.version /\ after.version + secret <= MaxEvents
  <2>1. row' \in BookingRow /\ row.version < row'.version /\ row'.version + secret <= MaxEvents BY <1>1, <1>2, <1>3, WrittenIs
  <2>2. row.version \in Nat /\ row'.version \in Nat BY <1>2, <2>1, BookingRowIs
  <2> QED BY <2>1, <2>2
<1>5. m.step = "read" BY <1>2, <1>4, MessageIs
<1>6. after.version \in Nat BY <1>4, BookingRowIs
<1>7. /\ row' \in BookingRow /\ row.version <= row'.version /\ row'.version + secret <= MaxEvents
      /\ after.version <= row'.version /\ (after.status = "cancelled" => row'.status = "cancelled")
  BY <1>4, <1>6
<1>8. (row.status = "cancelled" => row'.status = "cancelled") /\ changedAt' = row'.version BY <1>1
<1>9. UNCHANGED <<ticketSentAt, inbox, missed, secret, previousSecret, retired>> BY <1>1
<1>10. "ticket" \in {"ticket", "waiver", "photos", "copy"} /\ m = [Message("ticket", after) EXCEPT !.step = "read"] /\ Begin(s, m)
  BY <1>1
<1> QED BY <1>4, <1>5, <1>7, <1>8, <1>9, <1>10, Begins

LEMMA OnePays ==
  ASSUME MessagesInv, NEW s \in Senders, sendTicketAfterCommit(s)
  PROVE  MessagesInv'
<1>1. PICK b \in {row, row'} : Begin(s, Message("ticket", b)) BY DEF sendTicketAfterCommit
<1>2. /\ Written([row EXCEPT !.paid = row.total]) /\ UNCHANGED <<ticketSentAt, inbox, changedAt, missed>>
      /\ UNCHANGED <<secret, previousSecret, retired>>
  BY DEF sendTicketAfterCommit, Rest
<1>3. MessagesTyped /\ row \in BookingRow BY DEF MessagesInv, MessagesTyped
<1>4. [row EXCEPT !.paid = row.total] \in BookingRow /\ [row EXCEPT !.paid = row.total].status = row.status
  BY <1>3 DEF BookingRow
<1>5. row' \in BookingRow /\ row.version < row'.version /\ row'.version + secret <= MaxEvents /\ row'.status = row.status
  BY <1>2, <1>3, <1>4, WrittenIs
<1>6. row.version \in Nat /\ row'.version \in Nat BY <1>3, <1>5, BookingRowIs
<1>7. b \in BookingRow /\ b.version <= row'.version /\ (b.status = "cancelled" => row'.status = "cancelled")
      /\ row.version <= row'.version
  BY <1>3, <1>5, <1>6
<1> QED BY <1>1, <1>2, <1>5, <1>7, Begins

LEMMA OneReadsChanged ==
  ASSUME MessagesInv, NEW s \in Senders, ReadChanged(s)
  PROVE  MessagesInv'
<1> PICK m : m = [Message("ticket", row) EXCEPT !.step = "alert"] OBVIOUS
<1>1. /\ sender[s] # Idle /\ sender[s].step = "read" /\ sender' = [sender EXCEPT ![s] = m]
      /\ UNCHANGED <<row, ticketSentAt, inbox, changedAt, missed, secret, previousSecret, retired>>
  BY DEF ReadChanged, afterGuestChange, Rest
<1>2. MessagesTyped /\ row \in BookingRow /\ row.version + secret <= MaxEvents /\ changedAt <= row.version
      /\ changedAt \in Nat /\ secret \in Nat
  BY DEF MessagesInv, MessagesTyped
<1>3. LetterSound(sender[s]) BY <1>1 DEF MessagesInv
<1>4. ~ Marks(sender[s]) BY <1>1, <1>3 DEF Marks, LetterSound
<1>5. m \in Letter /\ m.kind = "ticket" /\ m.row = row /\ m.sent = {} /\ m.signed = secret /\ m.step = "alert"
  BY <1>2, MessageIs
<1>6. row' = row /\ row.version \in Nat BY <1>1, <1>2, BookingRowIs
<1>7. LetterSound(m)' BY <1>1, <1>2, <1>5, <1>6 DEF LetterSound
<1>8. Tidings(m)' BY <1>1, <1>2, <1>5, <1>6, LetterIs DEF Tidings
<1>9. /\ row' \in BookingRow /\ row.version <= row'.version /\ row'.version + secret <= MaxEvents
      /\ (row.status = "cancelled" => row'.status = "cancelled")
  BY <1>2, <1>6
<1> QED BY <1>1, <1>4, <1>5, <1>7, <1>8, <1>9, Proceeds

LEMMA OneAlerts ==
  ASSUME MessagesInv, NEW s \in Senders, notifyGuestChange(s)
  PROVE  MessagesInv'
<1> PICK c : c = sender[s] OBVIOUS
<1> PICK b : b = c.row OBVIOUS
<1> PICK m : m = IF b.status = "cancelled" THEN Idle ELSE Message("ticket", b) OBVIOUS
<1>1. /\ c # Idle /\ c.step = "alert" /\ sender' = [sender EXCEPT ![s] = m]
      /\ UNCHANGED <<row, ticketSentAt, inbox, changedAt, missed, secret, previousSecret, retired>>
  BY DEF notifyGuestChange, Rest, MessagesInv, MessagesTyped
<1>2. MessagesTyped /\ row \in BookingRow /\ row.version + secret <= MaxEvents /\ secret \in Nat
  BY DEF MessagesInv, MessagesTyped
<1>3. c \in Letter /\ LetterSound(c) BY <1>1, <1>2 DEF MessagesInv, MessagesTyped
<1>4. ~ Marks(c) BY <1>1, <1>3 DEF Marks, LetterSound
<1>5. b \in BookingRow BY <1>3, LetterIs
<1>6. row' = row /\ row.version \in Nat BY <1>1, <1>2, BookingRowIs
<1>7. /\ row' \in BookingRow /\ row.version <= row'.version /\ row'.version + secret <= MaxEvents
      /\ (row.status = "cancelled" => row'.status = "cancelled")
  BY <1>2, <1>6
<1>8. CASE b.status = "cancelled"
  <2>1. m = Idle /\ row'.status = "cancelled" BY <1>3, <1>6, <1>8 DEF LetterSound
  <2> QED BY <1>1, <1>4, <1>7, <2>1, Proceeds
<1>9. CASE b.status # "cancelled"
  <2>1. m = Message("ticket", b) BY <1>9
  <2>2. m \in Letter /\ m.kind = "ticket" /\ m.row = b /\ m.sent = {} /\ m.signed = secret /\ m.step = "send"
    BY <1>2, <1>5, <2>1, MessageIs
  <2>3. LetterSound(m)' BY <1>1, <1>2, <1>3, <1>6, <2>2 DEF LetterSound
  <2>4. Tidings(c) => Tidings(m)' BY <1>1, <2>2, LetterIs DEF Tidings
  <2> QED BY <1>1, <1>4, <1>7, <2>2, <2>3, <2>4, Proceeds
<1> QED BY <1>8, <1>9

(* The desk writes the row and sends nothing.                              *)
LEMMA DeskWrites ==
  ASSUME MessagesInv, NEW b \in BookingRow, Written(b), b.status = row.status,
         UNCHANGED <<ticketSentAt, sender, inbox, changedAt, missed, secret, previousSecret, retired>>
  PROVE  MessagesInv'
<1>1. MessagesTyped /\ row \in BookingRow /\ changedAt \in Nat /\ changedAt <= row.version /\ secret \in Nat
  BY DEF MessagesInv, MessagesTyped
<1>2. row' \in BookingRow /\ row.version < row'.version /\ row'.version + secret <= MaxEvents /\ row'.status = row.status
  BY <1>1, WrittenIs
<1>3. row.version \in Nat /\ row'.version \in Nat BY <1>1, <1>2, BookingRowIs
<1>4. MessagesTyped' BY <1>1, <1>2, <1>3 DEF MessagesTyped
<1>5. InboxSound' BY DEF MessagesInv, InboxSound
<1>6. (\A s \in Senders : sender[s] # Idle => LetterSound(sender[s]))'
  <2> SUFFICES ASSUME NEW s \in Senders, sender[s] # Idle PROVE LetterSound(sender[s])' OBVIOUS
  <2> PICK e : e = sender[s] OBVIOUS
  <2>1. e \in Letter /\ LetterSound(e) BY <1>1 DEF MessagesInv, MessagesTyped
  <2>2. LetterSound(e)' BY <1>1, <1>2, <1>3, <2>1, LettersStay
  <2> QED BY <2>2
<1>7. (\A s \in Senders : Marks(sender[s]) => Arrived(sender[s].row.version))' BY DEF MessagesInv, Marks, Arrived
<1>8. (ticketSentAt => Reached)' BY DEF MessagesInv, Reached
<1>9. (~ missed /\ Reached /\ ~ ticketSentAt => \E s \in Senders : Marks(sender[s]))'
  BY DEF MessagesInv, Reached, Marks
<1>10. (~ missed /\ changedAt > 0 /\ row.status # "cancelled" => Arrived(changedAt) \/ \E s \in Senders : Tidings(sender[s]))'
  BY <1>2 DEF MessagesInv, Arrived, Tidings
<1> QED BY <1>4, <1>5, <1>6, <1>7, <1>8, <1>9, <1>10 DEF MessagesInv

LEMMA LinksAre ==
  ASSUME NEW kind \in {"ticket", "waiver", "photos", "copy"}, NEW channel \in {"email", "whatsapp"}
  PROVE  links(kind, channel) # {}
BY DEF links, renderWaiverLinkEmail, photosReady, documentPayload, renderCopy, ticketWhatsApp, renderTicketEmail

(* A channel is tried: what it delivers is in the inbox, and is no longer  *)
(* to do.                                                                  *)
LEMMA OneDelivers ==
  ASSUME MessagesInv, NEW s \in Senders, NEW channel \in {"email", "whatsapp"}, NEW ok \in BOOLEAN, deliver(s, channel, ok)
  PROVE  MessagesInv'
<1> PICK c : c = sender[s] OBVIOUS
<1> PICK came : came = Received(c, channel) OBVIOUS
<1> PICK d : d = [c EXCEPT !.todo = c.todo \ {channel}, !.sent = IF ok THEN c.sent \cup {channel} ELSE c.sent] OBVIOUS
<1>1. /\ c # Idle /\ c.step = "send" /\ channel \in c.todo
      /\ UNCHANGED <<row, ticketSentAt, changedAt, missed, secret, previousSecret, retired>>
  BY DEF deliver, Rest
<1>2. MessagesTyped /\ row \in BookingRow /\ row.version + secret <= MaxEvents /\ secret \in Nat /\ changedAt \in Nat
  BY DEF MessagesInv, MessagesTyped
<1>3. c \in Letter /\ LetterSound(c) BY <1>1, <1>2 DEF MessagesInv, MessagesTyped
<1>4. inbox' = IF ok THEN inbox \cup {came} ELSE inbox BY DEF deliver, sendMail, sendWhatsApp
<1>5. PICK sent : /\ sent = IF ok THEN c.sent \cup {channel} ELSE c.sent
                  /\ d = [kind |-> c.kind, row |-> c.row, todo |-> c.todo \ {channel}, sent |-> sent, signed |-> c.signed, step |-> c.step]
  <2>1. c = [kind |-> c.kind, row |-> c.row, todo |-> c.todo, sent |-> c.sent, signed |-> c.signed, step |-> c.step]
    BY <1>3 DEF Letter
  <2> QED BY <2>1
<1>6. sent \subseteq {"email", "whatsapp"} /\ sent \cap (c.todo \ {channel}) = {}
  BY <1>1, <1>3, <1>5, LetterIs DEF LetterSound
<1>7. d \in Letter /\ d.kind = c.kind /\ d.row = c.row /\ d.signed = c.signed /\ d.step = c.step /\ d.sent = sent
      /\ d.todo = c.todo \ {channel}
  <2> PICK todo : todo = c.todo \ {channel} OBVIOUS
  <2>1. d = [kind |-> c.kind, row |-> c.row, todo |-> todo, sent |-> sent, signed |-> c.signed, step |-> c.step] BY <1>5
  <2>2. todo \in SUBSET {"email", "whatsapp"} BY <1>3, LetterIs
  <2>3. c.kind \in {"ticket", "waiver", "photos", "copy"} /\ c.row \in BookingRow /\ c.signed \in Nat \ {0}
        /\ c.step \in {"read", "alert", "send"}
    BY <1>3, LetterIs
  <2>4. sent \in SUBSET {"email", "whatsapp"} BY <1>6
  <2> HIDE DEF BookingRow
  <2>5. d \in Letter BY ONLY <2>1, <2>2, <2>3, <2>4 DEF Letter
  <2>6. d.kind = c.kind /\ d.row = c.row /\ d.signed = c.signed /\ d.step = c.step /\ d.sent = sent /\ d.todo = todo
    BY ONLY <2>1
  <2> QED BY <2>5, <2>6
<1>8. sender' = [sender EXCEPT ![s] = d]
  <2>1. sender' = [sender EXCEPT ![s].todo = @ \ {channel}, ![s].sent = IF ok THEN @ \cup {channel} ELSE @] BY DEF deliver
  <2>2. sender \in [Senders -> {Idle} \cup Letter] BY <1>2 DEF MessagesTyped
  <2>3. sender' = [g \in Senders |-> sender'[g]] BY <2>1, <2>2
  <2>4. \A g \in Senders \ {s} : sender'[g] = sender[g] BY <2>1, <2>2
  <2>5. sender'[s] = d
    <3>1. CASE ok
      <4>1. sender' = [sender EXCEPT ![s].todo = @ \ {channel}, ![s].sent = @ \cup {channel}] BY <2>1, <3>1
      <4>2. d = [c EXCEPT !.todo = c.todo \ {channel}, !.sent = c.sent \cup {channel}] BY <3>1
      <4> QED BY <1>3, <2>2, <4>1, <4>2 DEF Letter
    <3>2. CASE ~ ok
      <4>1. sender' = [sender EXCEPT ![s].todo = @ \ {channel}, ![s].sent = @] BY <2>1, <3>2
      <4>2. d = [c EXCEPT !.todo = c.todo \ {channel}, !.sent = c.sent] BY <3>2
      <4> QED BY <1>3, <2>2, <4>1, <4>2 DEF Letter
    <3> QED BY <3>1, <3>2
  <2> QED BY <2>2, <2>3, <2>4, <2>5
<1>9. sender'[s] = d /\ \A g \in Senders \ {s} : sender'[g] = sender[g] BY <1>2, <1>8 DEF MessagesTyped
<1>10. came.kind = c.kind /\ came.version = c.row.version /\ came.signed = c.signed /\ came.links # {}
  BY <1>3, LetterIs, LinksAre DEF Received
<1>11. MessagesTyped' BY <1>1, <1>2, <1>7, <1>8 DEF MessagesTyped
<1>12. c.row.version \in Nat BY <1>3, LetterIs, BookingRowIs
<1>13. InboxSound' BY <1>1, <1>3, <1>4, <1>10, <1>12, LetterIs DEF MessagesInv, InboxSound, LetterSound
<1>14. LetterSound(d)' BY <1>1, <1>3, <1>6, <1>7 DEF LetterSound
<1>15. (\A g \in Senders : sender[g] # Idle => LetterSound(sender[g]))'
  <2> SUFFICES ASSUME NEW g \in Senders, sender'[g] # Idle PROVE LetterSound(sender[g])' OBVIOUS
  <2>1. CASE g = s BY <1>9, <1>14, <2>1
  <2>2. CASE g # s BY <1>1, <1>9, <2>2 DEF MessagesInv, LetterSound
  <2> QED BY <2>1, <2>2
<1>16. inbox \subseteq inbox' BY <1>4
<1>17. ASSUME ok, c.kind = "ticket" PROVE Arrived(c.row.version)'
  BY <1>4, <1>10, <1>12, <1>17 DEF Arrived
<1>18. (\A g \in Senders : Marks(sender[g]) => Arrived(sender[g].row.version))'
  <2> SUFFICES ASSUME NEW g \in Senders, Marks(sender[g])' PROVE Arrived(sender[g].row.version)' OBVIOUS
  <2>1. CASE g = s
    <3>1. d.kind = "ticket" /\ d.sent # {} BY <1>9, <2>1 DEF Marks
    <3>2. CASE ok BY <1>7, <1>9, <1>17, <2>1, <3>1, <3>2
    <3>3. CASE ~ ok
      <4>1. Marks(sender[s]) BY <1>1, <1>5, <1>7, <3>1, <3>3 DEF Marks
      <4>2. Arrived(c.row.version) BY <4>1 DEF MessagesInv
      <4>3. Arrived(c.row.version)' BY <1>16, <4>2 DEF Arrived
      <4> QED BY <1>7, <1>9, <2>1, <4>3
    <3> QED BY <3>2, <3>3
  <2>2. CASE g # s
    <3>1. Arrived(sender[g].row.version) BY <1>9, <2>2 DEF Marks, MessagesInv
    <3> QED BY <1>9, <1>16, <2>2, <3>1 DEF Arrived
  <2> QED BY <2>1, <2>2
<1>19. (ticketSentAt => Reached)' BY <1>1, <1>16 DEF MessagesInv, Reached
<1>20. (~ missed /\ Reached /\ ~ ticketSentAt => \E g \in Senders : Marks(sender[g]))'
  <2> SUFFICES ASSUME ~ missed, Reached', ~ ticketSentAt PROVE \E g \in Senders : Marks(sender[g])' BY <1>1
  <2>1. CASE ok /\ c.kind = "ticket"
    <3>1. d.sent # {} BY <1>5, <1>7, <2>1
    <3>2. d # Idle /\ d.kind = "ticket" BY <1>7, <2>1, LetterIs
    <3>3. Marks(d) BY ONLY <3>1, <3>2 DEF Marks
    <3> QED BY ONLY <1>9, <3>3 DEF Marks
  <2>2. CASE ~ (ok /\ c.kind = "ticket")
    <3>1. Reached BY <1>4, <1>10, <2>2 DEF Reached
    <3>2. PICK g \in Senders : Marks(sender[g]) BY <3>1 DEF MessagesInv
    <3>3. CASE g = s
      <4>1. d.sent # {} BY <1>5, <1>7, <3>2, <3>3 DEF Marks
      <4>2. d.kind = "ticket" /\ d # Idle BY <1>7, <3>2, <3>3, LetterIs DEF Marks
      <4> QED BY <1>9, <4>1, <4>2 DEF Marks
    <3>4. CASE g # s BY <1>9, <3>2, <3>4 DEF Marks
    <3> QED BY <3>3, <3>4
  <2> QED BY <2>1, <2>2
<1>21. (~ missed /\ changedAt > 0 /\ row.status # "cancelled" => Arrived(changedAt) \/ \E g \in Senders : Tidings(sender[g]))'
  <2> SUFFICES ASSUME ~ missed, changedAt > 0, row.status # "cancelled"
               PROVE  Arrived(changedAt)' \/ \E g \in Senders : Tidings(sender[g])'
    BY <1>1
  <2>1. Arrived(changedAt) \/ \E g \in Senders : Tidings(sender[g]) BY DEF MessagesInv
  <2>2. CASE Arrived(changedAt) BY <1>1, <1>16, <2>2 DEF Arrived
  <2>3. ASSUME NEW g \in Senders, Tidings(sender[g]) PROVE Tidings(sender[g])'
    <3>1. CASE g = s BY <1>1, <1>7, <1>9, <2>3, <3>1, LetterIs, ZenonT(60) DEF Tidings
    <3>2. CASE g # s BY <1>1, <1>9, <2>3, <3>2 DEF Tidings
    <3> QED BY <3>1, <3>2
  <2> QED BY <2>1, <2>2, <2>3
<1> QED BY <1>11, <1>13, <1>15, <1>18, <1>19, <1>20, <1>21 DEF MessagesInv

LEMMA OneEdits ==
  ASSUME MessagesInv, NEW t \in Terms, deskEdit(t)
  PROVE  MessagesInv'
<1> PICK b : b = [row EXCEPT !.total = t.total] OBVIOUS
<1>1. Written(b) /\ UNCHANGED <<ticketSentAt, sender, inbox, changedAt, missed, secret, previousSecret, retired>>
  BY DEF deskEdit, Rest
<1>2. row \in BookingRow BY DEF MessagesInv, MessagesTyped
<1>3. t.total \in Nat BY MessagesAssumption
<1>4. b \in BookingRow /\ b.status = row.status BY <1>2, <1>3 DEF BookingRow
<1> QED BY <1>1, <1>4, DeskWrites

LEMMA OneTakes ==
  ASSUME MessagesInv, deskTakes
  PROVE  MessagesInv'
<1> PICK b : b = [row EXCEPT !.paid = row.paid + 1] OBVIOUS
<1>1. Written(b) /\ UNCHANGED <<ticketSentAt, sender, inbox, changedAt, missed, secret, previousSecret, retired>>
  BY DEF deskTakes, Rest
<1>2. row \in BookingRow BY DEF MessagesInv, MessagesTyped
<1>3. row.paid + 1 \in Nat BY <1>2, BookingRowIs
<1>4. b \in BookingRow /\ b.status = row.status BY <1>2, <1>3 DEF BookingRow
<1> QED BY <1>1, <1>4, DeskWrites

(* Senders let go of their messages: what is left stays sound, if a ticket *)
(* that came is marked and a message that was lost is counted.             *)
LEMMA LetGo ==
  ASSUME MessagesInv, NEW gone \in SUBSET Senders, \A g \in gone : sender'[g] = Idle, \A g \in Senders \ gone : sender'[g] = sender[g],
         sender' \in [Senders -> {Idle} \cup Letter], MessagesTyped',
         secret <= secret', secret' \in Nat, UNCHANGED <<row, inbox, changedAt>>, missed => missed', ticketSentAt => ticketSentAt',
         ticketSentAt' => Reached,
         ~ missed' => \A g \in gone : (Marks(sender[g]) => ticketSentAt') /\ (Tidings(sender[g]) => Arrived(changedAt))
  PROVE  MessagesInv'
<1>1. MessagesTyped BY DEF MessagesInv
<1>2. secret \in Nat BY <1>1 DEF MessagesTyped
<1>3. InboxSound'
  <2>1. \A m \in inbox : m.links # {} /\ m.signed \in Nat \ {0} /\ m.signed <= secret /\ m.version \in Nat BY DEF MessagesInv, InboxSound
  <2> QED BY <1>2, <2>1 DEF InboxSound
<1>4. (\A g \in Senders : sender[g] # Idle => LetterSound(sender[g]))'
  <2> SUFFICES ASSUME NEW g \in Senders, sender'[g] # Idle PROVE LetterSound(sender[g])' OBVIOUS
  <2> PICK e : e = sender[g] OBVIOUS
  <2>1. sender'[g] = e /\ g \notin gone OBVIOUS
  <2>2. e \in Letter /\ LetterSound(e) BY <1>1, <2>1 DEF MessagesInv, MessagesTyped
  <2>3. row \in BookingRow BY <1>1 DEF MessagesTyped
  <2>4. row' = row /\ row.version \in Nat BY <2>3, BookingRowIs
  <2>5. LetterSound(e)' BY <1>2, <2>2, <2>3, <2>4, LettersStay
  <2> QED BY <2>1, <2>5
<1>5. (\A g \in Senders : Marks(sender[g]) => Arrived(sender[g].row.version))'
  <2> SUFFICES ASSUME NEW g \in Senders, Marks(sender[g])' PROVE Arrived(sender[g].row.version)' OBVIOUS
  <2>1. g \notin gone /\ sender'[g] = sender[g] BY DEF Marks
  <2>2. Arrived(sender[g].row.version) BY <2>1 DEF Marks, MessagesInv
  <2> QED BY <2>1, <2>2 DEF Arrived
<1>6. (ticketSentAt => Reached)' BY DEF MessagesInv, Reached
<1>7. (~ missed /\ Reached /\ ~ ticketSentAt => \E g \in Senders : Marks(sender[g]))'
  <2> SUFFICES ASSUME ~ missed', Reached, ~ ticketSentAt' PROVE \E g \in Senders : Marks(sender[g])' BY DEF Reached
  <2>1. PICK g \in Senders : Marks(sender[g]) BY DEF MessagesInv
  <2>2. g \notin gone BY <2>1
  <2> QED BY <2>1, <2>2 DEF Marks
<1>8. (~ missed /\ changedAt > 0 /\ row.status # "cancelled" => Arrived(changedAt) \/ \E g \in Senders : Tidings(sender[g]))'
  <2> SUFFICES ASSUME ~ missed', changedAt > 0, row.status # "cancelled"
               PROVE  Arrived(changedAt)' \/ \E g \in Senders : Tidings(sender[g])'
    OBVIOUS
  <2>1. Arrived(changedAt) \/ \E g \in Senders : Tidings(sender[g]) BY DEF MessagesInv
  <2>2. CASE Arrived(changedAt) BY <2>2 DEF Arrived
  <2>3. ASSUME NEW g \in Senders, Tidings(sender[g]) PROVE Arrived(changedAt)' \/ \E f \in Senders : Tidings(sender[f])'
    <3>1. CASE g \in gone
      <4>1. Arrived(changedAt) BY <2>3, <3>1
      <4> QED BY <4>1 DEF Arrived
    <3>2. CASE g \notin gone BY <2>3, <3>2 DEF Tidings
    <3> QED BY <3>1, <3>2
  <2> QED BY <2>1, <2>2, <2>3
<1> QED BY <1>3, <1>4, <1>5, <1>6, <1>7, <1>8 DEF MessagesInv

LEMMA OneFinishes ==
  ASSUME MessagesInv, NEW s \in Senders, finish(s)
  PROVE  MessagesInv'
<1> PICK c : c = sender[s] OBVIOUS
<1>1. /\ c # Idle /\ c.step = "send" /\ sender' = [sender EXCEPT ![s] = Idle]
      /\ UNCHANGED <<row, inbox, changedAt, secret, previousSecret, retired>>
  BY DEF finish, Rest
<1>2. ticketSentAt' = (ticketSentAt \/ (c.kind = "ticket" /\ c.sent # {})) BY Zenon DEF finish, MarkSent
<1>3. missed' = (missed \/ c.sent = {}) BY Zenon DEF finish
<1>4. MessagesTyped BY DEF MessagesInv
<1>5. c \in Letter BY <1>1, <1>4 DEF MessagesTyped
<1>6. sender' \in [Senders -> {Idle} \cup Letter] /\ sender'[s] = Idle /\ \A g \in Senders \ {s} : sender'[g] = sender[g]
  BY <1>1, <1>4 DEF MessagesTyped
<1>7. ticketSentAt' \in BOOLEAN /\ missed' \in BOOLEAN BY <1>2, <1>3, Zenon
<1>8. MessagesTyped' BY <1>1, <1>4, <1>6, <1>7 DEF MessagesTyped
<1>9. (missed => missed') /\ (ticketSentAt => ticketSentAt') BY <1>2, <1>3, Zenon
<1>10. Marks(c) => Arrived(c.row.version) BY DEF MessagesInv
<1>11. ticketSentAt' => Reached
  <2>1. ticketSentAt => Reached BY DEF MessagesInv
  <2>2. c.kind = "ticket" /\ c.sent # {} => Reached BY <1>1, <1>10 DEF Marks, Arrived, Reached
  <2> QED BY <1>2, <2>1, <2>2, Zenon
<1>12. Marks(c) => ticketSentAt' BY <1>2, Zenon DEF Marks
<1>13. ~ missed' => (Tidings(c) => Arrived(changedAt))
  <2> SUFFICES ASSUME ~ missed', Tidings(c) PROVE Arrived(changedAt) OBVIOUS
  <2>1. c.sent # {} BY <1>3, Zenon
  <2>2. c.row.version >= changedAt /\ Marks(c) BY <1>1, <2>1 DEF Marks, Tidings
  <2>3. PICK m \in inbox : m.kind = "ticket" /\ m.version >= c.row.version BY <1>10, <2>2 DEF Arrived
  <2>4. c.row.version \in Nat /\ changedAt \in Nat BY <1>4, <1>5, LetterIs, BookingRowIs DEF MessagesTyped
  <2>5. m.version \in Nat BY DEF MessagesInv, InboxSound
  <2>6. m.version >= changedAt BY <2>2, <2>3, <2>4, <2>5
  <2> QED BY <2>3, <2>6 DEF Arrived
<1>14. secret \in Nat /\ secret' = secret BY <1>1, <1>4 DEF MessagesTyped
<1> PICK gone \in SUBSET Senders : gone = {s} OBVIOUS
<1> QED BY <1>1, <1>6, <1>8, <1>9, <1>11, <1>12, <1>13, <1>14, LetGo

LEMMA OneIsCut ==
  ASSUME MessagesInv, NEW s \in Senders, cut(s)
  PROVE  MessagesInv'
<1>1. /\ sender' = [sender EXCEPT ![s] = Idle] /\ missed' = TRUE
      /\ UNCHANGED <<row, ticketSentAt, inbox, changedAt, secret, previousSecret, retired>>
  BY DEF cut, Rest
<1>2. MessagesTyped BY DEF MessagesInv
<1>3. sender' \in [Senders -> {Idle} \cup Letter] /\ sender'[s] = Idle /\ \A g \in Senders \ {s} : sender'[g] = sender[g]
  BY <1>1, <1>2 DEF MessagesTyped
<1>4. MessagesTyped' BY <1>1, <1>2, <1>3 DEF MessagesTyped
<1>5. ticketSentAt' => Reached BY <1>1 DEF MessagesInv
<1>6. secret \in Nat /\ secret' = secret /\ secret <= secret' BY <1>1, <1>2 DEF MessagesTyped
<1> PICK gone \in SUBSET Senders : gone = {s} OBVIOUS
<1> QED BY <1>1, <1>3, <1>4, <1>5, <1>6, LetGo

LEMMA OneRotates ==
  ASSUME MessagesInv, NEW keep \in BOOLEAN, rotate(keep)
  PROVE  MessagesInv'
<1>1. /\ row.version + secret < MaxEvents /\ secret' = secret + 1 /\ previousSecret' = (IF keep THEN secret ELSE 0)
      /\ retired' = (1..secret) \ (IF keep THEN {secret} ELSE {})
      /\ UNCHANGED <<row, ticketSentAt, inbox, changedAt>>
  BY DEF rotate
<1>2. sender' = [s \in Senders |-> Idle] /\ missed' = (missed \/ \E s \in Senders : sender[s] # Idle) BY Zenon DEF rotate
<1>3. MessagesTyped BY DEF MessagesInv
<1>4. row \in BookingRow /\ secret \in Nat \ {0} /\ changedAt \in Nat BY <1>3 DEF MessagesTyped
<1>5. row.version \in Nat /\ MaxEvents \in Nat BY <1>4, BookingRowIs, MessagesAssumption
<1>6. missed' \in BOOLEAN /\ (missed => missed') BY <1>2, Zenon
<1>7. MessagesTyped'
  <2>1. secret' \in Nat \ {0} /\ previousSecret' \in 0..(secret' - 1) /\ row'.version + secret' <= MaxEvents BY <1>1, <1>4, <1>5
  <2>2. retired' = (1..secret') \ {secret', previousSecret'} BY <1>1, <1>4
  <2>3. sender' \in [Senders -> {Idle} \cup Letter] BY <1>2
  <2> QED BY <1>1, <1>3, <1>6, <2>1, <2>2, <2>3 DEF MessagesTyped
<1>8. sender' \in [Senders -> {Idle} \cup Letter] /\ \A g \in Senders : sender'[g] = Idle BY <1>2
<1>9. ~ missed' => \A g \in Senders : ~ Marks(sender[g]) /\ ~ Tidings(sender[g]) BY <1>2, Zenon DEF Marks, Tidings
<1>10. ticketSentAt' => Reached BY <1>1 DEF MessagesInv
<1>11. secret' \in Nat /\ secret <= secret' BY <1>1, <1>4
<1> PICK gone \in SUBSET Senders : gone = Senders OBVIOUS
<1> QED BY <1>1, <1>6, <1>7, <1>8, <1>9, <1>10, <1>11, LetGo

LEMMA MessagesStep == MessagesInv /\ [MessagesNext]_messageVars => MessagesInv'
<1> SUFFICES ASSUME MessagesInv, MessagesNext \/ UNCHANGED messageVars PROVE MessagesInv' OBVIOUS
<1>1. CASE UNCHANGED messageVars
  BY <1>1 DEF messageVars, MessagesInv, MessagesTyped, InboxSound, LetterSound, Arrived, Reached, Marks, Tidings
<1>2. CASE MessagesNext
  <2>1. ASSUME NEW s \in Senders, NEW kind \in {"ticket", "waiver", "photos", "copy"}, resend(s, kind) PROVE MessagesInv'
    BY <2>1, OneResends
  <2>2. ASSUME NEW s \in Senders, sendTicketAfterCommit(s) PROVE MessagesInv' BY <2>2, OnePays
  <2>3. ASSUME NEW s \in Senders, NEW t \in Terms, NEW status \in {"confirmed", "cancelled"}, guestChange(s, t, status)
        PROVE  MessagesInv'
    BY <2>3, OneChanges
  <2>4. ASSUME NEW s \in Senders, ReadChanged(s) PROVE MessagesInv' BY <2>4, OneReadsChanged
  <2>5. ASSUME NEW s \in Senders, notifyGuestChange(s) PROVE MessagesInv' BY <2>5, OneAlerts
  <2>6. ASSUME NEW s \in Senders, NEW channel \in {"email", "whatsapp"}, NEW ok \in BOOLEAN, deliver(s, channel, ok)
        PROVE  MessagesInv'
    BY <2>6, OneDelivers
  <2>7. ASSUME NEW s \in Senders, finish(s) PROVE MessagesInv' BY <2>7, OneFinishes
  <2>8. ASSUME NEW s \in Senders, cut(s) PROVE MessagesInv' BY <2>8, OneIsCut
  <2>9. ASSUME NEW t \in Terms, deskEdit(t) PROVE MessagesInv' BY <2>9, OneEdits
  <2>10. ASSUME NEW keep \in BOOLEAN, rotate(keep) PROVE MessagesInv' BY <2>10, OneRotates
  <2> QED BY <1>2, <2>1, <2>2, <2>3, <2>4, <2>5, <2>6, <2>7, <2>8, <2>9, <2>10, OneTakes DEF MessagesNext
<1> QED BY <1>1, <1>2

(* A guest is asked for what is left of the total, whatever was paid of it.*)
LEMMA BalanceIs ==
  ASSUME NEW total \in Nat, NEW paid \in Nat, NEW deposit \in 0..total, NEW b, b = [total |-> total, paid |-> paid, deposit |-> deposit]
  PROVE  balance(b) = IF paid <= total THEN total - paid ELSE 0
<1> PICK x \in Int : x = total - paid OBVIOUS
<1>1. balance(b) = Max({0, x}) BY DEF balance
<1>2. IsFiniteSet({0, x}) /\ {0, x} \in SUBSET Int /\ {0, x} # {}
  <2>1. IsFiniteSet({0}) /\ IsFiniteSet({x}) BY FS_Singleton
  <2>2. IsFiniteSet({0} \cup {x}) BY <2>1, FS_Union
  <2>3. {0, x} = {0} \cup {x} OBVIOUS
  <2>4. {0, x} \in SUBSET Int /\ {0, x} # {} OBVIOUS
  <2> QED BY <2>2, <2>3, <2>4
<1>3. Max({0, x}) \in {0, x} /\ \A y \in {0, x} : Max({0, x}) >= y BY <1>2, MaxIs
<1> QED BY <1>1, <1>3

LEMMA AsksIs == AsksTheBalance
<1> SUFFICES ASSUME NEW total \in 0..3, NEW paid \in 0..3, NEW deposit \in 0..total, NEW b,
                    b = [total |-> total, paid |-> paid, deposit |-> deposit]
             PROVE  /\ payText(b).rest = balance(b) /\ payText(b).due <= balance(b)
                    /\ payText(b).state = "paid" <=> balance(b) = 0
  BY Zenon DEF AsksTheBalance
<1>1. balance(b) = IF paid <= total THEN total - paid ELSE 0 BY BalanceIs
<1>2. b.total = total /\ b.paid = paid /\ b.deposit = deposit OBVIOUS
<1>3. CASE paid >= total
  <2>1. payText(b) = [state |-> "paid", due |-> 0, rest |-> 0] BY <1>2, <1>3 DEF payText
  <2> QED BY <1>1, <1>3, <2>1
<1>4. CASE paid < total /\ deposit > paid
  <2>1. payText(b) = [state |-> "deposit", due |-> deposit - paid, rest |-> total - paid] BY <1>2, <1>4 DEF payText
  <2> QED BY <1>1, <1>4, <2>1
<1>5. CASE paid < total /\ ~ deposit > paid
  <2>1. payText(b) = [state |-> IF paid > 0 THEN "partial" ELSE "onArrival", due |-> 0, rest |-> total - paid]
    BY <1>2, <1>5 DEF payText
  <2> QED BY <1>1, <1>5, <2>1
<1> QED BY <1>3, <1>4, <1>5

LEMMA MessagesSafe == MessagesInv => MessagesTypeOK /\ MessagesHold
<1> SUFFICES ASSUME MessagesInv PROVE MessagesTypeOK /\ MessagesHold OBVIOUS
<1>1. MessagesTyped BY DEF MessagesInv
<1>2. row \in BookingRow /\ secret \in Nat \ {0} /\ previousSecret \in 0..(secret - 1) /\ row.version + secret <= MaxEvents
      /\ retired = (1..secret) \ {secret, previousSecret} /\ changedAt \in Nat
  BY <1>1 DEF MessagesTyped
<1>3. row.version \in Nat /\ row.paid \in Nat /\ MaxEvents \in Nat BY <1>2, BookingRowIs, MessagesAssumption
<1>4. MessagesTypeOK
  <2>1. row.version \in 0..MaxEvents /\ row.paid >= 0 BY <1>2, <1>3
  <2>2. secret \in 1..MaxEvents /\ previousSecret \in 0..MaxEvents /\ previousSecret # secret BY <1>2, <1>3
  <2>3. retired \subseteq 1..MaxEvents BY <1>2, <1>3
  <2>4. ASSUME NEW s \in Senders, sender[s] # Idle
        PROVE  sender[s].todo \subseteq {"email", "whatsapp"} /\ sender[s].sent \intersect sender[s].todo = {}
    <3>1. sender[s] \in Letter BY <1>1, <2>4 DEF MessagesTyped
    <3> QED BY <2>4, <3>1, LetterIs DEF MessagesInv, LetterSound
  <2> QED BY <2>1, <2>2, <2>3, <2>4 DEF MessagesTypeOK
<1>5. LinksOpen
  <2> SUFFICES ASSUME NEW m \in inbox PROVE m.links # {} /\ (verify(m.signed) <=> m.signed \notin retired) BY DEF LinksOpen
  <2>1. m.links # {} /\ m.signed \in Nat \ {0} /\ m.signed <= secret /\ m.version \in Nat BY DEF MessagesInv, InboxSound
  <2>2. m.signed \in 1..secret BY <1>2, <2>1
  <2>3. previousSecret = 0 => m.signed # previousSecret BY <2>1
  <2> QED BY <1>2, <2>1, <2>2, <2>3 DEF verify
<1>6. MarkedIfTold
  <2>1. ticketSentAt => \E m \in inbox : m.kind = "ticket" BY DEF MessagesInv, Reached
  <2>2. Quiet /\ ~ missed /\ (\E m \in inbox : m.kind = "ticket") => ticketSentAt
    BY DEF MessagesInv, Reached, Quiet, Marks
  <2> QED BY <2>1, <2>2 DEF MarkedIfTold
<1>7. CaughtUp BY DEF MessagesInv, CaughtUp, Quiet, Tidings, Arrived
<1> QED BY <1>4, <1>5, <1>6, <1>7, AsksIs DEF MessagesHold
-----------------------------------------------------------------------------
(***************************************************************************)
(* The restaurants' tables.                                                *)
(***************************************************************************)

TableRow == [status : {"requested", "confirmed", "cancelled"}, day : Nat, email : BOOLEAN]
Decision == [step : {"save", "tell"}, of : Requests, status : {"confirmed", "cancelled"}]
Notice == [to : {"guest", "desk"}, of : Requests, status : {"requested", "confirmed", "cancelled"}]

TablesTyped ==
  /\ table \in [Requests -> {NoTable} \cup TableRow]
  /\ waiter \in [Waiters -> {NoWaiter} \cup Decision]
  /\ onItsWay \subseteq Notice
  /\ guestKnows \in [Requests -> {"none", "requested", "confirmed", "cancelled"}]
  /\ deskKnows \in [Requests -> {"none", "requested", "confirmed", "cancelled"}]
  /\ blurred \subseteq Requests

(* The guest knows the status of the table r, or the one e-mail on its way *)
(* tells it, or the operator who decided is about to write.                *)
GuestHears(r) ==
  IF table[r].email
  THEN \/ Underway("guest", r) = {} /\ guestKnows[r] = table[r].status
       \/ Underway("guest", r) = {MailTo("guest", r, table[r].status)}
       \/ \E w \in Decides(r) : waiter[w].step = "tell"
  ELSE Underway("guest", r) = {} /\ guestKnows[r] = "none"
Clear(r) ==
  /\ \A v, w \in Decides(r) : v = w
  /\ \A w \in Decides(r) : waiter[w].step = "tell" => waiter[w].status = table[r].status
  /\ deskKnows[r] = "requested" \/ Underway("desk", r) # {}
  /\ GuestHears(r)

TablesInv ==
  /\ TablesTyped
  /\ \A m \in onItsWay : m.of \in Reserved /\ (m.to = "desk" => m.status = "requested")
  /\ \A w \in Waiters : waiter[w] # NoWaiter => waiter[w].of \in Reserved
  /\ \A r \in Requests \ Reserved : guestKnows[r] = "none"
  /\ \A r \in Reserved \ blurred : Clear(r)

LEMMA TableIs ==
  ASSUME NEW t \in TableRow
  PROVE  t # NoTable /\ t.status \in {"requested", "confirmed", "cancelled"} /\ t.day \in Nat /\ t.email \in BOOLEAN
BY DEF TableRow, NoTable

LEMMA DecisionIs ==
  ASSUME NEW d \in Decision
  PROVE  d # NoWaiter /\ d.step \in {"save", "tell"} /\ d.of \in Requests /\ d.status \in {"confirmed", "cancelled"}
BY DEF Decision, NoWaiter

LEMMA NoticeIs ==
  ASSUME NEW m \in Notice
  PROVE  /\ m.to \in {"guest", "desk"} /\ m.of \in Requests /\ m.status \in {"requested", "confirmed", "cancelled"}
         /\ m = MailTo(m.to, m.of, m.status)
BY DEF Notice, MailTo

LEMMA MailIs ==
  ASSUME NEW who \in {"guest", "desk"}, NEW r \in Requests, NEW status \in {"requested", "confirmed", "cancelled"}
  PROVE  LET m == MailTo(who, r, status) IN m \in Notice /\ m.to = who /\ m.of = r /\ m.status = status
BY DEF Notice, MailTo

LEMMA TablesInitially == TablesInit => TablesInv
<1> SUFFICES ASSUME TablesInit PROVE TablesInv OBVIOUS
<1>1. \A r \in Requests : table[r] = NoTable /\ guestKnows[r] = "none" BY DEF TablesInit
<1>2. \A w \in Waiters : waiter[w] = NoWaiter BY DEF TablesInit
<1>3. TablesTyped BY DEF TablesInit, TablesTyped
<1>4. Reserved = {} BY <1>1 DEF Reserved
<1> QED BY <1>1, <1>2, <1>3, <1>4 DEF TablesInv, TablesInit

(* A table that a step does not concern stays clear.                       *)
LEMMA ClearStays ==
  ASSUME NEW r \in Requests, Clear(r), table'[r] = table[r], guestKnows'[r] = guestKnows[r], deskKnows'[r] = deskKnows[r],
         Underway("guest", r)' = Underway("guest", r), Underway("desk", r)' = Underway("desk", r),
         Decides(r)' = Decides(r), \A w \in Decides(r) : waiter'[w] = waiter[w]
  PROVE  Clear(r)'
<1>1. GuestHears(r)' BY DEF Clear, GuestHears, MailTo
<1> QED BY <1>1 DEF Clear

LEMMA ReservedIs ==
  ASSUME TablesTyped, NEW r \in Reserved
  PROVE  r \in Requests /\ table[r] \in TableRow
BY DEF TablesTyped, Reserved

(* A step concerns one table: the others stay as they are.                 *)
LEMMA OneTable ==
  ASSUME TablesInv, TablesTyped', NEW r \in Reserved', r \in blurred' \/ Clear(r)', blurred \subseteq blurred', Reserved' = Reserved \cup {r},
         \A q \in Requests \ {r} :
           /\ table'[q] = table[q] /\ guestKnows'[q] = guestKnows[q] /\ deskKnows'[q] = deskKnows[q]
           /\ \A m : m.of = q => (m \in onItsWay' <=> m \in onItsWay),
         \A w \in Waiters : waiter'[w] = waiter[w] \/ (w \notin {v \in Waiters : waiter[v] # NoWaiter /\ waiter[v].of # r}
                                                       /\ (waiter'[w] # NoWaiter => waiter'[w].of = r)),
         \A m \in onItsWay' : m \in onItsWay \/ (m.of = r /\ (m.to = "desk" => m.status = "requested"))
  PROVE  TablesInv'
<1>1. TablesTyped BY DEF TablesInv
<1>2. (\A m \in onItsWay : m.of \in Reserved /\ (m.to = "desk" => m.status = "requested"))' BY DEF TablesInv
<1>3. (\A w \in Waiters : waiter[w] # NoWaiter => waiter[w].of \in Reserved)' BY DEF TablesInv
<1>4. (\A q \in Requests \ Reserved : guestKnows[q] = "none")' BY DEF TablesInv
<1>5. ASSUME NEW q \in Reserved', q \notin blurred' PROVE Clear(q)'
  <2>1. CASE q = r BY <1>5, <2>1
  <2>2. CASE q # r
    <3>1. q \in Reserved \ blurred /\ q \in Requests BY <1>1, <1>5, <2>2 DEF Reserved
    <3>2. Clear(q) BY <3>1 DEF TablesInv
    <3>3. Underway("guest", q)' = Underway("guest", q) /\ Underway("desk", q)' = Underway("desk", q)
      BY <2>2, <3>1 DEF Underway
    <3>4. Decides(q)' = Decides(q) /\ \A w \in Decides(q) : waiter'[w] = waiter[w] BY <2>2 DEF Decides
    <3> QED BY <2>2, <3>1, <3>2, <3>3, <3>4, ClearStays
  <2> QED BY <2>1, <2>2
<1> QED BY <1>2, <1>3, <1>4, <1>5 DEF TablesInv

LEMMA OneAsks ==
  ASSUME TablesInv, NEW r \in Requests, NEW ask \in Askings, createReservation(r, ask)
  PROVE  TablesInv'
<1> PICK new : new = [status |-> "requested", day |-> ask.day, email |-> ask.email] OBVIOUS
<1> PICK told : told = Started(r, ask, "requested") OBVIOUS
<1>1. /\ table[r] = NoTable /\ table' = [table EXCEPT ![r] = new]
      /\ onItsWay' = onItsWay \cup {MailTo("desk", r, "requested")} \cup told
      /\ UNCHANGED <<tableDay, waiter, guestKnows, deskKnows, blurred, decisions>>
  BY DEF createReservation
<1>2. TablesTyped BY DEF TablesInv
<1>3. ask.day \in Nat /\ ask.email \in BOOLEAN BY TablesAssumption
<1>4. new \in TableRow /\ new.status = "requested" BY <1>3 DEF TableRow
<1>5. new.email = ask.email /\ (new.email => told = {MailTo("guest", r, "requested")}) /\ (~ new.email => told = {})
  BY <1>3 DEF Started
<1>6. \A m \in told : m = MailTo("guest", r, "requested") BY <1>3, <1>5
<1>7. \A q \in Requests \ {r} : table'[q] = table[q] BY <1>1, <1>2 DEF TablesTyped
<1>8. table'[r] = new BY <1>1, <1>2 DEF TablesTyped
<1>9. MailTo("desk", r, "requested") \in Notice /\ MailTo("desk", r, "requested").to = "desk"
      /\ MailTo("desk", r, "requested").of = r /\ MailTo("desk", r, "requested").status = "requested"
      /\ MailTo("guest", r, "requested") \in Notice /\ MailTo("guest", r, "requested").to = "guest"
      /\ MailTo("guest", r, "requested").of = r
  BY MailIs
<1>10. r \notin Reserved /\ r \in Reserved' /\ Reserved' = Reserved \cup {r}
  BY <1>1, <1>4, <1>7, <1>8, TableIs DEF Reserved
<1>11. \A who : Underway(who, r) = {} BY <1>10 DEF Underway, TablesInv
<1>12. Decides(r) = {} BY <1>10 DEF Decides, TablesInv
<1>13. TablesTyped'
  <2>1. table' \in [Requests -> {NoTable} \cup TableRow] BY <1>1, <1>2, <1>4 DEF TablesTyped
  <2>2. onItsWay' \subseteq Notice BY <1>1, <1>2, <1>6, <1>9 DEF TablesTyped
  <2> QED BY <1>1, <1>2, <2>1, <2>2 DEF TablesTyped
<1>14. Clear(r)'
  <2>1. Decides(r)' = {} BY <1>1, <1>12 DEF Decides
  <2>2. Underway("desk", r)' # {} BY <1>1, <1>9 DEF Underway
  <2>3. Underway("guest", r)' = told BY <1>1, <1>5, <1>6, <1>9, <1>11 DEF Underway
  <2>4. guestKnows'[r] = "none" BY <1>1, <1>10 DEF TablesInv
  <2>5. GuestHears(r)' BY <1>3, <1>4, <1>5, <1>8, <2>3, <2>4 DEF GuestHears, MailTo
  <2> QED BY <2>1, <2>2, <2>5 DEF Clear
<1>15. \A q \in Requests \ {r} : \A m : m.of = q => (m \in onItsWay' <=> m \in onItsWay) BY <1>1, <1>6, <1>9
<1>16. \A m \in onItsWay' : m \in onItsWay \/ (m.of = r /\ (m.to = "desk" => m.status = "requested")) BY <1>1, <1>6, <1>9
<1> QED BY <1>1, <1>7, <1>10, <1>13, <1>14, <1>15, <1>16, OneTable

LEMMA OneDecides ==
  ASSUME TablesInv, NEW w \in Waiters, NEW r \in Requests, NEW status \in {"confirmed", "cancelled"}, setReservation(w, r, status)
  PROVE  TablesInv'
<1> PICK d : d = [step |-> "save", of |-> r, status |-> status] OBVIOUS
<1>1. /\ waiter[w] = NoWaiter /\ table[r] # NoTable /\ waiter' = [waiter EXCEPT ![w] = d]
      /\ blurred' = IF Decides(r) = {} THEN blurred ELSE blurred \cup {r}
      /\ UNCHANGED <<tableDay, table, onItsWay, guestKnows, deskKnows>>
  BY DEF setReservation
<1>2. TablesTyped BY DEF TablesInv
<1>3. d \in Decision /\ d # NoWaiter /\ d.step = "save" /\ d.of = r BY DEF Decision, NoWaiter
<1>4. waiter'[w] = d /\ \A v \in Waiters \ {w} : waiter'[v] = waiter[v] BY <1>1, <1>2 DEF TablesTyped
<1>5. TablesTyped'
  <2>1. waiter' \in [Waiters -> {NoWaiter} \cup Decision] BY <1>1, <1>2, <1>3 DEF TablesTyped
  <2>2. blurred' \subseteq Requests BY <1>1, <1>2 DEF TablesTyped
  <2> QED BY <1>1, <1>2, <2>1, <2>2 DEF TablesTyped
<1>6. r \in Reserved /\ Reserved' = Reserved BY <1>1 DEF Reserved
<1>7. r \in blurred' \/ Clear(r)'
  <2> SUFFICES ASSUME r \notin blurred' PROVE Clear(r)' OBVIOUS
  <2>1. Decides(r) = {} /\ r \notin blurred BY <1>1
  <2>2. Clear(r) BY <1>6, <2>1 DEF TablesInv
  <2>3. Decides(r)' = {w} BY <1>3, <1>4, <2>1 DEF Decides
  <2>4. GuestHears(r) BY <2>2 DEF Clear
  <2>5. GuestHears(r)'
    <3>1. Underway("guest", r)' = Underway("guest", r) BY <1>1 DEF Underway
    <3>2. table[r].email \in BOOLEAN BY <1>2, <1>6, ReservedIs, TableIs
    <3>3. ASSUME table[r].email PROVE GuestHears(r)'
      <4>1. \/ Underway("guest", r) = {} /\ guestKnows[r] = table[r].status
            \/ Underway("guest", r) = {MailTo("guest", r, table[r].status)}
        BY <2>1, <2>4, <3>3 DEF GuestHears
      <4>2. MailTo("guest", r, table[r].status)' = MailTo("guest", r, table[r].status) BY <1>1 DEF MailTo
      <4> QED BY <1>1, <3>1, <3>3, <4>1, <4>2 DEF GuestHears
    <3>4. ASSUME ~ table[r].email PROVE GuestHears(r)' BY <1>1, <2>4, <3>1, <3>4 DEF GuestHears
    <3> QED BY <3>2, <3>3, <3>4
  <2>6. deskKnows'[r] = "requested" \/ Underway("desk", r)' # {} BY <1>1, <2>2 DEF Clear, Underway
  <2> QED BY <1>3, <1>4, <2>3, <2>5, <2>6 DEF Clear
<1>8. blurred \subseteq blurred' BY <1>1
<1>9. \A v \in Waiters : waiter'[v] = waiter[v] \/ (v \notin {u \in Waiters : waiter[u] # NoWaiter /\ waiter[u].of # r}
                                                    /\ (waiter'[v] # NoWaiter => waiter'[v].of = r))
  BY <1>1, <1>3, <1>4
<1>10. \A q \in Requests \ {r} :
           /\ table'[q] = table[q] /\ guestKnows'[q] = guestKnows[q] /\ deskKnows'[q] = deskKnows[q]
           /\ \A m : m.of = q => (m \in onItsWay' <=> m \in onItsWay)
  BY <1>1
<1> QED BY <1>1, <1>5, <1>6, <1>7, <1>8, <1>9, <1>10, OneTable

LEMMA OneSaves ==
  ASSUME TablesInv, NEW w \in Waiters, saveReservation(w)
  PROVE  TablesInv'
<1> PICK d : d = waiter[w] OBVIOUS
<1> PICK r : r = d.of OBVIOUS
<1>1. /\ d.step = "save" /\ table' = [table EXCEPT ![r].status = d.status]
      /\ waiter' = [waiter EXCEPT ![w].step = "tell"]
      /\ UNCHANGED <<tableDay, onItsWay, guestKnows, deskKnows, blurred, decisions>>
  BY DEF saveReservation
<1>2. TablesTyped BY DEF TablesInv
<1>3. d \in Decision /\ d # NoWaiter
  <2>1. NoWaiter.step # "save" BY DEF NoWaiter
  <2>2. d \in {NoWaiter} \cup Decision BY <1>2 DEF TablesTyped
  <2> QED BY <1>1, <2>1, <2>2
<1>4. r \in Reserved BY <1>3 DEF TablesInv
<1>5. table[r] \in TableRow /\ r \in Requests BY <1>2, <1>4, ReservedIs
<1> PICK t : t = [table[r] EXCEPT !.status = d.status] OBVIOUS
<1>6. t \in TableRow /\ t.status = d.status /\ t.email = table[r].email BY <1>3, <1>5, DecisionIs DEF TableRow
<1>7. table' = [table EXCEPT ![r] = t] BY <1>1
<1>8. table'[r] = t /\ \A q \in Requests \ {r} : table'[q] = table[q] BY <1>2, <1>5, <1>7 DEF TablesTyped
<1> PICK e : e = [d EXCEPT !.step = "tell"] OBVIOUS
<1>9. e \in Decision /\ e # NoWaiter /\ e.of = r /\ e.status = d.status /\ e.step = "tell" BY <1>3 DEF Decision, NoWaiter
<1>10. waiter' = [waiter EXCEPT ![w] = e] BY <1>1
<1>11. waiter'[w] = e /\ \A v \in Waiters \ {w} : waiter'[v] = waiter[v] BY <1>2, <1>10 DEF TablesTyped
<1>12. TablesTyped'
  <2>1. waiter' \in [Waiters -> {NoWaiter} \cup Decision] BY <1>2, <1>9, <1>10 DEF TablesTyped
  <2>2. table' \in [Requests -> {NoTable} \cup TableRow] BY <1>2, <1>6, <1>7 DEF TablesTyped
  <2> QED BY <1>1, <1>2, <2>1, <2>2 DEF TablesTyped
<1>13. Reserved' = Reserved BY <1>4, <1>6, <1>8, TableIs DEF Reserved
<1>14. r \in blurred' \/ Clear(r)'
  <2> SUFFICES ASSUME r \notin blurred' PROVE Clear(r)' OBVIOUS
  <2>1. Clear(r) BY <1>1, <1>4 DEF TablesInv
  <2>2. Decides(r) = {w} BY <1>3, <2>1 DEF Decides, Clear
  <2>3. Decides(r)' = {w} BY <1>3, <1>9, <1>11, <2>2 DEF Decides
  <2>4. GuestHears(r) BY <2>1 DEF Clear
  <2>5. table[r].email \in BOOLEAN BY <1>5, TableIs
  <2>6. ASSUME table[r].email PROVE GuestHears(r)'
    <3>1. table'[r].email
      <4>1. table'[r].email = table[r].email BY <1>6, <1>8
      <4> QED BY <2>6, <4>1, Zenon
    <3>2. w \in Decides(r)' /\ waiter'[w].step = "tell" BY <1>9, <1>11, <2>3
    <3> QED BY <3>1, <3>2, Zenon DEF GuestHears
  <2>7. ASSUME ~ table[r].email PROVE GuestHears(r)' BY <1>1, <1>6, <1>8, <2>4, <2>7 DEF GuestHears, Underway
  <2>8. GuestHears(r)' BY <2>5, <2>6, <2>7
  <2>9. deskKnows'[r] = "requested" \/ Underway("desk", r)' # {} BY <1>1, <2>1 DEF Clear, Underway
  <2> QED BY <1>6, <1>8, <1>9, <1>11, <2>3, <2>8, <2>9 DEF Clear
<1>15. \A v \in Waiters : waiter'[v] = waiter[v] \/ (v \notin {u \in Waiters : waiter[u] # NoWaiter /\ waiter[u].of # r}
                                                    /\ (waiter'[v] # NoWaiter => waiter'[v].of = r))
  BY <1>9, <1>11
<1>16. \A q \in Requests \ {r} :
           /\ table'[q] = table[q] /\ guestKnows'[q] = guestKnows[q] /\ deskKnows'[q] = deskKnows[q]
           /\ \A m : m.of = q => (m \in onItsWay' <=> m \in onItsWay)
  BY <1>1, <1>8
<1> QED BY <1>1, <1>4, <1>12, <1>13, <1>14, <1>15, <1>16, OneTable

LEMMA OneTells ==
  ASSUME TablesInv, NEW w \in Waiters, tellGuest(w)
  PROVE  TablesInv'
<1> PICK d : d = waiter[w] OBVIOUS
<1> PICK r : r = d.of OBVIOUS
<1> PICK told : told = Started(r, table[r], d.status) OBVIOUS
<1>1. /\ d.step = "tell" /\ waiter' = [waiter EXCEPT ![w] = NoWaiter] /\ onItsWay' = onItsWay \cup told
      /\ blurred' = IF told # {} /\ Underway("guest", r) # {} THEN blurred \cup {r} ELSE blurred
      /\ UNCHANGED <<tableDay, table, guestKnows, deskKnows, decisions>>
  BY DEF tellGuest
<1>2. TablesTyped BY DEF TablesInv
<1>3. d \in Decision /\ d # NoWaiter
  <2>1. NoWaiter.step # "tell" BY DEF NoWaiter
  <2>2. d \in {NoWaiter} \cup Decision BY <1>2 DEF TablesTyped
  <2> QED BY <1>1, <2>1, <2>2
<1>4. r \in Reserved BY <1>3 DEF TablesInv
<1>5. table[r].email \in BOOLEAN /\ r \in Requests BY <1>2, <1>4, ReservedIs, TableIs
<1> PICK m0 \in Notice : m0 = MailTo("guest", r, d.status) BY <1>3, <1>5, DecisionIs, MailIs
<1>6. m0.to = "guest" /\ m0.of = r /\ m0.status = d.status BY <1>3, <1>5, DecisionIs, MailIs
<1>7. (table[r].email => told = {m0}) /\ (~ table[r].email => told = {}) BY <1>5 DEF Started
<1>8. \A m \in told : m = m0 BY <1>5, <1>7
<1>9. waiter'[w] = NoWaiter /\ \A v \in Waiters \ {w} : waiter'[v] = waiter[v] BY <1>1, <1>2 DEF TablesTyped
<1>10. TablesTyped'
  <2>1. waiter' \in [Waiters -> {NoWaiter} \cup Decision] BY <1>1, <1>2 DEF TablesTyped
  <2>2. onItsWay' \subseteq Notice BY <1>1, <1>2, <1>8 DEF TablesTyped
  <2>3. blurred' \subseteq Requests BY <1>1, <1>2, <1>5 DEF TablesTyped
  <2> QED BY <1>1, <1>2, <2>1, <2>2, <2>3 DEF TablesTyped
<1>11. Reserved' = Reserved BY <1>1 DEF Reserved
<1>12. r \in blurred' \/ Clear(r)'
  <2> SUFFICES ASSUME r \notin blurred' PROVE Clear(r)' OBVIOUS
  <2>1. r \notin blurred /\ (told = {} \/ Underway("guest", r) = {}) BY <1>1
  <2>2. Clear(r) BY <1>4, <2>1 DEF TablesInv
  <2>3. Decides(r) = {w} BY <1>3, <2>2 DEF Decides, Clear
  <2>4. Decides(r)' = {} BY <1>9, <2>3 DEF Decides
  <2>5. d.status = table[r].status BY <1>1, <2>2, <2>3 DEF Clear
  <2>6. GuestHears(r) BY <2>2 DEF Clear
  <2>7. ASSUME table[r].email PROVE GuestHears(r)'
    <3>1. Underway("guest", r) = {} BY <1>7, <2>1, <2>7
    <3>2. Underway("guest", r)' = {m0} BY <1>1, <1>6, <1>7, <2>7, <3>1 DEF Underway
    <3>3. m0 = MailTo("guest", r, table[r].status)' BY <1>1, <2>5 DEF MailTo
    <3> QED BY <1>1, <2>7, <3>2, <3>3 DEF GuestHears
  <2>8. ASSUME ~ table[r].email PROVE GuestHears(r)' BY <1>1, <1>7, <2>6, <2>8 DEF GuestHears, Underway
  <2>9. GuestHears(r)' BY <1>5, <2>7, <2>8
  <2>10. deskKnows'[r] = "requested" \/ Underway("desk", r)' # {} BY <1>1, <2>2 DEF Clear, Underway
  <2> QED BY <2>4, <2>9, <2>10 DEF Clear
<1>13. \A v \in Waiters : waiter'[v] = waiter[v] \/ (v \notin {u \in Waiters : waiter[u] # NoWaiter /\ waiter[u].of # r}
                                                    /\ (waiter'[v] # NoWaiter => waiter'[v].of = r))
  BY <1>9
<1>14. \A q \in Requests \ {r} :
           /\ table'[q] = table[q] /\ guestKnows'[q] = guestKnows[q] /\ deskKnows'[q] = deskKnows[q]
           /\ \A m : m.of = q => (m \in onItsWay' <=> m \in onItsWay)
  BY <1>1, <1>6, <1>8
<1>15. \A m \in onItsWay' : m \in onItsWay \/ (m.of = r /\ (m.to = "desk" => m.status = "requested")) BY <1>1, <1>6, <1>8
<1>16. blurred \subseteq blurred' BY <1>1
<1> QED BY <1>4, <1>10, <1>11, <1>12, <1>13, <1>14, <1>15, <1>16, OneTable

(* What arrives is known; what fails leaves its table blurred.             *)
LEMMA OneEnds ==
  ASSUME TablesInv, NEW m \in onItsWay, mailArrives(m) \/ mailFails(m)
  PROVE  TablesInv'
<1> PICK r : r = m.of OBVIOUS
<1>1. onItsWay' = onItsWay \ {m} /\ UNCHANGED <<tableDay, table, waiter, decisions>> BY DEF mailArrives, mailFails
<1>2. TablesTyped BY DEF TablesInv
<1>3. r \in Reserved /\ m \in Notice /\ (m.to = "desk" => m.status = "requested") BY <1>2 DEF TablesInv, TablesTyped
<1>4. r \in Requests /\ m.to \in {"guest", "desk"} /\ m.status \in {"requested", "confirmed", "cancelled"}
  BY <1>2, <1>3, ReservedIs, NoticeIs
<1>5. \/ mailFails(m) /\ blurred' = blurred \cup {r} /\ UNCHANGED <<guestKnows, deskKnows>>
      \/ m.to = "guest" /\ guestKnows' = [guestKnows EXCEPT ![r] = m.status] /\ UNCHANGED <<deskKnows, blurred>>
      \/ m.to = "desk" /\ deskKnows' = [deskKnows EXCEPT ![r] = m.status] /\ UNCHANGED <<guestKnows, blurred>>
  BY <1>4 DEF mailArrives, mailFails
<1>6. TablesTyped'
  <2>1. onItsWay' \subseteq Notice BY <1>1, <1>2 DEF TablesTyped
  <2>2. guestKnows' \in [Requests -> {"none", "requested", "confirmed", "cancelled"}] BY <1>2, <1>4, <1>5 DEF TablesTyped
  <2>3. deskKnows' \in [Requests -> {"none", "requested", "confirmed", "cancelled"}] BY <1>2, <1>4, <1>5 DEF TablesTyped
  <2>4. blurred' \subseteq Requests BY <1>2, <1>4, <1>5 DEF TablesTyped
  <2> QED BY <1>1, <1>2, <2>1, <2>2, <2>3, <2>4 DEF TablesTyped
<1>7. Reserved' = Reserved BY <1>1 DEF Reserved
<1>8. r \in blurred' \/ Clear(r)'
  <2> SUFFICES ASSUME r \notin blurred' PROVE Clear(r)' OBVIOUS
  <2>1. r \notin blurred BY <1>5
  <2>2. Clear(r) BY <1>3, <2>1 DEF TablesInv
  <2>3. Decides(r)' = Decides(r) /\ \A w \in Decides(r) : waiter'[w] = waiter[w] BY <1>1 DEF Decides
  <2>4. GuestHears(r) BY <2>2 DEF Clear
  <2>5. CASE m.to = "guest" /\ guestKnows' = [guestKnows EXCEPT ![r] = m.status] /\ UNCHANGED <<deskKnows, blurred>>
    <3>1. m \in Underway("guest", r) BY <2>5 DEF Underway
    <3>2. table[r].email BY <2>4, <3>1 DEF GuestHears
    <3>3. guestKnows'[r] = m.status BY <1>2, <1>4, <2>5 DEF TablesTyped
    <3>4. ASSUME Underway("guest", r) = {MailTo("guest", r, table[r].status)} PROVE GuestHears(r)'
      <4>1. m.status = table[r].status BY <3>1, <3>4 DEF MailTo
      <4>2. Underway("guest", r)' = {} BY <1>1, <3>1, <3>4 DEF Underway
      <4> QED BY <1>1, <3>2, <3>3, <4>1, <4>2 DEF GuestHears
    <3>5. ASSUME NEW w \in Decides(r), waiter[w].step = "tell" PROVE GuestHears(r)'
      BY <1>1, <2>3, <3>2, <3>5 DEF GuestHears
    <3>6. GuestHears(r)' BY <2>4, <3>1, <3>2, <3>4, <3>5 DEF GuestHears
    <3>7. Underway("desk", r)' = Underway("desk", r) BY <1>1, <2>5 DEF Underway
    <3> QED BY <1>1, <2>2, <2>3, <2>5, <3>6, <3>7 DEF Clear
  <2>6. CASE m.to = "desk" /\ deskKnows' = [deskKnows EXCEPT ![r] = m.status] /\ UNCHANGED <<guestKnows, blurred>>
    <3>1. deskKnows'[r] = "requested" BY <1>2, <1>3, <1>4, <2>6 DEF TablesTyped
    <3>2. Underway("guest", r)' = Underway("guest", r) BY <1>1, <2>6 DEF Underway
    <3>3. GuestHears(r)' BY <1>1, <2>3, <2>4, <2>6, <3>2 DEF GuestHears, MailTo
    <3> QED BY <1>1, <2>2, <2>3, <3>1, <3>3 DEF Clear
  <2> QED BY <1>5, <2>1, <2>5, <2>6
<1>9. \A q \in Requests \ {r} :
           /\ table'[q] = table[q] /\ guestKnows'[q] = guestKnows[q] /\ deskKnows'[q] = deskKnows[q]
           /\ \A n : n.of = q => (n \in onItsWay' <=> n \in onItsWay)
  BY <1>1, <1>2, <1>5 DEF TablesTyped
<1>10. blurred \subseteq blurred' BY <1>5
<1> QED BY <1>1, <1>3, <1>6, <1>7, <1>8, <1>9, <1>10, OneTable

LEMMA TablesStep == TablesInv /\ [TablesNext]_tableVars => TablesInv'
<1> SUFFICES ASSUME TablesInv, TablesNext \/ UNCHANGED tableVars PROVE TablesInv' OBVIOUS
<1>1. ASSUME UNCHANGED <<table, waiter, onItsWay, guestKnows, deskKnows, blurred>> PROVE TablesInv'
  BY <1>1 DEF TablesInv, TablesTyped, Reserved, Clear, GuestHears, Underway, Decides, MailTo
<1>2. CASE TablesNext
  <2>1. ASSUME NEW r \in Requests, NEW ask \in Askings, createReservation(r, ask) PROVE TablesInv' BY <2>1, OneAsks
  <2>2. ASSUME NEW w \in Waiters, NEW r \in Requests, NEW status \in {"confirmed", "cancelled"}, setReservation(w, r, status)
        PROVE  TablesInv'
    BY <2>2, OneDecides
  <2>3. ASSUME NEW w \in Waiters, saveReservation(w) PROVE TablesInv' BY <2>3, OneSaves
  <2>4. ASSUME NEW w \in Waiters, tellGuest(w) PROVE TablesInv' BY <2>4, OneTells
  <2>5. ASSUME NEW m \in onItsWay, mailArrives(m) \/ mailFails(m) PROVE TablesInv' BY <2>5, OneEnds
  <2>6. CASE TableDayPasses BY <1>1, <2>6 DEF TableDayPasses
  <2> QED BY <1>2, <2>1, <2>2, <2>3, <2>4, <2>5, <2>6 DEF TablesNext
<1>3. CASE UNCHANGED tableVars BY <1>1, <1>3 DEF tableVars
<1> QED BY <1>2, <1>3

(* Every answer the database may give to the desk is a beginning of the    *)
(* rows in the order of their days.                                        *)
LEMMA ListIs == TablesTyped => ListIsSoonest
<1> SUFFICES ASSUME TablesTyped, NEW statuses, NEW answer \in listReservations(statuses),
                    NEW r \in Reserved \ Range(answer), NEW s \in Range(answer), table[r].status \in statuses
             PROVE  table[s].day <= table[r].day
  BY DEF ListIsSoonest
<1> PICK rows : rows = {q \in Reserved : table[q].status \in statuses} OBVIOUS
<1> PICK n : n = Min({ListLimit, Cardinality(rows)}) OBVIOUS
<1>1. PICK all \in Soonest(rows) : answer = Restrict(all, 1..n) BY DEF listReservations
<1>2. IsFiniteSet(rows)
  <2>1. rows \subseteq Requests BY DEF Reserved
  <2> QED BY <2>1, TablesAssumption, FS_Subset
<1>3. Cardinality(rows) \in Nat BY <1>2, FS_CardinalityType
<1>4. n \in Nat
  <2>1. n \in {ListLimit, Cardinality(rows)}
    <3>1. IsFiniteSet({ListLimit}) /\ IsFiniteSet({Cardinality(rows)}) BY FS_Singleton
    <3>2. IsFiniteSet({ListLimit} \cup {Cardinality(rows)}) BY <3>1, FS_Union
    <3>3. {ListLimit} \cup {Cardinality(rows)} = {ListLimit, Cardinality(rows)} OBVIOUS
    <3>4. {ListLimit, Cardinality(rows)} \in SUBSET Int /\ {ListLimit, Cardinality(rows)} # {} BY <1>3, TablesAssumption
    <3>5. IsFiniteSet({ListLimit, Cardinality(rows)}) BY <3>2, <3>3
    <3> QED BY <3>4, <3>5, MinIs
  <2> QED BY <1>3, <2>1, TablesAssumption
<1>5. Range(all) = rows /\ DOMAIN all = 1..Cardinality(rows)
      /\ \A i, j \in DOMAIN all : i < j => table[all[i]].day <= table[all[j]].day
  BY <1>1 DEF Soonest
<1>6. PICK i \in 1..n : s = all[i] BY <1>1 DEF Range, Restrict
<1>7. r \in rows OBVIOUS
<1>8. PICK j \in 1..Cardinality(rows) : r = all[j] BY <1>5, <1>7 DEF Range
<1>9. j \notin 1..n BY <1>1, <1>8 DEF Range, Restrict
<1>10. i < j /\ i \in 1..Cardinality(rows) BY <1>3, <1>4, <1>6, <1>8, <1>9
<1> QED BY <1>5, <1>6, <1>8, <1>10

LEMMA TablesSafe == TablesInv => TablesTypeOK /\ TablesHold
<1> SUFFICES ASSUME TablesInv PROVE TablesTypeOK /\ TablesHold OBVIOUS
<1>1. TablesTyped BY DEF TablesInv
<1>2. TablesTypeOK
  <2>1. \A r \in Reserved : table[r].status \in {"requested", "confirmed", "cancelled"} BY <1>1, ReservedIs, TableIs
  <2> QED BY <1>1, <2>1 DEF TablesTypeOK, TablesInv, TablesTyped
<1>3. GuestKnowsTable
  <2> SUFFICES ASSUME NEW r \in Reserved \ blurred, Decides(r) = {}, {m \in onItsWay : m.of = r} = {}
               PROVE  deskKnows[r] = "requested" /\ guestKnows[r] = IF table[r].email THEN table[r].status ELSE "none"
    BY DEF GuestKnowsTable
  <2>1. Clear(r) BY DEF TablesInv
  <2>2. Underway("desk", r) = {} /\ Underway("guest", r) = {} BY DEF Underway
  <2> QED BY <2>1, <2>2 DEF Clear, GuestHears
<1> QED BY <1>1, <1>2, <1>3, ListIs DEF TablesHold
-----------------------------------------------------------------------------
(***************************************************************************)
(* The codes.                                                              *)
(***************************************************************************)

(* What an operator's request read is the row but for the switch, unless   *)
(* a use was counted meanwhile; no row has more uses than bookings.        *)
CouponRow == [active : BOOLEAN, offer : Benefits, uses : Nat]
Columns == {"active", "offer", "uses"}
ClerkCall ==
  {NoClerk} \cup [step : {"look", "insert"}, offer : Benefits] \cup [step : {"compare"}, row : CouponRow]
  \cup [step : {"update"}, row : CouponRow, columns : SUBSET Columns]

ClerkSound(k) ==
  /\ clerk[k].step \in {"compare", "update"} => coupon # NoCoupon /\ clerk[k].row.uses <= Cardinality(redeemed)
  /\ clerk[k].step = "compare" /\ ~undone => clerk[k].row.uses = coupon.uses /\ clerk[k].row.offer = coupon.offer
  /\ clerk[k].step = "update" /\ ~undone => clerk[k].columns \subseteq {"active"}

CouponsInv ==
  /\ redeemed \subseteq promised /\ promised \subseteq Couples /\ undone \in BOOLEAN
  /\ coupon \in {NoCoupon} \cup CouponRow /\ coupon.uses <= Cardinality(redeemed)
  /\ clerk \in [Clerks -> ClerkCall] /\ \A k \in Clerks : ClerkSound(k)
  /\ UsesAreBookings

LEMMA RowIs ==
  /\ NoCoupon \notin CouponRow /\ NoCoupon.uses = 0 /\ ~NoCoupon.active /\ DOMAIN NoCoupon = Columns
  /\ \A r \in CouponRow : /\ DOMAIN r = Columns /\ r.uses \in Nat /\ r.offer.max \in (Nat \ {0}) \cup {NoLimit}
<1>1. \A o \in Benefits : o # [value |-> 0]
  <2> SUFFICES ASSUME NEW o \in Benefits PROVE o # [value |-> 0] OBVIOUS
  <2>1. o \in [value : Nat, from : Nat, to : Nat, max : (Nat \ {0}) \cup {NoLimit}] BY CouponsAssumption
  <2>2. DOMAIN o = {"value", "from", "to", "max"} BY <2>1
  <2>3. DOMAIN [value |-> 0] = {"value"} OBVIOUS
  <2> QED BY <2>2, <2>3
<1>2. NoCoupon.offer = [value |-> 0] /\ \A r \in CouponRow : r.offer \in Benefits BY DEF NoCoupon, CouponRow
<1>3. NoCoupon \notin CouponRow BY <1>1, <1>2
<1>4. NoCoupon.uses = 0 /\ ~NoCoupon.active /\ DOMAIN NoCoupon = Columns BY DEF NoCoupon, Columns
<1>5. \A r \in CouponRow : DOMAIN r = Columns /\ r.uses \in Nat BY DEF CouponRow, Columns
<1>6. \A o \in Benefits : o.max \in (Nat \ {0}) \cup {NoLimit} BY CouponsAssumption
<1> QED BY <1>2, <1>3, <1>4, <1>5, <1>6

LEMMA UsesCounted ==
  ASSUME CouponsInv
  PROVE  /\ IsFiniteSet(redeemed) /\ Cardinality(redeemed) \in Nat /\ coupon.uses \in Nat
         /\ Cardinality(redeemed) <= Cardinality(Couples) /\ Cardinality(Couples) \in Nat
<1>1. redeemed \subseteq Couples /\ coupon \in {NoCoupon} \cup CouponRow BY DEF CouponsInv
<1>2. IsFiniteSet(Couples) BY CouponsAssumption
<1> QED BY <1>1, <1>2, RowIs, FS_Subset, FS_CardinalityType

LEMMA CouponsInitially == CouponsInit => CouponsInv
<1> SUFFICES ASSUME CouponsInit PROVE CouponsInv OBVIOUS
<1>1. /\ coupon = NoCoupon /\ redeemed = {} /\ promised = {} /\ clerk = [k \in Clerks |-> NoClerk] /\ undone = FALSE
  BY DEF CouponsInit
<1>2. Cardinality(redeemed) = 0 BY <1>1, FS_EmptySet
<1>3. UsesAreBookings BY <1>1, <1>2, RowIs DEF UsesAreBookings
<1>4. \A k \in Clerks : ClerkSound(k) BY <1>1 DEF ClerkSound, NoClerk
<1>5. clerk \in [Clerks -> ClerkCall] BY <1>1 DEF ClerkCall
<1>6. coupon.uses <= Cardinality(redeemed) BY <1>1, <1>2, RowIs
<1> QED BY <1>1, <1>3, <1>4, <1>5, <1>6 DEF CouponsInv

(* A request goes on and the row stays.                                    *)
LEMMA ClerkGoesOn ==
  ASSUME CouponsInv, NEW k \in Clerks, NEW c \in ClerkCall, clerk' = [clerk EXCEPT ![k] = c],
         UNCHANGED <<coupon, promised, redeemed, undone>>, ClerkSound(k)'
  PROVE  CouponsInv'
<1>1. clerk' \in [Clerks -> ClerkCall] /\ \A j \in Clerks \ {k} : clerk'[j] = clerk[j] BY DEF CouponsInv
<1>2. UsesAreBookings' BY DEF CouponsInv, UsesAreBookings
<1>3. ASSUME NEW j \in Clerks \ {k} PROVE ClerkSound(j)' BY <1>1 DEF CouponsInv, ClerkSound
<1> QED BY <1>1, <1>2, <1>3 DEF CouponsInv

LEMMA Asks ==
  ASSUME CouponsInv, NEW k \in Clerks,
         \/ \E o \in Benefits : createCoupon(k, o)
         \/ \E on \in BOOLEAN : setActive(k, on)
  PROVE  CouponsInv'
<1>1. clerk \in [Clerks -> ClerkCall] /\ coupon \in {NoCoupon} \cup CouponRow BY DEF CouponsInv
<1>2. ASSUME NEW o \in Benefits, createCoupon(k, o) PROVE CouponsInv'
  <2> DEFINE c == [step |-> "look", offer |-> o]
  <2>1. clerk' = [clerk EXCEPT ![k] = c] /\ UNCHANGED <<coupon, promised, redeemed, undone>>
    BY <1>2 DEF createCoupon, AskClerk, Clerk
  <2>2. c \in ClerkCall BY DEF ClerkCall
  <2>3. clerk'[k] = c BY <1>1, <2>1
  <2>4. ClerkSound(k)' BY <2>3 DEF ClerkSound
  <2> QED BY <2>1, <2>2, <2>4, ClerkGoesOn
<1>3. ASSUME NEW on \in BOOLEAN, setActive(k, on) PROVE CouponsInv'
  <2> DEFINE r == [coupon EXCEPT !.active = on]
  <2> DEFINE c == [step |-> "compare", row |-> r]
  <2>1. clerk' = [clerk EXCEPT ![k] = c] /\ UNCHANGED <<coupon, promised, redeemed, undone>> /\ coupon # NoCoupon
    BY <1>3 DEF setActive, AskClerk, Clerk
  <2>2. coupon \in CouponRow BY <1>1, <2>1
  <2>3. r \in CouponRow /\ r.uses = coupon.uses /\ r.offer = coupon.offer BY <2>2 DEF CouponRow
  <2> HIDE DEF r
  <2>4. c \in ClerkCall BY <2>3 DEF ClerkCall
  <2>5. clerk'[k] = c /\ c.step = "compare" /\ c.row = r BY <1>1, <2>1
  <2>6. coupon.uses <= Cardinality(redeemed) BY DEF CouponsInv
  <2>7. ClerkSound(k)' BY <2>1, <2>3, <2>5, <2>6 DEF ClerkSound
  <2> QED BY <2>1, <2>4, <2>7, ClerkGoesOn
<1> QED BY <1>2, <1>3

LEMMA Compares == ASSUME CouponsInv, NEW k \in Clerks, compareCoupon(k) PROVE CouponsInv'
<1> DEFINE r == clerk[k].row
           c == [step |-> "update", row |-> r, columns |-> {x \in DOMAIN coupon : coupon[x] # r[x]}]
<1>1. clerk \in [Clerks -> ClerkCall] /\ coupon \in {NoCoupon} \cup CouponRow /\ ClerkSound(k) BY DEF CouponsInv
<1>2. clerk[k].step = "compare" /\ clerk' = [clerk EXCEPT ![k] = c] /\ UNCHANGED <<coupon, promised, redeemed, undone>>
  BY DEF compareCoupon, Clerk
<1>3. r \in CouponRow BY <1>1, <1>2 DEF ClerkCall, NoClerk
<1>4. DOMAIN coupon = Columns BY <1>1, RowIs
<1>5. c.columns \subseteq Columns BY <1>4
<1>6. ~undone => c.columns \subseteq {"active"}
  <2>1. ~undone => r.uses = coupon.uses /\ r.offer = coupon.offer BY <1>1, <1>2 DEF ClerkSound
  <2> QED BY <1>4, <2>1 DEF Columns
<1>7. /\ c.step = "update" /\ c.row = r OBVIOUS
<1>8. c \in ClerkCall BY <1>3, <1>5 DEF ClerkCall
<1> HIDE DEF c
<1>9. clerk'[k] = c BY <1>1, <1>2
<1>10. ClerkSound(k)' BY <1>1, <1>2, <1>6, <1>7, <1>9 DEF ClerkSound
<1> QED BY <1>2, <1>8, <1>10, ClerkGoesOn

(* A request that ends and leaves a row of its kind.                       *)
LEMMA ClerkWrites ==
  ASSUME CouponsInv, NEW k \in Clerks, clerk' = [clerk EXCEPT ![k] = NoClerk],
         UNCHANGED <<promised, redeemed>>, coupon' \in CouponRow, coupon'.uses <= Cardinality(redeemed),
         undone' \in BOOLEAN, undone => undone',
         coupon # NoCoupon /\ ~undone' => coupon'.uses = coupon.uses /\ coupon'.offer = coupon.offer,
         UsesAreBookings'
  PROVE  CouponsInv'
<1>1. clerk' \in [Clerks -> ClerkCall] /\ clerk'[k] = NoClerk /\ \A j \in Clerks \ {k} : clerk'[j] = clerk[j]
  BY DEF CouponsInv, ClerkCall
<1>2. ClerkSound(k)' BY <1>1 DEF ClerkSound, NoClerk
<1>3. ASSUME NEW j \in Clerks \ {k} PROVE ClerkSound(j)' BY <1>1, RowIs DEF CouponsInv, ClerkSound
<1> QED BY <1>1, <1>2, <1>3 DEF CouponsInv

LEMMA Inserts == ASSUME CouponsInv, NEW k \in Clerks, insertCoupon(k) PROVE CouponsInv'
<1>1. clerk \in [Clerks -> ClerkCall] /\ coupon \in {NoCoupon} \cup CouponRow /\ undone \in BOOLEAN BY DEF CouponsInv
<1>2. /\ clerk[k].step = "insert" /\ clerk' = [clerk EXCEPT ![k] = NoClerk] /\ UNCHANGED <<promised, redeemed, undone>>
      /\ coupon' = IF coupon = NoCoupon THEN [active |-> TRUE, offer |-> clerk[k].offer, uses |-> 0] ELSE coupon
  BY DEF insertCoupon, Clerk
<1>3. clerk[k].offer \in Benefits BY <1>1, <1>2 DEF ClerkCall, NoClerk
<1>4. CASE coupon = NoCoupon
  <2>1. coupon' \in CouponRow /\ coupon'.uses = 0 BY <1>2, <1>3, <1>4 DEF CouponRow
  <2>2. ~undone => Cardinality(redeemed) = 0 BY <1>4, RowIs DEF CouponsInv, UsesAreBookings
  <2>3. coupon'.offer.max \in (Nat \ {0}) \cup {NoLimit} BY <2>1, RowIs
  <2>4. UsesAreBookings' BY <1>2, <2>1, <2>2, <2>3 DEF UsesAreBookings
  <2>5. coupon'.uses <= Cardinality(redeemed) BY <2>1, UsesCounted
  <2> QED BY <1>1, <1>2, <1>4, <2>1, <2>4, <2>5, ClerkWrites
<1>5. CASE coupon # NoCoupon
  <2>1. coupon' = coupon BY <1>2, <1>5
  <2>2. UsesAreBookings' BY <1>2, <2>1 DEF CouponsInv, UsesAreBookings
  <2>3. coupon.uses <= Cardinality(redeemed) BY DEF CouponsInv
  <2> QED BY <1>1, <1>2, <1>5, <2>1, <2>2, <2>3, ClerkWrites
<1> QED BY <1>4, <1>5

LEMMA LooksAgain == ASSUME CouponsInv, NEW k \in Clerks, lookAgain(k) PROVE CouponsInv'
<1>1. clerk \in [Clerks -> ClerkCall] /\ coupon \in {NoCoupon} \cup CouponRow /\ undone \in BOOLEAN BY DEF CouponsInv
<1>2. clerk[k].step = "look" /\ UNCHANGED <<promised, redeemed>> BY DEF lookAgain
<1>3. clerk[k] \in [step : {"look", "insert"}, offer : Benefits] BY <1>1, <1>2 DEF ClerkCall, NoClerk
<1>4. CASE coupon = NoCoupon
  <2> DEFINE c == [clerk[k] EXCEPT !.step = "insert"]
  <2>1. clerk' = [clerk EXCEPT ![k] = c] /\ UNCHANGED <<coupon, undone>> BY <1>4 DEF lookAgain, Clerk
  <2>2. c \in ClerkCall /\ c.step = "insert" BY <1>3 DEF ClerkCall
  <2>3. clerk'[k] = c BY <1>1, <2>1
  <2>4. ClerkSound(k)' BY <2>2, <2>3 DEF ClerkSound
  <2> QED BY <1>2, <2>1, <2>2, <2>4, ClerkGoesOn
<1>5. CASE coupon # NoCoupon
  <2>1. /\ coupon' = [coupon EXCEPT !.offer = clerk[k].offer, !.active = TRUE] /\ undone' = TRUE
        /\ clerk' = [clerk EXCEPT ![k] = NoClerk]
    BY <1>5 DEF lookAgain, Clerk
  <2>2. coupon \in CouponRow /\ clerk[k].offer \in Benefits BY <1>1, <1>3, <1>5
  <2>3. coupon' \in CouponRow /\ coupon'.uses = coupon.uses BY <2>1, <2>2 DEF CouponRow
  <2>4. UsesAreBookings' BY <2>1 DEF UsesAreBookings
  <2>5. coupon.uses <= Cardinality(redeemed) BY DEF CouponsInv
  <2> QED BY <1>1, <1>2, <2>1, <2>3, <2>4, <2>5, ClerkWrites
<1> QED BY <1>4, <1>5

LEMMA Updates == ASSUME CouponsInv, NEW k \in Clerks, updateCoupon(k) PROVE CouponsInv'
<1>1. clerk \in [Clerks -> ClerkCall] /\ coupon \in {NoCoupon} \cup CouponRow /\ undone \in BOOLEAN /\ ClerkSound(k)
      /\ coupon.uses <= Cardinality(redeemed) /\ UsesAreBookings
  BY DEF CouponsInv
<1> DEFINE r == clerk[k].row
           columns == clerk[k].columns
<1>2. /\ clerk[k].step = "update" /\ clerk' = [clerk EXCEPT ![k] = NoClerk] /\ UNCHANGED <<promised, redeemed, undone>>
      /\ coupon' = [x \in DOMAIN coupon |-> IF x \in columns THEN r[x] ELSE coupon[x]]
  BY DEF updateCoupon, Clerk
<1>3. r \in CouponRow /\ columns \subseteq Columns BY <1>1, <1>2 DEF ClerkCall, NoClerk
<1>4. coupon # NoCoupon /\ r.uses <= Cardinality(redeemed) BY <1>1, <1>2 DEF ClerkSound
<1>5. coupon \in CouponRow BY <1>1, <1>4
<1> HIDE DEF r, columns
<1>6. /\ coupon' = [x \in Columns |-> coupon'[x]]
      /\ coupon'.active = (IF "active" \in columns THEN r.active ELSE coupon.active)
      /\ coupon'.offer = (IF "offer" \in columns THEN r.offer ELSE coupon.offer)
      /\ coupon'.uses = (IF "uses" \in columns THEN r.uses ELSE coupon.uses)
  <2>1. DOMAIN coupon = Columns BY <1>5, RowIs
  <2> QED BY <1>2, <2>1 DEF Columns
<1>7. coupon' \in CouponRow
  <2>1. coupon'.active \in BOOLEAN BY <1>3, <1>5, <1>6, Zenon DEF CouponRow
  <2>2. coupon'.offer \in Benefits BY <1>3, <1>5, <1>6 DEF CouponRow
  <2>3. coupon'.uses \in Nat BY <1>3, <1>5, <1>6 DEF CouponRow
  <2> QED BY <1>6, <2>1, <2>2, <2>3 DEF CouponRow, Columns
<1>8. coupon'.uses <= Cardinality(redeemed) BY <1>1, <1>4, <1>6
<1>9. ~undone => coupon'.uses = coupon.uses /\ coupon'.offer = coupon.offer
  <2>1. ~undone => columns \subseteq {"active"} BY <1>1, <1>2 DEF ClerkSound, columns
  <2>2. ~undone => "offer" \notin columns /\ "uses" \notin columns BY <2>1
  <2> QED BY <1>6, <2>2
<1>10. UsesAreBookings' BY <1>1, <1>2, <1>4, <1>9 DEF UsesAreBookings
<1> QED BY <1>1, <1>2, <1>7, <1>8, <1>9, <1>10, ClerkWrites

LEMMA Consumes == ASSUME CouponsInv, NEW b \in Couples, consume(b) PROVE CouponsInv'
<1>1. /\ clerk \in [Clerks -> ClerkCall] /\ coupon \in {NoCoupon} \cup CouponRow /\ undone \in BOOLEAN
      /\ redeemed \subseteq promised /\ promised \subseteq Couples
      /\ coupon.uses <= Cardinality(redeemed) /\ UsesAreBookings
  BY DEF CouponsInv
<1>2. /\ b \in promised \ redeemed /\ coupon.active /\ (coupon.offer.max # NoLimit => coupon.uses < coupon.offer.max)
      /\ coupon' = [coupon EXCEPT !.uses = @ + 1] /\ redeemed' = redeemed \cup {b}
      /\ undone' = (undone \/ \E k \in Clerks : clerk[k].step = "compare") /\ UNCHANGED <<clerk, promised>>
  BY DEF consume
<1>3. coupon \in CouponRow BY <1>1, <1>2, RowIs
<1>4. coupon' \in CouponRow /\ coupon'.uses = coupon.uses + 1 /\ coupon'.offer = coupon.offer BY <1>2, <1>3 DEF CouponRow
<1>5. Cardinality(redeemed') = Cardinality(redeemed) + 1
  <2>1. IsFiniteSet(redeemed) /\ b \notin redeemed BY <1>2, UsesCounted
  <2> QED BY <1>2, <2>1, FS_AddElement
<1>6. coupon'.uses <= Cardinality(redeemed') BY <1>1, <1>4, <1>5, UsesCounted
<1>7. undone' \in BOOLEAN BY <1>2
<1>8. UsesAreBookings'
  <2>1. ASSUME ~undone PROVE coupon'.uses = Cardinality(redeemed') BY <1>1, <1>4, <1>5, <2>1 DEF UsesAreBookings
  <2>2. coupon'.offer.max = NoLimit \/ coupon'.uses <= coupon'.offer.max
    <3>1. CASE coupon.offer.max = NoLimit BY <1>4, <3>1
    <3>2. CASE coupon.offer.max # NoLimit
      <4>1. coupon.offer.max \in Nat /\ coupon.uses \in Nat BY <1>3, <3>2, RowIs
      <4>2. coupon.uses < coupon.offer.max BY <1>2, <3>2
      <4> QED BY <1>4, <4>1, <4>2
    <3> QED BY <3>1, <3>2
  <2> QED BY <1>2, <2>1, <2>2 DEF UsesAreBookings
<1>9. ASSUME NEW k \in Clerks PROVE ClerkSound(k)'
  <2>1. ClerkSound(k) /\ coupon' # NoCoupon BY <1>4, RowIs DEF CouponsInv
  <2>2. clerk[k].step \in {"compare", "update"} => clerk[k].row.uses <= Cardinality(redeemed')
    <3>1. clerk[k].step \in {"compare", "update"} => clerk[k].row.uses \in Nat
      BY <1>1 DEF ClerkCall, NoClerk, CouponRow
    <3> QED BY <1>5, <2>1, <3>1, UsesCounted DEF ClerkSound
  <2>3. clerk[k].step = "compare" => undone' BY <1>2
  <2>4. clerk[k].step = "update" /\ ~undone' => clerk[k].columns \subseteq {"active"} BY <1>2, <2>1 DEF ClerkSound
  <2> QED BY <1>2, <2>1, <2>2, <2>3, <2>4 DEF ClerkSound
<1> QED BY <1>1, <1>2, <1>4, <1>6, <1>7, <1>8, <1>9 DEF CouponsInv

LEMMA CouponsStep == CouponsInv /\ [CouponsNext]_couponVars => CouponsInv'
<1> SUFFICES ASSUME CouponsInv, [CouponsNext]_couponVars PROVE CouponsInv' OBVIOUS
<1>1. CASE UNCHANGED couponVars \/ CouponDayPasses
  BY <1>1 DEF couponVars, CouponDayPasses, CouponsInv, UsesAreBookings, ClerkSound
<1>2. ASSUME NEW b \in Couples, resolveCoupon(b) PROVE CouponsInv'
  BY <1>2 DEF resolveCoupon, CouponsInv, UsesAreBookings, ClerkSound
<1>3. ASSUME NEW b \in Couples, consume(b) PROVE CouponsInv' BY <1>3, Consumes
<1>4. ASSUME NEW k \in Clerks, NEW o \in Benefits, createCoupon(k, o) PROVE CouponsInv' BY <1>4, Asks
<1>5. ASSUME NEW k \in Clerks, NEW on \in BOOLEAN, setActive(k, on) PROVE CouponsInv' BY <1>5, Asks
<1>6. ASSUME NEW k \in Clerks, lookAgain(k) \/ insertCoupon(k) \/ compareCoupon(k) \/ updateCoupon(k) PROVE CouponsInv'
  BY <1>6, LooksAgain, Inserts, Compares, Updates
<1> QED BY <1>1, <1>2, <1>3, <1>4, <1>5, <1>6 DEF CouponsNext

LEMMA CouponsSafe == CouponsInv => CouponsTypeOK /\ UsesAreBookings
<1> SUFFICES ASSUME CouponsInv PROVE CouponsTypeOK /\ UsesAreBookings OBVIOUS
<1>1. \A k \in Clerks : clerk[k].step \in {"idle", "look", "insert", "compare", "update"}
  BY DEF CouponsInv, ClerkCall, NoClerk
<1>2. coupon.uses \in 0..Cardinality(Couples)
  <2>1. coupon.uses <= Cardinality(redeemed) BY DEF CouponsInv
  <2> QED BY <2>1, UsesCounted
<1> QED BY <1>1, <1>2 DEF CouponsInv, CouponsTypeOK
-----------------------------------------------------------------------------
(***************************************************************************)
(* The operators' list.                                                    *)
(***************************************************************************)

Thread == [of : Visitors, status : {"open", "closed"}, unread : Nat, last : Nat]
Text == [in : Threads, by : Visitors \cup {"staff"}, words : BOOLEAN]
Summaries == {NoSummary} \cup [status : {"open", "closed"}, unread : Nat, last : Nat, preview : Nat]
Handler ==
  [step : {"open", "greet"}, of : Visitors, on : SUBSET Threads, alone : BOOLEAN]
  \cup [step : {"count", "read"}, n : Nat, on : SUBSET Threads, alone : BOOLEAN]
  \cup [step : {"push"}, id : Threads, summary : Summaries, on : SUBSET Threads, alone : BOOLEAN]
  \cup [step : {"clear", "list", "close"}, id : Threads, row : Thread, push : BOOLEAN, on : SUBSET Threads, alone : BOOLEAN]
  \cup [step : {"fetch"}, on : SUBSET Threads, alone : BOOLEAN, rows : [Threads -> Summaries]]

ThreadTyped ==
  /\ threads \in [Threads -> {NoThread} \cup Thread] /\ texts \in Seq(Text)
  /\ call \in [Calls -> {NoCall} \cup Handler] /\ board \in [Threads -> Summaries]
  /\ twice \subseteq Visitors /\ stale \subseteq Threads
  /\ \A n \in 1..Len(texts) : threads[texts[n].in] # NoThread
  /\ \A id \in Threads : threads[id] # NoThread => threads[id].last <= Len(texts)

(* What the list may show of a conversation.                               *)
Tells(id, s) == s = toSummary(threads[id], s.preview) /\ s.preview \in {0, shownBy(id)}

(* Where a handler is at work, and what it knows if it works there alone.  *)
Where(c) ==
  /\ c.step \in {"open", "greet"} => c.on = {}
  /\ c.step \in {"count", "read"} => c.n \in 1..Len(texts) /\ c.on = {texts[c.n].in}
  /\ c.step \in {"push", "clear", "list", "close"} => c.on = {c.id} /\ threads[c.id] # NoThread
  /\ c.step = "fetch" => c.on = Threads
Knows(c) ==
  c.alone =>
    /\ c.step \in {"count", "read"} => \A k \in Sent(texts[c.n].in) : k <= c.n
    /\ c.step = "push" => Tells(c.id, c.summary)
    /\ c.step \in {"clear", "list", "close"} => c.row = threads[c.id]
    /\ c.step = "fetch" => \A id \in Threads : threads[id] # NoThread => Tells(id, c.rows[id])
Sound(c) == Where(c) /\ Knows(c)

Apart == \A g, h \in Live : g # h /\ call[g].on \cap call[h].on # {} => ~ call[g].alone

(* Whoever changed a conversation the tab still shows as it was will tell. *)
Owes(h, id) == call[h].step \in {"count", "read", "push"} /\ id \in call[h].on
Owed(id) == id \notin stale /\ threads[id] # NoThread => Tells(id, board[id]) \/ \E h \in Calls : Owes(h, id)

OpenOf(v) == {id \in Threads : threads[id] # NoThread /\ threads[id].of = v /\ threads[id].status = "open"}
Opens(h, v) == call[h].step = "open" /\ call[h].of = v
OneFor(v) ==
  /\ \A g, h \in Calls : Opens(g, v) /\ Opens(h, v) => g = h
  /\ (\E h \in Calls : Opens(h, v)) => OpenOf(v) = {}
  /\ \A i, j \in OpenOf(v) : i = j

ThreadInv ==
  /\ ThreadTyped /\ (\A h \in Live : Sound(call[h])) /\ Apart
  /\ \A id \in Threads : Owed(id)
  /\ \A v \in Visitors \ twice : OneFor(v)

LEMMA ThreadsInitially == ThreadsInit => ThreadInv
<1> SUFFICES ASSUME ThreadsInit PROVE ThreadInv OBVIOUS
<1>1. /\ threads = [id \in Threads |-> NoThread] /\ texts = <<>> /\ call = [h \in Calls |-> NoCall]
      /\ board = [id \in Threads |-> NoSummary] /\ twice = {} /\ stale = {}
  BY DEF ThreadsInit
<1>2. Live = {} BY <1>1 DEF Live
<1>3. texts \in Seq(Text) /\ Len(texts) = 0 BY <1>1
<1>4. ThreadTyped BY <1>1, <1>3 DEF ThreadTyped, Summaries
<1>5. \A id \in Threads : Owed(id) BY <1>1 DEF Owed
<1>6. \A v \in Visitors : OneFor(v)
  <2>1. \A v \in Visitors : OpenOf(v) = {} BY <1>1 DEF OpenOf
  <2>2. \A v \in Visitors, h \in Calls : ~ Opens(h, v) BY <1>1 DEF Opens, NoCall
  <2> QED BY <2>1, <2>2 DEF OneFor
<1> QED BY <1>2, <1>4, <1>5, <1>6 DEF ThreadInv, Apart

LEMMA HandlerIs ==
  ASSUME NEW c \in Handler
  PROVE  /\ c # NoCall /\ c.on \subseteq Threads /\ c.alone \in BOOLEAN
         /\ c.step \in {"open", "greet"} => c.of \in Visitors
         /\ c.step \in {"count", "read"} => c.n \in Nat
         /\ c.step = "push" => c.id \in Threads /\ c.summary \in Summaries
         /\ c.step \in {"clear", "list", "close"} => c.id \in Threads /\ c.row \in Thread /\ c.push \in BOOLEAN
         /\ c.step = "fetch" => c.rows \in [Threads -> Summaries]
         /\ c.step \in {"open", "greet", "count", "read", "push", "clear", "list", "close", "fetch"}
BY DEF Handler, NoCall

(* A handler that is no longer alone, or still is, is otherwise the same.  *)
LEMMA AloneOnly ==
  ASSUME NEW c \in Handler, NEW b \in BOOLEAN
  PROVE  LET d == [c EXCEPT !.alone = b] IN
         /\ d \in Handler /\ d.step = c.step /\ d.on = c.on /\ d.alone = b
         /\ c.step \in {"open", "greet"} => d.of = c.of
         /\ c.step \in {"count", "read"} => d.n = c.n
         /\ c.step = "push" => d.id = c.id /\ d.summary = c.summary
         /\ c.step \in {"clear", "list", "close"} => d.id = c.id /\ d.row = c.row /\ d.push = c.push
         /\ c.step = "fetch" => d.rows = c.rows
<1> PICK d : d = [c EXCEPT !.alone = b] OBVIOUS
<1>1. CASE c \in [step : {"open", "greet"}, of : Visitors, on : SUBSET Threads, alone : BOOLEAN] BY <1>1 DEF Handler
<1>2. CASE c \in [step : {"count", "read"}, n : Nat, on : SUBSET Threads, alone : BOOLEAN] BY <1>2 DEF Handler
<1>3. CASE c \in [step : {"push"}, id : Threads, summary : Summaries, on : SUBSET Threads, alone : BOOLEAN]
  BY <1>3 DEF Handler
<1>4. CASE c \in [step : {"clear", "list", "close"}, id : Threads, row : Thread, push : BOOLEAN, on : SUBSET Threads,
                  alone : BOOLEAN]
  BY <1>4 DEF Handler
<1>5. CASE c \in [step : {"fetch"}, on : SUBSET Threads, alone : BOOLEAN, rows : [Threads -> Summaries]]
  BY <1>5 DEF Handler
<1> QED BY <1>1, <1>2, <1>3, <1>4, <1>5 DEF Handler

LEMMA SentIs ==
  ASSUME ThreadTyped, NEW id
  PROVE  Sent(id) = {n \in 1..Len(texts) : texts[n].in = id}
<1>1. DOMAIN texts = 1..Len(texts) BY DEF ThreadTyped
<1> QED BY <1>1 DEF Sent

LEMMA ShownIs ==
  ASSUME ThreadTyped, NEW id, NEW n \in Sent(id), \A k \in Sent(id) : k <= n
  PROVE  shownBy(id) = n
<1>1. Sent(id) \subseteq Nat BY SentIs
<1>2. \A m \in Sent(id) : (\A k \in Sent(id) : k <= m) => m = n BY <1>1
<1>3. Newest(id) = n BY <1>2 DEF Newest
<1> QED BY <1>3 DEF shownBy

LEMMA ShownStays ==
  ASSUME NEW id, Sent(id)' = Sent(id)
  PROVE  shownBy(id)' = shownBy(id)
BY DEF shownBy, Newest

LEMMA TellsStays ==
  ASSUME NEW id, NEW s, Tells(id, s), threads'[id] = threads[id], Sent(id)' = Sent(id)
  PROVE  Tells(id, s)'
BY ShownStays DEF Tells, toSummary

(* A handler keeps what it knows unless its conversations change.          *)
LEMMA StaysSound ==
  ASSUME ThreadTyped, NEW c \in Handler, Sound(c),
         Len(texts) <= Len(texts'), Len(texts) \in Nat, Len(texts') \in Nat, \A n \in 1..Len(texts) : texts'[n] = texts[n],
         \A id \in Threads : threads[id] # NoThread => threads'[id] # NoThread,
         c.alone => \A id \in c.on : threads'[id] = threads[id] /\ Sent(id)' = Sent(id)
  PROVE  Sound(c)'
<1>1. c.step \in {"count", "read"} => c.n \in 1..Len(texts') /\ texts'[c.n] = texts[c.n] BY DEF Sound, Where
<1>2. Where(c)' BY <1>1, HandlerIs DEF Sound, Where
<1>3. ASSUME c.alone PROVE Knows(c)'
  <2>1. (c.step \in {"count", "read"} => \A k \in Sent(texts[c.n].in) : k <= c.n)'
    <3> SUFFICES ASSUME c.step \in {"count", "read"} PROVE (\A k \in Sent(texts[c.n].in) : k <= c.n)' OBVIOUS
    <3> PICK id : id = texts[c.n].in OBVIOUS
    <3>1. id \in c.on BY DEF Sound, Where
    <3>2. Sent(id)' = Sent(id) BY <1>3, <3>1
    <3>3. \A k \in Sent(id) : k <= c.n BY <1>3 DEF Sound, Knows
    <3>4. (texts[c.n].in)' = id BY <1>1
    <3>5. \A k \in Sent(id)' : k <= c.n BY <3>2, <3>3
    <3> QED BY <3>4, <3>5 DEF Sent
  <2>2. c.step = "push" => Tells(c.id, c.summary)' BY <1>3, TellsStays DEF Sound, Knows, Where
  <2>3. c.step \in {"clear", "list", "close"} => c.row = threads'[c.id] BY <1>3 DEF Sound, Knows, Where
  <2>4. ASSUME c.step = "fetch", NEW id \in Threads, threads'[id] # NoThread PROVE Tells(id, c.rows[id])'
    <3>1. threads'[id] = threads[id] /\ Sent(id)' = Sent(id) BY <1>3, <2>4 DEF Sound, Where
    <3>2. Tells(id, c.rows[id]) BY <1>3, <2>4, <3>1 DEF Sound, Knows
    <3> QED BY <3>1, <3>2, TellsStays
  <2> QED BY <2>1, <2>2, <2>3, <2>4 DEF Knows
<1>4. ~ c.alone => Knows(c)' BY DEF Knows
<1> QED BY <1>2, <1>3, <1>4 DEF Sound

LEMMA AloneSound ==
  ASSUME NEW c \in Handler, Sound(c)
  PROVE  Sound([c EXCEPT !.alone = FALSE])
<1> PICK d : d = [c EXCEPT !.alone = FALSE] OBVIOUS
<1>1. /\ d \in Handler /\ d.step = c.step /\ d.on = c.on /\ d.alone = FALSE
      /\ c.step \in {"count", "read"} => d.n = c.n
      /\ c.step = "push" => d.id = c.id
      /\ c.step \in {"clear", "list", "close"} => d.id = c.id
  BY AloneOnly
<1>2. Where(d) BY <1>1 DEF Sound, Where
<1>3. Knows(d) BY <1>1 DEF Knows
<1> QED BY <1>2, <1>3 DEF Sound

LEMMA LiveIs ==
  ASSUME ThreadTyped
  PROVE  Live \subseteq Calls /\ \A g \in Live : call[g] \in Handler
BY DEF Live, ThreadTyped

(* A new handler: whoever is on its conversations is no longer alone.      *)
LEMMA Handled ==
  ASSUME ThreadInv, NEW h \in Calls, NEW c \in Handler, c.alone, Handle(h, c), threads' = threads,
         Len(texts) <= Len(texts'), Len(texts) \in Nat, Len(texts') \in Nat, \A n \in 1..Len(texts) : texts'[n] = texts[n],
         \A id \in Threads \ c.on : Sent(id)' = Sent(id),
         Sound(c)'
  PROVE  /\ call' \in [Calls -> {NoCall} \cup Handler]
         /\ (\A g \in Live : Sound(call[g]))' /\ Apart'
         /\ call'[h] \in Handler /\ call'[h].step = c.step /\ call'[h].on = c.on
         /\ c.step \in {"open", "greet"} => call'[h].of = c.of
         /\ \A g \in Calls \ {h} : /\ call'[g] = NoCall <=> call[g] = NoCall
                                   /\ \A id \in Threads : Owes(g, id) => Owes(g, id)'
                                   /\ \A v \in Visitors : Opens(g, v)' => Opens(g, v)
<1> PICK others : others = {g \in Live : call[g].on \cap c.on # {}} OBVIOUS
<1> PICK d : d = [c EXCEPT !.alone = (others = {})] OBVIOUS
<1>1. /\ call[h] = NoCall
      /\ call' = [g \in Calls |-> IF g = h THEN d ELSE IF g \in others THEN [call[g] EXCEPT !.alone = FALSE] ELSE call[g]]
  BY Zenon DEF Handle
<1>2. ThreadTyped /\ (\A g \in Live : Sound(call[g])) /\ Apart BY DEF ThreadInv
<1>3. Live \subseteq Calls /\ \A g \in Live : call[g] \in Handler BY <1>2, LiveIs
<1>4. (others = {}) \in BOOLEAN BY Zenon
<1>5. /\ d \in Handler /\ d.step = c.step /\ d.on = c.on /\ d.alone = (others = {})
      /\ c.step \in {"open", "greet"} => d.of = c.of
      /\ c.step \in {"count", "read"} => d.n = c.n
      /\ c.step = "push" => d.id = c.id /\ d.summary = c.summary
      /\ c.step \in {"clear", "list", "close"} => d.id = c.id /\ d.row = c.row /\ d.push = c.push
      /\ c.step = "fetch" => d.rows = c.rows
  BY <1>4, AloneOnly, ZenonT(60)
<1>6. ASSUME NEW g \in others
      PROVE  LET e == [call[g] EXCEPT !.alone = FALSE] IN
             /\ e \in Handler /\ Sound(e) /\ e.step = call[g].step /\ e.on = call[g].on /\ e.alone = FALSE
             /\ call[g].step \in {"open", "greet"} => e.of = call[g].of
  BY <1>2, <1>3, AloneOnly, AloneSound
<1>7. h \notin Live BY <1>1 DEF Live
<1>8. call'[h] = d /\ \A g \in Calls \ {h} : call'[g] = IF g \in others THEN [call[g] EXCEPT !.alone = FALSE] ELSE call[g]
  BY <1>1
<1>9. call' \in [Calls -> {NoCall} \cup Handler]
  <2>1. \A g \in Calls : call[g] \in {NoCall} \cup Handler BY <1>2 DEF ThreadTyped
  <2>2. \A g \in Calls \ {h} : call'[g] \in {NoCall} \cup Handler
    <3> SUFFICES ASSUME NEW g \in Calls \ {h} PROVE call'[g] \in {NoCall} \cup Handler OBVIOUS
    <3>1. CASE g \in others BY <1>6, <1>8, <3>1
    <3>2. CASE g \notin others BY <1>8, <2>1, <3>2
    <3> QED BY <3>1, <3>2
  <2>3. \A g \in Calls : call'[g] \in {NoCall} \cup Handler BY <1>5, <1>8, <2>2
  <2>4. call' = [g \in Calls |-> call'[g]] BY <1>1, Zenon
  <2> QED BY <2>3, <2>4
<1>10. Sound(d)'
  <2>1. Where(c)' /\ Knows(c)' BY DEF Sound
  <2>2. Where(d)' BY <1>5, <2>1 DEF Where
  <2>3. CASE others = {}
    <3>1. c.alone \in BOOLEAN BY HandlerIs
    <3>2. Knows(d)' BY <1>5, <2>1, <2>3 DEF Knows
    <3> QED BY <2>2, <3>2 DEF Sound
  <2>4. CASE others # {}
    <3>1. ~ d.alone BY <1>5, <2>4
    <3>2. Knows(d)' BY <3>1 DEF Knows
    <3> QED BY <2>2, <3>2 DEF Sound
  <2> QED BY <2>3, <2>4
<1>11. ASSUME NEW g \in Live PROVE Sound(call[g])'
  <2> PICK e : e = call'[g] OBVIOUS
  <2>1. g \in Calls \ {h} /\ call[g] \in Handler /\ Sound(call[g]) BY <1>2, <1>3, <1>7
  <2>2. CASE g \in others
    <3>1. e \in Handler /\ Sound(e) /\ e.alone = FALSE BY <1>6, <1>8, <2>1, <2>2
    <3>2. Sound(e)' BY <1>2, <3>1, StaysSound
    <3> QED BY <3>2
  <2>3. CASE g \notin others
    <3>1. e = call[g] /\ e \in Handler /\ Sound(e) BY <1>8, <2>1, <2>3
    <3>2. e.on \subseteq Threads \ c.on BY <2>3, <3>1, HandlerIs
    <3>3. \A id \in e.on : threads'[id] = threads[id] /\ Sent(id)' = Sent(id) BY <3>2
    <3>4. Sound(e)' BY <1>2, <3>1, <3>3, StaysSound
    <3> QED BY <3>4
  <2> QED BY <2>2, <2>3
<1>12. Live' = Live \cup {h} /\ \A g \in Calls \ {h} : call'[g] = NoCall <=> call[g] = NoCall
  <2>1. \A g \in Calls \ {h} : call'[g] = NoCall <=> call[g] = NoCall
    <3> SUFFICES ASSUME NEW g \in Calls \ {h} PROVE call'[g] = NoCall <=> call[g] = NoCall OBVIOUS
    <3>1. CASE g \in others BY <1>3, <1>6, <1>8, <3>1, HandlerIs, ZenonT(60)
    <3>2. CASE g \notin others BY <1>8, <3>2
    <3> QED BY <3>1, <3>2
  <2>2. call'[h] # NoCall BY <1>5, <1>8, HandlerIs
  <2> QED BY <2>1, <2>2 DEF Live
<1>13. (\A g \in Live : Sound(call[g]))'
  <2>1. \A g \in Live' : Sound(call[g])'
    <3> SUFFICES ASSUME NEW g \in Live' PROVE Sound(call[g])' OBVIOUS
    <3>1. CASE g = h BY <1>8, <1>10, <3>1
    <3>2. CASE g # h BY <1>11, <1>12, <3>2
    <3> QED BY <3>1, <3>2
  <2> QED BY <2>1
<1>14. \A g \in Live : /\ call'[g].on = call[g].on /\ call'[g].step = call[g].step
                       /\ call[g].step \in {"open", "greet"} => call'[g].of = call[g].of
                       /\ g \in others => ~ call'[g].alone
                       /\ ~ call[g].alone => ~ call'[g].alone
  <2> SUFFICES ASSUME NEW g \in Live
               PROVE  /\ call'[g].on = call[g].on /\ call'[g].step = call[g].step
                      /\ call[g].step \in {"open", "greet"} => call'[g].of = call[g].of
                      /\ g \in others => ~ call'[g].alone
                      /\ ~ call[g].alone => ~ call'[g].alone
    OBVIOUS
  <2>1. CASE g \in others BY <1>6, <1>7, <1>8, <1>3, <2>1
  <2>2. CASE g \notin others BY <1>7, <1>8, <1>3, <2>2
  <2> QED BY <2>1, <2>2
<1>15. Apart'
  <2> SUFFICES ASSUME NEW g \in Live', NEW k \in Live', g # k, call'[g].on \cap call'[k].on # {}
               PROVE  ~ call'[g].alone
    BY DEF Apart
  <2>1. CASE g = h
    <3>1. k \in Live /\ call[k].on = call'[k].on BY <1>12, <1>14, <2>1
    <3>2. k \in others BY <1>5, <1>8, <2>1, <3>1
    <3> QED BY <1>5, <1>8, <2>1, <3>2
  <2>2. CASE k = h
    <3>1. g \in Live /\ call[g].on = call'[g].on BY <1>12, <1>14, <2>2
    <3>2. g \in others BY <1>5, <1>8, <2>2, <3>1
    <3> QED BY <1>14, <3>1, <3>2
  <2>3. CASE g # h /\ k # h
    <3>1. g \in Live /\ k \in Live BY <1>12, <2>3
    <3>2. ~ call[g].alone BY <1>2, <1>14, <3>1 DEF Apart
    <3> QED BY <1>14, <3>1, <3>2
  <2> QED BY <2>1, <2>2, <2>3
<1>16. \A g \in Calls \ {h}, id \in Threads : Owes(g, id) => Owes(g, id)'
  <2> SUFFICES ASSUME NEW g \in Calls \ {h}, NEW id \in Threads, Owes(g, id) PROVE Owes(g, id)' OBVIOUS
  <2>1. g \in Live BY DEF Owes, Live, NoCall
  <2> QED BY <1>14, <2>1 DEF Owes
<1>17. \A g \in Calls \ {h}, v \in Visitors : Opens(g, v)' => Opens(g, v)
  <2> SUFFICES ASSUME NEW g \in Calls \ {h}, NEW v \in Visitors, Opens(g, v)' PROVE Opens(g, v) OBVIOUS
  <2>1. call'[g].step = "open" /\ call'[g].of = v BY DEF Opens
  <2>2. g \in Live BY <1>12, <2>1 DEF Live, NoCall
  <2> QED BY <1>14, <2>1, <2>2 DEF Opens
<1> QED BY <1>5, <1>8, <1>9, <1>12, <1>13, <1>15, <1>16, <1>17

LEMMA OneKept ==
  ASSUME NEW v, OneFor(v), OpenOf(v)' \subseteq OpenOf(v), \A g \in Calls : Opens(g, v)' => Opens(g, v)
  PROVE  OneFor(v)'
<1>1. (\A g, h \in Calls : Opens(g, v) /\ Opens(h, v) => g = h)' BY DEF OneFor
<1>2. ((\E h \in Calls : Opens(h, v)) => OpenOf(v) = {})' BY DEF OneFor
<1>3. (\A i, j \in OpenOf(v) : i = j)' BY DEF OneFor
<1> QED BY <1>1, <1>2, <1>3 DEF OneFor

LEMMA OwedKept ==
  ASSUME NEW id, Owed(id), id \in stale => id \in stale', threads'[id] = threads[id], Sent(id)' = Sent(id),
         board'[id] = board[id], \A g \in Calls : Owes(g, id) => Owes(g, id)'
  PROVE  Owed(id)'
<1> SUFFICES ASSUME id \notin stale', threads'[id] # NoThread PROVE (Tells(id, board[id]) \/ \E h \in Calls : Owes(h, id))'
  BY DEF Owed
<1>1. CASE \E h \in Calls : Owes(h, id) BY <1>1
<1>2. CASE Tells(id, board[id])
  <2> PICK s : s = board[id] OBVIOUS
  <2>1. Tells(id, s)' BY <1>2, TellsStays
  <2> QED BY <2>1
<1> QED BY <1>1, <1>2 DEF Owed

(* A handler's next step, on the conversations it works on.                *)
LEMMA Moves ==
  ASSUME ThreadInv, NEW h \in Live, NEW d \in {NoCall} \cup Handler, call' = [call EXCEPT ![h] = d], d.step # "open",
         d # NoCall => d.on = call[h].on /\ d.alone = call[h].alone /\ Sound(d)',
         texts' = texts, twice' = twice,
         \A id \in Threads : threads[id] # NoThread => threads'[id] # NoThread,
         \A id \in Threads \ call[h].on : threads'[id] = threads[id],
         \A v \in Visitors : OpenOf(v)' \subseteq OpenOf(v)
  PROVE  /\ call' \in [Calls -> {NoCall} \cup Handler] /\ call'[h] = d
         /\ (\A g \in Live : Sound(call[g]))' /\ Apart'
         /\ (\A v \in Visitors \ twice : OneFor(v))'
         /\ \A g \in Calls \ {h}, id \in Threads : Owes(g, id) => Owes(g, id)'
<1>1. ThreadTyped /\ (\A g \in Live : Sound(call[g])) /\ Apart BY DEF ThreadInv
<1>2. Live \subseteq Calls /\ (\A g \in Live : call[g] \in Handler) BY <1>1, LiveIs
<1>3. call \in [Calls -> {NoCall} \cup Handler] /\ h \in Calls BY <1>1, <1>2 DEF ThreadTyped
<1>4. call'[h] = d /\ (\A g \in Calls \ {h} : call'[g] = call[g]) BY <1>3
<1>5. call' \in [Calls -> {NoCall} \cup Handler] BY <1>3
<1>6. Live' \subseteq Live BY <1>3, <1>4 DEF Live
<1>7. (\A g \in Live : Sound(call[g]))'
  <2> SUFFICES ASSUME NEW g \in Live' PROVE Sound(call[g])' OBVIOUS
  <2>1. CASE g = h
    <3>1. d # NoCall BY <1>4, <2>1 DEF Live
    <3> QED BY <1>4, <2>1, <3>1
  <2>2. CASE g # h
    <3> PICK e : e = call[g] OBVIOUS
    <3>1. g \in Live /\ e = call'[g] /\ e \in Handler /\ Sound(e) BY <1>1, <1>2, <1>4, <1>6, <2>2
    <3>2. e.alone => \A id \in e.on : threads'[id] = threads[id] /\ Sent(id)' = Sent(id)
      <4> SUFFICES ASSUME e.alone, NEW id \in e.on PROVE threads'[id] = threads[id] /\ Sent(id)' = Sent(id) OBVIOUS
      <4>1. id \in Threads BY <3>1, HandlerIs
      <4>2. id \notin call[h].on BY <1>1, <2>2, <3>1 DEF Apart
      <4> QED BY <4>1, <4>2 DEF Sent
    <3>3. Len(texts) \in Nat BY <1>1 DEF ThreadTyped
    <3>4. Sound(e)' BY <1>1, <3>1, <3>2, <3>3, StaysSound
    <3> QED BY <3>1, <3>4
  <2> QED BY <2>1, <2>2
<1>8. Apart'
  <2> SUFFICES ASSUME NEW g \in Live', NEW k \in Live', g # k, call'[g].on \cap call'[k].on # {} PROVE ~ call'[g].alone
    BY DEF Apart
  <2>1. \A f \in Live' : f \in Live /\ call'[f].on = call[f].on /\ call'[f].alone = call[f].alone
    <3> SUFFICES ASSUME NEW f \in Live'
                 PROVE  f \in Live /\ call'[f].on = call[f].on /\ call'[f].alone = call[f].alone
      OBVIOUS
    <3>1. CASE f = h BY <1>4, <3>1 DEF Live
    <3>2. CASE f # h BY <1>2, <1>4, <1>6, <3>2
    <3> QED BY <3>1, <3>2
  <2> QED BY <1>1, <2>1 DEF Apart
<1>9. (\A v \in Visitors \ twice : OneFor(v))'
  <2> SUFFICES ASSUME NEW v \in Visitors \ twice PROVE OneFor(v)' OBVIOUS
  <2>1. \A g \in Calls : Opens(g, v)' => Opens(g, v) BY <1>4 DEF Opens
  <2> QED BY <2>1, OneKept DEF ThreadInv
<1>10. \A g \in Calls \ {h}, id \in Threads : Owes(g, id) => Owes(g, id)' BY <1>4 DEF Owes
<1> QED BY <1>4, <1>5, <1>7, <1>8, <1>9, <1>10

(* A handler that begins by reading changes nothing else.                  *)
LEMMA JustReads ==
  ASSUME ThreadInv, NEW h \in Calls, NEW c \in Handler, c.alone, Handle(h, c), c.step # "open", Sound(c)',
         UNCHANGED <<threads, texts, board, twice, stale>>
  PROVE  ThreadInv'
<1>1. ThreadTyped BY DEF ThreadInv
<1>2. Len(texts) \in Nat /\ call[h] = NoCall BY <1>1 DEF ThreadTyped, Handle
<1>3. \A id : Sent(id)' = Sent(id) BY DEF Sent
<1>4. /\ call' \in [Calls -> {NoCall} \cup Handler]
      /\ (\A g \in Live : Sound(call[g]))' /\ Apart'
      /\ call'[h].step = c.step
      /\ \A g \in Calls \ {h}, id \in Threads : Owes(g, id) => Owes(g, id)'
      /\ \A g \in Calls \ {h}, v \in Visitors : Opens(g, v)' => Opens(g, v)
  BY <1>2, <1>3, Handled
<1>5. ThreadTyped' BY <1>1, <1>4 DEF ThreadTyped
<1>6. (\A id \in Threads : Owed(id))'
  <2> SUFFICES ASSUME NEW id \in Threads PROVE Owed(id)' OBVIOUS
  <2>1. \A g \in Calls : Owes(g, id) => Owes(g, id)' BY <1>2, <1>4 DEF Owes, NoCall
  <2> QED BY <1>3, <2>1, OwedKept DEF ThreadInv
<1>7. (\A v \in Visitors \ twice : OneFor(v))'
  <2> SUFFICES ASSUME NEW v \in Visitors \ twice PROVE OneFor(v)' OBVIOUS
  <2>1. \A g \in Calls : Opens(g, v)' => Opens(g, v) BY <1>4 DEF Opens
  <2>2. OpenOf(v)' = OpenOf(v) BY DEF OpenOf
  <2> QED BY <2>1, <2>2, OneKept DEF ThreadInv
<1> QED BY <1>4, <1>5, <1>6, <1>7 DEF ThreadInv

(* What the list says of a message or of a conversation.                   *)
LEMMA ShownAmong ==
  ASSUME ThreadTyped, NEW id
  PROVE  shownBy(id) \in Nat /\ \A n : pushed(n) \in {0, n}
<1>1. \A n : pushed(n) \in {0, n} BY DEF pushed
<1>2. CASE Sent(id) = {} BY <1>1, <1>2 DEF shownBy
<1>3. CASE Sent(id) # {}
  <2>1. Sent(id) \subseteq 1..Len(texts) /\ Len(texts) \in Nat BY SentIs DEF ThreadTyped
  <2>2. IsFiniteSet(Sent(id))
    <3>1. IsFiniteSet(1..Len(texts)) BY <2>1, FS_Interval
    <3> QED BY <2>1, <3>1, FS_Subset
  <2>3. \A n \in Sent(id) : n \in Int BY <2>1
  <2>4. Max(Sent(id)) \in Sent(id) /\ \A k \in Sent(id) : k <= Max(Sent(id)) BY <1>3, <2>2, <2>3, MaxIs
  <2>5. shownBy(id) = Max(Sent(id)) BY <2>4, ShownIs
  <2> QED BY <1>1, <2>1, <2>4, <2>5
<1> QED BY <1>2, <1>3

LEMMA SummaryIs ==
  ASSUME NEW r \in Thread, NEW p \in Nat
  PROVE  toSummary(r, p) \in Summaries /\ toSummary(r, p).preview = p
BY DEF toSummary, Thread, Summaries

LEMMA OneStarts ==
  ASSUME ThreadInv, NEW h \in Calls, NEW v \in Visitors, startSession(h, v)
  PROVE  ThreadInv'
<1> PICK open : open = OpenOf(v) OBVIOUS
<1> PICK c : c = [step |-> IF open = {} THEN "open" ELSE "greet", of |-> v, on |-> {}, alone |-> TRUE] OBVIOUS
<1>1. /\ Handle(h, c) /\ UNCHANGED <<threads, texts, board, stale>>
      /\ twice' = IF \E g \in Live : call[g].step = "open" /\ call[g].of = v THEN twice \cup {v} ELSE twice
  BY DEF startSession, OpenOf
<1>2. ThreadTyped BY DEF ThreadInv
<1>3. Len(texts) \in Nat /\ call[h] = NoCall /\ h \notin Live BY <1>1, <1>2 DEF ThreadTyped, Handle, Live
<1>4. \A id : Sent(id)' = Sent(id) BY <1>1 DEF Sent
<1>5. c \in Handler /\ c.alone /\ c.of = v /\ (c.step = "open" <=> open = {}) /\ c.step \in {"open", "greet"} BY DEF Handler
<1>6. Sound(c)' BY DEF Sound, Where, Knows
<1>7. /\ call' \in [Calls -> {NoCall} \cup Handler]
      /\ (\A g \in Live : Sound(call[g]))' /\ Apart'
      /\ call'[h].step = c.step /\ call'[h].of = v
      /\ \A g \in Calls \ {h}, id \in Threads : Owes(g, id) => Owes(g, id)'
      /\ \A g \in Calls \ {h}, u \in Visitors : Opens(g, u)' => Opens(g, u)
  BY <1>1, <1>3, <1>4, <1>5, <1>6, Handled
<1>8. ThreadTyped' BY <1>1, <1>2, <1>7 DEF ThreadTyped
<1>9. (\A id \in Threads : Owed(id))'
  <2> SUFFICES ASSUME NEW id \in Threads PROVE Owed(id)' OBVIOUS
  <2>1. \A g \in Calls : Owes(g, id) => Owes(g, id)' BY <1>3, <1>7 DEF Owes, NoCall
  <2> QED BY <1>1, <1>4, <2>1, OwedKept DEF ThreadInv
<1>10. (\A u \in Visitors \ twice : OneFor(u))'
  <2> SUFFICES ASSUME NEW u \in Visitors \ twice' PROVE OneFor(u)' OBVIOUS
  <2>1. OpenOf(u)' = OpenOf(u) /\ OneFor(u) BY <1>1 DEF OpenOf, ThreadInv
  <2>2. CASE u # v \/ open # {}
    <3>1. ~ Opens(h, u)' BY <1>5, <1>7, <2>2 DEF Opens
    <3>2. \A g \in Calls : Opens(g, u)' => Opens(g, u) BY <1>7, <3>1
    <3> QED BY <2>1, <3>2, OneKept
  <2>3. CASE u = v /\ open = {}
    <3>1. \A g \in Live : ~ Opens(g, v) BY <1>1, <2>3 DEF Opens
    <3>2. \A g \in Calls : Opens(g, v) => g \in Live BY DEF Opens, Live, NoCall
    <3>3. \A g \in Calls : Opens(g, v)' => g = h BY <1>7, <3>1, <3>2
    <3>4. OpenOf(v)' = {} BY <2>1, <2>3
    <3>5. (\A g, k \in Calls : Opens(g, v) /\ Opens(k, v) => g = k)' BY <3>3
    <3>6. OneFor(v)' BY <3>4, <3>5 DEF OneFor
    <3> QED BY <2>3, <3>6
  <2> QED BY <2>2, <2>3
<1> QED BY <1>7, <1>8, <1>9, <1>10 DEF ThreadInv

LEMMA OneInserts ==
  ASSUME ThreadInv, NEW h \in Calls, NEW id \in Threads, NEW by \in Visitors \cup {"staff"}, NEW words \in BOOLEAN,
         Insert(h, id, by, words)
  PROVE  ThreadInv'
<1> PICK n : n = Len(texts) + 1 OBVIOUS
<1> PICK c : c = [step |-> "count", n |-> n, on |-> {id}, alone |-> TRUE] OBVIOUS
<1> PICK m : m = [in |-> id, by |-> by, words |-> words] OBVIOUS
<1>1. /\ threads[id] # NoThread /\ texts' = Append(texts, m) /\ Handle(h, c) /\ UNCHANGED <<threads, board, twice, stale>>
  BY DEF Insert, assertVisitorOwns
<1>2. ThreadTyped BY DEF ThreadInv
<1>3. /\ texts \in Seq(Text) /\ Len(texts) \in Nat /\ m \in Text /\ m.in = id /\ texts' \in Seq(Text) /\ Len(texts') = n
      /\ n \in 1..n /\ texts'[n] = m /\ \A k \in 1..Len(texts) : texts'[k] = texts[k] /\ k \in 1..n
  BY <1>1, <1>2 DEF ThreadTyped, Text
<1>4. call[h] = NoCall BY <1>1 DEF Handle
<1>5. c \in Handler /\ c.alone /\ c.step = "count" /\ c.n = n /\ c.on = {id} BY <1>3 DEF Handler
<1>6. \A j : Sent(j)' = {k \in 1..n : texts'[k].in = j}
  <2>1. DOMAIN texts' = 1..n BY <1>3
  <2> QED BY <2>1 DEF Sent
<1>7. \A j \in Threads \ {id} : Sent(j)' = Sent(j)
  <2> SUFFICES ASSUME NEW j \in Threads \ {id} PROVE Sent(j)' = Sent(j) OBVIOUS
  <2>1. Sent(j) = {k \in 1..Len(texts) : texts[k].in = j} BY <1>2, SentIs
  <2>2. \A k \in 1..n : k = n \/ k \in 1..Len(texts) BY <1>3
  <2> QED BY <1>3, <1>6, <2>1, <2>2
<1>8. Sound(c)'
  <2>1. (texts[c.n].in)' = id /\ Len(texts') = n BY <1>3, <1>5
  <2>2. Where(c)' BY <1>3, <1>5, <2>1 DEF Where
  <2>3. \A k \in Sent(id)' : k <= n BY <1>3, <1>6
  <2>4. (\A k \in Sent(texts[c.n].in) : k <= c.n)' BY <1>5, <2>1, <2>3 DEF Sent
  <2>5. Knows(c)' BY <1>5, <2>4 DEF Knows
  <2> QED BY <2>2, <2>5 DEF Sound
<1>9. /\ call' \in [Calls -> {NoCall} \cup Handler]
      /\ (\A g \in Live : Sound(call[g]))' /\ Apart'
      /\ call'[h].step = "count" /\ call'[h].on = {id}
      /\ \A g \in Calls \ {h}, j \in Threads : Owes(g, j) => Owes(g, j)'
      /\ \A g \in Calls \ {h}, v \in Visitors : Opens(g, v)' => Opens(g, v)
  BY <1>1, <1>3, <1>5, <1>7, <1>8, Handled
<1>10. ThreadTyped'
  <2>1. (\A k \in 1..Len(texts) : threads[texts[k].in] # NoThread)'
    <3> SUFFICES ASSUME NEW k \in 1..n PROVE threads[texts'[k].in] # NoThread BY <1>1, <1>3
    <3>1. CASE k = n BY <1>1, <1>3, <3>1
    <3>2. CASE k # n
      <4>1. k \in 1..Len(texts) BY <1>3, <3>2
      <4> QED BY <1>2, <1>3, <4>1 DEF ThreadTyped
    <3> QED BY <3>1, <3>2
  <2>2. (\A j \in Threads : threads[j] # NoThread => threads[j].last <= Len(texts))'
    <3> SUFFICES ASSUME NEW j \in Threads, threads[j] # NoThread PROVE threads[j].last <= n BY <1>1, <1>3
    <3>1. threads[j].last \in Nat /\ threads[j].last <= Len(texts) BY <1>2 DEF ThreadTyped, Thread
    <3> QED BY <1>3, <3>1
  <2> QED BY <1>1, <1>2, <1>3, <1>9, <2>1, <2>2 DEF ThreadTyped
<1>11. (\A j \in Threads : Owed(j))'
  <2> SUFFICES ASSUME NEW j \in Threads PROVE Owed(j)' OBVIOUS
  <2>1. CASE j = id
    <3>1. Owes(h, id)' BY <1>9 DEF Owes
    <3> QED BY <2>1, <3>1 DEF Owed
  <2>2. CASE j # id
    <3>1. \A g \in Calls : Owes(g, j) => Owes(g, j)' BY <1>4, <1>9 DEF Owes, NoCall
    <3>2. Sent(j)' = Sent(j) BY <1>7, <2>2
    <3> QED BY <1>1, <3>1, <3>2, OwedKept DEF ThreadInv
  <2> QED BY <2>1, <2>2
<1>12. (\A v \in Visitors \ twice : OneFor(v))'
  <2> SUFFICES ASSUME NEW v \in Visitors \ twice PROVE OneFor(v)' BY <1>1
  <2>1. \A g \in Calls : Opens(g, v)' => Opens(g, v) BY <1>9 DEF Opens
  <2>2. OpenOf(v)' = OpenOf(v) BY <1>1 DEF OpenOf
  <2> QED BY <2>1, <2>2, OneKept DEF ThreadInv
<1> QED BY <1>9, <1>10, <1>11, <1>12 DEF ThreadInv

(* The conversation a handler works on alone is as it last saw it.         *)
LEMMA OneReads ==
  ASSUME ThreadInv, NEW h \in Calls, NEW id \in Threads, NEW b \in BOOLEAN, markStaffRead(h, id, b) \/ close(h, id, b)
  PROVE  ThreadInv'
<1> PICK s \in {"clear", "list", "close"} :
       /\ threads[id] # NoThread
       /\ Handle(h, [step |-> s, id |-> id, row |-> threads[id], push |-> b, on |-> {id}, alone |-> TRUE])
       /\ UNCHANGED <<threads, texts, board, twice, stale>>
  BY DEF markStaffRead, close
<1> PICK c : c = [step |-> s, id |-> id, row |-> threads[id], push |-> b, on |-> {id}, alone |-> TRUE] OBVIOUS
<1>1. threads[id] \in Thread BY DEF ThreadInv, ThreadTyped
<1>2. c \in Handler /\ c.alone /\ c.step # "open" BY <1>1 DEF Handler
<1>3. Sound(c)' BY DEF Sound, Where, Knows
<1> QED BY <1>2, <1>3, JustReads

LEMMA OneFetches ==
  ASSUME ThreadInv, NEW h \in Calls, listConversations(h)
  PROVE  ThreadInv'
<1> PICK rows : rows = [id \in Threads |-> IF threads[id] = NoThread THEN NoSummary ELSE toSummary(threads[id], shownBy(id))]
  OBVIOUS
<1> PICK c : c = [step |-> "fetch", on |-> Threads, alone |-> TRUE, rows |-> rows] OBVIOUS
<1>1. Handle(h, c) /\ UNCHANGED <<threads, texts, board, twice, stale>> BY DEF listConversations
<1>2. ThreadTyped BY DEF ThreadInv
<1>3. \A id \in Threads : rows[id] \in Summaries
  <2> SUFFICES ASSUME NEW id \in Threads PROVE rows[id] \in Summaries OBVIOUS
  <2>1. CASE threads[id] = NoThread BY <2>1 DEF Summaries
  <2>2. CASE threads[id] # NoThread
    <3>1. threads[id] \in Thread /\ rows[id] = toSummary(threads[id], shownBy(id)) BY <1>2, <2>2 DEF ThreadTyped
    <3> QED BY <1>2, <3>1, ShownAmong, SummaryIs
  <2> QED BY <2>1, <2>2
<1>4. rows \in [Threads -> Summaries] BY <1>3
<1>5. c \in Handler /\ c.alone /\ c.step = "fetch" /\ c.rows = rows /\ c.on = Threads BY <1>4 DEF Handler
<1>6. \A id \in Threads : threads[id] # NoThread => Tells(id, rows[id])'
  <2> SUFFICES ASSUME NEW id \in Threads, threads[id] # NoThread PROVE Tells(id, rows[id])' OBVIOUS
  <2> PICK s : s = rows[id] OBVIOUS
  <2>1. s = toSummary(threads[id], shownBy(id)) BY DEF toSummary
  <2>2. s.preview = shownBy(id) BY <2>1 DEF toSummary
  <2>3. Sent(id)' = Sent(id) BY <1>1 DEF Sent
  <2>4. Tells(id, s) BY <2>1, <2>2 DEF Tells
  <2>5. Tells(id, s)' BY <1>1, <2>3, <2>4, TellsStays
  <2> QED BY <2>5
<1>7. Where(c)' BY <1>5 DEF Where
<1>8. Knows(c)' BY <1>1, <1>5, <1>6 DEF Knows
<1>9. Sound(c)' BY <1>7, <1>8 DEF Sound
<1> QED BY <1>1, <1>5, <1>9, JustReads

(* A handler's later steps.                                                *)
LEMMA OneOpens ==
  ASSUME ThreadInv, NEW h \in Calls, openThread(h)
  PROVE  ThreadInv'
<1>1. PICK id \in Threads :
       /\ threads[id] = NoThread
       /\ threads' = [threads EXCEPT ![id] = [of |-> call[h].of, status |-> "open", unread |-> 0, last |-> Len(texts)]]
       /\ stale' = stale \cup {id}
       /\ call' = [g \in Calls |-> IF g = h THEN NoCall
                                  ELSE IF g \in Live /\ id \in call[g].on THEN [call[g] EXCEPT !.alone = FALSE] ELSE call[g]]
  BY DEF openThread
<1>2. ThreadTyped /\ (\A g \in Live : Sound(call[g])) /\ Apart /\ call[h].step = "open" /\ UNCHANGED <<texts, board, twice>>
  BY DEF ThreadInv, openThread
<1>3. Live \subseteq Calls /\ h \in Live /\ (\A g \in Live : call[g] \in Handler)
  BY <1>2, LiveIs DEF Live, NoCall
<1> PICK others : others = {g \in Live : id \in call[g].on} OBVIOUS
<1> PICK v : v = call[h].of OBVIOUS
<1>4. v \in Visitors /\ Opens(h, v) BY <1>2, <1>3, HandlerIs DEF Opens
<1>5. call'[h] = NoCall /\ \A g \in Calls \ {h} : call'[g] = IF g \in others THEN [call[g] EXCEPT !.alone = FALSE] ELSE call[g]
  BY <1>1, <1>3
<1>6. \A g \in Live \ {h} :
         /\ call'[g] \in Handler /\ call'[g].on = call[g].on /\ call'[g].step = call[g].step /\ Sound(call'[g])
         /\ call[g].step \in {"open", "greet"} => call'[g].of = call[g].of
         /\ call'[g].alone => call[g].alone /\ id \notin call[g].on
  <2> SUFFICES ASSUME NEW g \in Live \ {h}
               PROVE  /\ call'[g] \in Handler /\ call'[g].on = call[g].on /\ call'[g].step = call[g].step /\ Sound(call'[g])
                      /\ call[g].step \in {"open", "greet"} => call'[g].of = call[g].of
                      /\ call'[g].alone => call[g].alone /\ id \notin call[g].on
    OBVIOUS
  <2> PICK e : e = [call[g] EXCEPT !.alone = FALSE] OBVIOUS
  <2>1. CASE g \in others
    <3>1. /\ e \in Handler /\ e.on = call[g].on /\ e.step = call[g].step /\ Sound(e) /\ e.alone = FALSE
          /\ call[g].step \in {"open", "greet"} => e.of = call[g].of
      BY <1>2, <1>3, AloneOnly, AloneSound
    <3> QED BY <1>3, <1>5, <2>1, <3>1
  <2>2. CASE g \notin others BY <1>2, <1>3, <1>5, <2>2
  <2> QED BY <2>1, <2>2
<1>7. /\ Live' = Live \ {h} /\ call' \in [Calls -> {NoCall} \cup Handler]
  <2>1. \A g \in Live \ {h} : call'[g] # NoCall BY <1>6, HandlerIs
  <2>2. \A g \in Calls \ Live : call'[g] = NoCall BY <1>3, <1>5 DEF Live
  <2>3. Live' = Live \ {h} BY <1>3, <1>5, <2>1, <2>2 DEF Live
  <2>4. \A g \in Calls : call'[g] \in {NoCall} \cup Handler BY <1>5, <1>6, <2>2
  <2>5. call' = [g \in Calls |-> call'[g]] BY <1>1, Zenon
  <2> QED BY <2>3, <2>4, <2>5
<1>8. ThreadTyped'
  <2> PICK t : t = [of |-> v, status |-> "open", unread |-> 0, last |-> Len(texts)] OBVIOUS
  <2>1. Len(texts) \in Nat BY <1>2 DEF ThreadTyped
  <2>2. t \in Thread /\ t.last = Len(texts) /\ t # NoThread BY <1>4, <2>1 DEF Thread, NoThread
  <2>3. threads' = [threads EXCEPT ![id] = t] BY <1>1
  <2>4. threads' \in [Threads -> {NoThread} \cup Thread] BY <1>2, <2>2, <2>3 DEF ThreadTyped
  <2>5. (\A n \in 1..Len(texts) : threads[texts[n].in] # NoThread)'
    BY <1>1, <1>2, <2>2, <2>3 DEF ThreadTyped
  <2>6. (\A j \in Threads : threads[j] # NoThread => threads[j].last <= Len(texts))'
    BY <1>2, <2>1, <2>2, <2>3 DEF ThreadTyped
  <2> QED BY <1>1, <1>2, <1>7, <2>4, <2>5, <2>6 DEF ThreadTyped
<1>9. \A j : Sent(j)' = Sent(j) BY <1>2 DEF Sent
<1>10. \A j \in Threads \ {id} : threads'[j] = threads[j] BY <1>1, <1>2 DEF ThreadTyped
<1>11. (\A g \in Live : Sound(call[g]))'
  <2> SUFFICES ASSUME NEW g \in Live' PROVE Sound(call[g])' OBVIOUS
  <2> PICK e : e = call'[g] OBVIOUS
  <2>1. g \in Live \ {h} /\ e \in Handler /\ Sound(e) /\ (e.alone => id \notin e.on) BY <1>6, <1>7
  <2>2. e.alone => \A j \in e.on : threads'[j] = threads[j] /\ Sent(j)' = Sent(j) BY <1>9, <1>10, <2>1, HandlerIs
  <2>3. Len(texts) \in Nat /\ texts' = texts BY <1>2 DEF ThreadTyped
  <2>4. \A j \in Threads : threads[j] # NoThread => threads'[j] # NoThread BY <1>1, <1>10
  <2>5. Sound(e)' BY <1>2, <2>1, <2>2, <2>3, <2>4, StaysSound
  <2> QED BY <2>5
<1>12. Apart' BY <1>2, <1>6, <1>7 DEF Apart
<1>13. (\A j \in Threads : Owed(j))'
  <2> SUFFICES ASSUME NEW j \in Threads PROVE Owed(j)' OBVIOUS
  <2>1. CASE j = id BY <1>1, <2>1 DEF Owed
  <2>2. CASE j # id
    <3>1. \A g \in Calls : Owes(g, j) => Owes(g, j)'
      <4> SUFFICES ASSUME NEW g \in Calls, Owes(g, j) PROVE Owes(g, j)' OBVIOUS
      <4>1. g \in Live \ {h} BY <1>2 DEF Owes, Live, NoCall
      <4> QED BY <1>6, <4>1 DEF Owes
    <3> QED BY <1>1, <1>2, <1>9, <1>10, <2>2, <3>1, OwedKept DEF ThreadInv
  <2> QED BY <2>1, <2>2
<1>14. (\A u \in Visitors \ twice : OneFor(u))'
  <2> SUFFICES ASSUME NEW u \in Visitors \ twice PROVE OneFor(u)' BY <1>2
  <2>1. OneFor(u) BY DEF ThreadInv
  <2>2. \A g \in Calls : Opens(g, u)' => Opens(g, u) /\ g # h
    <3> SUFFICES ASSUME NEW g \in Calls, Opens(g, u)' PROVE Opens(g, u) /\ g # h OBVIOUS
    <3>1. call'[g].step = "open" /\ call'[g].of = u BY DEF Opens
    <3>2. g \in Live \ {h} BY <1>7, <3>1 DEF Live, NoCall
    <3> QED BY <1>6, <3>1, <3>2 DEF Opens
  <2>3. CASE u # v
    <3>1. \A j \in Threads : j \in OpenOf(u)' => j \in OpenOf(u)
      <4> SUFFICES ASSUME NEW j \in Threads, j \in OpenOf(u)' PROVE j \in OpenOf(u) OBVIOUS
      <4>1. threads'[j].of = u /\ threads'[j] # NoThread /\ threads'[j].status = "open" BY DEF OpenOf
      <4>2. threads'[id].of = v BY <1>1, <1>2 DEF ThreadTyped
      <4> QED BY <1>10, <2>3, <4>1, <4>2 DEF OpenOf
    <3>2. OpenOf(u)' \subseteq OpenOf(u) BY <3>1 DEF OpenOf
    <3> QED BY <2>1, <2>2, <3>2, OneKept
  <2>4. CASE u = v
    <3>1. OpenOf(v) = {} /\ \A g \in Calls : Opens(g, v) => g = h BY <1>3, <1>4, <2>1, <2>4 DEF OneFor
    <3>2. \A g \in Calls : ~ Opens(g, v)' BY <2>2, <2>4, <3>1
    <3>3. \A j \in Threads : j \in OpenOf(v)' => j = id BY <1>10, <3>1 DEF OpenOf
    <3>4. (\A i, j \in OpenOf(v) : i = j)' BY <3>3 DEF OpenOf
    <3>5. OneFor(v)' BY <3>2, <3>4 DEF OneFor
    <3> QED BY <2>4, <3>5
  <2> QED BY <2>3, <2>4
<1> QED BY <1>7, <1>8, <1>11, <1>12, <1>13, <1>14 DEF ThreadInv

LEMMA OneResumes ==
  ASSUME ThreadInv, NEW h \in Calls, resume(h)
  PROVE  ThreadInv'
<1>1. /\ call[h].step = "greet" /\ call' = [call EXCEPT ![h] = NoCall] /\ UNCHANGED <<threads, texts, board, twice, stale>>
  BY DEF resume, End
<1>2. ThreadTyped /\ h \in Live BY <1>1 DEF ThreadInv, Live, NoCall
<1>3. \A v : OpenOf(v)' = OpenOf(v) BY <1>1 DEF OpenOf
<1>4. NoCall.step # "open" BY DEF NoCall
<1>5. /\ call' \in [Calls -> {NoCall} \cup Handler]
      /\ (\A g \in Live : Sound(call[g]))' /\ Apart'
      /\ (\A v \in Visitors \ twice : OneFor(v))'
      /\ \A g \in Calls \ {h}, id \in Threads : Owes(g, id) => Owes(g, id)'
  BY <1>1, <1>2, <1>3, <1>4, Moves
<1>6. ThreadTyped' BY <1>1, <1>2, <1>5 DEF ThreadTyped
<1>7. (\A id \in Threads : Owed(id))'
  <2> SUFFICES ASSUME NEW id \in Threads PROVE Owed(id)' OBVIOUS
  <2>1. \A g \in Calls : Owes(g, id) => Owes(g, id)' BY <1>1, <1>5 DEF Owes
  <2>2. Sent(id)' = Sent(id) BY <1>1 DEF Sent
  <2> QED BY <1>1, <2>1, <2>2, OwedKept DEF ThreadInv
<1> QED BY <1>5, <1>6, <1>7 DEF ThreadInv

WithMessage(r, n, m) == [r EXCEPT !.last = n, !.unread = m]

LEMMA CountedIs ==
  ASSUME NEW r \in Thread, NEW n \in Nat, NEW m \in Nat
  PROVE  /\ WithMessage(r, n, m) \in Thread /\ WithMessage(r, n, m) # NoThread /\ WithMessage(r, n, m).last = n
         /\ WithMessage(r, n, m).of = r.of /\ WithMessage(r, n, m).status = r.status
<1> DEFINE t == WithMessage(r, n, m)
<1>1. t.last = n /\ t.unread = m /\ t.of = r.of /\ t.status = r.status BY DEF Thread, WithMessage
<1>2. t = [f \in {"of", "status", "unread", "last"} |-> t[f]] BY Zenon DEF Thread, WithMessage
<1> HIDE DEF t
<1>3. t.of \in Visitors /\ t.status \in {"open", "closed"} BY <1>1 DEF Thread
<1>4. t \in Thread BY <1>1, <1>2, <1>3 DEF Thread
<1>5. t # NoThread BY <1>3, <1>1 DEF NoThread
<1> QED BY <1>1, <1>4, <1>5 DEF t

LEMMA OneCounts ==
  ASSUME ThreadInv, NEW h \in Calls, countMessage(h)
  PROVE  ThreadInv'
<1>1. \A r \in Thread, k \in Nat, m \in Nat :
        /\ WithMessage(r, k, m) \in Thread /\ WithMessage(r, k, m) # NoThread /\ WithMessage(r, k, m).last = k
        /\ WithMessage(r, k, m).of = r.of /\ WithMessage(r, k, m).status = r.status
  BY CountedIs
<1> PICK c : c = call[h] OBVIOUS
<1> PICK n : n = c.n OBVIOUS
<1> PICK id : id = texts[n].in OBVIOUS
<1> PICK d : d = [c EXCEPT !.step = "read"] OBVIOUS
<1>2. /\ c.step = "count" /\ UNCHANGED <<texts, board, twice, stale>>
      /\ call' = [call EXCEPT ![h].step = "read"]
      /\ threads' = [threads EXCEPT ![id].last = n, ![id].unread = IF texts[n].by = "staff" THEN 0 ELSE @ + 1]
  BY DEF countMessage, Step
<1>3. ThreadTyped /\ h \in Live BY <1>2, SMTT(30) DEF ThreadInv, Live, NoCall
<1>4. c \in Handler /\ Sound(c) /\ call' = [call EXCEPT ![h] = d]
  BY <1>2, <1>3, LiveIs DEF ThreadInv, ThreadTyped
<1>5. /\ n \in 1..Len(texts) /\ c.on = {id} /\ id \in Threads /\ Len(texts) \in Nat /\ threads[id] \in Thread
      /\ texts[n].in \in Threads
  <2>1. n \in 1..Len(texts) /\ c.on = {id} BY <1>2, <1>4 DEF Sound, Where
  <2>2. texts[n] \in Text /\ threads[id] # NoThread /\ Len(texts) \in Nat BY <1>3, <2>1 DEF ThreadTyped
  <2> QED BY <1>3, <2>1, <2>2 DEF ThreadTyped, Text
<1>6. /\ d \in Handler /\ d.step = "read" /\ d.n = n /\ d.on = c.on /\ d.alone = c.alone
  <2>1. c \in [step : {"count", "read"}, n : Nat, on : SUBSET Threads, alone : BOOLEAN] BY <1>2, <1>4 DEF Handler
  <2> QED BY <2>1 DEF Handler
<1>7. PICK m \in Nat : threads' = [threads EXCEPT ![id].last = n, ![id].unread = m]
  <2>1. threads \in [Threads -> {NoThread} \cup Thread] BY <1>3 DEF ThreadTyped
  <2>2. threads[id].unread \in Nat BY <1>5 DEF Thread
  <2>3. CASE texts[n].by = "staff"
    <3>1. threads' = [threads EXCEPT ![id].last = n, ![id].unread = 0] BY <1>2, <1>5, <2>1, <2>3 DEF Thread
    <3> QED BY <3>1
  <2>4. CASE texts[n].by # "staff"
    <3>1. threads' = [threads EXCEPT ![id].last = n, ![id].unread = threads[id].unread + 1]
      BY <1>2, <1>5, <2>1, <2>4 DEF Thread
    <3>2. threads[id].unread + 1 \in Nat BY <2>2
    <3> QED BY <3>1, <3>2
  <2> QED BY <2>3, <2>4
<1>8. /\ threads'[id] \in Thread /\ threads'[id].last = n /\ threads'[id].of = threads[id].of
      /\ threads'[id].status = threads[id].status /\ threads'[id] # NoThread
      /\ \A j \in Threads \ {id} : threads'[j] = threads[j]
      /\ threads' \in [Threads -> {NoThread} \cup Thread]
  <2> PICK t : t = WithMessage(threads[id], n, m) OBVIOUS
  <2>1. n \in Nat /\ m \in Nat /\ threads[id] \in Thread BY <1>5, <1>7, SMTT(30)
  <2>2. t \in Thread BY <2>1, <1>1, Zenon
  <2>3. t # NoThread BY <2>1, <1>1, Zenon
  <2>4. t.last = n BY <2>1, <1>1, ZenonT(60)
  <2>5. threads \in [Threads -> {NoThread} \cup Thread] BY <1>3 DEF ThreadTyped
  <2>6. threads'[id] = t BY <1>5, <1>7, <2>5 DEF Thread, WithMessage
  <2>7. threads'[id].of = threads[id].of BY <1>5, <1>7, <2>5 DEF Thread
  <2>8. threads'[id].status = threads[id].status BY <1>5, <1>7, <2>5 DEF Thread
  <2>9. \A j \in Threads \ {id} : threads'[j] = threads[j] BY <1>5, <1>7, <2>5
  <2>10. threads' = [j \in Threads |-> threads'[j]] BY <1>7, <2>5
  <2>11. \A j \in Threads : threads'[j] \in {NoThread} \cup Thread BY <2>5, <2>6, <2>9, <2>2
  <2> QED BY <2>7, <2>8, <2>6, <2>9, <2>10, <2>11, <2>2, <2>3, <2>4
<1>9. \A v : OpenOf(v)' \subseteq OpenOf(v)
  <2> SUFFICES ASSUME NEW v, NEW j \in Threads, j \in OpenOf(v)' PROVE j \in OpenOf(v) BY DEF OpenOf
  <2>1. threads[id] # NoThread BY <1>5 DEF Thread, NoThread
  <2> QED BY <1>8, <2>1 DEF OpenOf
<1>10. Sound(d)'
  <2>1. Where(d)' BY <1>2, <1>5, <1>6 DEF Where
  <2>2. Knows(d)'
    <3> SUFFICES ASSUME c.alone PROVE (\A k \in Sent(texts[d.n].in) : k <= d.n)' BY <1>6 DEF Knows
    <3>1. \A k \in Sent(id) : k <= n BY <1>2, <1>4 DEF Sound, Knows
    <3> QED BY <1>2, <1>6, <3>1 DEF Sent
  <2> QED BY <2>1, <2>2 DEF Sound
<1>11. \A j \in Threads : threads[j] # NoThread => threads'[j] # NoThread BY <1>8
<1>12. /\ call' \in [Calls -> {NoCall} \cup Handler] /\ call'[h] = d
       /\ (\A g \in Live : Sound(call[g]))' /\ Apart'
       /\ (\A v \in Visitors \ twice : OneFor(v))'
       /\ \A g \in Calls \ {h}, j \in Threads : Owes(g, j) => Owes(g, j)'
  <2>1. \A j \in Threads \ call[h].on : threads'[j] = threads[j] BY <1>5, <1>8
  <2>2. d.step # "open" BY <1>6
  <2> QED BY <1>2, <1>3, <1>4, <1>6, <1>9, <1>10, <1>11, <2>1, <2>2, Moves, ZenonT(60)
<1>13. ThreadTyped'
  <2>1. (\A k \in 1..Len(texts) : threads[texts[k].in] # NoThread)'
    <3> SUFFICES ASSUME NEW k \in 1..Len(texts) PROVE threads'[texts[k].in] # NoThread BY <1>2
    <3>1. texts[k] \in Text /\ threads[texts[k].in] # NoThread BY <1>3 DEF ThreadTyped
    <3> QED BY <1>11, <3>1 DEF Text
  <2>2. (\A j \in Threads : threads[j] # NoThread => threads[j].last <= Len(texts))'
    <3> SUFFICES ASSUME NEW j \in Threads, threads'[j] # NoThread PROVE threads'[j].last <= Len(texts) BY <1>2
    <3>1. CASE j = id BY <1>5, <1>8, <3>1
    <3>2. CASE j # id BY <1>3, <1>8, <3>2 DEF ThreadTyped
    <3> QED BY <3>1, <3>2
  <2> QED BY <1>2, <1>3, <1>8, <1>12, <2>1, <2>2 DEF ThreadTyped
<1>14. (\A j \in Threads : Owed(j))'
  <2> SUFFICES ASSUME NEW j \in Threads PROVE Owed(j)' OBVIOUS
  <2>1. CASE j = id
    <3>1. Owes(h, id)' BY <1>5, <1>6, <1>12 DEF Owes
    <3> QED BY <2>1, <3>1 DEF Owed
  <2>2. CASE j # id
    <3>1. \A g \in Calls : Owes(g, j) => Owes(g, j)' BY <1>5, <1>12, <2>2 DEF Owes
    <3>2. Sent(j)' = Sent(j) BY <1>2 DEF Sent
    <3> QED BY <1>2, <1>8, <2>2, <3>1, <3>2, OwedKept DEF ThreadInv
  <2> QED BY <2>1, <2>2
<1> QED BY <1>12, <1>13, <1>14 DEF ThreadInv

LEMMA PushIs ==
  ASSUME NEW c \in Handler, NEW id \in Threads, NEW s \in Summaries, NEW d,
         d = [step |-> "push", id |-> id, summary |-> s, on |-> c.on, alone |-> c.alone]
  PROVE  /\ d \in Handler /\ d # NoCall /\ d.step = "push" /\ d.id = id /\ d.summary = s
         /\ d.on = c.on /\ d.alone = c.alone
<1>1. c.on \in SUBSET Threads /\ c.alone \in BOOLEAN BY HandlerIs
<1>2. d \in [step : {"push"}, id : Threads, summary : Summaries, on : SUBSET Threads, alone : BOOLEAN] BY <1>1
<1>3. d \in Handler /\ d # NoCall BY <1>2, HandlerIs DEF Handler
<1> QED BY <1>3

(* A handler that has read on, of conversations left as they are, pushes   *)
(* or ends.                                                                *)
LEMMA JustMoves ==
  ASSUME ThreadInv, NEW h \in Live, NEW d \in {NoCall} \cup Handler, call' = [call EXCEPT ![h] = d], d.step # "open",
         d # NoCall => d.on = call[h].on /\ d.alone = call[h].alone /\ Sound(d),
         \A id \in Threads : Owes(h, id) => d.step \in {"count", "read", "push"} /\ id \in d.on,
         UNCHANGED <<threads, texts, board, twice, stale>>
  PROVE  ThreadInv'
<1>1. ThreadTyped BY DEF ThreadInv
<1>2. \A id : Sent(id)' = Sent(id) BY DEF Sent
<1>3. d # NoCall => Sound(d)'
  <2> SUFFICES ASSUME d # NoCall PROVE Sound(d)' OBVIOUS
  <2>1. Len(texts) \in Nat /\ d \in Handler BY <1>1 DEF ThreadTyped
  <2> QED BY <1>1, <1>2, <2>1, StaysSound
<1>4. \A v : OpenOf(v)' = OpenOf(v) BY DEF OpenOf
<1>5. /\ call' \in [Calls -> {NoCall} \cup Handler] /\ call'[h] = d
      /\ (\A g \in Live : Sound(call[g]))' /\ Apart'
      /\ (\A v \in Visitors \ twice : OneFor(v))'
      /\ \A g \in Calls \ {h}, id \in Threads : Owes(g, id) => Owes(g, id)'
  BY <1>3, <1>4, Moves
<1>6. ThreadTyped' BY <1>1, <1>5 DEF ThreadTyped
<1>7. (\A id \in Threads : Owed(id))'
  <2> SUFFICES ASSUME NEW id \in Threads PROVE Owed(id)' OBVIOUS
  <2>1. \A g \in Calls : Owes(g, id) => Owes(g, id)' BY <1>5 DEF Owes
  <2> QED BY <1>2, <2>1, OwedKept DEF ThreadInv
<1> QED BY <1>5, <1>6, <1>7 DEF ThreadInv

LEMMA OneReadsBack ==
  ASSUME ThreadInv, NEW h \in Calls, requireConversation(h)
  PROVE  ThreadInv'
<1> PICK c : c = call[h] OBVIOUS
<1> PICK n : n = c.n OBVIOUS
<1> PICK id : id = texts[n].in OBVIOUS
<1> PICK s : s = toSummary(threads[id], pushed(n)) OBVIOUS
<1> PICK d : d = [step |-> "push", id |-> id, summary |-> s, on |-> c.on, alone |-> c.alone] OBVIOUS
<1>1. c.step = "read" /\ UNCHANGED <<threads, texts, board, twice, stale>> BY DEF requireConversation
<1>2. ThreadTyped /\ h \in Live BY <1>1 DEF ThreadInv, Live, NoCall
<1>3. c \in Handler /\ Sound(c) BY <1>2, LiveIs DEF ThreadInv
<1>4. call' = [call EXCEPT ![h] = d] BY <1>1, <1>2 DEF requireConversation, Push, readBack, ThreadTyped, Live
<1>5. n \in 1..Len(texts) /\ c.on = {id} BY <1>1, <1>3 DEF Sound, Where
<1>6. id \in Threads /\ threads[id] \in Thread /\ threads[id] # NoThread /\ n \in Nat
  <2>1. texts[n] \in Text /\ threads[id] # NoThread /\ n \in Nat BY <1>2, <1>5 DEF ThreadTyped
  <2> QED BY <1>2, <2>1 DEF ThreadTyped, Text
<1>7. pushed(n) \in Nat /\ pushed(n) \in {0, n} BY <1>2, <1>6, ShownAmong
<1>8. s \in Summaries /\ s.preview = pushed(n) BY <1>6, <1>7, SummaryIs
<1>9. /\ d \in Handler /\ d # NoCall /\ d.step = "push" /\ d.id = id /\ d.summary = s /\ d.on = c.on /\ d.alone = c.alone
  BY <1>3, <1>6, <1>8, PushIs, SMTT(30)
<1>10. Sound(d)
  <2>1. Where(d) BY <1>5, <1>6, <1>9 DEF Where
  <2>2. ASSUME c.alone PROVE Tells(id, s)
    <3>1. \A k \in Sent(id) : k <= n BY <1>1, <1>3, <2>2 DEF Sound, Knows
    <3>2. n \in Sent(id) BY <1>2, <1>5, SentIs
    <3>3. shownBy(id) = n BY <1>2, <3>1, <3>2, ShownIs
    <3> QED BY <1>7, <1>8, <3>3 DEF Tells
  <2>3. Knows(d) BY <1>9, <2>2 DEF Knows
  <2> QED BY <2>1, <2>3 DEF Sound
<1> QED BY <1>1, <1>2, <1>4, <1>5, <1>9, <1>10, JustMoves, ZenonT(60) DEF Owes

LEMMA OneLists ==
  ASSUME ThreadInv, NEW h \in Calls, listMessages(h)
  PROVE  ThreadInv'
<1> PICK c : c = call[h] OBVIOUS
<1> PICK id : id = c.id OBVIOUS
<1> PICK p : p = pushed(shownBy(id)) OBVIOUS
<1> PICK s : s = toSummary(c.row, p) OBVIOUS
<1> PICK d : d = [step |-> "push", id |-> id, summary |-> s, on |-> c.on, alone |-> c.alone] OBVIOUS
<1>1. c.step = "list" /\ UNCHANGED <<threads, texts, board, twice, stale>> BY DEF listMessages
<1>2. ThreadTyped /\ h \in Live BY <1>1 DEF ThreadInv, Live, NoCall
<1>3. c \in Handler /\ Sound(c) BY <1>2, LiveIs DEF ThreadInv
<1>4. \A j : ~ Owes(h, j) BY <1>1 DEF Owes
<1>5. call' = [call EXCEPT ![h] = d] \/ call' = [call EXCEPT ![h] = NoCall]
  BY <1>1, <1>2 DEF listMessages, Push, End, ThreadTyped, Live
<1>6. id \in Threads /\ c.row \in Thread BY <1>1, <1>3, HandlerIs
<1>7. c.on = {id} /\ threads[id] # NoThread BY <1>1, <1>3 DEF Sound, Where
<1>8. p \in {0, shownBy(id)} /\ shownBy(id) \in Nat /\ p \in Nat BY <1>2, ShownAmong
<1>9. s \in Summaries /\ s.preview = p BY <1>6, <1>8, SummaryIs
<1>10. /\ d \in Handler /\ d # NoCall /\ d.step = "push" /\ d.id = id /\ d.summary = s /\ d.on = c.on /\ d.alone = c.alone
  BY <1>3, <1>6, <1>9, PushIs
<1>11. Sound(d)
  <2>1. Where(d) BY <1>10, <1>7 DEF Where
  <2>2. ASSUME c.alone PROVE Tells(id, s)
    <3>1. c.row = threads[id] BY <1>1, <1>3, <2>2 DEF Sound, Knows
    <3> QED BY <1>8, <1>9, <3>1 DEF Tells
  <2>3. Knows(d) BY <1>10, <2>2 DEF Knows
  <2> QED BY <2>1, <2>3 DEF Sound
<1>12. CASE call' = [call EXCEPT ![h] = d] BY <1>1, <1>2, <1>10, <1>11, <1>12, <1>4, JustMoves
<1>13. CASE call' = [call EXCEPT ![h] = NoCall]
  <2>1. NoCall.step # "open" BY DEF NoCall
  <2> QED BY <1>1, <1>2, <1>13, <1>4, <2>1, JustMoves
<1> QED BY <1>5, <1>12, <1>13

LEMMA OneAnnounces ==
  ASSUME ThreadInv, NEW h \in Calls, announce(h)
  PROVE  ThreadInv'
<1> PICK c : c = call[h] OBVIOUS
<1> PICK id : id = c.id OBVIOUS
<1> PICK s : s = c.summary OBVIOUS
<1>1. /\ c.step = "push" /\ call' = [call EXCEPT ![h] = NoCall] /\ UNCHANGED <<threads, texts, twice>>
      /\ board' = [board EXCEPT ![id] = s]
      /\ stale' = IF c.alone THEN stale \ {id} ELSE stale \cup {id}
  BY DEF announce, End
<1>2. ThreadTyped /\ h \in Live BY <1>1 DEF ThreadInv, Live, NoCall
<1>3. c \in Handler /\ Sound(c) BY <1>2, LiveIs DEF ThreadInv
<1>4. id \in Threads /\ s \in Summaries /\ c.on = {id} BY <1>1, <1>3, HandlerIs DEF Sound, Where
<1>5. \A v : OpenOf(v)' = OpenOf(v) BY <1>1 DEF OpenOf
<1>6. \A j : Sent(j)' = Sent(j) BY <1>1 DEF Sent
<1>7. NoCall.step # "open" BY DEF NoCall
<1>8. /\ call' \in [Calls -> {NoCall} \cup Handler]
      /\ (\A g \in Live : Sound(call[g]))' /\ Apart'
      /\ (\A v \in Visitors \ twice : OneFor(v))'
      /\ \A g \in Calls \ {h}, j \in Threads : Owes(g, j) => Owes(g, j)'
  BY <1>1, <1>2, <1>5, <1>7, Moves
<1>9. board' \in [Threads -> Summaries] /\ board'[id] = s /\ \A j \in Threads \ {id} : board'[j] = board[j]
  BY <1>1, <1>2, <1>4 DEF ThreadTyped
<1>10. ThreadTyped'
  <2>1. stale' \subseteq Threads BY <1>1, <1>2, <1>4 DEF ThreadTyped
  <2> QED BY <1>1, <1>2, <1>8, <1>9, <2>1 DEF ThreadTyped
<1>11. (\A j \in Threads : Owed(j))'
  <2> SUFFICES ASSUME NEW j \in Threads PROVE Owed(j)' OBVIOUS
  <2>1. CASE j = id
    <3>1. CASE c.alone
      <4>1. Tells(id, s) BY <1>1, <1>3, <3>1 DEF Sound, Knows
      <4>2. Tells(id, s)' BY <1>1, <1>6, <4>1, TellsStays
      <4>3. Tells(id, board[id])' BY <1>9, <4>2
      <4> QED BY <2>1, <4>3 DEF Owed
    <3>2. CASE ~ c.alone BY <1>1, <2>1, <3>2 DEF Owed
    <3> QED BY <3>1, <3>2
  <2>2. CASE j # id
    <3>1. \A g \in Calls : Owes(g, j) => Owes(g, j)' BY <1>4, <1>8, <2>2 DEF Owes
    <3>2. j \in stale => j \in stale' BY <1>1, <2>2
    <3> QED BY <1>1, <1>6, <1>9, <2>2, <3>1, <3>2, OwedKept DEF ThreadInv
  <2> QED BY <2>1, <2>2
<1> QED BY <1>8, <1>10, <1>11 DEF ThreadInv

LEMMA OneShows ==
  ASSUME ThreadInv, NEW h \in Calls, showList(h)
  PROVE  ThreadInv'
<1> PICK c : c = call[h] OBVIOUS
<1>1. /\ c.step = "fetch" /\ call' = [call EXCEPT ![h] = NoCall] /\ UNCHANGED <<threads, texts, twice>>
      /\ board' = c.rows /\ stale' = IF c.alone THEN {} ELSE Threads
  BY DEF showList, End
<1>2. ThreadTyped /\ h \in Live BY <1>1 DEF ThreadInv, Live, NoCall
<1>3. c \in Handler /\ Sound(c) BY <1>2, LiveIs DEF ThreadInv
<1>4. c.rows \in [Threads -> Summaries] BY <1>1, <1>3, HandlerIs
<1>5. \A v : OpenOf(v)' = OpenOf(v) BY <1>1 DEF OpenOf
<1>6. \A j : Sent(j)' = Sent(j) BY <1>1 DEF Sent
<1>7. NoCall.step # "open" BY DEF NoCall
<1>8. /\ call' \in [Calls -> {NoCall} \cup Handler]
      /\ (\A g \in Live : Sound(call[g]))' /\ Apart'
      /\ (\A v \in Visitors \ twice : OneFor(v))'
  BY <1>1, <1>2, <1>5, <1>7, Moves
<1>9. ThreadTyped' BY <1>1, <1>2, <1>4, <1>8 DEF ThreadTyped
<1>10. (\A j \in Threads : Owed(j))'
  <2> SUFFICES ASSUME NEW j \in Threads, c.alone, threads[j] # NoThread PROVE Tells(j, board[j])' BY <1>1 DEF Owed
  <2> PICK s : s = c.rows[j] OBVIOUS
  <2>1. Tells(j, s) BY <1>1, <1>3 DEF Sound, Knows
  <2>2. Tells(j, s)' BY <1>1, <1>6, <2>1, TellsStays
  <2> QED BY <1>1, <2>2
<1> QED BY <1>8, <1>9, <1>10 DEF ThreadInv

LEMMA OneClears ==
  ASSUME ThreadInv, NEW h \in Calls, clearBadge(h)
  PROVE  ThreadInv'
<1> PICK c : c = call[h] OBVIOUS
<1> PICK id : id = c.id OBVIOUS
<1> PICK r : r = [c.row EXCEPT !.unread = 0] OBVIOUS
<1> PICK d : d = [c EXCEPT !.step = "list", !.row = r] OBVIOUS
<1>1. /\ c.step = "clear" /\ UNCHANGED <<texts, board, twice>> /\ stale' = stale \cup {id}
      /\ threads' = [threads EXCEPT ![id].unread = 0]
      /\ call' = [call EXCEPT ![h].step = "list", ![h].row.unread = 0]
  BY DEF clearBadge
<1>2. ThreadTyped /\ h \in Live BY <1>1 DEF ThreadInv, Live, NoCall
<1>3. c \in Handler /\ Sound(c) BY <1>2, LiveIs DEF ThreadInv
<1>4. id \in Threads /\ c.row \in Thread BY <1>1, <1>3, HandlerIs
<1>5. c.on = {id} /\ threads[id] # NoThread BY <1>1, <1>3 DEF Sound, Where
<1>6. threads \in [Threads -> {NoThread} \cup Thread] /\ threads[id] \in Thread BY <1>2, <1>4, <1>5 DEF ThreadTyped
<1>7. \A q \in Thread : LET p == [q EXCEPT !.unread = 0] IN
         p \in Thread /\ p # NoThread /\ p.last = q.last /\ p.of = q.of /\ p.status = q.status
  <2> SUFFICES ASSUME NEW q \in Thread
               PROVE  LET p == [q EXCEPT !.unread = 0] IN
                      p \in Thread /\ p # NoThread /\ p.last = q.last /\ p.of = q.of /\ p.status = q.status
    OBVIOUS
  <2> PICK p : p = [q EXCEPT !.unread = 0] OBVIOUS
  <2>1. p \in Thread /\ p.last = q.last /\ p.of = q.of /\ p.status = q.status BY DEF Thread
  <2>2. p # NoThread BY <2>1 DEF Thread, NoThread
  <2> QED BY <2>1, <2>2
<1>8. c \in [step : {"clear", "list", "close"}, id : Threads, row : Thread, push : BOOLEAN, on : SUBSET Threads, alone : BOOLEAN]
  BY <1>1, <1>3 DEF Handler
<1>9. r \in Thread BY <1>4, <1>7
<1>10. d = [step |-> "list", id |-> id, row |-> r, push |-> c.push, on |-> c.on, alone |-> c.alone] BY <1>8
<1>11. /\ d \in Handler /\ d.step = "list" /\ d.id = id /\ d.row = r /\ d.on = c.on /\ d.alone = c.alone
  BY <1>8, <1>9, <1>10 DEF Handler
<1>12. call' = [call EXCEPT ![h] = d]
  <2>1. call \in [Calls -> {NoCall} \cup Handler] BY <1>2 DEF ThreadTyped
  <2>2. call'[h] = d BY <1>1, <1>8, <2>1
  <2>3. \A g \in Calls \ {h} : call'[g] = call[g] BY <1>1, <2>1
  <2>4. call' = [g \in Calls |-> call'[g]] BY <1>1, <2>1
  <2> QED BY <2>1, <2>2, <2>3, <2>4
<1>13. /\ threads'[id] = [threads[id] EXCEPT !.unread = 0] /\ \A j \in Threads \ {id} : threads'[j] = threads[j]
  BY <1>1, <1>4, <1>6
<1>14. /\ threads'[id] \in Thread /\ threads'[id] # NoThread /\ threads'[id].last = threads[id].last
       /\ threads'[id].of = threads[id].of /\ threads'[id].status = threads[id].status
       /\ threads' \in [Threads -> {NoThread} \cup Thread]
  <2>1. /\ threads'[id] \in Thread /\ threads'[id] # NoThread /\ threads'[id].last = threads[id].last
        /\ threads'[id].of = threads[id].of /\ threads'[id].status = threads[id].status
    BY <1>6, <1>7, <1>13
  <2>2. threads' = [j \in Threads |-> threads'[j]] BY <1>1, <1>6
  <2>3. \A j \in Threads : threads'[j] \in {NoThread} \cup Thread BY <1>6, <1>13, <2>1
  <2> QED BY <2>1, <2>2, <2>3
<1>15. \A v : OpenOf(v)' \subseteq OpenOf(v)
  <2> SUFFICES ASSUME NEW v, NEW j \in Threads, j \in OpenOf(v)' PROVE j \in OpenOf(v) BY DEF OpenOf
  <2>1. threads'[j].of = v /\ threads'[j].status = "open" BY DEF OpenOf
  <2>2. CASE j = id BY <1>5, <1>14, <2>1, <2>2 DEF OpenOf
  <2>3. CASE j # id BY <1>13, <2>3 DEF OpenOf
  <2> QED BY <2>2, <2>3
<1>16. Sound(d)'
  <2>1. Where(d)' BY <1>5, <1>11, <1>14 DEF Where
  <2>2. ASSUME c.alone PROVE r = threads'[id]
    <3>1. c.row = threads[id] BY <1>1, <1>3, <2>2 DEF Sound, Knows
    <3> QED BY <1>13, <3>1
  <2>3. Knows(d)' BY <1>11, <2>2 DEF Knows
  <2> QED BY <2>1, <2>3 DEF Sound
<1>17. \A j \in Threads : threads[j] # NoThread => threads'[j] # NoThread BY <1>13, <1>14
<1>18. /\ call' \in [Calls -> {NoCall} \cup Handler] /\ call'[h] = d
       /\ (\A g \in Live : Sound(call[g]))' /\ Apart'
       /\ (\A v \in Visitors \ twice : OneFor(v))'
       /\ \A g \in Calls \ {h}, j \in Threads : Owes(g, j) => Owes(g, j)'
  <2>1. \A j \in Threads \ call[h].on : threads'[j] = threads[j] BY <1>5, <1>13
  <2>2. d.step # "open" /\ d \in {NoCall} \cup Handler BY <1>11
  <2>3. d.on = call[h].on /\ d.alone = call[h].alone BY <1>11
  <2>4. texts' = texts /\ twice' = twice /\ h \in Live BY <1>1, <1>2
  <2>5. \A v \in Visitors : OpenOf(v)' \subseteq OpenOf(v) BY <1>15
  <2> QED BY <1>12, <1>16, <1>17, <2>1, <2>2, <2>3, <2>4, <2>5, Moves
<1>19. ThreadTyped'
  <2>1. (\A k \in 1..Len(texts) : threads[texts[k].in] # NoThread)'
    <3> SUFFICES ASSUME NEW k \in 1..Len(texts) PROVE threads'[texts[k].in] # NoThread BY <1>1
    <3>1. texts[k] \in Text /\ threads[texts[k].in] # NoThread BY <1>2 DEF ThreadTyped
    <3> QED BY <1>17, <3>1 DEF Text
  <2>2. (\A j \in Threads : threads[j] # NoThread => threads[j].last <= Len(texts))'
    BY <1>1, <1>2, <1>5, <1>13, <1>14 DEF ThreadTyped
  <2>3. stale' \subseteq Threads BY <1>1, <1>2, <1>4 DEF ThreadTyped
  <2> QED BY <1>1, <1>2, <1>14, <1>18, <2>1, <2>2, <2>3 DEF ThreadTyped
<1>20. (\A j \in Threads : Owed(j))'
  <2> SUFFICES ASSUME NEW j \in Threads PROVE Owed(j)' OBVIOUS
  <2>1. CASE j = id BY <1>1, <2>1 DEF Owed
  <2>2. CASE j # id
    <3>1. \A g \in Calls : Owes(g, j) => Owes(g, j)' BY <1>5, <1>18, <2>2 DEF Owes
    <3>2. Sent(j)' = Sent(j) BY <1>1 DEF Sent
    <3> QED BY <1>1, <1>13, <2>2, <3>1, <3>2, OwedKept DEF ThreadInv
  <2> QED BY <2>1, <2>2
<1> QED BY <1>18, <1>19, <1>20 DEF ThreadInv

LEMMA OneCloses ==
  ASSUME ThreadInv, NEW h \in Calls, closed(h)
  PROVE  ThreadInv'
<1> PICK c : c = call[h] OBVIOUS
<1> PICK id : id = c.id OBVIOUS
<1> PICK r : r = [c.row EXCEPT !.status = "closed"] OBVIOUS
<1>1. /\ c.step = "close" /\ UNCHANGED <<texts, board, twice, stale>>
      /\ threads' = [threads EXCEPT ![id].status = "closed"]
  BY DEF closed
<1>2. ThreadTyped /\ h \in Live BY <1>1 DEF ThreadInv, Live, NoCall
<1>3. PICK p \in {0, pushed(shownBy(id))} :
        call' = [call EXCEPT ![h] = [step |-> "push", id |-> id, summary |-> toSummary(r, p), on |-> @.on, alone |-> @.alone]]
  BY DEF closed, Push
<1> PICK s : s = toSummary(r, p) OBVIOUS
<1> PICK d : d = [step |-> "push", id |-> id, summary |-> s, on |-> c.on, alone |-> c.alone] OBVIOUS
<1>4. call' = [call EXCEPT ![h] = d] BY <1>2, <1>3 DEF ThreadTyped, Live
<1>5. c \in Handler /\ Sound(c) BY <1>2, LiveIs DEF ThreadInv
<1>6. id \in Threads /\ c.row \in Thread BY <1>1, <1>5, HandlerIs
<1>7. c.on = {id} /\ threads[id] # NoThread BY <1>1, <1>5 DEF Sound, Where
<1>8. threads \in [Threads -> {NoThread} \cup Thread] /\ threads[id] \in Thread BY <1>2, <1>6, <1>7 DEF ThreadTyped
<1>9. \A q \in Thread : LET e == [q EXCEPT !.status = "closed"] IN
         e \in Thread /\ e # NoThread /\ e.last = q.last /\ e.of = q.of /\ e.status = "closed"
  <2> SUFFICES ASSUME NEW q \in Thread
               PROVE  LET e == [q EXCEPT !.status = "closed"] IN
                      e \in Thread /\ e # NoThread /\ e.last = q.last /\ e.of = q.of /\ e.status = "closed"
    OBVIOUS
  <2> PICK e : e = [q EXCEPT !.status = "closed"] OBVIOUS
  <2>1. e \in Thread /\ e.last = q.last /\ e.of = q.of /\ e.status = "closed" BY DEF Thread
  <2>2. e # NoThread BY <2>1 DEF Thread, NoThread
  <2> QED BY <2>1, <2>2
<1>10. p \in {0, shownBy(id)} /\ shownBy(id) \in Nat /\ p \in Nat BY <1>2, ShownAmong
<1>11. r \in Thread BY <1>6, <1>9
<1>12. s \in Summaries /\ s.preview = p BY <1>10, <1>11, SummaryIs
<1>13. /\ d \in Handler /\ d # NoCall /\ d.step = "push" /\ d.id = id /\ d.summary = s /\ d.on = c.on /\ d.alone = c.alone
  BY <1>5, <1>6, <1>12, PushIs
<1>14. threads'[id] = [threads[id] EXCEPT !.status = "closed"] /\ \A j \in Threads \ {id} : threads'[j] = threads[j]
  BY <1>1, <1>6, <1>8
<1>15. /\ threads'[id] \in Thread /\ threads'[id] # NoThread /\ threads'[id].last = threads[id].last
       /\ threads'[id].status = "closed" /\ threads' \in [Threads -> {NoThread} \cup Thread]
  <2>1. /\ threads'[id] \in Thread /\ threads'[id] # NoThread /\ threads'[id].last = threads[id].last
        /\ threads'[id].status = "closed"
    BY <1>8, <1>9, <1>14
  <2>2. threads' = [j \in Threads |-> threads'[j]] BY <1>1, <1>8
  <2>3. \A j \in Threads : threads'[j] \in {NoThread} \cup Thread BY <1>8, <1>14, <2>1
  <2> QED BY <2>1, <2>2, <2>3
<1>16. \A v : OpenOf(v)' \subseteq OpenOf(v)
  <2> SUFFICES ASSUME NEW v, NEW j \in Threads, j \in OpenOf(v)' PROVE j \in OpenOf(v) BY DEF OpenOf
  <2>1. threads'[j].status = "open" BY DEF OpenOf
  <2>2. j # id BY <1>15, <2>1
  <2> QED BY <1>14, <2>2 DEF OpenOf
<1>17. Sound(d)'
  <2>1. Where(d)' BY <1>7, <1>13, <1>15 DEF Where
  <2>2. ASSUME c.alone PROVE Tells(id, s)'
    <3>1. c.row = threads[id] BY <1>1, <1>5, <2>2 DEF Sound, Knows
    <3>2. r = threads'[id] BY <1>14, <3>1
    <3>3. shownBy(id)' = shownBy(id) BY <1>1, ShownStays DEF Sent
    <3>4. s = toSummary(threads'[id], s.preview) BY <1>12, <3>2
    <3>5. s.preview \in {0, shownBy(id)'} BY <1>10, <1>12, <3>3
    <3> QED BY <3>4, <3>5 DEF Tells, toSummary
  <2>3. Knows(d)' BY <1>13, <2>2 DEF Knows
  <2> QED BY <2>1, <2>3 DEF Sound
<1>18. \A j \in Threads : threads[j] # NoThread => threads'[j] # NoThread BY <1>14, <1>15
<1>19. /\ call' \in [Calls -> {NoCall} \cup Handler] /\ call'[h] = d
       /\ (\A g \in Live : Sound(call[g]))' /\ Apart'
       /\ (\A v \in Visitors \ twice : OneFor(v))'
       /\ \A g \in Calls \ {h}, j \in Threads : Owes(g, j) => Owes(g, j)'
  <2>1. \A j \in Threads \ call[h].on : threads'[j] = threads[j] BY <1>7, <1>14
  <2>2. d.step # "open" /\ d \in {NoCall} \cup Handler BY <1>13
  <2>3. d.on = call[h].on /\ d.alone = call[h].alone BY <1>13
  <2>4. texts' = texts /\ twice' = twice /\ h \in Live BY <1>1, <1>2
  <2>5. \A v \in Visitors : OpenOf(v)' \subseteq OpenOf(v) BY <1>16
  <2> QED BY <1>4, <1>17, <1>18, <2>1, <2>2, <2>3, <2>4, <2>5, Moves, ZenonT(60)
<1>20. ThreadTyped'
  <2>1. (\A k \in 1..Len(texts) : threads[texts[k].in] # NoThread)'
    <3> SUFFICES ASSUME NEW k \in 1..Len(texts) PROVE threads'[texts[k].in] # NoThread BY <1>1
    <3>1. texts[k] \in Text /\ threads[texts[k].in] # NoThread BY <1>2 DEF ThreadTyped
    <3> QED BY <1>18, <3>1 DEF Text
  <2>2. (\A j \in Threads : threads[j] # NoThread => threads[j].last <= Len(texts))'
    BY <1>1, <1>2, <1>7, <1>14, <1>15 DEF ThreadTyped
  <2> QED BY <1>1, <1>2, <1>15, <1>19, <2>1, <2>2 DEF ThreadTyped
<1>21. (\A j \in Threads : Owed(j))'
  <2> SUFFICES ASSUME NEW j \in Threads PROVE Owed(j)' OBVIOUS
  <2>1. CASE j = id
    <3>1. Owes(h, id)' BY <1>7, <1>13, <1>19 DEF Owes
    <3> QED BY <1>2, <2>1, <3>1 DEF Owed, Live
  <2>2. CASE j # id
    <3>1. \A g \in Calls : Owes(g, j) => Owes(g, j)' BY <1>7, <1>19, <2>2 DEF Owes
    <3>2. Sent(j)' = Sent(j) BY <1>1 DEF Sent
    <3> QED BY <1>1, <1>14, <2>2, <3>1, <3>2, OwedKept DEF ThreadInv
  <2> QED BY <2>1, <2>2
<1> QED BY <1>19, <1>20, <1>21 DEF ThreadInv

LEMMA ThreadsStep == ThreadInv /\ [ThreadsNext]_threadVars => ThreadInv'
<1> SUFFICES ASSUME ThreadInv, [ThreadsNext]_threadVars PROVE ThreadInv' OBVIOUS
<1>1. CASE UNCHANGED threadVars
  <2>1. UNCHANGED <<threads, texts, call, board, twice, stale>> BY <1>1 DEF threadVars
  <2>2. \A id : Sent(id)' = Sent(id) BY <2>1 DEF Sent
  <2>3. \A id : shownBy(id)' = shownBy(id) BY <2>2, ShownStays
  <2>4. \A id, s : Tells(id, s)' <=> Tells(id, s) BY <2>1, <2>3 DEF Tells, toSummary
  <2>5. \A c : Where(c)' <=> Where(c) BY <2>1 DEF Where
  <2>6. \A c : Knows(c)' <=> Knows(c) BY <2>1, <2>2, <2>4 DEF Knows
  <2>7. (\A h \in Live : Sound(call[h]))' BY <2>1, <2>5, <2>6 DEF ThreadInv, Sound, Live
  <2>8. ThreadTyped' BY <2>1 DEF ThreadInv, ThreadTyped
  <2>9. Apart' BY <2>1 DEF ThreadInv, Apart, Live
  <2>10. (\A id \in Threads : Owed(id))' BY <2>1, <2>4 DEF ThreadInv, Owed, Owes
  <2>11. (\A v \in Visitors \ twice : OneFor(v))' BY <2>1 DEF ThreadInv, OneFor, OpenOf, Opens
  <2> QED BY <2>7, <2>8, <2>9, <2>10, <2>11 DEF ThreadInv
<1>2. CASE \E h \in Calls, v \in Visitors : startSession(h, v) BY <1>2, OneStarts
<1>3. ASSUME NEW h \in Calls, NEW id \in Threads, NEW by \in Visitors \cup {"staff"},
             addMessage(h, id, by) \/ \E c \in BOOLEAN : addAttachment(h, id, by, c)
      PROVE  ThreadInv'
  BY <1>3, OneInserts DEF addMessage, addAttachment
<1>4. ASSUME NEW h \in Calls, NEW id \in Threads, NEW b \in BOOLEAN, markStaffRead(h, id, b) \/ close(h, id, b)
      PROVE  ThreadInv'
  BY <1>4, OneReads
<1>5. ASSUME NEW h \in Calls,
             \/ openThread(h) \/ resume(h) \/ countMessage(h) \/ requireConversation(h) \/ announce(h)
             \/ clearBadge(h) \/ listMessages(h) \/ closed(h) \/ listConversations(h) \/ showList(h)
      PROVE  ThreadInv'
  BY <1>5, OneOpens, OneResumes, OneCounts, OneReadsBack, OneAnnounces, OneClears, OneLists, OneCloses, OneFetches, OneShows
<1> QED BY <1>1, <1>2, <1>3, <1>4, <1>5 DEF ThreadsNext

LEMMA ThreadsSafe == ThreadInv => ThreadsTypeOK /\ ThreadsHold
<1> SUFFICES ASSUME ThreadInv PROVE ThreadsTypeOK /\ ThreadsHold OBVIOUS
<1>1. ThreadTyped BY DEF ThreadInv
<1>2. ThreadsTypeOK
  <2>1. Len(texts) \in Nat /\ DOMAIN texts = 1..Len(texts) BY <1>1 DEF ThreadTyped
  <2>2. ASSUME NEW id \in Threads, threads[id] # NoThread PROVE threads[id].unread \in Nat /\ threads[id].last \in 0..Len(texts)
    <3>1. threads[id] \in Thread /\ threads[id].last <= Len(texts) BY <1>1, <2>2 DEF ThreadTyped
    <3> QED BY <2>1, <3>1 DEF Thread
  <2> QED BY <1>1, <2>1, <2>2 DEF ThreadsTypeOK, ThreadTyped
<1>3. OneLiveThread
  <2> SUFFICES ASSUME NEW v \in Visitors \ twice PROVE Cardinality(OpenOf(v)) <= 1 BY DEF OneLiveThread, OpenOf
  <2>1. \A i, j \in OpenOf(v) : i = j BY DEF ThreadInv, OneFor
  <2>2. CASE OpenOf(v) = {} BY <2>2, FS_EmptySet
  <2>3. CASE OpenOf(v) # {}
    <3>1. PICK i : i \in OpenOf(v) BY <2>3
    <3>2. OpenOf(v) = {i} BY <2>1, <3>1
    <3> QED BY <3>2, FS_Singleton
  <2> QED BY <2>2, <2>3
<1>4. BoardCatchesUp
  <2> SUFFICES ASSUME NEW id \in Threads \ stale, \A h \in Live : id \notin call[h].on, threads[id] # NoThread
               PROVE  Tells(id, board[id])
    BY DEF BoardCatchesUp, Tells
  <2>1. Owed(id) BY DEF ThreadInv
  <2>2. \A h \in Calls : ~ Owes(h, id) BY DEF Owes, Live, NoCall
  <2> QED BY <2>1, <2>2 DEF Owed
<1> QED BY <1>2, <1>3, <1>4 DEF ThreadsHold
-----------------------------------------------------------------------------
(***************************************************************************)
(* The catalog: what a reading of a table's rows is, how picking, sorting  *)
(* and grouping one gives the list back it was made of, and the order of   *)
(* the galleries.                                                          *)
(***************************************************************************)

(* In a finite set with a strict order, every place from the first to the  *)
(* last is the rank of exactly one element: how many are ahead of it.      *)
Ranking(S, below, rank) ==
  /\ IsFiniteSet(S) /\ \A e \in S : below[e] \in SUBSET S /\ e \notin below[e] /\ rank[e] = Cardinality(below[e])
  /\ \A e, f, g \in S : e \in below[f] /\ f \in below[g] => e \in below[g]
  /\ \A e, f \in S : e # f => e \in below[f] \/ f \in below[e]

LEMMA RanksFill ==
  ASSUME NEW S, NEW below, NEW rank, Ranking(S, below, rank)
  PROVE  /\ \A e \in S : rank[e] \in 0..(Cardinality(S) - 1)
         /\ \A e, f \in S : rank[e] = rank[f] => e = f
         /\ \A i \in 0..(Cardinality(S) - 1) : \E e \in S : rank[e] = i
<1> DEFINE n == Cardinality(S)
           place == [e \in S |-> rank[e]]
<1>0. /\ IsFiniteSet(S) /\ \A e \in S : below[e] \in SUBSET S /\ e \notin below[e] /\ rank[e] = Cardinality(below[e])
      /\ \A e, f, g \in S : e \in below[f] /\ f \in below[g] => e \in below[g]
      /\ \A e, f \in S : e # f => e \in below[f] \/ f \in below[e]
  BY DEF Ranking
<1>1. n \in Nat BY <1>0, FS_CardinalityType
<1>2. \A e \in S : rank[e] \in Nat BY <1>0, FS_Subset, FS_CardinalityType
<1>3. ASSUME NEW T \in SUBSET S, NEW e \in S, below[e] \in SUBSET T, e \in T PROVE rank[e] < Cardinality(T)
  <2>1. IsFiniteSet(T) BY <1>0, FS_Subset
  <2>2. below[e] # T BY <1>0, <1>3
  <2>3. Cardinality(T) \in Nat /\ Cardinality(below[e]) <= Cardinality(T) /\ Cardinality(below[e]) # Cardinality(T)
    BY <1>0, <1>3, <2>1, <2>2, FS_Subset, FS_CardinalityType
  <2> QED BY <1>0, <1>2, <2>3
<1>4. ASSUME NEW e \in S, NEW f \in S, e \in below[f] PROVE rank[e] < rank[f]
  <2>1. below[e] \in SUBSET below[f] /\ below[f] \in SUBSET S BY <1>0, <1>4
  <2> QED BY <1>0, <1>3, <1>4, <2>1
<1>5. \A e \in S : rank[e] < n BY <1>0, <1>3
<1>6. \A e, f \in S : rank[e] = rank[f] => e = f
  <2> SUFFICES ASSUME NEW e \in S, NEW f \in S, rank[e] = rank[f], e # f PROVE FALSE OBVIOUS
  <2>1. rank[e] \in Nat /\ rank[f] \in Nat BY <1>2
  <2>2. rank[e] < rank[f] \/ rank[f] < rank[e] BY <1>0, <1>4
  <2> QED BY <2>1, <2>2
<1>7. \A e \in S : rank[e] \in 0..(n - 1)
  <2> SUFFICES ASSUME NEW e \in S PROVE rank[e] \in 0..(n - 1) OBVIOUS
  <2>1. rank[e] \in Nat /\ rank[e] < n BY <1>2, <1>5
  <2> HIDE DEF n
  <2> QED BY <1>1, <2>1
<1>8. \A i \in 0..(n - 1) : \E e \in S : place[e] = i
  <2>1. place \in Injection(S, 0..(n - 1))
    <3>1. place \in [S -> 0..(n - 1)] BY <1>7
    <3>2. \A e, f \in S : place[e] = place[f] => e = f BY <1>6
    <3> HIDE DEF place
    <3> QED BY <3>1, <3>2 DEF Injection, IsInjective
  <2>2. IsFiniteSet(0..(n - 1)) /\ Cardinality(0..(n - 1)) = n
    <3> HIDE DEF n
    <3> QED BY <1>1, FS_Interval
  <2>3. place \in Surjection(S, 0..(n - 1)) BY <1>0, <2>1, <2>2, FS_Injection
  <2> HIDE DEF place, n
  <2> QED BY <2>3 DEF Surjection
<1>9. \A i \in 0..(n - 1) : \E e \in S : rank[e] = i BY <1>8
<1> QED BY <1>6, <1>7, <1>9

(* A reading has all of the rows it is of.                                 *)
LEMMA AllRead ==
  ASSUME NEW S, NEW s \in SetToSeqs(S)
  PROVE  Range(s) \subseteq S /\ (IsFiniteSet(S) => Range(s) = S)
<1> DEFINE D == 1..Cardinality(S)
<1>1. s \in [D -> S] /\ \A i, j \in D : i # j => s[i] # s[j] BY DEF SetToSeqs
<1>2. Range(s) \subseteq S BY <1>1 DEF Range
<1>3. ASSUME IsFiniteSet(S) PROVE Range(s) = S
  <2>1. Cardinality(S) \in Nat BY <1>3, FS_CardinalityType
  <2>2. s \in Injection(D, S)
    <3> HIDE DEF D
    <3> QED BY <1>1 DEF Injection, IsInjective
  <2>3. Cardinality(D) = Cardinality(S)
    <3> DEFINE n == Cardinality(S)
    <3> HIDE DEF n
    <3>1. n \in Nat /\ Cardinality(1..n) = n BY <2>1, FS_Interval DEF n
    <3> QED BY <3>1 DEF n
  <2>4. s \in Surjection(D, S) BY <1>3, <2>2, <2>3, FS_Injection
  <2> HIDE DEF D
  <2> QED BY <1>1, <1>2, <2>4 DEF Surjection, Range
<1> QED BY <1>2, <1>3

(* Of things in a row, each is the one with so many ahead of it.           *)
InTurn(place, n, S, ahead) ==
  /\ n \in Nat /\ place \in [1..n -> S] /\ \A i \in S : ahead[i] \subseteq S /\ \E k \in 1..n : place[k] = i
  /\ \A j, k \in 1..n : (place[j] = place[k] => j = k) /\ (place[j] \in ahead[place[k]] <=> j < k)

LEMMA Turns ==
  ASSUME NEW n, NEW S, NEW place, NEW ahead, InTurn(place, n, S, ahead)
  PROVE  Cardinality(S) = n /\ \A k \in 1..n : \A i \in S : Cardinality(ahead[i]) = k - 1 <=> i = place[k]
<1> DEFINE D == 1..n
<1>0. n \in Nat /\ place \in [D -> S] /\ \A i \in S : ahead[i] \subseteq S /\ \E k \in D : place[k] = i BY DEF InTurn
<1>1. \A j, k \in D : (place[j] = place[k] => j = k) /\ (place[j] \in ahead[place[k]] <=> j < k) BY DEF InTurn
<1>2. Cardinality(S) = n
  <2> HIDE DEF D
  <2>1. place \in Bijection(D, S) BY <1>0, <1>1 DEF Bijection, Injection, Surjection, IsInjective
  <2> QED BY <1>0, <2>1, FS_CountingElements DEF ExistsBijection, D
<1>3. ASSUME NEW k \in D PROVE Cardinality(ahead[place[k]]) = k - 1
  <2> DEFINE m == k - 1
             T == ahead[place[k]]
             up == [j \in 1..m |-> place[j]]
  <2>1. m \in Nat /\ 1..m \in SUBSET D /\ \A j \in D : j \in 1..m <=> j < k BY <1>0
  <2> HIDE DEF m
  <2>2. \A j \in D : j \in 1..m <=> place[j] \in T BY <1>1, <2>1
  <2>3. up \in [1..m -> T] BY <1>0, <2>1, <2>2
  <2>4. \A i \in T : \E j \in 1..m : up[j] = i
    <3> SUFFICES ASSUME NEW i \in T PROVE \E j \in 1..m : up[j] = i OBVIOUS
    <3>1. PICK j \in D : place[j] = i BY <1>0
    <3>2. j \in 1..m BY <2>2, <3>1
    <3> QED BY <3>1, <3>2
  <2>5. \A i, j \in 1..m : up[i] = up[j] => i = j BY <1>1, <2>1
  <2> HIDE DEF up, T
  <2>6. up \in Bijection(1..m, T) BY <2>3, <2>4, <2>5 DEF Bijection, Injection, Surjection, IsInjective
  <2>7. Cardinality(T) = m BY <2>1, <2>6, FS_CountingElements DEF ExistsBijection
  <2> QED BY <2>7 DEF m, T
<1>4. ASSUME NEW k \in D, NEW i \in S, Cardinality(ahead[i]) = k - 1 PROVE i = place[k]
  <2>1. PICK m \in D : place[m] = i BY <1>0
  <2>2. Cardinality(ahead[i]) = m - 1 BY <1>3, <2>1
  <2>3. m = k BY <1>0, <1>4, <2>2
  <2> QED BY <2>1, <2>3
<1> QED BY <1>2, <1>3, <1>4

(* Places that rise through I and pass all of it pick its elements in turn.*)
Passes(place, n, I) ==
  /\ n \in Nat /\ I \subseteq Nat /\ place \in [1..n -> I]
  /\ \A j, k \in 1..n : j < k => place[j] < place[k]
  /\ \A i \in I : \E k \in 1..n : place[k] = i

LEMMA Rising ==
  ASSUME NEW n, NEW I, NEW place, Passes(place, n, I), NEW j \in 1..n, NEW k \in 1..n
  PROVE  place[j] \in I /\ place[j] \in Nat /\ (place[j] = place[k] => j = k) /\ (place[j] < place[k] <=> j < k)
<1>1. place[j] \in I /\ place[k] \in I /\ I \subseteq Nat BY DEF Passes
<1>2. place[j] \in Nat /\ place[k] \in Nat BY <1>1
<1>3. j \in Nat /\ k \in Nat BY DEF Passes
<1>4. (j < k => place[j] < place[k]) /\ (k < j => place[k] < place[j]) BY DEF Passes
<1> QED BY <1>1, <1>2, <1>3, <1>4

LEMMA PassedInTurn ==
  ASSUME NEW n, NEW I, NEW place, Passes(place, n, I)
  PROVE  InTurn(place, n, I, [i \in I |-> {j \in I : j < i}])
<1>1. n \in Nat /\ place \in [1..n -> I] /\ \A i \in I : \E k \in 1..n : place[k] = i BY DEF Passes
<1>2. \A j, k \in 1..n : (place[j] = place[k] => j = k) /\ (place[j] < place[k] <=> j < k) BY Rising
<1> QED BY <1>1, <1>2 DEF InTurn

LEMMA PassedAll == ASSUME NEW n, NEW I, NEW place, Passes(place, n, I) PROVE n \in Nat /\ Cardinality(I) = n
<1>1. n \in Nat BY DEF Passes
<1> QED BY <1>1, PassedInTurn, Turns

LEMMA PickedAt ==
  ASSUME NEW n, NEW I, NEW place, Passes(place, n, I), NEW s
  PROVE  DOMAIN At(s, I) = 1..n /\ \A k \in 1..n : At(s, I)[k] = s[place[k]]
<1> DEFINE first(i) == {j \in I : j < i}
           ahead == [i \in I |-> first(i)]
<1>1. place \in [1..n -> I] BY DEF Passes
<1>2. InTurn(place, n, I, ahead) BY PassedInTurn
<1>3. At(s, I) = [k \in 1..Cardinality(I) |-> s[CHOOSE i \in I : Cardinality(first(i)) = k - 1]] BY DEF At
<1>4. \A i \in I : ahead[i] = first(i) OBVIOUS
<1> HIDE DEF ahead, first
<1>5. Cardinality(I) = n BY PassedAll
<1>6. ASSUME NEW k \in 1..n PROVE (CHOOSE i \in I : Cardinality(first(i)) = k - 1) = place[k]
  <2>1. \A i \in I : Cardinality(ahead[i]) = k - 1 <=> i = place[k] BY <1>2, Turns
  <2> QED BY <1>1, <1>4, <2>1
<1> QED BY <1>3, <1>5, <1>6

LEMMA AtIs == ASSUME NEW s, NEW I PROVE At(s, I) = [k \in DOMAIN At(s, I) |-> At(s, I)[k]]
BY DEF At

LEMMA SameAt ==
  ASSUME NEW n, NEW I, NEW J, NEW p, NEW q, Passes(p, n, I), Passes(q, n, J), NEW s, NEW t, \A k \in 1..n : s[p[k]] = t[q[k]]
  PROVE  At(s, I) = At(t, J)
<1>1. DOMAIN At(s, I) = 1..n /\ \A k \in 1..n : At(s, I)[k] = s[p[k]] BY PickedAt
<1>2. DOMAIN At(t, J) = 1..n /\ \A k \in 1..n : At(t, J)[k] = t[q[k]] BY PickedAt
<1> DEFINE A == At(s, I)
           B == At(t, J)
<1>3. A = [k \in DOMAIN A |-> A[k]] /\ B = [k \in DOMAIN B |-> B[k]] BY AtIs
<1>4. DOMAIN A = 1..n /\ DOMAIN B = 1..n /\ \A k \in 1..n : A[k] = B[k] BY <1>1, <1>2
<1> HIDE DEF A, B
<1>5. A = B BY <1>3, <1>4
<1> QED BY <1>5 DEF A, B

(* So are keys that rise.                                                  *)
KeysRise(place, n, keys) ==
  /\ n \in Nat /\ place \in [1..n -> 1..n] /\ \A i \in 1..n : keys[i] \in Int /\ \E k \in 1..n : place[k] = i
  /\ \A j, k \in 1..n : j < k => keys[place[j]] < keys[place[k]]

LEMMA SortedBy ==
  ASSUME NEW n, NEW s, DOMAIN s = 1..n, NEW keys, NEW place, KeysRise(place, n, keys)
  PROVE  DOMAIN SortBy(s, keys) = 1..n /\ \A k \in 1..n : SortBy(s, keys)[k] = s[place[k]]
<1> DEFINE S == 1..n
           first(i) == {j \in S : keys[j] < keys[i] \/ (keys[j] = keys[i] /\ j < i)}
           ahead == [i \in S |-> first(i)]
<1>1. n \in Nat /\ place \in [1..n -> S] /\ \A i \in S : \E k \in 1..n : place[k] = i BY DEF KeysRise
<1>2. ASSUME NEW j \in 1..n, NEW k \in 1..n
      PROVE  (place[j] = place[k] => j = k) /\ (place[j] \in ahead[place[k]] <=> j < k)
  <2>1. place[j] \in S /\ place[k] \in S /\ j \in Nat /\ k \in Nat BY <1>1
  <2>2. keys[place[j]] \in Int /\ keys[place[k]] \in Int BY <2>1 DEF KeysRise
  <2>3. (j < k => keys[place[j]] < keys[place[k]]) /\ (k < j => keys[place[k]] < keys[place[j]]) BY DEF KeysRise
  <2>4. place[j] = place[k] => j = k BY <2>1, <2>2, <2>3
  <2>5. place[j] \in ahead[place[k]] <=> keys[place[j]] < keys[place[k]] \/ (keys[place[j]] = keys[place[k]] /\ place[j] < place[k]) BY <2>1
  <2> HIDE DEF ahead, S
  <2>6. (j = k => ~(place[j] < place[k])) BY <2>1 DEF S
  <2> QED BY <2>1, <2>2, <2>3, <2>4, <2>5, <2>6
<1>3. InTurn(place, n, S, ahead) BY <1>1, <1>2 DEF InTurn
<1>4. SortBy(s, keys) = [k \in S |-> s[CHOOSE i \in S : Cardinality(first(i)) = k - 1]] BY DEF SortBy
<1>5. \A i \in S : ahead[i] = first(i) OBVIOUS
<1> HIDE DEF ahead, first
<1>6. ASSUME NEW k \in 1..n PROVE (CHOOSE i \in S : Cardinality(first(i)) = k - 1) = place[k]
  <2>1. \A i \in S : Cardinality(ahead[i]) = k - 1 <=> i = place[k]
    <3> HIDE DEF S
    <3> QED BY <1>3, Turns
  <2> QED BY <1>1, <1>5, <2>1
<1> QED BY <1>4, <1>6

LEMMA OneRises == ASSUME NEW n, NEW place, Passes(place, n, 1..n) PROVE \A k \in 1..n : place[k] = k
<1> DEFINE same == [k \in 1..n |-> k]
           I == 1..n
<1>1. n \in Nat /\ DOMAIN place = I /\ \A k \in I : place[k] \in I BY DEF Passes
<1>2. Passes(same, n, I) BY <1>1 DEF Passes
<1>3. Passes(place, n, I) OBVIOUS
<1>4. \A k \in I : same[k] = k OBVIOUS
<1> HIDE DEF same
<1>5. \A k \in I : At(same, I)[k] = same[place[k]] BY <1>3, PickedAt
<1>6. \A k \in I : At(same, I)[k] = same[same[k]] BY <1>2, PickedAt
<1> HIDE DEF I
<1> QED BY <1>1, <1>4, <1>5, <1>6 DEF I

LEMMA AllPicked ==
  ASSUME NEW n \in Nat, NEW s, DOMAIN s = 1..n
  PROVE  DOMAIN At(s, 1..n) = 1..n /\ \A k \in 1..n : At(s, 1..n)[k] = s[k]
<1> DEFINE same == [k \in 1..n |-> k]
           I == 1..n
<1>1. Passes(same, n, I) BY DEF Passes
<1>2. \A k \in I : same[k] = k OBVIOUS
<1> HIDE DEF same
<1>3. DOMAIN At(s, I) = 1..n /\ \A k \in 1..n : At(s, I)[k] = s[same[k]] BY <1>1, PickedAt
<1> QED BY <1>2, <1>3

(* A finite set of numbers has such places.                                *)
Numbers(I) == I \subseteq Nat /\ IsFiniteSet(I)
LEMMA PlacesOf ==
  ASSUME NEW I, Numbers(I)
  PROVE  \E n, place : Passes(place, n, I)
<1> DEFINE n == Cardinality(I)
           below == [e \in I |-> {i \in I : i < e}]
           rank == [e \in I |-> Cardinality(below[e])]
           place == [k \in 1..n |-> CHOOSE e \in I : rank[e] = k - 1]
<1>1. n \in Nat BY FS_CardinalityType DEF Numbers
<1>2. \A e \in I : below[e] \in SUBSET I /\ e \notin below[e] BY DEF Numbers
<1>3. \A e, f, g \in I : e \in below[f] /\ f \in below[g] => e \in below[g] BY DEF Numbers
<1>4. \A e, f \in I : e # f => e \in below[f] \/ f \in below[e] BY DEF Numbers
<1>5. \A e \in I : rank[e] = Cardinality(below[e]) OBVIOUS
<1>6. \A e, f \in I : e < f => e \in below[f] BY DEF Numbers
<1> HIDE DEF below, rank
<1>7. \A e, f \in I : e < f => rank[e] < rank[f]
  <2> SUFFICES ASSUME NEW e \in I, NEW f \in I, e < f PROVE rank[e] < rank[f] OBVIOUS
  <2>1. below[e] \in SUBSET below[f] /\ e \in below[f] /\ e \notin below[e] BY <1>2, <1>3, <1>6
  <2>2. IsFiniteSet(below[f]) BY <1>2, FS_Subset DEF Numbers
  <2>3. Cardinality(below[e]) <= Cardinality(below[f]) /\ Cardinality(below[e]) # Cardinality(below[f]) BY <2>1, <2>2, FS_Subset
  <2>4. Cardinality(below[e]) \in Nat /\ Cardinality(below[f]) \in Nat BY <2>1, <2>2, FS_Subset, FS_CardinalityType
  <2> QED BY <1>5, <2>3, <2>4
<1>8. /\ \A e \in I : rank[e] \in 0..(Cardinality(I) - 1)
      /\ \A e, f \in I : rank[e] = rank[f] => e = f
      /\ \A i \in 0..(Cardinality(I) - 1) : \E e \in I : rank[e] = i
  <2> HIDE DEF place, n
  <2>1. Ranking(I, below, rank) BY <1>2, <1>3, <1>4, <1>5 DEF Ranking, Numbers
  <2>2. \A e \in I : rank[e] \in 0..(Cardinality(I) - 1) BY <2>1, RanksFill
  <2>3. \A e, f \in I : rank[e] = rank[f] => e = f BY <2>1, RanksFill
  <2>4. \A i \in 0..(Cardinality(I) - 1) : \E e \in I : rank[e] = i BY <2>1, RanksFill
  <2> QED BY <2>2, <2>3, <2>4
<1>9. \A k \in 1..n : place[k] \in I /\ rank[place[k]] = k - 1
  <2> HIDE DEF n
  <2> SUFFICES ASSUME NEW k \in 1..n PROVE place[k] \in I /\ rank[place[k]] = k - 1 OBVIOUS
  <2>1. k - 1 \in 0..(n - 1) BY <1>1
  <2>2. \E e \in I : rank[e] = k - 1 BY <1>8, <2>1 DEF n
  <2> QED BY <2>2
<1>10. place \in [1..n -> I] BY <1>9
<1> HIDE DEF place
<1>11. \A j, k \in 1..n : j < k => place[j] < place[k]
  <2> HIDE DEF n
  <2> SUFFICES ASSUME NEW j \in 1..n, NEW k \in 1..n, j < k PROVE place[j] < place[k] OBVIOUS
  <2>1. place[j] \in I /\ place[k] \in I /\ rank[place[j]] = j - 1 /\ rank[place[k]] = k - 1 BY <1>9
  <2>2. j \in Nat /\ k \in Nat /\ place[j] \in Nat /\ place[k] \in Nat
    <3>1. j \in Nat /\ k \in Nat OBVIOUS
    <3>2. I \subseteq Nat BY DEF Numbers
    <3> QED BY <2>1, <3>1, <3>2
  <2>3. place[k] # place[j] BY <2>1, <2>2
  <2>4. ~(place[k] < place[j])
    <3>1. place[k] < place[j] => rank[place[k]] < rank[place[j]] BY <1>7, <2>1
    <3> QED BY <2>1, <2>2, <3>1
  <2> QED BY <2>2, <2>3, <2>4
<1>12. \A i \in I : \E k \in 1..n : place[k] = i
  <2> SUFFICES ASSUME NEW i \in I PROVE \E k \in 1..n : place[k] = i OBVIOUS
  <2>1. rank[i] \in 0..(n - 1) BY <1>8
  <2> HIDE DEF n
  <2>2. rank[i] + 1 \in 1..n /\ (rank[i] + 1) - 1 = rank[i] BY <1>1, <2>1
  <2>3. rank[place[rank[i] + 1]] = rank[i] /\ place[rank[i] + 1] \in I BY <1>9, <2>2
  <2> QED BY <1>8, <2>2, <2>3
<1>13. Passes(place, n, I) BY <1>1, <1>9, <1>10, <1>11, <1>12 DEF Passes, Numbers
<1> QED BY <1>13

(* A reading has all rows of its table, none before one it follows.        *)
Reading(t, S, s) == IsFiniteSet(S) /\ s \in SetToSeqs(S) /\ \A i, j \in DOMAIN s : i < j => ~before(t, s[j], s[i])

LEMMA ReadingIs ==
  ASSUME NEW t, NEW S, NEW s, Reading(t, S, s)
  PROVE  /\ Cardinality(S) \in Nat /\ DOMAIN s = 1..Cardinality(S) /\ s \in [DOMAIN s -> S]
         /\ \A r \in S : \E i \in DOMAIN s : s[i] = r
         /\ \A i, j \in DOMAIN s : s[i] = s[j] => i = j
         /\ \A i, j \in DOMAIN s : i < j => ~before(t, s[j], s[i])
<1> DEFINE D == 1..Cardinality(S)
<1>1. IsFiniteSet(S) /\ s \in SetToSeqs(S) /\ \A i, j \in DOMAIN s : i < j => ~before(t, s[j], s[i]) BY DEF Reading
<1>2. s \in [D -> S] /\ \A i, j \in D : i # j => s[i] # s[j] BY <1>1 DEF SetToSeqs
<1>3. Range(s) = S BY <1>1, AllRead
<1>4. Cardinality(S) \in Nat BY <1>1, FS_CardinalityType
<1>5. DOMAIN s = D BY <1>2
<1>6. \A r \in S : \E i \in DOMAIN s : s[i] = r BY <1>3 DEF Range
<1> HIDE DEF D
<1>7. s \in [DOMAIN s -> S] /\ \A i, j \in DOMAIN s : s[i] = s[j] => i = j BY <1>2, <1>5
<1> QED BY <1>1, <1>4, <1>5, <1>6, <1>7 DEF D

IsId(p) == \E X : p \in Seq(X)
RowAt(p, els, k) == Row(Append(p, k), p, k - 1, els[k])

LEMMA RowAtIs ==
  ASSUME NEW p, NEW els, NEW k
  PROVE  /\ RowAt(p, els, k).id = Append(p, k) /\ RowAt(p, els, k).parent = p
         /\ RowAt(p, els, k).sort = k - 1 /\ RowAt(p, els, k).val = els[k]
BY DEF RowAt, Row

LEMMA RowsAre == ASSUME NEW p, NEW els PROVE RowsOf(p, els) = {RowAt(p, els, k) : k \in DOMAIN els}
BY DEF RowsOf, RowAt

LEMMA SmallerIs == ASSUME NEW p, IsId(p), NEW i \in Nat, NEW j \in Nat, i < j PROVE smaller(Append(p, i), Append(p, j))
<1>1. PICK X : p \in Seq(X) BY DEF IsId
<1> DEFINE n == Len(p) + 1
           a == Append(p, i)
           b == Append(p, j)
<1>2. n \in Nat /\ n \in DOMAIN a /\ a[n] = i /\ b[n] = j BY <1>1
<1>3. \A m \in 1..(n - 1) : a[m] = p[m] /\ b[m] = p[m] BY <1>1
<1> HIDE DEF n, a, b
<1>4. \E m \in DOMAIN a : a[m] < b[m] /\ \A l \in 1..(m - 1) : a[l] = b[l] BY <1>2, <1>3
<1> QED BY <1>4 DEF smaller, a, b

(* Rows of one parent lie in the order of their list.                      *)
LEMMA BeforeIs ==
  ASSUME NEW t, t \notin ByNothing, NEW p, IsId(p), NEW els, NEW i \in Nat, NEW j \in Nat, i < j
  PROVE  before(t, RowAt(p, els, i), RowAt(p, els, j))
<1>1. smaller(RowAt(p, els, i).id, RowAt(p, els, j).id)
  <2>1. RowAt(p, els, i).id = Append(p, i) /\ RowAt(p, els, j).id = Append(p, j) BY RowAtIs
  <2> QED BY <2>1, SmallerIs
<1>2. RowAt(p, els, i).parent = RowAt(p, els, j).parent /\ RowAt(p, els, i).sort < RowAt(p, els, j).sort BY RowAtIs
<1>3. CASE t \in ById
  <2>1. t \notin ByParent BY <1>3 DEF ById, ByParent
  <2> QED BY <1>1, <1>3, <2>1 DEF before
<1>4. CASE t \notin ById /\ t \in ByParent BY <1>2, <1>4 DEF before
<1>5. CASE t \notin ById /\ t \notin ByParent BY <1>2, <1>5 DEF before
<1> QED BY <1>3, <1>4, <1>5

(* groupBy gives the list of a parent back.                                *)
LEMMA Grouped ==
  ASSUME NEW t, t \notin ByNothing, NEW S, NEW s, Reading(t, S, s), NEW p, IsId(p),
         NEW n \in Nat, NEW els, DOMAIN els = 1..n, {r \in S : r.parent = p} = RowsOf(p, els)
  PROVE  DOMAIN groupBy(s, p) = 1..n /\ \A k \in 1..n : groupBy(s, p)[k] = RowAt(p, els, k)
<1> DEFINE D == DOMAIN s
           I == {i \in D : s[i].parent = p}
           place == [k \in 1..n |-> CHOOSE i \in D : s[i] = RowAt(p, els, k)]
<1>1. /\ D \subseteq Nat /\ \A i \in D : s[i] \in S
      /\ \A r \in S : \E i \in D : s[i] = r
      /\ \A i, j \in D : s[i] = s[j] => i = j
      /\ \A i, j \in D : i < j => ~before(t, s[j], s[i])
  <2>1. D \subseteq Nat BY ReadingIs
  <2>2. s \in [DOMAIN s -> S] BY ReadingIs
  <2> QED BY <2>1, <2>2, ReadingIs
<1>2. \A r \in S : r.parent = p <=> \E k \in 1..n : r = RowAt(p, els, k) BY RowsAre
<1>3. \A k \in 1..n : RowAt(p, els, k) \in S
  <2>1. \A k \in 1..n : RowAt(p, els, k) \in RowsOf(p, els) BY RowsAre
  <2> QED BY <2>1
<1> HIDE DEF D
<1>4. \A k \in 1..n : place[k] \in I /\ s[place[k]] = RowAt(p, els, k)
  <2> SUFFICES ASSUME NEW k \in 1..n PROVE place[k] \in I /\ s[place[k]] = RowAt(p, els, k) OBVIOUS
  <2>1. \E i \in D : s[i] = RowAt(p, els, k) BY <1>1, <1>3
  <2>2. place[k] \in D /\ s[place[k]] = RowAt(p, els, k) BY <2>1
  <2> QED BY <2>2, RowAtIs
<1>5. I \subseteq Nat /\ I \subseteq D BY <1>1
<1>6. place \in [1..n -> I] BY <1>4
<1> HIDE DEF place, I
<1>7. ASSUME NEW j \in 1..n, NEW k \in 1..n, j < k PROVE place[j] < place[k]
  <2>0. place[j] \in I /\ place[k] \in I BY <1>4
  <2>01. j \in Nat /\ k \in Nat OBVIOUS
  <2>02. place[j] \in D /\ place[k] \in D BY <1>5, <2>0
  <2>1. j \in Nat /\ k \in Nat /\ place[j] \in D /\ place[k] \in D BY <2>01, <2>02
  <2>2. RowAt(p, els, j) # RowAt(p, els, k) BY <1>7, <2>1, RowAtIs
  <2>3. before(t, s[place[j]], s[place[k]]) BY <1>4, <1>7, <2>1, BeforeIs
  <2>4. ~(place[k] < place[j]) BY <1>1, <2>1, <2>3
  <2>5. place[j] # place[k] BY <1>4, <2>2
  <2>6. place[j] \in Nat /\ place[k] \in Nat BY <1>1, <2>1
  <2> QED BY <2>4, <2>5, <2>6
<1>8. ASSUME NEW i \in I PROVE \E k \in 1..n : place[k] = i
  <2>1. i \in D /\ s[i] \in S /\ s[i].parent = p BY <1>1 DEF I
  <2>2. PICK k \in 1..n : s[i] = RowAt(p, els, k) BY <1>2, <2>1
  <2>3. s[place[k]] = s[i] /\ place[k] \in D BY <1>4, <1>5, <2>2
  <2> QED BY <1>1, <2>1, <2>3
<1>9. Passes(place, n, I) BY <1>5, <1>6, <1>7, <1>8 DEF Passes
<1>10. groupBy(s, p) = At(s, I) BY DEF groupBy, filter, I, D
<1> QED BY <1>4, <1>9, <1>10, PickedAt

LEMMA ValsAre ==
  ASSUME NEW s, NEW els, IsId(els), DOMAIN s = DOMAIN els, \A k \in DOMAIN els : s[k].val = els[k]
  PROVE  Vals(s) = els
<1>1. PICK X : els \in Seq(X) BY DEF IsId
<1>2. els = [k \in DOMAIN els |-> els[k]] BY <1>1
<1>3. Vals(s) = [k \in DOMAIN s |-> s[k].val] BY DEF Vals, Map
<1> QED BY <1>2, <1>3

LEMMA GroupedVals ==
  ASSUME NEW t, t \notin ByNothing, NEW S, NEW s, Reading(t, S, s), NEW p, IsId(p),
         NEW els, IsId(els), {r \in S : r.parent = p} = RowsOf(p, els)
  PROVE  Vals(groupBy(s, p)) = els
<1>1. PICK X : els \in Seq(X) BY DEF IsId
<1>2. Len(els) \in Nat /\ DOMAIN els = 1..Len(els) BY <1>1
<1>3. DOMAIN groupBy(s, p) = 1..Len(els) /\ \A k \in 1..Len(els) : groupBy(s, p)[k] = RowAt(p, els, k) BY <1>2, Grouped
<1>4. \A k \in 1..Len(els) : groupBy(s, p)[k].val = els[k] BY <1>3, RowAtIs
<1> QED BY <1>2, <1>3, <1>4, ValsAre

LEMMA NoId == IsId(<<>>) /\ \A i \in Nat : IsId(<<i>>) /\ \A j \in Nat : IsId(<<i, j>>)
<1>1. \A X : <<>> \in Seq(X) OBVIOUS
<1>2. \A i, j \in Nat : <<i>> \in Seq(Nat) /\ <<i, j>> \in Seq(Nat) OBVIOUS
<1> QED BY <1>1, <1>2 DEF IsId

(* A table of one list is read as it was written.                          *)
LEMMA WholeTable ==
  ASSUME NEW t, t \notin ByNothing, NEW n \in Nat, NEW els, DOMAIN els = 1..n, NEW s, Reading(t, insert(els), s)
  PROVE  DOMAIN s = 1..n /\ \A k \in 1..n : s[k] = RowAt(<<>>, els, k)
<1> DEFINE S == insert(els)
           N == Cardinality(S)
<1>1. S = RowsOf(<<>>, els) BY DEF insert
<1>2. \A r \in S : r.parent = <<>> BY <1>1, RowsAre, RowAtIs
<1> HIDE DEF S
<1>3. {r \in S : r.parent = <<>>} = RowsOf(<<>>, els) BY <1>1, <1>2
<1>4. Reading(t, S, s) BY DEF S
<1>5. DOMAIN groupBy(s, <<>>) = 1..n /\ \A k \in 1..n : groupBy(s, <<>>)[k] = RowAt(<<>>, els, k) BY <1>3, <1>4, NoId, Grouped
<1>6. N \in Nat /\ DOMAIN s = 1..N /\ s \in [DOMAIN s -> S] BY <1>4, ReadingIs
<1>7. {i \in DOMAIN s : s[i].parent = <<>>} = 1..N BY <1>2, <1>6
<1> HIDE DEF N
<1>8. groupBy(s, <<>>) = At(s, 1..N) BY <1>7 DEF groupBy, filter
<1>9. DOMAIN At(s, 1..N) = 1..N /\ \A k \in 1..N : At(s, 1..N)[k] = s[k] BY <1>6, AllPicked
<1> QED BY <1>5, <1>6, <1>8, <1>9

LEMMA WholeVals ==
  ASSUME NEW t, t \notin ByNothing, NEW els, IsId(els), NEW s, Reading(t, insert(els), s)
  PROVE  Vals(s) = els
<1>1. PICK X : els \in Seq(X) BY DEF IsId
<1>2. Len(els) \in Nat /\ DOMAIN els = 1..Len(els) BY <1>1
<1>3. DOMAIN s = 1..Len(els) /\ \A k \in 1..Len(els) : s[k] = RowAt(<<>>, els, k) BY <1>2, WholeTable
<1>4. \A k \in 1..Len(els) : s[k].val = els[k] BY <1>3, RowAtIs
<1> QED BY <1>2, <1>3, <1>4, ValsAre

(* The rows of a table, by parent.                                         *)
LEMMA TableHas ==
  ASSUME NEW lists, NEW p \in DOMAIN lists
  PROVE  {r \in Table(lists) : r.parent = p} = RowsOf(p, lists[p])
<1>1. \A r : r \in Table(lists) <=> \E q \in DOMAIN lists : r \in RowsOf(q, lists[q]) BY DEF Table
<1>2. \A q \in DOMAIN lists : \A r \in RowsOf(q, lists[q]) : r.parent = q BY RowsAre, RowAtIs
<1> QED BY <1>1, <1>2

LEMMA RowsFinite == ASSUME NEW p, NEW els, IsFiniteSet(DOMAIN els) PROVE IsFiniteSet(RowsOf(p, els))
<1> DEFINE f == [k \in DOMAIN els |-> RowAt(p, els, k)]
<1>1. RowsOf(p, els) = {f[k] : k \in DOMAIN els} BY RowsAre
<1> HIDE DEF f
<1> QED BY <1>1, ImageFinite

LEMMA TableFinite ==
  ASSUME NEW lists, IsFiniteSet(DOMAIN lists), \A p \in DOMAIN lists : IsFiniteSet(DOMAIN lists[p])
  PROVE  IsFiniteSet(Table(lists))
<1> DEFINE f == [p \in DOMAIN lists |-> RowsOf(p, lists[p])]
           R == {f[p] : p \in DOMAIN lists}
<1>1. Table(lists) = UNION R BY DEF Table
<1>2. IsFiniteSet(R) 
  <2> HIDE DEF f
  <2> QED BY ImageFinite
<1>3. \A T \in R : IsFiniteSet(T) BY RowsFinite
<1> HIDE DEF R
<1> QED BY <1>1, <1>2, <1>3, FS_UNION

LEMMA EachHas ==
  ASSUME NEW lists, NEW i \in DOMAIN lists
  PROVE  {r \in Each(lists) : r.parent = <<i>>} = RowsOf(<<i>>, lists[i])
<1> DEFINE f == [p \in {<<j>> : j \in DOMAIN lists} |-> lists[p[1]]]
<1>1. <<i>> \in DOMAIN f /\ f[<<i>>] = lists[i] OBVIOUS
<1>2. Each(lists) = Table(f) BY DEF Each
<1> HIDE DEF f
<1> QED BY <1>1, <1>2, TableHas

LEMMA EachFinite ==
  ASSUME NEW lists, IsFiniteSet(DOMAIN lists), \A i \in DOMAIN lists : IsFiniteSet(DOMAIN lists[i])
  PROVE  IsFiniteSet(Each(lists))
<1> DEFINE g == [j \in DOMAIN lists |-> <<j>>]
           P == {<<j>> : j \in DOMAIN lists}
           f == [p \in P |-> lists[p[1]]]
<1>1. P = {g[j] : j \in DOMAIN lists} OBVIOUS
<1>2. IsFiniteSet(P)
  <2> HIDE DEF g, P
  <2> QED BY <1>1, ImageFinite
<1>3. DOMAIN f = P /\ \A p \in P : \E i \in DOMAIN lists : f[p] = lists[i] OBVIOUS
<1>4. Each(lists) = Table(f) BY DEF Each
<1> HIDE DEF f, P
<1> QED BY <1>2, <1>3, <1>4, TableFinite

(* FirstSeen keeps each value at the first place it has.                   *)
Firsts(c, M, m, f) ==
  /\ Passes(f, m, {i \in 1..M : \A j \in 1..(i - 1) : c[j] # c[i]})
  /\ DOMAIN FirstSeen(c) = 1..m /\ \A k \in 1..m : FirstSeen(c)[k] = c[f[k]]
  /\ \A i \in 1..M : \E k \in 1..m : c[f[k]] = c[i] /\ f[k] <= i

LEMMA FirstsAre ==
  ASSUME NEW M \in Nat, NEW c, DOMAIN c = 1..M
  PROVE  \E m, f : Firsts(c, M, m, f)
<1> DEFINE I == {i \in 1..M : \A j \in 1..(i - 1) : c[j] # c[i]}
<1>1. Numbers(I)
  <2>1. I \subseteq 1..M /\ I \subseteq Nat OBVIOUS
  <2>2. IsFiniteSet(1..M) BY FS_Interval
  <2> HIDE DEF I
  <2>3. IsFiniteSet(I) BY <2>1, <2>2, FS_Subset
  <2> QED BY <2>1, <2>3 DEF Numbers
<1>2. PICK m, f : Passes(f, m, I) BY <1>1, PlacesOf
<1>3. FirstSeen(c) = At(c, I) BY DEF FirstSeen
<1>4. DOMAIN FirstSeen(c) = 1..m /\ \A k \in 1..m : FirstSeen(c)[k] = c[f[k]]
  <2> HIDE DEF I
  <2> QED BY <1>2, <1>3, PickedAt
<1>5. ASSUME NEW i \in 1..M PROVE \E k \in 1..m : c[f[k]] = c[i] /\ f[k] <= i
  <2> DEFINE T == {j \in 1..i : c[j] = c[i]}
             l == Min(T)
  <2>1. IsFiniteSet(T)
    <3>1. T \subseteq 1..i /\ i \in Int OBVIOUS
    <3>2. IsFiniteSet(1..i) BY <3>1, FS_Interval
    <3> HIDE DEF T
    <3> QED BY <3>1, <3>2, FS_Subset
  <2>2. i \in T /\ \A j \in T : j \in Int OBVIOUS
  <2>3. l \in T /\ \A j \in T : l <= j
    <3> HIDE DEF T
    <3> QED BY <2>1, <2>2, MinIs
  <2> HIDE DEF l
  <2>4. l \in 1..M /\ l <= i /\ c[l] = c[i] BY <2>3
  <2>5. \A j \in 1..(l - 1) : c[j] # c[l]
    <3> SUFFICES ASSUME NEW j \in 1..(l - 1), c[j] = c[l] PROVE FALSE OBVIOUS
    <3>1. j \in 1..i /\ j < l BY <2>4
    <3>2. j \in T BY <2>4, <3>1
    <3> QED BY <2>3, <2>4, <3>1, <3>2
  <2>6. l \in I BY <2>4, <2>5
  <2>7. PICK k \in 1..m : f[k] = l BY <1>2, <2>6 DEF Passes
  <2> QED BY <2>4, <2>7
<1> QED BY <1>2, <1>4, <1>5 DEF Firsts

LEMMA FirstIs ==
  ASSUME NEW M \in Nat, NEW c, NEW m, NEW f, Firsts(c, M, m, f), NEW k \in 1..m
  PROVE  /\ m \in Nat /\ f[k] \in 1..M /\ FirstSeen(c)[k] = c[f[k]]
         /\ \A i \in 1..M : c[i] = c[f[k]] => f[k] <= i
         /\ \A j \in 1..m : (j < k <=> f[j] < f[k]) /\ (c[f[j]] = c[f[k]] => j = k)
<1> DEFINE I == {i \in 1..M : \A j \in 1..(i - 1) : c[j] # c[i]}
<1>1. Passes(f, m, I) /\ FirstSeen(c)[k] = c[f[k]] BY DEF Firsts
<1>2. \A i \in I : i \in 1..M /\ \A j \in 1..M : c[j] = c[i] => i <= j
  <2> SUFFICES ASSUME NEW i \in I, NEW j \in 1..M, c[j] = c[i], j < i PROVE FALSE OBVIOUS
  <2>1. j \in 1..(i - 1) OBVIOUS
  <2> QED BY <2>1
<1> HIDE DEF I
<1>3. m \in Nat BY <1>1 DEF Passes
<1>4. \A j \in 1..m : f[j] \in I /\ f[j] \in 1..M BY <1>1, <1>2, Rising
<1>5. \A j \in 1..m : (j < k <=> f[j] < f[k]) /\ (f[j] = f[k] => j = k) BY <1>1, Rising
<1>6. ASSUME NEW j \in 1..m, c[f[j]] = c[f[k]] PROVE j = k
  <2>1. f[j] <= f[k] /\ f[k] <= f[j] BY <1>2, <1>4, <1>6
  <2>2. f[j] \in Nat /\ f[k] \in Nat BY <1>4
  <2>3. f[j] = f[k] BY <2>1, <2>2
  <2> QED BY <1>5, <2>3
<1> QED BY <1>1, <1>2, <1>3, <1>4, <1>5, <1>6

LEMMA EachRow ==
  ASSUME NEW lists, NEW r \in Each(lists)
  PROVE  \E i \in DOMAIN lists : \E k \in DOMAIN lists[i] : r = RowAt(<<i>>, lists[i], k)
<1> DEFINE f == [p \in {<<j>> : j \in DOMAIN lists} |-> lists[p[1]]]
<1>1. Each(lists) = Table(f) BY DEF Each
<1>2. PICK p \in DOMAIN f : r \in RowsOf(p, f[p]) BY <1>1 DEF Table
<1>3. PICK i \in DOMAIN lists : p = <<i>> /\ f[p] = lists[i] BY <1>2
<1> QED BY <1>2, <1>3, RowsAre

LEMMA RowOfEach ==
  ASSUME NEW lists, NEW i \in DOMAIN lists, NEW k \in DOMAIN lists[i]
  PROVE  RowAt(<<i>>, lists[i], k) \in Each(lists)
<1>1. RowAt(<<i>>, lists[i], k) \in RowsOf(<<i>>, lists[i]) BY RowsAre
<1> QED BY <1>1, EachHas

(* Read by id, the lists follow one another.                               *)
LEMMA ParentsRise ==
  ASSUME NEW t \in ById, NEW n \in Nat, NEW lists, DOMAIN lists = 1..n, NEW s, Reading(t, Each(lists), s),
         NEW i \in DOMAIN s, NEW j \in DOMAIN s, i < j, NEW a \in 1..n, NEW b \in 1..n, s[i].parent = <<a>>, s[j].parent = <<b>>
  PROVE  a <= b
<1>1. s[i] \in Each(lists) /\ s[j] \in Each(lists)
  <2>1. s \in [DOMAIN s -> Each(lists)] BY ReadingIs
  <2> QED BY <2>1
<1>2. PICK x \in DOMAIN lists : \E k \in DOMAIN lists[x] : s[i] = RowAt(<<x>>, lists[x], k) BY <1>1, EachRow
<1>3. PICK k : s[i] = RowAt(<<x>>, lists[x], k) BY <1>2
<1>4. PICK y \in DOMAIN lists : \E l \in DOMAIN lists[y] : s[j] = RowAt(<<y>>, lists[y], l) BY <1>1, EachRow
<1>5. PICK l : s[j] = RowAt(<<y>>, lists[y], l) BY <1>4
<1>6. <<x>> = <<a>> /\ <<y>> = <<b>> BY <1>3, <1>5, RowAtIs
<1>7. x = a /\ y = b BY <1>6
<1>8. s[i].id = Append(<<a>>, k) /\ s[j].id = Append(<<b>>, l)
  <2>1. s[i].id = Append(<<x>>, k) /\ s[j].id = Append(<<y>>, l)
    <3>1. RowAt(<<x>>, lists[x], k).id = Append(<<x>>, k) BY DEF RowAt, Row
    <3>2. RowAt(<<y>>, lists[y], l).id = Append(<<y>>, l) BY DEF RowAt, Row
    <3> QED BY <1>3, <1>5, <3>1, <3>2, Zenon
  <2> QED BY <1>7, <2>1
<1>9. ~before(t, s[j], s[i]) BY ReadingIs
<1>10. ~smaller(s[j].id, s[i].id)
  <2>1. t \notin ByNothing /\ t \notin ByParent BY DEF ById, ByNothing, ByParent
  <2> QED BY <1>9, <2>1 DEF before
<1>11. ASSUME b < a PROVE FALSE
  <2> DEFINE p == s[j].id
             q == s[i].id
  <2>1. 1 \in DOMAIN p /\ p[1] = b /\ q[1] = a /\ 1..(1 - 1) = {} BY <1>8
  <2> HIDE DEF p, q
  <2>2. smaller(p, q) BY <1>11, <2>1 DEF smaller
  <2> QED BY <1>10, <2>2 DEF p, q
<1> QED BY <1>11

(* Names that each occur come once each, where they are first seen.        *)
Naming(c, M, n) ==
  /\ M \in Nat /\ n \in Nat /\ DOMAIN c = 1..M
  /\ \A i \in 1..M : \E g \in 1..n : c[i] = <<g>>
  /\ \A g \in 1..n : \E i \in 1..M : c[i] = <<g>>
Shuffles(pi, n) == /\ pi \in [1..n -> 1..n] /\ \A j, k \in 1..n : pi[j] = pi[k] => j = k
                   /\ \A g \in 1..n : \E k \in 1..n : pi[k] = g

Named(c, M, n, f, pi) == Firsts(c, M, n, f) /\ Shuffles(pi, n) /\ \A k \in 1..n : c[f[k]] = <<pi[k]>>

LEMMA NamesOnce == ASSUME NEW c, NEW M, NEW n, Naming(c, M, n) PROVE \E f, pi : Named(c, M, n, f, pi)
<1>1. /\ M \in Nat /\ n \in Nat /\ DOMAIN c = 1..M
      /\ \A i \in 1..M : \E g \in 1..n : c[i] = <<g>>
      /\ \A g \in 1..n : \E i \in 1..M : c[i] = <<g>>
  BY DEF Naming
<1>01. M \in Nat BY <1>1
<1>2. PICK m, f : Firsts(c, M, m, f) BY <1>1, FirstsAre
<1> DEFINE pi == [k \in 1..m |-> CHOOSE g \in 1..n : c[f[k]] = <<g>>]
<1>3. m \in Nat BY <1>2 DEF Firsts, Passes
<1>4. ASSUME NEW k \in 1..m PROVE pi[k] \in 1..n /\ c[f[k]] = <<pi[k]>>
  <2>1. f[k] \in 1..M BY <1>1, <1>2, FirstIs
  <2>2. \E g \in 1..n : c[f[k]] = <<g>> BY <1>1, <2>1
  <2> QED BY <2>2
<1>5. pi \in [1..m -> 1..n] BY <1>4
<1> HIDE DEF pi
<1>6. ASSUME NEW j \in 1..m, NEW k \in 1..m, pi[j] = pi[k] PROVE j = k
  <2>1. c[f[j]] = c[f[k]] BY <1>4, <1>6
  <2>2. (j < k <=> f[j] < f[k]) /\ (c[f[j]] = c[f[k]] => j = k) BY <1>01, <1>2, FirstIs
  <2> QED BY <2>1, <2>2
<1>7. ASSUME NEW g \in 1..n PROVE \E k \in 1..m : pi[k] = g
  <2>1. PICK i \in 1..M : c[i] = <<g>> BY <1>1
  <2>2. PICK k \in 1..m : c[f[k]] = c[i] BY <1>2, <2>1 DEF Firsts
  <2>3. <<pi[k]>> = <<g>> BY <1>4, <2>1, <2>2
  <2> QED BY <2>3
<1>8. m = n
  <2> DEFINE N == 1..n
  <2>1. pi \in Bijection(1..m, N)
    <3> HIDE DEF N
    <3>1. pi \in [1..m -> N] /\ \A g \in N : \E k \in 1..m : pi[k] = g BY <1>5, <1>7 DEF N
    <3> QED BY <1>6, <3>1 DEF Bijection, Injection, Surjection, IsInjective
  <2>2. Cardinality(N) = n BY <1>1, FS_Interval
  <2> HIDE DEF N
  <2>3. Cardinality(N) = m BY <1>3, <2>1, FS_CountingElements DEF ExistsBijection
  <2> QED BY <2>2, <2>3
<1>9. Firsts(c, M, n, f) BY <1>2, <1>8
<1>10. Shuffles(pi, n) BY <1>5, <1>6, <1>7, <1>8 DEF Shuffles
<1>11. \A k \in 1..n : c[f[k]] = <<pi[k]>> BY <1>4, <1>8
<1>12. Named(c, M, n, f, pi) BY <1>9, <1>10, <1>11 DEF Named
<1> QED BY <1>12

(* The groups of the price list come back in the order of the document.    *)
LEMMA GroupsInOrder ==
  ASSUME NEW n \in Nat, NEW lists, DOMAIN lists = 1..n, \A g \in 1..n : 1 \in DOMAIN lists[g],
         NEW s, Reading("priceList", Each(lists), s), NEW c, c = [i \in DOMAIN s |-> s[i].parent]
  PROVE  DOMAIN FirstSeen(c) = 1..n /\ \A g \in 1..n : FirstSeen(c)[g] = <<g>>
<1> DEFINE S == Each(lists)
           M == Cardinality(S)
<1>1. M \in Nat /\ DOMAIN s = 1..M /\ s \in [DOMAIN s -> S] /\ \A r \in S : \E i \in DOMAIN s : s[i] = r BY ReadingIs
<1> HIDE DEF M
<1>2. DOMAIN c = 1..M /\ \A i \in 1..M : c[i] = s[i].parent BY <1>1
<1>3. \A i \in 1..M : \E g \in 1..n : c[i] = <<g>>
  <2> SUFFICES ASSUME NEW i \in 1..M PROVE \E g \in 1..n : c[i] = <<g>> OBVIOUS
  <2>1. s[i] \in S BY <1>1
  <2>2. PICK g \in DOMAIN lists : \E k \in DOMAIN lists[g] : s[i] = RowAt(<<g>>, lists[g], k) BY <2>1, EachRow
  <2>3. c[i] = <<g>> BY <1>2, <2>2, RowAtIs
  <2> QED BY <2>3
<1>4. \A g \in 1..n : \E i \in 1..M : c[i] = <<g>>
  <2> SUFFICES ASSUME NEW g \in 1..n PROVE \E i \in 1..M : c[i] = <<g>> OBVIOUS
  <2>1. RowAt(<<g>>, lists[g], 1) \in S BY RowOfEach
  <2>2. PICK i \in DOMAIN s : s[i] = RowAt(<<g>>, lists[g], 1) BY <1>1, <2>1
  <2>3. i \in 1..M /\ c[i] = <<g>> BY <1>1, <1>2, <2>2, RowAtIs
  <2> QED BY <2>3
<1> HIDE DEF S
<1>5. Naming(c, M, n) BY <1>1, <1>2, <1>3, <1>4 DEF Naming
<1>60. PICK f, pi : Named(c, M, n, f, pi) BY <1>5, NamesOnce
<1>6. Firsts(c, M, n, f) /\ Shuffles(pi, n) /\ \A k \in 1..n : c[f[k]] = <<pi[k]>> BY <1>60 DEF Named
<1>7. pi \in [1..n -> 1..n] /\ \A g \in 1..n : \E k \in 1..n : pi[k] = g BY <1>6 DEF Shuffles
<1>8. ASSUME NEW j \in 1..n, NEW k \in 1..n, j < k PROVE pi[j] < pi[k]
  <2>1. f[j] \in 1..M /\ f[k] \in 1..M BY <1>1, <1>6, FirstIs
  <2>2. f[j] < f[k] /\ j # k
    <3>1. (j < k <=> f[j] < f[k]) BY <1>1, <1>6, FirstIs
    <3> QED BY <1>8, <3>1
  <2>3. s[f[j]].parent = <<pi[j]>> /\ s[f[k]].parent = <<pi[k]>> BY <1>2, <1>6, <2>1
  <2>4. f[j] \in DOMAIN s /\ f[k] \in DOMAIN s /\ pi[j] \in 1..n /\ pi[k] \in 1..n BY <1>1, <1>7, <2>1
  <2>5. "priceList" \in ById BY DEF ById
  <2>6. pi[j] <= pi[k] BY <2>2, <2>3, <2>4, <2>5, ParentsRise
  <2>7. pi[j] # pi[k] BY <1>6, <2>2 DEF Shuffles
  <2> QED BY <2>4, <2>6, <2>7
<1>9. Passes(pi, n, 1..n) BY <1>7, <1>8 DEF Passes
<1>10. \A k \in 1..n : pi[k] = k BY <1>9, OneRises
<1>11. DOMAIN FirstSeen(c) = 1..n /\ \A g \in 1..n : FirstSeen(c)[g] = c[f[g]] BY <1>6 DEF Firsts
<1>12. \A g \in 1..n : c[f[g]] = <<g>> BY <1>6, <1>10
<1> QED BY <1>11, <1>12

(* So many rows as the list has elements.                                  *)
LEMMA RowCount == ASSUME NEW p, NEW els, NEW n \in Nat, DOMAIN els = 1..n PROVE Cardinality(RowsOf(p, els)) = n /\ IsFiniteSet(RowsOf(p, els))
<1> DEFINE f == [k \in 1..n |-> RowAt(p, els, k)]
           S == RowsOf(p, els)
<1>1. S = {f[k] : k \in 1..n} BY RowsAre
<1>2. \A j, k \in 1..n : f[j] = f[k] => j = k
  <2> SUFFICES ASSUME NEW j \in 1..n, NEW k \in 1..n, f[j] = f[k] PROVE j = k OBVIOUS
  <2>1. f[j].sort = j - 1 /\ f[k].sort = k - 1 BY RowAtIs
  <2>2. j - 1 = k - 1 BY <2>1
  <2> QED BY <2>2
<1> HIDE DEF f, S
<1>3. f \in [1..n -> S] BY <1>1 DEF f
<1>4. f \in Bijection(1..n, S) BY <1>1, <1>2, <1>3 DEF Bijection, Injection, Surjection, IsInjective
<1>5. Cardinality(S) = n BY <1>4, FS_CountingElements DEF ExistsBijection
<1>6. IsFiniteSet(S)
  <2>1. IsFiniteSet(DOMAIN els) BY FS_Interval
  <2> QED BY <2>1, RowsFinite DEF S
<1> QED BY <1>5, <1>6 DEF S

(* A gallery shows its own photos, in their order.                         *)
LEMMA GalleryIs ==
  ASSUME NEW n \in Nat, NEW lists, DOMAIN lists = 1..n, NEW g, Reading("shots", Each(lists), g.shots),
         NEW j \in 1..n, IsId(lists[j]), NEW r, r.id = <<j>>
  PROVE  galleryDto(g, r) = [key |-> r.val.key, val |-> r.val.val, film |-> r.val.film, shots |-> lists[j]]
<1> DEFINE shots == groupBy(g.shots, <<j>>)
           keys == Map(shots, LAMBDA x : x.sort)
           l == Len(lists[j])
<1>1. l \in Nat /\ DOMAIN lists[j] = 1..l BY DEF IsId
<1>2. {x \in Each(lists) : x.parent = <<j>>} = RowsOf(<<j>>, lists[j]) BY EachHas
<1>3. "shots" \notin ByNothing BY DEF ByNothing
<1>4. IsId(<<j>>) BY NoId
<1> HIDE DEF l
<1>5. DOMAIN shots = 1..l /\ \A k \in 1..l : shots[k] = RowAt(<<j>>, lists[j], k) BY <1>1, <1>2, <1>3, <1>4, Grouped
<1> HIDE DEF shots
<1>6. keys = [k \in 1..l |-> shots[k].sort] BY <1>5 DEF Map
<1>7. \A k \in 1..l : keys[k] = k - 1
  <2> SUFFICES ASSUME NEW k \in 1..l PROVE keys[k] = k - 1 OBVIOUS
  <2>1. shots[k] = RowAt(<<j>>, lists[j], k) BY <1>5
  <2>2. keys[k] = shots[k].sort BY <1>6
  <2> QED BY <2>1, <2>2, RowAtIs
<1> DEFINE same == [k \in 1..l |-> k]
<1> HIDE DEF keys
<1>8. KeysRise(same, l, keys) BY <1>1, <1>7 DEF KeysRise
<1>9. \A k \in 1..l : same[k] = k OBVIOUS
<1> HIDE DEF same
<1>10. DOMAIN SortBy(shots, keys) = 1..l /\ \A k \in 1..l : SortBy(shots, keys)[k] = shots[same[k]] BY <1>1, <1>5, <1>8, SortedBy
<1>11. \A k \in 1..l : SortBy(shots, keys)[k].val = lists[j][k]
  <2> SUFFICES ASSUME NEW k \in 1..l PROVE SortBy(shots, keys)[k].val = lists[j][k] OBVIOUS
  <2>1. SortBy(shots, keys)[k] = RowAt(<<j>>, lists[j], k) BY <1>5, <1>9, <1>10
  <2> QED BY <2>1, RowAtIs
<1>12. Vals(SortBy(shots, keys)) = lists[j] BY <1>1, <1>10, <1>11, ValsAre
<1> QED BY <1>12 DEF galleryDto, shots, keys

Joined(a, b, l) == DOMAIN (a \o b) = 1..l
LEMMA JoinIs ==
  ASSUME NEW X, NEW m \in Nat, NEW n \in Nat, NEW a \in [1..m -> X], NEW b \in [1..n -> X]
  PROVE  Joined(a, b, m + n) /\ (\A i \in 1..m : (a \o b)[i] = a[i]) /\ \A i \in 1..n : (a \o b)[m + i] = b[i]
<1>1. a \in Seq(X) /\ Len(a) = m OBVIOUS
<1>2. b \in Seq(X) /\ Len(b) = n OBVIOUS
<1> DEFINE c == a \o b
<1>3. c \in Seq(X) /\ Len(c) = m + n BY <1>1, <1>2
<1>4. \A i \in 1..(m + n) : c[i] = IF i <= m THEN a[i] ELSE b[i - m] BY <1>1, <1>2
<1>5. \A i \in 1..m : i \in 1..(m + n) /\ i <= m OBVIOUS
<1>6. \A i \in 1..n : m + i \in 1..(m + n) /\ ~(m + i <= m) /\ (m + i) - m = i OBVIOUS
<1>7. DOMAIN c = 1..(m + n) BY <1>3
<1> HIDE DEF c
<1>8. \A i \in 1..m : c[i] = a[i] BY <1>4, <1>5
<1>9. \A i \in 1..n : c[m + i] = b[i] BY <1>4, <1>6
<1> QED BY <1>7, <1>8, <1>9 DEF c, Joined

(* What the galleries come back as: each once, those with photos in the    *)
(* order of the document.                                                  *)
GalleryAt(d, k) == [key |-> d.GAL[k].key, val |-> d.GAL[k].val, film |-> d.GAL[k].film, shots |-> d.GAL[k].shots]
ShotLists(d) == [i \in DOMAIN d.GAL |-> d.GAL[i].shots]
GalleriesRead(d, g) ==
  /\ d.GAL \in Seq(GalleryDto) /\ Reading("shots", Each(ShotLists(d)), g.shots)
  /\ Reading("galleries", seedGalleries(d), g.galleries)

HeadsAre(c, s, K) == \A i \in 1..K : c[i] = s[i].parent
LEMMA GalleriesNamed ==
  ASSUME NEW d, NEW g, GalleriesRead(d, g), NEW n, n = Len(d.GAL), NEW K, K = Cardinality(Each(ShotLists(d))),
         NEW c, c = Map(g.shots, LAMBDA x : x.parent) \o Map(g.galleries, LAMBDA r : r.id)
  PROVE  /\ Naming(c, K + n, n) /\ n \in Nat /\ K \in Nat /\ DOMAIN g.shots = 1..K
         /\ HeadsAre(c, g.shots, K)
         /\ \A i \in 1..n : \E j \in 1..n : g.galleries[i] = RowAt(<<>>, [k \in 1..n |-> [key |-> d.GAL[k].key, val |-> d.GAL[k].val, film |-> d.GAL[k].film]], j)
<1> DEFINE v == [k \in 1..n |-> [key |-> d.GAL[k].key, val |-> d.GAL[k].val, film |-> d.GAL[k].film]]
           lists == ShotLists(d)
           a == Map(g.shots, LAMBDA x : x.parent)
           b == Map(g.galleries, LAMBDA r : r.id)
<1>1. n \in Nat /\ DOMAIN d.GAL = 1..n /\ DOMAIN lists = 1..n BY DEF GalleriesRead, ShotLists
<1>2. seedGalleries(d) = RowsOf(<<>>, v) BY <1>1 DEF seedGalleries, insert
<1> HIDE DEF v, lists
<1>3. DOMAIN v = 1..n BY DEF v
<1>4. Cardinality(RowsOf(<<>>, v)) = n BY <1>1, <1>3, RowCount
<1>5. Reading("galleries", RowsOf(<<>>, v), g.galleries) BY <1>2 DEF GalleriesRead
<1>6. DOMAIN g.galleries = 1..n BY <1>4, <1>5, ReadingIs
<1>7. \A i \in 1..n : g.galleries[i] \in RowsOf(<<>>, v)
  <2>1. g.galleries \in [DOMAIN g.galleries -> RowsOf(<<>>, v)] BY <1>5, ReadingIs
  <2> QED BY <1>6, <2>1
<1>8. \A i \in 1..n : \E j \in 1..n : g.galleries[i] = RowAt(<<>>, v, j) BY <1>3, <1>7, RowsAre
<1>9. \A j \in 1..n : \E i \in 1..n : g.galleries[i] = RowAt(<<>>, v, j)
  <2> SUFFICES ASSUME NEW j \in 1..n PROVE \E i \in 1..n : g.galleries[i] = RowAt(<<>>, v, j) OBVIOUS
  <2>1. RowAt(<<>>, v, j) \in RowsOf(<<>>, v) BY <1>3, RowsAre
  <2> QED BY <1>5, <1>6, <2>1, ReadingIs
<1>10. Reading("shots", Each(lists), g.shots) BY DEF GalleriesRead, lists
<1>11. K \in Nat /\ DOMAIN g.shots = 1..K /\ g.shots \in [DOMAIN g.shots -> Each(lists)] BY <1>10, ReadingIs DEF lists
<1>12. a = [i \in 1..K |-> g.shots[i].parent] /\ b = [i \in 1..n |-> g.galleries[i].id] BY <1>6, <1>11 DEF Map
<1> HIDE DEF a, b
<1>13. \A i \in 1..K : \E j \in 1..n : a[i] = <<j>>
  <2> SUFFICES ASSUME NEW i \in 1..K PROVE \E j \in 1..n : a[i] = <<j>> OBVIOUS
  <2>1. g.shots[i] \in Each(lists) BY <1>11
  <2>2. PICK x \in DOMAIN lists : \E k \in DOMAIN lists[x] : g.shots[i] = RowAt(<<x>>, lists[x], k) BY <2>1, EachRow
  <2>3. g.shots[i].parent = <<x>> BY <2>2, RowAtIs
  <2>4. a[i] = <<x>> BY <1>12, <2>3
  <2> QED BY <1>1, <2>4
<1>14. \A i \in 1..n : \E j \in 1..n : b[i] = <<j>>
  <2> SUFFICES ASSUME NEW i \in 1..n PROVE \E j \in 1..n : b[i] = <<j>> OBVIOUS
  <2>1. PICK j \in 1..n : g.galleries[i] = RowAt(<<>>, v, j) BY <1>8
  <2>2. g.galleries[i].id = <<j>> BY <2>1 DEF RowAt, Row
  <2> QED BY <1>12, <2>2
<1>15. \A j \in 1..n : \E i \in 1..n : b[i] = <<j>>
  <2> SUFFICES ASSUME NEW j \in 1..n PROVE \E i \in 1..n : b[i] = <<j>> OBVIOUS
  <2>1. PICK i \in 1..n : g.galleries[i] = RowAt(<<>>, v, j) BY <1>9
  <2>2. g.galleries[i].id = <<j>> BY <2>1 DEF RowAt, Row
  <2> QED BY <1>12, <2>2
<1>16. DOMAIN c = 1..(K + n) /\ (\A i \in 1..K : c[i] = a[i]) /\ \A i \in 1..n : c[K + i] = b[i]
  <2> DEFINE X == {<<j>> : j \in 1..n}
  <2>1. (\A i \in 1..K : a[i] \in X) /\ \A i \in 1..n : b[i] \in X BY <1>13, <1>14
  <2>2. c = a \o b BY DEF a, b
  <2>3. K \in Nat /\ n \in Nat BY <1>1, <1>11
  <2> HIDE DEF X
  <2>4. a \in [1..K -> X] /\ b \in [1..n -> X] BY <1>12, <2>1
  <2>5. DOMAIN c = 1..(K + n)
    <3>1. Joined(a, b, K + n) BY <2>3, <2>4, JoinIs
    <3> QED BY <2>2, <3>1 DEF Joined
  <2>6. \A i \in 1..K : (a \o b)[i] = a[i] BY <2>3, <2>4, JoinIs
  <2>7. \A i \in 1..n : (a \o b)[K + i] = b[i] BY <2>3, <2>4, JoinIs
  <2> QED BY <2>2, <2>5, <2>6, <2>7
<1>17. \A i \in 1..(K + n) : i \in 1..K \/ \E j \in 1..n : i = K + j
  <2> SUFFICES ASSUME NEW i \in 1..(K + n), i \notin 1..K PROVE \E j \in 1..n : i = K + j OBVIOUS
  <2>1. i - K \in 1..n /\ i = K + (i - K) BY <1>1, <1>11
  <2> QED BY <2>1
<1>18. \A i \in 1..(K + n) : \E j \in 1..n : c[i] = <<j>>
  <2> SUFFICES ASSUME NEW i \in 1..(K + n) PROVE \E j \in 1..n : c[i] = <<j>> OBVIOUS
  <2>1. CASE i \in 1..K BY <1>13, <1>16, <2>1
  <2>2. CASE i \notin 1..K
    <3>1. PICK x \in 1..n : i = K + x BY <1>17, <2>2
    <3>2. c[i] = b[x] BY <1>16, <3>1
    <3> QED BY <1>14, <3>2
  <2> QED BY <2>1, <2>2
<1>19. \A j \in 1..n : \E i \in 1..(K + n) : c[i] = <<j>>
  <2> SUFFICES ASSUME NEW j \in 1..n PROVE \E i \in 1..(K + n) : c[i] = <<j>> OBVIOUS
  <2>1. PICK i \in 1..n : b[i] = <<j>> BY <1>15
  <2>2. K + i \in 1..(K + n) BY <1>1, <1>11
  <2> QED BY <1>16, <2>1, <2>2
<1>20. Naming(c, K + n, n)
  <2>1. K + n \in Nat /\ n \in Nat BY <1>1, <1>11
  <2>2. DOMAIN c = 1..(K + n) BY <1>16
  <2> QED BY <1>18, <1>19, <2>1, <2>2 DEF Naming
<1>21. \A i \in 1..K : c[i] = g.shots[i].parent BY <1>12, <1>16
<1> QED BY <1>1, <1>8, <1>11, <1>20, <1>21 DEF v, HeadsAre

GalleriesShuffled(d, g, f, pi) ==
  LET n == Len(d.GAL)
      K == Cardinality(Each(ShotLists(d)))
      c == Map(g.shots, LAMBDA x : x.parent) \o Map(g.galleries, LAMBDA r : r.id)
  IN /\ Named(c, K + n, n, f, pi) /\ DOMAIN mapGalleries(g) = 1..n
     /\ \A k \in 1..n : mapGalleries(g)[k] = GalleryAt(d, pi[k])

LEMMA GalleriesAre ==
  ASSUME NEW d, NEW g, GalleriesRead(d, g)
  PROVE  \E f, pi : GalleriesShuffled(d, g, f, pi)
<1> DEFINE n == Len(d.GAL)
           K == Cardinality(Each(ShotLists(d)))
           c == Map(g.shots, LAMBDA x : x.parent) \o Map(g.galleries, LAMBDA r : r.id)
           v == [k \in 1..n |-> [key |-> d.GAL[k].key, val |-> d.GAL[k].val, film |-> d.GAL[k].film]]
           lists == ShotLists(d)
           keys == FirstSeen(c)
           R == Range(g.galleries)
<1>1. Naming(c, K + n, n) BY GalleriesNamed
<1>2. n \in Nat /\ DOMAIN d.GAL = 1..n /\ DOMAIN lists = 1..n /\ \A j \in 1..n : d.GAL[j] \in GalleryDto /\ lists[j] = d.GAL[j].shots
  BY DEF GalleriesRead, ShotLists
<1>3. seedGalleries(d) = RowsOf(<<>>, v) BY <1>2 DEF seedGalleries, insert
<1>4. Reading("shots", Each(lists), g.shots) /\ Reading("galleries", RowsOf(<<>>, v), g.galleries) BY <1>3 DEF GalleriesRead
<1>5. DOMAIN v = 1..n /\ \A j \in 1..n : v[j] = [key |-> d.GAL[j].key, val |-> d.GAL[j].val, film |-> d.GAL[j].film] OBVIOUS
<1> HIDE DEF c, K, v, lists
<1>6. PICK f, pi : Named(c, K + n, n, f, pi) BY <1>1, NamesOnce
<1>7. Firsts(c, K + n, n, f) /\ Shuffles(pi, n) /\ \A k \in 1..n : c[f[k]] = <<pi[k]>> BY <1>6 DEF Named
<1>8. DOMAIN keys = 1..n /\ \A k \in 1..n : keys[k] = c[f[k]] BY <1>7 DEF Firsts
<1>9. \A k \in 1..n : pi[k] \in 1..n /\ keys[k] = <<pi[k]>>
  <2>1. pi \in [1..n -> 1..n] BY <1>7 DEF Shuffles
  <2> QED BY <1>7, <1>8, <2>1
<1>10. R \subseteq RowsOf(<<>>, v) /\ \A j \in 1..n : RowAt(<<>>, v, j) \in R
  <2>1. g.galleries \in [DOMAIN g.galleries -> RowsOf(<<>>, v)] BY <1>4, ReadingIs
  <2>2. R \subseteq RowsOf(<<>>, v) BY <2>1 DEF Range
  <2>3. \A r \in RowsOf(<<>>, v) : \E i \in DOMAIN g.galleries : g.galleries[i] = r BY <1>4, ReadingIs
  <2>4. \A j \in 1..n : RowAt(<<>>, v, j) \in RowsOf(<<>>, v) BY <1>5, RowsAre
  <2> QED BY <2>2, <2>3, <2>4 DEF Range
<1> HIDE DEF R, keys
<1>11. \A j \in 1..n : RowAt(<<>>, v, j).id = <<j>> BY DEF RowAt, Row
<1>12. \A r \in R : \E j \in 1..n : r = RowAt(<<>>, v, j) BY <1>5, <1>10, RowsAre
<1>13. ASSUME NEW j \in 1..n PROVE (CHOOSE r \in R : r.id = <<j>>) = RowAt(<<>>, v, j)
  <2>1. ASSUME NEW r \in R, r.id = <<j>> PROVE r = RowAt(<<>>, v, j)
    <3>1. PICK i \in 1..n : r = RowAt(<<>>, v, i) BY <1>12
    <3>2. <<i>> = <<j>> BY <1>11, <2>1, <3>1
    <3>3. i = j BY <3>2
    <3> QED BY <3>1, <3>3
  <2>2. RowAt(<<>>, v, j) \in R /\ RowAt(<<>>, v, j).id = <<j>> BY <1>10, <1>11
  <2> QED BY <2>1, <2>2
<1>14. \A k \in 1..n : \E r \in R : r.id = keys[k] BY <1>9, <1>10, <1>11
<1> DEFINE known == filter(keys, LAMBDA k : \E r \in R : r.id = k)
<1>15. DOMAIN known = 1..n /\ \A k \in 1..n : known[k] = keys[k]
  <2>1. known = At(keys, {i \in 1..n : \E r \in R : r.id = keys[i]}) BY <1>8 DEF filter
  <2>2. {i \in 1..n : \E r \in R : r.id = keys[i]} = 1..n BY <1>14
  <2> HIDE DEF known
  <2>3. known = At(keys, 1..n) BY <2>1, <2>2
  <2> QED BY <1>2, <1>8, <2>3, AllPicked
<1> HIDE DEF known
<1>16. mapGalleries(g) = [k \in DOMAIN known |-> galleryDto(g, CHOOSE r \in R : r.id = known[k])]
  BY DEF mapGalleries, Map, known, keys, c, R
<1>17. ASSUME NEW j \in 1..n PROVE galleryDto(g, RowAt(<<>>, v, j)) = GalleryAt(d, j)
  <2> DEFINE r == RowAt(<<>>, v, j)
  <2>1. r.id = <<j>> /\ r.val = v[j] BY <1>11, RowAtIs
  <2>2. IsId(lists[j])
    <3>1. d.GAL[j] \in GalleryDto /\ lists[j] = d.GAL[j].shots BY <1>2
    <3>2. lists[j] \in Seq(Texts) BY <3>1 DEF GalleryDto, TextList
    <3> QED BY <3>2 DEF IsId
  <2> HIDE DEF r
  <2>3. galleryDto(g, r) = [key |-> r.val.key, val |-> r.val.val, film |-> r.val.film, shots |-> lists[j]]
    BY <1>2, <1>4, <2>1, <2>2, GalleryIs
  <2>4. r.val.key = d.GAL[j].key /\ r.val.val = d.GAL[j].val /\ r.val.film = d.GAL[j].film /\ lists[j] = d.GAL[j].shots
    <3>1. r.val = [key |-> d.GAL[j].key, val |-> d.GAL[j].val, film |-> d.GAL[j].film] BY <1>5, <2>1
    <3>2. lists[j] = d.GAL[j].shots BY <1>2
    <3> QED BY <3>1, <3>2
  <2> QED BY <2>3, <2>4 DEF GalleryAt, r
<1>18. ASSUME NEW k \in 1..n PROVE mapGalleries(g)[k] = GalleryAt(d, pi[k])
  <2>1. known[k] = <<pi[k]>> /\ pi[k] \in 1..n BY <1>9, <1>15
  <2>2. mapGalleries(g)[k] = galleryDto(g, CHOOSE r \in R : r.id = known[k]) BY <1>15, <1>16
  <2>3. (CHOOSE r \in R : r.id = known[k]) = RowAt(<<>>, v, pi[k]) BY <1>13, <2>1
  <2> QED BY <1>17, <2>1, <2>2, <2>3
<1>19. DOMAIN mapGalleries(g) = 1..n BY <1>15, <1>16
<1>20. GalleriesShuffled(d, g, f, pi) BY <1>6, <1>18, <1>19 DEF GalleriesShuffled, c, K
<1> QED BY <1>20

(* The galleries with photos, picked out of what is read and of what was   *)
(* written, are the same ones in the same order.                           *)
LEMMA GalleriesInOrder ==
  ASSUME NEW d, NEW g, GalleriesRead(d, g), NEW f, NEW pi, GalleriesShuffled(d, g, f, pi),
         NEW n, n = Len(d.GAL), NEW I, I = {k \in 1..n : d.GAL[pi[k]].shots # <<>>},
         NEW j \in I, NEW k \in I, j < k
  PROVE  pi[j] < pi[k]
<1> DEFINE K == Cardinality(Each(ShotLists(d)))
           c == Map(g.shots, LAMBDA x : x.parent) \o Map(g.galleries, LAMBDA r : r.id)
           lists == ShotLists(d)
<1>1. Named(c, K + n, n, f, pi) BY DEF GalleriesShuffled
<1>2. /\ n \in Nat /\ K \in Nat /\ DOMAIN g.shots = 1..K
      /\ \A i \in 1..K : c[i] = g.shots[i].parent
  <2> DEFINE L == K
  <2>1. c = Map(g.shots, LAMBDA x : x.parent) \o Map(g.galleries, LAMBDA r : r.id) /\ L = Cardinality(Each(ShotLists(d))) OBVIOUS
  <2> HIDE DEF c, L
  <2>2. n \in Nat /\ L \in Nat /\ DOMAIN g.shots = 1..L BY <2>1, GalleriesNamed
  <2>3. HeadsAre(c, g.shots, L) BY <2>1, GalleriesNamed
  <2> QED BY <2>2, <2>3 DEF L, HeadsAre
<1>3. n \in Nat /\ DOMAIN lists = 1..n /\ (\A i \in 1..n : d.GAL[i] \in GalleryDto /\ lists[i] = d.GAL[i].shots)
  BY DEF GalleriesRead, ShotLists
<1>4. Reading("shots", Each(lists), g.shots) BY DEF GalleriesRead
<1> HIDE DEF c, lists
<1>5. K = Cardinality(Each(lists)) BY DEF lists
<1> HIDE DEF K
<1>6. Firsts(c, K + n, n, f) /\ Shuffles(pi, n) BY <1>1 DEF Named
<1>7. \A x \in 1..n : c[f[x]] = <<pi[x]>> BY <1>1 DEF Named
<1>8. j \in 1..n /\ k \in 1..n /\ I \subseteq 1..n OBVIOUS
<1>9. \A x \in 1..n : pi[x] \in 1..n
  <2>1. pi \in [1..n -> 1..n] BY <1>6 DEF Shuffles
  <2> QED BY <2>1
<1>10. ASSUME NEW x \in I PROVE f[x] \in 1..K
  <2>1. x \in 1..n /\ pi[x] \in 1..n /\ d.GAL[pi[x]].shots # <<>> BY <1>9
  <2>2. lists[pi[x]] # <<>> /\ lists[pi[x]] \in Seq(Texts)
    <3>1. d.GAL[pi[x]] \in GalleryDto /\ lists[pi[x]] = d.GAL[pi[x]].shots BY <1>3, <2>1
    <3> QED BY <2>1, <3>1 DEF GalleryDto, TextList
  <2>3. 1 \in DOMAIN lists[pi[x]] BY <2>2
  <2>4. RowAt(<<pi[x]>>, lists[pi[x]], 1) \in Each(lists) BY <1>3, <2>1, <2>3, RowOfEach
  <2>5. PICK i \in DOMAIN g.shots : g.shots[i] = RowAt(<<pi[x]>>, lists[pi[x]], 1) BY <1>4, <2>4, ReadingIs
  <2>6. c[i] = <<pi[x]>> /\ i \in 1..K BY <1>2, <2>5, RowAtIs
  <2>7. c[i] = c[f[x]] BY <1>7, <2>1, <2>6
  <2>8. i \in 1..(K + n) BY <1>2, <2>6
  <2>9. K + n \in Nat BY <1>2
  <2>10. f[x] \in 1..(K + n) /\ \A y \in 1..(K + n) : c[y] = c[f[x]] => f[x] <= y BY <1>6, <2>1, <2>9, FirstIs
  <2>11. f[x] <= i BY <2>7, <2>8, <2>10
  <2> QED BY <1>2, <2>6, <2>10, <2>11
<1>11. f[j] < f[k]
  <2>1. K + n \in Nat BY <1>2
  <2>2. j < k <=> f[j] < f[k] BY <1>6, <1>8, <2>1, FirstIs
  <2> QED BY <2>2
<1>12. g.shots[f[j]].parent = <<pi[j]>> /\ g.shots[f[k]].parent = <<pi[k]>> BY <1>2, <1>7, <1>8, <1>10
<1>13. f[j] \in DOMAIN g.shots /\ f[k] \in DOMAIN g.shots /\ pi[j] \in 1..n /\ pi[k] \in 1..n BY <1>2, <1>8, <1>9, <1>10
<1>14. "shots" \in ById BY DEF ById
<1>15. pi[j] <= pi[k]
  <2>1. n \in Nat /\ DOMAIN lists = 1..n BY <1>3
  <2> QED BY <1>4, <1>11, <1>12, <1>13, <1>14, <2>1, ParentsRise
<1>16. pi[j] # pi[k]
  <2>1. pi[j] = pi[k] => j = k BY <1>6, <1>8 DEF Shuffles
  <2>2. j # k BY <1>8
  <2> QED BY <2>1, <2>2
<1> QED BY <1>13, <1>15, <1>16

ShownAre(d, g) == Shown(mapGalleries(g)) = Shown(d.GAL)
AllAre(d, g) == Range(mapGalleries(g)) = Range(d.GAL) /\ Len(mapGalleries(g)) = Len(d.GAL)

LEMMA GalleriesKept == ASSUME NEW d, NEW g, GalleriesRead(d, g) PROVE ShownAre(d, g) /\ AllAre(d, g)
<1> DEFINE n == Len(d.GAL)
           p == mapGalleries(g)
           given == d.GAL
<1>1. PICK f, pi : GalleriesShuffled(d, g, f, pi) BY GalleriesAre
<1>2. n \in Nat /\ DOMAIN d.GAL = 1..n BY DEF GalleriesRead
<1>3. DOMAIN p = 1..n /\ \A k \in 1..n : p[k] = GalleryAt(d, pi[k]) BY <1>1 DEF GalleriesShuffled
<1>4. DOMAIN given = 1..n /\ \A k \in 1..n : given[k] = GalleryAt(d, k)
  <2> SUFFICES ASSUME NEW k \in 1..n PROVE d.GAL[k] = GalleryAt(d, k) BY <1>2
  <2> DEFINE x == d.GAL[k]
  <2>1. x \in GalleryDto BY <1>2 DEF GalleriesRead
  <2> HIDE DEF x
  <2>2. x = [key |-> x.key, val |-> x.val, film |-> x.film, shots |-> x.shots] BY <2>1 DEF GalleryDto
  <2> QED BY <2>2 DEF x, GalleryAt
<1>5. Shuffles(pi, n) BY <1>1 DEF GalleriesShuffled, Named
<1>6. \A k \in 1..n : pi[k] \in 1..n
  <2>1. pi \in [1..n -> 1..n] BY <1>5 DEF Shuffles
  <2> QED BY <2>1
<1>7. \A i \in 1..n : \E k \in 1..n : pi[k] = i BY <1>5 DEF Shuffles
<1>8. \A k \in 1..n : GalleryAt(d, k).shots = d.GAL[k].shots BY DEF GalleryAt
<1> DEFINE I == {k \in 1..n : d.GAL[pi[k]].shots # <<>>}
           J == {k \in 1..n : d.GAL[k].shots # <<>>}
<1> HIDE DEF p, given
<1>9. Shown(p) = At(p, I)
  <2>1. {k \in DOMAIN p : p[k].shots # <<>>} = I
    <3>1. \A k \in 1..n : p[k].shots = d.GAL[pi[k]].shots BY <1>3, <1>6, <1>8
    <3> QED BY <1>3, <3>1
  <2> QED BY <2>1 DEF Shown, filter
<1>10. Shown(given) = At(given, J)
  <2>1. {k \in DOMAIN given : given[k].shots # <<>>} = J BY <1>4, <1>8
  <2> QED BY <2>1 DEF Shown, filter
<1>11. Numbers(I)
  <2>1. I \subseteq 1..n /\ I \subseteq Nat OBVIOUS
  <2>2. IsFiniteSet(1..n) BY <1>2, FS_Interval
  <2> HIDE DEF I
  <2>3. IsFiniteSet(I) BY <2>1, <2>2, FS_Subset
  <2> QED BY <2>1, <2>3 DEF Numbers
<1>12. PICK m, a : Passes(a, m, I) BY <1>11, PlacesOf
<1> DEFINE b == [k \in 1..m |-> pi[a[k]]]
<1>13. m \in Nat /\ a \in [1..m -> I] /\ (\A j, k \in 1..m : j < k => a[j] < a[k]) /\ \A i \in I : \E k \in 1..m : a[k] = i
  <2> HIDE DEF I
  <2> QED BY <1>12 DEF Passes
<1>14. I = {k \in 1..n : d.GAL[pi[k]].shots # <<>>} OBVIOUS
<1>15. \A k \in 1..n : k \in I <=> pi[k] \in J BY <1>6
<1>16. I \subseteq 1..n /\ J \subseteq 1..n /\ J \subseteq Nat OBVIOUS
<1> HIDE DEF I, J
<1>17. ASSUME NEW j \in I, NEW k \in I, j < k PROVE pi[j] < pi[k] BY <1>1, <1>14, <1>17, GalleriesInOrder
<1>18. b \in [1..m -> J] BY <1>13, <1>15, <1>16
<1>19. \A j, k \in 1..m : j < k => b[j] < b[k] BY <1>13, <1>17
<1>20. \A i \in J : \E k \in 1..m : b[k] = i
  <2> SUFFICES ASSUME NEW i \in J PROVE \E k \in 1..m : b[k] = i OBVIOUS
  <2>1. PICK x \in 1..n : pi[x] = i BY <1>7, <1>16
  <2>2. x \in I BY <1>15, <2>1
  <2>3. PICK k \in 1..m : a[k] = x BY <1>13, <2>2
  <2> QED BY <2>1, <2>3
<1>21. Passes(b, m, J) BY <1>13, <1>16, <1>18, <1>19, <1>20 DEF Passes
<1>22. \A k \in 1..m : p[a[k]] = given[b[k]]
  <2> SUFFICES ASSUME NEW k \in 1..m PROVE p[a[k]] = given[b[k]] OBVIOUS
  <2>1. a[k] \in 1..n /\ b[k] = pi[a[k]] /\ b[k] \in 1..n BY <1>6, <1>13, <1>16
  <2> QED BY <1>3, <1>4, <2>1
<1> HIDE DEF b
<1>23. At(p, I) = At(given, J) BY <1>12, <1>21, <1>22, SameAt
<1>24. ShownAre(d, g) BY <1>9, <1>10, <1>23 DEF ShownAre, p, given
<1>25. Range(p) = Range(given)
  <2>1. \A k \in 1..n : pi[k] \in 1..n /\ p[k] = given[pi[k]] BY <1>3, <1>4, <1>6
  <2>2. Range(p) \subseteq Range(given) BY <1>3, <1>4, <2>1 DEF Range
  <2>3. \A i \in 1..n : given[i] \in Range(p)
    <3> SUFFICES ASSUME NEW i \in 1..n PROVE given[i] \in Range(p) OBVIOUS
    <3>1. PICK k \in 1..n : pi[k] = i BY <1>7
    <3>2. p[k] = given[i] /\ k \in DOMAIN p BY <1>3, <2>1, <3>1
    <3> QED BY <3>2 DEF Range
  <2>4. Range(given) \subseteq Range(p) BY <1>4, <2>3 DEF Range
  <2> QED BY <2>2, <2>4
<1>26. Len(p) = n
  <2>1. p = [k \in 1..n |-> p[k]]
    <3>1. p = [k \in DOMAIN p |-> p[k]] BY DEF p, mapGalleries, Map
    <3> QED BY <1>3, <3>1
  <2> QED BY <1>2, <1>3, <2>1
<1>27. AllAre(d, g) BY <1>25, <1>26 DEF AllAre, p, given
<1> QED BY <1>24, <1>27
=============================================================================
