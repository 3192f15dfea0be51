----------------------------- MODULE Bootstrap -----------------------------
(***************************************************************************)
(* How a release comes up: scripts/db-init.js, the pre-deploy command that *)
(* prepares the database, and main.ts, which validates its environment and *)
(* serves.  Every .sql file is one transaction (schema.sql and seed.sql    *)
(* say BEGIN and COMMIT, a migration is one multi-statement query), so     *)
(* the script may die between two files and never inside one.  One script  *)
(* runs at a time; the release it replaces serves meanwhile.               *)
(***************************************************************************)
EXTENDS Integers, Sequences

CONSTANTS Migrations,    \* how many files database/migrations holds
          MaxRuns,       \* runs of the script in a behaviour
          MaxBooked,     \* bookings a behaviour makes
          Variables      \* the settings of the process: [production, host, url, secrets, tls]

ASSUME BootstrapAssumption ==
    /\ Migrations \in Nat \ {0} /\ MaxRuns \in Nat /\ MaxBooked \in Nat
    /\ Variables \subseteq [production : BOOLEAN, host : BOOLEAN, url : BOOLEAN, secrets : BOOLEAN, tls : BOOLEAN]

VARIABLES dbase,    \* what each database holds
          script,   \* the run of db-init.js under way
          api,      \* the release that serves, with the database it uses
          wiped     \* was it confirmed, for each time bookings were deleted or passwords undone

bootVars == <<dbase, script, api, wiped>>

Databases == {"named", "byUrl", "local"}
Flags == {"none", "reseed", "reset"}

(* A database: whether schema.sql and seed.sql were applied, the migrations*)
(* applied since the content was loaded and the last of them, the bookings,*)
(* and the payments, a table only a migration creates, with its foreign    *)
(* key, and the staff's passwords.                                         *)
Blank == [tables |-> FALSE, content |-> FALSE, since |-> {}, last |-> 0,
          bookings |-> 0, payments |-> 0, hasPayments |-> FALSE, linked |-> FALSE,
          passwords |-> "none"]

NoScript == [at |-> "none", flag |-> "none", confirmed |-> FALSE, target |-> "local",
             todo |-> <<>>, runs |-> 0]
NoRelease == [up |-> FALSE, uses |-> "local", production |-> FALSE]

----------------------------------------------------------------------------
(* Settings: clientConfig of scripts/lib/db.js, the TypeORM options and    *)
(* loadEnv.  Only the script falls back on DATABASE_URL.                   *)

scriptTarget(v) == IF v.host THEN "named" ELSE IF v.url THEN "byUrl" ELSE "local"
apiTarget(v) == IF v.host THEN "named" ELSE "local"

loadEnv(v) == v.production => v.secrets /\ v.tls /\ v.host

----------------------------------------------------------------------------
(* The files.                                                              *)

(* DROP TABLE ... CASCADE, then CREATE TABLE.  The tables of the           *)
(* migrations are not in the list: they stay and lose their foreign keys.  *)
schemaSql(d) == [d EXCEPT !.tables = TRUE, !.content = FALSE, !.since = {}, !.last = 0,
                          !.bookings = 0, !.linked = FALSE, !.passwords = "none"]

(* TRUNCATE ... CASCADE, which follows foreign keys, then the content and  *)
(* the staff with the published starter passwords.                         *)
seedSql(d) == [d EXCEPT !.content = TRUE, !.since = {}, !.last = 0,
                        !.bookings = 0, !.payments = IF d.linked THEN 0 ELSE @,
                        !.passwords = "starter"]

(* The first migration stands for the one that says CREATE TABLE IF NOT    *)
(* EXISTS payments.                                                        *)
migration(d, n) ==
    [d EXCEPT !.since = @ \union {n}, !.last = n, !.hasPayments = TRUE,
              !.linked = @ \/ ~d.hasPayments]

applied(d, file) == CASE file.kind = "schema"    -> schemaSql(d)
                      [] file.kind = "seed"      -> seedSql(d)
                      [] file.kind = "migration" -> migration(d, file.n)

Schema == [kind |-> "schema", n |-> 0]
Seed == [kind |-> "seed", n |-> 0]
Migration(n) == [kind |-> "migration", n |-> n]

migrationsOnce(d) == IF d.hasPayments THEN <<>> ELSE [n \in 1 .. Migrations |-> Migration(n)]

(* Every run applies every migration, in the order of their names.         *)
migrations(d) == [n \in 1 .. Migrations |-> Migration(n)]

----------------------------------------------------------------------------
BootInit ==
    /\ dbase = [b \in Databases |-> Blank]
    /\ script = NoScript
    /\ api = NoRelease
    /\ wiped = {}

(* A deploy, or an operator with a shell, starts the script.  A flag       *)
(* without its confirmation exits 1 before anything is read.               *)
Start(v, flag, confirm) ==
    /\ script.at \in {"none", "failed", "ok"}
    /\ script.runs < MaxRuns
    /\ script' = [at |-> IF flag # "none" /\ ~confirm THEN "failed" ELSE "probing",
                  flag |-> flag, confirmed |-> confirm, target |-> scriptTarget(v),
                  todo |-> <<>>, runs |-> script.runs + 1]
    /\ UNCHANGED <<dbase, api, wiped>>

(* What the probe finds decides which files are applied first.             *)
plan(d, flag) ==
    CASE flag = "reset" \/ ~d.tables         -> <<Schema, Seed>>
      [] d.tables /\ flag = "reseed"         -> <<Seed>>
      [] d.tables /\ flag = "none"           -> IF d.content THEN <<>> ELSE <<Seed>>

refuses(d, flag) == flag = "none" /\ d.tables /\ ~d.content /\ d.bookings > 0

Probe ==
    LET d == dbase[script.target]
    IN  /\ script.at = "probing"
        /\ script' = IF refuses(d, script.flag) THEN [script EXCEPT !.at = "failed"]
                     ELSE [script EXCEPT !.at = "applying",
                              !.todo = plan(d, script.flag) \o migrations(d)]
        /\ UNCHANGED <<dbase, api, wiped>>

takesAway(d, after) == \/ after.bookings < d.bookings
                       \/ d.passwords = "own" /\ after.passwords # "own"

ApplyNext ==
    LET file == Head(script.todo)
        d == dbase[script.target]
        after == applied(d, file)
    IN  /\ script.at = "applying"
        /\ script.todo # <<>>
        /\ dbase' = [dbase EXCEPT ![script.target] = after]
        /\ script' = [script EXCEPT !.todo = Tail(@)]
        /\ wiped' = IF takesAway(d, after)
                    THEN wiped \union {script.flag # "none" /\ script.confirmed} ELSE wiped
        /\ UNCHANGED api

(* The counts at the end, and exit 0.                                      *)
Finish ==
    /\ script.at = "applying"
    /\ script.todo = <<>>
    /\ script' = [script EXCEPT !.at = "ok"]
    /\ UNCHANGED <<dbase, api, wiped>>

(* No connection after thirty attempts, a statement that fails, or the     *)
(* process killed: exit 1, the deploy stops here.                          *)
Fail ==
    /\ script.at \in {"probing", "applying"}
    /\ script' = [script EXCEPT !.at = "failed", !.todo = <<>>]
    /\ UNCHANGED <<dbase, api, wiped>>

(* The pre-deploy command succeeded: the release starts with the same      *)
(* variables, refuses an unsafe environment, and replaces the old one.     *)
Serve(v) ==
    /\ script.at = "ok"
    /\ scriptTarget(v) = script.target
    /\ loadEnv(v)
    /\ api' = [up |-> TRUE, uses |-> apiTarget(v), production |-> v.production]
    /\ script' = [script EXCEPT !.at = "none"]
    /\ UNCHANGED <<dbase, wiped>>

(* A guest books, and pays online, through the release that serves.  With  *)
(* the content gone the order cannot be priced.                            *)
Visit ==
    LET d == dbase[api.uses]
    IN  /\ api.up
        /\ d.tables /\ d.content /\ d.hasPayments
        /\ d.bookings < MaxBooked
        /\ dbase' = [dbase EXCEPT ![api.uses].bookings = @ + 1, ![api.uses].payments = @ + 1]
        /\ UNCHANGED <<script, api, wiped>>

(* scripts/staff-password.js: a login gets a password of its own.          *)
Rotate(v) ==
    /\ dbase[scriptTarget(v)].passwords # "none"
    /\ dbase' = [dbase EXCEPT ![scriptTarget(v)].passwords = "own"]
    /\ UNCHANGED <<script, api, wiped>>

BootNext ==
    \/ \E v \in Variables, flag \in Flags, confirm \in BOOLEAN : Start(v, flag, confirm)
    \/ Probe
    \/ ApplyNext
    \/ Finish
    \/ Fail
    \/ \E v \in Variables : Serve(v)
    \/ Visit
    \/ \E v \in Variables : Rotate(v)

BootTypeOK ==
    /\ \A b \in Databases :
          /\ dbase[b].since \subseteq 1 .. Migrations
          /\ dbase[b].last \in 0 .. Migrations
          /\ dbase[b].bookings \in 0 .. MaxBooked
          /\ dbase[b].passwords \in {"none", "starter", "own"}
    /\ script.at \in {"none", "probing", "applying", "ok", "failed"}
    /\ script.flag \in Flags /\ script.target \in Databases /\ script.runs \in 0 .. MaxRuns
    /\ api.uses \in Databases
    /\ wiped \subseteq BOOLEAN

----------------------------------------------------------------------------
(* A database is whole when it has its tables and its content, every       *)
(* migration was applied since the content was loaded, and the last one    *)
(* had the last word.                                                      *)
Whole(d) == d.tables /\ d.content /\ d.since = 1 .. Migrations /\ d.last = Migrations

(* Whatever run of the script died before it, and wherever, a run that     *)
(* succeeds leaves the database whole, and a release in production serves  *)
(* the very database its script prepared, until the next run begins.       *)
ReleaseWhole ==
    /\ script.at = "ok" => Whole(dbase[script.target])
    /\ script.at = "none" /\ api.up /\ api.production => Whole(dbase[api.uses])

(* Bookings are deleted, and rotated passwords undone, only by a run whose *)
(* operator said so; a payment outlives its booking only where the tables  *)
(* were dropped.                                                           *)
NothingLost ==
    /\ FALSE \notin wiped
    /\ \A b \in Databases : dbase[b].linked => dbase[b].payments <= dbase[b].bookings

(* Starting a release neither serves a half-built database nor costs a     *)
(* booking, whichever runs of scripts/db-init.js were interrupted.         *)
BootHolds == ReleaseWhole /\ NothingLost

BootSpec == BootInit /\ [][BootNext]_bootVars
=============================================================================
