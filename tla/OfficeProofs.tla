---------------------------- MODULE OfficeProofs ----------------------------
(***************************************************************************)
(* The back office beside the bookings, proved for any number of requests, *)
(* links, roles, applications, replicas, bookings and nights: sign-in ends *)
(* when the code says it does, posts find an address and keep it, nothing  *)
(* is erased too early, and the backups are what the office says they are. *)
(***************************************************************************)
EXTENDS MCOffice, FiniteSetTheorems, WellFoundedInduction, TLAPS

(* A set of numbers that is not empty has a least one.                     *)
LEMMA LeastOf ==
  ASSUME NEW S \in SUBSET Nat, S # {}
  PROVE  \E n \in S : \A m \in S : n <= m
<1> DEFINE below == {p \in Nat \X Nat : p[1] < p[2]}
<1>1. IsWellFoundedOn(below, Nat) BY NatLessThanWellFounded, Zenon DEF OpToRel
<1>2. \E n \in S : \A m \in S : ~ (<<m, n>> \in below)
  <2> HIDE DEF below
  <2> QED BY <1>1, WFMin
<1>3. \A m, n \in Nat : <<m, n>> \in below <=> m < n OBVIOUS
<1> HIDE DEF below
<1>4. PICK n \in S : \A m \in S : ~ (<<m, n>> \in below) BY <1>2
<1>5. ASSUME NEW m \in S PROVE n <= m
  <2>1. m \in Nat /\ n \in Nat OBVIOUS
  <2>2. ~ (m < n) BY <1>3, <1>4, <2>1, Zenon
  <2> QED BY <2>1, <2>2
<1> QED BY <1>5

-----------------------------------------------------------------------------
(* Staff accounts: the invariant, part by part.                            *)

Fields == {"active", "set", "tv", "on", "secret", "pending", "last", "recovery"}
Waits == {"idle", "issue", "spend", "off", "renew", "claim", "reset", "password", "others", "setup", "confirm", "save"}
Request == [op : {"none", "login", "reset", "disable", "renew"}, row : StaffUser, era : Nat,
            link : Links \cup {NoLink}, code : Code \cup {RecoveryCode}, known : BOOLEAN, active : BOOLEAN]

AccTyped ==
  /\ user \in StaffUser /\ link \in [Links -> {"none", "open", "used", "expired"}]
  /\ step \in 1..MaxStep /\ made \in 0..MaxSecrets /\ era \in Nat
  /\ tokens \subseteq Token /\ spent \subseteq Code /\ lost \in BOOLEAN
  /\ at \in [Requests -> Waits] /\ req \in [Requests -> Request] /\ uses \in [Links -> Nat]

(* The row's secrets were all made here; until some write is lost, a code  *)
(* spent is not one of the enrolment under way, and not later than the last*)
(* one noted.                                                              *)
RowSound ==
  /\ user.secret <= made /\ user.pending <= made
  /\ \A c \in spent : c.secret <= made
  /\ ~lost => /\ user.secret = 0 \/ user.secret # user.pending
              /\ \A c \in spent : c.secret # user.pending /\ (c.secret = user.secret => c.step <= user.last)

(* A token carries a version the row has had, and one of the present       *)
(* version was given in the present era.                                   *)
TokensSound == ~lost => \A t \in tokens : t.tv <= user.tv /\ (t.tv = user.tv => t.era = era)

(* A password has been set with a claimed link only.                       *)
LinksSound == \A l \in Links : uses[l] = 0 \/ (uses[l] = 1 /\ link[l] = "used")

Resetting(r) == at[r] \in {"reset", "password"}
ClaimsApart == \A r, s \in Requests : r # s /\ Resetting(r) /\ Resetting(s) => req[r].link # req[s].link

(* What a request in progress relies on: the link it claimed is its own    *)
(* and still unused; the code it checked was unspent and later than the    *)
(* last; the version it will put in a token belongs to the era it began in.*)
LinkHeld(r) ==
  /\ at[r] = "claim" \/ Resetting(r) => req[r].link \in Links
  /\ Resetting(r) => link[req[r].link] = "used" /\ uses[req[r].link] = 0
SecretsHeld(r) == req[r].row.secret <= made /\ req[r].row.pending <= made /\ req[r].code.secret <= made
CodeHeld(r) ==
  /\ at[r] = "confirm" => req[r].code \in Code /\ req[r].code.secret = req[r].row.pending
  /\ at[r] = "spend" /\ ~lost =>
       /\ ~req[r].known
       /\ req[r].code \in Code => req[r].code.secret # user.pending /\ req[r].code.step > req[r].row.last
SignInHeld(r) ==
  (at[r] = "issue" \/ (at[r] = "spend" /\ req[r].op = "login")) /\ ~lost =>
    req[r].row.tv <= user.tv /\ (req[r].row.tv = user.tv => req[r].era = era)
RequestSound(r) == LinkHeld(r) /\ SecretsHeld(r) /\ CodeHeld(r) /\ SignInHeld(r)

AccInv == AccTyped /\ RowSound /\ TokensSound /\ LinksSound /\ ClaimsApart /\ \A r \in Requests : RequestSound(r)

-----------------------------------------------------------------------------
(* Staff accounts: facts about the operators.                              *)

LEMMA BlankIsRow == Blank \in StaffUser
BY AccountsAssumption DEF Blank, StaffUser

(* Columns of a row are a row: those named as they are, the others blank.  *)
LEMMA ColumnsOf ==
  ASSUME NEW row \in StaffUser, NEW fields
  PROVE  /\ Columns(row, fields) \in StaffUser
         /\ \A f \in Fields : Columns(row, fields)[f] = IF f \in fields THEN row[f] ELSE Blank[f]
<1> DEFINE c == Columns(row, fields)
<1>1. DOMAIN row = Fields BY DEF StaffUser, Fields
<1>2. c = [f \in Fields |-> IF f \in fields THEN row[f] ELSE Blank[f]] BY <1>1 DEF Columns
<1>3. \A f \in Fields : c[f] = IF f \in fields THEN row[f] ELSE Blank[f] BY <1>2
<1>4. c = [active |-> c.active, set |-> c.set, tv |-> c.tv, on |-> c.on, secret |-> c.secret,
           pending |-> c.pending, last |-> c.last, recovery |-> c.recovery]
  BY <1>2 DEF Fields
<1> HIDE DEF c
<1>5. c.active \in BOOLEAN /\ c.set \in BOOLEAN /\ c.on \in BOOLEAN /\ c.recovery \in BOOLEAN
  BY <1>3, BlankIsRow DEF Fields, StaffUser
<1>6. c.tv \in Nat /\ c.secret \in 0..MaxSecrets /\ c.pending \in 0..MaxSecrets
  BY <1>3, BlankIsRow DEF Fields, StaffUser
<1>7. c.last \in 0..(MaxStep + Window) BY <1>3, BlankIsRow DEF Fields, StaffUser
<1>8. c \in StaffUser BY <1>4, <1>5, <1>6, <1>7 DEF StaffUser
<1> QED BY <1>3, <1>8 DEF c

(* All columns of a row are the row.                                       *)
LEMMA AllColumns ==
  ASSUME NEW row \in StaffUser
  PROVE  Columns(row, DOMAIN row) = row
BY DEF Columns, StaffUser

LEMMA CodesAreCodes ==
  /\ RecoveryCode \notin Code /\ RecoveryCode.secret = 0
  /\ \A c \in Code : c.secret \in 1..MaxSecrets /\ c.step \in 1..(MaxStep + Window)
BY AccountsAssumption DEF Code, RecoveryCode

LEMMA NoRequestIsRequest == NoRequest \in Request
BY BlankIsRow DEF NoRequest, Request


-----------------------------------------------------------------------------
(* Staff accounts: a request other than the one that moves.                *)

LEMMA OtherSound ==
  ASSUME AccInv, AccTyped', NEW s \in Requests, at'[s] = at[s], req'[s] = req[s],
         \A l \in Links : link[l] = "used" => link'[l] = "used",
         Resetting(s) => uses'[req[s].link] = uses[req[s].link],
         lost => lost', made' >= made,
         ~lost' => user'.pending \in {user.pending, 0, made + 1},
         ~lost' => (user'.tv = user.tv /\ era' = era) \/ user'.tv > user.tv
  PROVE  RequestSound(s)'
<1>0. RequestSound(s) BY DEF AccInv
<1>1. req[s] \in Request /\ user \in StaffUser /\ user' \in StaffUser /\ made \in Nat /\ made' \in Nat
  BY AccountsAssumption DEF AccInv, AccTyped
<1>2. req[s].row \in StaffUser /\ req[s].code \in Code \cup {RecoveryCode} BY <1>1 DEF Request
<1>3. LinkHeld(s)' BY <1>0 DEF RequestSound, LinkHeld, Resetting
<1>4. SecretsHeld(s)'
  <2>1. req[s].row.secret \in Nat /\ req[s].row.pending \in Nat /\ req[s].code.secret \in Nat
    BY <1>2, CodesAreCodes, AccountsAssumption DEF StaffUser
  <2> QED BY <1>0, <1>1, <2>1 DEF RequestSound, SecretsHeld
<1>5. CodeHeld(s)'
  <2>1. req[s].code \in Code => req[s].code.secret \in Nat /\ req[s].code.secret # 0 BY CodesAreCodes, AccountsAssumption
  <2>2. req[s].code.secret <= made BY <1>0 DEF RequestSound, SecretsHeld
  <2> QED BY <1>0, <1>1, <2>1, <2>2 DEF RequestSound, CodeHeld
<1>6. SignInHeld(s)'
  <2>1. req[s].row.tv \in Nat /\ user.tv \in Nat /\ user'.tv \in Nat BY <1>1, <1>2 DEF StaffUser
  <2> QED BY <1>0, <2>1 DEF RequestSound, SignInHeld
<1> QED BY <1>3, <1>4, <1>5, <1>6 DEF RequestSound

(* A step of request r that moves the rest the way every step does keeps   *)
(* the invariant if it keeps r's part and the row's.                       *)
LEMMA TurnSound ==
  ASSUME AccInv, AccTyped', RowSound', TokensSound', LinksSound', NEW r \in Requests, RequestSound(r)',
         \A s \in Requests \ {r} : at'[s] = at[s] /\ req'[s] = req[s],
         Resetting(r)' => \/ Resetting(r) /\ req'[r].link = req[r].link
                          \/ \A s \in Requests \ {r} : Resetting(s) => req[s].link # req'[r].link,
         \A l \in Links : link[l] = "used" => link'[l] = "used",
         \A s \in Requests \ {r} : Resetting(s) => uses'[req[s].link] = uses[req[s].link],
         lost => lost', made' >= made,
         ~lost' => user'.pending \in {user.pending, 0, made + 1},
         ~lost' => (user'.tv = user.tv /\ era' = era) \/ user'.tv > user.tv
  PROVE  AccInv'
<1>1. \A s \in Requests : RequestSound(s)'
  <2> SUFFICES ASSUME NEW s \in Requests, s # r PROVE RequestSound(s)' OBVIOUS
  <2>1. at'[s] = at[s] /\ req'[s] = req[s] /\ (Resetting(s) => uses'[req[s].link] = uses[req[s].link]) OBVIOUS
  <2> QED BY <2>1, OtherSound
<1>2. \A s \in Requests \ {r} : Resetting(s)' = Resetting(s) /\ req'[s] = req[s] BY DEF Resetting
<1>3. ClaimsApart' BY <1>2 DEF AccInv, ClaimsApart
<1> QED BY <1>1, <1>3 DEF AccInv

(* A request begins: nothing else moves.                                   *)
LEMMA BeginSound ==
  ASSUME AccInv, NEW r \in Requests, NEW where \in Waits \ {"reset", "password"}, NEW q \in Request,
         Begin(r, where, q), UNCHANGED <<user, tokens, spent, lost, others>>,
         where = "claim" => q.link \in Links,
         q.row.secret <= made, q.row.pending <= made, q.code.secret <= made,
         where = "confirm" => q.code \in Code /\ q.code.secret = q.row.pending,
         where = "spend" /\ ~lost =>
           ~q.known /\ (q.code \in Code => q.code.secret # user.pending /\ q.code.step > q.row.last),
         (where = "issue" \/ (where = "spend" /\ q.op = "login")) /\ ~lost => q.row.tv = user.tv /\ q.era = era
  PROVE  AccInv'
<1>1. at' = [at EXCEPT ![r] = where] /\ req' = [req EXCEPT ![r] = q] BY DEF Begin
<1>2. UNCHANGED <<user, tokens, spent, lost>> /\ UNCHANGED <<link, step, made, era, uses>> BY DEF others
<1>3. AccTyped' BY <1>1, <1>2 DEF AccInv, AccTyped
<1>4. at'[r] = where /\ req'[r] = q /\ \A s \in Requests \ {r} : at'[s] = at[s] /\ req'[s] = req[s]
  BY <1>1 DEF AccInv, AccTyped
<1>5. RowSound' /\ TokensSound' /\ LinksSound' BY <1>2 DEF AccInv, RowSound, TokensSound, LinksSound
<1>6. q.row.tv \in Nat /\ user.tv \in Nat /\ made \in Nat
  BY AccountsAssumption DEF Request, StaffUser, AccInv, AccTyped
<1>7. RequestSound(r)'
  BY <1>2, <1>4, <1>6 DEF RequestSound, LinkHeld, SecretsHeld, CodeHeld, SignInHeld, Resetting
<1>8. ~Resetting(r)' BY <1>4 DEF Resetting
<1>9. made' >= made /\ user'.pending = user.pending /\ user'.tv = user.tv /\ era' = era BY <1>2, <1>6
<1> QED BY <1>2, <1>3, <1>4, <1>5, <1>7, <1>8, <1>9, TurnSound

(* The same, of a request that keeps columns of the row.                   *)
LEMMA StartSound ==
  ASSUME AccInv, NEW r \in Requests, NEW where \in Waits \ {"claim", "reset", "password"}, NEW fields,
         NEW q \in Request, Start(r, where, fields, q), UNCHANGED <<user, tokens, spent, lost, others>>,
         q.code.secret <= made,
         where = "confirm" => q.code \in Code /\ "pending" \in fields /\ q.code.secret = user.pending,
         where = "spend" /\ ~lost =>
           /\ ~q.known /\ "last" \in fields
           /\ q.code \in Code => q.code.secret # user.pending /\ q.code.step > user.last,
         (where = "issue" \/ (where = "spend" /\ q.op = "login")) /\ ~lost => "tv" \in fields /\ q.era = era
  PROVE  AccInv'
<1> DEFINE p == [q EXCEPT !.row = Columns(user, fields)]
<1>1. user \in StaffUser /\ made \in Nat BY AccountsAssumption DEF AccInv, AccTyped
<1>2. Columns(user, fields) \in StaffUser BY <1>1, ColumnsOf
<1>3. p \in Request BY <1>2 DEF Request
<1>4. p.row = Columns(user, fields) /\ p.code = q.code /\ p.known = q.known /\ p.op = q.op /\ p.era = q.era
  BY DEF Request
<1>5. Begin(r, where, p) BY DEF Start
<1> HIDE DEF p
<1>6. /\ p.row.secret \in {user.secret, 0} /\ p.row.pending \in {user.pending, 0}
      /\ "pending" \in fields => p.row.pending = user.pending
      /\ "last" \in fields => p.row.last = user.last
      /\ "tv" \in fields => p.row.tv = user.tv
  <2>1. \A f \in Fields : p.row[f] = IF f \in fields THEN user[f] ELSE Blank[f] BY <1>1, <1>4, ColumnsOf
  <2>2. Blank.secret = 0 /\ Blank.pending = 0 BY DEF Blank
  <2> QED BY <2>1, <2>2 DEF Fields
<1>7. user.secret <= made /\ user.pending <= made BY DEF AccInv, RowSound
<1>8. p.row.secret <= made /\ p.row.pending <= made BY <1>1, <1>6, <1>7
<1> QED BY <1>3, <1>4, <1>5, <1>6, <1>8, BeginSound

(* A request ends and the link table, perhaps, moves on.                   *)
LEMMA DoneSound ==
  ASSUME AccInv, NEW r \in Requests, Done(r), AccTyped', RowSound', TokensSound', LinksSound',
         \A l \in Links : link[l] = "used" => link'[l] = "used",
         uses' = uses, lost => lost', made' >= made,
         ~lost' => user'.pending \in {user.pending, 0, made + 1},
         ~lost' => (user'.tv = user.tv /\ era' = era) \/ user'.tv > user.tv
  PROVE  AccInv'
<1>1. at'[r] = "idle" /\ req'[r] = NoRequest /\ \A s \in Requests \ {r} : at'[s] = at[s] /\ req'[s] = req[s]
  BY DEF Done, AccInv, AccTyped
<1>2. RequestSound(r)'
  <2>1. req[r]'.row = Blank /\ req[r]'.code = RecoveryCode BY <1>1 DEF NoRequest
  <2>2. made' \in Nat /\ Blank.secret = 0 /\ Blank.pending = 0 BY AccountsAssumption DEF AccTyped, Blank
  <2>3. SecretsHeld(r)' BY <2>1, <2>2, CodesAreCodes DEF SecretsHeld
  <2> QED BY <1>1, <2>3 DEF RequestSound, LinkHeld, CodeHeld, SignInHeld, Resetting
<1>3. ~Resetting(r)' BY <1>1 DEF Resetting
<1> QED BY <1>1, <1>2, <1>3, TurnSound

LEMMA DoneTyped ==
  ASSUME AccInv, NEW r \in Requests, Done(r)
  PROVE  at' \in [Requests -> Waits] /\ req' \in [Requests -> Request]
BY NoRequestIsRequest DEF Done, AccInv, AccTyped, Waits

-----------------------------------------------------------------------------
(* Staff accounts: one lemma per action, or per few of a kind.             *)

(* A token of the present version, given in the present era.               *)
LEMMA GiveSound ==
  ASSUME AccInv, NEW kind \in {"session", "2fa"}, NEW tv \in Nat, NEW e \in Nat, Give(kind, tv, e),
         UNCHANGED <<user, era, lost>>, ~lost => tv <= user.tv /\ (tv = user.tv => e = era)
  PROVE  tokens' \subseteq Token /\ TokensSound'
BY DEF Give, AccInv, AccTyped, Token, TokensSound

LEMMA LoginKept ==
  ASSUME AccInv, NEW r \in Requests, Login(r)
  PROVE  AccInv'
<1>1. user \in StaffUser /\ user.tv \in Nat /\ era \in Nat /\ made \in Nat
  BY AccountsAssumption DEF AccInv, AccTyped, StaffUser
<1>2. UNCHANGED <<user, spent, lost, link, step, made, era, uses>> BY DEF Login, others
<1>3. CASE user.on
  <2>1. UNCHANGED <<at, req>> /\ Give("2fa", user.tv, era) BY <1>3 DEF Login
  <2>2. tokens' \subseteq Token /\ TokensSound' BY <1>1, <1>2, <2>1, GiveSound
  <2>3. AccTyped' /\ RowSound' /\ LinksSound' BY <1>2, <2>1, <2>2 DEF AccInv, AccTyped, RowSound, LinksSound
  <2>4. made' >= made /\ user'.pending = user.pending /\ user'.tv = user.tv /\ era' = era BY <1>1, <1>2
  <2>5. RequestSound(r)' BY <1>2, <2>1, <2>3, <2>4, OtherSound
  <2>6. Resetting(r)' = Resetting(r) BY <2>1 DEF Resetting
  <2> QED BY <1>2, <2>1, <2>2, <2>3, <2>4, <2>5, <2>6, TurnSound
<1>4. CASE ~user.on
  <2> DEFINE q == [NoRequest EXCEPT !.op = "login", !.era = era]
  <2>1. q \in Request /\ q.era = era /\ q.code = RecoveryCode
    BY <1>1, NoRequestIsRequest DEF Request, NoRequest
  <2>2. Start(r, "issue", {"tv"}, q) /\ UNCHANGED <<user, tokens, spent, lost, others>> BY <1>4 DEF Login
  <2> HIDE DEF q
  <2>3. q.code.secret <= made BY <1>1, <2>1, CodesAreCodes
  <2> QED BY <2>1, <2>2, <2>3, StartSound DEF Waits
<1> QED BY <1>3, <1>4

(* A code is checked: none that has been spent passes, unless a write was  *)
(* lost before.                                                            *)
LEMMA WithCodeSound ==
  ASSUME AccInv, NEW r \in Requests, NEW q \in Request, WithCode(r, q),
         UNCHANGED <<user, tokens, spent, lost, others>>, q.op = "login" /\ ~lost => q.era = era
  PROVE  AccInv'
<1> DEFINE p(c) == [q EXCEPT !.code = c, !.known = c \in spent]
<1>1. PICK c \in Code \cup {RecoveryCode} :
        Accepts(user, c) /\ Start(r, "spend", {"tv", "last", "recovery", "secret"}, p(c))
  BY DEF WithCode
<1>2. p(c) \in Request /\ p(c).code = c /\ p(c).known = (c \in spent) /\ p(c).op = q.op /\ p(c).era = q.era
  <2>1. \A k \in BOOLEAN : [q EXCEPT !.code = c, !.known = k] \in Request BY DEF Request
  <2>2. (c \in spent) \in BOOLEAN BY SMT
  <2>3. p(c) \in Request BY <2>1, <2>2, Zenon
  <2>4. p(c).known = (c \in spent) BY DEF Request
  <2> QED BY <2>3, <2>4 DEF Request
<1> HIDE DEF p
<1>3. user \in StaffUser /\ made \in Nat /\ spent \subseteq Code BY AccountsAssumption DEF AccInv, AccTyped
<1>4. c \in Code => c.secret = user.secret /\ c.step > user.last /\ c.secret # 0
  BY <1>1, CodesAreCodes DEF Accepts
<1>5. c.secret <= made
  <2>1. CASE c \in Code BY <1>4, <2>1 DEF AccInv, RowSound
  <2>2. CASE c = RecoveryCode BY <1>3, <2>2, CodesAreCodes
  <2> QED BY <2>1, <2>2
<1>6. ~lost => c \notin spent
  <2> SUFFICES ASSUME ~lost, c \in spent PROVE FALSE OBVIOUS
  <2>1. c \in Code BY <1>3
  <2>2. c.step <= user.last BY <1>4, <2>1 DEF AccInv, RowSound
  <2>3. c.step \in Int /\ user.last \in Int BY <1>3, <2>1, CodesAreCodes, AccountsAssumption DEF StaffUser
  <2> QED BY <1>4, <2>1, <2>2, <2>3
<1>7. ~lost /\ c \in Code => c.secret # user.pending BY <1>4 DEF AccInv, RowSound
<1> QED BY <1>1, <1>2, <1>4, <1>5, <1>6, <1>7, StartSound DEF Waits

LEMMA TwoFactorKept ==
  ASSUME AccInv, NEW r \in Requests, CompleteTwoFactor(r)
  PROVE  AccInv'
<1>1. PICK t \in tokens : t.tv = user.tv /\ WithCode(r, [NoRequest EXCEPT !.op = "login", !.era = t.era])
  BY DEF CompleteTwoFactor
<1> DEFINE q == [NoRequest EXCEPT !.op = "login", !.era = t.era]
<1>2. t.era \in Nat BY DEF AccInv, AccTyped, Token
<1>3. q \in Request /\ q.era = t.era BY <1>2, NoRequestIsRequest DEF Request
<1>4. WithCode(r, q) /\ UNCHANGED <<user, tokens, spent, lost, others>> BY <1>1 DEF CompleteTwoFactor
<1>5. ~lost => t.era = era BY <1>1 DEF AccInv, TokensSound
<1> HIDE DEF q
<1> QED BY <1>3, <1>4, <1>5, WithCodeSound

LEMMA DisableOrRenewKept ==
  ASSUME AccInv, NEW r \in Requests, disableOrRenew(r)
  PROVE  AccInv'
<1>1. PICK op \in {"disable", "renew"} : WithCode(r, [NoRequest EXCEPT !.op = op]) BY DEF disableOrRenew
<1> DEFINE q == [NoRequest EXCEPT !.op = op]
<1>2. q \in Request /\ q.op # "login" BY NoRequestIsRequest DEF Request
<1>3. WithCode(r, q) /\ UNCHANGED <<user, tokens, spent, lost, others>> BY <1>1 DEF disableOrRenew
<1> HIDE DEF q
<1> QED BY <1>2, <1>3, WithCodeSound

(* The other requests that begin.                                          *)
LEMMA BeginsKept ==
  ASSUME AccInv, NEW r \in Requests, resetPassword(r) \/ beginSetup(r) \/ confirmSetup(r) \/ updateAccount(r)
  PROVE  AccInv'
<1>1. UNCHANGED <<user, tokens, spent, lost, others>> BY DEF resetPassword, beginSetup, confirmSetup, updateAccount
<1>2. user \in StaffUser /\ made \in Nat BY AccountsAssumption DEF AccInv, AccTyped
<1>3. NoRequest \in Request /\ NoRequest.code.secret <= made /\ NoRequest.row.secret <= made
      /\ NoRequest.row.pending <= made
  BY <1>2, NoRequestIsRequest, CodesAreCodes DEF NoRequest, Blank
<1>4. CASE resetPassword(r)
  <2>1. PICK l \in Links : Begin(r, "claim", [NoRequest EXCEPT !.op = "reset", !.link = l])
    BY <1>4 DEF resetPassword
  <2> DEFINE q == [NoRequest EXCEPT !.op = "reset", !.link = l]
  <2>2. q \in Request /\ q.link = l /\ q.code = NoRequest.code /\ q.row = NoRequest.row
    BY <1>3 DEF Request
  <2>3. Begin(r, "claim", q) BY <2>1
  <2> HIDE DEF q
  <2> QED BY <1>1, <1>3, <2>2, <2>3, BeginSound DEF Waits
<1>5. CASE beginSetup(r) BY <1>1, <1>3, <1>5, StartSound DEF beginSetup, Waits
<1>6. CASE confirmSetup(r)
  <2>1. PICK s \in 1..(MaxStep + Window) :
          Start(r, "confirm", {"pending"}, [NoRequest EXCEPT !.code = [secret |-> user.pending, step |-> s]])
    BY <1>6 DEF confirmSetup
  <2> DEFINE c == [secret |-> user.pending, step |-> s]
             q == [NoRequest EXCEPT !.code = c]
  <2>2. user.pending \in 1..MaxSecrets BY <1>2, <1>6, AccountsAssumption DEF confirmSetup, StaffUser
  <2>3. c \in Code /\ c.secret = user.pending BY <2>2 DEF Code
  <2>4. user.pending <= made BY DEF AccInv, RowSound
  <2>5. Start(r, "confirm", {"pending"}, q) BY <2>1
  <2> HIDE DEF c
  <2>6. q \in Request /\ q.code = c BY <1>3, <2>3 DEF Request
  <2> HIDE DEF q
  <2> QED BY <1>1, <2>3, <2>4, <2>5, <2>6, StartSound DEF Waits
<1>7. CASE updateAccount(r)
  <2>1. PICK a \in BOOLEAN : Start(r, "save", DOMAIN user, [NoRequest EXCEPT !.active = a])
    BY <1>7 DEF updateAccount
  <2> DEFINE q == [NoRequest EXCEPT !.active = a]
  <2>2. q \in Request /\ q.code = NoRequest.code BY <1>3 DEF Request
  <2>3. Start(r, "save", DOMAIN user, q) BY <2>1
  <2> HIDE DEF q
  <2> QED BY <1>1, <1>3, <2>2, <2>3, StartSound DEF Waits
<1> QED BY <1>4, <1>5, <1>6, <1>7

(* A code is noted: until a write is lost it is later than every code of   *)
(* its secret noted before, and not of the enrolment under way.            *)
LEMMA SpendKept ==
  ASSUME AccInv, NEW r \in Requests, Spend(r)
  PROVE  AccInv'
<1> DEFINE c == req[r].code
           row == req[r].row
           kept == Columns(row, IF req[r].op = "login" THEN {"tv"} ELSE {"secret"})
<1>0. req[r] \in Request /\ row \in StaffUser /\ c \in Code \cup {RecoveryCode} /\ user \in StaffUser
      /\ made \in Nat /\ RequestSound(r) /\ at[r] = "spend"
  BY AccountsAssumption DEF AccInv, AccTyped, Request, Spend
<1>1. UNCHANGED <<tokens, link, step, made, era, uses>> BY DEF Spend, others
<1>2. lost' = (lost \/ user.last # row.last \/ user.recovery # row.recovery) BY DEF Spend
<1>3. kept \in StaffUser /\ kept.secret \in {row.secret, 0} /\ kept.pending = 0
      /\ (req[r].op = "login" => kept.tv = row.tv)
  <2>1. \A f \in Fields : kept[f] = IF f \in (IF req[r].op = "login" THEN {"tv"} ELSE {"secret"})
                                    THEN row[f] ELSE Blank[f]
    BY <1>0, ColumnsOf
  <2>2. Blank.secret = 0 /\ Blank.pending = 0 BY DEF Blank
  <2>3. kept \in StaffUser BY <1>0, ColumnsOf
  <2> QED BY <2>1, <2>2, <2>3 DEF Fields
<1> DEFINE q == [req[r] EXCEPT !.code = RecoveryCode, !.known = FALSE, !.row = kept]
<1>4. q \in Request /\ q.code = RecoveryCode /\ q.row = kept /\ q.era = req[r].era BY <1>0, <1>3 DEF Request
<1>5. req' = [req EXCEPT ![r] = q] BY DEF Spend
<1>6. PICK w \in {"issue", "off", "renew"} : at' = [at EXCEPT ![r] = w] /\ (w = "issue" => req[r].op = "login")
  BY DEF Spend
<1> HIDE DEF q, kept
<1>7. at'[r] = w /\ req'[r] = q /\ \A s \in Requests \ {r} : at'[s] = at[s] /\ req'[s] = req[s]
  BY <1>5, <1>6 DEF AccInv, AccTyped
<1>8. user' \in StaffUser /\ user'.secret = user.secret /\ user'.pending = user.pending /\ user'.tv = user.tv
      /\ user'.last = IF c = RecoveryCode THEN user.last ELSE c.step
  <2>1. CASE c = RecoveryCode
    <3>1. user' = [user EXCEPT !.recovery = FALSE] BY <2>1 DEF Spend
    <3> QED BY <1>0, <2>1, <3>1 DEF StaffUser
  <2>2. CASE c # RecoveryCode
    <3>1. user' = [user EXCEPT !.last = c.step] BY <2>2 DEF Spend
    <3>2. c.step \in 0..(MaxStep + Window) BY <1>0, <2>2, CodesAreCodes, AccountsAssumption
    <3> QED BY <1>0, <2>2, <3>1, <3>2 DEF StaffUser
  <2> QED BY <2>1, <2>2
<1>9. spent' = spent \cup ({c} \ {RecoveryCode}) BY DEF Spend
<1>10. AccTyped'
  <2>1. at' \in [Requests -> Waits] /\ req' \in [Requests -> Request]
    BY <1>4, <1>5, <1>6 DEF AccInv, AccTyped, Waits
  <2>2. lost' \in BOOLEAN BY <1>2
  <2>3. spent' \subseteq Code BY <1>0, <1>9 DEF AccInv, AccTyped
  <2> QED BY <1>1, <1>8, <2>1, <2>2, <2>3 DEF AccInv, AccTyped
<1>11. RowSound'
  <2>1. c.secret <= made BY <1>0 DEF RequestSound, SecretsHeld
  <2>2. (user.secret <= made /\ user.pending <= made)' /\ \A d \in spent' : d.secret <= made'
    BY <1>1, <1>8, <1>9, <2>1 DEF AccInv, RowSound
  <2>3. ASSUME ~lost'
        PROVE  /\ user'.secret = 0 \/ user'.secret # user'.pending
               /\ \A d \in spent' : d.secret # user'.pending /\ (d.secret = user'.secret => d.step <= user'.last)
    <3>1. ~lost /\ user.last = row.last BY <1>2, <2>3
    <3>2. /\ user.secret = 0 \/ user.secret # user.pending
          /\ \A d \in spent : d.secret # user.pending /\ (d.secret = user.secret => d.step <= user.last)
      BY <3>1 DEF AccInv, RowSound
    <3>3. c \in Code => c.secret # user.pending /\ c.step > user.last
      BY <1>0, <3>1 DEF RequestSound, CodeHeld
    <3>4. \A d \in spent \cup {c} : d # RecoveryCode => d.step \in Int
      BY <1>0, CodesAreCodes, AccountsAssumption DEF AccInv, AccTyped
    <3>5. user.last \in Int BY <1>0, AccountsAssumption DEF StaffUser
    <3>6. ASSUME NEW d \in spent'
          PROVE  d.secret # user.pending /\ (d.secret = user.secret => d.step <= user'.last)
      <4>1. d \in Code BY <1>10, <3>6 DEF AccTyped
      <4>2. CASE d = c BY <1>0, <1>8, <3>3, <3>4, <4>1, <4>2, CodesAreCodes
      <4>3. CASE d \in spent
        <5>1. d.secret # user.pending /\ (d.secret = user.secret => d.step <= user.last) BY <3>2, <4>3
        <5>2. user.last <= user'.last BY <1>0, <1>8, <3>3, <3>4, <3>5
        <5>3. user'.last \in Int BY <1>8, AccountsAssumption DEF StaffUser
        <5>4. d.step \in Int BY <3>4, <4>1, <4>3, CodesAreCodes
        <5> QED BY <3>5, <5>1, <5>2, <5>3, <5>4
      <4> QED BY <1>9, <3>6, <4>2, <4>3
    <3> QED BY <1>8, <3>2, <3>6
  <2> QED BY <2>2, <2>3 DEF RowSound
<1>12. TokensSound' /\ LinksSound' BY <1>1, <1>2, <1>8 DEF AccInv, TokensSound, LinksSound
<1>13. RequestSound(r)'
  <2>1. kept.secret <= made /\ kept.pending <= made BY <1>0, <1>3 DEF RequestSound, SecretsHeld
  <2>2. SecretsHeld(r)' BY <1>0, <1>1, <1>4, <1>7, <2>1, CodesAreCodes DEF SecretsHeld
  <2>3. SignInHeld(r)' BY <1>0, <1>1, <1>2, <1>3, <1>4, <1>6, <1>7, <1>8 DEF RequestSound, SignInHeld
  <2>4. LinkHeld(r)' /\ CodeHeld(r)' BY <1>6, <1>7 DEF LinkHeld, CodeHeld, Resetting
  <2> QED BY <2>2, <2>3, <2>4 DEF RequestSound
<1>14. ~Resetting(r)' BY <1>6, <1>7 DEF Resetting
<1>15. made' >= made /\ era' = era BY <1>0, <1>1
<1>16. lost => lost' BY <1>2
<1> QED BY <1>1, <1>7, <1>8, <1>10, <1>11, <1>12, <1>13, <1>14, <1>15, <1>16, TurnSound

LEMMA IssueKept ==
  ASSUME AccInv, NEW r \in Requests, issueSession(r)
  PROVE  AccInv'
<1>1. req[r] \in Request /\ req[r].row \in StaffUser /\ user \in StaffUser /\ made \in Nat /\ RequestSound(r)
  BY AccountsAssumption DEF AccInv, AccTyped, Request
<1>2. UNCHANGED <<user, spent, lost, link, step, made, era, uses>> /\ Done(r) BY DEF issueSession, others
<1>3. ~lost => req[r].row.tv <= user.tv /\ (req[r].row.tv = user.tv => req[r].era = era)
  BY <1>1 DEF issueSession, RequestSound, SignInHeld
<1>4. req[r].row.tv \in Nat /\ req[r].era \in Nat BY <1>1 DEF Request, StaffUser
<1>5. Give("session", req[r].row.tv, req[r].era) BY DEF issueSession
<1>6. tokens' \subseteq Token /\ TokensSound' BY <1>2, <1>3, <1>4, <1>5, GiveSound
<1>7. AccTyped' /\ RowSound' /\ LinksSound'
  BY <1>2, <1>6, DoneTyped DEF AccInv, AccTyped, RowSound, LinksSound
<1>8. made' >= made /\ user'.pending = user.pending /\ user'.tv = user.tv /\ era' = era BY <1>1, <1>2
<1> QED BY <1>2, <1>6, <1>7, <1>8, DoneSound

(* A link is asked for or expires, or time passes.                         *)
LEMMA AroundAccountsKept ==
  ASSUME AccInv, (\E l \in Links : requestReset(l) \/ LinkExpires(l)) \/ NextStep \/ UNCHANGED accVars
  PROVE  AccInv'
<1>1. UNCHANGED <<user, made, era, uses, tokens, at, req, spent, lost>>
  BY DEF requestReset, LinkExpires, NextStep, accVars
<1>2. link' \in [Links -> {"none", "open", "used", "expired"}] /\ \A l \in Links : link[l] = "used" => link'[l] = "used"
  BY DEF requestReset, LinkExpires, NextStep, accVars, AccInv, AccTyped
<1>3. step' \in 1..MaxStep
  BY AccountsAssumption DEF requestReset, LinkExpires, NextStep, accVars, AccInv, AccTyped
<1>4. AccTyped' BY <1>1, <1>2, <1>3 DEF AccInv, AccTyped
<1>5. RowSound' /\ TokensSound' BY <1>1 DEF AccInv, RowSound, TokensSound
<1>6. LinksSound' BY <1>1, <1>2 DEF AccInv, LinksSound
<1>7. made \in Nat /\ made' >= made BY <1>1, AccountsAssumption DEF AccInv, AccTyped
<1>8. \A s \in Requests : RequestSound(s)' BY <1>1, <1>2, <1>4, <1>7, OtherSound
<1>9. ClaimsApart' BY <1>1 DEF AccInv, ClaimsApart, Resetting
<1> QED BY <1>4, <1>5, <1>6, <1>8, <1>9 DEF AccInv

(* Of the requests that hold one link the first to claim it passes.        *)
LEMMA ClaimKept ==
  ASSUME AccInv, NEW r \in Requests, Claim(r)
  PROVE  AccInv'
<1> DEFINE l == req[r].link
<1>0. RequestSound(r) /\ l \in Links /\ link \in [Links -> {"none", "open", "used", "expired"}] /\ made \in Nat
      /\ at[r] = "claim"
  BY AccountsAssumption DEF AccInv, AccTyped, RequestSound, LinkHeld, Claim
<1>1. UNCHANGED <<user, step, made, era, uses, tokens, spent, lost>> BY DEF Claim
<1>2. made' >= made /\ user'.pending = user.pending /\ user'.tv = user.tv /\ era' = era BY <1>0, <1>1
<1>3. RowSound' /\ TokensSound' BY <1>1 DEF AccInv, RowSound, TokensSound
<1>4. CASE link[l] = "used"
  <2>1. Done(r) /\ UNCHANGED link BY <1>4 DEF Claim
  <2>2. AccTyped' /\ LinksSound' BY <1>1, <2>1, DoneTyped DEF AccInv, AccTyped, LinksSound
  <2> QED BY <1>1, <1>2, <1>3, <2>1, <2>2, DoneSound
<1>5. CASE link[l] # "used"
  <2>1. link' = [link EXCEPT ![l] = "used"] /\ Move(r, "reset") BY <1>5 DEF Claim
  <2>2. at'[r] = "reset" /\ req' = req /\ \A s \in Requests \ {r} : at'[s] = at[s]
    BY <2>1 DEF Move, AccInv, AccTyped
  <2>3. AccTyped' BY <1>0, <1>1, <2>1 DEF AccInv, AccTyped, Move, Waits
  <2>4. uses[l] = 0 BY <1>0, <1>5 DEF AccInv, LinksSound
  <2>5. LinksSound' BY <1>0, <1>1, <2>1, <2>4 DEF AccInv, LinksSound
  <2>6. RequestSound(r)'
    <3>1. LinkHeld(r)' BY <1>0, <1>1, <2>1, <2>2, <2>4 DEF LinkHeld
    <3>2. SecretsHeld(r)' BY <1>0, <1>1, <2>2 DEF RequestSound, SecretsHeld
    <3>3. CodeHeld(r)' /\ SignInHeld(r)' BY <2>2 DEF CodeHeld, SignInHeld
    <3> QED BY <3>1, <3>2, <3>3 DEF RequestSound
  <2>7. \A s \in Requests \ {r} : Resetting(s) => req[s].link # l
    BY <1>5 DEF AccInv, RequestSound, LinkHeld
  <2>8. \A k \in Links : link[k] = "used" => link'[k] = "used" BY <1>0, <2>1
  <2> QED BY <1>1, <1>2, <1>3, <2>2, <2>3, <2>5, <2>6, <2>7, <2>8, TurnSound
<1> QED BY <1>4, <1>5

LEMMA ReadForResetKept ==
  ASSUME AccInv, NEW r \in Requests, ReadForReset(r)
  PROVE  AccInv'
<1>0. req[r] \in Request /\ user \in StaffUser /\ made \in Nat /\ RequestSound(r) /\ at[r] = "reset"
  BY AccountsAssumption DEF AccInv, AccTyped, ReadForReset
<1>1. UNCHANGED <<user, tokens, spent, lost, link, step, made, era, uses>> BY DEF ReadForReset, others
<1>2. made' >= made /\ user'.pending = user.pending /\ user'.tv = user.tv /\ era' = era BY <1>0, <1>1
<1>3. RowSound' /\ TokensSound' /\ LinksSound' BY <1>1 DEF AccInv, RowSound, TokensSound, LinksSound
<1>4. CASE user.active
  <2> DEFINE row == Columns(user, {"active", "set", "tv"})
             q == [req[r] EXCEPT !.row = row]
  <2>1. row \in StaffUser BY <1>0, ColumnsOf
  <2>2. row.secret = 0 /\ row.pending = 0
    <3>1. \A f \in Fields : row[f] = IF f \in {"active", "set", "tv"} THEN user[f] ELSE Blank[f]
      BY <1>0, ColumnsOf
    <3>2. Blank.secret = 0 /\ Blank.pending = 0 BY DEF Blank
    <3> HIDE DEF row
    <3> QED BY <3>1, <3>2 DEF Fields
  <2>3. at' = [at EXCEPT ![r] = "password"] /\ req' = [req EXCEPT ![r] = q] BY <1>4 DEF ReadForReset
  <2> HIDE DEF row
  <2>4. q \in Request /\ q.link = req[r].link /\ q.row = row /\ q.code = req[r].code BY <1>0, <2>1 DEF Request
  <2> HIDE DEF q
  <2>5. at'[r] = "password" /\ req'[r] = q /\ \A s \in Requests \ {r} : at'[s] = at[s] /\ req'[s] = req[s]
    BY <2>3 DEF AccInv, AccTyped
  <2>6. AccTyped' BY <1>1, <2>3, <2>4 DEF AccInv, AccTyped, Waits
  <2>7. Resetting(r) BY <1>0 DEF Resetting
  <2>8. LinkHeld(r)' BY <1>0, <1>1, <2>4, <2>5, <2>7 DEF RequestSound, LinkHeld
  <2>9. SecretsHeld(r)' BY <1>0, <1>1, <2>2, <2>4, <2>5 DEF RequestSound, SecretsHeld
  <2>10. CodeHeld(r)' /\ SignInHeld(r)' BY <2>5 DEF CodeHeld, SignInHeld
  <2>11. RequestSound(r)' BY <2>8, <2>9, <2>10 DEF RequestSound
  <2> QED BY <1>1, <1>2, <1>3, <2>4, <2>5, <2>6, <2>7, <2>11, TurnSound
<1>5. CASE ~user.active
  <2>1. Done(r) BY <1>5 DEF ReadForReset
  <2>2. AccTyped' BY <1>1, <2>1, DoneTyped DEF AccInv, AccTyped
  <2> QED BY <1>1, <1>2, <1>3, <2>1, <2>2, DoneSound
<1> QED BY <1>4, <1>5

(* The password is set: the claimed link is used up, and unless a write is *)
(* lost every token handed out before is of an older version.              *)
LEMMA SetPasswordKept ==
  ASSUME AccInv, NEW r \in Requests, SetPassword(r)
  PROVE  AccInv'
<1> DEFINE row == req[r].row
           l == req[r].link
<1>0. req[r] \in Request /\ row \in StaffUser /\ user \in StaffUser /\ made \in Nat /\ era \in Nat
      /\ RequestSound(r) /\ at[r] = "password"
  BY AccountsAssumption DEF AccInv, AccTyped, Request, SetPassword
<1>1. UNCHANGED <<link, step, made, tokens, spent>> /\ era' = era + 1 BY DEF SetPassword
<1>2. user' = [user EXCEPT !.set = TRUE, !.tv = row.tv + 1] BY DEF SetPassword
<1>3. user' \in StaffUser /\ user'.secret = user.secret /\ user'.pending = user.pending
      /\ user'.last = user.last /\ user'.tv = row.tv + 1
  <2>1. row.tv + 1 \in Nat BY <1>0 DEF StaffUser
  <2> QED BY <1>0, <1>2, <2>1 DEF StaffUser
<1>4. lost' = (lost \/ Sign(user) # Sign(row)) BY DEF SetPassword
<1>5. ~lost' => ~lost /\ user.tv = row.tv BY <1>4 DEF Sign
<1>6. uses' = [uses EXCEPT ![l] = @ + 1] BY DEF SetPassword
<1>7. l \in Links /\ link[l] = "used" /\ uses[l] = 0 BY <1>0 DEF RequestSound, LinkHeld, Resetting
<1>8. at' = [at EXCEPT ![r] = "others"] /\ req' = req BY DEF SetPassword, Move
<1>9. at'[r] = "others" /\ \A s \in Requests \ {r} : at'[s] = at[s] BY <1>8 DEF AccInv, AccTyped
<1>10. AccTyped'
  <2>1. lost' \in BOOLEAN BY <1>4
  <2>2. uses' \in [Links -> Nat]
    <3>1. uses \in [Links -> Nat] BY DEF AccInv, AccTyped
    <3> QED BY <1>6, <1>7, <3>1
  <2>3. at' \in [Requests -> Waits] BY <1>8 DEF AccInv, AccTyped, Waits
  <2> QED BY <1>0, <1>1, <1>3, <1>8, <2>1, <2>2, <2>3 DEF AccInv, AccTyped
<1>11. RowSound' BY <1>1, <1>3, <1>5 DEF AccInv, RowSound
<1>12. TokensSound'
  <2> SUFFICES ASSUME ~lost', NEW t \in tokens PROVE t.tv <= user'.tv /\ (t.tv = user'.tv => t.era = era')
    BY <1>1 DEF TokensSound
  <2>1. t.tv <= user.tv BY <1>5 DEF AccInv, TokensSound
  <2>2. t.tv \in Nat /\ user.tv \in Nat BY <1>0 DEF AccInv, AccTyped, Token, StaffUser
  <2> QED BY <1>3, <1>5, <2>1, <2>2
<1>13. LinksSound' BY <1>1, <1>6, <1>7 DEF AccInv, AccTyped, LinksSound
<1>14. RequestSound(r)'
  <2>1. SecretsHeld(r)' BY <1>0, <1>1, <1>8 DEF RequestSound, SecretsHeld
  <2> QED BY <1>9, <2>1 DEF RequestSound, LinkHeld, CodeHeld, SignInHeld, Resetting
<1>15. ~Resetting(r)' BY <1>9 DEF Resetting
<1>16. \A s \in Requests \ {r} : Resetting(s) => uses'[req[s].link] = uses[req[s].link]
  <2> SUFFICES ASSUME NEW s \in Requests \ {r}, Resetting(s) PROVE uses'[req[s].link] = uses[req[s].link] OBVIOUS
  <2>1. Resetting(r) BY <1>0 DEF Resetting
  <2>2. req[s].link # l BY <2>1 DEF AccInv, ClaimsApart
  <2>3. req[s].link \in Links BY DEF AccInv, RequestSound, LinkHeld
  <2> QED BY <1>6, <2>2, <2>3 DEF AccInv, AccTyped
<1>17. ~lost' => user'.tv > user.tv
  <2>1. user.tv \in Nat BY <1>0 DEF StaffUser
  <2> QED BY <1>3, <1>5, <2>1
<1>18. made' >= made BY <1>0, <1>1
<1>19. lost => lost' BY <1>4
<1> QED BY <1>1, <1>3, <1>8, <1>9, <1>10, <1>11, <1>12, <1>13, <1>14, <1>15, <1>16, <1>17, <1>18, <1>19, TurnSound

LEMMA OtherLinksKept ==
  ASSUME AccInv, NEW r \in Requests, OtherLinksDie(r)
  PROVE  AccInv'
<1>1. UNCHANGED <<user, step, made, era, uses, tokens, spent, lost>> /\ Done(r) BY DEF OtherLinksDie
<1>2. link' = [l \in Links |-> IF link[l] \in {"open", "expired"} THEN "used" ELSE link[l]] BY DEF OtherLinksDie
<1>3. link' \in [Links -> {"none", "open", "used", "expired"}] /\ \A l \in Links : link[l] = "used" => link'[l] = "used"
  BY <1>2 DEF AccInv, AccTyped
<1>4. AccTyped' BY <1>1, <1>3, DoneTyped DEF AccInv, AccTyped
<1>5. RowSound' /\ TokensSound' BY <1>1 DEF AccInv, RowSound, TokensSound
<1>6. LinksSound' BY <1>1, <1>3 DEF AccInv, LinksSound
<1>7. made \in Nat BY AccountsAssumption DEF AccInv, AccTyped
<1>8. made' >= made /\ user'.pending = user.pending /\ user'.tv = user.tv /\ era' = era BY <1>1, <1>7
<1> QED BY <1>1, <1>3, <1>4, <1>5, <1>6, <1>8, DoneSound

(* An edit of the second factor: the version stays, and what the row holds *)
(* of secrets is new, none, or was held before.                            *)
LEMMA FactorSound ==
  ASSUME AccInv, NEW r \in Requests, Done(r), UNCHANGED <<tokens, link, step, era, uses>>,
         user' \in StaffUser, user'.tv = user.tv, made' \in made..MaxSecrets, spent' \subseteq Code,
         lost' \in BOOLEAN, lost => lost', RowSound', ~lost' => user'.pending \in {user.pending, 0, made + 1}
  PROVE  AccInv'
<1>1. made \in Nat /\ MaxSecrets \in Nat BY AccountsAssumption DEF AccInv, AccTyped
<1>2. AccTyped' BY <1>1, DoneTyped DEF AccInv, AccTyped
<1>3. TokensSound' /\ LinksSound' BY DEF AccInv, TokensSound, LinksSound
<1>4. made' >= made BY <1>1
<1> QED BY <1>2, <1>3, <1>4, DoneSound

LEMMA SavePendingKept ==
  ASSUME AccInv, NEW r \in Requests, SavePending(r)
  PROVE  AccInv'
<1>0. user \in StaffUser /\ made \in Nat /\ MaxSecrets \in Nat BY AccountsAssumption DEF AccInv, AccTyped
<1>1. UNCHANGED <<link, step, era, uses, tokens, spent, lost>> /\ Done(r) BY DEF SavePending
<1>2. made' = made + 1 /\ made < MaxSecrets /\ user' = [user EXCEPT !.pending = made + 1] BY DEF SavePending
<1>3. user' \in StaffUser /\ user'.tv = user.tv /\ user'.secret = user.secret /\ user'.pending = made + 1
      /\ user'.last = user.last
  BY <1>0, <1>2 DEF StaffUser
<1>4. user.secret <= made /\ user.secret \in Nat BY <1>0 DEF AccInv, RowSound, StaffUser
<1>5. \A c \in spent : c.secret <= made /\ c.secret \in Nat
  BY CodesAreCodes, AccountsAssumption DEF AccInv, RowSound, AccTyped
<1>6. RowSound'
  <2>1. user'.secret <= made' /\ user'.pending <= made' /\ \A c \in spent' : c.secret <= made'
    BY <1>0, <1>1, <1>2, <1>3, <1>4, <1>5
  <2>2. user'.secret # user'.pending /\ \A c \in spent' : c.secret # user'.pending
    BY <1>0, <1>1, <1>3, <1>4, <1>5
  <2>3. ~lost' => \A c \in spent' : c.secret = user'.secret => c.step <= user'.last
    BY <1>1, <1>3 DEF AccInv, RowSound
  <2> QED BY <2>1, <2>2, <2>3 DEF RowSound
<1>7. made' \in made..MaxSecrets BY <1>0, <1>2
<1>8. spent' \subseteq Code /\ lost' \in BOOLEAN BY <1>1 DEF AccInv, AccTyped
<1> QED BY <1>1, <1>3, <1>6, <1>7, <1>8, FactorSound

(* The enrolment is confirmed: the code that confirms it is the first of   *)
(* its secret, unless another confirmation came in between.                *)
LEMMA EnableKept ==
  ASSUME AccInv, NEW r \in Requests, Enable(r)
  PROVE  AccInv'
<1> DEFINE c == req[r].code
           p == req[r].row.pending
<1>0. req[r] \in Request /\ req[r].row \in StaffUser /\ user \in StaffUser /\ made \in Nat /\ RequestSound(r)
  BY AccountsAssumption DEF AccInv, AccTyped, Request
<1>1. UNCHANGED <<tokens, link, step, made, era, uses>> /\ Done(r) BY DEF Enable, others
<1>2. c \in Code /\ c.secret = p /\ p <= made BY <1>0 DEF Enable, RequestSound, CodeHeld, SecretsHeld
<1>3. c.secret \in 1..MaxSecrets /\ c.step \in 0..(MaxStep + Window)
  BY <1>2, CodesAreCodes, AccountsAssumption
<1>4. user' = [user EXCEPT !.secret = p, !.pending = 0, !.on = TRUE, !.last = c.step, !.recovery = TRUE]
  BY DEF Enable
<1>5. user' \in StaffUser /\ user'.tv = user.tv /\ user'.secret = p /\ user'.pending = 0 /\ user'.last = c.step
  <2>1. user' \in StaffUser
    <3>1. p \in 0..MaxSecrets BY <1>0 DEF StaffUser
    <3>2. 0 \in 0..MaxSecrets BY AccountsAssumption
    <3> HIDE DEF p
    <3> QED BY <1>0, <1>3, <1>4, <3>1, <3>2 DEF StaffUser
  <2> QED BY <1>0, <1>4, <2>1 DEF StaffUser
<1>6. spent' = spent \cup {c} /\ lost' = (lost \/ user.on \/ user.pending # p) BY DEF Enable
<1>7. spent' \subseteq Code /\ lost' \in BOOLEAN /\ (lost => lost')
  <2>1. lost' \in BOOLEAN /\ (lost => lost') BY <1>6
  <2>2. spent' \subseteq Code BY <1>2, <1>6 DEF AccInv, AccTyped
  <2> QED BY <2>1, <2>2
<1>8. RowSound'
  <2>1. user'.secret <= made' /\ user'.pending <= made' BY <1>0, <1>1, <1>2, <1>5
  <2>2. \A d \in spent' : d.secret <= made' BY <1>1, <1>2, <1>6 DEF AccInv, RowSound
  <2>3. ASSUME ~lost'
        PROVE  /\ user'.secret # user'.pending
               /\ \A d \in spent' : d.secret # user'.pending /\ (d.secret = user'.secret => d.step <= user'.last)
    <3>1. ~lost /\ user.pending = p BY <1>6, <2>3
    <3>2. \A d \in spent : d.secret # p BY <3>1 DEF AccInv, RowSound
    <3>3. \A d \in spent' : d.secret # 0 BY <1>7, CodesAreCodes, AccountsAssumption
    <3>4. \A d \in spent' : d.secret = p => d = c BY <1>6, <3>2
    <3>5. c.step <= c.step BY <1>3, AccountsAssumption
    <3> QED BY <1>2, <1>3, <1>5, <3>3, <3>4, <3>5
  <2> QED BY <2>1, <2>2, <2>3 DEF RowSound
<1>9. made' \in made..MaxSecrets BY <1>1, AccountsAssumption DEF AccInv, AccTyped
<1> QED BY <1>1, <1>5, <1>7, <1>8, <1>9, FactorSound

LEMMA DisableKept ==
  ASSUME AccInv, NEW r \in Requests, Disable(r)
  PROVE  AccInv'
<1>0. user \in StaffUser /\ made \in Nat BY AccountsAssumption DEF AccInv, AccTyped
<1>1. UNCHANGED <<tokens, spent, link, step, made, era, uses>> /\ Done(r) BY DEF Disable, others
<1>2. user' = [user EXCEPT !.on = FALSE, !.secret = 0, !.pending = 0, !.last = 0, !.recovery = FALSE]
  BY DEF Disable
<1>3. user' \in StaffUser /\ user'.tv = user.tv /\ user'.secret = 0 /\ user'.pending = 0
  <2>1. 0 \in 0..MaxSecrets /\ 0 \in 0..(MaxStep + Window) BY AccountsAssumption
  <2>2. user' \in StaffUser BY <1>0, <1>2, <2>1 DEF StaffUser
  <2> QED BY <1>0, <1>2, <2>2 DEF StaffUser
<1>4. lost' \in BOOLEAN /\ (lost => lost')
  <2>1. lost' = (lost \/ user.secret # req[r].row.secret) BY DEF Disable
  <2> QED BY <2>1
<1>5. spent' \subseteq Code /\ \A c \in spent' : c.secret # 0
  BY <1>1, CodesAreCodes, AccountsAssumption DEF AccInv, AccTyped
<1>6. RowSound'
  <2>1. \A c \in spent' : c.secret <= made' BY <1>1 DEF AccInv, RowSound
  <2>2. user'.secret <= made' /\ user'.pending <= made' BY <1>0, <1>1, <1>3
  <2> QED BY <1>3, <1>5, <2>1, <2>2 DEF RowSound
<1>7. made' \in made..MaxSecrets BY <1>1, AccountsAssumption DEF AccInv, AccTyped
<1> QED BY <1>1, <1>3, <1>4, <1>5, <1>6, <1>7, FactorSound

LEMMA RenewRecoveryKept ==
  ASSUME AccInv, NEW r \in Requests, RenewRecovery(r)
  PROVE  AccInv'
<1>0. user \in StaffUser BY DEF AccInv, AccTyped
<1>1. UNCHANGED <<tokens, spent, lost, link, step, made, era, uses>> /\ Done(r) BY DEF RenewRecovery, others
<1>2. user' = [user EXCEPT !.recovery = TRUE] BY DEF RenewRecovery
<1>3. user' \in StaffUser /\ user'.tv = user.tv /\ user'.secret = user.secret /\ user'.pending = user.pending
      /\ user'.last = user.last
  BY <1>0, <1>2 DEF StaffUser
<1>4. RowSound' BY <1>1, <1>3 DEF AccInv, RowSound
<1>5. made' \in made..MaxSecrets /\ spent' \subseteq Code /\ lost' \in BOOLEAN
  BY <1>1, AccountsAssumption DEF AccInv, AccTyped
<1> QED BY <1>1, <1>3, <1>4, <1>5, FactorSound

(* The manager's whole row: unless it overwrites something it is the row   *)
(* as it stands, with the next version when the account ends.              *)
LEMMA SaveAccountKept ==
  ASSUME AccInv, NEW r \in Requests, SaveAccount(r)
  PROVE  AccInv'
<1> DEFINE row == req[r].row
           ends == row.active /\ ~req[r].active
<1>0. req[r] \in Request /\ row \in StaffUser /\ user \in StaffUser /\ made \in Nat /\ era \in Nat
      /\ RequestSound(r)
  BY AccountsAssumption DEF AccInv, AccTyped, Request
<1>1. UNCHANGED <<link, step, made, uses, tokens, spent>> /\ Done(r) BY DEF SaveAccount
<1>2. user' = [row EXCEPT !.active = req[r].active, !.tv = IF ends THEN @ + 1 ELSE @]
      /\ era' = (IF ends THEN era + 1 ELSE era) /\ lost' = (lost \/ user # row)
  BY DEF SaveAccount
<1>3. user' \in StaffUser /\ user'.secret = row.secret /\ user'.pending = row.pending /\ user'.last = row.last
      /\ user'.tv = IF ends THEN row.tv + 1 ELSE row.tv
  <2>1. req[r].active \in BOOLEAN /\ row.tv \in Nat BY <1>0 DEF Request, StaffUser
  <2>2. PICK v \in Nat : v = IF ends THEN row.tv + 1 ELSE row.tv BY <2>1
  <2>3. user' = [row EXCEPT !.active = req[r].active, !.tv = v] BY <1>2, <2>2
  <2> QED BY <1>0, <2>1, <2>2, <2>3 DEF StaffUser
<1>4. era' \in Nat BY <1>0, <1>2
<1>5. lost' \in BOOLEAN /\ (lost => lost') /\ (~lost' => ~lost /\ user = row) BY <1>2
<1>6. row.secret <= made /\ row.pending <= made BY <1>0 DEF RequestSound, SecretsHeld
<1>7. AccTyped' BY <1>1, <1>3, <1>4, <1>5, DoneTyped DEF AccInv, AccTyped
<1>8. RowSound'
  <2>1. user'.secret <= made' /\ user'.pending <= made' BY <1>1, <1>3, <1>6
  <2> QED BY <1>1, <1>3, <1>5, <2>1 DEF AccInv, RowSound
<1>9. ~lost' => (user'.tv = user.tv /\ era' = era) \/ (user'.tv > user.tv /\ era' # era)
  <2>1. user.tv \in Nat BY <1>0 DEF StaffUser
  <2>2. CASE ends BY <1>0, <1>2, <1>3, <1>5, <2>1, <2>2
  <2>3. CASE ~ends BY <1>0, <1>2, <1>3, <1>5, <2>1, <2>3
  <2> QED BY <2>2, <2>3
<1>10. TokensSound'
  <2> SUFFICES ASSUME ~lost', NEW t \in tokens PROVE t.tv <= user'.tv /\ (t.tv = user'.tv => t.era = era')
    BY <1>1 DEF TokensSound
  <2>1. t.tv <= user.tv /\ (t.tv = user.tv => t.era = era) BY <1>5 DEF AccInv, TokensSound
  <2>2. t.tv \in Nat /\ user.tv \in Nat /\ user'.tv \in Nat BY <1>0, <1>3 DEF AccInv, AccTyped, Token, StaffUser
  <2> QED BY <1>9, <2>1, <2>2
<1>11. LinksSound' BY <1>1 DEF AccInv, LinksSound
<1>12. ~lost' => user'.pending = user.pending BY <1>3, <1>5
<1>13. made' >= made BY <1>0, <1>1
<1> QED BY <1>1, <1>5, <1>7, <1>8, <1>9, <1>10, <1>11, <1>12, <1>13, DoneSound

-----------------------------------------------------------------------------
(* Staff accounts: the theorems.                                           *)

LEMMA AccInitially == AccInit => AccInv
<1> SUFFICES ASSUME AccInit PROVE AccInv OBVIOUS
<1>1. AccTyped
  <2>1. user \in StaffUser BY BlankIsRow DEF AccInit, StaffUser
  <2>2. link \in [Links -> {"none", "open", "used", "expired"}] BY DEF AccInit
  <2>3. req \in [Requests -> Request] BY NoRequestIsRequest DEF AccInit
  <2>4. at \in [Requests -> Waits] /\ uses \in [Links -> Nat] BY DEF AccInit, Waits
  <2>5. step \in 1..MaxStep /\ made \in 0..MaxSecrets BY AccountsAssumption DEF AccInit
  <2>6. era \in Nat /\ tokens \subseteq Token /\ spent \subseteq Code /\ lost \in BOOLEAN BY DEF AccInit
  <2> QED BY <2>1, <2>2, <2>3, <2>4, <2>5, <2>6 DEF AccTyped
<1>2. user.secret = 0 /\ user.pending = 0 BY DEF AccInit, Blank
<1>3. RowSound /\ TokensSound /\ LinksSound BY <1>2 DEF AccInit, RowSound, TokensSound, LinksSound
<1>4. \A r \in Requests : at[r] = "idle" /\ req[r] = NoRequest BY DEF AccInit
<1>5. ClaimsApart BY <1>4 DEF ClaimsApart, Resetting
<1>6. ASSUME NEW r \in Requests PROVE RequestSound(r)
  <2>1. req[r].row = Blank /\ req[r].code = RecoveryCode BY <1>4 DEF NoRequest
  <2>2. SecretsHeld(r) BY <2>1, CodesAreCodes DEF SecretsHeld, Blank, AccInit
  <2> QED BY <1>4, <2>2 DEF RequestSound, LinkHeld, CodeHeld, SignInHeld, Resetting
<1> QED BY <1>1, <1>3, <1>5, <1>6 DEF AccInv

LEMMA AccStep == AccInv /\ [AccNext]_accVars => AccInv'
<1> SUFFICES ASSUME AccInv, [AccNext]_accVars PROVE AccInv' OBVIOUS
<1>1. ASSUME NEW r \in Requests, Login(r) \/ CompleteTwoFactor(r) \/ Spend(r) \/ issueSession(r)
                                 \/ resetPassword(r) \/ Claim(r) \/ ReadForReset(r)
      PROVE  AccInv'
  BY <1>1, LoginKept, TwoFactorKept, SpendKept, IssueKept, BeginsKept, ClaimKept, ReadForResetKept
<1>2. ASSUME NEW r \in Requests, SetPassword(r) \/ OtherLinksDie(r) \/ beginSetup(r) \/ SavePending(r)
                                 \/ confirmSetup(r) \/ Enable(r)
      PROVE  AccInv'
  BY <1>2, SetPasswordKept, OtherLinksKept, BeginsKept, SavePendingKept, EnableKept
<1>3. ASSUME NEW r \in Requests, disableOrRenew(r) \/ Disable(r) \/ RenewRecovery(r)
                                 \/ updateAccount(r) \/ SaveAccount(r)
      PROVE  AccInv'
  BY <1>3, DisableOrRenewKept, DisableKept, RenewRecoveryKept, BeginsKept, SaveAccountKept
<1> QED BY <1>1, <1>2, <1>3, AroundAccountsKept DEF AccNext

LEMMA AccInvImplies == AccInv => AccTypeOK /\ SignInEnds
<1> SUFFICES ASSUME AccInv PROVE AccTypeOK /\ SignInEnds OBVIOUS
<1>1. AccTypeOK BY DEF AccInv, AccTyped, AccTypeOK, Waits, Request
<1>2. LinkOnce BY DEF AccInv, LinksSound, LinkOnce
<1>3. CodeOnce BY DEF AccInv, RequestSound, CodeHeld, CodeOnce
<1>4. SessionsEnd BY DEF AccInv, TokensSound, SessionsEnd, Accepted
<1> QED BY <1>1, <1>2, <1>3, <1>4 DEF SignInEnds, SingleUse

(* A link sets one password and a code lets in once, by however many       *)
(* requests; a session that opens the office began after the last password *)
(* change and the last deactivation, while no request wrote over another's *)
(* change (staff-auth.service resetPassword, consumeSecondFactor,          *)
(* issueSession; staff-accounts.service update).                           *)
THEOREM AccountsSafe == AccSpec => []SignInEnds
<1>1. AccInv => SignInEnds BY AccInvImplies
<1> QED BY <1>1, AccInitially, AccStep, PTL DEF AccSpec

-----------------------------------------------------------------------------
(* Careers: the invariant, part by part.                                   *)

Stages == {"idle", "slug", "insert", "save", "delete", "apply", "triage"}
Task == [vacancy : Vacancies \cup {NoVacancy}, application : Applications \cup {NoApplication},
         slug : Slugs \cup {0}, attempt : 0..MaxAttempts, beaten : 0..MaxAttempts,
         status : {"none", "draft", "published", "closed", "reviewing", "hired"}]

HireTyped ==
  /\ vacancy \in [Vacancies -> VacancyRow] /\ application \in [Applications -> ApplicationRow]
  /\ stage \in [Desk -> Stages] /\ task \in [Desk -> Task]
  /\ refused \in BOOLEAN /\ vanished \subseteq Applications

Known(v) == v \in Vacancies /\ vacancy[v].status # "none"

(* No two posted roles share an address; applications are for roles known. *)
AddressesApart == \A v, w \in Vacancies : v # w /\ Posted(v) /\ Posted(w) => vacancy[v].slug # vacancy[w].slug
ApplicationsKnown == \A a \in Applications : application[a].status # "none" => Known(application[a].vacancy)

Posting(d) == stage[d] \in {"slug", "insert"}

(* A post has its role to itself, and was beaten at every attempt but the  *)
(* last; also at this one, if the address it found has been taken since.   *)
PostSound(d) ==
  Posting(d) =>
    /\ task[d].vacancy \in Vacancies /\ vacancy[task[d].vacancy].status = "none"
    /\ task[d].status \in {"draft", "published"}
    /\ \A e \in Desk \ {d} : task[e].vacancy # task[d].vacancy
    /\ 1 <= task[d].attempt /\ task[d].attempt - 1 <= task[d].beaten
    /\ stage[d] = "insert" => (task[d].slug \in Taken => task[d].attempt <= task[d].beaten)

(* An edit carries the address the role has; what is about a role or an    *)
(* application is about one there was.                                     *)
EditSound(d) ==
  /\ stage[d] \in {"save", "delete", "apply", "triage"} => Known(task[d].vacancy)
  /\ stage[d] = "save" => /\ task[d].slug = vacancy[task[d].vacancy].slug
                          /\ task[d].status \in {"published", "closed"}
  /\ stage[d] \in {"apply", "triage"} => task[d].application \in Applications
  /\ stage[d] = "triage" => task[d].status \in {"reviewing", "hired"}

HireInv ==
  /\ HireTyped /\ AddressesApart /\ ApplicationsKnown /\ ~refused
  /\ \A d \in Desk : PostSound(d) /\ EditSound(d)

(* What no step undoes: a role known stays known, at its address.          *)
RolesStay ==
  \A v \in Vacancies : vacancy[v].status # "none" =>
    vacancy'[v].status # "none" /\ vacancy'[v].slug = vacancy[v].slug

-----------------------------------------------------------------------------
(* Careers: facts about the operators.                                     *)

(* There is always a free address: one more than the roles.                *)
LEMMA FreeAddress ==
  ASSUME HireTyped
  PROVE  (CHOOSE n \in Slugs \ Taken : \A m \in Slugs \ Taken : n <= m) \in Slugs \ Taken
<1> DEFINE slugOf == [v \in {w \in Vacancies : Posted(w)} |-> vacancy[v].slug]
           posted == {w \in Vacancies : Posted(w)}
<1>1. IsFiniteSet(Vacancies) /\ Cardinality(Vacancies) \in Nat BY HiringAssumption, FS_CardinalityType
<1>2. IsFiniteSet(posted) /\ Cardinality(posted) <= Cardinality(Vacancies) BY <1>1, FS_Subset
<1>3. IsFiniteSet(Slugs) /\ Cardinality(Slugs) = Cardinality(Vacancies) + 1 BY <1>1, FS_Interval DEF Slugs
<1>4. slugOf \in Surjection(posted, Taken) BY DEF Surjection, Taken
<1>5. IsFiniteSet(Taken) /\ Cardinality(Taken) <= Cardinality(posted) BY <1>2, <1>4, FS_Surjection
<1>6. Slugs \ Taken # {}
  <2> SUFFICES ASSUME Slugs \subseteq Taken PROVE FALSE OBVIOUS
  <2>1. Cardinality(Slugs) <= Cardinality(Taken) BY <1>5, FS_Subset
  <2>2. Cardinality(posted) \in Nat /\ Cardinality(Taken) \in Nat BY <1>2, <1>5, FS_CardinalityType
  <2> QED BY <1>1, <1>2, <1>3, <1>5, <2>1, <2>2
<1>7. Slugs \ Taken \in SUBSET Nat BY <1>1 DEF Slugs
<1> QED BY <1>6, <1>7, LeastOf

LEMMA NoTaskIsTask == NoTask \in Task /\ NoTask.vacancy \notin Vacancies
BY HiringAssumption DEF NoTask, Task

(* Whoever is at a desk that does not move, or is beaten while it waits.   *)
LEMMA OtherDesk ==
  ASSUME HireInv, NEW e \in Desk, stage'[e] = stage[e], task'[e] \in Task,
         task'[e].vacancy = task[e].vacancy, task'[e].application = task[e].application,
         task'[e].slug = task[e].slug, task'[e].status = task[e].status, task'[e].attempt = task[e].attempt,
         RolesStay,
         Posting(e) => /\ \A f \in Desk \ {e} : task'[f].vacancy # task[e].vacancy
                       /\ vacancy'[task[e].vacancy].status = "none"
                       /\ task'[e].beaten >= task[e].beaten
                       /\ task[e].slug \in Taken' \ Taken => task[e].attempt <= task'[e].beaten
  PROVE  PostSound(e)' /\ EditSound(e)'
<1>0. PostSound(e) /\ EditSound(e) /\ task[e] \in Task BY DEF HireInv, HireTyped
<1>1. task[e].attempt \in Nat /\ task[e].beaten \in Nat /\ task'[e].beaten \in Nat
  BY <1>0, HiringAssumption DEF Task
<1>2. PostSound(e)'
  <2> SUFFICES ASSUME Posting(e)
               PROVE  /\ task'[e].vacancy \in Vacancies /\ vacancy'[task'[e].vacancy].status = "none"
                      /\ task'[e].status \in {"draft", "published"}
                      /\ \A f \in Desk \ {e} : task'[f].vacancy # task'[e].vacancy
                      /\ 1 <= task'[e].attempt /\ task'[e].attempt - 1 <= task'[e].beaten
                      /\ stage'[e] = "insert" => (task'[e].slug \in Taken' => task'[e].attempt <= task'[e].beaten)
    BY DEF PostSound, Posting
  <2>1. /\ task[e].vacancy \in Vacancies /\ task[e].status \in {"draft", "published"}
        /\ 1 <= task[e].attempt /\ task[e].attempt - 1 <= task[e].beaten
        /\ stage[e] = "insert" => (task[e].slug \in Taken => task[e].attempt <= task[e].beaten)
    BY <1>0 DEF PostSound
  <2> QED BY <1>1, <2>1
<1>3. Known(task[e].vacancy) => Known(task[e].vacancy)' /\ vacancy'[task[e].vacancy].slug = vacancy[task[e].vacancy].slug
  BY DEF RolesStay, Known
<1>4. EditSound(e)' BY <1>0, <1>3 DEF EditSound
<1> QED BY <1>2, <1>4

(* A step at desk d during which no role comes in.                         *)
LEMMA QuietTurn ==
  ASSUME HireInv, HireTyped', AddressesApart', ApplicationsKnown', ~refused', NEW d \in Desk,
         \A e \in Desk \ {d} : stage'[e] = stage[e] /\ task'[e] = task[e],
         RolesStay, \A v \in Vacancies : vacancy[v].status = "none" => vacancy'[v].status = "none",
         Taken' \subseteq Taken, PostSound(d)', EditSound(d)',
         task'[d].vacancy = task[d].vacancy \/ task'[d].vacancy \notin Vacancies \/ Known(task'[d].vacancy)
           \/ \A e \in Desk : task[e].vacancy # task'[d].vacancy
  PROVE  HireInv'
<1> SUFFICES ASSUME NEW e \in Desk, e # d PROVE PostSound(e)' /\ EditSound(e)' BY DEF HireInv
<1>1. stage'[e] = stage[e] /\ task'[e] = task[e] /\ task[e] \in Task /\ PostSound(e) BY DEF HireInv, HireTyped
<1>2. task[e].beaten \in Nat BY <1>1, HiringAssumption DEF Task
<1>3. ASSUME Posting(e)
      PROVE  /\ \A f \in Desk \ {e} : task'[f].vacancy # task[e].vacancy
             /\ vacancy'[task[e].vacancy].status = "none"
  <2>1. /\ task[e].vacancy \in Vacancies /\ vacancy[task[e].vacancy].status = "none"
        /\ \A f \in Desk \ {e} : task[f].vacancy # task[e].vacancy
    BY <1>1, <1>3 DEF PostSound
  <2>2. task'[d].vacancy # task[e].vacancy BY <2>1 DEF Known
  <2> QED BY <2>1, <2>2
<1> QED BY <1>1, <1>2, <1>3, OtherDesk

LEMMA AnswerSound ==
  ASSUME HireInv, NEW d \in Desk, Answer(d)
  PROVE  /\ stage' \in [Desk -> Stages] /\ task' \in [Desk -> Task]
         /\ PostSound(d)' /\ EditSound(d)' /\ task'[d].vacancy \notin Vacancies
         /\ \A e \in Desk \ {d} : stage'[e] = stage[e] /\ task'[e] = task[e]
<1>1. stage' = [stage EXCEPT ![d] = "idle"] /\ task' = [task EXCEPT ![d] = NoTask] BY DEF Answer
<1>2. stage \in [Desk -> Stages] /\ task \in [Desk -> Task] BY DEF HireInv, HireTyped
<1>3. stage' \in [Desk -> Stages] /\ task' \in [Desk -> Task] BY <1>1, <1>2, NoTaskIsTask DEF Stages
<1>4. stage'[d] = "idle" /\ task'[d] = NoTask /\ \A e \in Desk \ {d} : stage'[e] = stage[e] /\ task'[e] = task[e]
  BY <1>1, <1>2
<1>5. PostSound(d)' /\ EditSound(d)' BY <1>4 DEF PostSound, Posting, EditSound
<1> QED BY <1>3, <1>4, <1>5, NoTaskIsTask

(* A role comes in: whoever is posting is beaten once more, so an address  *)
(* found free and taken now has cost an attempt.                           *)
LEMMA BeatenTurn ==
  ASSUME HireInv, NEW d \in Desk, Beaten(d), vacancy' \in [Vacancies -> VacancyRow],
         UNCHANGED <<application, refused, vanished>>, AddressesApart', RolesStay,
         \A e \in Desk \ {d} : Posting(e) => vacancy'[task[e].vacancy].status = "none"
  PROVE  HireInv'
<1>0. stage \in [Desk -> Stages] /\ task \in [Desk -> Task] /\ MaxAttempts \in Nat
  BY HiringAssumption DEF HireInv, HireTyped
<1>1. stage' = [stage EXCEPT ![d] = "idle"] BY DEF Beaten
<1>2. stage' \in [Desk -> Stages] /\ stage'[d] = "idle" /\ \A e \in Desk \ {d} : stage'[e] = stage[e]
  BY <1>0, <1>1 DEF Stages
<1>3. task'[d] = NoTask /\ DOMAIN task' = Desk BY DEF Beaten
<1>4. ASSUME NEW e \in Desk \ {d}
      PROVE  /\ task'[e] \in Task /\ task'[e].vacancy = task[e].vacancy
             /\ task'[e].application = task[e].application /\ task'[e].slug = task[e].slug
             /\ task'[e].status = task[e].status /\ task'[e].attempt = task[e].attempt
             /\ Posting(e) => task'[e].beaten >= task[e].beaten
                              /\ (task[e].beaten + 1 = task'[e].beaten \/ task'[e].beaten = MaxAttempts)
  <2>0. task[e] \in Task /\ task[e].beaten \in 0..MaxAttempts BY <1>0 DEF Task
  <2>1. CASE stage[e] \in {"slug", "insert"} /\ task[e].beaten < MaxAttempts
    <3>1. task'[e] = [task[e] EXCEPT !.beaten = @ + 1] BY <2>1 DEF Beaten
    <3>2. task[e].beaten + 1 \in 0..MaxAttempts BY <1>0, <2>0, <2>1
    <3> QED BY <2>0, <3>1, <3>2 DEF Task
  <2>2. CASE ~ (stage[e] \in {"slug", "insert"} /\ task[e].beaten < MaxAttempts)
    <3>1. task'[e] = task[e] BY <2>2 DEF Beaten
    <3>2. Posting(e) => task[e].beaten = MaxAttempts BY <1>0, <2>0, <2>2 DEF Posting
    <3> QED BY <1>0, <2>0, <3>1, <3>2
  <2> QED BY <2>1, <2>2
<1>5. HireTyped'
  <2>1. \A e \in Desk : task'[e] \in Task BY <1>3, <1>4, NoTaskIsTask
  <2>2. task' \in [Desk -> Task]
    <3>1. task' = [e \in Desk |-> task'[e]] BY DEF Beaten
    <3> QED BY <2>1, <3>1
  <2> QED BY <1>2, <2>2 DEF HireInv, HireTyped
<1>6. ApplicationsKnown' BY DEF HireInv, ApplicationsKnown, Known, RolesStay
<1>7. PostSound(d)' /\ EditSound(d)' BY <1>2 DEF PostSound, Posting, EditSound
<1>8. ASSUME NEW e \in Desk \ {d} PROVE PostSound(e)' /\ EditSound(e)'
  <2>1. ASSUME Posting(e)
        PROVE  /\ \A f \in Desk \ {e} : task'[f].vacancy # task[e].vacancy
               /\ vacancy'[task[e].vacancy].status = "none"
               /\ task'[e].beaten >= task[e].beaten
               /\ task[e].slug \in Taken' \ Taken => task[e].attempt <= task'[e].beaten
    <3>1. /\ task[e].vacancy \in Vacancies
          /\ \A f \in Desk \ {e} : task[f].vacancy # task[e].vacancy
          /\ task[e].attempt - 1 <= task[e].beaten
      BY <2>1 DEF HireInv, PostSound
    <3>2. \A f \in Desk \ {e} : task'[f].vacancy # task[e].vacancy BY <1>3, <1>4, <3>1, NoTaskIsTask
    <3>3. task[e].attempt \in 0..MaxAttempts /\ task[e].beaten \in 0..MaxAttempts BY <1>0 DEF Task
    <3>4. task[e].attempt <= task'[e].beaten BY <1>0, <1>4, <2>1, <3>1, <3>3
    <3> QED BY <1>4, <2>1, <3>2, <3>4
  <2> QED BY <1>2, <1>4, <2>1, OtherDesk
<1>9. ~refused' BY DEF HireInv
<1> QED BY <1>5, <1>6, <1>7, <1>8, <1>9 DEF HireInv

-----------------------------------------------------------------------------
(* Careers: one lemma per action, or per few of a kind.                    *)

(* A request begins.                                                       *)
LEMMA TakeSound ==
  ASSUME HireInv, NEW d \in Desk, NEW where \in Stages, NEW t \in Task, Take(d, where, t),
         UNCHANGED <<vacancy, application, refused, vanished>>,
         PostSound(d)', EditSound(d)', Known(t.vacancy) \/ \A e \in Desk : task[e].vacancy # t.vacancy
  PROVE  HireInv' /\ RolesStay
<1>1. stage' = [stage EXCEPT ![d] = where] /\ task' = [task EXCEPT ![d] = t] BY DEF Take
<1>2. HireTyped' BY <1>1 DEF HireInv, HireTyped
<1>3. task'[d] = t /\ \A e \in Desk \ {d} : stage'[e] = stage[e] /\ task'[e] = task[e]
  BY <1>1 DEF HireInv, HireTyped
<1>4. AddressesApart' /\ ApplicationsKnown' /\ ~refused' /\ Taken' \subseteq Taken
  BY DEF HireInv, AddressesApart, ApplicationsKnown, Known, Posted, Taken
<1>5. RolesStay BY DEF RolesStay
<1> QED BY <1>2, <1>3, <1>4, <1>5, QuietTurn

LEMMA CreateKept ==
  ASSUME HireInv, NEW d \in Desk, createVacancy(d)
  PROVE  HireInv' /\ RolesStay
<1>1. PICK v \in Vacancies, s \in {"draft", "published"} :
        /\ vacancy[v].status = "none" /\ \A e \in Desk : task[e].vacancy # v
        /\ Take(d, "slug", [NoTask EXCEPT !.vacancy = v, !.status = s, !.attempt = 1])
  BY DEF createVacancy
<1> DEFINE t == [NoTask EXCEPT !.vacancy = v, !.status = s, !.attempt = 1]
<1>2. UNCHANGED <<vacancy, application, refused, vanished>> BY DEF createVacancy
<1>3. t \in Task /\ t.vacancy = v /\ t.status = s /\ t.attempt = 1 /\ t.beaten = 0
  <2>1. 1 \in 0..MaxAttempts BY HiringAssumption
  <2>2. NoTask \in Task /\ NoTask.beaten = 0 BY NoTaskIsTask DEF NoTask
  <2> QED BY <2>1, <2>2 DEF Task
<1>4. Take(d, "slug", t) BY <1>1
<1> HIDE DEF t
<1>5. stage'[d] = "slug" /\ task'[d] = t /\ \A e \in Desk \ {d} : task'[e] = task[e]
  BY <1>4 DEF Take, HireInv, HireTyped
<1>6. PostSound(d)' BY <1>1, <1>2, <1>3, <1>5 DEF PostSound, Posting
<1>7. EditSound(d)' BY <1>5 DEF EditSound
<1> QED BY <1>1, <1>2, <1>3, <1>4, <1>6, <1>7, TakeSound DEF Stages

(* An edit, a deletion, an application or a triage begins: about a role    *)
(* there is, at the address it has.                                        *)
LEMMA AboutRoleSound ==
  ASSUME HireInv, NEW d \in Desk, NEW where \in {"save", "delete", "apply", "triage"}, NEW t \in Task,
         Take(d, where, t), UNCHANGED <<vacancy, application, refused, vanished>>, Known(t.vacancy),
         where = "save" => t.slug = vacancy[t.vacancy].slug /\ t.status \in {"published", "closed"},
         where \in {"apply", "triage"} => t.application \in Applications,
         where = "triage" => t.status \in {"reviewing", "hired"}
  PROVE  HireInv' /\ RolesStay
<1>1. stage'[d] = where /\ task'[d] = t BY DEF Take, HireInv, HireTyped
<1>2. PostSound(d)' BY <1>1 DEF PostSound, Posting
<1>3. EditSound(d)' BY <1>1 DEF EditSound, Known
<1> QED BY <1>2, <1>3, TakeSound DEF Stages

LEMMA AboutRolesKept ==
  ASSUME HireInv, NEW d \in Desk, updateVacancy(d) \/ deleteVacancy(d) \/ apply(d) \/ updateApplication(d)
  PROVE  HireInv' /\ RolesStay
<1>1. UNCHANGED <<vacancy, application, refused, vanished>>
  BY DEF updateVacancy, deleteVacancy, apply, updateApplication
<1>2. NoTask \in Task BY NoTaskIsTask
<1>3. CASE updateVacancy(d)
  <2>1. PICK v \in Vacancies, s \in {"published", "closed"} :
          /\ Posted(v)
          /\ Take(d, "save", [NoTask EXCEPT !.vacancy = v, !.status = s, !.slug = vacancy[v].slug])
    BY <1>3 DEF updateVacancy
  <2> DEFINE t == [NoTask EXCEPT !.vacancy = v, !.status = s, !.slug = vacancy[v].slug]
  <2>2. vacancy[v].slug \in Slugs \cup {0} BY DEF HireInv, HireTyped, VacancyRow
  <2>3. t \in Task /\ t.vacancy = v /\ t.status = s /\ t.slug = vacancy[v].slug BY <1>2, <2>2 DEF Task
  <2>4. Take(d, "save", t) BY <2>1
  <2> HIDE DEF t
  <2> QED BY <1>1, <2>1, <2>3, <2>4, AboutRoleSound DEF Known, Posted
<1>4. CASE deleteVacancy(d)
  <2>1. PICK v \in Vacancies : Posted(v) /\ Take(d, "delete", [NoTask EXCEPT !.vacancy = v])
    BY <1>4 DEF deleteVacancy
  <2> DEFINE t == [NoTask EXCEPT !.vacancy = v]
  <2>2. t \in Task /\ t.vacancy = v BY <1>2 DEF Task
  <2>3. Take(d, "delete", t) BY <2>1
  <2> HIDE DEF t
  <2> QED BY <1>1, <2>1, <2>2, <2>3, AboutRoleSound DEF Known, Posted
<1>5. CASE apply(d)
  <2>1. PICK v \in Vacancies, a \in Applications :
          /\ vacancy[v].status = "published"
          /\ Take(d, "apply", [NoTask EXCEPT !.vacancy = v, !.application = a])
    BY <1>5 DEF apply
  <2> DEFINE t == [NoTask EXCEPT !.vacancy = v, !.application = a]
  <2>2. t \in Task /\ t.vacancy = v /\ t.application = a BY <1>2 DEF Task
  <2>3. Take(d, "apply", t) BY <2>1
  <2> HIDE DEF t
  <2> QED BY <1>1, <2>1, <2>2, <2>3, AboutRoleSound DEF Known
<1>6. CASE updateApplication(d)
  <2>1. PICK a \in Applications, s \in {"reviewing", "hired"} :
          /\ application[a].status # "none"
          /\ Take(d, "triage", [NoTask EXCEPT !.application = a, !.vacancy = application[a].vacancy, !.status = s])
    BY <1>6 DEF updateApplication
  <2> DEFINE t == [NoTask EXCEPT !.application = a, !.vacancy = application[a].vacancy, !.status = s]
  <2>2. Known(application[a].vacancy) BY <2>1 DEF HireInv, ApplicationsKnown
  <2>3. t \in Task /\ t.vacancy = application[a].vacancy /\ t.application = a /\ t.status = s
    BY <1>2, <2>2 DEF Task, Known
  <2>4. Take(d, "triage", t) BY <2>1
  <2> HIDE DEF t
  <2> QED BY <1>1, <2>2, <2>3, <2>4, AboutRoleSound
<1> QED BY <1>3, <1>4, <1>5, <1>6

LEMMA FreeSlugKept ==
  ASSUME HireInv, NEW d \in Desk, freeSlug(d)
  PROVE  HireInv' /\ RolesStay
<1>1. PICK n \in Slugs \ Taken : task' = [task EXCEPT ![d].slug = n] BY FreeAddress DEF freeSlug, HireInv
<1>2. stage[d] = "slug" /\ stage' = [stage EXCEPT ![d] = "insert"]
      /\ UNCHANGED <<vacancy, application, refused, vanished>>
  BY DEF freeSlug
<1>3. task \in [Desk -> Task] /\ stage \in [Desk -> Stages] BY DEF HireInv, HireTyped
<1> DEFINE t == [task[d] EXCEPT !.slug = n]
<1>4. t \in Task /\ t.vacancy = task[d].vacancy /\ t.status = task[d].status /\ t.slug = n
      /\ t.attempt = task[d].attempt /\ t.beaten = task[d].beaten
  BY <1>3 DEF Task
<1>5. task' = [task EXCEPT ![d] = t] BY <1>1
<1> HIDE DEF t
<1>6. stage'[d] = "insert" /\ task'[d] = t /\ \A e \in Desk \ {d} : stage'[e] = stage[e] /\ task'[e] = task[e]
  BY <1>2, <1>3, <1>5
<1>7. HireTyped' BY <1>2, <1>3, <1>4, <1>5 DEF HireInv, HireTyped, Stages
<1>8. AddressesApart' /\ ApplicationsKnown' /\ ~refused' /\ Taken' = Taken
  BY <1>2 DEF HireInv, AddressesApart, ApplicationsKnown, Known, Posted, Taken
<1>9. RolesStay BY <1>2 DEF RolesStay
<1>10. PostSound(d)'
  <2>1. /\ task[d].vacancy \in Vacancies /\ vacancy[task[d].vacancy].status = "none"
        /\ task[d].status \in {"draft", "published"}
        /\ \A e \in Desk \ {d} : task[e].vacancy # task[d].vacancy
        /\ 1 <= task[d].attempt /\ task[d].attempt - 1 <= task[d].beaten
    BY <1>2 DEF HireInv, PostSound, Posting
  <2>2. t.slug \notin Taken' BY <1>4, <1>8
  <2> QED BY <1>2, <1>4, <1>6, <2>1, <2>2 DEF PostSound, Posting
<1>11. EditSound(d)' BY <1>6 DEF EditSound
<1> QED BY <1>2, <1>4, <1>6, <1>7, <1>8, <1>9, <1>10, <1>11, QuietTurn

(* The insert. A collision costs an attempt, and at the last one the post  *)
(* has been beaten as often as it tried.                                   *)
LEMMA InsertKept ==
  ASSUME HireInv, NEW d \in Desk, InsertVacancy(d)
  PROVE  HireInv' /\ RolesStay
<1> DEFINE t == task[d]
<1>0. task \in [Desk -> Task] /\ stage \in [Desk -> Stages] /\ vacancy \in [Vacancies -> VacancyRow]
  BY DEF HireInv, HireTyped
<1>1. stage[d] = "insert" /\ UNCHANGED <<application, vanished>> BY DEF InsertVacancy, InsertStep
<1>2. /\ t \in Task /\ t.vacancy \in Vacancies /\ vacancy[t.vacancy].status = "none"
      /\ t.status \in {"draft", "published"}
      /\ \A e \in Desk \ {d} : task[e].vacancy # t.vacancy
      /\ 1 <= t.attempt /\ t.slug \in Taken => t.attempt <= t.beaten
  BY <1>0, <1>1 DEF HireInv, PostSound, Posting
<1>3. t.attempt \in 0..MaxAttempts /\ t.beaten \in 0..MaxAttempts /\ MaxAttempts \in Nat
  BY <1>2, HiringAssumption DEF Task
<1>4. CASE t.slug \in Taken
  <2>1. /\ refused' = (refused \/ (t.attempt = MaxAttempts /\ t.beaten < MaxAttempts))
        /\ IF t.attempt = MaxAttempts THEN Answer(d)
           ELSE stage' = [stage EXCEPT ![d] = "slug"] /\ task' = [task EXCEPT ![d].attempt = @ + 1]
        /\ UNCHANGED vacancy
    BY <1>4 DEF InsertVacancy, InsertStep
  <2>2. refused' = FALSE
    <3>1. ~ (t.attempt = MaxAttempts /\ t.beaten < MaxAttempts) BY <1>2, <1>3, <1>4
    <3> QED BY <2>1, <3>1 DEF HireInv
  <2>3. AddressesApart' /\ ApplicationsKnown' /\ Taken' = Taken
    BY <1>1, <2>1 DEF HireInv, AddressesApart, ApplicationsKnown, Known, Posted, Taken
  <2>4. RolesStay BY <2>1 DEF RolesStay
  <2>5. CASE t.attempt = MaxAttempts
    <3>1. Answer(d) BY <2>1, <2>5
    <3>2. HireTyped' BY <1>1, <2>1, <2>2, <3>1, AnswerSound DEF HireInv, HireTyped
    <3> QED BY <2>1, <2>2, <2>3, <2>4, <3>1, <3>2, AnswerSound, QuietTurn
  <2>6. CASE t.attempt # MaxAttempts
    <3> DEFINE u == [t EXCEPT !.attempt = t.attempt + 1]
    <3>1. t.attempt + 1 \in 0..MaxAttempts BY <1>3, <2>6
    <3>2. u \in Task /\ u.vacancy = t.vacancy /\ u.status = t.status /\ u.attempt = t.attempt + 1
          /\ u.beaten = t.beaten
      BY <1>2, <3>1 DEF Task
    <3>3. stage' = [stage EXCEPT ![d] = "slug"] /\ task' = [task EXCEPT ![d] = u] BY <2>1, <2>6
    <3> HIDE DEF u
    <3>4. stage'[d] = "slug" /\ task'[d] = u /\ \A e \in Desk \ {d} : stage'[e] = stage[e] /\ task'[e] = task[e]
      BY <1>0, <3>3
    <3>5. HireTyped' BY <1>0, <1>1, <2>1, <2>2, <3>2, <3>3 DEF HireInv, HireTyped, Stages
    <3>6. PostSound(d)' BY <1>2, <1>3, <1>4, <2>1, <3>2, <3>4 DEF PostSound, Posting
    <3>7. EditSound(d)' BY <3>4 DEF EditSound
    <3> QED BY <2>1, <2>2, <2>3, <2>4, <3>2, <3>4, <3>5, <3>6, <3>7, QuietTurn
  <2> QED BY <2>5, <2>6
<1>5. CASE t.slug \notin Taken
  <2> DEFINE row == [status |-> t.status, slug |-> t.slug]
  <2>1. vacancy' = [vacancy EXCEPT ![t.vacancy] = row] /\ Beaten(d) /\ UNCHANGED refused
    BY <1>5 DEF InsertVacancy, InsertStep
  <2>2. row \in VacancyRow /\ row.status # "none" /\ row.slug = t.slug BY <1>2 DEF VacancyRow, Task
  <2> HIDE DEF row
  <2>3. vacancy' \in [Vacancies -> VacancyRow] /\ vacancy'[t.vacancy] = row
        /\ \A v \in Vacancies \ {t.vacancy} : vacancy'[v] = vacancy[v]
    BY <1>0, <1>2, <2>1, <2>2
  <2>4. \A v \in Vacancies \ {t.vacancy} : Posted(v) => vacancy[v].slug # t.slug BY <1>5 DEF Taken
  <2>5. AddressesApart' BY <2>2, <2>3, <2>4 DEF HireInv, AddressesApart, Posted
  <2>6. RolesStay BY <1>2, <2>3 DEF RolesStay
  <2>7. \A e \in Desk \ {d} : Posting(e) => vacancy'[task[e].vacancy].status = "none"
    <3> SUFFICES ASSUME NEW e \in Desk \ {d}, Posting(e) PROVE vacancy'[task[e].vacancy].status = "none" OBVIOUS
    <3>1. task[e].vacancy \in Vacancies /\ vacancy[task[e].vacancy].status = "none" BY DEF HireInv, PostSound
    <3> QED BY <1>2, <2>3, <3>1
  <2> QED BY <1>1, <2>1, <2>3, <2>5, <2>6, <2>7, BeatenTurn
<1> QED BY <1>4, <1>5

(* The edit is saved: the role keeps its address, and one deleted meanwhile*)
(* comes back only if nobody has taken it.                                 *)
LEMMA SaveVacancyKept ==
  ASSUME HireInv, NEW d \in Desk, SaveVacancy(d)
  PROVE  HireInv' /\ RolesStay
<1> DEFINE t == task[d]
           clash == vacancy[t.vacancy].status = "deleted" /\ t.slug \in Taken
<1>0. task \in [Desk -> Task] /\ vacancy \in [Vacancies -> VacancyRow] BY DEF HireInv, HireTyped
<1>1. stage[d] = "save" /\ UNCHANGED <<application, refused, vanished>> BY DEF SaveVacancy
<1>2. /\ t \in Task /\ t.vacancy \in Vacancies /\ vacancy[t.vacancy].status # "none"
      /\ t.slug = vacancy[t.vacancy].slug /\ t.status \in {"published", "closed"}
  BY <1>0, <1>1 DEF HireInv, EditSound, Known
<1>3. CASE clash
  <2>1. vacancy' = vacancy /\ Answer(d) BY <1>3 DEF SaveVacancy
  <2>2. HireTyped' BY <1>1, <2>1, AnswerSound DEF HireInv, HireTyped
  <2>3. AddressesApart' /\ ApplicationsKnown' /\ ~refused' /\ Taken' = Taken
    BY <1>1, <2>1 DEF HireInv, AddressesApart, ApplicationsKnown, Known, Posted, Taken
  <2>4. RolesStay BY <2>1 DEF RolesStay
  <2> QED BY <2>1, <2>2, <2>3, <2>4, AnswerSound, QuietTurn
<1>4. CASE ~clash
  <2> DEFINE row == [status |-> t.status, slug |-> t.slug]
  <2>1. vacancy' = [vacancy EXCEPT ![t.vacancy] = row] BY <1>4 DEF SaveVacancy
  <2>2. row \in VacancyRow /\ row.status \in {"published", "closed"} /\ row.slug = vacancy[t.vacancy].slug
    BY <1>2 DEF VacancyRow, Task
  <2> HIDE DEF row
  <2>3. vacancy' \in [Vacancies -> VacancyRow] /\ vacancy'[t.vacancy] = row
        /\ \A v \in Vacancies \ {t.vacancy} : vacancy'[v] = vacancy[v]
    BY <1>0, <1>2, <2>1, <2>2
  <2>4. RolesStay BY <2>2, <2>3 DEF RolesStay
  <2>5. \A v \in Vacancies \ {t.vacancy} : Posted(v) => vacancy[v].slug # vacancy[t.vacancy].slug
    <3>1. CASE Posted(t.vacancy) BY <1>2, <3>1 DEF HireInv, AddressesApart
    <3>2. CASE ~Posted(t.vacancy)
      <4>1. vacancy[t.vacancy].status = "deleted" BY <1>0, <1>2, <3>2 DEF Posted, VacancyRow
      <4> QED BY <1>2, <1>4, <4>1 DEF Taken
    <3> QED BY <3>1, <3>2
  <2>6. AddressesApart' BY <2>2, <2>3, <2>5 DEF HireInv, AddressesApart, Posted
  <2>7. CASE ~Posted(t.vacancy)
    <3>1. Beaten(d) BY <1>4, <2>7 DEF SaveVacancy
    <3>2. \A e \in Desk \ {d} : Posting(e) => vacancy'[task[e].vacancy].status = "none"
      <4> SUFFICES ASSUME NEW e \in Desk \ {d}, Posting(e) PROVE vacancy'[task[e].vacancy].status = "none" OBVIOUS
      <4>1. task[e].vacancy \in Vacancies /\ vacancy[task[e].vacancy].status = "none" BY DEF HireInv, PostSound
      <4> QED BY <1>2, <2>3, <4>1
    <3> QED BY <1>1, <2>3, <2>4, <2>6, <3>1, <3>2, BeatenTurn
  <2>8. CASE Posted(t.vacancy)
    <3>1. Answer(d) BY <2>8 DEF SaveVacancy
    <3>2. Taken' \subseteq Taken
      <4> SUFFICES ASSUME NEW v \in Vacancies, Posted(v)' PROVE vacancy'[v].slug \in Taken BY DEF Taken
      <4>1. CASE v = t.vacancy BY <2>2, <2>3, <2>8, <4>1 DEF Taken
      <4>2. CASE v # t.vacancy BY <2>3, <4>2 DEF Taken, Posted
      <4> QED BY <4>1, <4>2
    <3>3. ApplicationsKnown' BY <1>1, <2>4 DEF HireInv, ApplicationsKnown, Known, RolesStay
    <3>4. HireTyped' BY <1>1, <2>3, <3>1, AnswerSound DEF HireInv, HireTyped
    <3>5. ~refused' /\ \A v \in Vacancies : vacancy[v].status = "none" => vacancy'[v].status = "none"
      BY <1>1, <1>2, <2>3 DEF HireInv
    <3> QED BY <2>4, <2>6, <3>1, <3>2, <3>3, <3>4, <3>5, AnswerSound, QuietTurn
  <2> QED BY <2>7, <2>8
<1> QED BY <1>3, <1>4

(* A role goes, and its applications with it.                              *)
LEMMA DeleteKept ==
  ASSUME HireInv, NEW d \in Desk, DeleteVacancyRow(d)
  PROVE  HireInv' /\ RolesStay
<1> DEFINE v == task[d].vacancy
           gone == {a \in Applications : application[a].vacancy = v}
           None == [status |-> "none", vacancy |-> NoVacancy]
<1>0. vacancy \in [Vacancies -> VacancyRow] /\ application \in [Applications -> ApplicationRow]
      /\ vanished \subseteq Applications
  BY DEF HireInv, HireTyped
<1>1. /\ vacancy' = IF Posted(v) THEN [vacancy EXCEPT ![v].status = "deleted"] ELSE vacancy
      /\ application' = [a \in Applications |-> IF a \in gone THEN None ELSE application[a]]
      /\ vanished' = vanished \cup gone /\ Answer(d) /\ refused' = refused
  BY DEF DeleteVacancyRow
<1>2. v \in Vacancies /\ vacancy[v].status # "none" BY DEF HireInv, EditSound, Known, DeleteVacancyRow
<1>3. vacancy' \in [Vacancies -> VacancyRow]
      /\ \A w \in Vacancies : /\ vacancy'[w].slug = vacancy[w].slug
                              /\ vacancy'[w] = vacancy[w] \/ (w = v /\ vacancy'[w].status = "deleted")
  <2>1. CASE Posted(v)
    <3> DEFINE row == [vacancy[v] EXCEPT !.status = "deleted"]
    <3>1. row \in VacancyRow /\ row.slug = vacancy[v].slug /\ row.status = "deleted" BY <1>0, <1>2 DEF VacancyRow
    <3>2. vacancy' = [vacancy EXCEPT ![v] = row] BY <1>1, <2>1
    <3> HIDE DEF row
    <3> QED BY <1>0, <1>2, <3>1, <3>2
  <2>2. CASE ~Posted(v) BY <1>0, <1>1, <2>2
  <2> QED BY <2>1, <2>2
<1>4. application' \in [Applications -> ApplicationRow]
  <2>1. None \in ApplicationRow BY DEF ApplicationRow
  <2> HIDE DEF None, gone
  <2> QED BY <1>0, <1>1, <2>1
<1>5. HireTyped' BY <1>0, <1>1, <1>3, <1>4, AnswerSound DEF HireInv, HireTyped
<1>6. RolesStay BY <1>2, <1>3 DEF RolesStay
<1>7. \A w \in Vacancies : Posted(w)' => Posted(w) BY <1>3 DEF Posted
<1>8. AddressesApart' BY <1>3, <1>7 DEF HireInv, AddressesApart
<1>9. Taken' \subseteq Taken BY <1>3, <1>7 DEF Taken
<1>10. ApplicationsKnown'
  <2> SUFFICES ASSUME NEW a \in Applications, application'[a].status # "none" PROVE Known(application[a].vacancy)'
    BY DEF ApplicationsKnown
  <2>1. application'[a] = application[a] BY <1>1
  <2> QED BY <1>6, <2>1 DEF HireInv, ApplicationsKnown, Known, RolesStay
<1>11. ~refused' /\ \A w \in Vacancies : vacancy[w].status = "none" => vacancy'[w].status = "none"
  BY <1>1, <1>2, <1>3 DEF HireInv
<1> QED BY <1>1, <1>5, <1>6, <1>8, <1>9, <1>10, <1>11, AnswerSound, QuietTurn

(* An application or its triage is saved, unless its role is gone.         *)
LEMMA ApplicationKept ==
  ASSUME HireInv, NEW d \in Desk, SaveApplication(d) \/ SaveTriage(d)
  PROVE  HireInv' /\ RolesStay
<1> DEFINE t == task[d]
<1>0. application \in [Applications -> ApplicationRow] BY DEF HireInv, HireTyped
<1>1. UNCHANGED <<vacancy, refused, vanished>> /\ Answer(d) BY DEF SaveApplication, SaveTriage
<1>2. t.application \in Applications /\ Known(t.vacancy)
  BY DEF HireInv, EditSound, SaveApplication, SaveTriage
<1>3. PICK s \in {"new", "reviewing", "hired"} :
        application' \in {application, [application EXCEPT ![t.application] = [status |-> s, vacancy |-> t.vacancy]]}
  BY DEF SaveApplication, SaveTriage, HireInv, EditSound
<1> DEFINE row == [status |-> s, vacancy |-> t.vacancy]
<1>4. row \in ApplicationRow /\ row.vacancy = t.vacancy BY <1>2 DEF ApplicationRow, Known
<1> HIDE DEF row
<1>5. application' \in {application, [application EXCEPT ![t.application] = row]} BY <1>3 DEF row
<1>6. application' \in [Applications -> ApplicationRow]
      /\ \A a \in Applications : application'[a] \in {application[a], row}
  BY <1>0, <1>2, <1>4, <1>5
<1>7. HireTyped' BY <1>1, <1>6, AnswerSound DEF HireInv, HireTyped
<1>8. ApplicationsKnown'
  <2> SUFFICES ASSUME NEW a \in Applications, application'[a].status # "none" PROVE Known(application[a].vacancy)'
    BY DEF ApplicationsKnown
  <2>1. Known(application'[a].vacancy) BY <1>2, <1>4, <1>6 DEF HireInv, ApplicationsKnown
  <2> QED BY <1>1, <2>1 DEF Known
<1>9. AddressesApart' /\ ~refused' /\ Taken' = Taken BY <1>1 DEF HireInv, AddressesApart, Posted, Taken
<1>10. RolesStay BY <1>1 DEF RolesStay
<1> QED BY <1>1, <1>7, <1>8, <1>9, <1>10, AnswerSound, QuietTurn

-----------------------------------------------------------------------------
(* Careers: the theorems.                                                  *)

LEMMA HireInitially == HireInit => HireInv
<1> SUFFICES ASSUME HireInit PROVE HireInv OBVIOUS
<1>1. HireTyped
  <2>1. [status |-> "none", slug |-> 0] \in VacancyRow BY DEF VacancyRow
  <2>2. [status |-> "none", vacancy |-> NoVacancy] \in ApplicationRow BY DEF ApplicationRow
  <2> QED BY <2>1, <2>2, NoTaskIsTask DEF HireInit, HireTyped, Stages
<1>2. \A v \in Vacancies : vacancy[v].status = "none" BY DEF HireInit
<1>3. \A a \in Applications : application[a].status = "none" BY DEF HireInit
<1>4. \A d \in Desk : stage[d] = "idle" BY DEF HireInit
<1>5. AddressesApart /\ ApplicationsKnown /\ ~refused
  BY <1>2, <1>3 DEF HireInit, AddressesApart, ApplicationsKnown, Posted
<1>6. \A d \in Desk : PostSound(d) /\ EditSound(d) BY <1>4 DEF PostSound, Posting, EditSound
<1> QED BY <1>1, <1>5, <1>6 DEF HireInv

LEMMA HireStep == HireInv /\ [HireNext]_hireVars => HireInv' /\ RolesStay
<1> SUFFICES ASSUME HireInv, [HireNext]_hireVars PROVE HireInv' /\ RolesStay OBVIOUS
<1>1. ASSUME NEW d \in Desk, createVacancy(d) \/ freeSlug(d) \/ InsertVacancy(d) \/ SaveVacancy(d)
                             \/ DeleteVacancyRow(d)
      PROVE  HireInv' /\ RolesStay
  BY <1>1, CreateKept, FreeSlugKept, InsertKept, SaveVacancyKept, DeleteKept
<1>2. ASSUME NEW d \in Desk, updateVacancy(d) \/ deleteVacancy(d) \/ apply(d) \/ updateApplication(d)
                             \/ SaveApplication(d) \/ SaveTriage(d)
      PROVE  HireInv' /\ RolesStay
  BY <1>2, AboutRolesKept, ApplicationKept
<1>3. CASE UNCHANGED hireVars
  <2>1. HireTyped' /\ AddressesApart' /\ ApplicationsKnown' /\ ~refused'
    BY <1>3 DEF hireVars, HireInv, HireTyped, AddressesApart, ApplicationsKnown, Known, Posted
  <2>2. \A d \in Desk : PostSound(d)' /\ EditSound(d)'
    BY <1>3 DEF hireVars, HireInv, PostSound, EditSound, Posting, Known, Taken, Posted
  <2> QED BY <1>3, <2>1, <2>2 DEF hireVars, HireInv, RolesStay
<1> QED BY <1>1, <1>2, <1>3 DEF HireNext

(* A post gives up only when another role came in during each of its       *)
(* attempts: a collision is never answered with an error while an address  *)
(* was to be had (hr.service createVacancy, freeSlug).                     *)
THEOREM PostsSafe == HireSpec => []PostsSucceed
<1>1. HireInv => PostsSucceed BY DEF HireInv, PostsSucceed
<1> QED BY <1>1, HireInitially, HireStep, PTL DEF HireSpec

(* A posted role keeps its address through every edit, deletion and        *)
(* re-insertion of any role, and no other is found under it (hr.service    *)
(* updateVacancy).                                                         *)
THEOREM AddressesSafe == HireSpec => AddressStays
<1> DEFINE Stay == \A v \in Vacancies : Posted(v) /\ Posted(v)' =>
             /\ vacancy'[v].slug = vacancy[v].slug
             /\ \A w \in Vacancies \ {v} : Posted(w)' => vacancy'[w].slug # vacancy[v].slug
<1>1. HireInv /\ [HireNext]_hireVars => Stay
  <2> SUFFICES ASSUME HireInv, [HireNext]_hireVars PROVE Stay OBVIOUS
  <2>1. AddressesApart' /\ RolesStay BY HireStep DEF HireInv
  <2>2. \A v \in Vacancies : Posted(v) => vacancy[v].status # "none" BY DEF Posted
  <2> QED BY <2>1, <2>2 DEF AddressesApart, RolesStay
<1> HIDE DEF Stay
<1>2. HireSpec => [][Stay]_hireVars BY <1>1, HireInitially, HireStep, PTL DEF HireSpec
<1> QED BY <1>2 DEF Stay, AddressStays

Phases == {"asleep", "due", "drafts", "delete", "bookings", "commit", "record"}
Jobs ==
  [phase : Phases, before : Int, now : Int, doomed : SUBSET Drafts, held : SUBSET Records, ok : BOOLEAN]

-----------------------------------------------------------------------------
(* Retention: the invariant, part by part.                                 *)

RetentionTyped ==
  /\ year \in Nat /\ visit \in [Records -> Nat] /\ stored \in Nat
  /\ cleared \in [Records -> Nat \cup {Open}] /\ expires \in [Drafts -> Nat \cup {Open}]
  /\ job \in [Replicas -> Jobs] /\ excused \in [Replicas -> SUBSET (Records \cup Drafts)]

(* What a run still has to anonymise.                                      *)
PastCutOff(p) == {b \in Records : visit[b] < job[p].before /\ cleared[b] = Open}

Running(p) == job[p].phase \in {"drafts", "delete", "bookings", "commit", "record"}

(* The cut-off a run works with lies a whole period back, and has only     *)
(* grown older since; so has every booking of the batch in its hands.      *)
CutOffOld(p) ==
  Running(p) => /\ job[p].before <= year - Floor
                /\ job[p].now <= year
                /\ \A b \in job[p].held : visit[b] < job[p].before

(* Drafts expired when the run began are gone once it has turned to the    *)
(* bookings, but for those it found locked: a draft saved since then       *)
(* expires later.                                                          *)
DraftsGone(p) ==
  job[p].phase \in {"bookings", "commit"} \/ (job[p].phase = "record" /\ job[p].ok)
    => expiredDrafts(job[p].now) \subseteq excused[p]

(* A batch of drafts that fell short has all that were left and not locked.*)
LastDrafts(p) ==
  job[p].phase = "delete" /\ Cardinality(job[p].doomed) < Batch
    => expiredDrafts(job[p].now) \subseteq job[p].doomed \cup excused[p]

(* A batch that fell short holds all that was left and not locked.         *)
LastBatch(p) ==
  job[p].phase = "commit" /\ Cardinality(job[p].held) < Batch
    => PastCutOff(p) \subseteq job[p].held \cup excused[p]

(* A run about to be recorded as a success has left only what it found     *)
(* locked.                                                                 *)
NothingLeft(p) == job[p].phase = "record" /\ job[p].ok => PastCutOff(p) \subseteq excused[p]

RunKept(p) == CutOffOld(p) /\ LastDrafts(p) /\ DraftsGone(p) /\ LastBatch(p) /\ NothingLeft(p)

RetentionInv == RetentionTyped /\ NeverTooEarly /\ RunsAreWhole /\ \A p \in Replicas : RunKept(p)

-----------------------------------------------------------------------------
(* Retention: facts about the operators.                                   *)

(* The smaller of two numbers.                                             *)
LEMMA LesserOfTwo ==
  ASSUME NEW m \in Int, NEW n \in Int
  PROVE  Min({m, n}) = IF m <= n THEN m ELSE n
BY DEF Min

(* A part of a finite set that is smaller than a whole batch, though as    *)
(* many as a batch and the set allow were taken, is the set.               *)
LEMMA ShortBatchIsAll ==
  ASSUME NEW whole, IsFiniteSet(whole), NEW take \in SUBSET whole,
         Cardinality(take) = Min({Batch, Cardinality(whole)}), Cardinality(take) < Batch
  PROVE  take = whole
<1>1. Cardinality(whole) \in Nat /\ Batch \in Int BY FS_CardinalityType, RetentionAssumption
<1>2. Cardinality(take) = Cardinality(whole) BY <1>1, LesserOfTwo
<1> QED BY <1>2, FS_Subset

(* Whatever is stored, the period applied is at least the floor.           *)
LEMMA PeriodAboveFloor ==
  ASSUME RetentionTyped
  PROVE  parsePolicy \in Nat /\ parsePolicy >= Floor
BY RetentionAssumption DEF RetentionTyped, parsePolicy, inBounds

(* A replica's part of the invariant is kept by whatever neither touches   *)
(* its own state nor undoes what is done: time passes, bookings are        *)
(* cleared, drafts are deleted or saved anew to expire later than now.     *)
LEMMA PartKept ==
  ASSUME RetentionTyped, RetentionTyped', NEW p \in Replicas, RunKept(p),
         job'[p] = job[p], excused'[p] = excused[p], visit' = visit, year' >= year,
         \A b \in Records : cleared'[b] = Open => cleared[b] = Open,
         \A d \in Drafts : expires'[d] \in {expires[d], Open} \/ expires'[d] > year
  PROVE  RunKept(p)'
<1>0. job[p] \in Jobs /\ job[p].now \in Int /\ job[p].before \in Int BY DEF RetentionTyped, Jobs
<1>1. PastCutOff(p)' \subseteq PastCutOff(p) BY DEF PastCutOff
<1>2. CutOffOld(p)' 
  <2>1. CutOffOld(p) /\ year \in Nat /\ year' \in Nat /\ Floor \in Int
    BY RetentionAssumption DEF RunKept, RetentionTyped
  <2> QED BY <1>0, <2>1 DEF CutOffOld, Running
<1>3. Running(p) => expiredDrafts(job[p].now)' \subseteq expiredDrafts(job[p].now)
  <2> SUFFICES ASSUME Running(p), NEW d \in Drafts, expires'[d] # Open, expires'[d] < job[p].now
               PROVE  expires'[d] = expires[d]
    BY DEF expiredDrafts
  <2>1. job[p].now <= year BY DEF RunKept, CutOffOld
  <2>2. expires'[d] \in Nat /\ year \in Nat BY DEF RetentionTyped, Open
  <2> QED BY <1>0, <2>1, <2>2
<1>5. LastDrafts(p)' /\ DraftsGone(p)' BY <1>3 DEF RunKept, LastDrafts, DraftsGone, Running
<1>4. LastBatch(p)' /\ NothingLeft(p)' BY <1>1 DEF RunKept, LastBatch, NothingLeft
<1> QED BY <1>2, <1>4, <1>5 DEF RunKept

-----------------------------------------------------------------------------
(* Retention: the invariant holds at the start and is kept by every step.  *)

LEMMA RetentionInitially == RetentionInit => RetentionInv
<1> SUFFICES ASSUME RetentionInit PROVE RetentionInv OBVIOUS
<1>1. Asleep \in Jobs BY DEF Asleep, Jobs, Phases
<1>2. RetentionTyped BY <1>1 DEF RetentionInit, RetentionTyped
<1>3. \A p \in Replicas : job[p].phase = "asleep" BY DEF RetentionInit, Asleep
<1>4. \A p \in Replicas : RunKept(p)
  BY <1>3 DEF RunKept, CutOffOld, LastDrafts, DraftsGone, LastBatch, NothingLeft, Running
<1>5. NeverTooEarly /\ RunsAreWhole BY DEF RetentionInit, NeverTooEarly, RunsAreWhole
<1> QED BY <1>2, <1>4, <1>5 DEF RetentionInv

(* The other replicas, when one takes a step of its own.                   *)
LEMMA OthersKept ==
  ASSUME RetentionInv, RetentionTyped', NEW p \in Replicas, NEW j, NEW e, SetJob(p, j),
         excused' = excused \/ excused' = [excused EXCEPT ![p] = e], visit' = visit, year' = year,
         \A b \in Records : cleared'[b] = Open => cleared[b] = Open,
         \A d \in Drafts : expires'[d] \in {expires[d], Open}
  PROVE  \A q \in Replicas \ {p} : RunKept(q)'
<1> SUFFICES ASSUME NEW q \in Replicas, q # p PROVE RunKept(q)' OBVIOUS
<1>1. job'[q] = job[q] /\ excused'[q] = excused[q] BY DEF SetJob, RetentionInv, RetentionTyped
<1>2. year' >= year BY DEF RetentionInv, RetentionTyped
<1> QED BY <1>1, <1>2, PartKept DEF RetentionInv

(* A step outside the job.                                                 *)
LEMMA AroundKept ==
  ASSUME RetentionInv,
         \/ \E y \in 0..Ceiling : savePolicy(y)
         \/ \E b \in Records : editStarts(b)
         \/ \E d \in Drafts : saveDraft(d)
         \/ editEnds \/ YearPasses \/ UNCHANGED retentionVars
  PROVE  RetentionInv'
<1>1. job' = job /\ excused' = excused /\ visit' = visit /\ cleared' = cleared /\ overlooked' = overlooked
  BY DEF savePolicy, editStarts, saveDraft, editEnds, YearPasses, retentionVars
<1>2. RetentionTyped' /\ year' >= year
        /\ \A d \in Drafts : expires'[d] \in {expires[d], Open} \/ expires'[d] > year
  <2>1. CASE \E d \in Drafts : saveDraft(d)
    BY <1>1, <2>1 DEF saveDraft, RetentionTyped, RetentionInv
  <2>2. CASE \E y \in 0..Ceiling : savePolicy(y)
    BY <1>1, <2>2 DEF savePolicy, RetentionTyped, RetentionInv
  <2>3. CASE (\E b \in Records : editStarts(b)) \/ editEnds \/ YearPasses \/ UNCHANGED retentionVars
    BY <1>1, <2>3 DEF editStarts, editEnds, YearPasses, retentionVars, RetentionTyped, RetentionInv
  <2> QED BY <2>1, <2>2, <2>3
<1>3. \A p \in Replicas : RunKept(p)' BY <1>1, <1>2, PartKept DEF RetentionInv
<1>4. NeverTooEarly' /\ RunsAreWhole' BY <1>1 DEF RetentionInv, NeverTooEarly, RunsAreWhole
<1> QED BY <1>2, <1>3, <1>4 DEF RetentionInv

(* A run begins, after its check or by hand.                               *)
LEMMA BeginKept ==
  ASSUME RetentionInv, NEW p \in Replicas, runIfDue(p) \/ run(p)
  PROVE  RetentionInv'
<1> DEFINE J == [Asleep EXCEPT !.phase = "due"]
           K == [Asleep EXCEPT !.phase = "drafts", !.before = bookingVisitBefore, !.now = year]
<1>0. Asleep \in Jobs /\ Asleep.held = {} BY DEF Asleep, Jobs, Phases
<1>1. J \in Jobs /\ J.phase = "due" BY <1>0 DEF Jobs, Phases
<1>2. year \in Nat /\ parsePolicy \in Nat /\ parsePolicy >= Floor /\ Floor \in Nat
  BY PeriodAboveFloor, RetentionAssumption DEF RetentionInv, RetentionTyped
<1>3. bookingVisitBefore \in Int /\ bookingVisitBefore <= year - Floor BY <1>2 DEF bookingVisitBefore
<1>4. K \in Jobs /\ K.phase = "drafts" /\ K.before = bookingVisitBefore /\ K.now = year /\ K.held = {}
  <2>0. year \in Int /\ bookingVisitBefore \in Int /\ "drafts" \in Phases BY <1>2, <1>3 DEF Phases
  <2>1. K \in Jobs BY <1>0, <2>0 DEF Jobs
  <2>2. K.phase = "drafts" BY <1>0 DEF Jobs
  <2>3. K.before = bookingVisitBefore BY <1>0 DEF Jobs
  <2>4. K.now = year /\ K.held = {} BY <1>0 DEF Jobs
  <2> QED BY <2>1, <2>2, <2>3, <2>4
<1>5. visit' = visit /\ year' = year /\ cleared' = cleared /\ expires' = expires /\ overlooked' = overlooked
      /\ stored' = stored
  BY DEF runIfDue, run
<1>6. PICK j \in {J, K} : SetJob(p, j) BY DEF runIfDue, run
<1>7. excused' = excused \/ excused' = [excused EXCEPT ![p] = {}] BY DEF runIfDue, run
<1>8. RetentionTyped' BY <1>1, <1>4, <1>5, <1>6, <1>7 DEF RetentionInv, RetentionTyped, SetJob
<1>9. job'[p] = j BY <1>6 DEF SetJob, RetentionInv, RetentionTyped
<1>10. RunKept(p)'
  <2>1. CASE j = J
    BY <1>1, <1>9, <2>1 DEF RunKept, CutOffOld, LastDrafts, DraftsGone, LastBatch, NothingLeft, Running
  <2>2. CASE j = K
    <3> HIDE DEF K
    <3> QED BY <1>2, <1>3, <1>4, <1>5, <1>9, <2>2
            DEF RunKept, CutOffOld, LastDrafts, DraftsGone, LastBatch, NothingLeft, Running
  <2> QED BY <2>1, <2>2
<1>11. \A q \in Replicas \ {p} : RunKept(q)' BY <1>5, <1>6, <1>7, <1>8, OthersKept
<1>12. NeverTooEarly' /\ RunsAreWhole' BY <1>5 DEF RetentionInv, NeverTooEarly, RunsAreWhole
<1> QED BY <1>8, <1>10, <1>11, <1>12 DEF RetentionInv

(* A batch of drafts is taken, those another replica has left out.         *)
LEMMA DoomKept ==
  ASSUME RetentionInv, NEW p \in Replicas, doomDrafts(p)
  PROVE  RetentionInv'
<1> DEFINE past == expiredDrafts(job[p].now)
           free == past \ Doomed
<1>0. job[p] \in Jobs /\ job[p].phase = "drafts" BY DEF RetentionInv, RetentionTyped, doomDrafts
<1>1. PICK gone \in SUBSET free :
        /\ Cardinality(gone) = Min({Batch, Cardinality(free)})
        /\ SetJob(p, [job[p] EXCEPT !.phase = "delete", !.doomed = gone])
  BY DEF doomDrafts
<1>2. excused' = [excused EXCEPT ![p] = excused[p] \cup (past \ free)] BY DEF doomDrafts
<1>3. free \subseteq past /\ past \subseteq Drafts BY DEF expiredDrafts
<1> DEFINE j == [job[p] EXCEPT !.phase = "delete", !.doomed = gone]
<1>4. j \in Jobs /\ j.phase = "delete" /\ j.before = job[p].before /\ j.now = job[p].now
      /\ j.doomed = gone /\ j.held = job[p].held
  BY <1>0, <1>3 DEF Jobs, Phases
<1>5. visit' = visit /\ year' = year /\ cleared' = cleared /\ overlooked' = overlooked
      /\ stored' = stored /\ expires' = expires
  BY DEF doomDrafts
<1> HIDE DEF j
<1>6. job' = [job EXCEPT ![p] = j] BY <1>1 DEF SetJob, j
<1>7. RetentionTyped'
  <2>1. excused' \in [Replicas -> SUBSET (Records \cup Drafts)] BY <1>2, <1>3 DEF RetentionInv, RetentionTyped
  <2> QED BY <1>4, <1>5, <1>6, <2>1 DEF RetentionInv, RetentionTyped
<1>8. job'[p] = j /\ excused'[p] = excused[p] \cup (past \ free) BY <1>2, <1>6 DEF RetentionInv, RetentionTyped
<1>9. CutOffOld(p)' /\ DraftsGone(p)' /\ LastBatch(p)' /\ NothingLeft(p)'
  BY <1>0, <1>4, <1>5, <1>8 DEF RetentionInv, RunKept, CutOffOld, LastDrafts, DraftsGone, LastBatch, NothingLeft, Running
<1>10. LastDrafts(p)'
  <2> SUFFICES ASSUME Cardinality(gone) < Batch PROVE expiredDrafts(job[p].now)' \subseteq gone \cup (excused[p] \cup (past \ free))
    BY <1>4, <1>8 DEF LastDrafts
  <2>1. IsFiniteSet(free) BY <1>3, RetentionAssumption, FS_Subset
  <2>2. gone = free
    <3> HIDE DEF free
    <3> QED BY <1>1, <2>1, ShortBatchIsAll
  <2>3. expiredDrafts(job[p].now)' = past BY <1>4, <1>5, <1>8 DEF expiredDrafts
  <2> QED BY <2>2, <2>3
<1>11. \A q \in Replicas \ {p} : RunKept(q)' BY <1>1, <1>2, <1>5, <1>7, OthersKept
<1>12. NeverTooEarly' /\ RunsAreWhole' BY <1>5 DEF RetentionInv, NeverTooEarly, RunsAreWhole
<1> QED BY <1>7, <1>9, <1>10, <1>11, <1>12 DEF RetentionInv, RunKept

(* It is deleted. After the last one, which fell short, no draft that had  *)
(* expired when the run began is left, but for those found locked.         *)
LEMMA DraftsKept ==
  ASSUME RetentionInv, NEW p \in Replicas, clearDrafts(p)
  PROVE  RetentionInv'
<1> DEFINE gone == job[p].doomed
<1>0. job[p] \in Jobs /\ job[p].phase = "delete" /\ gone \subseteq Drafts
  BY DEF RetentionInv, RetentionTyped, clearDrafts, Jobs
<1>1. expires' = [d \in Drafts |-> IF d \in gone THEN Open ELSE expires[d]] BY DEF clearDrafts
<1>2. PICK ph \in {"bookings", "drafts"} :
        /\ SetJob(p, [job[p] EXCEPT !.doomed = {}, !.phase = ph])
        /\ ph = "bookings" => Cardinality(gone) < Batch
  BY DEF clearDrafts
<1> DEFINE j == [job[p] EXCEPT !.doomed = {}, !.phase = ph]
<1>3. j \in Jobs /\ j.phase = ph /\ j.before = job[p].before /\ j.now = job[p].now /\ j.held = job[p].held
  BY <1>0 DEF Jobs, Phases
<1>4. visit' = visit /\ year' = year /\ cleared' = cleared /\ overlooked' = overlooked
      /\ stored' = stored /\ excused' = excused
  BY DEF clearDrafts
<1>5. expires' \in [Drafts -> Nat \cup {Open}] /\ \A d \in Drafts : expires'[d] \in {expires[d], Open}
  BY <1>1 DEF RetentionInv, RetentionTyped
<1> HIDE DEF j
<1>6. job' = [job EXCEPT ![p] = j] BY <1>2 DEF SetJob, j
<1>7. RetentionTyped' BY <1>3, <1>4, <1>5, <1>6 DEF RetentionInv, RetentionTyped
<1>8. job'[p] = j BY <1>6 DEF RetentionInv, RetentionTyped
<1>9. ph = "bookings" => expiredDrafts(job[p].now)' \subseteq excused[p]
  <2> SUFFICES ASSUME ph = "bookings", NEW d \in Drafts, expires'[d] # Open, expires'[d] < job[p].now
               PROVE  d \in excused[p]
    BY <1>3, <1>8 DEF expiredDrafts
  <2>1. d \notin gone /\ expires[d] = expires'[d] BY <1>1
  <2>2. expiredDrafts(job[p].now) \subseteq gone \cup excused[p]
    BY <1>0, <1>2 DEF RetentionInv, RunKept, LastDrafts
  <2> QED BY <2>1, <2>2 DEF expiredDrafts
<1>10. RunKept(p)'
  BY <1>0, <1>2, <1>3, <1>4, <1>8, <1>9
  DEF RetentionInv, RunKept, CutOffOld, LastDrafts, DraftsGone, LastBatch, NothingLeft, Running
<1>11. \A q \in Replicas \ {p} : RunKept(q)' BY <1>2, <1>4, <1>5, <1>7, OthersKept
<1>12. NeverTooEarly' /\ RunsAreWhole' BY <1>4 DEF RetentionInv, NeverTooEarly, RunsAreWhole
<1> QED BY <1>7, <1>10, <1>11, <1>12 DEF RetentionInv

(* A batch of bookings is taken under its row locks.                       *)
LEMMA BatchKept ==
  ASSUME RetentionInv, NEW p \in Replicas, anonymiseBatch(p)
  PROVE  RetentionInv'
<1> DEFINE past == PastCutOff(p)
           free == SkipLocked(past)
<1>0. job[p] \in Jobs /\ job[p].phase = "bookings" BY DEF RetentionInv, RetentionTyped, anonymiseBatch
<1>1. PICK take \in SUBSET free :
        /\ Cardinality(take) = Min({Batch, Cardinality(free)})
        /\ SetJob(p, [job[p] EXCEPT !.phase = "commit", !.held = take])
  BY DEF anonymiseBatch, PastCutOff
<1>2. excused' = [excused EXCEPT ![p] = excused[p] \cup (past \ free)] BY DEF anonymiseBatch, PastCutOff
<1>3. free \subseteq past /\ past \subseteq Records BY DEF SkipLocked, PastCutOff
<1> DEFINE j == [job[p] EXCEPT !.phase = "commit", !.held = take]
<1>4. j \in Jobs /\ j.phase = "commit" /\ j.before = job[p].before /\ j.now = job[p].now /\ j.held = take
  BY <1>0, <1>3 DEF Jobs, Phases
<1>5. visit' = visit /\ year' = year /\ cleared' = cleared /\ overlooked' = overlooked
      /\ stored' = stored /\ expires' = expires
  BY DEF anonymiseBatch
<1> HIDE DEF j
<1>6. job' = [job EXCEPT ![p] = j] BY <1>1 DEF SetJob, j
<1>7. RetentionTyped'
  <2>1. excused' \in [Replicas -> SUBSET (Records \cup Drafts)] BY <1>2, <1>3 DEF RetentionInv, RetentionTyped
  <2> QED BY <1>4, <1>5, <1>6, <2>1 DEF RetentionInv, RetentionTyped
<1>8. job'[p] = j /\ excused'[p] = excused[p] \cup (past \ free) BY <1>2, <1>6 DEF RetentionInv, RetentionTyped
<1>9. CutOffOld(p)' /\ LastDrafts(p)' /\ DraftsGone(p)' /\ NothingLeft(p)'
  <2>1. \A b \in take : visit[b] < job[p].before BY <1>3 DEF PastCutOff
  <2>2. expiredDrafts(job[p].now)' \subseteq excused[p]
    BY <1>0, <1>4, <1>5, <1>8 DEF RetentionInv, RunKept, DraftsGone, expiredDrafts
  <2> QED BY <1>0, <1>4, <1>5, <1>8, <2>1, <2>2
          DEF RetentionInv, RunKept, CutOffOld, LastDrafts, DraftsGone, NothingLeft, Running
<1>10. LastBatch(p)'
  <2> SUFFICES ASSUME Cardinality(take) < Batch PROVE PastCutOff(p)' \subseteq take \cup (excused[p] \cup (past \ free))
    BY <1>4, <1>8 DEF LastBatch
  <2>1. IsFiniteSet(free) BY <1>3, RetentionAssumption, FS_Subset
  <2>2. take = free BY <1>1, <2>1, ShortBatchIsAll
  <2>3. PastCutOff(p)' = past BY <1>4, <1>5, <1>8 DEF PastCutOff
  <2> QED BY <2>2, <2>3
<1>11. \A q \in Replicas \ {p} : RunKept(q)' BY <1>1, <1>2, <1>5, <1>7, OthersKept
<1>12. NeverTooEarly' /\ RunsAreWhole' BY <1>5 DEF RetentionInv, NeverTooEarly, RunsAreWhole
<1> QED BY <1>7, <1>9, <1>10, <1>11, <1>12 DEF RetentionInv, RunKept

(* The batch commits: its bookings are past their period, as they were     *)
(* when it was taken; after one that fell short nothing is left.           *)
LEMMA CommitKept ==
  ASSUME RetentionInv, NEW p \in Replicas, commitBatch(p)
  PROVE  RetentionInv'
<1> DEFINE held == job[p].held
<1>0. job[p] \in Jobs /\ job[p].phase = "commit" /\ held \subseteq Records
  BY DEF RetentionInv, RetentionTyped, commitBatch, Jobs
<1>1. year \in Nat /\ Floor \in Nat /\ visit \in [Records -> Nat]
  BY RetentionAssumption DEF RetentionInv, RetentionTyped
<1>2. PICK ph \in {"bookings", "record"} :
        /\ SetJob(p, [job[p] EXCEPT !.held = {}, !.phase = ph])
        /\ ph = "record" => Cardinality(held) < Batch
  BY DEF commitBatch, inBatches
<1> DEFINE j == [job[p] EXCEPT !.held = {}, !.phase = ph]
<1>3. j \in Jobs /\ j.phase = ph /\ j.before = job[p].before /\ j.now = job[p].now /\ j.held = {}
  BY <1>0 DEF Jobs, Phases
<1>4. visit' = visit /\ year' = year /\ overlooked' = overlooked
      /\ stored' = stored /\ excused' = excused /\ expires' = expires
  BY DEF commitBatch
<1> HIDE DEF j
<1>5. cleared' = [b \in Records |-> IF b \in held THEN year ELSE cleared[b]] BY DEF commitBatch
<1>6. job' = [job EXCEPT ![p] = j] BY <1>2 DEF SetJob, j
<1>7. RetentionTyped'
  <2>1. cleared' \in [Records -> Nat \cup {Open}] BY <1>1, <1>5 DEF RetentionInv, RetentionTyped
  <2> QED BY <1>3, <1>4, <1>6, <2>1 DEF RetentionInv, RetentionTyped
<1>8. job'[p] = j BY <1>6 DEF RetentionInv, RetentionTyped
<1>9. \A b \in Records : (cleared'[b] = Open => cleared[b] = Open /\ b \notin held)
  BY <1>1, <1>5 DEF Open
<1>10. expiredDrafts(job[p].now)' \subseteq excused[p]
  BY <1>0, <1>3, <1>4, <1>8 DEF RetentionInv, RunKept, DraftsGone, expiredDrafts
<1>11. ph = "record" => PastCutOff(p)' \subseteq excused[p]
  <2> SUFFICES ASSUME ph = "record", NEW b \in PastCutOff(p)' PROVE b \in excused[p] OBVIOUS
  <2>1. b \in PastCutOff(p) /\ b \notin held BY <1>3, <1>4, <1>8, <1>9 DEF PastCutOff
  <2>2. PastCutOff(p) \subseteq held \cup excused[p]
    BY <1>0, <1>2 DEF RetentionInv, RunKept, LastBatch
  <2> QED BY <2>1, <2>2
<1>12. CutOffOld(p)'
  BY <1>0, <1>3, <1>4, <1>8 DEF RetentionInv, RunKept, CutOffOld, Running
<1>13. RunKept(p)'
  BY <1>3, <1>4, <1>8, <1>10, <1>11, <1>12 DEF RunKept, LastDrafts, DraftsGone, LastBatch, NothingLeft
<1>14. \A q \in Replicas \ {p} : RunKept(q)' BY <1>2, <1>4, <1>7, <1>9, OthersKept
<1>15. NeverTooEarly'
  <2> SUFFICES ASSUME NEW b \in Records, cleared'[b] # Open PROVE cleared'[b] - visit[b] > Floor
    BY <1>4 DEF NeverTooEarly
  <2>1. CASE b \in held
    <3>1. visit[b] < job[p].before /\ job[p].before <= year - Floor
      BY <1>0, <2>1 DEF RetentionInv, RunKept, CutOffOld, Running
    <3>2. cleared'[b] = year /\ visit[b] \in Nat /\ job[p].before \in Int BY <1>0, <1>1, <1>5, <2>1 DEF Jobs
    <3> QED BY <1>1, <3>1, <3>2
  <2>2. CASE b \notin held BY <1>5, <2>2 DEF RetentionInv, NeverTooEarly
  <2> QED BY <2>1, <2>2
<1>16. RunsAreWhole' BY <1>4 DEF RetentionInv, RunsAreWhole
<1> QED BY <1>7, <1>13, <1>14, <1>15, <1>16 DEF RetentionInv

(* A run stops half-way, or is written down: one that calls itself a       *)
(* success has nothing left to do.                                         *)
LEMMA EndKept ==
  ASSUME RetentionInv, NEW p \in Replicas, runFails(p) \/ recordRun(p)
  PROVE  RetentionInv'
<1>0. job[p] \in Jobs /\ Asleep \in Jobs BY DEF RetentionInv, RetentionTyped, Asleep, Jobs, Phases
<1>1. visit' = visit /\ year' = year /\ cleared' = cleared /\ stored' = stored
      /\ excused' = excused /\ expires' = expires
  BY DEF runFails, recordRun
<1>2. PICK j \in Jobs :
        /\ SetJob(p, j)
        /\ \/ j.phase = "asleep"
           \/ /\ j.phase = "record" /\ ~j.ok /\ j.held = {} /\ Running(p)
              /\ j.before = job[p].before /\ j.now = job[p].now
  <2>1. CASE recordRun(p) BY <1>0, <2>1 DEF recordRun, Asleep
  <2>2. CASE runFails(p)
    <3> DEFINE j == [job[p] EXCEPT !.doomed = {}, !.held = {}, !.ok = FALSE, !.phase = "record"]
    <3>1. j \in Jobs BY <1>0 DEF Jobs, Phases
    <3>2. j.phase = "record" /\ ~j.ok /\ j.held = {} /\ j.before = job[p].before /\ j.now = job[p].now
      BY <1>0 DEF Jobs
    <3>3. SetJob(p, j) /\ Running(p) BY <2>2 DEF runFails, Running
    <3> HIDE DEF j
    <3> QED BY <3>1, <3>2, <3>3
  <2> QED BY <2>1, <2>2
<1>3. RetentionTyped' BY <1>1, <1>2 DEF SetJob, RetentionInv, RetentionTyped
<1>4. job'[p] = j BY <1>2 DEF SetJob, RetentionInv, RetentionTyped
<1>5. RunKept(p)'
  BY <1>1, <1>2, <1>4 DEF RetentionInv, RunKept, CutOffOld, LastDrafts, DraftsGone, LastBatch, NothingLeft, Running
<1>6. \A q \in Replicas \ {p} : RunKept(q)' BY <1>1, <1>2, <1>3, OthersKept
<1>7. NeverTooEarly' BY <1>1 DEF RetentionInv, NeverTooEarly
<1>8. RunsAreWhole'
  <2>1. CASE runFails(p) BY <2>1 DEF runFails, RetentionInv, RunsAreWhole
  <2>2. CASE recordRun(p)
    <3>1. job[p].phase = "record" /\ overlooked' = (overlooked \/ (job[p].ok /\ Left(p) # {}))
      BY <2>2 DEF recordRun
    <3>2. job[p].ok => expiredDrafts(job[p].now) \subseteq excused[p] /\ PastCutOff(p) \subseteq excused[p]
      BY <3>1 DEF RetentionInv, RunKept, DraftsGone, NothingLeft
    <3>3. job[p].ok => Left(p) = {} BY <3>2 DEF Left, PastCutOff
    <3> QED BY <3>1, <3>3 DEF RetentionInv, RunsAreWhole
  <2> QED BY <2>1, <2>2
<1> QED BY <1>3, <1>5, <1>6, <1>7, <1>8 DEF RetentionInv

LEMMA RetentionStep == RetentionInv /\ [RetentionNext]_retentionVars => RetentionInv'
BY AroundKept, BeginKept, DoomKept, DraftsKept, BatchKept, CommitKept, EndKept DEF RetentionNext

-----------------------------------------------------------------------------

(* What the type adds: no two replicas hold a row, nor one an edit has     *)
(* locked.                                                                 *)
LocksApart ==
  /\ year <= MaxYear /\ lastRun \in Nat \cup {Open} /\ overlooked \in BOOLEAN /\ editing \subseteq Records
  /\ \A p \in Replicas : editing \cap job[p].held = {}
  /\ \A p, q \in Replicas : p # q => job[p].held \cap job[q].held = {}

(* A replica takes only what nobody holds.                                 *)
LEMMA TurnApart ==
  ASSUME RetentionInv, LocksApart, NEW p \in Replicas, NEW j \in Jobs, SetJob(p, j),
         UNCHANGED <<year, editing>>, lastRun' \in {lastRun, year}, overlooked' \in BOOLEAN,
         j.held \subseteq job[p].held \/ j.held \cap (Held \cup editing) = {}
  PROVE  LocksApart'
<1>1. job \in [Replicas -> Jobs] /\ year \in Nat BY DEF RetentionInv, RetentionTyped
<1>2. job'[p] = j /\ \A q \in Replicas \ {p} : job'[q] = job[q] BY <1>1 DEF SetJob
<1>3. \A q \in Replicas \ {p} : j.held \cap job[q].held = {} BY DEF LocksApart, Held
<1>4. editing \cap j.held = {} BY DEF LocksApart
<1> QED BY <1>1, <1>2, <1>3, <1>4 DEF LocksApart

LEMMA LocksStep == RetentionInv /\ LocksApart /\ [RetentionNext]_retentionVars => LocksApart'
<1> SUFFICES ASSUME RetentionInv, LocksApart, [RetentionNext]_retentionVars PROVE LocksApart' OBVIOUS
<1>0. Asleep \in Jobs /\ Asleep.held = {} /\ year \in Nat /\ overlooked \in BOOLEAN /\ job \in [Replicas -> Jobs]
  BY DEF Asleep, Jobs, Phases, RetentionInv, RetentionTyped, LocksApart
<1>1. ASSUME NEW p \in Replicas, runIfDue(p) \/ run(p) PROVE LocksApart'
  <2>1. UNCHANGED <<year, editing, lastRun, overlooked>> BY <1>1 DEF runIfDue, run
  <2>2. bookingVisitBefore \in Int
    BY <1>0, PeriodAboveFloor DEF RetentionInv, bookingVisitBefore
  <2> DEFINE J == [Asleep EXCEPT !.phase = "due"]
             K == [Asleep EXCEPT !.phase = "drafts", !.before = bookingVisitBefore, !.now = year]
  <2>3. J \in Jobs /\ J.held = {} BY <1>0 DEF Jobs, Phases
  <2>4. K \in Jobs /\ K.held = {}
    <3>0. year \in Int /\ "drafts" \in Phases BY <1>0 DEF Phases
    <3>1. K \in Jobs BY <1>0, <2>2, <3>0 DEF Jobs
    <3>2. K.held = {} BY <1>0 DEF Jobs
    <3> QED BY <3>1, <3>2
  <2>5. PICK j \in {J, K} : SetJob(p, j) BY <1>1 DEF runIfDue, run
  <2> HIDE DEF J, K
  <2>6. j \in Jobs /\ j.held = {} BY <2>3, <2>4, <2>5
  <2> QED BY <1>0, <2>1, <2>5, <2>6, TurnApart
<1>2. ASSUME NEW p \in Replicas, doomDrafts(p) \/ clearDrafts(p) PROVE LocksApart'
  <2>1. UNCHANGED <<year, editing, lastRun, overlooked>> BY <1>2 DEF doomDrafts, clearDrafts
  <2>2. PICK gone \in SUBSET Drafts, ph \in {"delete", "bookings", "drafts"} :
          SetJob(p, [job[p] EXCEPT !.doomed = gone, !.phase = ph])
    <3>1. CASE doomDrafts(p)
      <4>1. PICK gone \in SUBSET expiredDrafts(job[p].now) :
              SetJob(p, [job[p] EXCEPT !.phase = "delete", !.doomed = gone])
        BY <3>1 DEF doomDrafts
      <4>2. [job[p] EXCEPT !.phase = "delete", !.doomed = gone] = [job[p] EXCEPT !.doomed = gone, !.phase = "delete"]
        BY <1>0 DEF Jobs
      <4> QED BY <4>1, <4>2 DEF expiredDrafts
    <3>2. CASE clearDrafts(p) BY <3>2 DEF clearDrafts
    <3> QED BY <1>2, <3>1, <3>2
  <2> DEFINE j == [job[p] EXCEPT !.doomed = gone, !.phase = ph]
  <2>3. job[p] \in Jobs BY <1>0
  <2>4. j \in Jobs /\ j.held = job[p].held BY <2>3 DEF Jobs, Phases
  <2>5. SetJob(p, j) BY <2>2
  <2> HIDE DEF j
  <2> QED BY <1>0, <2>1, <2>4, <2>5, TurnApart
<1>3. ASSUME NEW p \in Replicas, anonymiseBatch(p) PROVE LocksApart'
  <2>1. UNCHANGED <<year, editing, lastRun, overlooked>> BY <1>3 DEF anonymiseBatch
  <2>2. PICK take \in SUBSET SkipLocked(PastCutOff(p)) :
          SetJob(p, [job[p] EXCEPT !.phase = "commit", !.held = take])
    BY <1>3 DEF anonymiseBatch, PastCutOff
  <2> DEFINE j == [job[p] EXCEPT !.phase = "commit", !.held = take]
  <2>3. job[p] \in Jobs /\ take \subseteq Records /\ take \cap (Held \cup editing) = {}
    BY <1>0 DEF SkipLocked, PastCutOff
  <2>4. j \in Jobs /\ j.held = take BY <2>3 DEF Jobs, Phases
  <2>5. SetJob(p, j) BY <2>2
  <2> HIDE DEF j
  <2> QED BY <1>0, <2>1, <2>3, <2>4, <2>5, TurnApart
<1>4. ASSUME NEW p \in Replicas, commitBatch(p) \/ runFails(p) PROVE LocksApart'
  <2>1. UNCHANGED <<year, editing, lastRun, overlooked>> BY <1>4 DEF commitBatch, runFails
  <2>2. PICK j \in Jobs : j.held = {} /\ SetJob(p, j)
    <3>1. job[p] \in Jobs BY <1>0
    <3>2. CASE commitBatch(p)
      <4>1. PICK ph \in {"bookings", "record"} : SetJob(p, [job[p] EXCEPT !.held = {}, !.phase = ph])
        BY <3>2 DEF commitBatch, inBatches
      <4> DEFINE j == [job[p] EXCEPT !.held = {}, !.phase = ph]
      <4>2. j \in Jobs /\ j.held = {} BY <3>1 DEF Jobs, Phases
      <4>3. SetJob(p, j) BY <4>1
      <4> HIDE DEF j
      <4> QED BY <4>2, <4>3
    <3>3. CASE runFails(p)
      <4> DEFINE j == [job[p] EXCEPT !.doomed = {}, !.held = {}, !.ok = FALSE, !.phase = "record"]
      <4>1. j \in Jobs /\ j.held = {} BY <3>1 DEF Jobs, Phases
      <4>2. SetJob(p, j) BY <3>3 DEF runFails
      <4> HIDE DEF j
      <4> QED BY <4>1, <4>2
    <3> QED BY <1>4, <3>2, <3>3
  <2> QED BY <1>0, <2>1, <2>2, TurnApart
<1>5. ASSUME NEW p \in Replicas, recordRun(p) PROVE LocksApart'
  <2>1. UNCHANGED <<year, editing>> /\ SetJob(p, Asleep) /\ lastRun' \in {lastRun, year} BY <1>5 DEF recordRun
  <2>2. overlooked' \in BOOLEAN
    <3>1. overlooked' = (overlooked \/ (job[p].ok /\ Left(p) # {})) BY <1>5 DEF recordRun
    <3> QED BY <3>1
  <2> QED BY <1>0, <2>1, <2>2, TurnApart
<1>6. CASE \/ \E y \in 0..Ceiling : savePolicy(y)
           \/ \E d \in Drafts : saveDraft(d)
           \/ editEnds \/ YearPasses \/ UNCHANGED retentionVars
  <2>1. UNCHANGED <<job, lastRun, overlooked>> /\ editing' \in {editing, {}}
    BY <1>6 DEF savePolicy, saveDraft, editEnds, YearPasses, retentionVars
  <2>2. year' <= MaxYear
    BY <1>0, <1>6, RetentionAssumption DEF LocksApart, savePolicy, saveDraft, editEnds, YearPasses, retentionVars
  <2> QED BY <2>1, <2>2 DEF LocksApart
<1>7. CASE \E b \in Records : editStarts(b)
  <2>1. PICK b \in Records : b \notin Held /\ editing' = {b} BY <1>7 DEF editStarts
  <2>2. UNCHANGED <<job, lastRun, overlooked, year>> BY <1>7 DEF editStarts
  <2>3. \A p \in Replicas : editing' \cap job[p].held = {} BY <2>1 DEF Held
  <2> QED BY <2>1, <2>2, <2>3 DEF LocksApart
<1> QED BY <1>1, <1>2, <1>3, <1>4, <1>5, <1>6, <1>7 DEF RetentionNext

LEMMA LocksInitially == RetentionInit => LocksApart
<1> SUFFICES ASSUME RetentionInit PROVE LocksApart OBVIOUS
<1>1. year <= MaxYear BY RetentionAssumption DEF RetentionInit
<1>3. lastRun \in Nat \cup {Open} /\ overlooked \in BOOLEAN /\ editing = {} BY Zenon DEF RetentionInit
<1>2. \A p \in Replicas : job[p].held = {} BY DEF RetentionInit, Asleep
<1> QED BY <1>1, <1>2, <1>3 DEF LocksApart

LEMMA RetentionInvImplies == RetentionInv /\ LocksApart => RetentionTypeOK
<1> SUFFICES ASSUME RetentionInv, LocksApart PROVE RetentionTypeOK OBVIOUS
<1>1. editing \cap Held = {} BY DEF LocksApart, Held
<1>2. \A p \in Replicas : job[p].phase \in Phases BY DEF RetentionInv, RetentionTyped, Jobs
<1>3. year \in 0..MaxYear BY RetentionAssumption DEF RetentionInv, RetentionTyped, LocksApart
<1> QED BY <1>1, <1>2, <1>3 DEF RetentionInv, RetentionTyped, LocksApart, RetentionTypeOK, Phases

(* No booking is anonymised before the floor has passed since its visit,   *)
(* whatever the settings row holds and whoever changes it under a run, and *)
(* a run that reports success has left nothing that was due, except rows   *)
(* it found locked (retention.service run, inBatches; retention.policy).   *)
THEOREM PeriodsSafe == RetentionSpec => []PeriodsKept
<1>1. RetentionInv => PeriodsKept BY DEF RetentionInv, PeriodsKept
<1> QED BY <1>1, RetentionInitially, RetentionStep, PTL DEF RetentionSpec

-----------------------------------------------------------------------------
(* Backups: the invariant, part by part.                                   *)

RunStages == {"due", "dumped", "described", "copying", "copied", "retained", "failed", "record", "test", "done"}

BackupsTyped ==
  /\ night \in Nights /\ nightly \in [Nights -> Dump] /\ monthly \in [Nights -> Dump]
  /\ log \in Log /\ runAt \in RunStages
  /\ taken \subseteq {monthOf(n) : n \in Nights} /\ torn \subseteq {monthOf(n) : n \in Nights}

(* Nothing is kept of nights to come; tonight's dump is there, whole, once *)
(* it has its manifest, and only then.                                     *)
Tonight ==
  /\ \A n \in Nights : n > night => nightly[n] = "none" /\ monthly[n] = "none"
  /\ runAt = "due" => nightly[night] = "none"
  /\ runAt \in {"described", "copying", "copied", "retained", "record", "test"} => nightly[night] = "whole"
  /\ runAt = "copying" => monthly[night] = "bare"

(* One copy a month at most, which is complete, or cut short and noted; and*)
(* one for every month kept that has had a backup.                         *)
OneAMonth == \A m, n \in sortedDumps(monthly) : m # n => monthOf(m) # monthOf(n)
CopiesWhole ==
  \A n \in sortedDumps(monthly) :
    monthly[n] = "whole" \/ monthOf(n) \in torn \/ (n = night /\ runAt = "copying")
HasCopy(m) == \E n \in sortedDumps(monthly) : monthOf(n) = m
CopiesKept ==
  /\ \A m \in taken : monthOf(night) - m < MonthlyKeep => HasCopy(m)
  /\ runAt \in {"copied", "retained"} => HasCopy(monthOf(night))
  /\ runAt = "copying" => monthOf(night) \notin taken

(* The last good backup is still there, whole, until as many nights have   *)
(* passed as dumps are kept; the last dump tested is whole or gone.        *)
GoodBackup ==
  log.goodBackup.at # Never =>
    /\ log.goodBackup.at <= night
    /\ night - log.goodBackup.at < NightlyKeep => nightly[log.goodBackup.at] = "whole"
GoodTest ==
  log.goodTest.at # Never =>
    /\ log.goodTest.dump \in Nights /\ log.goodTest.dump <= night
    /\ nightly[log.goodTest.dump] \in {"whole", "none"}
    /\ runAt = "due" => log.goodTest.dump # night

Monthlies == OneAMonth /\ CopiesWhole /\ CopiesKept
Nightlies == AlwaysRestorable /\ GoodBackup /\ GoodTest
BackupsInv == BackupsTyped /\ Tonight /\ Monthlies /\ Nightlies

-----------------------------------------------------------------------------
(* Backups: facts about the operators.                                     *)

LEMMA MonthsInOrder ==
  /\ \A n \in Nights : monthOf(n) \in Nat
  /\ \A m, n \in Nights : m <= n => monthOf(m) <= monthOf(n)
<1>1. MonthLength \in Nat \ {0} /\ LastNight \in Nat BY BackupsAssumption
<1>2. ASSUME NEW n \in Nights PROVE monthOf(n) \in Nat
  BY <1>1 DEF Nights, monthOf
<1>3. ASSUME NEW m \in Nights, NEW n \in Nights, m <= n PROVE monthOf(m) <= monthOf(n)
  BY <1>1, <1>3 DEF Nights, monthOf
<1> QED BY <1>2, <1>3

(* What is pruned is gone, what is kept is as it was.                      *)
LEMMA Pruned ==
  ASSUME NEW dir \in [Nights -> Dump], NEW keep
  PROVE  /\ prune(dir, keep) \in [Nights -> Dump]
         /\ \A n \in Nights : prune(dir, keep)[n] \in {dir[n], "none"}
         /\ \A n \in sortedDumps(dir) :
              Cardinality({m \in sortedDumps(dir) : m > n}) < keep => prune(dir, keep)[n] = dir[n]
BY DEF prune, Kept, Dump, sortedDumps

(* Of a directory with nothing from later than tonight, a dump as old as   *)
(* the number kept allows survives.                                        *)
LEMMA RecentSurvives ==
  ASSUME NEW dir \in [Nights -> Dump], NEW keep \in Int, NEW last \in Nights, NEW n \in sortedDumps(dir),
         \A m \in Nights : m > last => dir[m] = "none", last - n < keep, 0 < keep
  PROVE  prune(dir, keep)[n] = dir[n]
<1> DEFINE newer == {m \in sortedDumps(dir) : m > n}
<1>1. n \in Int /\ last \in Int BY BackupsAssumption DEF sortedDumps, Nights
<1>2. newer \subseteq (n + 1)..last BY BackupsAssumption DEF sortedDumps, Nights
<1>3. IsFiniteSet((n + 1)..last) /\ Cardinality((n + 1)..last) = IF n + 1 > last THEN 0 ELSE last - (n + 1) + 1
  BY <1>1, FS_Interval
<1>4. Cardinality(newer) <= Cardinality((n + 1)..last) /\ Cardinality(newer) \in Nat
  BY <1>2, <1>3, FS_Subset, FS_CardinalityType
<1>5. Cardinality(newer) < keep BY <1>1, <1>3, <1>4
<1> QED BY <1>5, Pruned

(* Of a directory with one dump a month, the dump of a month as old as the *)
(* number kept allows survives.                                            *)
LEMMA RecentMonthSurvives ==
  ASSUME NEW dir \in [Nights -> Dump], NEW keep \in Int, NEW last \in Nights, NEW n \in sortedDumps(dir),
         \A m \in Nights : m > last => dir[m] = "none",
         \A a, b \in sortedDumps(dir) : a # b => monthOf(a) # monthOf(b),
         monthOf(last) - monthOf(n) < keep, 0 < keep
  PROVE  prune(dir, keep)[n] = dir[n]
<1> DEFINE newer == {m \in sortedDumps(dir) : m > n}
           months == (monthOf(n) + 1)..monthOf(last)
           monthAt == [m \in newer |-> monthOf(m)]
<1>0. sortedDumps(dir) \subseteq Nights /\ \A m \in Nights : m \in Int BY BackupsAssumption DEF sortedDumps, Nights
<1>1. monthOf(n) \in Nat /\ monthOf(last) \in Nat BY <1>0, MonthsInOrder
<1>2. ASSUME NEW m \in newer PROVE monthOf(m) \in months
  <2>1. m \in Nights /\ m > n /\ m <= last BY <1>0 DEF sortedDumps
  <2>2. monthOf(n) <= monthOf(m) /\ monthOf(m) <= monthOf(last) /\ monthOf(m) \in Nat
    BY <1>0, <2>1, MonthsInOrder
  <2>3. monthOf(m) # monthOf(n) BY <1>0, <2>1
  <2> QED BY <1>1, <2>2, <2>3
<1>3. monthAt \in [newer -> months] BY <1>2
<1>4. \A a, b \in newer : monthAt[a] = monthAt[b] => a = b OBVIOUS
<1>5. IsFiniteSet(months)
      /\ Cardinality(months) = IF monthOf(n) + 1 > monthOf(last) THEN 0 ELSE monthOf(last) - (monthOf(n) + 1) + 1
  <2>1. monthOf(n) + 1 \in Int /\ monthOf(last) \in Int BY <1>1
  <2> QED BY <2>1, FS_Interval
<1> HIDE DEF monthAt, months
<1>6. monthAt \in Injection(newer, months) BY <1>3, <1>4 DEF Injection, IsInjective
<1>7. IsFiniteSet(newer) /\ Cardinality(newer) <= Cardinality(months) BY <1>5, <1>6, FS_Injection
<1>8. Cardinality(newer) \in Nat BY <1>7, FS_CardinalityType
<1>9. Cardinality(newer) < keep BY <1>1, <1>5, <1>7, <1>8
<1> QED BY <1>9, Pruned

(* The newest dump is one of those there.                                  *)
LEMMA NewestIsThere ==
  ASSUME sortedDumps(nightly) # {}
  PROVE  newestDump \in sortedDumps(nightly)
<1> DEFINE S == sortedDumps(nightly)
           T == {LastNight - n : n \in S}
<1>1. S \subseteq Nights /\ \A n \in S : n \in Int /\ LastNight - n \in Nat
  BY BackupsAssumption DEF sortedDumps, Nights
<1>2. T \in SUBSET Nat /\ T # {} BY <1>1
<1>3. PICK k \in T : \A j \in T : k <= j BY <1>2, LeastOf
<1>4. PICK n \in S : k = LastNight - n BY <1>3
<1>5. \A m \in S : LastNight - n <= LastNight - m BY <1>3, <1>4
<1>6. \A m \in S : n >= m BY <1>1, <1>5, BackupsAssumption
<1> HIDE DEF S
<1> QED BY <1>6 DEF newestDump, Max, S

-----------------------------------------------------------------------------
(* Backups: one lemma per action, or per few of a kind.                    *)

LEMMA NightFacts ==
  ASSUME BackupsInv
  PROVE  /\ night \in Int /\ night >= 1 /\ MonthlyKeep \in Int /\ 0 < MonthlyKeep
         /\ NightlyKeep \in Int /\ 0 < NightlyKeep /\ monthOf(night) \in Int
         /\ \A m \in taken : m \in Int
         /\ log.goodBackup \in Entry /\ log.goodTest \in Entry
         /\ \A n \in Nights : n \in Int /\ n # Never
<1>1. night \in Nights /\ log \in Log BY DEF BackupsInv, BackupsTyped
<1>2. night \in Int /\ night >= 1 BY <1>1, BackupsAssumption DEF Nights
<1>3. monthOf(night) \in Int BY <1>1, MonthsInOrder
<1>4. \A m \in taken : m \in Int BY MonthsInOrder DEF BackupsInv, BackupsTyped
<1>5. \A n \in Nights : n \in Int /\ n # Never BY BackupsAssumption DEF Nights, Never
<1>6. MonthlyKeep \in Int /\ 0 < MonthlyKeep /\ NightlyKeep \in Int /\ 0 < NightlyKeep BY BackupsAssumption
<1>7. log.goodBackup \in Entry /\ log.goodTest \in Entry BY <1>1 DEF Log
<1> QED BY <1>2, <1>3, <1>4, <1>5, <1>6, <1>7

(* Tonight's dump is written, and nothing else moves.                      *)
LEMMA DumpSound ==
  ASSUME BackupsInv, UNCHANGED <<night, monthly, log, taken, torn>>,
         runAt \in {"due", "dumped"}, runAt' \in {"dumped", "described", "failed"},
         NEW d \in Dump, nightly' = nightly \/ nightly' = [nightly EXCEPT ![night] = d],
         nightly[night] # "whole" \/ d = "whole", runAt = "dumped" => d = "whole",
         runAt' = "described" => nightly'[night] = "whole"
  PROVE  BackupsInv'
<1>0. night \in Nights /\ nightly \in [Nights -> Dump] BY DEF BackupsInv, BackupsTyped
<1>1. nightly' \in [Nights -> Dump] /\ \A n \in Nights \ {night} : nightly'[n] = nightly[n] BY <1>0
<1>2. nightly'[night] \in {nightly[night], d} BY <1>0
<1>3. BackupsTyped' BY <1>1 DEF BackupsInv, BackupsTyped, RunStages
<1>4. Tonight' BY <1>0, <1>1, NightFacts DEF BackupsInv, Tonight
<1>5. Monthlies'
  BY DEF BackupsInv, Monthlies, OneAMonth, CopiesWhole, CopiesKept, HasCopy, sortedDumps
<1>6. \A n \in Nights : nightly[n] = "whole" => nightly'[n] = "whole" BY <1>0, <1>1
<1>7. AlwaysRestorable' BY <1>6 DEF BackupsInv, Nightlies, AlwaysRestorable
<1>8. GoodBackup'
  <2>1. log.goodBackup.at # Never => log.goodBackup.at \in Nights BY NightFacts DEF Entry
  <2> QED BY <1>6, <2>1 DEF BackupsInv, Nightlies, GoodBackup
<1>9. GoodTest'
  <2> SUFFICES ASSUME log.goodTest.at # Never
               PROVE  nightly'[log.goodTest.dump] \in {"whole", "none"}
    BY DEF BackupsInv, Nightlies, GoodTest
  <2>1. log.goodTest.dump \in Nights /\ nightly[log.goodTest.dump] \in {"whole", "none"}
        /\ (runAt = "due" => log.goodTest.dump # night)
    BY DEF BackupsInv, Nightlies, GoodTest
  <2>2. CASE log.goodTest.dump # night BY <1>1, <2>1, <2>2
  <2>3. CASE log.goodTest.dump = night BY <1>2, <2>1, <2>3
  <2> QED BY <2>2, <2>3
<1> QED BY <1>3, <1>4, <1>5, <1>7, <1>8, <1>9 DEF BackupsInv, Nightlies

LEMMA DumpsKept ==
  ASSUME BackupsInv, backup \/ writeManifest
  PROVE  BackupsInv'
<1>1. CASE backup
  <2>1. UNCHANGED <<night, monthly, log, taken, torn>> /\ runAt = "due" /\ runAt' \in {"dumped", "failed"}
    BY <1>1 DEF backup, DumpOnto
  <2>2. PICK d \in {"bare", "partial"} : nightly' = nightly \/ nightly' = [nightly EXCEPT ![night] = d]
    BY <1>1 DEF backup, DumpOnto
  <2>3. nightly[night] # "whole" BY <2>1 DEF BackupsInv, Tonight
  <2> QED BY <2>1, <2>2, <2>3, DumpSound DEF Dump
<1>2. CASE writeManifest
  <2>1. UNCHANGED <<night, monthly, log, taken, torn>> /\ runAt = "dumped"
        /\ \/ runAt' = "described" /\ nightly' = [nightly EXCEPT ![night] = "whole"]
           \/ runAt' = "failed" /\ nightly' = nightly
    BY <1>2 DEF writeManifest, Go
  <2>2. night \in Nights /\ nightly \in [Nights -> Dump] BY DEF BackupsInv, BackupsTyped
  <2>3. runAt' = "described" => nightly'[night] = "whole" BY <2>1, <2>2
  <2> QED BY <2>1, <2>3, DumpSound DEF Dump
<1> QED BY <1>1, <1>2

(* A step that leaves the dumps, the log and the night, and begins no night*)
(* anew, keeps what is said of them.                                       *)
LEMMA NightliesStay ==
  ASSUME BackupsInv, UNCHANGED <<night, nightly, log>>, taken' = taken \/ nightly[night] = "whole",
         runAt # "due", runAt' # "due"
  PROVE  Nightlies'
<1>1. night \in Nights BY DEF BackupsInv, BackupsTyped
<1>2. AlwaysRestorable' BY <1>1 DEF BackupsInv, Nightlies, AlwaysRestorable
<1>3. GoodBackup' /\ GoodTest' BY DEF BackupsInv, Nightlies, GoodBackup, GoodTest
<1> QED BY <1>2, <1>3 DEF Nightlies

(* The month's copy is begun: there was none, so the month has had no      *)
(* backup yet and tonight's is its only one.                               *)
LEMMA CopyBegun ==
  ASSUME BackupsInv, needsMonthlyCopy, runAt = "described", NEW d \in {"bare", "partial"},
         monthly' = [monthly EXCEPT ![night] = d], UNCHANGED <<night, nightly, log, taken>>,
         \/ runAt' = "copying" /\ d = "bare" /\ torn' = torn
         \/ runAt' = "done" /\ torn' = torn \cup {monthOf(night)}
  PROVE  BackupsInv'
<1>0. night \in Nights /\ monthly \in [Nights -> Dump] /\ monthOf(night) \in Int
  BY NightFacts DEF BackupsInv, BackupsTyped
<1>1. monthly' \in [Nights -> Dump] /\ monthly'[night] = d /\ \A n \in Nights \ {night} : monthly'[n] = monthly[n]
  BY <1>0 DEF Dump
<1>2. \A n \in sortedDumps(monthly) : n \in Nights /\ n # night /\ monthOf(n) # monthOf(night)
  BY DEF needsMonthlyCopy, sortedDumps
<1>3. sortedDumps(monthly)' = sortedDumps(monthly) \cup {night}
  BY <1>0, <1>1 DEF sortedDumps
<1>4. BackupsTyped'
  <2>1. torn' \subseteq {monthOf(n) : n \in Nights} BY <1>0 DEF BackupsInv, BackupsTyped
  <2> QED BY <1>1, <2>1 DEF BackupsInv, BackupsTyped, RunStages
<1>5. Tonight' BY <1>0, <1>1, NightFacts DEF BackupsInv, Tonight
<1>6. monthOf(night) \notin taken
  <2>1. ~HasCopy(monthOf(night)) BY <1>2 DEF HasCopy
  <2>2. monthOf(night) - monthOf(night) < MonthlyKeep BY <1>0, NightFacts
  <2> QED BY <2>1, <2>2 DEF BackupsInv, Monthlies, CopiesKept
<1>7. OneAMonth' BY <1>2, <1>3 DEF BackupsInv, Monthlies, OneAMonth
<1>8. CopiesWhole'
  <2> SUFFICES ASSUME NEW n \in sortedDumps(monthly)'
               PROVE  monthly'[n] = "whole" \/ monthOf(n) \in torn' \/ (n = night /\ runAt' = "copying")
    BY DEF CopiesWhole
  <2>1. CASE n = night BY <2>1
  <2>2. CASE n # night BY <1>1, <1>2, <1>3, <2>2 DEF BackupsInv, Monthlies, CopiesWhole
  <2> QED BY <2>1, <2>2
<1>9. CopiesKept' BY <1>3, <1>6 DEF BackupsInv, Monthlies, CopiesKept, HasCopy
<1>10. Nightlies' BY NightliesStay
<1> QED BY <1>4, <1>5, <1>7, <1>8, <1>9, <1>10 DEF BackupsInv, Monthlies

(* A step that moves no file and no night, and closes a copy only to note  *)
(* that it was cut short.                                                  *)
LEMMA StageSound ==
  ASSUME BackupsInv, UNCHANGED <<night, nightly, monthly, log>>, runAt' \in RunStages \ {"due", "copying"},
         runAt # "due",
         runAt' \in {"described", "copied", "retained", "record", "test"} => nightly[night] = "whole",
         runAt' \in {"copied", "retained"} => HasCopy(monthOf(night)),
         torn' = IF runAt = "copying" THEN torn \cup {monthOf(night)} ELSE torn,
         taken' = taken \/ (runAt = "retained" /\ taken' = taken \cup {monthOf(night)})
  PROVE  BackupsInv'
<1>0. night \in Nights BY DEF BackupsInv, BackupsTyped
<1>1. BackupsTyped'
  <2>1. torn' \subseteq {monthOf(n) : n \in Nights} /\ taken' \subseteq {monthOf(n) : n \in Nights}
    BY <1>0 DEF BackupsInv, BackupsTyped
  <2> QED BY <2>1 DEF BackupsInv, BackupsTyped
<1>2. Tonight' BY DEF BackupsInv, Tonight
<1>3. sortedDumps(monthly)' = sortedDumps(monthly) BY DEF sortedDumps
<1>4. OneAMonth' BY <1>3 DEF BackupsInv, Monthlies, OneAMonth
<1>5. CopiesWhole' BY <1>3 DEF BackupsInv, Monthlies, CopiesWhole
<1>6. CopiesKept'
  <2>1. \A m : HasCopy(m)' = HasCopy(m) BY <1>3 DEF HasCopy
  <2>2. runAt = "retained" => HasCopy(monthOf(night)) BY DEF BackupsInv, Monthlies, CopiesKept
  <2> QED BY <2>1, <2>2 DEF BackupsInv, Monthlies, CopiesKept
<1>7. runAt = "retained" => nightly[night] = "whole" BY DEF BackupsInv, Tonight
<1>8. Nightlies' BY <1>7, NightliesStay
<1> QED BY <1>1, <1>2, <1>4, <1>5, <1>6, <1>8 DEF BackupsInv, Monthlies

LEMMA CopyMonthlyKept ==
  ASSUME BackupsInv, copyMonthly
  PROVE  BackupsInv'
<1>1. runAt = "described" /\ UNCHANGED <<night, nightly, log, taken>> BY DEF copyMonthly
<1>2. CASE needsMonthlyCopy /\ runAt' = "copying"
  <2>1. monthly' = [monthly EXCEPT ![night] = "bare"] /\ torn' = torn BY <1>2 DEF copyMonthly
  <2> QED BY <1>1, <1>2, <2>1, CopyBegun
<1>3. CASE ~ (needsMonthlyCopy /\ runAt' = "copying")
  <2>1. UNCHANGED <<monthly, torn>> /\ runAt' \in {"failed", "copied"} /\ (runAt' = "copied" => ~needsMonthlyCopy)
    BY <1>3 DEF copyMonthly
  <2>2. ~needsMonthlyCopy => HasCopy(monthOf(night)) BY DEF needsMonthlyCopy, HasCopy
  <2>3. nightly[night] = "whole" BY <1>1 DEF BackupsInv, Tonight
  <2> QED BY <1>1, <2>1, <2>2, <2>3, StageSound DEF RunStages
<1> QED BY <1>2, <1>3

LEMMA CopyManifestKept ==
  ASSUME BackupsInv, copyManifest
  PROVE  BackupsInv'
<1>1. runAt = "copying" /\ UNCHANGED <<night, nightly, log, taken>> BY DEF copyManifest, Go
<1>2. CASE runAt' = "failed"
  <2>1. torn' = torn \cup {monthOf(night)} /\ monthly' = monthly BY <1>2 DEF copyManifest, Go
  <2> QED BY <1>1, <1>2, <2>1, StageSound DEF RunStages
<1>3. CASE runAt' # "failed"
  <2>1. runAt' = "copied" /\ monthly' = [monthly EXCEPT ![night] = "whole"] /\ torn' = torn
    BY <1>3 DEF copyManifest, Go
  <2>2. night \in Nights /\ monthly \in [Nights -> Dump] /\ monthly[night] = "bare" /\ nightly[night] = "whole"
    BY <1>1 DEF BackupsInv, BackupsTyped, Tonight
  <2>3. monthly' \in [Nights -> Dump] /\ monthly'[night] = "whole"
        /\ \A n \in Nights \ {night} : monthly'[n] = monthly[n]
    BY <2>1, <2>2 DEF Dump
  <2>4. sortedDumps(monthly)' = sortedDumps(monthly) /\ night \in sortedDumps(monthly)
    BY <2>2, <2>3 DEF sortedDumps
  <2>5. BackupsTyped' BY <1>1, <2>1, <2>3 DEF BackupsInv, BackupsTyped, RunStages
  <2>6. Tonight' BY <1>1, <2>1, <2>2, <2>3, NightFacts DEF BackupsInv, Tonight
  <2>7. OneAMonth' BY <2>4 DEF BackupsInv, Monthlies, OneAMonth
  <2>8. CopiesWhole'
    <3> SUFFICES ASSUME NEW n \in sortedDumps(monthly) PROVE monthly'[n] = "whole" \/ monthOf(n) \in torn'
      BY <2>4 DEF CopiesWhole
    <3>1. n \in Nights BY DEF sortedDumps
    <3> QED BY <2>1, <2>3, <3>1 DEF BackupsInv, Monthlies, CopiesWhole
  <2>9. CopiesKept' BY <1>1, <2>1, <2>4 DEF BackupsInv, Monthlies, CopiesKept, HasCopy
  <2>10. Nightlies' BY <1>1, <2>1, NightliesStay
  <2> QED BY <2>5, <2>6, <2>7, <2>8, <2>9, <2>10 DEF BackupsInv, Monthlies
<1> QED BY <1>2, <1>3

(* Old dumps go: tonight's stays, and so does what is recent enough.       *)
LEMMA RetainKept ==
  ASSUME BackupsInv, retain
  PROVE  BackupsInv'
<1>1. runAt = "copied" /\ runAt' = "retained" /\ UNCHANGED <<night, log, taken, torn>>
      /\ nightly' = prune(nightly, NightlyKeep) /\ monthly' = prune(monthly, MonthlyKeep)
  BY DEF retain, Go
<1>2. night \in Nights /\ nightly \in [Nights -> Dump] /\ monthly \in [Nights -> Dump] /\ nightly[night] = "whole"
      /\ \A n \in Nights : n > night => nightly[n] = "none" /\ monthly[n] = "none"
  BY <1>1 DEF BackupsInv, BackupsTyped, Tonight
<1>3. nightly' \in [Nights -> Dump] /\ \A n \in Nights : nightly'[n] \in {nightly[n], "none"}
  BY <1>1, <1>2, Pruned
<1>4. monthly' \in [Nights -> Dump] /\ \A n \in Nights : monthly'[n] \in {monthly[n], "none"}
  BY <1>1, <1>2, Pruned
<1>5. ASSUME NEW n \in Nights, nightly[n] = "whole", night - n < NightlyKeep
      PROVE  nightly'[n] = "whole"
  <2>1. n \in sortedDumps(nightly) BY <1>5 DEF sortedDumps
  <2> QED BY <1>1, <1>2, <1>5, <2>1, NightFacts, RecentSurvives
<1>6. nightly'[night] = "whole"
  <2>1. night - night < NightlyKeep BY NightFacts
  <2> QED BY <1>2, <1>5, <2>1
<1>7. ASSUME NEW m \in Int, HasCopy(m), monthOf(night) - m < MonthlyKeep
      PROVE  HasCopy(m)'
  <2>1. PICK n \in sortedDumps(monthly) : monthOf(n) = m BY <1>7 DEF HasCopy
  <2>2. monthly'[n] = monthly[n]
    BY <1>1, <1>2, <1>7, <2>1, NightFacts, RecentMonthSurvives DEF BackupsInv, Monthlies, OneAMonth
  <2>3. n \in sortedDumps(monthly)' BY <2>2 DEF sortedDumps
  <2> QED BY <2>1, <2>3 DEF HasCopy
<1>8. sortedDumps(monthly)' \subseteq sortedDumps(monthly)
      /\ \A n \in sortedDumps(monthly)' : monthly'[n] = monthly[n]
  BY <1>4 DEF sortedDumps
<1>9. BackupsTyped' BY <1>1, <1>3, <1>4 DEF BackupsInv, BackupsTyped, RunStages
<1>10. Tonight' BY <1>1, <1>2, <1>3, <1>4, <1>6 DEF Tonight
<1>11. OneAMonth' BY <1>8 DEF BackupsInv, Monthlies, OneAMonth
<1>12. CopiesWhole' BY <1>1, <1>8 DEF BackupsInv, Monthlies, CopiesWhole
<1>13. CopiesKept'
  <2>1. \A m \in taken' : (monthOf(night) - m < MonthlyKeep)' => HasCopy(m)'
    BY <1>1, <1>7, NightFacts DEF BackupsInv, Monthlies, CopiesKept
  <2>2. HasCopy(monthOf(night)) BY <1>1 DEF BackupsInv, Monthlies, CopiesKept
  <2>3. monthOf(night) - monthOf(night) < MonthlyKeep /\ monthOf(night) \in Int BY NightFacts
  <2>4. HasCopy(monthOf(night))' BY <1>1, <1>7, <2>2, <2>3
  <2> QED BY <1>1, <2>1, <2>4 DEF CopiesKept
<1>14. AlwaysRestorable' BY <1>2, <1>6 DEF AlwaysRestorable
<1>15. GoodBackup'
  <2> SUFFICES ASSUME log.goodBackup.at # Never, night - log.goodBackup.at < NightlyKeep
               PROVE  nightly'[log.goodBackup.at] = "whole"
    BY <1>1 DEF BackupsInv, Nightlies, GoodBackup
  <2>1. log.goodBackup.at \in Nights /\ nightly[log.goodBackup.at] = "whole"
    BY NightFacts DEF BackupsInv, Nightlies, GoodBackup, Entry
  <2> QED BY <1>5, <2>1
<1>16. GoodTest'
  <2> SUFFICES ASSUME log.goodTest.at # Never PROVE nightly'[log.goodTest.dump] \in {"whole", "none"}
    BY <1>1 DEF BackupsInv, Nightlies, GoodTest
  <2>1. log.goodTest.dump \in Nights /\ nightly[log.goodTest.dump] \in {"whole", "none"}
    BY DEF BackupsInv, Nightlies, GoodTest
  <2> QED BY <1>3, <2>1
<1> QED BY <1>9, <1>10, <1>11, <1>12, <1>13, <1>14, <1>15, <1>16 DEF BackupsInv, Monthlies, Nightlies

LEMMA OffsiteOrKilledKept ==
  ASSUME BackupsInv, copyOffsite \/ killed
  PROVE  BackupsInv'
<1>1. CASE copyOffsite
  <2>1. runAt = "retained" /\ runAt' = "record" /\ taken' = taken \cup {monthOf(night)}
        /\ UNCHANGED <<night, nightly, monthly, log, torn>>
    BY <1>1 DEF copyOffsite, Go
  <2>2. nightly[night] = "whole" BY <2>1 DEF BackupsInv, Tonight
  <2> QED BY <2>1, <2>2, StageSound DEF RunStages
<1>2. CASE killed
  <2>1. runAt \notin {"due", "done"} /\ runAt' = "done" /\ UNCHANGED <<night, nightly, log, taken>>
    BY <1>2 DEF killed
  <2>2. CASE runAt = "described" /\ needsMonthlyCopy
    <3>1. monthly' = [monthly EXCEPT ![night] = "partial"] /\ torn' = torn \cup {monthOf(night)}
      BY <1>2, <2>2 DEF killed
    <3> QED BY <2>1, <2>2, <3>1, CopyBegun
  <2>3. CASE ~ (runAt = "described" /\ needsMonthlyCopy)
    <3>1. monthly' = monthly /\ torn' = IF runAt = "copying" THEN torn \cup {monthOf(night)} ELSE torn
      BY <1>2, <2>3 DEF killed
    <3> QED BY <2>1, <3>1, StageSound DEF RunStages
  <2> QED BY <2>2, <2>3
<1> QED BY <1>1, <1>2

(* A row of the log: a good backup is recorded while tonight's dump is     *)
(* there, a good test of a dump that is whole.                             *)
LEMMA LogSound ==
  ASSUME BackupsInv, UNCHANGED <<night, nightly, monthly, taken, torn>>, log' \in Log,
         \/ runAt' = runAt
         \/ /\ runAt \in {"record", "failed", "test"} /\ runAt' \in {"test", "done"}
            /\ runAt' = "test" => runAt = "record",
         \/ log'.goodBackup = log.goodBackup
         \/ log'.goodBackup = [at |-> night, dump |-> night] /\ nightly[night] = "whole",
         \/ log'.goodTest = log.goodTest
         \/ /\ log'.goodTest = [at |-> night, dump |-> newestDump]
            /\ newestDump \in sortedDumps(nightly) /\ nightly[newestDump] = "whole"
  PROVE  BackupsInv'
<1>0. night \in Nights BY DEF BackupsInv, BackupsTyped
<1>1. BackupsTyped' BY DEF BackupsInv, BackupsTyped, RunStages
<1>2. Tonight' BY DEF BackupsInv, Tonight
<1>3. sortedDumps(monthly)' = sortedDumps(monthly) BY DEF sortedDumps
<1>4. OneAMonth' /\ CopiesWhole' BY <1>3 DEF BackupsInv, Monthlies, OneAMonth, CopiesWhole
<1>5. CopiesKept'
  <2>1. \A m : HasCopy(m)' = HasCopy(m) BY <1>3 DEF HasCopy
  <2> QED BY <2>1 DEF BackupsInv, Monthlies, CopiesKept
<1>6. AlwaysRestorable' BY DEF BackupsInv, Nightlies, AlwaysRestorable
<1>7. GoodBackup'
  <2>1. CASE log'.goodBackup = log.goodBackup BY <2>1 DEF BackupsInv, Nightlies, GoodBackup
  <2>2. CASE log'.goodBackup = [at |-> night, dump |-> night] /\ nightly[night] = "whole"
    BY <2>2, NightFacts DEF GoodBackup
  <2> QED BY <2>1, <2>2
<1>8. GoodTest'
  <2>1. CASE log'.goodTest = log.goodTest BY <2>1 DEF BackupsInv, Nightlies, GoodTest
  <2>2. CASE /\ log'.goodTest = [at |-> night, dump |-> newestDump]
             /\ newestDump \in sortedDumps(nightly) /\ nightly[newestDump] = "whole"
    <3> DEFINE d == newestDump
    <3>1. d \in Nights /\ nightly[d] = "whole" BY <2>2 DEF sortedDumps
    <3> HIDE DEF d
    <3>2. d <= night BY <1>0, <3>1, NightFacts DEF BackupsInv, Tonight
    <3>3. runAt = "due" => d # night BY <3>1 DEF BackupsInv, Tonight
    <3>4. log'.goodTest.dump = d BY <2>2 DEF d
    <3> QED BY <3>1, <3>2, <3>3, <3>4 DEF GoodTest
  <2> QED BY <2>1, <2>2
<1> QED BY <1>1, <1>2, <1>4, <1>5, <1>6, <1>7, <1>8 DEF BackupsInv, Monthlies, Nightlies

LEMMA TestSound ==
  ASSUME BackupsInv, TestNewest
  PROVE  /\ log' \in Log /\ log'.goodBackup = log.goodBackup
         /\ \/ log'.goodTest = log.goodTest
            \/ /\ log'.goodTest = [at |-> night, dump |-> newestDump]
               /\ newestDump \in sortedDumps(nightly) /\ nightly[newestDump] = "whole"
<1>0. night \in Nights /\ log \in Log BY DEF BackupsInv, BackupsTyped
<1>1. PICK ok \in IF sortedDumps(nightly) = {} THEN {FALSE} ELSE compareRestore(nightly[newestDump]) :
        Recorded("test", "goodTest", ok, newestDump)
  BY DEF TestNewest
<1>2. ok \in BOOLEAN /\ (ok => newestDump \in sortedDumps(nightly) /\ nightly[newestDump] = "whole")
  <2>1. CASE sortedDumps(nightly) = {} BY <1>1, <2>1
  <2>2. CASE sortedDumps(nightly) # {} BY <1>1, <2>2, NewestIsThere DEF compareRestore
  <2> QED BY <2>1, <2>2
<1>3. newestDump \in sortedDumps(nightly) => newestDump \in Nights BY DEF sortedDumps
<1> DEFINE e == IF ok THEN [at |-> night, dump |-> newestDump] ELSE log.goodTest
<1>4. e \in Entry BY <1>0, <1>2, <1>3 DEF Entry, Log
<1>5. log' = log \/ log' = [log EXCEPT !.test = ok, !.goodTest = e] BY <1>1 DEF Recorded
<1>6. e = log.goodTest \/ (ok /\ e = [at |-> night, dump |-> newestDump]) OBVIOUS
<1> HIDE DEF e
<1>7. CASE log' = log BY <1>0, <1>7
<1>8. CASE log' = [log EXCEPT !.test = ok, !.goodTest = e]
  <2>1. log' \in Log /\ log'.goodBackup = log.goodBackup /\ log'.goodTest = e BY <1>0, <1>2, <1>4, <1>8 DEF Log
  <2> QED BY <1>2, <1>6, <2>1
<1> QED BY <1>5, <1>7, <1>8

LEMMA LogsKept ==
  ASSUME BackupsInv, record \/ restoreTest \/ testOnly
  PROVE  BackupsInv'
<1>0. night \in Nights /\ log \in Log BY DEF BackupsInv, BackupsTyped
<1>1. CASE record
  <2> DEFINE ok == runAt = "record"
             e == IF ok THEN [at |-> night, dump |-> night] ELSE log.goodBackup
  <2>1. UNCHANGED <<night, nightly, monthly, taken, torn>>
        /\ \/ runAt = "record" /\ runAt' = "test"
           \/ runAt = "failed" /\ runAt' = "done"
    BY <1>1 DEF record, Go
  <2>2. e \in Entry BY <1>0 DEF Entry, Log
  <2>3. PICK b \in BOOLEAN : log' = log \/ log' = [log EXCEPT !.backup = b, !.goodBackup = e]
    <3>1. CASE ok
      <4>1. log' = log \/ log' = [log EXCEPT !.backup = TRUE, !.goodBackup = e]
        BY <1>1, <3>1 DEF record, Recorded
      <4> QED BY <4>1
    <3>2. CASE ~ok
      <4>1. log' = log \/ log' = [log EXCEPT !.backup = FALSE, !.goodBackup = e]
        BY <1>1, <3>2 DEF record, Recorded
      <4> QED BY <4>1
    <3> QED BY <3>1, <3>2
  <2>4. e = log.goodBackup \/ (e = [at |-> night, dump |-> night] /\ nightly[night] = "whole")
    BY DEF BackupsInv, Tonight
  <2> HIDE DEF e
  <2>5. log' \in Log /\ log'.goodTest = log.goodTest /\ log'.goodBackup \in {log.goodBackup, e}
    BY <1>0, <2>2, <2>3 DEF Log
  <2> QED BY <2>1, <2>4, <2>5, LogSound
<1>2. CASE restoreTest
  <2>1. UNCHANGED <<night, nightly, monthly, taken, torn>> /\ runAt = "test" /\ runAt' = "done"
        /\ (TestNewest \/ log' = log)
    BY <1>2 DEF restoreTest, Go
  <2>2. CASE TestNewest BY <2>1, <2>2, TestSound, LogSound
  <2>3. CASE log' = log BY <1>0, <2>1, <2>3, LogSound
  <2> QED BY <2>1, <2>2, <2>3
<1>3. CASE testOnly
  <2>1. UNCHANGED <<night, nightly, monthly, runAt, taken, torn>> /\ TestNewest BY <1>3 DEF testOnly
  <2> QED BY <2>1, TestSound, LogSound
<1> QED BY <1>1, <1>2, <1>3

(* A night passes: limits counted in nights and months only tighten.       *)
LEMMA NightKept ==
  ASSUME BackupsInv, nextNight
  PROVE  BackupsInv'
<1>1. runAt \in {"due", "done"} /\ runAt' = "due" /\ night < LastNight /\ night' = night + 1
      /\ UNCHANGED <<nightly, monthly, log, taken, torn>>
  BY DEF nextNight
<1>2. night \in Nights /\ night' \in Nights /\ night \in Int /\ night' > night
  BY <1>1, BackupsAssumption DEF BackupsInv, BackupsTyped, Nights
<1>3. BackupsTyped' BY <1>1, <1>2 DEF BackupsInv, BackupsTyped, RunStages
<1>4. \A n \in Nights : n > night' => n > night BY <1>1, NightFacts
<1>5. Tonight' BY <1>1, <1>2, <1>4 DEF BackupsInv, Tonight
<1>6. sortedDumps(monthly)' = sortedDumps(monthly) BY <1>1 DEF sortedDumps
<1>7. OneAMonth' BY <1>6 DEF BackupsInv, Monthlies, OneAMonth
<1>8. CopiesWhole' BY <1>1, <1>6 DEF BackupsInv, Monthlies, CopiesWhole
<1>9. CopiesKept'
  <2> SUFFICES ASSUME NEW m \in taken, monthOf(night') - m < MonthlyKeep PROVE HasCopy(m)'
    BY <1>1 DEF CopiesKept, monthOf
  <2>1. monthOf(night) <= monthOf(night') /\ monthOf(night') \in Int
    <3>1. \A n \in Nights : n \in Int BY NightFacts
    <3> QED BY <1>1, <1>2, <3>1, MonthsInOrder
  <2>2. monthOf(night) - m < MonthlyKeep BY <2>1, NightFacts
  <2>3. HasCopy(m) BY <2>2 DEF BackupsInv, Monthlies, CopiesKept
  <2> QED BY <1>6, <2>3 DEF HasCopy
<1>10. AlwaysRestorable' BY <1>1 DEF BackupsInv, Nightlies, AlwaysRestorable
<1>11. GoodBackup'
  <2> SUFFICES ASSUME log.goodBackup.at # Never
               PROVE  /\ log.goodBackup.at <= night'
                      /\ night' - log.goodBackup.at < NightlyKeep => nightly[log.goodBackup.at] = "whole"
    BY <1>1 DEF GoodBackup
  <2>1. log.goodBackup.at <= night
        /\ (night - log.goodBackup.at < NightlyKeep => nightly[log.goodBackup.at] = "whole")
    BY DEF BackupsInv, Nightlies, GoodBackup
  <2>2. log.goodBackup.at \in Int BY NightFacts DEF Entry
  <2> QED BY <1>1, <2>1, <2>2, NightFacts
<1>12. GoodTest'
  <2> SUFFICES ASSUME log.goodTest.at # Never
               PROVE  log.goodTest.dump <= night' /\ log.goodTest.dump # night'
    BY <1>1 DEF BackupsInv, Nightlies, GoodTest
  <2>1. log.goodTest.dump \in Nights /\ log.goodTest.dump <= night BY DEF BackupsInv, Nightlies, GoodTest
  <2> QED BY <1>1, <2>1, NightFacts
<1> QED BY <1>3, <1>5, <1>7, <1>8, <1>9, <1>10, <1>11, <1>12 DEF BackupsInv, Monthlies, Nightlies

-----------------------------------------------------------------------------
(* Backups: the theorems.                                                  *)

LEMMA BackupsInitially == BackupsInit => BackupsInv
<1> SUFFICES ASSUME BackupsInit PROVE BackupsInv OBVIOUS
<1>1. BackupsTyped
  <2>1. 1 \in Nights BY BackupsAssumption DEF Nights
  <2>2. log \in Log BY DEF BackupsInit, Log, Entry, Nothing
  <2> QED BY <2>1, <2>2 DEF BackupsInit, BackupsTyped, Dump, RunStages
<1>2. Tonight
  <2>1. night \in Nights BY <1>1 DEF BackupsTyped
  <2> QED BY <2>1 DEF BackupsInit, Tonight
<1>3. sortedDumps(monthly) = {} BY DEF BackupsInit, sortedDumps
<1>4. Monthlies BY <1>3 DEF BackupsInit, Monthlies, OneAMonth, CopiesWhole, CopiesKept
<1>5. Nightlies BY DEF BackupsInit, Nightlies, AlwaysRestorable, GoodBackup, GoodTest, Nothing
<1> QED BY <1>1, <1>2, <1>4, <1>5 DEF BackupsInv

LEMMA BackupsStep == BackupsInv /\ [BackupsNext]_backupVars => BackupsInv'
<1> SUFFICES ASSUME BackupsInv, [BackupsNext]_backupVars PROVE BackupsInv' OBVIOUS
<1>1. CASE UNCHANGED backupVars
  <2>1. night \in Nights /\ log \in Log BY DEF BackupsInv, BackupsTyped
  <2> QED BY <1>1, <2>1, LogSound DEF backupVars
<1> QED BY <1>1, DumpsKept, CopyMonthlyKept, CopyManifestKept, RetainKept, OffsiteOrKilledKept, LogsKept, NightKept
    DEF BackupsNext

LEMMA BackupsInvImplies == BackupsInv => BackupsTypeOK /\ BackupsSound
<1> SUFFICES ASSUME BackupsInv PROVE BackupsTypeOK /\ BackupsSound OBVIOUS
<1>1. BackupsTypeOK BY DEF BackupsInv, BackupsTyped, Tonight, BackupsTypeOK, RunStages
<1>2. MonthKept
  <2> SUFFICES ASSUME NEW m \in taken \ torn, monthOf(night) - m < MonthlyKeep
               PROVE  \E n \in Nights : monthOf(n) = m /\ monthly[n] = "whole"
    BY DEF MonthKept
  <2>1. PICK n \in sortedDumps(monthly) : monthOf(n) = m
    BY DEF BackupsInv, Monthlies, CopiesKept, HasCopy
  <2>2. monthly[n] = "whole" BY <2>1 DEF BackupsInv, Monthlies, CopiesWhole, CopiesKept
  <2> QED BY <2>1, <2>2 DEF sortedDumps
<1>3. StatusHonest
  <2> SUFFICES ASSUME backupStatus = "ok"
               PROVE  /\ \E n \in Nights : nightly[n] = "whole" /\ night - n <= MaxAge
                      /\ nightly[log.goodTest.dump] \in {"whole", "none"}
    BY DEF StatusHonest
  <2>1. Within(log.goodBackup, MaxAge) /\ Within(log.goodTest, TestMaxAge) BY DEF backupStatus
  <2>2. nightly[log.goodTest.dump] \in {"whole", "none"} BY <2>1 DEF Within, BackupsInv, Nightlies, GoodTest
  <2>3. log.goodBackup.at # Never /\ night - log.goodBackup.at <= MaxAge BY <2>1 DEF Within
  <2>4. log.goodBackup.at \in Nights BY <2>3, NightFacts DEF Entry
  <2>5. night - log.goodBackup.at < NightlyKeep BY <2>3, <2>4, NightFacts, BackupsAssumption
  <2>6. nightly[log.goodBackup.at] = "whole" BY <2>3, <2>5 DEF BackupsInv, Nightlies, GoodBackup
  <2> QED BY <2>2, <2>3, <2>4, <2>6
<1>4. AlwaysRestorable BY DEF BackupsInv, Nightlies
<1> QED BY <1>1, <1>2, <1>3, <1>4 DEF BackupsSound, BackupsKept

(* From the first good backup on the volume holds a dump that can be       *)
(* restored, every month kept that had one has its copy, and the office    *)
(* says "ok" only of a complete dump no older than the limit, whatever     *)
(* fails or is killed between any two steps (db-backup, backup-plan prune, *)
(* ops.service backupStatus).                                              *)
THEOREM BackupsSafe == BackupsSpec => []BackupsSound
<1>1. BackupsInv => BackupsSound BY BackupsInvImplies
<1> QED BY <1>1, BackupsInitially, BackupsStep, PTL DEF BackupsSpec

-----------------------------------------------------------------------------
(* The office: each behaviour moves one of the four parts.                 *)

LEMMA HireInvImplies == HireInv => HireTypeOK
<1> SUFFICES ASSUME HireInv PROVE HireTypeOK OBVIOUS
<1>1. HireTyped BY DEF HireInv
<1> QED BY <1>1 DEF HireTyped, HireTypeOK, Task, Stages

OfficeInv == AccInv /\ HireInv /\ RetentionInv /\ LocksApart /\ BackupsInv

LEMMA OfficeStep == OfficeInv /\ [OfficeNext]_officeVars => OfficeInv'
<1> SUFFICES ASSUME OfficeInv, [OfficeNext]_officeVars PROVE OfficeInv' OBVIOUS
<1>1. [AccNext]_accVars /\ [HireNext]_hireVars /\ [RetentionNext]_retentionVars /\ [BackupsNext]_backupVars
  <2>1. CASE UNCHANGED officeVars BY <2>1 DEF officeVars
  <2>2. CASE OfficeNext BY <2>2 DEF OfficeNext
  <2> QED BY <2>1, <2>2
<1> QED BY <1>1, AccStep, HireStep, RetentionStep, LocksStep, BackupsStep DEF OfficeInv

(* The four parts stay well typed: above all, no two replicas hold one     *)
(* booking's row, nor one an edit has locked, and a backup run past its    *)
(* manifest has tonight's dump whole.                                      *)
THEOREM OfficeTypeCorrect == OfficeSpec => []OfficeTypeOK
<1>1. OfficeInit => OfficeInv
  BY AccInitially, HireInitially, RetentionInitially, LocksInitially, BackupsInitially DEF OfficeInit, OfficeInv
<1>2. OfficeInv => OfficeTypeOK
  BY AccInvImplies, HireInvImplies, RetentionInvImplies, BackupsInvImplies DEF OfficeInv, OfficeTypeOK
<1> QED BY <1>1, <1>2, OfficeStep, PTL DEF OfficeSpec
=============================================================================
