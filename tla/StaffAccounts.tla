---------------------------- MODULE StaffAccounts ----------------------------
(***************************************************************************)
(* One operator's account: sign-in in one or two steps, reset links, the   *)
(* second factor, and the manager's edits.                                 *)
(*                                                                         *)
(* A handler reads the row, awaits (bcrypt, another query) and writes: some*)
(* write the columns they change, the manager's edit saves the whole row it*)
(* read.  A token is known by the token version it carries.  Passwords and *)
(* secrets are what they were the n-th time, one recovery code stands for  *)
(* the eight, and a code typed is one that matches a time step.            *)
(***************************************************************************)
EXTENDS Naturals, FiniteSets

CONSTANTS
  Requests,    \* bound: requests in progress at once
  Links,       \* bound: reset links ever mailed
  NoLink,
  Window,      \* steps of drift a code may have
  MaxStep,     \* bound: time steps
  MaxSecrets,  \* bound: enrolments
  MaxEras      \* bound: password changes and deactivations

ASSUME AccountsAssumption ==
  /\ Window \in Nat /\ MaxStep \in Nat \ {0} /\ MaxSecrets \in Nat /\ MaxEras \in Nat
  /\ NoLink \notin Links

VARIABLES
  user,    \* the row of staff_users
  link,    \* staff_password_resets
  step,    \* the time step of the codes
  tokens,  \* tokens handed out: sessions, and pending second steps
  at, req, \* the requests
  made,    \* history: enrolment secrets made
  era,     \* history: password changes and deactivations so far
  uses,    \* history: passwords set with each link
  spent,   \* history: codes accepted
  lost     \* history: a request wrote over what another had changed since its read

accVars == <<user, link, step, tokens, at, req, made, era, uses, spent, lost>>

StaffUser == [active : BOOLEAN, set : BOOLEAN, tv : Nat, on : BOOLEAN, secret : 0..MaxSecrets,
              pending : 0..MaxSecrets, last : 0..(MaxStep + Window), recovery : BOOLEAN]
Token == [kind : {"session", "2fa"}, tv : Nat, era : Nat]
Code == [secret : 1..MaxSecrets, step : 1..(MaxStep + Window)]
RecoveryCode == [secret |-> 0, step |-> 0]
Blank == [active |-> FALSE, set |-> FALSE, tv |-> 0, on |-> FALSE, secret |-> 0, pending |-> 0, last |-> 0,
          recovery |-> FALSE]
NoRequest == [op |-> "none", row |-> Blank, era |-> 0, link |-> NoLink, code |-> RecoveryCode, known |-> FALSE,
              active |-> FALSE]

AccTypeOK ==
  /\ user \in StaffUser
  /\ link \in [Links -> {"none", "open", "used", "expired"}]
  /\ step \in 1..MaxStep /\ made \in 0..MaxSecrets /\ era \in Nat
  /\ tokens \subseteq Token
  /\ at \in [Requests -> {"idle", "issue", "spend", "off", "renew", "claim", "reset", "password", "others",
                          "setup", "confirm", "save"}]
  /\ \A r \in Requests : req[r].row \in StaffUser /\ req[r].code \in Code \cup {RecoveryCode}
  /\ uses \in [Links -> Nat] /\ spent \subseteq Code /\ lost \in BOOLEAN

(* An account just created: an unusable password, and a link in the mail.  *)
AccInit ==
  /\ user = [Blank EXCEPT !.active = TRUE]
  /\ link \in {[l \in Links |-> IF l = first THEN "open" ELSE "none"] : first \in Links}
  /\ step = 1 /\ tokens = {} /\ made = 0 /\ era = 0
  /\ at = [r \in Requests |-> "idle"]
  /\ req = [r \in Requests |-> NoRequest]
  /\ uses = [l \in Links |-> 0] /\ spent = {} /\ lost = FALSE

others == <<link, step, made, era, uses>>

Begin(r, where, q) ==
  /\ at[r] = "idle"
  /\ at' = [at EXCEPT ![r] = where]
  /\ req' = [req EXCEPT ![r] = q]

\* Of the row it read a request keeps the columns it will use.
Columns(row, fields) == [f \in DOMAIN row |-> IF f \in fields THEN row[f] ELSE Blank[f]]
Start(r, where, fields, q) == Begin(r, where, [q EXCEPT !.row = Columns(user, fields)])

Move(r, where) == at' = [at EXCEPT ![r] = where] /\ UNCHANGED req
Done(r) == at' = [at EXCEPT ![r] = "idle"] /\ req' = [req EXCEPT ![r] = NoRequest]

Give(kind, tv, e) == tokens' = tokens \cup {[kind |-> kind, tv |-> tv, era |-> e]}

(* What the guard of every staff route asks of a session.                  *)
Accepted(t) == t.kind = "session" /\ user.active /\ t.tv = user.tv
SignedIn == \E t \in tokens : Accepted(t)

-----------------------------------------------------------------------------
(* Sign-in.                                                                *)

(* The password typed is the row's.  With a second factor only a pending   *)
(* token is given.                                                         *)
Login(r) ==
  /\ user.active /\ user.set
  /\ IF user.on
     THEN at[r] = "idle" /\ Give("2fa", user.tv, era) /\ UNCHANGED <<at, req>>
     ELSE Start(r, "issue", {"tv"}, [NoRequest EXCEPT !.op = "login", !.era = era]) /\ UNCHANGED tokens
  /\ UNCHANGED <<user, spent, lost, others>>

(* Mutant: a code is good until the next one is used.                      *)
AcceptsAgain(row, c) ==
  IF c = RecoveryCode THEN row.recovery
  ELSE c.secret = row.secret /\ c.step + Window >= step /\ c.step <= step + Window /\ c.step >= row.last

(* A current code later than the last one accepted, or a recovery code.    *)
Accepts(row, c) ==
  IF c = RecoveryCode THEN row.recovery
  ELSE c.secret = row.secret /\ c.step + Window >= step /\ c.step <= step + Window /\ c.step > row.last

WithCode(r, q) ==
  \E c \in Code \cup {RecoveryCode} :
    /\ Accepts(user, c)
    /\ Start(r, "spend", {"tv", "last", "recovery", "secret"}, [q EXCEPT !.code = c, !.known = c \in spent])

CompleteTwoFactor(r) ==
  /\ \E t \in tokens :
       /\ t.kind = "2fa" /\ t.tv = user.tv
       /\ user.active /\ user.on
       /\ WithCode(r, [NoRequest EXCEPT !.op = "login", !.era = t.era])
  /\ UNCHANGED <<user, tokens, spent, lost, others>>

(* consumeSecondFactor's write, then what the code was asked for.          *)
Spend(r) ==
  LET c == req[r].code
  IN  /\ at[r] = "spend"
      /\ user' = IF c = RecoveryCode THEN [user EXCEPT !.recovery = FALSE] ELSE [user EXCEPT !.last = c.step]
      /\ spent' = spent \cup ({c} \ {RecoveryCode})
      /\ lost' = (lost \/ user.last # req[r].row.last \/ user.recovery # req[r].row.recovery)
      /\ at' = [at EXCEPT ![r] = CASE req[r].op = "login" -> "issue" [] req[r].op = "disable" -> "off"
                                   [] OTHER -> "renew"]
      /\ req' = [req EXCEPT ![r].code = RecoveryCode, ![r].known = FALSE,
                            ![r].row = Columns(@, IF req[r].op = "login" THEN {"tv"} ELSE {"secret"})]
      /\ UNCHANGED <<tokens, others>>

issueSession(r) ==
  /\ at[r] = "issue"
  /\ Give("session", req[r].row.tv, req[r].era)
  /\ Done(r)
  /\ UNCHANGED <<user, spent, lost, others>>

-----------------------------------------------------------------------------
(* Reset links.                                                            *)

(* Asked for by the operator or by a manager.                              *)
requestReset(l) ==
  /\ user.active /\ link[l] = "none"
  /\ link' = [link EXCEPT ![l] = "open"]
  /\ UNCHANGED <<user, step, made, era, uses, tokens, at, req, spent, lost>>

LinkExpires(l) ==
  /\ link[l] = "open"
  /\ link' = [link EXCEPT ![l] = "expired"]
  /\ UNCHANGED <<user, step, made, era, uses, tokens, at, req, spent, lost>>

resetPassword(r) ==
  /\ \E l \in Links : link[l] = "open" /\ Begin(r, "claim", [NoRequest EXCEPT !.op = "reset", !.link = l])
  /\ UNCHANGED <<user, tokens, spent, lost, others>>

(* Of two submits of one link the UPDATE ... WHERE used_at IS NULL lets one*)
(* pass.                                                                   *)
Claim(r) ==
  LET l == req[r].link
  IN  /\ at[r] = "claim"
      /\ IF link[l] = "used" THEN Done(r) /\ UNCHANGED link
         ELSE link' = [link EXCEPT ![l] = "used"] /\ Move(r, "reset")
      /\ UNCHANGED <<user, step, made, era, uses, tokens, spent, lost>>

ReadForReset(r) ==
  /\ at[r] = "reset"
  /\ IF user.active
     THEN at' = [at EXCEPT ![r] = "password"] /\ req' = [req EXCEPT ![r].row = Columns(user, {"active", "set", "tv"})]
     ELSE Done(r)
  /\ UNCHANGED <<user, tokens, spent, lost, others>>

Sign(row) == <<row.active, row.set, row.tv>>

(* The new hash and the next token version after the one read.             *)
SetPassword(r) ==
  /\ at[r] = "password" /\ era < MaxEras
  /\ user' = [user EXCEPT !.set = TRUE, !.tv = req[r].row.tv + 1]
  /\ era' = era + 1
  /\ uses' = [uses EXCEPT ![req[r].link] = @ + 1]
  /\ lost' = (lost \/ Sign(user) # Sign(req[r].row))
  /\ Move(r, "others")
  /\ UNCHANGED <<link, step, made, tokens, spent>>

OtherLinksDie(r) ==
  /\ at[r] = "others"
  /\ link' = [l \in Links |-> IF link[l] \in {"open", "expired"} THEN "used" ELSE link[l]]
  /\ Done(r)
  /\ UNCHANGED <<user, step, made, era, uses, tokens, spent, lost>>

-----------------------------------------------------------------------------
(* The second factor, by the operator signed in.                           *)

beginSetup(r) ==
  /\ SignedIn /\ ~user.on /\ made < MaxSecrets
  /\ Start(r, "setup", {}, NoRequest)
  /\ UNCHANGED <<user, tokens, spent, lost, others>>

SavePending(r) ==
  /\ at[r] = "setup" /\ made < MaxSecrets
  /\ made' = made + 1
  /\ user' = [user EXCEPT !.pending = made + 1]
  /\ Done(r)
  /\ UNCHANGED <<link, step, era, uses, tokens, spent, lost>>

confirmSetup(r) ==
  /\ SignedIn /\ ~user.on /\ user.pending # 0
  /\ \E s \in 1..(MaxStep + Window) :
       /\ s + Window >= step /\ s <= step + Window
       /\ Start(r, "confirm", {"pending"}, [NoRequest EXCEPT !.code = [secret |-> user.pending, step |-> s]])
  /\ UNCHANGED <<user, tokens, spent, lost, others>>

Enable(r) ==
  /\ at[r] = "confirm"
  /\ user' = [user EXCEPT !.secret = req[r].row.pending, !.pending = 0, !.on = TRUE,
                          !.last = req[r].code.step, !.recovery = TRUE]
  /\ spent' = spent \cup {req[r].code}
  /\ lost' = (lost \/ user.on \/ user.pending # req[r].row.pending)
  /\ Done(r)
  /\ UNCHANGED <<tokens, others>>

disableOrRenew(r) ==
  /\ SignedIn /\ user.on
  /\ \E op \in {"disable", "renew"} : WithCode(r, [NoRequest EXCEPT !.op = op])
  /\ UNCHANGED <<user, tokens, spent, lost, others>>

Disable(r) ==
  /\ at[r] = "off"
  /\ user' = [user EXCEPT !.on = FALSE, !.secret = 0, !.pending = 0, !.last = 0, !.recovery = FALSE]
  /\ lost' = (lost \/ user.secret # req[r].row.secret)
  /\ Done(r)
  /\ UNCHANGED <<tokens, spent, others>>

RenewRecovery(r) ==
  /\ at[r] = "renew"
  /\ user' = [user EXCEPT !.recovery = TRUE]
  /\ Done(r)
  /\ UNCHANGED <<tokens, spent, lost, others>>

-----------------------------------------------------------------------------
(* A manager edits the account: active or not, and perhaps only its name or*)
(* role.                                                                   *)
updateAccount(r) ==
  /\ \E a \in BOOLEAN : Start(r, "save", DOMAIN user, [NoRequest EXCEPT !.active = a])
  /\ UNCHANGED <<user, tokens, spent, lost, others>>

(* The whole row as it was read, with the change.                          *)
SaveAccount(r) ==
  LET row == req[r].row
      ends == row.active /\ ~req[r].active
  IN  /\ at[r] = "save" /\ era < MaxEras
      /\ user' = [row EXCEPT !.active = req[r].active, !.tv = IF ends THEN @ + 1 ELSE @]
      /\ era' = IF ends THEN era + 1 ELSE era
      /\ lost' = (lost \/ user # row)
      /\ Done(r)
      /\ UNCHANGED <<link, step, made, uses, tokens, spent>>

NextStep ==
  /\ step < MaxStep
  /\ step' = step + 1
  /\ UNCHANGED <<user, link, made, era, uses, tokens, at, req, spent, lost>>

AccNext ==
  \/ \E r \in Requests :
       \/ Login(r) \/ CompleteTwoFactor(r) \/ Spend(r) \/ issueSession(r)
       \/ resetPassword(r) \/ Claim(r) \/ ReadForReset(r) \/ SetPassword(r) \/ OtherLinksDie(r)
       \/ beginSetup(r) \/ SavePending(r) \/ confirmSetup(r) \/ Enable(r)
       \/ disableOrRenew(r) \/ Disable(r) \/ RenewRecovery(r)
       \/ updateAccount(r) \/ SaveAccount(r)
  \/ \E l \in Links : requestReset(l) \/ LinkExpires(l)
  \/ NextStep

AccSpec == AccInit /\ [][AccNext]_accVars

-----------------------------------------------------------------------------
(* The properties.                                                         *)

(* "Signs out every existing session", "old cookies never come back": a    *)
(* session that still opens the back office began after the last password  *)
(* change and the last deactivation, even one whose sign-in was under way  *)
(* then.  Not so once a request wrote over another's change.               *)
SessionsEnd == ~lost => \A t \in tokens : Accepted(t) => t.era = era

(* "Consume a token and set the password", "so a code is single-use": a    *)
(* link sets one password, however often it is submitted and by however    *)
(* many requests at once; a request that begins after a code has been spent*)
(* is not let in with it, save once two requests spent codes they checked  *)
(* against one row.                                                        *)
LinkOnce == \A l \in Links : uses[l] <= 1
CodeOnce == ~lost => \A r \in Requests : at[r] = "spend" => ~req[r].known
SingleUse == LinkOnce /\ CodeOnce

(* Codes, links and sessions end when the code says they do: the two above.*)
SignInEnds == SingleUse /\ SessionsEnd

=============================================================================
