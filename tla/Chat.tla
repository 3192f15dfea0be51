-------------------------------- MODULE Chat --------------------------------
(***************************************************************************)
(* The live chat: conversations and their unread badge in the database,    *)
(* sockets of visitors and operators in rooms, and the fan-out that first  *)
(* sweeps the operators' room of accounts no longer allowed to listen.     *)
(*                                                                         *)
(* One process: the handlers of socket events and of the REST fallback are *)
(* interleaved wherever one awaits the database.  An operator's account is *)
(* read from the database when a handler starts and, at most once per TTL, *)
(* when a fan-out sweeps the room.  Visitors' names, wording, attachments  *)
(* (a message saved together with its file) and previews are left out.     *)
(***************************************************************************)
EXTENDS Naturals, FiniteSets

CONSTANTS
  Visitors,       \* sockets of visitors
  Staff,          \* sockets of operators, each of its own account
  NoSocket,       \* a request over REST
  Keys,           \* visitor keys
  NoKey,
  Conversations,  \* bound: conversations
  NoConversation,
  Messages,       \* bound: messages
  NoMessage,
  Handlers,       \* bound: handlers in progress at once
  TTL,            \* STAFF_RECHECK_TTL_MS, in ticks
  MaxTime         \* bound: ticks

Sockets == Visitors \cup Staff
Never == MaxTime + 1

ASSUME ChatAssumption ==
  /\ TTL \in Nat \ {0} /\ MaxTime \in Nat
  /\ Visitors \cap Staff = {} /\ NoSocket \notin Sockets /\ NoKey \notin Keys
  /\ NoConversation \notin Conversations /\ NoMessage \notin Messages /\ IsFiniteSet(Messages)

VARIABLES
  conv,       \* chat_conversations: status, visitor key, unread_staff
  msg,        \* chat_messages: conversation, sender
  keyOf,      \* client.data.visitorKey of each visitor's socket
  room,       \* the sockets in each conversation's room
  staffRoom,  \* the sockets in the operators' room
  until,      \* staffCheckedUntil, 0 for none
  dropped,    \* sockets the sweep has disconnected
  revoked,    \* when each operator's account lost its access
  clock,
  pc, call,   \* the handlers
  got,        \* history: the messages each visitor's socket was sent
  given,      \* history: the conversations it was handed at hello
  heard,      \* history: when the last fan-out each operator received began
  counted,    \* history: messages in the badge
  handed,     \* history: visitors' messages listed to an operator or answered
  announced,  \* history: messages fanned out
  crossed     \* history: those fanned out while a hello was between its list and its room

rows == <<conv, msg, counted, handed>>
sockets == <<keyOf, room, staffRoom, dropped, got, given>>
access == <<revoked, clock>>
out == <<announced, crossed>>
vars == <<rows, sockets, access, until, pc, call, heard, out>>

NoCall == [op |-> "none", socket |-> NoSocket, key |-> NoKey, conv |-> NoConversation, msg |-> NoMessage,
           list |-> {}, now |-> 0, live |-> {}, todo |-> {}]

ConversationRow == [status : {"none", "open", "closed"}, key : Keys \cup {NoKey}, unread : Nat]
MessageRow == [conv : Conversations \cup {NoConversation}, sender : {"none", "visitor", "staff"}]

TypeOK ==
  /\ conv \in [Conversations -> ConversationRow]
  /\ msg \in [Messages -> MessageRow]
  /\ keyOf \in [Visitors -> Keys \cup {NoKey}]
  /\ room \in [Conversations -> SUBSET Sockets]
  /\ staffRoom \in SUBSET Staff /\ dropped \in SUBSET Staff
  /\ until \in [Staff -> 0..(MaxTime + TTL)]
  /\ revoked \in [Staff -> 0..Never] /\ clock \in 0..MaxTime
  /\ pc \in [Handlers -> {"idle", "create", "list", "join", "save", "count", "mark", "clear", "thread",
                          "fetch", "sweep"}]
  /\ call \in [Handlers ->
       [op : {"none", "hello", "visitor", "reply", "open", "update"}, socket : Sockets \cup {NoSocket},
        key : Keys \cup {NoKey}, conv : Conversations \cup {NoConversation}, msg : Messages \cup {NoMessage},
        list : SUBSET Messages, now : 0..MaxTime, live : SUBSET Staff, todo : SUBSET Staff]]
  /\ got \in [Visitors -> SUBSET Messages] /\ given \in [Visitors -> SUBSET Conversations]
  /\ heard \in [Staff -> 0..MaxTime]
  /\ counted \in SUBSET Messages /\ handed \in SUBSET Messages /\ announced \in SUBSET Messages /\ crossed \in SUBSET Messages

Init ==
  /\ conv = [c \in Conversations |-> [status |-> "none", key |-> NoKey, unread |-> 0]]
  /\ msg = [m \in Messages |-> [conv |-> NoConversation, sender |-> "none"]]
  /\ keyOf = [v \in Visitors |-> NoKey]
  /\ room = [c \in Conversations |-> {}]
  /\ staffRoom = {} /\ dropped = {}
  /\ until = [s \in Staff |-> 0]
  /\ revoked = [s \in Staff |-> Never] /\ clock = 0
  /\ pc = [h \in Handlers |-> "idle"]
  /\ call = [h \in Handlers |-> NoCall]
  /\ got = [v \in Visitors |-> {}] /\ given = [v \in Visitors |-> {}]
  /\ heard = [s \in Staff |-> 0]
  /\ counted = {} /\ handed = {} /\ announced = {} /\ crossed = {}

Active(s) == revoked[s] = Never
Thread(c) == {m \in Messages : msg[m].conv = c}
Unused(m) == msg[m].conv = NoConversation /\ \A h \in Handlers : call[h].msg # m

Begin(h, step, c) ==
  /\ pc[h] = "idle"
  /\ pc' = [pc EXCEPT ![h] = step]
  /\ call' = [call EXCEPT ![h] = c]

Goto(h, step) ==
  /\ pc' = [pc EXCEPT ![h] = step]
  /\ UNCHANGED call

Return(h) ==
  /\ pc' = [pc EXCEPT ![h] = "idle"]
  /\ call' = [call EXCEPT ![h] = NoCall]

(* What is left of a request is to tell the operators' lists.              *)
TellStaff(h) ==
  /\ pc' = [pc EXCEPT ![h] = "fetch"]
  /\ call' = [call EXCEPT ![h] = [NoCall EXCEPT !.op = "update"]]

(* A passing check counts for the sweep as well.                           *)
requireStaff(s) ==
  /\ s \notin dropped /\ Active(s)
  /\ until' = [until EXCEPT ![s] = clock + TTL]

-----------------------------------------------------------------------------
(* The visitor.                                                            *)

(* visitor:hello, with the first read of startSession: an open conversation*)
(* of the key, or none.                                                    *)
visitorHello(h) ==
  /\ \E v \in Visitors, k \in Keys :
       LET open == {c \in Conversations : conv[c].status = "open" /\ conv[c].key = k}
           hello == [NoCall EXCEPT !.op = "hello", !.socket = v, !.key = k]
       IN  \/ /\ open = {}
              /\ \E c \in Conversations : conv[c].status = "none"
              /\ Begin(h, "create", hello)
           \/ \E c \in open : Begin(h, "list", [hello EXCEPT !.conv = c])
  /\ UNCHANGED <<rows, sockets, access, until, heard, out>>

(* A visitor's connection is gone; what it asked for goes on without it.    *)
(* The socket's name then stands for the visitor's next connection.        *)
visitorGone(v) ==
  /\ keyOf[v] # NoKey \/ \E h \in Handlers : call[h].socket = v
  /\ keyOf' = [keyOf EXCEPT ![v] = NoKey]
  /\ room' = [c \in Conversations |-> room[c] \ {v}]
  /\ got' = [got EXCEPT ![v] = {}] /\ given' = [given EXCEPT ![v] = {}]
  /\ call' = [h \in Handlers |-> IF call[h].socket = v THEN [call[h] EXCEPT !.socket = NoSocket] ELSE call[h]]
  /\ UNCHANGED <<rows, staffRoom, dropped, access, until, pc, heard, out>>

CreateConversation(h) ==
  /\ pc[h] = "create"
  /\ \E c \in Conversations :
       /\ conv[c].status = "none"
       /\ conv' = [conv EXCEPT ![c] = [status |-> "open", key |-> call[h].key, unread |-> 0]]
       /\ call' = [call EXCEPT ![h].conv = c]
  /\ pc' = [pc EXCEPT ![h] = "join"]
  /\ UNCHANGED <<msg, counted, handed, sockets, access, until, heard, out>>

(* visitor:message, or its REST fallback, on a conversation the key owns,  *)
(* closed or not.                                                          *)
visitorMessage(h) ==
  /\ \E c \in Conversations, m \in Messages, v \in Visitors \cup {NoSocket} :
       /\ conv[c].status # "none" /\ Unused(m)
       /\ v \in Visitors => keyOf[v] = conv[c].key
       /\ Begin(h, "save", [NoCall EXCEPT !.op = "visitor", !.socket = v, !.conv = c, !.msg = m])
  /\ UNCHANGED <<rows, sockets, access, until, heard, out>>

-----------------------------------------------------------------------------
(* The operators.                                                          *)

staffHello(s) ==
  /\ requireStaff(s)
  /\ staffRoom' = staffRoom \cup {s}
  /\ UNCHANGED <<rows, keyOf, room, dropped, got, given, access, pc, call, heard, out>>

(* Any event of an operator without access: an error, and no memo.         *)
staffRefused(s) ==
  /\ s \notin dropped /\ ~Active(s) /\ until[s] # 0
  /\ until' = [until EXCEPT ![s] = 0]
  /\ UNCHANGED <<rows, sockets, access, pc, call, heard, out>>

(* A reply, from a client that said hello first, or over REST.             *)
staffMessage(h) ==
  /\ \E c \in Conversations, m \in Messages :
       /\ conv[c].status # "none" /\ Unused(m)
       /\ \/ /\ Begin(h, "save", [NoCall EXCEPT !.op = "reply", !.conv = c, !.msg = m])
             /\ UNCHANGED until
          \/ \E s \in staffRoom :
               /\ requireStaff(s)
               /\ Begin(h, "save", [NoCall EXCEPT !.op = "reply", !.socket = s, !.conv = c, !.msg = m])
  /\ UNCHANGED <<rows, sockets, access, heard, out>>

staffOpen(h) ==
  /\ \E s \in Staff, c \in Conversations :
       /\ requireStaff(s) /\ conv[c].status # "none"
       /\ Begin(h, "mark", [NoCall EXCEPT !.op = "open", !.socket = s, !.conv = c])
  /\ UNCHANGED <<rows, sockets, access, heard, out>>

staffClose(h) ==
  /\ \E s \in Staff, c \in Conversations :
       /\ requireStaff(s) /\ conv[c].status # "none"
       /\ conv' = [conv EXCEPT ![c].status = "closed"]
  /\ Begin(h, "fetch", [NoCall EXCEPT !.op = "update"])
  /\ UNCHANGED <<msg, counted, handed, sockets, access, heard, out>>

(* A booking, a quote, a visitor typing: news for the operators' room.     *)
announceToStaff(h) ==
  /\ Begin(h, "fetch", [NoCall EXCEPT !.op = "update"])
  /\ UNCHANGED <<rows, sockets, access, until, heard, out>>

-----------------------------------------------------------------------------
(* The steps of a handler.                                                 *)

Save(h) ==
  /\ pc[h] = "save"
  /\ msg' = [msg EXCEPT ![call[h].msg] =
       [conv |-> call[h].conv, sender |-> IF call[h].op = "visitor" THEN "visitor" ELSE "staff"]]
  /\ Goto(h, "count")
  /\ UNCHANGED <<conv, counted, handed, sockets, access, until, heard, out>>

(* Mutant: a reply takes one off the badge.                                *)
CountBackwards(h) ==
  LET c == call[h].conv
  IN  /\ pc[h] = "count"
      /\ conv' = [conv EXCEPT ![c].unread = IF call[h].op = "visitor" THEN @ + 1 ELSE @ - 1]
      /\ handed' = handed \cup (IF call[h].op = "reply" THEN counted \cap Thread(c) ELSE {})
      /\ counted' = counted \cup {call[h].msg}
      /\ Goto(h, IF call[h].socket = NoSocket THEN "fetch" ELSE "join")
      /\ UNCHANGED <<msg, sockets, access, until, heard, out>>

(* The badge, in one UPDATE: a visitor's message counts, a reply clears.   *)
Count(h) ==
  LET c == call[h].conv
  IN  /\ pc[h] = "count"
      /\ conv' = [conv EXCEPT ![c].unread = IF call[h].op = "visitor" THEN @ + 1 ELSE 0]
      /\ handed' = handed \cup (IF call[h].op = "reply" THEN counted \cap Thread(c) ELSE {})
      /\ counted' = counted \cup {call[h].msg}
      /\ Goto(h, IF call[h].socket = NoSocket THEN "fetch" ELSE "join")
      /\ UNCHANGED <<msg, sockets, access, until, heard, out>>

(* markStaffRead: the badge read ...                                       *)
markStaffRead(h) ==
  /\ pc[h] = "mark"
  /\ Goto(h, IF conv[call[h].conv].unread # 0 THEN "clear" ELSE "join")
  /\ UNCHANGED <<rows, sockets, access, until, heard, out>>

(* ... and, unless it was zero, reset.                                     *)
ClearBadge(h) ==
  /\ pc[h] = "clear"
  /\ conv' = [conv EXCEPT ![call[h].conv].unread = 0]
  /\ Goto(h, "join")
  /\ UNCHANGED <<msg, counted, handed, sockets, access, until, heard, out>>

(* Mutant: a thread resumed comes without its messages.                    *)
JoinBare(h) ==
  LET s == call[h].socket
      op == call[h].op
  IN  /\ pc[h] = "join"
      /\ room' = [room EXCEPT ![call[h].conv] = @ \cup ({s} \ (dropped \cup {NoSocket}))]
      /\ staffRoom' = IF op = "open" THEN staffRoom \cup ({s} \ dropped) ELSE staffRoom
      /\ keyOf' = IF op = "hello" /\ s \in Visitors THEN [keyOf EXCEPT ![s] = call[h].key] ELSE keyOf
      /\ given' = IF op = "hello" /\ s \in Visitors THEN [given EXCEPT ![s] = @ \cup {call[h].conv}] ELSE given
      /\ CASE op = "hello" -> Return(h)
           [] op = "open" -> Goto(h, "list")
           [] OTHER -> Goto(h, "fetch")
      /\ UNCHANGED <<rows, dropped, got, access, until, heard, out>>

(* Into the room: a visitor with the list read before, an operator before  *)
(* the list is read.  A socket disconnected meanwhile enters no room.      *)
Join(h) ==
  LET s == call[h].socket
      op == call[h].op
  IN  /\ pc[h] = "join"
      /\ room' = [room EXCEPT ![call[h].conv] = @ \cup ({s} \ (dropped \cup {NoSocket}))]
      /\ staffRoom' = IF op = "open" THEN staffRoom \cup ({s} \ dropped) ELSE staffRoom
      /\ keyOf' = IF op = "hello" /\ s \in Visitors THEN [keyOf EXCEPT ![s] = call[h].key] ELSE keyOf
      /\ got' = IF op = "hello" /\ s \in Visitors THEN [got EXCEPT ![s] = @ \cup call[h].list] ELSE got
      /\ given' = IF op = "hello" /\ s \in Visitors THEN [given EXCEPT ![s] = @ \cup {call[h].conv}] ELSE given
      /\ CASE op = "hello" -> Return(h)
           [] op = "open" -> Goto(h, "list")
           [] OTHER -> Goto(h, "fetch")
      /\ UNCHANGED <<rows, dropped, access, until, heard, out>>

listMessages(h) ==
  /\ pc[h] = "list"
  /\ call' = [call EXCEPT ![h].list = Thread(call[h].conv)]
  /\ pc' = [pc EXCEPT ![h] = IF call[h].op = "hello" THEN "join" ELSE "thread"]
  /\ UNCHANGED <<rows, sockets, access, until, heard, out>>

(* Mutant: the badge is cleared once the thread has been read.             *)
SendThreadAndClear(h) ==
  /\ pc[h] = "thread"
  /\ handed' = handed \cup call[h].list
  /\ conv' = [conv EXCEPT ![call[h].conv].unread = 0]
  /\ TellStaff(h)
  /\ UNCHANGED <<msg, counted, sockets, access, until, heard, out>>

(* staff:thread: the list goes to the operator who opened the thread.      *)
SendThread(h) ==
  /\ pc[h] = "thread"
  /\ handed' = handed \cup call[h].list
  /\ TellStaff(h)
  /\ UNCHANGED <<conv, msg, counted, sockets, access, until, heard, out>>

-----------------------------------------------------------------------------
(* The fan-out.                                                            *)

(* Mutant: an account once checked is trusted for good.                    *)
FetchTrusting(h) ==
  /\ pc[h] = "fetch"
  /\ call' = [call EXCEPT ![h] = [@ EXCEPT !.now = clock, !.live = staffRoom,
                                            !.todo = {s \in staffRoom : until[s] = 0}]]
  /\ pc' = [pc EXCEPT ![h] = "sweep"]
  /\ UNCHANGED <<rows, sockets, access, until, heard, out>>

(* evictRevokedStaff: the sockets in the operators' room; those without a  *)
(* fresh check are looked up.                                              *)
Fetch(h) ==
  /\ pc[h] = "fetch"
  /\ call' = [call EXCEPT ![h] = [@ EXCEPT !.now = clock, !.live = staffRoom,
                                            !.todo = {s \in staffRoom : until[s] <= clock}]]
  /\ pc' = [pc EXCEPT ![h] = "sweep"]
  /\ UNCHANGED <<rows, sockets, access, until, heard, out>>

Disconnect(s) ==
  /\ dropped' = dropped \cup {s}
  /\ staffRoom' = staffRoom \ {s}
  /\ room' = [c \in Conversations |-> room[c] \ {s}]
  /\ until' = [until EXCEPT ![s] = 0]

(* enforceStaff: the account allows it, or the socket goes.                *)
enforceStaff(h, s) ==
  /\ pc[h] = "sweep" /\ s \in call[h].todo
  /\ call' = [call EXCEPT ![h].todo = @ \ {s}]
  /\ \/ /\ Active(s)
        /\ until' = [until EXCEPT ![s] = call[h].now + TTL]
        /\ UNCHANGED <<dropped, staffRoom, room>>
     \/ ~Active(s) /\ Disconnect(s)
  /\ UNCHANGED <<rows, keyOf, got, given, access, pc, heard, out>>

(* The look-up fails: the socket goes all the same.                        *)
LookupFails(h, s) ==
  /\ pc[h] = "sweep" /\ s \in call[h].todo
  /\ call' = [call EXCEPT ![h].todo = @ \ {s}]
  /\ Disconnect(s)
  /\ UNCHANGED <<rows, keyOf, got, given, access, pc, heard, out>>

(* The sweep over, memos of sockets it did not see are forgotten and the   *)
(* event goes out: a message to the conversation's room and the operators',*)
(* then what it changes in the list to the operators' alone.               *)
Emit(h) ==
  LET m == call[h].msg
      new == call[h].op # "update"
      to == staffRoom \cup (IF new THEN room[call[h].conv] ELSE {})
  IN  /\ pc[h] = "sweep" /\ call[h].todo = {}
      /\ until' = [s \in Staff |-> IF s \in call[h].live THEN until[s] ELSE 0]
      /\ got' = [v \in Visitors |-> IF new /\ v \in to THEN got[v] \cup {m} ELSE got[v]]
      /\ heard' = [s \in Staff |-> IF s \in to THEN call[h].now ELSE heard[s]]
      /\ announced' = announced \cup (IF new THEN {m} ELSE {})
      /\ crossed' = crossed \cup
           (IF new /\ \E g \in Handlers : pc[g] = "join" /\ call[g].op = "hello" /\ call[g].conv = call[h].conv
            THEN {m} ELSE {})
      /\ IF new THEN TellStaff(h) ELSE Return(h)
      /\ UNCHANGED <<rows, keyOf, room, staffRoom, dropped, given, access>>

-----------------------------------------------------------------------------
(* An account is deactivated, demoted, or its sessions are ended.          *)
Revoke(s) ==
  /\ Active(s)
  /\ revoked' = [revoked EXCEPT ![s] = clock]
  /\ UNCHANGED <<rows, sockets, until, clock, pc, call, heard, out>>

(* Time passes, but not between an operator's check and its entry in the   *)
(* room: that is a query or two.                                           *)
Tick ==
  /\ clock < MaxTime
  /\ \A h \in Handlers : call[h].op = "open" => pc[h] \notin {"mark", "clear", "join"}
  /\ clock' = clock + 1
  /\ UNCHANGED <<rows, sockets, until, revoked, pc, call, heard, out>>

Proceed(h) ==
  \/ CreateConversation(h) \/ Save(h) \/ Count(h) \/ markStaffRead(h) \/ ClearBadge(h)
  \/ Join(h) \/ listMessages(h) \/ SendThread(h)
  \/ Fetch(h) \/ Emit(h) \/ \E s \in Staff : enforceStaff(h, s) \/ LookupFails(h, s)

Next ==
  \/ \E h \in Handlers : \/ visitorHello(h) \/ visitorMessage(h) \/ staffMessage(h) \/ staffOpen(h)
                         \/ staffClose(h) \/ announceToStaff(h) \/ Proceed(h)
  \/ \E v \in Visitors : visitorGone(v)
  \/ \E s \in Staff : staffHello(s) \/ staffRefused(s) \/ Revoke(s)
  \/ Tick

Spec == Init /\ [][Next]_vars

-----------------------------------------------------------------------------
(* The properties.                                                         *)

(* "A deactivated or demoted operator keeps receiving fan-out for at most  *)
(* this long": no fan-out that begins a TTL after an account lost its      *)
(* access reaches it, whatever handlers and sweeps were under way.         *)
RevokedHearNothing ==
  \A s \in Staff : ~Active(s) => heard[s] < revoked[s] + TTL

Waiting(c) == {m \in counted : msg[m].conv = c /\ msg[m].sender = "visitor"} \ handed

Opening(c) ==
  \E h \in Handlers : call[h].op = "open" /\ call[h].conv = c /\ pc[h] \in {"join", "list", "thread"}

(* A visitor's message no operator was shown or answered is on the badge,  *)
(* however messages, replies and operators opening the thread cross.       *)
BadgeKeepsWaiting ==
  \A c \in Conversations : Opening(c) \/ Cardinality(Waiting(c)) <= conv[c].unread

(* A message saved is fanned out, whoever is dropped meanwhile and whatever*)
(* look-up fails: until then a handler carries it.                         *)
SavedIsAnnounced ==
  \A m \in Messages : msg[m].sender # "none" => m \in announced \/ \E h \in Handlers : call[h].msg = m

(* "A visitor who IS connected sees the answer" in a conversation it was   *)
(* handed at hello: in the list that came with it, or live.  The one gap:  *)
(* a reply fanned out between that list and the visitor's entry in the     *)
(* room.                                                                   *)
ReplyReachesVisitor ==
  \A m \in announced \ crossed : \A v \in Visitors :
    msg[m].sender = "staff" /\ v \in room[msg[m].conv] /\ msg[m].conv \in given[v] => m \in got[v]

(* No message gets lost on its way to those who are connected: the two     *)
(* statements above.                                                       *)
NothingMissed == SavedIsAnnounced /\ ReplyReachesVisitor

=============================================================================
