----------------------------- MODULE ChatProofs -----------------------------
(***************************************************************************)
(* Chat, proved for every set of visitors, operators, conversations,       *)
(* messages and handlers, and every recheck interval: who is cut off hears *)
(* nothing, who is connected misses nothing, and the badge never runs      *)
(* behind what waits.                                                      *)
(***************************************************************************)
EXTENDS Chat, FiniteSetTheorems, TLAPS

-----------------------------------------------------------------------------
(* Types, and what a handler carries at each of its steps.                 *)

Steps == {"idle", "create", "list", "join", "save", "count", "mark", "clear", "thread", "fetch", "sweep"}

Call == [op : {"none", "hello", "visitor", "reply", "open", "update"}, socket : Sockets \cup {NoSocket},
         key : Keys \cup {NoKey}, conv : Conversations \cup {NoConversation}, msg : Messages \cup {NoMessage},
         list : SUBSET Messages, now : 0..MaxTime, live : SUBSET Staff, todo : SUBSET Staff]

Formed(step, c) ==
  /\ step = "idle" => c.op = "none"
  /\ step = "create" => c.op = "hello"
  /\ step = "list" => c.op \in {"hello", "open"}
  /\ step \in {"mark", "clear", "thread"} => c.op = "open"
  /\ step \in {"save", "count"} => c.op \in {"visitor", "reply"}
  /\ step = "join" => c.op \in {"hello", "visitor", "reply", "open"}
  /\ step \in {"fetch", "sweep"} => c.op \in {"update", "visitor", "reply"}
  /\ c.op \in {"visitor", "reply"} => c.conv \in Conversations /\ c.msg \in Messages
  /\ c.op \notin {"visitor", "reply"} => c.msg = NoMessage
  /\ c.op = "open" => c.conv \in Conversations /\ c.socket \in Staff
  /\ c.op \in {"hello", "visitor"} => c.socket \in Visitors \cup {NoSocket}
  /\ c.op = "reply" => c.socket \in Staff \cup {NoSocket}
  /\ c.op = "hello" /\ step # "create" => c.conv \in Conversations

Shape == \A h \in Handlers : Formed(pc[h], call[h])

TypeInv == TypeOK /\ Shape

(* Handler h goes to a step with a call; the others stay.                  *)
MovesTo(h, step, c) ==
  /\ step \in Steps /\ c \in Call
  /\ pc' = [pc EXCEPT ![h] = step] /\ call' = [call EXCEPT ![h] = c]

LEMMA Moved ==
  ASSUME TypeInv, NEW h \in Handlers, NEW step, NEW c, MovesTo(h, step, c), Formed(step, c)
  PROVE  /\ pc' \in [Handlers -> Steps] /\ call' \in [Handlers -> Call] /\ Shape'
         /\ pc'[h] = step /\ call'[h] = c
         /\ \A g \in Handlers \ {h} : pc'[g] = pc[g] /\ call'[g] = call[g]
  <1>1. pc \in [Handlers -> Steps] /\ call \in [Handlers -> Call]
    BY DEF TypeInv, TypeOK, Steps, Call
  <1>2. /\ pc' \in [Handlers -> Steps] /\ call' \in [Handlers -> Call]
        /\ pc'[h] = step /\ call'[h] = c
        /\ \A g \in Handlers \ {h} : pc'[g] = pc[g] /\ call'[g] = call[g]
    BY <1>1 DEF MovesTo
  <1>3. QED
    BY <1>2 DEF TypeInv, Shape

LEMMA Stays ==
  ASSUME TypeInv, NEW h \in Handlers
  PROVE  call[h] \in Call /\ pc[h] \in Steps /\ Formed(pc[h], call[h]) /\ call = [call EXCEPT ![h] = call[h]]
  BY DEF TypeInv, TypeOK, Steps, Call, Shape

(* The calls handlers begin with, and those they become.                   *)
LEMMA NoCallType ==
  /\ NoCall \in Call /\ NoCall.op = "none" /\ NoCall.socket = NoSocket /\ NoCall.msg = NoMessage
  /\ NoCall.conv = NoConversation
  <1>1. 0 \in 0..MaxTime
    BY ChatAssumption
  <1>2. QED
    BY <1>1 DEF NoCall, Call

LEMMA CallFields ==
  ASSUME NEW c \in Call
  PROVE  /\ \A op \in {"none", "hello", "visitor", "reply", "open", "update"} :
              LET d == [c EXCEPT !.op = op]
              IN  /\ d \in Call /\ d.op = op /\ d.socket = c.socket /\ d.key = c.key /\ d.conv = c.conv
                  /\ d.msg = c.msg /\ d.list = c.list /\ d.now = c.now /\ d.live = c.live /\ d.todo = c.todo
         /\ \A s \in Sockets \cup {NoSocket} :
              LET d == [c EXCEPT !.socket = s]
              IN  /\ d \in Call /\ d.op = c.op /\ d.socket = s /\ d.key = c.key /\ d.conv = c.conv
                  /\ d.msg = c.msg /\ d.list = c.list /\ d.now = c.now /\ d.live = c.live /\ d.todo = c.todo
         /\ \A k \in Keys \cup {NoKey} :
              LET d == [c EXCEPT !.key = k]
              IN  /\ d \in Call /\ d.op = c.op /\ d.socket = c.socket /\ d.key = k /\ d.conv = c.conv
                  /\ d.msg = c.msg /\ d.list = c.list /\ d.now = c.now /\ d.live = c.live /\ d.todo = c.todo
         /\ \A v \in Conversations \cup {NoConversation} :
              LET d == [c EXCEPT !.conv = v]
              IN  /\ d \in Call /\ d.op = c.op /\ d.socket = c.socket /\ d.key = c.key /\ d.conv = v
                  /\ d.msg = c.msg /\ d.list = c.list /\ d.now = c.now /\ d.live = c.live /\ d.todo = c.todo
         /\ \A m \in Messages \cup {NoMessage} :
              LET d == [c EXCEPT !.msg = m]
              IN  /\ d \in Call /\ d.op = c.op /\ d.socket = c.socket /\ d.key = c.key /\ d.conv = c.conv
                  /\ d.msg = m /\ d.list = c.list /\ d.now = c.now /\ d.live = c.live /\ d.todo = c.todo
         /\ \A l \in SUBSET Messages :
              LET d == [c EXCEPT !.list = l]
              IN  /\ d \in Call /\ d.op = c.op /\ d.socket = c.socket /\ d.key = c.key /\ d.conv = c.conv
                  /\ d.msg = c.msg /\ d.list = l /\ d.now = c.now /\ d.live = c.live /\ d.todo = c.todo
         /\ \A t \in SUBSET Staff :
              LET d == [c EXCEPT !.todo = t]
              IN  /\ d \in Call /\ d.op = c.op /\ d.socket = c.socket /\ d.key = c.key /\ d.conv = c.conv
                  /\ d.msg = c.msg /\ d.list = c.list /\ d.now = c.now /\ d.live = c.live /\ d.todo = t
  BY SMTT(30) DEF Call

-----------------------------------------------------------------------------
(* How handlers begin.                                                     *)

Starts(h) == \/ visitorHello(h) \/ visitorMessage(h) \/ staffMessage(h) \/ staffOpen(h)
             \/ staffClose(h) \/ announceToStaff(h)

(* What beginning with a call takes and leaves.                            *)
Fresh(h, step, c) ==
  /\ pc[h] = "idle" /\ MovesTo(h, step, c) /\ Formed(step, c)
  /\ step \in {"create", "list", "save", "mark", "fetch"}
  /\ step = "fetch" => c.op = "update"
  /\ c.now = 0 /\ c.list = {}
  /\ c.msg # NoMessage => Unused(c.msg)
  /\ c.op = "open" => Active(c.socket) /\ c.socket \notin dropped
  /\ c.op = "reply" /\ c.socket # NoSocket => c.socket \in staffRoom
  /\ c.op \in {"hello", "visitor", "reply", "open"} /\ step # "create" => conv[c.conv].status # "none"

Checks == \E s \in Staff : Active(s) /\ until' = [until EXCEPT ![s] = clock + TTL]

Closes == \E c \in Conversations : conv[c].status # "none" /\ conv' = [conv EXCEPT ![c].status = "closed"]

LEMMA HelloStarts ==
  ASSUME TypeInv, NEW h \in Handlers, visitorHello(h)
  PROVE  (\E step, c : Fresh(h, step, c)) /\ UNCHANGED <<until, conv>>
  <1>1. PICK v \in Visitors, k \in Keys :
          LET open == {c \in Conversations : conv[c].status = "open" /\ conv[c].key = k}
              hello == [NoCall EXCEPT !.op = "hello", !.socket = v, !.key = k]
          IN  \/ /\ open = {}
                 /\ \E c \in Conversations : conv[c].status = "none"
                 /\ Begin(h, "create", hello)
              \/ \E c \in open : Begin(h, "list", [hello EXCEPT !.conv = c])
    BY DEF visitorHello
  <1> DEFINE hello == [NoCall EXCEPT !.op = "hello", !.socket = v, !.key = k]
  <1>2. hello \in Call /\ hello.op = "hello" /\ hello.socket = v /\ hello.msg = NoMessage
        /\ hello.now = 0 /\ hello.list = {}
    <2>1. NoCall.now = 0 /\ NoCall.list = {} /\ v \in Sockets
      BY DEF NoCall, Sockets
    <2>2. QED
      BY <2>1, NoCallType DEF Call
  <1>3. CASE Begin(h, "create", hello)
    <2> HIDE DEF hello
    <2>1. Fresh(h, "create", hello)
      BY <1>2, <1>3 DEF Fresh, Begin, MovesTo, Formed, Steps
    <2>2. QED
      BY <2>1 DEF visitorHello, rows
  <1>4. ASSUME NEW c \in Conversations, conv[c].status = "open", Begin(h, "list", [hello EXCEPT !.conv = c])
        PROVE  \E step, d : Fresh(h, step, d)
    <2> DEFINE d == [hello EXCEPT !.conv = c]
    <2> HIDE DEF hello
    <2>1. d \in Call /\ d.op = "hello" /\ d.socket = v /\ d.msg = NoMessage /\ d.now = 0 /\ d.list = {}
          /\ d.conv = c
      BY <1>2 DEF Call
    <2> HIDE DEF d
    <2>2. Begin(h, "list", d)
      BY <1>4 DEF d
    <2>3. Fresh(h, "list", d)
      BY <1>4, <2>1, <2>2 DEF Fresh, Begin, MovesTo, Formed, Steps
    <2>4. QED
      BY <2>3
  <1>5. QED
    BY <1>1, <1>3, <1>4 DEF visitorHello, rows

LEMMA VisitorStarts ==
  ASSUME TypeInv, NEW h \in Handlers, visitorMessage(h)
  PROVE  (\E step, c : Fresh(h, step, c)) /\ UNCHANGED <<until, conv>>
  <1>1. PICK c \in Conversations, m \in Messages, v \in Visitors \cup {NoSocket} :
          /\ conv[c].status # "none" /\ Unused(m)
          /\ v \in Visitors => keyOf[v] = conv[c].key
          /\ Begin(h, "save", [NoCall EXCEPT !.op = "visitor", !.socket = v, !.conv = c, !.msg = m])
    BY DEF visitorMessage
  <1> DEFINE d == [NoCall EXCEPT !.op = "visitor", !.socket = v, !.conv = c, !.msg = m]
  <1>2. d \in Call /\ d.op = "visitor" /\ d.socket = v /\ d.msg = m /\ d.now = 0 /\ d.list = {} /\ d.conv = c
    <2>1. NoCall.now = 0 /\ NoCall.list = {} /\ v \in Sockets \cup {NoSocket}
      BY DEF NoCall, Sockets
    <2>2. QED
      BY <2>1, NoCallType DEF Call
  <1>3. Begin(h, "save", d)
    BY <1>1
  <1> HIDE DEF d
  <1>4. Fresh(h, "save", d)
    BY <1>1, <1>2, <1>3 DEF Fresh, Begin, MovesTo, Formed, Steps
  <1>5. QED
    BY <1>4 DEF visitorMessage, rows

LEMMA ReplyStarts ==
  ASSUME TypeInv, NEW h \in Handlers, staffMessage(h)
  PROVE  (\E step, c : Fresh(h, step, c)) /\ (Checks \/ UNCHANGED until) /\ UNCHANGED conv
  <1>1. PICK c \in Conversations, m \in Messages :
          /\ conv[c].status # "none" /\ Unused(m)
          /\ \/ /\ Begin(h, "save", [NoCall EXCEPT !.op = "reply", !.conv = c, !.msg = m])
                /\ UNCHANGED until
             \/ \E s \in staffRoom :
                  /\ requireStaff(s)
                  /\ Begin(h, "save", [NoCall EXCEPT !.op = "reply", !.socket = s, !.conv = c, !.msg = m])
    BY DEF staffMessage
  <1>2. CASE Begin(h, "save", [NoCall EXCEPT !.op = "reply", !.conv = c, !.msg = m]) /\ UNCHANGED until
    <2> DEFINE d == [NoCall EXCEPT !.op = "reply", !.conv = c, !.msg = m]
    <2>1. d \in Call /\ d.op = "reply" /\ d.socket = NoSocket /\ d.msg = m /\ d.now = 0 /\ d.list = {} /\ d.conv = c
      <3>1. NoCall.now = 0 /\ NoCall.list = {}
        BY DEF NoCall
      <3>2. QED
        BY <3>1, NoCallType DEF Call
    <2>2. Begin(h, "save", d)
      BY <1>2
    <2> HIDE DEF d
    <2>3. Fresh(h, "save", d)
      BY <1>1, <2>1, <2>2 DEF Fresh, Begin, MovesTo, Formed, Steps
    <2>4. QED
      BY <1>2, <2>3 DEF staffMessage, rows
  <1>3. ASSUME NEW s \in staffRoom, requireStaff(s),
               Begin(h, "save", [NoCall EXCEPT !.op = "reply", !.socket = s, !.conv = c, !.msg = m])
        PROVE  (\E step, d : Fresh(h, step, d)) /\ Checks
    <2> DEFINE d == [NoCall EXCEPT !.op = "reply", !.socket = s, !.conv = c, !.msg = m]
    <2>0. s \in Staff
      BY DEF TypeInv, TypeOK
    <2>1. d \in Call /\ d.op = "reply" /\ d.socket = s /\ d.msg = m /\ d.now = 0 /\ d.list = {} /\ d.conv = c
      <3>1. NoCall.now = 0 /\ NoCall.list = {} /\ s \in Sockets
        BY <2>0 DEF NoCall, Sockets
      <3>2. QED
        BY <3>1, NoCallType DEF Call
    <2>2. Begin(h, "save", d)
      BY <1>3
    <2> HIDE DEF d
    <2>3. Fresh(h, "save", d)
      BY <1>1, <2>0, <2>1, <2>2 DEF Fresh, Begin, MovesTo, Formed, Steps
    <2>4. QED
      BY <1>3, <2>0, <2>3 DEF Checks, requireStaff
  <1>4. QED
    BY <1>1, <1>2, <1>3 DEF staffMessage, rows

LEMMA OpenStarts ==
  ASSUME TypeInv, NEW h \in Handlers, staffOpen(h)
  PROVE  (\E step, c : Fresh(h, step, c)) /\ Checks /\ UNCHANGED conv
  <1>1. PICK s \in Staff, c \in Conversations :
          /\ requireStaff(s) /\ conv[c].status # "none"
          /\ Begin(h, "mark", [NoCall EXCEPT !.op = "open", !.socket = s, !.conv = c])
    BY DEF staffOpen
  <1> DEFINE d == [NoCall EXCEPT !.op = "open", !.socket = s, !.conv = c]
  <1>2. d \in Call /\ d.op = "open" /\ d.socket = s /\ d.msg = NoMessage /\ d.now = 0 /\ d.list = {} /\ d.conv = c
    <2>1. NoCall.now = 0 /\ NoCall.list = {} /\ s \in Sockets
      BY DEF NoCall, Sockets
    <2>2. QED
      BY <2>1, NoCallType DEF Call
  <1>3. Begin(h, "mark", d)
    BY <1>1
  <1> HIDE DEF d
  <1>4. Fresh(h, "mark", d)
    BY <1>1, <1>2, <1>3 DEF Fresh, Begin, MovesTo, Formed, Steps, requireStaff
  <1>5. QED
    BY <1>1, <1>4 DEF staffOpen, rows, Checks, requireStaff

LEMMA UpdateCall ==
  LET d == [NoCall EXCEPT !.op = "update"]
  IN  /\ d \in Call /\ d.op = "update" /\ d.socket = NoSocket /\ d.msg = NoMessage /\ d.now = 0 /\ d.list = {}
      /\ Formed("fetch", d)
  <1> DEFINE d == [NoCall EXCEPT !.op = "update"]
  <1>1. d \in Call /\ d.op = "update" /\ d.socket = NoSocket /\ d.msg = NoMessage /\ d.now = 0 /\ d.list = {}
    <2>1. NoCall.now = 0 /\ NoCall.list = {}
      BY DEF NoCall
    <2>2. QED
      BY <2>1, NoCallType, CallFields
  <1> HIDE DEF d
  <1>2. Formed("fetch", d)
    BY <1>1 DEF Formed
  <1>3. QED
    BY <1>1, <1>2 DEF d

LEMMA UpdateStarts ==
  ASSUME TypeInv, NEW h \in Handlers, Begin(h, "fetch", [NoCall EXCEPT !.op = "update"])
  PROVE  \E step, c : Fresh(h, step, c)
  <1> DEFINE d == [NoCall EXCEPT !.op = "update"]
  <1>1. Fresh(h, "fetch", d)
    <2>1. /\ d \in Call /\ d.op = "update" /\ d.socket = NoSocket /\ d.msg = NoMessage /\ d.now = 0 /\ d.list = {}
          /\ Formed("fetch", d) /\ Begin(h, "fetch", d)
      BY UpdateCall
    <2> HIDE DEF d
    <2>2. QED
      BY <2>1 DEF Fresh, Begin, MovesTo, Steps
  <1>2. QED
    BY <1>1

LEMMA StartIs ==
  ASSUME TypeInv, NEW h \in Handlers, Starts(h)
  PROVE  /\ \E step, c : Fresh(h, step, c)
         /\ Checks \/ UNCHANGED until
         /\ Closes \/ UNCHANGED conv
         /\ UNCHANGED <<msg, counted, handed, sockets, access, heard, out>>
  <1>1. CASE visitorHello(h)
    BY <1>1, HelloStarts DEF visitorHello, rows
  <1>2. CASE visitorMessage(h)
    BY <1>2, VisitorStarts DEF visitorMessage, rows
  <1>3. CASE staffMessage(h)
    BY <1>3, ReplyStarts DEF staffMessage, rows
  <1>4. CASE staffOpen(h)
    BY <1>4, OpenStarts DEF staffOpen, rows
  <1>5. CASE staffClose(h)
    BY <1>5, UpdateStarts DEF staffClose, Checks, Closes, requireStaff
  <1>6. CASE announceToStaff(h)
    BY <1>6, UpdateStarts DEF announceToStaff, rows
  <1>7. QED
    BY <1>1, <1>2, <1>3, <1>4, <1>5, <1>6 DEF Starts

-----------------------------------------------------------------------------
(* How handlers go on.                                                     *)

(* Handler h goes to a step with a well-formed call.                       *)
Turns(h, step, c) == MovesTo(h, step, c) /\ Formed(step, c)

LEMMA CreateTurns ==
  ASSUME TypeInv, NEW h \in Handlers, CreateConversation(h)
  PROVE  \E k \in Conversations, c \in Call :
           /\ conv[k].status = "none" /\ Turns(h, "join", c)
           /\ conv' = [conv EXCEPT ![k] = [status |-> "open", key |-> call[h].key, unread |-> 0]]
           /\ c.op = "hello" /\ c.conv = k /\ c.msg = NoMessage /\ c.now = call[h].now
           /\ c.socket = call[h].socket /\ c.list = call[h].list
  <1>1. PICK k \in Conversations :
          /\ conv[k].status = "none"
          /\ conv' = [conv EXCEPT ![k] = [status |-> "open", key |-> call[h].key, unread |-> 0]]
          /\ call' = [call EXCEPT ![h].conv = k]
    BY DEF CreateConversation
  <1> DEFINE c == [call[h] EXCEPT !.conv = k]
  <1>2. call[h] \in Call /\ Formed("create", call[h])
    BY Stays DEF CreateConversation
  <1>3. /\ c \in Call /\ c.op = "hello" /\ c.conv = k /\ c.msg = NoMessage /\ c.now = call[h].now
        /\ c.socket = call[h].socket /\ c.list = call[h].list
    BY <1>2 DEF Call, Formed
  <1>4. call' = [call EXCEPT ![h] = c] /\ pc' = [pc EXCEPT ![h] = "join"]
    BY <1>1 DEF CreateConversation
  <1> HIDE DEF c
  <1>5. Turns(h, "join", c)
    BY <1>2, <1>3, <1>4 DEF Turns, MovesTo, Formed, Steps
  <1>6. QED
    BY <1>1, <1>3, <1>5

LEMMA GotoTurns ==
  ASSUME TypeInv, NEW h \in Handlers, NEW step \in Steps, Goto(h, step), Formed(step, call[h])
  PROVE  Turns(h, step, call[h])
  BY Stays DEF Goto, Turns, MovesTo

LEMMA ReturnTurns ==
  ASSUME NEW h \in Handlers, Return(h)
  PROVE  Turns(h, "idle", NoCall)
  BY NoCallType DEF Return, Turns, MovesTo, Steps, Formed

LEMMA TellTurns ==
  ASSUME NEW h \in Handlers, TellStaff(h)
  PROVE  Turns(h, "fetch", [NoCall EXCEPT !.op = "update"])
  <1> DEFINE d == [NoCall EXCEPT !.op = "update"]
  <1>1. d \in Call /\ Formed("fetch", d) /\ call' = [call EXCEPT ![h] = d] /\ pc' = [pc EXCEPT ![h] = "fetch"]
    BY UpdateCall DEF TellStaff
  <1> HIDE DEF d
  <1>2. Turns(h, "fetch", d)
    BY <1>1 DEF Turns, MovesTo, Steps
  <1>3. QED
    BY <1>2 DEF d

LEMMA SaveTurns ==
  ASSUME TypeInv, NEW h \in Handlers, Save(h)
  PROVE  Turns(h, "count", call[h])
  <1>1. Formed("count", call[h]) /\ Goto(h, "count") /\ "count" \in Steps
    BY Stays DEF Save, Formed, Steps
  <1>2. QED
    BY <1>1, GotoTurns

LEMMA CountTurns ==
  ASSUME TypeInv, NEW h \in Handlers, Count(h)
  PROVE  \E step \in {"fetch", "join"} : Turns(h, step, call[h])
  <1>1. \E step \in {"fetch", "join"} : Goto(h, step)
    BY DEF Count
  <1>2. \A step \in {"fetch", "join"} : Formed(step, call[h]) /\ step \in Steps
    BY Stays DEF Count, Formed, Steps
  <1>3. QED
    BY <1>1, <1>2, GotoTurns

LEMMA MarkTurns ==
  ASSUME TypeInv, NEW h \in Handlers, markStaffRead(h)
  PROVE  \/ conv[call[h].conv].unread # 0 /\ Turns(h, "clear", call[h])
         \/ conv[call[h].conv].unread = 0 /\ Turns(h, "join", call[h])
  <1>1. \A step \in {"clear", "join"} : Formed(step, call[h]) /\ step \in Steps
    BY Stays DEF markStaffRead, Formed, Steps
  <1>2. QED
    BY <1>1, GotoTurns DEF markStaffRead

LEMMA ClearTurns ==
  ASSUME TypeInv, NEW h \in Handlers, ClearBadge(h)
  PROVE  Turns(h, "join", call[h])
  <1>1. Formed("join", call[h]) /\ "join" \in Steps
    BY Stays DEF ClearBadge, Formed, Steps
  <1>2. QED
    BY <1>1, GotoTurns DEF ClearBadge

LEMMA JoinTurns ==
  ASSUME TypeInv, NEW h \in Handlers, Join(h)
  PROVE  \/ call[h].op = "hello" /\ Turns(h, "idle", NoCall)
         \/ call[h].op = "open" /\ Turns(h, "list", call[h])
         \/ call[h].op \in {"visitor", "reply"} /\ Turns(h, "fetch", call[h])
  <1>1. pc[h] = "join" /\ Formed("join", call[h])
    BY Stays DEF Join
  <1>2. CASE call[h].op = "hello"
    BY <1>2, ReturnTurns DEF Join
  <1>3. CASE call[h].op = "open"
    <2>1. Goto(h, "list") /\ Formed("list", call[h]) /\ "list" \in Steps
      BY <1>1, <1>3 DEF Join, Formed, Steps
    <2>2. QED
      BY <1>3, <2>1, GotoTurns
  <1>4. CASE call[h].op \in {"visitor", "reply"}
    <2>1. Goto(h, "fetch") /\ Formed("fetch", call[h]) /\ "fetch" \in Steps
      BY <1>1, <1>4 DEF Join, Formed, Steps
    <2>2. QED
      BY <1>4, <2>1, GotoTurns
  <1>5. QED
    BY <1>1, <1>2, <1>3, <1>4 DEF Formed

LEMMA ListTurns ==
  ASSUME TypeInv, NEW h \in Handlers, listMessages(h)
  PROVE  \E step \in {"join", "thread"}, c \in Call :
           /\ Turns(h, step, c)
           /\ step = "join" <=> call[h].op = "hello"
           /\ c.list = Thread(call[h].conv) /\ c.op = call[h].op /\ c.conv = call[h].conv
           /\ c.msg = call[h].msg /\ c.socket = call[h].socket /\ c.now = call[h].now
  <1> DEFINE l == Thread(call[h].conv)
             c == [call[h] EXCEPT !.list = l]
             step == IF call[h].op = "hello" THEN "join" ELSE "thread"
  <1>1. call[h] \in Call /\ Formed("list", call[h]) /\ l \in SUBSET Messages
    BY Stays DEF listMessages, Thread
  <1>2. call' = [call EXCEPT ![h] = c] /\ pc' = [pc EXCEPT ![h] = step] /\ step \in {"join", "thread"}
    BY DEF listMessages
  <1>3. /\ c \in Call /\ c.list = l /\ c.op = call[h].op /\ c.conv = call[h].conv
        /\ c.msg = call[h].msg /\ c.socket = call[h].socket /\ c.now = call[h].now
    <2> HIDE DEF l
    <2>1. QED
      BY <1>1 DEF Call
  <1>4. step = "join" <=> call[h].op = "hello"
    OBVIOUS
  <1>5. Formed(step, c)
    <2> HIDE DEF c
    <2>1. QED
      BY <1>1, <1>3 DEF Formed
  <1> HIDE DEF c, step
  <1>6. Turns(h, step, c)
    BY <1>2, <1>3, <1>5 DEF Turns, MovesTo, Steps
  <1>7. QED
    BY <1>2, <1>3, <1>4, <1>6

LEMMA FetchTurns ==
  ASSUME TypeInv, NEW h \in Handlers, Fetch(h)
  PROVE  \E c :
           /\ Turns(h, "sweep", c)
           /\ c.now = clock /\ c.todo = {s \in staffRoom : until[s] <= clock}
           /\ c.op = call[h].op /\ c.conv = call[h].conv /\ c.msg = call[h].msg /\ c.socket = call[h].socket
           /\ c.list = call[h].list
  <1> DEFINE t == {s \in staffRoom : until[s] <= clock}
             c == [call[h] EXCEPT !.now = clock, !.live = staffRoom, !.todo = t]
  <1>1. call[h] \in Call /\ Formed("fetch", call[h]) /\ t \in SUBSET Staff
        /\ staffRoom \in SUBSET Staff /\ clock \in 0..MaxTime
    BY Stays DEF Fetch, TypeInv, TypeOK
  <1>2. call' = [call EXCEPT ![h] = c] /\ pc' = [pc EXCEPT ![h] = "sweep"]
    BY DEF Fetch
  <1>3. /\ c \in Call /\ c.now = clock /\ c.todo = t
        /\ c.op = call[h].op /\ c.conv = call[h].conv /\ c.msg = call[h].msg /\ c.socket = call[h].socket
        /\ c.list = call[h].list
    <2> HIDE DEF t
    <2>1. QED
      BY <1>1 DEF Call
  <1>4. Formed("sweep", c)
    <2> HIDE DEF c
    <2>1. QED
      BY <1>1, <1>3 DEF Formed
  <1> HIDE DEF c
  <1>5. Turns(h, "sweep", c)
    BY <1>2, <1>3, <1>4 DEF Turns, MovesTo, Steps
  <1>6. QED
    BY <1>3, <1>5

LEMMA SweepTurns ==
  ASSUME TypeInv, NEW h \in Handlers, NEW s \in Staff, enforceStaff(h, s) \/ LookupFails(h, s)
  PROVE  \E c :
           /\ pc[h] = "sweep" /\ Turns(h, "sweep", c) /\ UNCHANGED pc
           /\ c.todo = call[h].todo \ {s} /\ c.now = call[h].now
           /\ c.op = call[h].op /\ c.conv = call[h].conv /\ c.msg = call[h].msg /\ c.socket = call[h].socket
           /\ c.list = call[h].list
  <1> DEFINE t == call[h].todo \ {s}
             c == [call[h] EXCEPT !.todo = t]
  <1>1. call[h] \in Call /\ Formed("sweep", call[h]) /\ pc[h] = "sweep" /\ t \in SUBSET Staff
        /\ pc \in [Handlers -> Steps]
    <2>1. pc[h] = "sweep"
      BY DEF enforceStaff, LookupFails
    <2>2. call[h] \in Call /\ pc \in [Handlers -> Steps]
      BY Stays DEF TypeInv, TypeOK, Steps
    <2>3. call[h].todo \in SUBSET Staff
      BY <2>2 DEF Call
    <2>4. QED
      BY <2>1, <2>2, <2>3, Stays
  <1>2. call' = [call EXCEPT ![h] = c] /\ UNCHANGED pc
    BY DEF enforceStaff, LookupFails
  <1>3. /\ c \in Call /\ c.todo = t /\ c.now = call[h].now
        /\ c.op = call[h].op /\ c.conv = call[h].conv /\ c.msg = call[h].msg /\ c.socket = call[h].socket
        /\ c.list = call[h].list
    <2> HIDE DEF t
    <2>1. QED
      BY <1>1 DEF Call
  <1>4. Formed("sweep", c)
    <2> HIDE DEF c
    <2>1. QED
      BY <1>1, <1>3 DEF Formed
  <1> HIDE DEF c
  <1>5. pc' = [pc EXCEPT ![h] = "sweep"]
    BY <1>1, <1>2
  <1>6. Turns(h, "sweep", c)
    BY <1>2, <1>3, <1>4, <1>5 DEF Turns, MovesTo, Steps
  <1>7. QED
    BY <1>1, <1>2, <1>3, <1>6

LEMMA EmitTurns ==
  ASSUME TypeInv, NEW h \in Handlers, Emit(h)
  PROVE  \/ call[h].op = "update" /\ Turns(h, "idle", NoCall)
         \/ /\ call[h].op \in {"visitor", "reply"} /\ call[h].conv \in Conversations /\ call[h].msg \in Messages
            /\ Turns(h, "fetch", [NoCall EXCEPT !.op = "update"])
  <1>1. pc[h] = "sweep" /\ Formed("sweep", call[h])
    BY Stays DEF Emit
  <1>2. CASE call[h].op = "update"
    BY <1>2, ReturnTurns DEF Emit
  <1>3. CASE call[h].op \in {"visitor", "reply"}
    <2>1. TellStaff(h)
      BY <1>3 DEF Emit
    <2>2. QED
      BY <1>1, <1>3, <2>1, TellTurns DEF Formed
  <1>4. QED
    BY <1>1, <1>2, <1>3 DEF Formed

LEMMA ThreadTurns ==
  ASSUME TypeInv, NEW h \in Handlers, SendThread(h)
  PROVE  call[h].op = "open" /\ Turns(h, "fetch", [NoCall EXCEPT !.op = "update"])
  BY Stays, TellTurns DEF SendThread, Formed

-----------------------------------------------------------------------------
(* Every step keeps the types and the shape of the calls.                  *)

HandlerType == pc \in [Handlers -> Steps] /\ call \in [Handlers -> Call]

TablesType ==
  /\ conv \in [Conversations -> ConversationRow]
  /\ msg \in [Messages -> MessageRow]
  /\ counted \in SUBSET Messages /\ handed \in SUBSET Messages
  /\ announced \in SUBSET Messages /\ crossed \in SUBSET Messages

SocketsType ==
  /\ keyOf \in [Visitors -> Keys \cup {NoKey}]
  /\ room \in [Conversations -> SUBSET Sockets]
  /\ staffRoom \in SUBSET Staff /\ dropped \in SUBSET Staff
  /\ got \in [Visitors -> SUBSET Messages] /\ given \in [Visitors -> SUBSET Conversations]

AccessType ==
  /\ until \in [Staff -> 0..(MaxTime + TTL)]
  /\ revoked \in [Staff -> 0..Never] /\ clock \in 0..MaxTime
  /\ heard \in [Staff -> 0..MaxTime]

LEMMA TypeParts == TypeOK <=> HandlerType /\ TablesType /\ SocketsType /\ AccessType
  BY DEF TypeOK, HandlerType, TablesType, SocketsType, AccessType, Steps, Call

LEMMA TypePartsNext == TypeOK' <=> HandlerType' /\ TablesType' /\ SocketsType' /\ AccessType'
  BY DEF TypeOK, HandlerType, TablesType, SocketsType, AccessType, Steps, Call

LEMMA TurnType ==
  ASSUME TypeInv, NEW h \in Handlers, NEW step, NEW c, Turns(h, step, c)
  PROVE  HandlerType' /\ Shape'
  BY Moved DEF Turns, HandlerType

LEMMA CheckType ==
  ASSUME AccessType, Checks \/ UNCHANGED until, UNCHANGED <<access, heard>>
  PROVE  AccessType'
  <1>1. clock + TTL \in 0..(MaxTime + TTL)
    BY ChatAssumption DEF AccessType
  <1>2. QED
    BY <1>1 DEF AccessType, Checks, access

LEMMA StartType ==
  ASSUME TypeInv, NEW h \in Handlers, Starts(h)
  PROVE  TypeInv'
  <1>1. TablesType /\ SocketsType /\ AccessType
    BY TypeParts DEF TypeInv
  <1>2. HandlerType' /\ Shape'
    BY StartIs, TurnType DEF Fresh, Turns
  <1>3. TablesType'
    BY <1>1, StartIs DEF TablesType, Closes, ConversationRow, out
  <1>4. SocketsType'
    BY <1>1, StartIs DEF SocketsType, sockets
  <1>5. AccessType'
    BY <1>1, StartIs, CheckType
  <1>6. QED
    BY <1>2, <1>3, <1>4, <1>5, TypePartsNext DEF TypeInv

(* Steps of a handler on the tables.                                       *)
LEMMA TablesStep ==
  ASSUME TypeInv, NEW h \in Handlers,
         \/ CreateConversation(h) \/ Save(h) \/ Count(h) \/ markStaffRead(h) \/ ClearBadge(h)
         \/ listMessages(h) \/ SendThread(h) \/ Fetch(h)
  PROVE  TypeInv' /\ UNCHANGED <<sockets, access, until, heard, out>>
  <1>0. UNCHANGED <<sockets, access, until, heard, out>>
    BY DEF CreateConversation, Save, Count, markStaffRead, ClearBadge, listMessages, SendThread, Fetch
  <1>1. TablesType /\ SocketsType /\ AccessType
    BY TypeParts DEF TypeInv
  <1>2. call[h] \in Call /\ Formed(pc[h], call[h])
    BY Stays
  <1>3. SocketsType' /\ AccessType' /\ announced' = announced /\ crossed' = crossed
    BY <1>0, <1>1 DEF SocketsType, AccessType, sockets, access, out
  <1>4. HandlerType' /\ Shape'
    BY TurnType, CreateTurns, SaveTurns, CountTurns, MarkTurns, ClearTurns, ListTurns, ThreadTurns, FetchTurns
  <1>5. TablesType'
    <2>1. CASE CreateConversation(h)
      <3>1. PICK k \in Conversations, c \in Call :
              /\ conv[k].status = "none" /\ Turns(h, "join", c)
              /\ conv' = [conv EXCEPT ![k] = [status |-> "open", key |-> call[h].key, unread |-> 0]]
              /\ c.op = "hello" /\ c.conv = k /\ c.msg = NoMessage /\ c.now = call[h].now
              /\ c.socket = call[h].socket /\ c.list = call[h].list
        BY <2>1, CreateTurns
      <3>2. [status |-> "open", key |-> call[h].key, unread |-> 0] \in ConversationRow
        BY <1>2 DEF Call, ConversationRow
      <3>3. QED
        BY <1>1, <1>3, <2>1, <3>1, <3>2 DEF TablesType, CreateConversation
    <2>2. CASE Save(h)
      <3>1. [conv |-> call[h].conv, sender |-> IF call[h].op = "visitor" THEN "visitor" ELSE "staff"] \in MessageRow
        BY <1>2 DEF Call, MessageRow
      <3>2. QED
        BY <1>1, <1>3, <2>2, <3>1 DEF TablesType, Save
    <2>3. CASE Count(h)
      <3>1. pc[h] = "count" /\ call[h].msg \in Messages
        BY <1>2, <2>3 DEF Count, Formed
      <3>2. conv' \in [Conversations -> ConversationRow]
        <4>1. conv[call[h].conv] \in ConversationRow
          BY <1>1, <1>2, <3>1 DEF TablesType, Formed
        <4>2. (IF call[h].op = "visitor" THEN conv[call[h].conv].unread + 1 ELSE 0) \in Nat
          BY <4>1 DEF ConversationRow
        <4>3. QED
          BY <1>1, <2>3, <4>2, ZenonT(60) DEF TablesType, ConversationRow, Count
      <3>3. QED
        BY <1>1, <1>3, <2>3, <3>1, <3>2 DEF TablesType, Count
    <2>4. CASE ClearBadge(h)
      BY <1>1, <1>3, <2>4 DEF TablesType, ConversationRow, ClearBadge
    <2>5. CASE markStaffRead(h) \/ listMessages(h) \/ Fetch(h)
      BY <1>1, <1>3, <2>5 DEF TablesType, markStaffRead, listMessages, Fetch, rows
    <2>6. CASE SendThread(h)
      <3>1. call[h].list \in SUBSET Messages
        BY <1>2 DEF Call
      <3>2. QED
        BY <1>1, <1>3, <2>6, <3>1 DEF TablesType, SendThread
    <2>7. QED
      BY <2>1, <2>2, <2>3, <2>4, <2>5, <2>6
  <1>6. QED
    BY <1>0, <1>3, <1>4, <1>5, TypePartsNext DEF TypeInv

LEMMA JoinType ==
  ASSUME TypeInv, NEW h \in Handlers, Join(h)
  PROVE  TypeInv'
  <1>1. TablesType /\ SocketsType /\ AccessType
    BY TypeParts DEF TypeInv
  <1>2. HandlerType' /\ Shape'
    BY TurnType, JoinTurns
  <1>3. call[h] \in Call /\ Formed("join", call[h]) /\ pc[h] = "join"
    BY Stays DEF Join
  <1>4. call[h].conv \in Conversations /\ call[h].list \in SUBSET Messages /\ call[h].key \in Keys \cup {NoKey}
        /\ call[h].socket \in Sockets \cup {NoSocket}
        /\ (call[h].op = "open" => call[h].socket \in Staff)
    BY <1>3 DEF Call, Formed
  <1>5. SocketsType'
    <2>1. room' \in [Conversations -> SUBSET Sockets]
      BY <1>1, <1>4 DEF SocketsType, Join
    <2>2. staffRoom' \in SUBSET Staff /\ dropped' \in SUBSET Staff
      BY <1>1, <1>4 DEF SocketsType, Join
    <2>3. keyOf' \in [Visitors -> Keys \cup {NoKey}]
      BY <1>1, <1>4 DEF SocketsType, Join
    <2>4. got' \in [Visitors -> SUBSET Messages] /\ given' \in [Visitors -> SUBSET Conversations]
      BY <1>1, <1>4 DEF SocketsType, Join
    <2>5. QED
      BY <2>1, <2>2, <2>3, <2>4 DEF SocketsType
  <1>6. TablesType' /\ AccessType'
    BY <1>1 DEF Join, TablesType, AccessType, rows, access, out
  <1>7. QED
    BY <1>2, <1>5, <1>6, TypePartsNext DEF TypeInv

LEMMA SweepType ==
  ASSUME TypeInv, NEW h \in Handlers, NEW s \in Staff, enforceStaff(h, s) \/ LookupFails(h, s)
  PROVE  TypeInv'
  <1>1. TablesType /\ SocketsType /\ AccessType
    BY TypeParts DEF TypeInv
  <1>2. HandlerType' /\ Shape'
    BY TurnType, SweepTurns
  <1>3. call[h].now + TTL \in 0..(MaxTime + TTL) /\ 0 \in 0..(MaxTime + TTL)
    BY Stays, ChatAssumption DEF Call
  <1>4. SocketsType'
    BY <1>1 DEF SocketsType, enforceStaff, LookupFails, Disconnect
  <1>5. TablesType' /\ AccessType'
    BY <1>1, <1>3 DEF TablesType, AccessType, enforceStaff, LookupFails, Disconnect, rows, access, out
  <1>6. QED
    BY <1>2, <1>4, <1>5, TypePartsNext DEF TypeInv

LEMMA EmitType ==
  ASSUME TypeInv, NEW h \in Handlers, Emit(h)
  PROVE  TypeInv'
  <1>1. TablesType /\ SocketsType /\ AccessType
    BY TypeParts DEF TypeInv
  <1>2. HandlerType' /\ Shape'
    BY TurnType, EmitTurns
  <1>3. call[h].now \in 0..MaxTime /\ 0 \in 0..(MaxTime + TTL)
        /\ (call[h].op # "update" => call[h].msg \in Messages)
    BY Stays, EmitTurns, ChatAssumption DEF Call
  <1>4. SocketsType'
    BY <1>1, <1>3 DEF SocketsType, Emit
  <1>5. AccessType'
    BY <1>1, <1>3 DEF AccessType, Emit, access
  <1>6. TablesType'
    BY <1>1, <1>3 DEF TablesType, Emit, rows
  <1>7. QED
    BY <1>2, <1>4, <1>5, <1>6, TypePartsNext DEF TypeInv

(* A connection lost: handlers go on without it.                           *)
LEMMA GoneIs ==
  ASSUME TypeInv, NEW v \in Visitors, visitorGone(v)
  PROVE  \A h \in Handlers :
           /\ call'[h] \in Call /\ pc'[h] = pc[h]
           /\ call'[h].op = call[h].op /\ call'[h].conv = call[h].conv /\ call'[h].msg = call[h].msg
           /\ call'[h].list = call[h].list /\ call'[h].now = call[h].now /\ call'[h].todo = call[h].todo
           /\ call'[h].socket = IF call[h].socket = v THEN NoSocket ELSE call[h].socket
  <1>1. ASSUME NEW c \in Call
        PROVE  LET d == [c EXCEPT !.socket = NoSocket]
               IN  /\ d \in Call /\ d.op = c.op /\ d.socket = NoSocket /\ d.key = c.key /\ d.conv = c.conv
                   /\ d.msg = c.msg /\ d.list = c.list /\ d.now = c.now /\ d.live = c.live /\ d.todo = c.todo
    BY DEF Call
  <1>2. ASSUME NEW h \in Handlers
        PROVE  call[h] \in Call
               /\ call'[h] = IF call[h].socket = v THEN [call[h] EXCEPT !.socket = NoSocket] ELSE call[h]
    BY Stays DEF visitorGone
  <1>3. QED
    BY <1>1, <1>2 DEF visitorGone

LEMMA GoneType ==
  ASSUME TypeInv, NEW v \in Visitors, visitorGone(v)
  PROVE  TypeInv'
  <1>1. TablesType /\ SocketsType /\ AccessType /\ HandlerType
    BY TypeParts DEF TypeInv
  <1>2. HandlerType'
    <2>1. call' = [h \in Handlers |-> call'[h]] /\ pc' = pc
      BY DEF visitorGone
    <2>2. QED
      BY <1>1, <2>1, GoneIs DEF HandlerType
  <1>3. Shape'
    <2>1. ASSUME NEW h \in Handlers
          PROVE  Formed(pc'[h], call'[h])
      <3>1. Formed(pc[h], call[h])
        BY Stays
      <3>2. call[h].op = "open" => call[h].socket # v
        BY <3>1, ChatAssumption DEF Formed
      <3>3. QED
        BY <3>1, <3>2, GoneIs DEF Formed
    <2>2. QED
      BY <2>1 DEF Shape
  <1>4. SocketsType'
    BY <1>1 DEF SocketsType, visitorGone
  <1>5. TablesType' /\ AccessType'
    BY <1>1 DEF TablesType, AccessType, visitorGone, rows, access, out
  <1>6. QED
    BY <1>2, <1>3, <1>4, <1>5, TypePartsNext DEF TypeInv

LEMMA AccountType ==
  ASSUME TypeInv,
         Tick \/ UNCHANGED vars \/ \E s \in Staff : staffHello(s) \/ staffRefused(s) \/ Revoke(s)
  PROVE  TypeInv' /\ UNCHANGED <<pc, call, rows>>
  <1>1. TablesType /\ SocketsType /\ AccessType /\ HandlerType /\ Shape
    BY TypeParts DEF TypeInv
  <1>2. UNCHANGED <<pc, call, rows, heard, out>>
    BY DEF Tick, vars, staffHello, staffRefused, Revoke
  <1>3. HandlerType' /\ Shape' /\ TablesType'
    BY <1>1, <1>2 DEF HandlerType, Shape, Formed, TablesType, rows, out
  <1>4. SocketsType'
    BY <1>1 DEF SocketsType, sockets, Tick, vars, staffHello, staffRefused, Revoke
  <1>5. AccessType'
    <2>1. clock + TTL \in 0..(MaxTime + TTL) /\ 0 \in 0..(MaxTime + TTL) /\ clock \in 0..Never
      BY <1>1, ChatAssumption DEF AccessType, Never
    <2>2. CASE Tick
      BY <1>1, <1>2, <2>2, ChatAssumption DEF AccessType, Tick
    <2>3. CASE UNCHANGED vars
      BY <1>1, <2>3 DEF AccessType, vars, access
    <2>4. ASSUME NEW s \in Staff, staffHello(s) \/ staffRefused(s) \/ Revoke(s)
          PROVE  AccessType'
      BY <1>1, <1>2, <2>1, <2>4 DEF AccessType, staffHello, staffRefused, Revoke, requireStaff, access
    <2>5. QED
      BY <2>2, <2>3, <2>4
  <1>6. QED
    BY <1>2, <1>3, <1>4, <1>5, TypePartsNext DEF TypeInv

LEMMA TypeStep ==
  ASSUME TypeInv, [Next]_vars
  PROVE  TypeInv'
  BY StartType, TablesStep, JoinType, SweepType, EmitType, GoneType, AccountType DEF Next, Proceed, Starts

LEMMA TypeInit == Init => TypeInv
  <1> SUFFICES ASSUME Init PROVE TypeInv
    OBVIOUS
  <1>1. HandlerType /\ Shape
    BY NoCallType DEF Init, HandlerType, Shape, Formed, Steps
  <1>2. TablesType /\ SocketsType /\ AccessType
    BY ChatAssumption DEF Init, TablesType, SocketsType, AccessType, ConversationRow, MessageRow, Never
  <1>3. QED
    BY <1>1, <1>2, TypeParts DEF TypeInv

(* Every reachable state is well typed: rows, rooms, memos and handlers    *)
(* hold what the tables and the gateway hold, whatever is interleaved.     *)
THEOREM ChatTypeCorrect == Spec => []TypeOK
  <1>1. Spec => []TypeInv
    BY TypeInit, TypeStep, PTL DEF Spec
  <1>2. TypeInv => TypeOK
    BY DEF TypeInv
  <1>3. QED
    BY <1>1, <1>2, PTL

-----------------------------------------------------------------------------
(* Operators without access hear nothing.                                  *)

(* An access that has ended did so in the past; a memo never reaches more  *)
(* than a TTL past the last time its account was allowed.                  *)
Memos ==
  \A s \in Staff :
    /\ Active(s) => until[s] <= clock + TTL /\ heard[s] <= clock
    /\ ~Active(s) => revoked[s] <= clock /\ until[s] <= revoked[s] + TTL /\ heard[s] < revoked[s] + TTL

(* Whoever is in the room of a conversation is in the operators' room too, *)
(* and the disconnected are in neither.                                    *)
Rooms ==
  /\ \A c \in Conversations : room[c] \cap Staff \subseteq staffRoom
  /\ staffRoom \cap dropped = {}
  /\ \A h \in Handlers : call[h].op = "reply" => call[h].socket \in staffRoom \cup dropped \cup {NoSocket}

(* An operator on its way into the room had access at this very moment.    *)
Entering ==
  \A h \in Handlers : call[h].op = "open" /\ pc[h] \in {"mark", "clear", "join"} =>
    Active(call[h].socket) \/ revoked[call[h].socket] = clock

(* Once the sweep is done with an operator, or trusts it, this fan-out may *)
(* reach it.                                                               *)
Swept(h) ==
  pc[h] = "sweep" => \A s \in staffRoom \ call[h].todo : Active(s) \/ call[h].now < revoked[s] + TTL

Clocks == \A h \in Handlers : call[h].now <= clock

ListenInv == TypeInv /\ Memos /\ Rooms /\ Entering /\ Clocks /\ \A h \in Handlers : Swept(h)

LEMMA Numbers ==
  ASSUME TypeInv
  PROVE  /\ clock \in Nat /\ TTL \in Nat /\ TTL > 0 /\ MaxTime \in Nat /\ clock <= MaxTime
         /\ \A s \in Staff : until[s] \in Nat /\ revoked[s] \in Nat /\ heard[s] \in Nat
         /\ \A h \in Handlers : call[h].now \in Nat /\ call[h].todo \in SUBSET Staff
         /\ staffRoom \in SUBSET Staff
  <1>1. AccessType /\ staffRoom \in SUBSET Staff
    BY TypeParts DEF TypeInv, SocketsType
  <1>2. \A h \in Handlers : call[h].now \in 0..MaxTime /\ call[h].todo \in SUBSET Staff
    BY Stays DEF Call
  <1>3. QED
    BY <1>1, <1>2, ChatAssumption DEF AccessType, Never

(* A step of h that leaves sockets and accounts alone.                     *)
LEMMA QuietListen ==
  ASSUME ListenInv, TypeInv', NEW h \in Handlers, NEW step, NEW c, Turns(h, step, c),
         UNCHANGED <<sockets, access, heard>>, Checks \/ UNCHANGED until,
         c.now <= clock,
         c.op = "reply" => c.socket \in staffRoom \cup dropped \cup {NoSocket},
         c.op = "open" /\ step \in {"mark", "clear", "join"} => Active(c.socket) \/ revoked[c.socket] = clock,
         step = "sweep" => \A s \in staffRoom \ c.todo : Active(s) \/ c.now < revoked[s] + TTL
  PROVE  ListenInv'
  <1>1. /\ pc'[h] = step /\ call'[h] = c
        /\ \A g \in Handlers \ {h} : pc'[g] = pc[g] /\ call'[g] = call[g]
    BY Moved DEF ListenInv, Turns
  <1>2. Memos'
    <2>1. until \in [Staff -> 0..(MaxTime + TTL)]
      BY TypeParts DEF ListenInv, TypeInv, AccessType
    <2>2. ASSUME NEW s \in Staff
          PROVE  until'[s] = until[s] \/ (Active(s) /\ until'[s] = clock + TTL)
      BY <2>1 DEF Checks
    <2>3. QED
      BY <2>2, Numbers DEF ListenInv, Memos, Active, access
  <1>3. Rooms'
    BY <1>1 DEF ListenInv, Rooms, sockets
  <1>4. Entering' /\ Clocks'
    BY <1>1 DEF ListenInv, Entering, Clocks, Active, access
  <1>5. \A g \in Handlers : Swept(g)'
    BY <1>1 DEF ListenInv, Swept, Active, access, sockets
  <1>6. QED
    BY <1>2, <1>3, <1>4, <1>5 DEF ListenInv

LEMMA StartListen ==
  ASSUME ListenInv, NEW h \in Handlers, Starts(h)
  PROVE  ListenInv'
  <1>1. TypeInv /\ TypeInv'
    BY StartType DEF ListenInv
  <1>2. PICK step, c : Fresh(h, step, c)
    BY <1>1, StartIs
  <1>3. c.now <= clock
    BY <1>1, <1>2, Numbers DEF Fresh
  <1>4. QED
    BY <1>1, <1>2, <1>3, StartIs, QuietListen DEF Fresh, Turns

LEMMA TablesListen ==
  ASSUME ListenInv, NEW h \in Handlers,
         \/ CreateConversation(h) \/ Save(h) \/ Count(h) \/ markStaffRead(h) \/ ClearBadge(h)
         \/ listMessages(h) \/ SendThread(h) \/ Fetch(h)
  PROVE  ListenInv'
  <1>1. TypeInv /\ TypeInv' /\ UNCHANGED <<sockets, access, until, heard>>
    BY TablesStep DEF ListenInv
  <1>2. call[h].now <= clock /\ (call[h].op = "reply" => call[h].socket \in staffRoom \cup dropped \cup {NoSocket})
        /\ (call[h].op = "open" /\ pc[h] \in {"mark", "clear", "join"} =>
              Active(call[h].socket) \/ revoked[call[h].socket] = clock)
    BY DEF ListenInv, Clocks, Rooms, Entering
  <1>3. CASE CreateConversation(h)
    <2>1. PICK k \in Conversations, c \in Call :
            /\ conv[k].status = "none" /\ Turns(h, "join", c)
            /\ conv' = [conv EXCEPT ![k] = [status |-> "open", key |-> call[h].key, unread |-> 0]]
            /\ c.op = "hello" /\ c.conv = k /\ c.msg = NoMessage /\ c.now = call[h].now
            /\ c.socket = call[h].socket /\ c.list = call[h].list
      BY <1>1, <1>3, CreateTurns
    <2>2. QED
      BY <1>1, <1>2, <2>1, QuietListen
  <1>4. CASE Save(h)
    <2>1. Turns(h, "count", call[h])
      BY <1>1, <1>4, SaveTurns
    <2>2. QED
      BY <1>1, <1>2, <2>1, QuietListen
  <1>5. CASE Count(h)
    <2>1. PICK step \in {"fetch", "join"} : Turns(h, step, call[h])
      BY <1>1, <1>5, CountTurns
    <2>2. call[h].op # "open"
      BY <1>1, <1>5, Stays DEF Count, Formed
    <2>3. QED
      BY <1>1, <1>2, <2>1, <2>2, QuietListen
  <1>6. CASE markStaffRead(h)
    <2>1. PICK step \in {"clear", "join"} : Turns(h, step, call[h])
      BY <1>1, <1>6, MarkTurns
    <2>2. pc[h] = "mark"
      BY <1>6 DEF markStaffRead
    <2>3. QED
      BY <1>1, <1>2, <2>1, <2>2, QuietListen
  <1>7. CASE ClearBadge(h)
    <2>1. Turns(h, "join", call[h]) /\ pc[h] = "clear"
      BY <1>1, <1>7, ClearTurns DEF ClearBadge
    <2>2. QED
      BY <1>1, <1>2, <2>1, QuietListen
  <1>8. CASE listMessages(h)
    <2>1. PICK step \in {"join", "thread"}, c \in Call :
            /\ Turns(h, step, c)
            /\ step = "join" <=> call[h].op = "hello"
            /\ c.list = Thread(call[h].conv) /\ c.op = call[h].op /\ c.conv = call[h].conv
            /\ c.msg = call[h].msg /\ c.socket = call[h].socket /\ c.now = call[h].now
      BY <1>1, <1>8, ListTurns
    <2>2. QED
      BY <1>1, <1>2, <2>1, QuietListen
  <1>9. CASE SendThread(h)
    <2> DEFINE d == [NoCall EXCEPT !.op = "update"]
    <2>1. Turns(h, "fetch", d) /\ d.op = "update" /\ d.now = 0
      BY <1>1, <1>9, ThreadTurns, UpdateCall
    <2>2. 0 <= clock
      BY <1>1, Numbers
    <2> HIDE DEF d
    <2>3. QED
      BY <1>1, <2>1, <2>2, QuietListen
  <1>10. CASE Fetch(h)
    <2>1. PICK c :
            /\ Turns(h, "sweep", c)
            /\ c.now = clock /\ c.todo = {s \in staffRoom : until[s] <= clock}
            /\ c.op = call[h].op /\ c.conv = call[h].conv /\ c.msg = call[h].msg /\ c.socket = call[h].socket
            /\ c.list = call[h].list
      BY <1>1, <1>10, FetchTurns
    <2>2. ASSUME NEW s \in staffRoom \ c.todo
          PROVE  Active(s) \/ c.now < revoked[s] + TTL
      <3>1. s \in Staff /\ ~(until[s] <= clock)
        BY <1>1, <2>1, <2>2, Numbers
      <3>2. ~Active(s) => until[s] <= revoked[s] + TTL
        BY <3>1 DEF ListenInv, Memos
      <3>3. QED
        BY <1>1, <2>1, <3>1, <3>2, Numbers
    <2>3. c.now <= clock
      BY <1>1, <2>1, Numbers
    <2>4. QED
      BY <1>1, <1>2, <2>1, <2>2, <2>3, QuietListen
  <1>11. QED
    BY <1>3, <1>4, <1>5, <1>6, <1>7, <1>8, <1>9, <1>10

(* Entering the rooms.                                                     *)
LEMMA JoinListen ==
  ASSUME ListenInv, NEW h \in Handlers, Join(h)
  PROVE  ListenInv'
  <1>1. TypeInv /\ TypeInv' /\ UNCHANGED <<dropped, access, until, heard>>
    BY JoinType DEF ListenInv, Join
  <1>2. /\ pc[h] = "join" /\ call[h] \in Call /\ Formed("join", call[h]) /\ call[h].conv \in Conversations
    BY <1>1, Stays DEF Join, Formed
  <1> DEFINE s == call[h].socket
  <1>3. PICK step, c : /\ Turns(h, step, c) /\ step \in {"idle", "list", "fetch"}
                       /\ c = NoCall \/ c = call[h]
    BY <1>1, JoinTurns
  <1>4. /\ pc'[h] = step /\ call'[h] = c
        /\ \A g \in Handlers \ {h} : pc'[g] = pc[g] /\ call'[g] = call[g]
    BY <1>1, <1>3, Moved DEF Turns
  <1>5. NoCall.op = "none" /\ NoCall.now = 0
    BY NoCallType DEF NoCall
  <1>6. staffRoom' = IF call[h].op = "open" THEN staffRoom \cup ({s} \ dropped) ELSE staffRoom
    BY DEF Join
  <1>7. Memos'
    BY <1>1 DEF ListenInv, Memos, Active, access
  <1>8. Rooms'
    <2>1. room' = [room EXCEPT ![call[h].conv] = @ \cup ({s} \ (dropped \cup {NoSocket}))]
      BY DEF Join
    <2>2. room \in [Conversations -> SUBSET Sockets]
      BY <1>1, TypeParts DEF TypeInv, SocketsType
    <2>3. ASSUME s \in Staff, s \notin dropped
          PROVE  s \in staffRoom'
      <3>1. s # NoSocket /\ s \notin Visitors
        BY <2>3, ChatAssumption DEF Sockets
      <3>2. CASE call[h].op = "open"
        BY <1>6, <2>3, <3>2
      <3>3. CASE call[h].op = "reply"
        <4>1. s \in staffRoom \cup dropped \cup {NoSocket}
          BY <3>3 DEF ListenInv, Rooms
        <4>2. QED
          BY <1>6, <2>3, <3>1, <4>1
      <3>4. call[h].op \in {"open", "reply"}
        BY <1>2, <3>1 DEF Formed
      <3>5. QED
        BY <3>2, <3>3, <3>4
    <2>4. staffRoom \subseteq staffRoom' /\ staffRoom' \cap dropped' = {}
      BY <1>1, <1>6 DEF ListenInv, Rooms
    <2>5. ASSUME NEW k \in Conversations
          PROVE  room'[k] \cap Staff \subseteq staffRoom'
      <3>1. room'[k] \subseteq room[k] \cup ({s} \ dropped)
        BY <1>2, <2>1, <2>2
      <3>2. room[k] \cap Staff \subseteq staffRoom
        BY DEF ListenInv, Rooms
      <3>3. QED
        BY <2>3, <2>4, <3>1, <3>2
    <2>6. ASSUME NEW g \in Handlers, call'[g].op = "reply"
          PROVE  call'[g].socket \in staffRoom' \cup dropped' \cup {NoSocket}
      <3>1. call'[g] = call[g]
        BY <1>3, <1>4, <1>5, <2>6
      <3>2. QED
        BY <1>1, <2>4, <2>6, <3>1 DEF ListenInv, Rooms
    <2>7. QED
      BY <2>4, <2>5, <2>6 DEF Rooms
  <1>9. Entering' /\ Clocks'
    <2>1. 0 <= clock
      BY <1>1, Numbers
    <2>2. Entering'
      BY <1>1, <1>3, <1>4 DEF ListenInv, Entering, Active, access
    <2>3. Clocks'
      BY <1>1, <1>3, <1>4, <1>5, <2>1 DEF ListenInv, Clocks, access
    <2>4. QED
      BY <2>2, <2>3
  <1>10. ASSUME NEW g \in Handlers
         PROVE  Swept(g)'
    <2> SUFFICES ASSUME pc'[g] = "sweep", NEW r \in staffRoom' \ call'[g].todo
                 PROVE  Active(r)' \/ call'[g].now < revoked'[r] + TTL
      BY DEF Swept
    <2>1. g # h /\ pc[g] = "sweep" /\ call'[g] = call[g]
      BY <1>3, <1>4
    <2>2. CASE r \in staffRoom
      BY <1>1, <2>1, <2>2 DEF ListenInv, Swept, Active, access
    <2>3. CASE r = s /\ call[h].op = "open"
      <3>1. Active(s) \/ revoked[s] = clock
        BY <1>2, <2>3 DEF ListenInv, Entering
      <3>2. call[g].now <= clock
        BY DEF ListenInv, Clocks
      <3>3. s \in Staff
        BY <1>2, <2>3 DEF Formed
      <3>4. QED
        BY <1>1, <2>1, <2>3, <3>1, <3>2, <3>3, Numbers DEF Active, access
    <2>4. QED
      BY <1>6, <2>2, <2>3
  <1>11. QED
    BY <1>1, <1>7, <1>8, <1>9, <1>10 DEF ListenInv

(* The sweep checks an operator, or disconnects it.                        *)
LEMMA SweepListen ==
  ASSUME ListenInv, NEW h \in Handlers, NEW s \in Staff, enforceStaff(h, s) \/ LookupFails(h, s)
  PROVE  ListenInv'
  <1>1. TypeInv /\ TypeInv' /\ UNCHANGED <<access, heard>>
    BY SweepType DEF ListenInv, enforceStaff, LookupFails
  <1>2. PICK c :
          /\ pc[h] = "sweep" /\ Turns(h, "sweep", c) /\ UNCHANGED pc
          /\ c.todo = call[h].todo \ {s} /\ c.now = call[h].now
          /\ c.op = call[h].op /\ c.conv = call[h].conv /\ c.msg = call[h].msg /\ c.socket = call[h].socket
          /\ c.list = call[h].list
    BY <1>1, SweepTurns
  <1>3. /\ pc'[h] = "sweep" /\ call'[h] = c
        /\ \A g \in Handlers \ {h} : pc'[g] = pc[g] /\ call'[g] = call[g]
    BY <1>1, <1>2, Moved DEF Turns
  <1>4. \/ Active(s) /\ until' = [until EXCEPT ![s] = call[h].now + TTL] /\ UNCHANGED <<dropped, staffRoom, room>>
        \/ Disconnect(s)
    BY DEF enforceStaff, LookupFails
  <1>5. until \in [Staff -> 0..(MaxTime + TTL)] /\ room \in [Conversations -> SUBSET Sockets]
    BY <1>1, TypeParts DEF TypeInv, AccessType, SocketsType
  <1>6. \A r \in Staff : \/ until'[r] = until[r]
                         \/ Active(r) /\ until'[r] = call[h].now + TTL
                         \/ until'[r] = 0
    BY <1>4, <1>5 DEF Disconnect
  <1>7. /\ staffRoom' \subseteq staffRoom /\ staffRoom \subseteq staffRoom' \cup dropped'
        /\ dropped \subseteq dropped' /\ staffRoom' \cap dropped' = {}
        /\ \A k \in Conversations : room'[k] \subseteq room[k]
        /\ ~Active(s) => s \notin staffRoom'
        /\ s \notin staffRoom' => \A k \in Conversations : s \notin room'[k] \/ UNCHANGED <<room, staffRoom>>
        /\ \A r \in staffRoom \ staffRoom' : r = s
    BY <1>4, <1>5 DEF Disconnect, ListenInv, Rooms
  <1>8. Memos'
    <2>1. call[h].now <= clock
      BY DEF ListenInv, Clocks
    <2>2. QED
      BY <1>1, <1>6, <2>1, Numbers DEF ListenInv, Memos, Active, access
  <1>9. Rooms'
    <2>1. ASSUME NEW k \in Conversations
          PROVE  room'[k] \cap Staff \subseteq staffRoom'
      <3>1. room[k] \cap Staff \subseteq staffRoom
        BY DEF ListenInv, Rooms
      <3>2. QED
        BY <1>7, <3>1
    <2>2. QED
      BY <1>2, <1>3, <1>7, <2>1 DEF ListenInv, Rooms
  <1>10. Entering' /\ Clocks'
    BY <1>1, <1>2, <1>3 DEF ListenInv, Entering, Clocks, Active, access
  <1>11. ASSUME NEW g \in Handlers
         PROVE  Swept(g)'
    <2> SUFFICES ASSUME pc'[g] = "sweep", NEW r \in staffRoom' \ call'[g].todo
                 PROVE  Active(r)' \/ call'[g].now < revoked'[r] + TTL
      BY DEF Swept
    <2>1. CASE g = h /\ r = s
      BY <1>1, <1>7, <2>1 DEF Active, access
    <2>2. CASE g # h \/ r # s
      <3>1. r \in staffRoom \ call[g].todo /\ pc[g] = "sweep" /\ call'[g].now = call[g].now
        BY <1>2, <1>3, <1>7, <2>2
      <3>2. QED
        BY <1>1, <3>1 DEF ListenInv, Swept, Active, access
    <2>3. QED
      BY <2>1, <2>2
  <1>12. QED
    BY <1>1, <1>8, <1>9, <1>10, <1>11 DEF ListenInv

(* The fan-out itself.                                                     *)
LEMMA EmitListen ==
  ASSUME ListenInv, NEW h \in Handlers, Emit(h)
  PROVE  ListenInv'
  <1>1. TypeInv /\ TypeInv' /\ UNCHANGED <<room, staffRoom, dropped, access>>
    BY EmitType DEF ListenInv, Emit
  <1>2. PICK step, c : Turns(h, step, c) /\ step \in {"idle", "fetch"} /\ c.op \in {"none", "update"} /\ c.now = 0
    BY <1>1, EmitTurns, NoCallType, UpdateCall DEF NoCall
  <1>3. /\ pc'[h] = step /\ call'[h] = c
        /\ \A g \in Handlers \ {h} : pc'[g] = pc[g] /\ call'[g] = call[g]
    BY <1>1, <1>2, Moved DEF Turns
  <1>4. Memos'
    <2> DEFINE to == staffRoom \cup (IF call[h].op # "update" THEN room[call[h].conv] ELSE {})
    <2>1. pc[h] = "sweep" /\ call[h].todo = {}
          /\ heard' = [s \in Staff |-> IF s \in to THEN call[h].now ELSE heard[s]]
          /\ until' = [s \in Staff |-> IF s \in call[h].live THEN until[s] ELSE 0]
      BY DEF Emit
    <2>2. to \cap Staff \subseteq staffRoom
      BY <1>1, EmitTurns DEF ListenInv, Rooms
    <2>3. ASSUME NEW s \in Staff, s \in to
          PROVE  Active(s) \/ call[h].now < revoked[s] + TTL
      BY <2>1, <2>2, <2>3 DEF ListenInv, Swept
    <2>4. call[h].now <= clock
      BY DEF ListenInv, Clocks
    <2> HIDE DEF to
    <2>5. ASSUME NEW s \in Staff
          PROVE  (until'[s] = until[s] \/ until'[s] = 0)
                 /\ (heard'[s] = heard[s] \/ (s \in to /\ heard'[s] = call[h].now))
      BY <2>1
    <2>6. QED
      BY <1>1, <2>3, <2>4, <2>5, Numbers DEF ListenInv, Memos, Active, access
  <1>5. Rooms'
    BY <1>1, <1>2, <1>3 DEF ListenInv, Rooms
  <1>6. Entering' /\ Clocks'
    BY <1>1, <1>2, <1>3, Numbers DEF ListenInv, Entering, Clocks, Active, access
  <1>7. \A g \in Handlers : Swept(g)'
    BY <1>1, <1>2, <1>3 DEF ListenInv, Swept, Active, access
  <1>8. QED
    BY <1>1, <1>4, <1>5, <1>6, <1>7 DEF ListenInv

LEMMA GoneListen ==
  ASSUME ListenInv, NEW v \in Visitors, visitorGone(v)
  PROVE  ListenInv'
  <1>1. TypeInv /\ TypeInv' /\ UNCHANGED <<staffRoom, dropped, access, until, heard>>
    BY GoneType DEF ListenInv, visitorGone
  <1>2. \A h \in Handlers :
           /\ call'[h] \in Call /\ pc'[h] = pc[h]
           /\ call'[h].op = call[h].op /\ call'[h].conv = call[h].conv /\ call'[h].msg = call[h].msg
           /\ call'[h].list = call[h].list /\ call'[h].now = call[h].now /\ call'[h].todo = call[h].todo
           /\ call'[h].socket = IF call[h].socket = v THEN NoSocket ELSE call[h].socket
    BY <1>1, GoneIs
  <1>3. Memos'
    BY <1>1 DEF ListenInv, Memos, Active, access
  <1>4. Rooms'
    <2>1. \A k \in Conversations : room'[k] \subseteq room[k]
      BY DEF visitorGone
    <2>2. QED
      BY <1>1, <1>2, <2>1 DEF ListenInv, Rooms
  <1>5. Entering'
    <2>1. \A h \in Handlers : call[h].op = "open" => call[h].socket # v
      BY <1>1, Stays, ChatAssumption DEF Formed
    <2>2. QED
      BY <1>1, <1>2, <2>1 DEF ListenInv, Entering, Active, access
  <1>6. Clocks' /\ \A h \in Handlers : Swept(h)'
    BY <1>1, <1>2 DEF ListenInv, Clocks, Swept, Active, access
  <1>7. QED
    BY <1>1, <1>3, <1>4, <1>5, <1>6 DEF ListenInv

LEMMA AccountListen ==
  ASSUME ListenInv,
         Tick \/ UNCHANGED vars \/ \E s \in Staff : staffHello(s) \/ staffRefused(s) \/ Revoke(s)
  PROVE  ListenInv'
  <1>1. TypeInv /\ TypeInv' /\ UNCHANGED <<pc, call>>
    BY AccountType DEF ListenInv
  <1>2. CASE Tick
    <2>1. clock' = clock + 1 /\ UNCHANGED <<sockets, until, revoked, heard>>
      BY <1>2 DEF Tick
    <2>2. Memos' /\ Clocks'
      BY <1>1, <2>1, Numbers DEF ListenInv, Memos, Clocks, Active
    <2>3. Entering'
      BY <1>1, <1>2 DEF Tick, Entering
    <2>4. Rooms' /\ \A h \in Handlers : Swept(h)'
      BY <1>1, <2>1 DEF ListenInv, Rooms, Swept, Active, sockets
    <2>5. QED
      BY <1>1, <2>2, <2>3, <2>4 DEF ListenInv
  <1>3. CASE UNCHANGED vars
    BY <1>1, <1>3 DEF vars, sockets, access, ListenInv, Memos, Rooms, Entering, Clocks, Swept, Active
  <1>4. ASSUME NEW s \in Staff, staffHello(s) \/ staffRefused(s)
        PROVE  ListenInv'
    <2>1. /\ UNCHANGED <<room, dropped, access, heard>>
          /\ staffRoom \subseteq staffRoom'
          /\ \A r \in staffRoom' \ staffRoom : Active(r) /\ r \notin dropped
      BY <1>4 DEF staffHello, staffRefused, requireStaff, sockets
    <2>2. \A r \in Staff : \/ until'[r] = until[r] \/ until'[r] = 0
                           \/ Active(r) /\ until'[r] = clock + TTL
      <3>1. until \in [Staff -> 0..(MaxTime + TTL)]
        BY <1>1, TypeParts DEF TypeInv, AccessType
      <3>2. QED
        BY <1>4, <3>1 DEF staffHello, staffRefused, requireStaff
    <2>3. Memos'
      BY <1>1, <2>1, <2>2, Numbers DEF ListenInv, Memos, Active, access
    <2>4. Rooms'
      BY <1>1, <2>1 DEF ListenInv, Rooms
    <2>5. Entering' /\ Clocks' /\ \A h \in Handlers : Swept(h)'
      BY <1>1, <2>1 DEF ListenInv, Entering, Clocks, Swept, Active, access
    <2>6. QED
      BY <1>1, <2>3, <2>4, <2>5 DEF ListenInv
  <1>5. ASSUME NEW s \in Staff, Revoke(s)
        PROVE  ListenInv'
    <2>1. /\ UNCHANGED <<sockets, until, clock, heard>> /\ Active(s) /\ revoked'[s] = clock
          /\ \A r \in Staff \ {s} : revoked'[r] = revoked[r]
      <3>1. revoked \in [Staff -> 0..Never]
        BY <1>1, TypeParts DEF TypeInv, AccessType
      <3>2. QED
        BY <1>5, <3>1 DEF Revoke
    <2>2. clock # Never
      BY <1>1, Numbers DEF Never
    <2>3. Memos'
      BY <1>1, <2>1, <2>2, Numbers DEF ListenInv, Memos, Active
    <2>4. Rooms' /\ Clocks'
      BY <1>1, <2>1 DEF ListenInv, Rooms, Clocks, sockets
    <2>5. Entering'
      <3>1. \A h \in Handlers : call[h].op = "open" => call[h].socket \in Staff
        BY <1>1, Stays DEF Formed
      <3>2. QED
        BY <1>1, <2>1, <3>1 DEF ListenInv, Entering, Active
    <2>6. ASSUME NEW h \in Handlers
          PROVE  Swept(h)'
      <3>1. call[h].now <= clock
        BY DEF ListenInv, Clocks
      <3>2. \A r \in staffRoom : r \in Staff
        BY <1>1, Numbers
      <3>3. QED
        BY <1>1, <2>1, <3>1, <3>2, Numbers DEF ListenInv, Swept, Active, sockets
    <2>7. QED
      BY <1>1, <2>3, <2>4, <2>5, <2>6 DEF ListenInv
  <1>6. QED
    BY <1>2, <1>3, <1>4, <1>5

LEMMA ListenStep ==
  ASSUME ListenInv, [Next]_vars
  PROVE  ListenInv'
  BY StartListen, TablesListen, JoinListen, SweepListen, EmitListen, GoneListen, AccountListen
  DEF Next, Proceed, Starts

LEMMA ListenInit == Init => ListenInv
  <1> SUFFICES ASSUME Init PROVE ListenInv
    OBVIOUS
  <1>1. NoCall.op = "none" /\ NoCall.now = 0
    BY DEF NoCall
  <1>2. \A h \in Handlers : pc[h] = "idle" /\ call[h] = NoCall
    BY DEF Init
  <1>3. Memos /\ Clocks
    BY <1>1, <1>2, ChatAssumption DEF Init, Memos, Clocks, Active
  <1>4. Rooms /\ Entering /\ \A h \in Handlers : Swept(h)
    BY <1>1, <1>2 DEF Init, Rooms, Entering, Swept
  <1>5. QED
    BY <1>3, <1>4, TypeInit DEF ListenInv

(* No fan-out that begins a recheck interval or more after an account lost *)
(* its access reaches its socket, however many handlers, sweeps, entries   *)
(* and failing look-ups are interleaved with it.                           *)
THEOREM RevokedAreDeaf == Spec => []RevokedHearNothing
  <1>1. Spec => []ListenInv
    BY ListenInit, ListenStep, PTL DEF Spec
  <1>2. ListenInv => RevokedHearNothing
    BY DEF ListenInv, Memos, RevokedHearNothing
  <1>3. QED
    BY <1>1, <1>2, PTL

-----------------------------------------------------------------------------
(* Delivery: what the handlers still carry, and who has been told.         *)

Talks == {"hello", "visitor", "reply", "open"}

-----------------------------------------------------------------------------
(* The rows of messages, and the handlers that carry them.                 *)

(* One handler to a message.                                               *)
Own ==
  \A g, h \in Handlers : g # h /\ call[g].msg = call[h].msg => call[h].msg = NoMessage

(* A message is in no conversation until its handler has saved it, and then*)
(* in its handler's, signed as its handler says.                           *)
FiledAs(step, c, m) ==
  /\ step = "save" => m.conv = NoConversation
  /\ step # "save" => m.conv = c.conv /\ (c.op = "reply" => m.sender # "visitor")

Filed ==
  \A h \in Handlers : call[h].op \in {"visitor", "reply"} => FiledAs(pc[h], call[h], msg[call[h].msg])

(* Messages and handlers are about conversations that exist.               *)
Existing ==
  /\ \A m \in Messages : msg[m].conv \in Conversations => conv[msg[m].conv].status # "none"
  /\ \A h \in Handlers : call[h].op \in Talks /\ pc[h] # "create" => conv[call[h].conv].status # "none"

(* Only what is saved is fanned out or counted.                            *)
SavedFirst == \A m \in announced \cup counted : msg[m].conv # NoConversation

MessageInv == TypeInv /\ Own /\ Filed /\ Existing /\ SavedFirst /\ SavedIsAnnounced

(* What visitors hold: a conversation handed to them is a room they are in,*)
(* and whatever it has seen fanned out is theirs; a list on its way to a   *)
(* visitor misses only what crossed it.                                    *)
InRoom == \A v \in Visitors : \A c \in given[v] : v \in room[c]

Received ==
  \A v \in Visitors : \A m \in announced \ crossed : msg[m].conv \in given[v] => m \in got[v]

Complete(c) == \A m \in announced \ crossed : msg[m].conv = c.conv => m \in c.list

ListsComplete == \A h \in Handlers : call[h].op = "hello" /\ pc[h] = "join" => Complete(call[h])

VisitorInv == InRoom /\ Received /\ ListsComplete

LEMMA Messages0 ==
  ASSUME TypeInv
  PROVE  /\ NoMessage \notin Messages /\ NoConversation \notin Conversations
         /\ announced \in SUBSET Messages /\ counted \in SUBSET Messages
         /\ conv \in [Conversations -> ConversationRow] /\ msg \in [Messages -> MessageRow]
         /\ room \in [Conversations -> SUBSET Sockets]
         /\ got \in [Visitors -> SUBSET Messages] /\ given \in [Visitors -> SUBSET Conversations]
  BY TypeParts, ChatAssumption DEF TypeInv, TablesType, SocketsType

LEMMA TurnsCall == \A h, step, c : Turns(h, step, c) => step \in Steps /\ c \in Call
  BY DEF Turns, MovesTo

(* A turn of h that saves no message but its own keeps the rows in order.  *)
LEMMA TurnMessages ==
  ASSUME MessageInv, TypeInv', NEW h \in Handlers, NEW step, NEW c, Turns(h, step, c),
         \A k \in Conversations : conv[k].status # "none" => conv'[k].status # "none",
         \A m \in Messages :
           \/ msg'[m] = msg[m]
           \/ /\ m = c.msg /\ m = call[h].msg /\ msg[m].conv = NoConversation
              /\ msg'[m].conv = c.conv,
         c.op \in {"visitor", "reply"} => FiledAs(step, c, msg'[c.msg]),
         \/ c.msg \in {NoMessage, call[h].msg}
         \/ \A g \in Handlers : call[g].msg # c.msg,
         c.op \in Talks /\ step # "create" => conv'[c.conv].status # "none",
         call[h].msg \in {NoMessage, c.msg} \cup announced',
         announced \subseteq announced',
         \A m \in announced' \cup counted' : m \in announced \cup counted \/ msg'[m].conv # NoConversation,
         \A m \in Messages : msg[m].sender = "none" /\ msg'[m].sender # "none" => m = c.msg
  PROVE  MessageInv'
  <1>1. TypeInv /\ Formed(step, c)
    BY DEF MessageInv, Turns
  <1>2. /\ pc'[h] = step /\ call'[h] = c
        /\ \A g \in Handlers \ {h} : pc'[g] = pc[g] /\ call'[g] = call[g]
    BY <1>1, Moved DEF Turns
  <1>3. \A g \in Handlers : /\ call[g].op \in {"visitor", "reply"} => call[g].msg \in Messages /\ call[g].conv \in Conversations
                            /\ call[g].op \in Talks /\ pc[g] # "create" => call[g].conv \in Conversations
    BY <1>1, Stays DEF Formed, Talks
  <1>4. Own'
    BY <1>2 DEF MessageInv, Own
  <1>5. Filed'
    <2>1. ASSUME NEW g \in Handlers \ {h}, call[g].op \in {"visitor", "reply"}
          PROVE  msg'[call[g].msg] = msg[call[g].msg]
      <3>1. call[g].msg \in Messages /\ call[g].msg # NoMessage
        BY <1>1, <1>3, <2>1, Messages0
      <3>2. call[g].msg # call[h].msg
        BY <2>1, <3>1 DEF MessageInv, Own
      <3>3. QED
        BY <3>1, <3>2
    <2>2. QED
      BY <1>2, <2>1 DEF MessageInv, Filed
  <1>6. Existing'
    <2>1. ASSUME NEW m \in Messages, msg'[m].conv \in Conversations
          PROVE  conv'[msg'[m].conv].status # "none"
      <3>1. CASE msg'[m] = msg[m]
        BY <2>1, <3>1 DEF MessageInv, Existing
      <3>2. CASE m = c.msg /\ msg'[m].conv = c.conv /\ m = call[h].msg /\ msg[m].conv = NoConversation
        <4>1. c.op \in {"visitor", "reply"}
          BY <1>1, <3>2, Messages0 DEF Formed
        <4>2. step # "create"
          BY <1>1, <4>1 DEF Formed
        <4>3. QED
          BY <3>2, <4>1, <4>2 DEF Talks
      <3>3. QED
        BY <3>1, <3>2
    <2>2. ASSUME NEW g \in Handlers, call'[g].op \in Talks, pc'[g] # "create"
          PROVE  conv'[call'[g].conv].status # "none"
      BY <1>2, <1>3, <2>2 DEF MessageInv, Existing
    <2>3. QED
      BY <2>1, <2>2 DEF Existing
  <1>7. SavedFirst'
    <2>1. ASSUME NEW m \in announced \cup counted
          PROVE  msg'[m].conv # NoConversation
      <3>1. m \in Messages /\ msg[m].conv # NoConversation
        BY <1>1, Messages0 DEF MessageInv, SavedFirst
      <3>2. QED
        BY <3>1
    <2>2. QED
      BY <2>1 DEF SavedFirst
  <1>8. SavedIsAnnounced'
    <2>1. ASSUME NEW m \in Messages, msg'[m].sender # "none"
          PROVE  m \in announced' \/ \E g \in Handlers : call'[g].msg = m
      <3>1. CASE m = c.msg
        BY <1>2, <3>1
      <3>2. CASE m \in announced
        BY <3>2
      <3>3. CASE m # c.msg /\ m \notin announced
        <4>1. PICK g \in Handlers : call[g].msg = m
          BY <2>1, <3>3 DEF MessageInv, SavedIsAnnounced
        <4>2. CASE g = h
          BY <1>1, <3>3, <4>1, <4>2, Messages0
        <4>3. CASE g # h
          BY <1>2, <4>1, <4>3
        <4>4. QED
          BY <4>2, <4>3
      <3>4. QED
        BY <3>1, <3>2, <3>3
    <2>2. QED
      BY <2>1 DEF SavedIsAnnounced
  <1>9. QED
    BY <1>4, <1>5, <1>6, <1>7, <1>8 DEF MessageInv

LEMMA StartMessages ==
  ASSUME MessageInv, NEW h \in Handlers, Starts(h)
  PROVE  MessageInv' /\ UNCHANGED <<sockets, msg, out>>
  <1>1. TypeInv /\ TypeInv'
    BY StartType DEF MessageInv
  <1>2. PICK step, c : Fresh(h, step, c)
    BY <1>1, StartIs
  <1>3. Turns(h, step, c) /\ pc[h] = "idle" /\ step \in {"create", "list", "save", "mark", "fetch"}
        /\ (step = "fetch" => c.op = "update") /\ (c.msg # NoMessage => Unused(c.msg))
        /\ (c.op \in Talks /\ step # "create" => conv[c.conv].status # "none")
    BY <1>2 DEF Fresh, Turns, Talks
  <1>4. Formed(step, c) /\ Formed(pc[h], call[h]) /\ call[h].msg = NoMessage
    BY <1>1, <1>3, Stays DEF Turns, Formed
  <1>5. UNCHANGED <<sockets, msg, announced, crossed, counted>>
    BY <1>1, StartIs DEF out
  <1>6. \A k \in Conversations : conv'[k].status = conv[k].status \/ (conv[k].status # "none" /\ conv'[k].status # "none")
    BY <1>1, StartIs, Messages0, SMTT(30) DEF Closes, ConversationRow
  <1>7. c.op \in {"visitor", "reply"} => FiledAs(step, c, msg'[c.msg])
    <2>1. ASSUME c.op \in {"visitor", "reply"}
          PROVE  step = "save" /\ msg[c.msg].conv = NoConversation
      BY <1>1, <1>3, <1>4, <2>1, Messages0 DEF Formed, Unused
    <2>2. QED
      BY <1>5, <2>1 DEF FiledAs
  <1>8. c.msg \in {NoMessage, call[h].msg} \/ \A g \in Handlers : call[g].msg # c.msg
    BY <1>3 DEF Unused
  <1>9. c.op \in Talks /\ step # "create" => conv'[c.conv].status # "none"
    <2>1. c.op \in Talks /\ step # "create" => c.conv \in Conversations
      BY <1>4 DEF Formed, Talks
    <2>2. QED
      BY <1>3, <1>6, <2>1
  <1>10. MessageInv'
    BY <1>1, <1>3, <1>4, <1>5, <1>6, <1>7, <1>8, <1>9, TurnMessages
  <1>11. QED
    BY <1>5, <1>10 DEF out

(* The steps that leave the rows of messages as they are, and carry what   *)
(* they carried.                                                           *)
LEMMA CarryMessages ==
  ASSUME MessageInv, TypeInv', NEW h \in Handlers, NEW step, NEW c, Turns(h, step, c),
         UNCHANGED <<msg, announced, counted>>,
         \A k \in Conversations : conv[k].status # "none" => conv'[k].status # "none",
         c.op = call[h].op, c.conv = call[h].conv, c.msg = call[h].msg,
         pc[h] \notin {"save", "create"}, step \notin {"save", "create"}
  PROVE  MessageInv'
  <1>1. TypeInv /\ Formed(step, c)
    BY DEF MessageInv, Turns
  <1>2. c.op \in {"visitor", "reply"} => FiledAs(step, c, msg'[c.msg])
    BY DEF MessageInv, Filed, FiledAs
  <1>3. c.op \in Talks => conv'[c.conv].status # "none"
    BY <1>1 DEF MessageInv, Existing, Formed, Talks
  <1>4. QED
    BY <1>1, <1>2, <1>3, TurnMessages DEF MessageInv

LEMMA TablesMessages ==
  ASSUME MessageInv, NEW h \in Handlers,
         \/ CreateConversation(h) \/ Save(h) \/ Count(h) \/ markStaffRead(h) \/ ClearBadge(h)
         \/ listMessages(h) \/ SendThread(h) \/ Fetch(h)
  PROVE  MessageInv' /\ UNCHANGED <<sockets, out>>
  <1>1. TypeInv /\ TypeInv' /\ UNCHANGED <<sockets, out, announced, crossed>>
    BY TablesStep DEF MessageInv, out
  <1>2. /\ conv \in [Conversations -> ConversationRow] /\ msg \in [Messages -> MessageRow]
        /\ NoMessage \notin Messages /\ NoConversation \notin Conversations
        /\ Formed(pc[h], call[h])
    BY <1>1, Messages0, Stays
  <1>3. CASE CreateConversation(h)
    <2>1. PICK k \in Conversations, c \in Call :
            /\ conv[k].status = "none" /\ Turns(h, "join", c)
            /\ conv' = [conv EXCEPT ![k] = [status |-> "open", key |-> call[h].key, unread |-> 0]]
            /\ c.op = "hello" /\ c.conv = k /\ c.msg = NoMessage /\ c.now = call[h].now
            /\ c.socket = call[h].socket /\ c.list = call[h].list
      BY <1>1, <1>3, CreateTurns
    <2>2. call[h].msg = NoMessage /\ UNCHANGED <<msg, counted>>
      BY <1>2, <1>3 DEF CreateConversation, Formed
    <2>3. conv'[k].status = "open" /\ \A l \in Conversations : conv[l].status # "none" => conv'[l].status # "none"
      BY <1>2, <2>1
    <2>4. QED
      BY <1>1, <2>1, <2>2, <2>3, TurnMessages
  <1>4. CASE Save(h)
    <2>1. Turns(h, "count", call[h])
      BY <1>1, <1>4, SaveTurns
    <2>2. pc[h] = "save" /\ call[h].op \in {"visitor", "reply"} /\ call[h].msg \in Messages
      BY <1>2, <1>4 DEF Save, Formed
    <2>3. msg[call[h].msg].conv = NoConversation
      BY <2>2 DEF MessageInv, Filed, FiledAs
    <2>4. msg' = [msg EXCEPT ![call[h].msg] =
            [conv |-> call[h].conv, sender |-> IF call[h].op = "visitor" THEN "visitor" ELSE "staff"]]
          /\ UNCHANGED <<conv, counted>>
      BY <1>4 DEF Save
    <2>5. msg'[call[h].msg] = [conv |-> call[h].conv, sender |-> IF call[h].op = "visitor" THEN "visitor" ELSE "staff"]
          /\ \A m \in Messages : m # call[h].msg => msg'[m] = msg[m]
      BY <1>2, <2>2, <2>4
    <2>6. FiledAs("count", call[h], msg'[call[h].msg])
      BY <2>2, <2>5 DEF FiledAs
    <2>7. conv[call[h].conv].status # "none"
      BY <2>2 DEF MessageInv, Existing, Talks
    <2>8. QED
      BY <1>1, <2>1, <2>2, <2>3, <2>4, <2>5, <2>6, <2>7, TurnMessages
  <1>5. CASE Count(h)
    <2>1. PICK step \in {"fetch", "join"} : Turns(h, step, call[h])
      BY <1>1, <1>5, CountTurns
    <2>2. pc[h] = "count" /\ call[h].op \in {"visitor", "reply"} /\ call[h].conv \in Conversations /\ call[h].msg \in Messages
          /\ UNCHANGED msg /\ counted' = counted \cup {call[h].msg}
      BY <1>2, <1>5 DEF Count, Formed
    <2>3. FiledAs("count", call[h], msg[call[h].msg])
      BY <2>2 DEF MessageInv, Filed
    <2>4. msg[call[h].msg].conv = call[h].conv
      BY <2>3 DEF FiledAs
    <2>5. FiledAs(step, call[h], msg'[call[h].msg])
      BY <2>1, <2>2, <2>3 DEF FiledAs
    <2>6. \A k \in Conversations : conv'[k].status = conv[k].status
      BY <1>2, <1>5 DEF Count, ConversationRow
    <2>7. conv'[call[h].conv].status # "none"
      BY <2>2, <2>6 DEF MessageInv, Existing, Talks
    <2>8. QED
      BY <1>1, <1>2, <2>1, <2>2, <2>4, <2>5, <2>6, <2>7, TurnMessages
  <1>6. CASE markStaffRead(h)
    <2>1. PICK step \in {"clear", "join"} : Turns(h, step, call[h])
      BY <1>1, <1>6, MarkTurns
    <2>2. UNCHANGED rows /\ pc[h] = "mark"
      BY <1>6 DEF markStaffRead
    <2>3. QED
      BY <1>1, <2>1, <2>2, CarryMessages DEF rows
  <1>7. CASE ClearBadge(h)
    <2>1. Turns(h, "join", call[h])
      BY <1>1, <1>7, ClearTurns
    <2>2. pc[h] = "clear" /\ UNCHANGED <<msg, counted>>
          /\ \A k \in Conversations : conv'[k].status = conv[k].status
      BY <1>2, <1>7 DEF ClearBadge, ConversationRow
    <2>3. QED
      BY <1>1, <2>1, <2>2, CarryMessages
  <1>8. CASE listMessages(h)
    <2>1. PICK step \in {"join", "thread"}, c \in Call :
            /\ Turns(h, step, c)
            /\ step = "join" <=> call[h].op = "hello"
            /\ c.list = Thread(call[h].conv) /\ c.op = call[h].op /\ c.conv = call[h].conv
            /\ c.msg = call[h].msg /\ c.socket = call[h].socket /\ c.now = call[h].now
      BY <1>1, <1>8, ListTurns
    <2>2. pc[h] = "list" /\ UNCHANGED rows
      BY <1>8 DEF listMessages
    <2>3. QED
      BY <1>1, <2>1, <2>2, CarryMessages DEF rows
  <1>9. CASE SendThread(h)
    <2> DEFINE d == [NoCall EXCEPT !.op = "update"]
    <2>1. Turns(h, "fetch", d) /\ d.op = "update" /\ d.msg = NoMessage
      BY <1>1, <1>9, ThreadTurns, UpdateCall
    <2>2. call[h].msg = NoMessage /\ UNCHANGED <<conv, msg, counted>>
      BY <1>1, <1>2, <1>9, ThreadTurns DEF SendThread, Formed
    <2> HIDE DEF d
    <2>3. d.op \notin Talks
      BY <2>1 DEF Talks
    <2>4. QED
      BY <1>1, <2>1, <2>2, <2>3, TurnMessages
  <1>10. CASE Fetch(h)
    <2>1. PICK c :
            /\ Turns(h, "sweep", c)
            /\ c.now = clock /\ c.todo = {s \in staffRoom : until[s] <= clock}
            /\ c.op = call[h].op /\ c.conv = call[h].conv /\ c.msg = call[h].msg /\ c.socket = call[h].socket
            /\ c.list = call[h].list
      BY <1>1, <1>10, FetchTurns
    <2>2. pc[h] = "fetch" /\ UNCHANGED rows
      BY <1>10 DEF Fetch
    <2>3. QED
      BY <1>1, <2>1, <2>2, CarryMessages DEF rows
  <1>11. QED
    BY <1>1, <1>3, <1>4, <1>5, <1>6, <1>7, <1>8, <1>9, <1>10 DEF out

LEMMA JoinMessages ==
  ASSUME MessageInv, NEW h \in Handlers, Join(h)
  PROVE  MessageInv'
  <1>1. TypeInv /\ TypeInv' /\ UNCHANGED <<conv, msg, counted, announced>> /\ pc[h] = "join"
    BY JoinType DEF MessageInv, Join, rows, out
  <1>2. CASE call[h].op = "hello" /\ Turns(h, "idle", NoCall)
    <2>1. call[h].msg = NoMessage /\ NoCall.op \notin Talks /\ NoCall.msg = NoMessage
          /\ NoCall.op \notin {"visitor", "reply"}
      BY <1>1, <1>2, Stays, NoCallType DEF Formed, Talks
    <2>2. QED
      BY <1>1, <1>2, <2>1, TurnMessages
  <1>3. ASSUME NEW step \in {"list", "fetch"}, Turns(h, step, call[h])
        PROVE  MessageInv'
    BY <1>1, <1>3, CarryMessages
  <1>4. QED
    BY <1>1, <1>2, <1>3, JoinTurns

LEMMA SweepMessages ==
  ASSUME MessageInv, NEW h \in Handlers, NEW s \in Staff, enforceStaff(h, s) \/ LookupFails(h, s)
  PROVE  MessageInv'
  <1>1. TypeInv /\ TypeInv' /\ UNCHANGED <<conv, msg, counted, announced>> /\ pc[h] = "sweep"
    BY SweepType DEF MessageInv, enforceStaff, LookupFails, rows, out
  <1>2. PICK c :
          /\ pc[h] = "sweep" /\ Turns(h, "sweep", c) /\ UNCHANGED pc
          /\ c.todo = call[h].todo \ {s} /\ c.now = call[h].now
          /\ c.op = call[h].op /\ c.conv = call[h].conv /\ c.msg = call[h].msg /\ c.socket = call[h].socket
          /\ c.list = call[h].list
    BY <1>1, SweepTurns
  <1>3. QED
    BY <1>1, <1>2, CarryMessages

LEMMA EmitMessages ==
  ASSUME MessageInv, NEW h \in Handlers, Emit(h)
  PROVE  MessageInv'
  <1>1. TypeInv /\ TypeInv' /\ UNCHANGED <<conv, msg, counted>> /\ pc[h] = "sweep"
    BY EmitType DEF MessageInv, Emit, rows
  <1>2. announced' = announced \cup (IF call[h].op # "update" THEN {call[h].msg} ELSE {})
    BY DEF Emit
  <1>3. CASE call[h].op = "update" /\ Turns(h, "idle", NoCall)
    <2>1. call[h].msg = NoMessage /\ NoCall.op \notin Talks /\ NoCall.msg = NoMessage
          /\ NoCall.op \notin {"visitor", "reply"}
      BY <1>1, <1>3, Stays, NoCallType DEF Formed, Talks
    <2>2. announced' = announced
      BY <1>2, <1>3
    <2>3. QED
      BY <1>1, <1>3, <2>1, <2>2, TurnMessages
  <1>4. CASE /\ call[h].op \in {"visitor", "reply"} /\ call[h].conv \in Conversations /\ call[h].msg \in Messages
             /\ Turns(h, "fetch", [NoCall EXCEPT !.op = "update"])
    <2> DEFINE d == [NoCall EXCEPT !.op = "update"]
    <2>1. Turns(h, "fetch", d) /\ d.op = "update" /\ d.msg = NoMessage
      BY <1>4, UpdateCall
    <2> HIDE DEF d
    <2>2. d.op \notin Talks /\ d.op \notin {"visitor", "reply"}
      BY <2>1 DEF Talks
    <2>3. announced' = announced \cup {call[h].msg}
      BY <1>2, <1>4
    <2>4. msg[call[h].msg].conv = call[h].conv
      BY <1>1, <1>4 DEF MessageInv, Filed, FiledAs
    <2>5. msg'[call[h].msg].conv # NoConversation
      BY <1>1, <1>4, <2>4, Messages0
    <2>6. QED
      BY <1>1, <2>1, <2>2, <2>3, <2>5, TurnMessages
  <1>5. QED
    BY <1>1, <1>3, <1>4, EmitTurns

(* A connection lost, an account changed, time passing: no message is      *)
(* touched.                                                                *)
LEMMA OtherMessages ==
  ASSUME MessageInv,
         \/ \E v \in Visitors : visitorGone(v)
         \/ Tick \/ UNCHANGED vars \/ \E s \in Staff : staffHello(s) \/ staffRefused(s) \/ Revoke(s)
  PROVE  MessageInv'
  <1>1. TypeInv /\ TypeInv'
    BY GoneType, AccountType DEF MessageInv
  <1>2. UNCHANGED <<conv, msg, counted, announced>>
    BY DEF visitorGone, Tick, vars, staffHello, staffRefused, Revoke, rows, out
  <1>3. \A h \in Handlers : /\ pc'[h] = pc[h] /\ call'[h].op = call[h].op
                            /\ call'[h].conv = call[h].conv /\ call'[h].msg = call[h].msg
    <2>1. ASSUME NEW v \in Visitors, visitorGone(v)
          PROVE  \A h \in Handlers : /\ pc'[h] = pc[h] /\ call'[h].op = call[h].op
                                     /\ call'[h].conv = call[h].conv /\ call'[h].msg = call[h].msg
      BY <1>1, <2>1, GoneIs
    <2>2. QED
      BY <1>1, <2>1, AccountType
  <1>4. Own' /\ Filed'
    BY <1>2, <1>3 DEF MessageInv, Own, Filed, FiledAs
  <1>5. Existing' /\ SavedFirst' /\ SavedIsAnnounced'
    BY <1>2, <1>3 DEF MessageInv, Existing, SavedFirst, SavedIsAnnounced
  <1>6. QED
    BY <1>1, <1>4, <1>5 DEF MessageInv

LEMMA MessageStep ==
  ASSUME MessageInv, [Next]_vars
  PROVE  MessageInv'
  BY StartMessages, TablesMessages, JoinMessages, SweepMessages, EmitMessages, OtherMessages
  DEF Next, Proceed, Starts

LEMMA MessageInit == Init => MessageInv
  <1> SUFFICES ASSUME Init PROVE MessageInv
    OBVIOUS
  <1>1. \A h \in Handlers : pc[h] = "idle" /\ call[h].op = "none" /\ call[h].msg = NoMessage
    BY NoCallType DEF Init
  <1>2. \A m \in Messages : msg[m].conv = NoConversation /\ msg[m].sender = "none"
    BY DEF Init
  <1>3. announced = {} /\ counted = {} /\ NoConversation \notin Conversations
    BY ChatAssumption DEF Init
  <1>4. Own /\ Filed /\ Existing
    BY <1>1, <1>2, <1>3 DEF Own, Filed, Existing, Talks
  <1>5. SavedFirst /\ SavedIsAnnounced
    BY <1>2, <1>3 DEF SavedFirst, SavedIsAnnounced
  <1>6. QED
    BY <1>4, <1>5, TypeInit DEF MessageInv

-----------------------------------------------------------------------------
(* What visitors are handed, and what reaches them live.                   *)

(* A turn of h that gives visitors nothing and puts none out of a room.    *)
LEMMA TurnVisitors ==
  ASSUME MessageInv, VisitorInv, NEW h \in Handlers, NEW step, NEW c, Turns(h, step, c),
         UNCHANGED <<got, given, announced, crossed>>,
         \A m \in announced : msg'[m] = msg[m],
         \A k \in Conversations : room[k] \cap Visitors \subseteq room'[k],
         c.op = "hello" /\ step = "join" => Complete(c)
  PROVE  VisitorInv'
  <1>1. TypeInv /\ given \in [Visitors -> SUBSET Conversations]
    BY Messages0 DEF MessageInv
  <1>2. /\ pc'[h] = step /\ call'[h] = c
        /\ \A g \in Handlers \ {h} : pc'[g] = pc[g] /\ call'[g] = call[g]
    BY <1>1, Moved DEF Turns
  <1>3. InRoom'
    BY <1>1 DEF VisitorInv, InRoom
  <1>4. Received'
    BY DEF VisitorInv, Received
  <1>5. ASSUME NEW g \in Handlers, call'[g].op = "hello", pc'[g] = "join"
        PROVE  \A m \in announced \ crossed : msg[m].conv = call'[g].conv => m \in call'[g].list
    BY <1>2, <1>5 DEF VisitorInv, ListsComplete, Complete
  <1>6. ListsComplete'
    BY <1>5 DEF ListsComplete, Complete
  <1>7. QED
    BY <1>3, <1>4, <1>6 DEF VisitorInv

(* A message fanned out is not written again.                              *)
LEMMA SavedStay ==
  ASSUME MessageInv, NEW h \in Handlers, Save(h)
  PROVE  \A m \in announced \cup counted : msg'[m] = msg[m]
  <1>1. /\ pc[h] = "save" /\ call[h].op \in {"visitor", "reply"} /\ TypeInv
    BY Stays DEF MessageInv, Save, Formed
  <1>2. msg[call[h].msg].conv = NoConversation
    BY <1>1 DEF MessageInv, Filed, FiledAs
  <1>3. QED
    BY <1>1, <1>2, Messages0 DEF MessageInv, SavedFirst, Save

LEMMA TablesVisitors ==
  ASSUME MessageInv, VisitorInv, NEW h \in Handlers,
         \/ CreateConversation(h) \/ Save(h) \/ Count(h) \/ markStaffRead(h) \/ ClearBadge(h)
         \/ listMessages(h) \/ SendThread(h) \/ Fetch(h)
  PROVE  VisitorInv'
  <1>1. TypeInv /\ UNCHANGED <<sockets, out, got, given, room, announced, crossed>>
    BY TablesStep DEF MessageInv, sockets, out
  <1>2. \A m \in announced : msg'[m] = msg[m]
    BY SavedStay
    DEF CreateConversation, Count, markStaffRead, ClearBadge, listMessages, SendThread, Fetch, rows
  <1>3. \A step \in Steps, c \in Call :
          Turns(h, step, c) /\ (c.op = "hello" /\ step = "join" => Complete(c)) => VisitorInv'
    BY <1>1, <1>2, TurnVisitors
  <1>4. \A step, c : Turns(h, step, c) => step \in Steps /\ c \in Call
    BY TurnsCall
  <1>5. Formed(pc[h], call[h])
    BY <1>1, Stays
  <1>6. CASE CreateConversation(h)
    <2>1. PICK k \in Conversations, c \in Call :
            /\ conv[k].status = "none" /\ Turns(h, "join", c)
            /\ conv' = [conv EXCEPT ![k] = [status |-> "open", key |-> call[h].key, unread |-> 0]]
            /\ c.op = "hello" /\ c.conv = k /\ c.msg = NoMessage /\ c.now = call[h].now
            /\ c.socket = call[h].socket /\ c.list = call[h].list
      BY <1>1, <1>6, CreateTurns
    <2>2. Complete(c)
      BY <1>1, <2>1, Messages0 DEF MessageInv, Existing, Complete
    <2>3. QED
      BY <1>3, <1>4, <2>1, <2>2
  <1>7. CASE listMessages(h)
    <2>1. PICK step \in {"join", "thread"}, c \in Call :
            /\ Turns(h, step, c)
            /\ step = "join" <=> call[h].op = "hello"
            /\ c.list = Thread(call[h].conv) /\ c.op = call[h].op /\ c.conv = call[h].conv
            /\ c.msg = call[h].msg /\ c.socket = call[h].socket /\ c.now = call[h].now
      BY <1>1, <1>7, ListTurns
    <2>2. Complete(c)
      BY <1>1, <2>1, Messages0 DEF Complete, Thread
    <2>3. QED
      BY <1>3, <1>4, <2>1, <2>2
  <1>8. CASE Save(h) \/ Count(h)
    <2>1. call[h].op # "hello" /\ \E step : Turns(h, step, call[h])
      BY <1>1, <1>5, <1>8, SaveTurns, CountTurns DEF Save, Count, Formed
    <2>2. QED
      BY <1>3, <1>4, <2>1
  <1>9. CASE markStaffRead(h) \/ ClearBadge(h)
    <2>1. call[h].op = "open" /\ \E step : Turns(h, step, call[h])
      BY <1>1, <1>5, <1>9, MarkTurns, ClearTurns DEF markStaffRead, ClearBadge, Formed
    <2>2. QED
      BY <1>3, <1>4, <2>1
  <1>10. CASE SendThread(h)
    <2>1. Turns(h, "fetch", [NoCall EXCEPT !.op = "update"])
      BY <1>1, <1>10, ThreadTurns
    <2>2. QED
      BY <1>3, <1>4, <2>1
  <1>11. CASE Fetch(h)
    <2>1. \E c : Turns(h, "sweep", c)
      BY <1>1, <1>11, FetchTurns
    <2>2. QED
      BY <1>3, <1>4, <2>1
  <1>12. QED
    BY <1>6, <1>7, <1>8, <1>9, <1>10, <1>11

(* A visitor enters with its list, and anyone else without one.            *)
LEMMA JoinVisitors ==
  ASSUME MessageInv, VisitorInv, NEW h \in Handlers, Join(h)
  PROVE  VisitorInv'
  <1> DEFINE s == call[h].socket
             k == call[h].conv
  <1>1. /\ TypeInv /\ UNCHANGED <<msg, announced, crossed>> /\ pc[h] = "join" /\ Formed("join", call[h])
        /\ k \in Conversations /\ call[h].op \in Talks
    BY Stays DEF MessageInv, Join, rows, out, Formed, Talks
  <1>2. /\ room' = [room EXCEPT ![k] = @ \cup ({s} \ (dropped \cup {NoSocket}))]
        /\ got' = IF call[h].op = "hello" /\ s \in Visitors THEN [got EXCEPT ![s] = @ \cup call[h].list] ELSE got
        /\ given' = IF call[h].op = "hello" /\ s \in Visitors THEN [given EXCEPT ![s] = @ \cup {k}] ELSE given
    BY DEF Join
  <1>3. /\ room \in [Conversations -> SUBSET Sockets] /\ dropped \in SUBSET Staff
        /\ got \in [Visitors -> SUBSET Messages] /\ given \in [Visitors -> SUBSET Conversations]
    BY <1>1, TypeParts DEF TypeInv, SocketsType
  <1>4. \A l \in Conversations : room[l] \subseteq room'[l]
    BY <1>1, <1>2, <1>3
  <1>5. CASE call[h].op = "hello" /\ s \in Visitors
    <2>1. s \in room'[k]
      BY <1>1, <1>2, <1>3, <1>5, ChatAssumption DEF Sockets
    <2>2. \A v \in Visitors : given'[v] = IF v = s THEN given[v] \cup {k} ELSE given[v]
      BY <1>2, <1>3, <1>5
    <2>3. \A v \in Visitors : got'[v] = IF v = s THEN got[v] \cup call[h].list ELSE got[v]
      BY <1>2, <1>3, <1>5
    <2>4. Complete(call[h])
      BY <1>1, <1>5 DEF VisitorInv, ListsComplete
    <2>5. ASSUME NEW v \in Visitors, NEW l \in given'[v]
          PROVE  v \in room'[l]
      <3>1. CASE l \in given[v]
        <4>1. v \in room[l] /\ l \in Conversations
          BY <1>3, <3>1 DEF VisitorInv, InRoom
        <4>2. QED
          BY <1>4, <4>1
      <3>2. CASE v = s /\ l = k
        BY <2>1, <3>2
      <3>3. QED
        BY <2>2, <2>5, <3>1, <3>2
    <2>6. ASSUME NEW v \in Visitors, NEW m \in announced \ crossed, msg[m].conv \in given'[v]
          PROVE  m \in got'[v]
      <3>1. CASE msg[m].conv \in given[v]
        <4>1. m \in got[v]
          BY <3>1 DEF VisitorInv, Received
        <4>2. QED
          BY <2>3, <4>1
      <3>2. CASE v = s /\ msg[m].conv = k
        <4>1. m \in call[h].list
          BY <2>4, <3>2 DEF Complete
        <4>2. QED
          BY <2>3, <3>2, <4>1
      <3>3. QED
        BY <2>2, <2>6, <3>1, <3>2
    <2>7. ListsComplete'
      <3>1. Turns(h, "idle", NoCall)
        BY <1>1, <1>5, JoinTurns
      <3>2. \A g \in Handlers \ {h} : pc'[g] = pc[g] /\ call'[g] = call[g]
        BY <1>1, <3>1, Moved DEF Turns
      <3>3. pc'[h] = "idle"
        BY <1>1, <3>1, Moved DEF Turns
      <3>4. QED
        BY <1>1, <3>2, <3>3 DEF VisitorInv, ListsComplete, Complete
    <2>8. InRoom' /\ Received'
      BY <1>1, <2>5, <2>6 DEF InRoom, Received
    <2>9. QED
      BY <2>7, <2>8 DEF VisitorInv
  <1>6. CASE ~(call[h].op = "hello" /\ s \in Visitors)
    <2>1. UNCHANGED <<got, given>> /\ \A m \in announced : msg'[m] = msg[m]
      BY <1>1, <1>2, <1>6
    <2>2. PICK step \in {"idle", "list", "fetch"}, c \in Call : Turns(h, step, c)
      BY <1>1, JoinTurns, TurnsCall
    <2>3. QED
      BY <1>1, <1>4, <2>1, <2>2, TurnVisitors
  <1>7. QED
    BY <1>5, <1>6

(* The sweep disconnects operators alone.                                  *)
LEMMA SweepVisitors ==
  ASSUME MessageInv, VisitorInv, NEW h \in Handlers, NEW s \in Staff, enforceStaff(h, s) \/ LookupFails(h, s)
  PROVE  VisitorInv'
  <1>1. /\ TypeInv /\ UNCHANGED <<msg, got, given, announced, crossed>>
        /\ (UNCHANGED room \/ room' = [l \in Conversations |-> room[l] \ {s}])
    BY DEF MessageInv, enforceStaff, LookupFails, Disconnect, rows, out
  <1>2. \A l \in Conversations : room[l] \cap Visitors \subseteq room'[l]
    BY <1>1, ChatAssumption
  <1>3. PICK c : Turns(h, "sweep", c)
    BY <1>1, SweepTurns
  <1>4. QED
    BY <1>1, <1>2, <1>3, TurnVisitors

(* A message fanned out reaches whoever was handed its conversation, and   *)
(* is on the list of whoever is not in the room yet, or crosses it.        *)
LEMMA EmitVisitors ==
  ASSUME MessageInv, VisitorInv, NEW h \in Handlers, Emit(h)
  PROVE  VisitorInv'
  <1>1. TypeInv /\ UNCHANGED <<msg, room, given>>
    BY DEF MessageInv, Emit, rows
  <1> DEFINE new == call[h].op # "update"
             to == staffRoom \cup (IF new THEN room[call[h].conv] ELSE {})
             crosses == \E g \in Handlers : pc[g] = "join" /\ call[g].op = "hello" /\ call[g].conv = call[h].conv
  <1>2. /\ got' = [v \in Visitors |-> IF new /\ v \in to THEN got[v] \cup {call[h].msg} ELSE got[v]]
        /\ announced' = announced \cup (IF new THEN {call[h].msg} ELSE {})
        /\ crossed' = crossed \cup (IF new /\ crosses THEN {call[h].msg} ELSE {})
        /\ pc[h] = "sweep"
    BY DEF Emit
  <1>3. new => call[h].op \in {"visitor", "reply"} /\ msg[call[h].msg].conv = call[h].conv
    BY <1>1, <1>2, EmitTurns DEF MessageInv, Filed, FiledAs
  <1>4. PICK step \in {"idle", "fetch"}, c \in Call : Turns(h, step, c)
    BY <1>1, EmitTurns, TurnsCall
  <1>5. /\ pc'[h] = step
        /\ \A g \in Handlers \ {h} : pc'[g] = pc[g] /\ call'[g] = call[g]
    BY <1>1, <1>4, Moved DEF Turns
  <1>6. InRoom'
    BY <1>1 DEF VisitorInv, InRoom
  <1>7. \A m \in announced' \ crossed' : \/ m \in announced \ crossed
                                         \/ new /\ m = call[h].msg /\ ~crosses
    BY <1>2
  <1>8. Received'
    <2>1. ASSUME NEW v \in Visitors, NEW m \in announced' \ crossed', msg[m].conv \in given[v]
          PROVE  m \in got'[v]
      <3>1. CASE m \in announced \ crossed
        BY <1>2, <2>1, <3>1 DEF VisitorInv, Received
      <3>2. CASE new /\ m = call[h].msg
        <4>1. v \in room[call[h].conv]
          BY <1>3, <2>1, <3>2 DEF VisitorInv, InRoom
        <4>2. QED
          BY <1>2, <3>2, <4>1
      <3>3. QED
        BY <1>7, <3>1, <3>2
    <2>2. QED
      BY <1>1, <2>1 DEF Received
  <1>9. ListsComplete'
    <2>1. ASSUME NEW g \in Handlers, call'[g].op = "hello", pc'[g] = "join",
                 NEW m \in announced' \ crossed', msg[m].conv = call'[g].conv
          PROVE  m \in call'[g].list
      <3>1. g # h /\ pc[g] = "join" /\ call'[g] = call[g]
        BY <1>4, <1>5, <2>1
      <3>2. m \in announced \ crossed
        BY <1>3, <1>7, <2>1, <3>1
      <3>3. QED
        BY <2>1, <3>1, <3>2 DEF VisitorInv, ListsComplete, Complete
    <2>2. QED
      BY <1>1, <2>1 DEF ListsComplete, Complete
  <1>10. QED
    BY <1>6, <1>8, <1>9 DEF VisitorInv

LEMMA OtherVisitors ==
  ASSUME MessageInv, VisitorInv,
         \/ \E v \in Visitors : visitorGone(v)
         \/ Tick \/ UNCHANGED vars \/ \E s \in Staff : staffHello(s) \/ staffRefused(s) \/ Revoke(s)
  PROVE  VisitorInv'
  <1>1. TypeInv
    BY DEF MessageInv
  <1>2. ASSUME NEW v \in Visitors, visitorGone(v)
        PROVE  VisitorInv'
    <2>1. /\ UNCHANGED <<msg, announced, crossed>>
          /\ \A u \in Visitors : /\ given'[u] = IF u = v THEN {} ELSE given[u]
                                 /\ u # v => got'[u] = got[u]
          /\ \A k \in Conversations : room'[k] = room[k] \ {v}
          /\ given \in [Visitors -> SUBSET Conversations]
      <3>1. /\ given' = [given EXCEPT ![v] = {}] /\ got' = [got EXCEPT ![v] = {}]
            /\ room' = [k \in Conversations |-> room[k] \ {v}]
            /\ UNCHANGED <<msg, announced, crossed>>
        BY <1>2 DEF visitorGone, rows, out
      <3>2. given \in [Visitors -> SUBSET Conversations] /\ got \in [Visitors -> SUBSET Messages]
        BY <1>1, Messages0
      <3>3. QED
        BY <3>1, <3>2
    <2>2. InRoom'
      BY <2>1 DEF VisitorInv, InRoom
    <2>3. Received'
      BY <2>1 DEF VisitorInv, Received
    <2>4. \A h \in Handlers : /\ pc'[h] = pc[h] /\ call'[h].op = call[h].op
                              /\ call'[h].conv = call[h].conv /\ call'[h].list = call[h].list
      BY <1>1, <1>2, GoneIs
    <2>5. ListsComplete'
      BY <2>1, <2>4 DEF VisitorInv, ListsComplete, Complete
    <2>6. QED
      BY <2>2, <2>3, <2>5 DEF VisitorInv
  <1>3. CASE Tick \/ UNCHANGED vars \/ \E s \in Staff : staffHello(s) \/ staffRefused(s) \/ Revoke(s)
    <2>1. UNCHANGED <<msg, announced, crossed, room, got, given, pc, call>>
      BY <1>3 DEF Tick, vars, staffHello, staffRefused, Revoke, rows, sockets, out
    <2>2. QED
      BY <2>1 DEF VisitorInv, InRoom, Received, ListsComplete, Complete
  <1>4. QED
    BY <1>2, <1>3

LEMMA StartVisitors ==
  ASSUME MessageInv, VisitorInv, NEW h \in Handlers, Starts(h)
  PROVE  VisitorInv'
  <1>1. TypeInv /\ UNCHANGED <<msg, room, got, given, announced, crossed>>
    BY StartMessages DEF MessageInv, sockets, out
  <1>2. PICK step, c : Turns(h, step, c) /\ step # "join"
    BY <1>1, StartIs DEF Fresh, Turns
  <1>3. QED
    BY <1>1, <1>2, TurnVisitors

LEMMA VisitorStep ==
  ASSUME MessageInv, VisitorInv, [Next]_vars
  PROVE  VisitorInv'
  BY StartVisitors, TablesVisitors, JoinVisitors, SweepVisitors, EmitVisitors, OtherVisitors
  DEF Next, Proceed, Starts

LEMMA VisitorInit == Init => VisitorInv
  <1> SUFFICES ASSUME Init PROVE VisitorInv
    OBVIOUS
  <1>1. (\A v \in Visitors : given[v] = {}) /\ announced = {} /\ \A h \in Handlers : pc[h] = "idle"
    BY DEF Init
  <1>2. QED
    BY <1>1 DEF VisitorInv, InRoom, Received, ListsComplete

(* A saved message is fanned out or still carried by a handler, and every  *)
(* reply fanned out has reached each visitor that was handed the           *)
(* conversation, but for one that crossed a hello: for any number of       *)
(* conversations, visitors and handlers.                                   *)
THEOREM MissesNothing == Spec => []NothingMissed
  <1>1. Spec => [](MessageInv /\ VisitorInv)
    BY MessageInit, MessageStep, VisitorInit, VisitorStep, PTL DEF Spec
  <1>2. MessageInv /\ VisitorInv => NothingMissed
    BY DEF MessageInv, VisitorInv, Received, NothingMissed, ReplyReachesVisitor
  <1>3. QED
    BY <1>1, <1>2, PTL

-----------------------------------------------------------------------------
(* The badge.                                                              *)

(* What the lists under way to operators already hold.                     *)
Listing(c) == {h \in Handlers : pc[h] = "thread" /\ call[h].conv = c}
Listed(c) == UNION {call[h].list : h \in Listing(c)}

(* An operator who has not read its list yet will be shown all that waits. *)
Coming(c) == \E h \in Handlers : call[h].op = "open" /\ call[h].conv = c /\ pc[h] \in {"join", "list"}

Badged(c) == Coming(c) \/ Cardinality(Waiting(c) \ Listed(c)) <= conv[c].unread

BadgeInv == \A c \in Conversations : Badged(c)

LEMMA WaitingFinite ==
  ASSUME NEW S, S \subseteq Messages, NEW T, T \subseteq S
  PROVE  IsFiniteSet(S) /\ Cardinality(T) \in Nat /\ Cardinality(S) \in Nat /\ Cardinality(T) <= Cardinality(S)
  <1>1. IsFiniteSet(S)
    BY ChatAssumption, FS_Subset
  <1>2. QED
    BY <1>1, FS_Subset, FS_CardinalityType

(* Nothing new waits unlisted in conversation k, its badge does not shrink,*)
(* and no operator on its way to the list has been lost.                   *)
LEMMA BadgeHolds ==
  ASSUME TypeInv, TypeInv', NEW k \in Conversations, Badged(k),
         Waiting(k)' \ Listed(k)' \subseteq Waiting(k) \ Listed(k),
         conv'[k].unread >= conv[k].unread,
         Coming(k) => Coming(k)'
  PROVE  Badged(k)'
  <1>1. Waiting(k) \ Listed(k) \subseteq Messages
    BY Messages0 DEF Waiting
  <1>2. conv[k].unread \in Nat /\ conv'[k].unread \in Nat
    BY TypeParts, TypePartsNext DEF TypeInv, TablesType, ConversationRow
  <1>3. Cardinality(Waiting(k)' \ Listed(k)') <= Cardinality(Waiting(k) \ Listed(k))
        /\ Cardinality(Waiting(k)' \ Listed(k)') \in Nat /\ Cardinality(Waiting(k) \ Listed(k)) \in Nat
    BY <1>1, WaitingFinite
  <1>4. (Cardinality(Waiting(k) \ Listed(k)) <= conv[k].unread) =>
        (Cardinality(Waiting(k)' \ Listed(k)') <= conv'[k].unread)
    BY <1>2, <1>3
  <1>5. QED
    BY <1>4 DEF Badged

LEMMA NothingWaits ==
  ASSUME TypeInv', NEW k \in Conversations, Waiting(k)' \ Listed(k)' = {}
  PROVE  Badged(k)'
  <1>1. conv'[k].unread \in Nat
    BY TypePartsNext DEF TypeInv, TablesType, ConversationRow
  <1>2. Cardinality(Waiting(k)' \ Listed(k)') = 0
    BY FS_EmptySet
  <1>3. QED
    BY <1>1, <1>2 DEF Badged

(* A turn of h that leaves the rows alone, begins or ends no list and loses*)
(* no operator on its way to one.                                          *)
LEMMA TurnBadge ==
  ASSUME MessageInv, TypeInv', BadgeInv, NEW h \in Handlers, NEW step, NEW c, Turns(h, step, c),
         UNCHANGED <<msg, counted, handed>>,
         \A k \in Conversations : conv'[k].unread = conv[k].unread,
         pc[h] # "thread", step # "thread",
         pc[h] \in {"join", "list"} /\ call[h].op = "open" =>
           step \in {"join", "list"} /\ c.op = "open" /\ c.conv = call[h].conv
  PROVE  BadgeInv'
  <1>1. TypeInv
    BY DEF MessageInv
  <1>2. /\ pc'[h] = step /\ call'[h] = c
        /\ \A g \in Handlers \ {h} : pc'[g] = pc[g] /\ call'[g] = call[g]
    BY <1>1, Moved DEF Turns
  <1>3. ASSUME NEW k \in Conversations
        PROVE  Badged(k)'
    <2>1. Listing(k)' = Listing(k) /\ h \notin Listing(k)
      BY <1>2 DEF Listing
    <2>2. \A g \in Listing(k) : call'[g].list = call[g].list
      BY <1>2, <2>1 DEF Listing
    <2>3. Listed(k)' = Listed(k)
      BY <2>1, <2>2 DEF Listed
    <2>4. Waiting(k)' = Waiting(k)
      BY DEF Waiting
    <2>5. Coming(k) => Coming(k)'
      BY <1>2 DEF Coming
    <2>6. conv'[k].unread >= conv[k].unread
      BY <1>1, TypeParts DEF TypeInv, TablesType, ConversationRow
    <2>7. QED
      BY <1>1, <2>3, <2>4, <2>5, <2>6, BadgeHolds DEF BadgeInv
  <1>4. QED
    BY <1>3 DEF BadgeInv

LEMMA StartBadge ==
  ASSUME MessageInv, BadgeInv, NEW h \in Handlers, Starts(h)
  PROVE  BadgeInv'
  <1>1. TypeInv /\ TypeInv' /\ conv \in [Conversations -> ConversationRow]
    BY StartType, Messages0 DEF MessageInv
  <1>2. PICK step, c : Fresh(h, step, c)
    BY <1>1, StartIs
  <1>3. Turns(h, step, c) /\ pc[h] = "idle" /\ step # "thread"
    BY <1>2 DEF Fresh, Turns
  <1>4. UNCHANGED <<msg, counted, handed>>
    BY <1>1, StartIs
  <1>5. \A k \in Conversations : conv'[k].unread = conv[k].unread
    BY <1>1, StartIs DEF Closes, ConversationRow
  <1>6. QED
    BY <1>1, <1>3, <1>4, <1>5, TurnBadge

(* A new conversation has nothing waiting.                                 *)
LEMMA CreateBadge ==
  ASSUME MessageInv, TypeInv', BadgeInv, NEW h \in Handlers, CreateConversation(h)
  PROVE  BadgeInv'
  <1>1. TypeInv /\ conv \in [Conversations -> ConversationRow]
    BY Messages0 DEF MessageInv
  <1>2. PICK k \in Conversations, c \in Call :
          /\ conv[k].status = "none" /\ Turns(h, "join", c)
          /\ conv' = [conv EXCEPT ![k] = [status |-> "open", key |-> call[h].key, unread |-> 0]]
          /\ c.op = "hello" /\ c.conv = k /\ c.msg = NoMessage /\ c.now = call[h].now
          /\ c.socket = call[h].socket /\ c.list = call[h].list
    BY <1>1, CreateTurns
  <1>3. /\ pc'[h] = "join" /\ call'[h] = c
        /\ \A g \in Handlers \ {h} : pc'[g] = pc[g] /\ call'[g] = call[g]
    BY <1>1, <1>2, Moved DEF Turns
  <1>4. UNCHANGED <<msg, counted, handed>> /\ pc[h] = "create"
    BY DEF CreateConversation
  <1>5. ASSUME NEW l \in Conversations
        PROVE  Badged(l)'
    <2>1. CASE l = k
      <3>1. \A m \in counted : msg[m].conv # k
        BY <1>1, <1>2, Messages0 DEF MessageInv, Existing
      <3>2. Waiting(l)' = {}
        BY <1>4, <2>1, <3>1 DEF Waiting
      <3>3. QED
        BY <3>2, NothingWaits
    <2>2. CASE l # k
      <3>1. Listing(l)' = Listing(l) /\ h \notin Listing(l)
        BY <1>3, <1>4 DEF Listing
      <3>2. \A g \in Listing(l) : call'[g].list = call[g].list
        BY <1>3, <3>1 DEF Listing
      <3>3. Listed(l)' = Listed(l)
        BY <3>1, <3>2 DEF Listed
      <3>4. Waiting(l)' = Waiting(l)
        BY <1>4 DEF Waiting
      <3>5. Coming(l) => Coming(l)'
        BY <1>3, <1>4 DEF Coming
      <3>6. conv'[l].unread >= conv[l].unread
        BY <1>1, <1>2, <2>2 DEF ConversationRow
      <3>7. QED
        BY <1>1, <3>3, <3>4, <3>5, <3>6, BadgeHolds DEF BadgeInv
    <2>3. QED
      BY <2>1, <2>2
  <1>6. QED
    BY <1>5 DEF BadgeInv

(* A message saved is not counted yet, so it does not wait yet.            *)
LEMMA SaveBadge ==
  ASSUME MessageInv, TypeInv', BadgeInv, NEW h \in Handlers, Save(h)
  PROVE  BadgeInv'
  <1>1. TypeInv /\ conv \in [Conversations -> ConversationRow]
    BY Messages0 DEF MessageInv
  <1>2. Turns(h, "count", call[h])
    BY <1>1, SaveTurns
  <1>3. /\ pc'[h] = "count" /\ call'[h] = call[h]
        /\ \A g \in Handlers \ {h} : pc'[g] = pc[g] /\ call'[g] = call[g]
    BY <1>1, <1>2, Moved DEF Turns
  <1>4. UNCHANGED <<conv, counted, handed>> /\ pc[h] = "save"
    BY DEF Save
  <1>5. \A m \in counted : msg'[m] = msg[m]
    BY SavedStay
  <1>6. ASSUME NEW l \in Conversations
        PROVE  Badged(l)'
    <2>1. Listing(l)' = Listing(l) /\ h \notin Listing(l)
      BY <1>3, <1>4 DEF Listing
    <2>2. \A g \in Listing(l) : call'[g].list = call[g].list
      BY <1>3, <2>1 DEF Listing
    <2>3. Listed(l)' = Listed(l)
      BY <2>1, <2>2 DEF Listed
    <2>4. Waiting(l)' = Waiting(l)
      BY <1>4, <1>5 DEF Waiting
    <2>5. Coming(l) => Coming(l)'
      BY <1>3, <1>4 DEF Coming
    <2>6. conv'[l].unread >= conv[l].unread
      BY <1>1, <1>4 DEF ConversationRow
    <2>7. QED
      BY <1>1, <2>3, <2>4, <2>5, <2>6, BadgeHolds DEF BadgeInv
  <1>7. QED
    BY <1>6 DEF BadgeInv

(* One more waits, one more on the badge; a reply answers all that wait.   *)
LEMMA CountBadge ==
  ASSUME MessageInv, TypeInv', BadgeInv, NEW h \in Handlers, Count(h)
  PROVE  BadgeInv'
  <1> DEFINE k == call[h].conv
             m == call[h].msg
  <1>1. TypeInv /\ conv \in [Conversations -> ConversationRow]
    BY Messages0 DEF MessageInv
  <1>2. PICK step \in {"fetch", "join"} : Turns(h, step, call[h])
    BY <1>1, CountTurns
  <1>3. /\ pc'[h] = step /\ call'[h] = call[h]
        /\ \A g \in Handlers \ {h} : pc'[g] = pc[g] /\ call'[g] = call[g]
    BY <1>1, <1>2, Moved DEF Turns
  <1>4. /\ pc[h] = "count" /\ UNCHANGED msg
        /\ conv' = [conv EXCEPT ![k].unread = IF call[h].op = "visitor" THEN @ + 1 ELSE 0]
        /\ counted' = counted \cup {m}
        /\ handed' = handed \cup (IF call[h].op = "reply" THEN counted \cap Thread(k) ELSE {})
    BY DEF Count
  <1>5. k \in Conversations /\ m \in Messages /\ call[h].op \in {"visitor", "reply"}
    BY <1>1, <1>4, Stays DEF Formed
  <1>6. msg[m].conv = k /\ (call[h].op = "reply" => msg[m].sender # "visitor")
    BY <1>4, <1>5 DEF MessageInv, Filed, FiledAs
  <1>7. ASSUME NEW l \in Conversations
        PROVE  Badged(l)'
    <2>1. Listing(l)' = Listing(l) /\ h \notin Listing(l)
      BY <1>3, <1>4 DEF Listing
    <2>2. \A g \in Listing(l) : call'[g].list = call[g].list
      BY <1>3, <2>1 DEF Listing
    <2>3. Listed(l)' = Listed(l)
      BY <2>1, <2>2 DEF Listed
    <2>4. Coming(l) => Coming(l)'
      BY <1>3, <1>4 DEF Coming
    <2>5. CASE l # k
      <3>1. Waiting(l)' \subseteq Waiting(l)
        BY <1>4, <1>6, <2>5 DEF Waiting
      <3>2. conv'[l].unread >= conv[l].unread
        BY <1>1, <1>4, <2>5 DEF ConversationRow
      <3>3. QED
        BY <1>1, <2>3, <2>4, <3>1, <3>2, BadgeHolds DEF BadgeInv
    <2>6. CASE l = k /\ call[h].op = "reply"
      <3>1. Waiting(l)' = {}
        <4>1. \A n \in counted : msg[n].conv = k => n \in Messages
          BY <1>1, Messages0
        <4>2. QED
          BY <1>4, <1>6, <2>6, <4>1 DEF Waiting, Thread
      <3>2. QED
        BY <3>1, NothingWaits
    <2>7. CASE l = k /\ call[h].op = "visitor"
      <3> DEFINE before == Waiting(l) \ Listed(l)
                 after == Waiting(l)' \ Listed(l)'
      <3>1. Waiting(l)' \subseteq Waiting(l) \cup {m}
        BY <1>4, <2>7 DEF Waiting
      <3>2. after \subseteq before \cup {m}
        BY <2>3, <3>1
      <3>3. conv'[l].unread = conv[l].unread + 1 /\ conv[l].unread \in Nat
        BY <1>1, <1>4, <2>7 DEF ConversationRow
      <3>4. before \subseteq Messages
        BY <1>1, Messages0 DEF Waiting
      <3> HIDE DEF before, after
      <3>5. Cardinality(after) <= Cardinality(before) + 1 /\ Cardinality(after) \in Nat /\ Cardinality(before) \in Nat
        <4>1. IsFiniteSet(before) /\ Cardinality(before) \in Nat
          BY <3>4, WaitingFinite
        <4>2. before \cup {m} \subseteq Messages /\ IsFiniteSet(before \cup {m})
          BY <1>5, <3>4, <4>1, FS_AddElement
        <4>3. Cardinality(after) <= Cardinality(before \cup {m}) /\ Cardinality(after) \in Nat
              /\ Cardinality(before \cup {m}) \in Nat
          BY <3>2, <4>2, WaitingFinite
        <4>4. Cardinality(before \cup {m}) = Cardinality(before) \/ Cardinality(before \cup {m}) = Cardinality(before) + 1
          BY <4>1, FS_AddElement
        <4>5. QED
          BY <4>1, <4>3, <4>4
      <3>6. Coming(l) \/ Cardinality(before) <= conv[l].unread
        BY DEF BadgeInv, Badged, before
      <3>7. Coming(l)' \/ Cardinality(after) <= conv'[l].unread
        BY <2>4, <3>3, <3>5, <3>6
      <3>8. QED
        BY <3>7 DEF Badged, after
    <2>8. QED
      BY <1>5, <2>5, <2>6, <2>7
  <1>8. QED
    BY <1>7 DEF BadgeInv

(* Clearing the badge is the work of one who will read the list.           *)
LEMMA ClearingBadge ==
  ASSUME MessageInv, TypeInv', BadgeInv, NEW h \in Handlers, markStaffRead(h) \/ ClearBadge(h)
  PROVE  BadgeInv'
  <1>1. TypeInv /\ conv \in [Conversations -> ConversationRow]
    BY Messages0 DEF MessageInv
  <1>2. PICK step \in {"clear", "join"} : Turns(h, step, call[h])
    BY <1>1, MarkTurns, ClearTurns
  <1>3. /\ pc'[h] = step /\ call'[h] = call[h]
        /\ \A g \in Handlers \ {h} : pc'[g] = pc[g] /\ call'[g] = call[g]
    BY <1>1, <1>2, Moved DEF Turns
  <1>4. pc[h] \in {"mark", "clear"} /\ call[h].op = "open" /\ UNCHANGED <<msg, counted, handed>>
    BY <1>1, Stays DEF markStaffRead, ClearBadge, Formed, rows
  <1>5. CASE markStaffRead(h)
    <2>1. \A k \in Conversations : conv'[k].unread = conv[k].unread
      BY <1>5 DEF markStaffRead, rows
    <2>2. QED
      BY <1>1, <1>2, <1>4, <2>1, TurnBadge
  <1>6. CASE ClearBadge(h)
    <2>1. pc'[h] = "join" /\ conv' = [conv EXCEPT ![call[h].conv].unread = 0]
      <3>1. Turns(h, "join", call[h])
        BY <1>1, <1>6, ClearTurns
      <3>2. QED
        BY <1>1, <1>6, <3>1, Moved DEF Turns, ClearBadge
    <2>2. ASSUME NEW l \in Conversations
          PROVE  Badged(l)'
      <3>1. CASE l = call[h].conv
        BY <1>3, <1>4, <2>1, <3>1 DEF Badged, Coming
      <3>2. CASE l # call[h].conv
        <4>1. Listing(l)' = Listing(l) /\ h \notin Listing(l)
          BY <1>3, <1>4 DEF Listing
        <4>2. \A g \in Listing(l) : call'[g].list = call[g].list
          BY <1>3, <4>1 DEF Listing
        <4>3. Listed(l)' = Listed(l)
          BY <4>1, <4>2 DEF Listed
        <4>4. Waiting(l)' = Waiting(l)
          BY <1>4 DEF Waiting
        <4>5. Coming(l) => Coming(l)'
          BY <1>3, <1>4 DEF Coming
        <4>6. conv'[l].unread >= conv[l].unread
          BY <1>1, <2>1, <3>2 DEF ConversationRow
        <4>7. QED
          BY <1>1, <4>3, <4>4, <4>5, <4>6, BadgeHolds DEF BadgeInv
      <3>3. QED
        BY <3>1, <3>2
    <2>3. QED
      BY <2>2 DEF BadgeInv
  <1>7. QED
    BY <1>5, <1>6

(* Reading the list puts all that waits on its way to the operator.        *)
LEMMA ListBadge ==
  ASSUME MessageInv, TypeInv', BadgeInv, NEW h \in Handlers, listMessages(h)
  PROVE  BadgeInv'
  <1>1. TypeInv /\ conv \in [Conversations -> ConversationRow]
    BY Messages0 DEF MessageInv
  <1>2. PICK step \in {"join", "thread"}, c \in Call :
          /\ Turns(h, step, c)
          /\ step = "join" <=> call[h].op = "hello"
          /\ c.list = Thread(call[h].conv) /\ c.op = call[h].op /\ c.conv = call[h].conv
          /\ c.msg = call[h].msg /\ c.socket = call[h].socket /\ c.now = call[h].now
    BY <1>1, ListTurns
  <1>3. /\ pc'[h] = step /\ call'[h] = c
        /\ \A g \in Handlers \ {h} : pc'[g] = pc[g] /\ call'[g] = call[g]
    BY <1>1, <1>2, Moved DEF Turns
  <1>4. pc[h] = "list" /\ UNCHANGED <<conv, msg, counted, handed>>
    BY DEF listMessages, rows
  <1>5. ASSUME NEW l \in Conversations
        PROVE  Badged(l)'
    <2>1. Waiting(l)' = Waiting(l)
      BY <1>4 DEF Waiting
    <2>2. CASE step = "thread" /\ l = call[h].conv
      <3>1. h \in Listing(l)' /\ call'[h].list = Thread(l)
        BY <1>2, <1>3, <2>2 DEF Listing
      <3>2. Thread(l) \subseteq Listed(l)'
        BY <3>1 DEF Listed
      <3>3. Waiting(l) \subseteq Thread(l)
        BY <1>1, Messages0 DEF Waiting, Thread
      <3>4. QED
        BY <2>1, <3>2, <3>3, NothingWaits
    <2>3. CASE ~(step = "thread" /\ l = call[h].conv)
      <3>1. Listing(l)' = Listing(l) /\ h \notin Listing(l)
        BY <1>2, <1>3, <1>4, <2>3 DEF Listing
      <3>2. \A g \in Listing(l) : call'[g].list = call[g].list
        BY <1>3, <3>1 DEF Listing
      <3>3. Listed(l)' = Listed(l)
        BY <3>1, <3>2 DEF Listed
      <3>4. Coming(l) => Coming(l)'
        BY <1>2, <1>3, <1>4, <2>3 DEF Coming
      <3>5. conv'[l].unread >= conv[l].unread
        BY <1>1, <1>4 DEF ConversationRow
      <3>6. QED
        BY <1>1, <2>1, <3>3, <3>4, <3>5, BadgeHolds DEF BadgeInv
    <2>4. QED
      BY <2>2, <2>3
  <1>6. QED
    BY <1>5 DEF BadgeInv

(* What was under way to an operator is handed over.                       *)
LEMMA ThreadBadge ==
  ASSUME MessageInv, TypeInv', BadgeInv, NEW h \in Handlers, SendThread(h)
  PROVE  BadgeInv'
  <1>1. TypeInv /\ conv \in [Conversations -> ConversationRow]
    BY Messages0 DEF MessageInv
  <1>2. PICK c : Turns(h, "fetch", c)
    BY <1>1, ThreadTurns
  <1>3. /\ pc'[h] = "fetch"
        /\ \A g \in Handlers \ {h} : pc'[g] = pc[g] /\ call'[g] = call[g]
    BY <1>1, <1>2, Moved DEF Turns
  <1>4. pc[h] = "thread" /\ UNCHANGED <<conv, msg, counted>> /\ handed' = handed \cup call[h].list
    BY DEF SendThread
  <1>5. ASSUME NEW l \in Conversations
        PROVE  Badged(l)'
    <2>1. Listing(l)' = Listing(l) \ {h} /\ \A g \in Listing(l) \ {h} : call'[g].list = call[g].list
      BY <1>3 DEF Listing
    <2>2. Listed(l) \subseteq Listed(l)' \cup call[h].list
      BY <2>1 DEF Listed
    <2>3. Waiting(l)' = Waiting(l) \ call[h].list
      BY <1>4 DEF Waiting
    <2>4. Coming(l) => Coming(l)'
      BY <1>3, <1>4 DEF Coming
    <2>5. conv'[l].unread >= conv[l].unread
      BY <1>1, <1>4 DEF ConversationRow
    <2>6. QED
      BY <1>1, <2>2, <2>3, <2>4, <2>5, BadgeHolds DEF BadgeInv
  <1>6. QED
    BY <1>5 DEF BadgeInv

(* The steps that only carry the news.                                     *)
LEMMA CarryBadge ==
  ASSUME MessageInv, TypeInv', BadgeInv, NEW h \in Handlers,
         \/ Join(h) \/ Fetch(h) \/ Emit(h)
         \/ \E s \in Staff : enforceStaff(h, s) \/ LookupFails(h, s)
  PROVE  BadgeInv'
  <1>1. TypeInv /\ UNCHANGED <<conv, msg, counted, handed>>
    BY DEF MessageInv, Join, Fetch, Emit, enforceStaff, LookupFails, rows
  <1>2. CASE Join(h)
    <2>1. pc[h] = "join"
      BY <1>2 DEF Join
    <2>2. PICK step \in {"idle", "list", "fetch"}, c \in Call :
            Turns(h, step, c) /\ (call[h].op = "open" => step = "list" /\ c = call[h])
      BY <1>1, <1>2, JoinTurns, TurnsCall
    <2>3. QED
      BY <1>1, <2>1, <2>2, TurnBadge
  <1>3. CASE Fetch(h) \/ Emit(h) \/ \E s \in Staff : enforceStaff(h, s) \/ LookupFails(h, s)
    <2>1. pc[h] \in {"fetch", "sweep"}
      BY <1>3 DEF Fetch, Emit, enforceStaff, LookupFails
    <2>2. PICK step \in {"idle", "fetch", "sweep"}, c \in Call : Turns(h, step, c)
      BY <1>1, <1>3, FetchTurns, EmitTurns, SweepTurns, TurnsCall
    <2>3. QED
      BY <1>1, <2>1, <2>2, TurnBadge
  <1>4. QED
    BY <1>2, <1>3

LEMMA OtherBadge ==
  ASSUME MessageInv, BadgeInv,
         \/ \E v \in Visitors : visitorGone(v)
         \/ Tick \/ UNCHANGED vars \/ \E s \in Staff : staffHello(s) \/ staffRefused(s) \/ Revoke(s)
  PROVE  BadgeInv'
  <1>1. UNCHANGED <<conv, msg, counted, handed>> /\ TypeInv
    BY DEF MessageInv, visitorGone, Tick, vars, staffHello, staffRefused, Revoke, rows
  <1>2. \A h \in Handlers : /\ pc'[h] = pc[h] /\ call'[h].op = call[h].op
                            /\ call'[h].conv = call[h].conv /\ call'[h].list = call[h].list
    <2>1. ASSUME NEW v \in Visitors, visitorGone(v)
          PROVE  \A h \in Handlers : /\ pc'[h] = pc[h] /\ call'[h].op = call[h].op
                                     /\ call'[h].conv = call[h].conv /\ call'[h].list = call[h].list
      BY <1>1, <2>1, GoneIs
    <2>2. QED
      BY <1>1, <2>1, AccountType
  <1>3. ASSUME NEW l \in Conversations
        PROVE  Badged(l)'
    <2>1. Listing(l)' = Listing(l) /\ \A g \in Listing(l) : call'[g].list = call[g].list
      BY <1>2 DEF Listing
    <2>2. Listed(l)' = Listed(l)
      BY <2>1 DEF Listed
    <2>3. Waiting(l)' = Waiting(l) /\ (Coming(l) => Coming(l)')
      BY <1>1, <1>2 DEF Waiting, Coming
    <2>4. Badged(l)
      BY DEF BadgeInv
    <2>5. QED
      BY <1>1, <2>2, <2>3, <2>4 DEF Badged
  <1>4. QED
    BY <1>3 DEF BadgeInv

LEMMA BadgeStep ==
  ASSUME MessageInv, BadgeInv, [Next]_vars
  PROVE  BadgeInv'
  <1>1. TypeInv'
    BY MessageStep DEF MessageInv
  <1>2. QED
    BY <1>1, StartBadge, CreateBadge, SaveBadge, CountBadge, ClearingBadge, ListBadge, ThreadBadge, CarryBadge,
       OtherBadge
    DEF Next, Proceed, Starts

LEMMA BadgeInit == Init => BadgeInv
  <1> SUFFICES ASSUME Init PROVE BadgeInv
    OBVIOUS
  <1>1. ASSUME NEW k \in Conversations
        PROVE  Badged(k)
    <2>1. Waiting(k) \ Listed(k) = {} /\ conv[k].unread = 0
      BY <1>1 DEF Init, Waiting
    <2>2. Cardinality(Waiting(k) \ Listed(k)) = 0
      BY <2>1, FS_EmptySet
    <2>3. QED
      BY <2>1, <2>2 DEF Badged
  <1>2. QED
    BY <1>1 DEF BadgeInv

(* A visitor's message that no operator was shown or answered is on the    *)
(* badge, unless an operator is opening its thread: for any number of      *)
(* operators, messages and handlers.                                       *)
THEOREM BadgeSafe == Spec => []BadgeKeepsWaiting
  <1>1. Spec => [](MessageInv /\ BadgeInv)
    BY MessageInit, MessageStep, BadgeInit, BadgeStep, PTL DEF Spec
  <1>2. ASSUME MessageInv, BadgeInv, NEW k \in Conversations, ~Opening(k)
        PROVE  Cardinality(Waiting(k)) <= conv[k].unread
    <2>1. ~Coming(k)
      BY <1>2 DEF Opening, Coming
    <2>2. Listing(k) = {}
      BY <1>2, Stays DEF Opening, Listing, MessageInv, Formed
    <2>3. Waiting(k) \ Listed(k) = Waiting(k)
      BY <2>2 DEF Listed
    <2>4. QED
      BY <1>2, <2>1, <2>3 DEF BadgeInv, Badged
  <1>3. MessageInv /\ BadgeInv => BadgeKeepsWaiting
    BY <1>2 DEF BadgeKeepsWaiting
  <1>4. QED
    BY <1>1, <1>3, PTL

=============================================================================
