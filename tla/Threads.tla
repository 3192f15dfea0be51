------------------------------- MODULE Threads -------------------------------
(***************************************************************************)
(* The operators' list of conversations (chat.service, chat.controller):   *)
(* visitors' sessions open conversations, messages and files go into them, *)
(* operators read, answer and close them, by socket or over REST; a tab of *)
(* the back office shows the list it once fetched, corrected by whatever   *)
(* was pushed since.  Rooms, revoked operators and the badge's meaning are *)
(* in Chat; here every handler ends.                                       *)
(***************************************************************************)
EXTENDS Integers, Sequences, FiniteSets

CONSTANTS
  Visitors, Threads,   \* visitor keys; bound: conversations
  Calls,               \* bound: handlers in progress at once
  MaxTexts, MaxCalls   \* bounds: messages; handlers begun

VARIABLES
  threads,        \* chat_conversations
  texts,          \* chat_messages in the order they were created
  call,           \* the handlers, each with what it has read
  board,          \* the tab: per conversation, the summary it shows
  twice,          \* history: visitors two of whose sessions overlapped
  stale,          \* history: conversations changed since in a way the tab was not told of
  begun           \* how many handlers were begun
threadVars == <<threads, texts, call, board, twice, stale, begun>>

NoThread == [status |-> "none"]
NoSummary == [status |-> "none"]
NoCall == [step |-> "idle"]
Live == {h \in Calls : call[h] # NoCall}
Sent(id) == {n \in DOMAIN texts : texts[n].in = id}
Newest(id) == CHOOSE n \in Sent(id) : \A k \in Sent(id) : k <= n

ThreadsTypeOK ==
  /\ \A id \in Threads : threads[id] # NoThread => threads[id].unread \in Nat /\ threads[id].last \in 0..Len(texts)
  /\ \A n \in DOMAIN texts : threads[texts[n].in] # NoThread
  /\ stale \subseteq Threads /\ twice \subseteq Visitors

ThreadsInit ==
  /\ threads = [id \in Threads |-> NoThread] /\ texts = <<>> /\ call = [h \in Calls |-> NoCall]
  /\ board = [id \in Threads |-> NoSummary] /\ twice = {} /\ stale = {} /\ begun = 0

\* alone: no other handler has been on these conversations since this one began.
Handle(h, c) ==
  /\ call[h] = NoCall /\ begun < MaxCalls /\ begun' = begun + 1
  /\ LET others == {g \in Live : call[g].on \cap c.on # {}} IN
     call' = [g \in Calls |-> IF g = h THEN [c EXCEPT !.alone = (others = {})]
                              ELSE IF g \in others THEN [call[g] EXCEPT !.alone = FALSE] ELSE call[g]]
Step(h, step) == call' = [call EXCEPT ![h].step = step]
End(h) == call' = [call EXCEPT ![h] = NoCall]

\* What the list shows of a message without words; a push leaves the preview out.
toSummary(row, preview) == [status |-> row.status, unread |-> row.unread, last |-> row.last, preview |-> preview]
shownBy(id) == IF Sent(id) = {} THEN 0 ELSE Newest(id)
pushed(n) == IF n > 0 /\ texts[n].words THEN n ELSE 0

(***************************************************************************)
(* A visitor's session: the newest open conversation, or a new one.        *)
(***************************************************************************)
startSession(h, v) ==
  LET open == {id \in Threads : threads[id] # NoThread /\ threads[id].of = v /\ threads[id].status = "open"} IN
  /\ Handle(h, [step |-> IF open = {} THEN "open" ELSE "greet", of |-> v, on |-> {}, alone |-> TRUE])
  /\ twice' = IF \E g \in Live : call[g].step = "open" /\ call[g].of = v THEN twice \cup {v} ELSE twice
  /\ UNCHANGED <<threads, texts, board, stale>>

openThread(h) ==
  /\ call[h].step = "open"
  /\ \E id \in Threads :
       /\ threads[id] = NoThread
       /\ threads' = [threads EXCEPT ![id] = [of |-> call[h].of, status |-> "open", unread |-> 0, last |-> Len(texts)]]
       /\ stale' = stale \cup {id}
       /\ call' = [g \in Calls |-> IF g = h THEN NoCall
                                  ELSE IF g \in Live /\ id \in call[g].on THEN [call[g] EXCEPT !.alone = FALSE] ELSE call[g]]
  /\ UNCHANGED <<texts, board, twice, begun>>

\* Resumed: the thread is listed, and nobody told.
resume(h) == call[h].step = "greet" /\ End(h) /\ UNCHANGED <<threads, texts, board, twice, stale, begun>>

(***************************************************************************)
(* Messages and files: inserted, counted on the conversation, the row read *)
(* again, and pushed.  A closed conversation takes them as an open one.    *)
(***************************************************************************)
\* A visitor writes into conversations of their key only; staff, into any.
assertVisitorOwns(id, by) == threads[id] # NoThread /\ (by = "staff" \/ threads[id].of = by)

Insert(h, id, by, words) ==
  /\ assertVisitorOwns(id, by) /\ Len(texts) < MaxTexts
  /\ texts' = Append(texts, [in |-> id, by |-> by, words |-> words])
  /\ Handle(h, [step |-> "count", n |-> Len(texts) + 1, on |-> {id}, alone |-> TRUE])
  /\ UNCHANGED <<threads, board, twice, stale>>

\* A text is never empty; a file, inserted with its message in one transaction, may have no caption.
addMessage(h, id, by) == Insert(h, id, by, TRUE)
addAttachment(h, id, by, caption) == Insert(h, id, by, caption)

countMessage(h) ==
  /\ call[h].step = "count" /\ Step(h, "read")
  /\ LET n == call[h].n  id == texts[n].in IN
     threads' = [threads EXCEPT ![id].last = n, ![id].unread = IF texts[n].by = "staff" THEN 0 ELSE @ + 1]
  /\ UNCHANGED <<texts, board, twice, stale, begun>>

Push(h, id, summary) == call' = [call EXCEPT ![h] = [step |-> "push", id |-> id, summary |-> summary, on |-> @.on, alone |-> @.alone]]

\* Mutant: the conversation as it was found, with its counters from before the message.
readBackEarlier(n) == [threads[texts[n].in] EXCEPT !.last = n - 1]
readBack(n) == threads[texts[n].in]

requireConversation(h) ==
  /\ call[h].step = "read"
  /\ LET n == call[h].n IN Push(h, texts[n].in, toSummary(readBack(n), pushed(n)))
  /\ UNCHANGED <<threads, texts, board, twice, stale, begun>>

\* announceVisitorMessage, announceStaffMessage, announceConversation: every tab gets the summary.
announce(h) ==
  /\ call[h].step = "push" /\ End(h)
  /\ board' = [board EXCEPT ![call[h].id] = call[h].summary]
  /\ stale' = IF call[h].alone THEN stale \ {call[h].id} ELSE stale \cup {call[h].id}
  /\ UNCHANGED <<threads, texts, twice, begun>>

(***************************************************************************)
(* Operators read and close.                                               *)
(***************************************************************************)
\* push: by socket the cleared badge is news for the other tabs, over REST it is not.
markStaffRead(h, id, push) ==
  /\ threads[id] # NoThread
  /\ Handle(h, [step |-> IF threads[id].unread # 0 THEN "clear" ELSE "list", id |-> id, row |-> threads[id], push |-> push,
                on |-> {id}, alone |-> TRUE])
  /\ UNCHANGED <<threads, texts, board, twice, stale>>

clearBadge(h) ==
  /\ call[h].step = "clear" /\ threads' = [threads EXCEPT ![call[h].id].unread = 0]
  /\ call' = [call EXCEPT ![h].step = "list", ![h].row.unread = 0]
  /\ stale' = stale \cup {call[h].id} /\ UNCHANGED <<texts, board, twice, begun>>

\* The thread just read tells the preview.
listMessages(h) ==
  /\ call[h].step = "list"
  /\ IF call[h].push THEN Push(h, call[h].id, toSummary(call[h].row, pushed(shownBy(call[h].id)))) ELSE End(h)
  /\ UNCHANGED <<threads, texts, board, twice, stale, begun>>

\* By socket the newest message is read again, over REST there is no preview.
close(h, id, socket) ==
  /\ threads[id] # NoThread
  /\ Handle(h, [step |-> "close", id |-> id, row |-> threads[id], push |-> socket, on |-> {id}, alone |-> TRUE])
  /\ UNCHANGED <<threads, texts, board, twice, stale>>

closed(h) ==
  /\ call[h].step = "close" /\ threads' = [threads EXCEPT ![call[h].id].status = "closed"]
  /\ LET row == [call[h].row EXCEPT !.status = "closed"] IN
     Push(h, call[h].id, toSummary(row, IF call[h].push THEN pushed(shownBy(call[h].id)) ELSE 0))
  /\ UNCHANGED <<texts, board, twice, stale, begun>>

\* A tab fetches the list, one query; what is pushed before the answer arrives is overwritten.
listConversations(h) ==
  /\ Handle(h, [step |-> "fetch", on |-> Threads, alone |-> TRUE, rows |->
       [id \in Threads |-> IF threads[id] = NoThread THEN NoSummary ELSE toSummary(threads[id], shownBy(id))]])
  /\ UNCHANGED <<threads, texts, board, twice, stale>>

showList(h) ==
  /\ call[h].step = "fetch" /\ End(h) /\ board' = call[h].rows
  /\ stale' = IF call[h].alone THEN {} ELSE Threads
  /\ UNCHANGED <<threads, texts, twice, begun>>

ThreadsNext ==
  \/ \E h \in Calls, v \in Visitors : startSession(h, v)
  \/ \E h \in Calls, id \in Threads :
       \/ \E by \in Visitors \cup {"staff"} : 
            addMessage(h, id, by) \/ \E c \in BOOLEAN : addAttachment(h, id, by, c)
       \/ \E b \in BOOLEAN : markStaffRead(h, id, b) \/ close(h, id, b)
  \/ \E h \in Calls :
       \/ openThread(h) \/ resume(h) \/ countMessage(h) \/ requireConversation(h) \/ announce(h)
       \/ clearBadge(h) \/ listMessages(h) \/ closed(h) \/ listConversations(h) \/ showList(h)

-----------------------------------------------------------------------------
(* A visitor has at most one open conversation, closed ones are left alone,*)
(* and a session finds the open one: only two sessions of one visitor at   *)
(* the same moment make two (startSession).                                *)
OneLiveThread ==
  \A v \in Visitors \ twice :
    Cardinality({id \in Threads : threads[id] # NoThread /\ threads[id].of = v /\ threads[id].status = "open"}) <= 1

(* A handler that was alone on its conversation leaves the tab with what   *)
(* the database has: status, badge, time of the last message, and the last *)
(* message's words or no preview, whichever way the tab learned it.        *)
BoardCatchesUp ==
  \A id \in Threads \ stale : (\A h \in Live : id \notin call[h].on) /\ threads[id] # NoThread =>
    /\ board[id] = toSummary(threads[id], board[id].preview)
    /\ board[id].preview \in {0, shownBy(id)}

ThreadsHold == OneLiveThread /\ BoardCatchesUp
=============================================================================
