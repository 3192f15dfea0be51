----------------------------- MODULE LiveBoard -----------------------------
(***************************************************************************)
(* What the desk tells the day's guests: the park's status and, per        *)
(* activity, the wait and a note.  Each is one settings row, rewritten     *)
(* whole from what was read before.                                        *)
(***************************************************************************)
EXTENDS Naturals, FiniteSets

CONSTANTS
  Operators,   \* bound: saves in progress at once
  Activities,
  Notes        \* bound: notes, with waits; 0 is none

ASSUME LiveBoardAssumption == IsFiniteSet(Activities) /\ Notes \subseteq Nat /\ 0 \in Notes

VARIABLES
  board,       \* the activity_ops row
  parkStatus,  \* the park_status row
  saving,      \* what each operator is about to write
  input,       \* the activities each sent
  crossed      \* history: operators overtaken by another save

boardVars == <<board, parkStatus, saving, input, crossed>>

Idle == [a \in Activities |-> 0]
ParkStatus == {s \in [state : {"open", "partial", "closed"}, paused : SUBSET Activities] :
                 s.state = "closed" => s.paused = {}}

BoardTypeOK ==
  /\ board \in [Activities -> Notes] /\ parkStatus \in ParkStatus
  /\ saving \in [Operators -> [Activities -> Notes]]
  /\ input \in [Operators -> SUBSET Activities] /\ crossed \subseteq Operators

BoardInit ==
  /\ board = Idle /\ parkStatus = [state |-> "open", paused |-> {}]
  /\ saving = [o \in Operators |-> Idle] /\ input = [o \in Operators |-> {}] /\ crossed = {}

\* What a ticket shows of an activity.
shownPaused(a) == parkStatus.state = "closed" \/ a \in parkStatus.paused

\* Activities not sent keep what was read.
merge(sent, notes) == [a \in Activities |-> IF a \in sent THEN notes[a] ELSE board[a]]

setLive(o) ==
  /\ input[o] = {}
  /\ \E sent \in SUBSET Activities \ {{}}, notes \in [Activities -> Notes] :
       /\ saving' = [saving EXCEPT ![o] = merge(sent, notes)]
       /\ input' = [input EXCEPT ![o] = sent]
  /\ UNCHANGED <<board, parkStatus, crossed>>

SaveLive(o) ==
  /\ input[o] # {}
  /\ board' = saving[o]
  /\ saving' = [saving EXCEPT ![o] = Idle] /\ input' = [input EXCEPT ![o] = {}]
  /\ crossed' = (crossed \cup {p \in Operators : input[p] # {}}) \ {o}
  /\ UNCHANGED parkStatus

stateOf(state, paused) ==
  IF state = "closed" THEN "closed" ELSE IF state = "partial" \/ paused # {} THEN "partial" ELSE "open"

\* A closed park lists no activity.
setStatus ==
  /\ \E state \in {"open", "partial", "closed"}, paused \in SUBSET Activities :
       LET stored == stateOf(state, paused)
       IN  parkStatus' = [state |-> stored, paused |-> IF stored = "closed" THEN {} ELSE paused]
  /\ UNCHANGED <<board, saving, input, crossed>>

BoardNext == (\E o \in Operators : setLive(o) \/ SaveLive(o)) \/ setStatus
BoardSpec == BoardInit /\ [][BoardNext]_boardVars

-----------------------------------------------------------------------------
(* The properties.                                                         *)

(* A save changes only the activities it sent, unless another save came    *)
(* between its read and its write: then it may take that one back.         *)
BoardKept ==
  [][\A a \in Activities : board'[a] # board[a] =>
       \E o \in Operators : input[o] # {} /\ input'[o] = {} /\ (a \in input[o] \/ o \in crossed)]_boardVars

(* Guests who see the park open see no activity paused.                    *)
OpenMeansOpen == parkStatus.state = "open" => \A a \in Activities : ~shownPaused(a)

=============================================================================
