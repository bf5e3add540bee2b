---------------------------- MODULE Localization ----------------------------
(***************************************************************************)
(* The messages by which droplets tell each other where they are:          *)
(* localization.c, on one droplet.                                         *)
(*                                                                         *)
(* A droplet that knows its place and measures another one allocates a     *)
(* node with a message for it, in the main loop.  While the channels are   *)
(* busy the node waits for a task, which may run before the call that      *)
(* scheduled it in the main loop goes on, and that has then yet to count   *)
(* the try in the node.  Tasks do not run inside each other.               *)
(*                                                                         *)
(* What the messages say, the algebra of three by three matrices of        *)
(* floats, is left out, and with it whether a measurement makes a positive *)
(* definite covariance: it may or may not.  The scheduler has room.        *)
(***************************************************************************)
EXTENDS Naturals

CONSTANTS
  Nodes,      \* blocks of memory, one for each message that can be allocated at once
  NoNode,
  GiveUp,     \* 6: after more tries than that a message is given up
  MaxMeasured \* bounds the measurements

LocAssumption == GiveUp \in Nat /\ MaxMeasured \in Nat /\ NoNode \notin Nodes
ASSUME LocAssumption

VARIABLES
  located,   \* POS_DEFINED(&myPos)
  taken,     \* nodes that myMalloc gave out and myFree did not take back
  numTries,  \* of every node; a free one keeps what was written last
  retry,     \* nodes that a scheduled sendBotMeasMsg has
  caller,    \* what the main loop's sendBotMeasMsg is at, [at, node, read]
  measured   \* bound

locVars == <<located, taken, numTries, retry, caller, measured>>

NoCall == [at |-> "returned", node |-> NoNode, read |-> 0]
Call(at, n, read) == [at |-> at, node |-> n, read |-> read]

\* localizationInit: a seed knows its place
LocInit ==
  /\ located \in BOOLEAN
  /\ taken = {} /\ numTries = [n \in Nodes |-> 0] /\ retry = {} /\ caller = NoCall
  /\ measured = 0

-----------------------------------------------------------------------------
(* The main loop *)

\* handleBotMeasMsg, of a message that has a place: a droplet that has none takes it
handleBotMeasMsg ==
  /\ caller = NoCall /\ located' = TRUE
  /\ UNCHANGED <<taken, numTries, retry, caller, measured>>

\* useRNBmeas, calcOtherBotPosFromMeas that succeeds, and prepBotMeasMsg
useRNBmeas(n) ==
  /\ caller = NoCall /\ located /\ n \notin taken
  /\ measured < MaxMeasured /\ measured' = measured + 1
  /\ taken' = taken \cup {n} /\ numTries' = [numTries EXCEPT ![n] = 0]
  /\ caller' = Call("asks", n, 0)
  /\ UNCHANGED <<located, retry>>

\* sendBotMeasMsg in the main loop, and the channels are free
SendsAtOnce ==
  /\ caller.at = "asks"
  /\ taken' = taken \ {caller.node} /\ caller' = NoCall
  /\ UNCHANGED <<located, numTries, retry, measured>>

\* ... or busy: scheduleTask; numTries is 0 in the first call and too small to give up
SendsLater ==
  /\ caller.at = "asks"
  /\ retry' = retry \cup {caller.node} /\ caller' = Call("owes", caller.node, 0)
  /\ UNCHANGED <<located, taken, numTries, measured>>

\* numTries++, which reads the node and then writes it, whoever has it by then
CountReads ==
  /\ caller.at = "owes"
  /\ caller' = Call("counts", caller.node, numTries[caller.node])
  /\ UNCHANGED <<located, taken, numTries, retry, measured>>

CountWrites ==
  /\ caller.at = "counts"
  /\ numTries' = [numTries EXCEPT ![caller.node] = caller.read + 1] /\ caller' = NoCall
  /\ UNCHANGED <<located, taken, retry, measured>>

-----------------------------------------------------------------------------
(* sendBotMeasMsg in a task *)

\* ... that finds the channels free
TaskSends(n) ==
  /\ n \in retry
  /\ retry' = retry \ {n} /\ taken' = taken \ {n}
  /\ UNCHANGED <<located, numTries, caller, measured>>

\* ... or busy, and a giving up that does not free the node
TaskGivesUpOnly(n) ==
  /\ n \in retry
  /\ retry' = IF numTries[n] > GiveUp THEN retry \ {n} ELSE retry
  /\ numTries' = [numTries EXCEPT ![n] = @ + 1]
  /\ UNCHANGED <<located, taken, caller, measured>>

\* ... or busy: too often, when the node is freed before the try is counted in it, or
\* not, when it waits for the next try
TaskWaits(n) ==
  /\ n \in retry
  /\ IF numTries[n] > GiveUp
     THEN taken' = taken \ {n} /\ retry' = retry \ {n}
     ELSE UNCHANGED <<taken, retry>>
  /\ numTries' = [numTries EXCEPT ![n] = @ + 1]
  /\ UNCHANGED <<located, caller, measured>>

LocNext ==
  \/ handleBotMeasMsg
  \/ \E n \in Nodes : useRNBmeas(n)
  \/ SendsAtOnce
  \/ SendsLater
  \/ CountReads
  \/ CountWrites
  \/ \E n \in Nodes : TaskSends(n)
  \/ \E n \in Nodes : TaskWaits(n)

LocSpec == LocInit /\ [][LocNext]_locVars

-----------------------------------------------------------------------------
(* Correctness *)

\* The nodes that are allocated are those that a task has, which will send or free
\* them, and the one that the main loop has and did not yet pass on, which no task
\* has: wherever the retries run, inside the call that scheduled the first of them
\* too, no node is leaked or freed twice.  (What is counted in a node after it was
\* freed is no part of this.)
NodesKept ==
  LET own == IF caller.at = "asks" THEN {caller.node} ELSE {}
  IN taken = retry \cup own /\ retry \cap own = {}

=============================================================================
