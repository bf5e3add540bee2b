------------------------------ MODULE MsgQueue ------------------------------
(***************************************************************************)
(* The queue of incoming messages: addMsgToMsgQueue of                     *)
(* droplet_code/src/ir_comm.c, run by the medium level receive interrupts  *)
(* of six channels, and checkMessages of droplet_code/src/droplet_init.c,  *)
(* run by the main loop.                                                   *)
(*                                                                         *)
(* One frame of a neighbour is heard on several channels, and every copy   *)
(* is queued.  checkMessages takes the first node and drops the others     *)
(* that it takes for copies of it: those with the same CRC that arrived    *)
(* within 30 ms.  It handles each message with interrupts enabled, so      *)
(* copies arrive between any two iterations of its loop.  The memory that  *)
(* the nodes take is counted, and messages are refused above a limit.      *)
(***************************************************************************)
EXTENDS Integers, Sequences

CONSTANTS
  Messages,     \* what neighbours send: a sender and a text
  CrcOfMsg, Length,  \* of each message
  Channels,     \* how many channels may hear a frame (6)
  MaxFrames,    \* bound on the frames that are sent
  FrameTime,    \* least time between two frames of one message (25 ms)
  Spread,       \* a frame is over on all channels within this time
  CloseTime,    \* checkMessages: copies arrive within less than this (30 ms)
  IntRange,     \* numbers of an int, to which abs cuts its argument (65536)
  CountRange,   \* numbers of the uint16_t that counts the memory (65536)
  NodeSize,     \* sizeof(MsgNode) (11)
  MemLimit,     \* above this count messages are refused (500)
  MaxAge,       \* the main loop handles a message before it is older
  MaxTime,      \* bound on the clock
  Never

ASSUME MsgQueueAssumption ==
  /\ CrcOfMsg \in [Messages -> Nat] /\ Length \in [Messages -> Nat \ {0}]
  /\ Channels \in Nat /\ MaxFrames \in Nat
  /\ FrameTime \in Nat /\ Spread \in Nat /\ CloseTime \in Nat
  /\ IntRange \in Nat \ {0} /\ IntRange % 2 = 0 /\ CloseTime < IntRange \div 2
  /\ NodeSize \in Nat \ {0} /\ MemLimit \in Nat
  /\ CountRange \in Nat /\ MemLimit < CountRange
  /\ \A m \in Messages : MemLimit + NodeSize + Length[m] < CountRange
  /\ MaxAge \in Nat /\ MaxTime \in Nat
  /\ Never \notin Nat

Frames == 1 .. MaxFrames

VARIABLES
  now,      \* getTime()
  sent,     \* the frames on the air so far: [msg, at], at being when they ended
  copies,   \* per frame, the channels on which it was completed
  queue,    \* the list at incMsgHead: [frame, at]
  memory,   \* memoryConsumedByMsgBuffer
  numWaitingMsgs

listVars == <<queue, memory, numWaitingMsgs>>
queueVars == <<now, sent, copies, listVars>>

Text(n)  == sent[n.frame].msg
BytesOf(n) == NodeSize + Length[Text(n)]

\* irCommInit
QueueInit ==
  /\ now = 0 /\ sent = <<>> /\ copies = [f \in Frames |-> 0]
  /\ queue = <<>> /\ memory = 0 /\ numWaitingMsgs = 0

----------------------------------------------------------------------------
(* The neighbours and the clock.                                           *)

\* A neighbour's frame is over; its next one takes FrameTime.
Send(m) ==
  /\ Len(sent) < MaxFrames
  /\ \A f \in 1 .. Len(sent) : sent[f].msg = m => now - sent[f].at >= FrameTime
  /\ sent' = Append(sent, [msg |-> m, at |-> now])
  /\ UNCHANGED <<now, copies, listVars>>

Tick ==
  /\ now < MaxTime /\ now' = now + 1
  /\ \A i \in 1 .. Len(queue) : now' - queue[i].at <= MaxAge
  /\ UNCHANGED <<sent, copies, listVars>>

----------------------------------------------------------------------------
(* addMsgToMsgQueue: the receive interrupt of a channel has completed frame *)
(* f.                                                                      *)

TooMuchMemory == memory > MemLimit

addMsgToMsgQueue(f) ==
  /\ f <= Len(sent) /\ copies[f] < Channels /\ now - sent[f].at <= Spread
  /\ copies' = [copies EXCEPT ![f] = @ + 1]
  /\ LET n == [frame |-> f, at |-> now]
     IN  \/ TooMuchMemory /\ UNCHANGED listVars
         \/ /\ ~TooMuchMemory
            /\ queue' = Append(queue, n)
            /\ memory' = (memory + BytesOf(n)) % CountRange
            /\ numWaitingMsgs' = numWaitingMsgs + 1
  /\ UNCHANGED <<now, sent>>

----------------------------------------------------------------------------
(* checkMessages.                                                          *)

\* abs((int32_t)a - (int32_t)b): the argument of abs is an int, 16 bits wide.
\* The absolute value of the least int is itself.
AbsInt(d) ==
  LET u == d % IntRange
  IN  IF u < IntRange \div 2 THEN u
      ELSE IF u = IntRange \div 2 THEN -u ELSE IntRange - u

AnyTime(a, b)    == TRUE
closeTimes(a, b) == AbsInt(b - a) < CloseTime

IsCopy(n, first) == CrcOfMsg[Text(n)] = CrcOfMsg[Text(first)] /\ closeTimes(first.at, n.at)

\* The sequence s without its elements at the places in gone
Without(s, gone) ==
  LET kept[i \in 0 .. Len(s)] ==
        IF i = 0 THEN <<>>
        ELSE IF i \in gone THEN kept[i - 1] ELSE Append(kept[i - 1], s[i])
  IN  kept[Len(s)]

Taken  == {1} \cup {i \in 2 .. Len(queue) : IsCopy(queue[i], queue[1])}
Others == Without(queue, Taken)

\* The nodes that are counted back; without the copies; and with the first as
\* a copy of itself.
FirstAlone == 1
Freed      == Len(queue) - Len(Others)

\* One iteration of the loop, and handleMsg: the first node and its copies are
\* freed, and the length of the first is subtracted for each of them.
checkMessages ==
  /\ queue # <<>>
  /\ queue' = Others
  /\ memory' = (memory - Freed * BytesOf(Head(queue))) % CountRange
  /\ numWaitingMsgs' = numWaitingMsgs - Freed
  /\ UNCHANGED <<now, sent, copies>>

----------------------------------------------------------------------------
QueueNext ==
  \/ \E m \in Messages : Send(m)
  \/ Tick
  \/ \E f \in Frames : addMsgToMsgQueue(f)
  \/ checkMessages

QueueSpec == QueueInit /\ [][QueueNext]_queueVars

----------------------------------------------------------------------------
(* Properties.                                                             *)

Total(w) ==
  LET upTo[i \in 0 .. Len(w)] == IF i = 0 THEN 0 ELSE upTo[i - 1] + w[i]
  IN  upTo[Len(w)]

Consumed == Total([i \in 1 .. Len(queue) |-> BytesOf(queue[i])])

\* The two counts are those of the list, whatever is added between the
\* iterations of checkMessages: memory that is freed is counted back.
CountsExact == memory = Consumed /\ numWaitingMsgs = Len(queue)

\* The messages that the CRC does not tell apart have the same length; and what
\* the list needs in order to implement Mailbox: the CRC tells texts apart, the
\* copies of a frame arrive within the window of checkMessages, frames with the
\* same text are further apart than it, as texts of four bytes and more are, and
\* a message is handled at an age of which abs cuts nothing.
LengthsAgree == \A m, n \in Messages : CrcOfMsg[m] = CrcOfMsg[n] => Length[m] = Length[n]
TextsApart ==
  /\ \A m, n \in Messages : CrcOfMsg[m] = CrcOfMsg[n] => m = n
  /\ Spread < CloseTime /\ CloseTime + Spread <= FrameTime
  /\ MaxAge < IntRange \div 2

\* When the first copy of frame f that waits in the list arrived.
FirstHeard(f) ==
  LET waiting == {i \in 1 .. Len(queue) : queue[i].frame = f}
  IN  IF waiting = {} THEN Never
      ELSE queue[CHOOSE i \in waiting : \A j \in waiting : i <= j].at

Box == INSTANCE Mailbox WITH
  Frames <- Frames, None <- Never, heard <- [f \in Frames |-> FirstHeard(f)]

\* The list implements Mailbox: the copies of a frame that wait together are
\* handled once, frames with the same text are each handled, and in order.
ImplementsMailbox == Box!Spec

=============================================================================
