----------------------------- MODULE Rnb_proofs -----------------------------
(***************************************************************************)
(* Range and bearing, for any droplets and bounds: hpIrBlock_bm is never   *)
(* taken from its user, and, when no measurement fails the error check,    *)
(* the flag protects the exchange it was taken for.                        *)
(***************************************************************************)
EXTENDS Rnb, SequenceTheorems, TLAPS

----------------------------------------------------------------------------
(* Types.                                                                  *)

\* Every step of a context leaves pc with its type.
LEMMA GoesType ==
  ASSUME RnbTypeOK, NEW c \in RnbContexts, NEW s, NEW t \in Steps, GoesOn(c, s, t),
         c = "main" => t \in {"idle"} \union Sending
  PROVE  pc' \in [RnbContexts -> Steps] /\ pc'["main"] \in {"idle"} \union Sending
BY DEF RnbTypeOK, GoesOn, RnbContexts

\* The flag is free, nothing is scheduled and the buffer is empty at the start.
LEMMA TypeInit == RnbInit => RnbTypeOK
<1> SUFFICES ASSUME RnbInit PROVE RnbTypeOK
  OBVIOUS
<1>1. pc \in [RnbContexts -> Steps] /\ pc["main"] = "idle"
  BY DEF RnbInit, RnbContexts, Steps
<1>2. measQueue \in Seq(Measurements) /\ Len(measQueue) <= MaxMeas
  <2>1. measQueue = <<>> /\ Len(measQueue) = 0
    BY DEF RnbInit
  <2> QED BY <2>1, RnbAssumption
<1> QED BY <1>1, <1>2 DEF RnbInit, RnbTypeOK

\* The steps of broadcastRnbData keep the types.
LEMMA TypeBroadcast ==
  ASSUME RnbTypeOK, NEW c \in RnbContexts, Begin(c) \/ Broadcast(c)
  PROVE  RnbTypeOK'
<1>1. CASE Begin(c)
  BY <1>1, GoesType DEF Begin, RnbTypeOK, Steps, Sending
<1>2. CASE SendRnb(c)
  BY <1>2, GoesType DEF SendRnb, RnbTypeOK, Steps, Sending
<1>3. CASE Block(c)
  BY <1>3, GoesType DEF Block, RnbTypeOK, Steps, Sending
<1>4. CASE EndBlast(c)
  BY <1>4, GoesType DEF EndBlast, RnbTypeOK, Steps, Sending
<1>5. CASE Release(c)
  BY <1>5, GoesType DEF Release, RnbTypeOK, Steps, Sending
<1> QED BY <1>1, <1>2, <1>3, <1>4, <1>5 DEF Broadcast

\* The steps of useRnbData keep the types; Add keeps the limit by its test.
LEMMA TypeUse ==
  ASSUME RnbTypeOK, StartUse \/ useRnbData
  PROVE  RnbTypeOK'
<1>1. CASE StartUse
  BY <1>1, GoesType DEF StartUse, RnbTypeOK, Steps, Using, RnbContexts
<1>2. CASE Process
  BY <1>2, GoesType DEF Process, RnbTypeOK, Steps, Using, RnbContexts
<1>3. CASE CheckRange
  BY <1>3, GoesType DEF CheckRange, RnbTypeOK, Steps, Using, RnbContexts
<1>4. CASE Add
  <2>1. pc' \in [RnbContexts -> Steps] /\ pc'["main"] \in {"idle"} \union Sending
    BY <1>4, GoesType DEF Add, Steps, Using, RnbContexts
  <2>2. measQueue' \in Seq(Measurements) /\ Len(measQueue') <= MaxMeas
    <3>1. [id |-> rnbCmdID, from |-> read] \in Measurements
      BY DEF RnbTypeOK, Measurements
    <3> QED BY <3>1, <1>4, RnbAssumption DEF Add, Room, RnbTypeOK
  <2> QED BY <1>4, <2>1, <2>2 DEF Add, RnbTypeOK
<1>5. CASE Done
  BY <1>5, GoesType DEF Done, RnbTypeOK, Steps, RnbContexts
<1> QED BY <1>1, <1>2, <1>3, <1>4, <1>5 DEF useRnbData

\* Every step keeps the types.
LEMMA TypeNext == RnbTypeOK /\ [RnbNext]_rnbVars => RnbTypeOK'
<1> SUFFICES ASSUME RnbTypeOK, [RnbNext]_rnbVars
             PROVE  RnbTypeOK'
  OBVIOUS
<1>1. CASE \E c \in RnbContexts : Begin(c) \/ Broadcast(c)
  BY <1>1, TypeBroadcast
<1>2. CASE FrameSent
  BY <1>2 DEF FrameSent, RnbTypeOK
<1>3. ASSUME NEW s \in Droplets, receivedRnbCmd(s)
      PROVE  RnbTypeOK'
  BY <1>3 DEF receivedRnbCmd, RnbTypeOK
<1>4. CASE StartUse \/ useRnbData
  BY <1>4, TypeUse
<1>5. CASE StartBaseline
  BY <1>5, GoesType DEF StartBaseline, RnbTypeOK, Steps, RnbContexts
<1>6. CASE EndBaseline
  BY <1>6, GoesType DEF EndBaseline, RnbTypeOK, Steps, RnbContexts
<1>7. CASE checkMeasurements
  <2>1. measQueue' \in Seq(Measurements) /\ Len(measQueue') <= MaxMeas
    BY <1>7, HeadTailProperties, RnbAssumption DEF checkMeasurements, RnbTypeOK
  <2> QED BY <1>7, <2>1, GoesType DEF checkMeasurements, RnbTypeOK, Steps, RnbContexts
<1>8. CASE UNCHANGED rnbVars
  BY <1>8 DEF rnbVars, RnbTypeOK
<1> QED BY <1>1, <1>2, <1>3, <1>4, <1>5, <1>6, <1>7, <1>8 DEF RnbNext

\* The variables keep their types and the buffer of measurements its limit.
THEOREM RnbTypeCorrect == RnbSpec => []RnbTypeOK
BY TypeInit, TypeNext, PTL DEF RnbSpec

----------------------------------------------------------------------------
(* hpIrBlock_bm.                                                           *)

\* BlockHeld is not inductive: a task that has announced its blast must not find
\* the main program in one.
BlockInv ==
  /\ BlockHeld
  /\ pc["task"] = "block" => pc["main"] # "blast"

\* A step of one context leaves the other where it is.
LEMMA GoesOne ==
  ASSUME RnbTypeOK, NEW s, NEW t, GoesOn("task", s, t)
  PROVE  pc["task"] = s /\ pc'["task"] = t /\ pc'["main"] = pc["main"]
BY DEF RnbTypeOK, GoesOn, RnbContexts

\* What useRnbData leaves alone.
LEMMA UseStep ==
  ASSUME RnbTypeOK, StartUse \/ useRnbData
  PROVE  /\ block' = block /\ frame' = frame
         /\ pc'["main"] = pc["main"]
         /\ pc["task"] \in {"idle"} \union Using /\ pc'["task"] \in {"idle"} \union Using
<1>1. CASE StartUse
  BY <1>1, GoesOne DEF StartUse, Using
<1>2. CASE Process
  BY <1>2, GoesOne DEF Process, Using
<1>3. CASE CheckRange
  BY <1>3, GoesOne DEF CheckRange, Using
<1>4. CASE Add
  BY <1>4, GoesOne DEF Add, Using
<1>5. CASE Done
  BY <1>5, GoesOne DEF Done, Using
<1> QED BY <1>1, <1>2, <1>3, <1>4, <1>5 DEF useRnbData

\* Every kind of step keeps BlockInv.
LEMMA BlockNext == RnbTypeOK /\ BlockInv /\ [RnbNext]_rnbVars => BlockInv'
<1> SUFFICES ASSUME RnbTypeOK, BlockInv, [RnbNext]_rnbVars
             PROVE  BlockInv'
  OBVIOUS
<1> USE DEF BlockInv, BlockHeld, RnbContexts
<1>1. ASSUME NEW c \in RnbContexts, Begin(c) \/ Broadcast(c)
      PROVE  BlockInv'
  BY <1>1 DEF RnbTypeOK, Begin, Broadcast, SendRnb, Block, EndBlast, Release, GoesOn, Occupied, Sending
<1>2. CASE FrameSent
  BY <1>2 DEF FrameSent
<1>3. ASSUME NEW s \in Droplets, receivedRnbCmd(s)
      PROVE  BlockInv'
  BY <1>3 DEF receivedRnbCmd
<1>4. CASE StartUse \/ useRnbData
  BY <1>4, UseStep DEF Using
<1>5. CASE StartBaseline \/ EndBaseline
  BY <1>5 DEF RnbTypeOK, StartBaseline, EndBaseline, GoesOn, Occupied, Sending
<1>6. CASE checkMeasurements
  BY <1>6 DEF RnbTypeOK, checkMeasurements, GoesOn
<1>7. CASE UNCHANGED rnbVars
  BY <1>7 DEF rnbVars
<1> QED BY <1>1, <1>2, <1>3, <1>4, <1>5, <1>6, <1>7 DEF RnbNext

\* For any droplets, and also when measurements fail the check or find the task
\* table full: the block is set exactly while a context uses the IR hardware.
THEOREM BlockIsHeld == RnbSpec => []BlockHeld
<1>1. RnbInit => BlockInv
  BY DEF RnbInit, BlockInv, BlockHeld, RnbContexts
<1> QED BY <1>1, BlockNext, RnbTypeCorrect, PTL DEF RnbSpec, BlockInv

-----------------------------------------------------------------------------
(***************************************************************************)
(* When no measurement fails the check of checkErrorAndPrint the flag      *)
(* protects the exchange it was taken for: the measurements are attributed *)
(* to the droplet they were made of, and range and bearing implements      *)
(* RnbExchange.  The run of Rnb_attributed.cfg shows that the assumption   *)
(* is needed.                                                              *)
(***************************************************************************)

\* A measurement was made and useRnbData is not done with it.
Measured == uses > 0 \/ pc["task"] \in Using

\* The readings useRnbData works on.
ReadingsInv ==
  /\ uses = 1 \/ pc["task"] \in {"process", "range", "add"}
       => rnbCmdID \in Droplets /\ bright = rnbCmdID
  /\ pc["task"] = "process" => read = {}
  /\ pc["task"] \in {"range", "add"} => read = {rnbCmdID}

\* Whoever is in an exchange holds the flag, and only one is.
OwnerInv ==
  /\ uses \in {0, 1}
  /\ Broadcasting \/ Measured => flag
  /\ Measured => ~Broadcasting
  /\ ~(pc["main"] \in Sending /\ pc["task"] \in Sending)
  /\ uses = 1 => pc["task"] \notin Using

ExchangeInv == RnbTypeOK /\ OwnerInv /\ ReadingsInv /\ Attributed

----------------------------------------------------------------------------
(* Steps of the contexts.                                                  *)

\* A step of the main program, which goes on only while no task runs.
LEMMA GoesMain ==
  ASSUME RnbTypeOK, NEW s, NEW t, GoesOn("main", s, t)
  PROVE  /\ pc["main"] = s /\ pc'["main"] = t
         /\ pc["task"] = "idle" /\ pc'["task"] = "idle"
BY DEF RnbTypeOK, GoesOn, RnbContexts

\* A droplet broadcasts if one of its two contexts does.
LEMMA BroadcastingIs ==
  Broadcasting <=> pc["main"] \in Sending \/ pc["task"] \in Sending
BY DEF Broadcasting, RnbContexts

----------------------------------------------------------------------------
(* The invariant.                                                          *)

\* Begin, whichever context executes it.
LEMMA OwnerBegin ==
  ASSUME ExchangeInv, NEW c \in RnbContexts, Begin(c)
  PROVE  OwnerInv'
<1>1. ~flag /\ flag' /\ uses' = uses
  BY DEF Begin
<1>2. ~Broadcasting /\ ~Measured
  BY <1>1 DEF ExchangeInv, OwnerInv
<1>3. CASE c = "main"
  <2>1. pc'["main"] = "send" /\ pc'["task"] = "idle"
    BY <1>3, GoesMain DEF Begin, ExchangeInv
  <2> QED BY <1>1, <1>2, <2>1 DEF OwnerInv, Measured, Broadcasting, RnbContexts, Sending, Using, ExchangeInv
<1>4. CASE c = "task"
  <2>1. pc'["task"] = "send" /\ pc'["main"] = pc["main"]
    BY <1>4, GoesOne DEF Begin, ExchangeInv
  <2> QED BY <1>1, <1>2, <2>1 DEF OwnerInv, Measured, Broadcasting, RnbContexts, Sending, Using, ExchangeInv
<1> QED BY <1>3, <1>4 DEF RnbContexts

\* The steps of a broadcast before its last.
LEMMA OwnerSending ==
  ASSUME ExchangeInv, NEW c \in RnbContexts, SendRnb(c) \/ Block(c) \/ EndBlast(c)
  PROVE  OwnerInv'
<1>1. flag' = flag /\ uses' = uses
  BY DEF SendRnb, Block, EndBlast
<1>2. PICK s \in Sending, t \in Sending : GoesOn(c, s, t)
  BY DEF SendRnb, Block, EndBlast, Sending
<1>3. CASE c = "main"
  <2>1. /\ pc["main"] = s /\ pc'["main"] = t
        /\ pc["task"] = "idle" /\ pc'["task"] = "idle"
    BY <1>2, <1>3, GoesMain DEF ExchangeInv
  <2> QED BY <1>1, <2>1 DEF OwnerInv, Measured, Broadcasting, RnbContexts, Sending, Using, ExchangeInv
<1>4. CASE c = "task"
  <2>1. pc["task"] = s /\ pc'["task"] = t /\ pc'["main"] = pc["main"]
    BY <1>2, <1>4, GoesOne DEF ExchangeInv
  <2> QED BY <1>1, <2>1 DEF OwnerInv, Measured, Broadcasting, RnbContexts, Sending, Using, ExchangeInv
<1> QED BY <1>3, <1>4 DEF RnbContexts

\* Release: the flag is given back by its owner, the last exchange.
LEMMA OwnerRelease ==
  ASSUME ExchangeInv, NEW c \in RnbContexts, Release(c)
  PROVE  OwnerInv' /\ ~Broadcasting'
<1>1. ~flag' /\ uses' = uses
  BY DEF Release
<1>2. CASE c = "main"
  <2>1. /\ pc["main"] = "release" /\ pc'["main"] = "idle"
        /\ pc["task"] = "idle" /\ pc'["task"] = "idle"
    BY <1>2, GoesMain DEF Release, ExchangeInv
  <2> QED BY <1>1, <2>1 DEF OwnerInv, Measured, Broadcasting, RnbContexts, Sending, Using, ExchangeInv
<1>3. CASE c = "task"
  <2>1. pc["task"] = "release" /\ pc'["task"] = "idle" /\ pc'["main"] = pc["main"]
    BY <1>3, GoesOne DEF Release, ExchangeInv
  <2> QED BY <1>1, <2>1 DEF OwnerInv, Measured, Broadcasting, RnbContexts, Sending, Using, ExchangeInv
<1> QED BY <1>2, <1>3 DEF RnbContexts

\* The steps of broadcastRnbData are not those of a task that works on readings.
LEMMA ReadingsBroadcast ==
  ASSUME ExchangeInv, NEW c \in RnbContexts, Begin(c) \/ Broadcast(c)
  PROVE  ReadingsInv' /\ Attributed'
<1>1. /\ uses' = uses /\ bright' = bright /\ rnbCmdID' = rnbCmdID
      /\ read' = read /\ measQueue' = measQueue
  BY DEF Begin, Broadcast, SendRnb, Block, EndBlast, Release
<1>2. PICK s \in {"idle"} \union Sending, t \in {"idle"} \union Sending : GoesOn(c, s, t)
  BY DEF Begin, Broadcast, SendRnb, Block, EndBlast, Release, Sending
<1>3. pc'["task"] \in {"idle"} \union Sending
  BY <1>2, GoesMain, GoesOne DEF ExchangeInv, RnbContexts
<1> QED BY <1>1, <1>3 DEF ExchangeInv, ReadingsInv, Attributed, Sending

\* A received command finds the flag free, so no exchange, and takes it.
LEMMA ExchangeReceived ==
  ASSUME ExchangeInv, NEW s \in Droplets, receivedRnbCmd(s)
  PROVE  OwnerInv' /\ ReadingsInv' /\ Attributed'
<1>1. ~flag /\ flag' /\ pc' = pc /\ rnbCmdID' = s /\ bright' = s /\ measQueue' = measQueue
  BY DEF receivedRnbCmd, Accepts
<1>2. ~Broadcasting /\ ~Measured
  BY <1>1 DEF ExchangeInv, OwnerInv
<1>3. uses = 0 /\ uses' \in {0, 1}
  BY <1>2 DEF receivedRnbCmd, ExchangeInv, OwnerInv, Measured
<1>4. OwnerInv'
  BY <1>1, <1>2, <1>3 DEF ExchangeInv, OwnerInv, Measured, Broadcasting
<1>5. ReadingsInv' /\ Attributed'
  BY <1>1, <1>2 DEF ReadingsInv, Measured, Using, ExchangeInv, Attributed
<1> QED BY <1>4, <1>5

\* The steps of useRnbData other than Done, if every measurement passes the check.
LEMMA OwnerUse ==
  ASSUME ~Noisy, ExchangeInv, StartUse \/ Process \/ CheckRange \/ Add
  PROVE  OwnerInv'
<1>1. flag' = flag
  BY DEF StartUse, Process, CheckRange, Add
<1>2. pc'["task"] \in Using /\ pc'["main"] = pc["main"]
  BY GoesOne DEF StartUse, Process, CheckRange, Add, Using, ExchangeInv
<1>3. Measured /\ uses' = 0
  <2>1. CASE StartUse
    BY <2>1 DEF StartUse, ExchangeInv, OwnerInv, Measured
  <2>2. CASE Process \/ CheckRange \/ Add
    BY <2>2, GoesOne DEF Process, CheckRange, Add, Using, ExchangeInv, OwnerInv, Measured
  <2> QED BY <2>1, <2>2
<1>4. flag /\ pc["main"] \notin Sending
  BY <1>3, BroadcastingIs DEF ExchangeInv, OwnerInv
<1> QED BY <1>1, <1>2, <1>3, <1>4 DEF OwnerInv, Measured, Broadcasting, RnbContexts, Sending, Using

\* Their readings are those of the droplet in rnbCmdID.
LEMMA ReadingsUse ==
  ASSUME ExchangeInv, StartUse \/ Process \/ CheckRange
  PROVE  ReadingsInv' /\ Attributed'
<1>1. measQueue' = measQueue /\ rnbCmdID' = rnbCmdID /\ bright' = bright
  BY DEF StartUse, Process, CheckRange
<1>2. CASE StartUse
  <2>1. uses = 1 /\ uses' = 0 /\ read' = {} /\ pc'["task"] = "process"
    BY <1>2, GoesOne DEF StartUse, ExchangeInv, OwnerInv
  <2> QED BY <1>1, <2>1 DEF ReadingsInv, Attributed, ExchangeInv
<1>3. CASE Process \/ CheckRange
  <2>1. /\ uses' = uses /\ read' = read \union {bright}
        /\ pc["task"] \in {"process", "range"} /\ pc'["task"] \in {"range", "add", "done"}
    BY <1>3, GoesOne DEF Process, CheckRange, ExchangeInv
  <2>2. uses # 1
    BY <2>1 DEF ExchangeInv, OwnerInv, Using
  <2>3. bright = rnbCmdID /\ rnbCmdID \in Droplets /\ read \subseteq {rnbCmdID}
    BY <2>1 DEF ExchangeInv, ReadingsInv
  <2> QED BY <1>1, <2>1, <2>2, <2>3 DEF ReadingsInv, Attributed, ExchangeInv
<1> QED BY <1>2, <1>3

\* addMeasToMeasQueue: the new measurement is attributed like the others.
LEMMA ReadingsAdd ==
  ASSUME ExchangeInv, Add
  PROVE  ReadingsInv' /\ Attributed'
<1>1. /\ pc["task"] = "add" /\ pc'["task"] = "done"
      /\ uses' = uses /\ rnbCmdID' = rnbCmdID /\ bright' = bright /\ read' = read
  BY GoesOne DEF Add, ExchangeInv
<1>2. ReadingsInv'
  BY <1>1 DEF ExchangeInv, ReadingsInv, OwnerInv, Using
<1>3. read = {rnbCmdID}
  BY <1>1 DEF ExchangeInv, ReadingsInv
<1>4. CASE ~Room
  BY <1>2, <1>4 DEF Add, Attributed, ExchangeInv
<1>5. CASE Room
  <2> DEFINE m == [id |-> rnbCmdID, from |-> read]
  <2>1. m \in Measurements /\ measQueue \in Seq(Measurements) /\ measQueue' = Append(measQueue, m)
    BY <1>5 DEF Add, ExchangeInv, RnbTypeOK, Measurements
  <2>2. m.from = {m.id}
    BY <1>3
  <2> HIDE DEF m
  <2>3. /\ Len(measQueue') = Len(measQueue) + 1 /\ measQueue'[Len(measQueue) + 1] = m
        /\ \A i \in 1 .. Len(measQueue) : measQueue'[i] = measQueue[i]
    BY <2>1
  <2>4. \A i \in 1 .. Len(measQueue') : i \in 1 .. Len(measQueue) \/ i = Len(measQueue) + 1
    BY <2>1, <2>3
  <2> QED BY <1>2, <2>2, <2>3, <2>4 DEF Attributed, ExchangeInv
<1> QED BY <1>2, <1>4, <1>5

\* The end of useRnbData: the flag is given back by its owner.
LEMMA ExchangeDone ==
  ASSUME ExchangeInv, Done
  PROVE  OwnerInv' /\ ReadingsInv' /\ Attributed'
<1>1. /\ pc["task"] = "done" /\ pc'["task"] = "idle" /\ pc'["main"] = pc["main"]
      /\ uses' = uses /\ measQueue' = measQueue
  BY GoesOne DEF Done, ExchangeInv
<1>2. uses = 0 /\ pc["main"] \notin Sending
  BY <1>1, BroadcastingIs DEF ExchangeInv, OwnerInv, Measured, Using
<1>3. OwnerInv'
  BY <1>1, <1>2 DEF OwnerInv, Measured, Broadcasting, RnbContexts, Sending, Using
<1> QED BY <1>1, <1>2, <1>3 DEF ReadingsInv, Attributed, ExchangeInv

\* The other steps touch neither the flag nor the readings.
LEMMA ExchangeRest ==
  ASSUME ExchangeInv,
         FrameSent \/ StartBaseline \/ EndBaseline \/ checkMeasurements \/ UNCHANGED rnbVars
  PROVE  OwnerInv' /\ ReadingsInv' /\ Attributed'
<1>1. /\ flag' = flag /\ uses' = uses
      /\ rnbCmdID' = rnbCmdID /\ bright' = bright /\ read' = read
  BY DEF FrameSent, StartBaseline, EndBaseline, checkMeasurements, rnbVars
<1>2. /\ pc'["main"] = pc["main"]
      /\ \/ pc'["task"] = pc["task"]
         \/ {pc["task"], pc'["task"]} = {"idle", "baseline"}
  BY GoesOne, GoesMain
     DEF FrameSent, StartBaseline, EndBaseline, checkMeasurements, rnbVars, ExchangeInv
<1>3. Broadcasting' = Broadcasting /\ Measured' = Measured
  BY <1>1, <1>2, BroadcastingIs DEF Broadcasting, RnbContexts, Measured, Sending, Using
<1>4. OwnerInv' /\ ReadingsInv'
  BY <1>1, <1>2, <1>3 DEF ExchangeInv, OwnerInv, ReadingsInv, Sending, Using
<1>5. CASE measQueue' = measQueue
  BY <1>4, <1>5 DEF Attributed, ExchangeInv
<1>6. CASE checkMeasurements
  <2>1. /\ measQueue \in Seq(Measurements) /\ measQueue # <<>> /\ measQueue' = Tail(measQueue)
    BY <1>6 DEF checkMeasurements, ExchangeInv, RnbTypeOK
  <2>2. /\ Len(measQueue') = Len(measQueue) - 1 /\ Len(measQueue) \in Nat
        /\ \A i \in 1 .. Len(measQueue') : measQueue'[i] = measQueue[i + 1]
    BY <2>1, HeadTailProperties
  <2> QED BY <1>4, <2>2 DEF Attributed, ExchangeInv
<1> QED BY <1>4, <1>5, <1>6
     DEF FrameSent, StartBaseline, EndBaseline, checkMeasurements, rnbVars

\* Every step keeps the invariant.
LEMMA ExchangeNext ==
  ASSUME ~Noisy, ExchangeInv, [RnbNext]_rnbVars
  PROVE  ExchangeInv'
<1>1. RnbTypeOK'
  BY TypeNext DEF ExchangeInv
<1>2. ASSUME NEW c \in RnbContexts, Begin(c) \/ Broadcast(c)
      PROVE  OwnerInv' /\ ReadingsInv' /\ Attributed'
  BY <1>2, OwnerBegin, OwnerSending, OwnerRelease, ReadingsBroadcast DEF Broadcast
<1>3. ASSUME NEW s \in Droplets, receivedRnbCmd(s)
      PROVE  OwnerInv' /\ ReadingsInv' /\ Attributed'
  BY <1>3, ExchangeReceived
<1>4. CASE StartUse \/ useRnbData
  BY <1>1, <1>4, OwnerUse, ReadingsUse, ReadingsAdd, ExchangeDone DEF useRnbData, ExchangeInv
<1>5. CASE FrameSent \/ StartBaseline \/ EndBaseline \/ checkMeasurements \/ UNCHANGED rnbVars
  BY <1>1, <1>5, ExchangeRest DEF ExchangeInv
<1> QED BY <1>1, <1>2, <1>3, <1>4, <1>5 DEF RnbNext, ExchangeInv

\* No exchange is going on and nothing is measured at the start.
LEMMA ExchangeInit == RnbInit => ExchangeInv
<1> SUFFICES ASSUME RnbInit PROVE ExchangeInv
  OBVIOUS
<1>1. OwnerInv /\ ReadingsInv
  BY DEF RnbInit, OwnerInv, ReadingsInv, Measured, Broadcasting, RnbContexts, Sending, Using
<1>2. Attributed
  BY DEF RnbInit, Attributed
<1> QED BY <1>1, <1>2, TypeInit DEF ExchangeInv

\* Unless a measurement fails the error check, every measurement that is given to
\* the program was worked out from the blast of the droplet it names, however
\* commands, broadcasts and the task interrupt one another.
THEOREM MeasurementsAttributed ==
  ASSUME ~Noisy
  PROVE  RnbSpec => []Attributed
<1>1. ExchangeInv /\ [RnbNext]_rnbVars => ExchangeInv'
  BY ExchangeNext
<1> QED BY <1>1, ExchangeInit, PTL DEF RnbSpec, ExchangeInv

----------------------------------------------------------------------------
(* The flag is not left behind.                                            *)

\* While the flag is set, a context broadcasts or a measurement is still to be dealt
\* with: somebody is to give the flag back.
FlagOwed == flag => Broadcasting \/ Measured

\* Every step keeps that.
LEMMA OwedNext ==
  ASSUME ~TableFull, RnbTypeOK, FlagOwed, [RnbNext]_rnbVars
  PROVE  FlagOwed'
<1>1. ASSUME NEW c \in RnbContexts, Begin(c) \/ SendRnb(c) \/ Block(c) \/ EndBlast(c)
      PROVE  FlagOwed'
  <2>1. PICK s \in Steps, t \in Sending : GoesOn(c, s, t)
    BY <1>1 DEF Begin, SendRnb, Block, EndBlast, Sending, Steps
  <2>2. pc'[c] \in Sending
    BY <2>1 DEF RnbTypeOK, GoesOn
  <2> QED BY <2>2 DEF FlagOwed, Broadcasting
<1>2. ASSUME NEW c \in RnbContexts, Release(c)
      PROVE  FlagOwed'
  BY <1>2 DEF Release, FlagOwed
<1>3. ASSUME NEW s \in Droplets, receivedRnbCmd(s)
      PROVE  FlagOwed'
  BY <1>3 DEF RnbTypeOK, receivedRnbCmd, FlagOwed, Measured
<1>4. CASE StartUse \/ Process \/ CheckRange \/ Add
  <2>1. pc'["task"] \in Using
    BY <1>4, GoesOne DEF StartUse, Process, CheckRange, Add, Using
  <2> QED BY <2>1 DEF FlagOwed, Measured
<1>5. CASE Done
  BY <1>5 DEF Done, FlagOwed
<1>6. CASE FrameSent \/ StartBaseline \/ EndBaseline \/ checkMeasurements \/ UNCHANGED rnbVars
  <2>1. flag' = flag /\ uses' = uses
    BY <1>6 DEF FrameSent, StartBaseline, EndBaseline, checkMeasurements, rnbVars
  <2>2. /\ pc'["main"] = pc["main"]
        /\ \/ pc'["task"] = pc["task"]
           \/ {pc["task"], pc'["task"]} = {"idle", "baseline"}
    BY <1>6, GoesOne, GoesMain DEF FrameSent, StartBaseline, EndBaseline, checkMeasurements, rnbVars
  <2>3. Broadcasting' = Broadcasting /\ Measured' = Measured
    BY <2>1, <2>2, BroadcastingIs DEF Broadcasting, RnbContexts, Measured, Sending, Using
  <2> QED BY <2>1, <2>3 DEF FlagOwed
<1> QED BY <1>1, <1>2, <1>3, <1>4, <1>5, <1>6 DEF RnbNext, Broadcast, useRnbData

\* The flag is never left behind, also when measurements fail the check and the flag
\* is given back too early, or twice: broadcastRnbData, receivedRnbCmd and the exits
\* of useRnbData leave no state in which nobody gives it back, as long as the task
\* table has room for useRnbData.
THEOREM FlagIsOwed ==
  ASSUME ~TableFull
  PROVE  RnbSpec => []FlagOwed
<1>1. RnbInit => FlagOwed
  BY DEF RnbInit, FlagOwed
<1>2. RnbTypeOK /\ FlagOwed /\ [RnbNext]_rnbVars => FlagOwed'
  BY OwedNext
<1> QED BY <1>1, <1>2, RnbTypeCorrect, PTL DEF RnbSpec

----------------------------------------------------------------------------
(* The refinement.                                                         *)

Ids     == Droplets \union {NoDroplet}
Named(q) == [i \in 1 .. Len(q) |-> q[i].id]
Reports  == Named(measQueue)

\* The reports are a sequence as long as the list of measurements.
LEMMA NamedFacts ==
  ASSUME NEW q \in Seq(Measurements)
  PROVE  /\ Named(q) \in Seq(Ids) /\ Len(Named(q)) = Len(q) /\ Len(q) \in Nat
         /\ \A i \in 1 .. Len(q) : Named(q)[i] = q[i].id
<1>1. Len(q) \in Nat
  OBVIOUS
<1>2. ASSUME NEW i \in 1 .. Len(q)
      PROVE  q[i].id \in Ids
  <2>1. q[i] \in Measurements
    BY ElementOfSeq
  <2> QED BY <2>1 DEF Measurements, Ids
<1>3. Named(q) \in [1 .. Len(q) -> Ids]
  BY <1>2 DEF Named
<1> QED BY <1>1, <1>3 DEF Named

\* A measurement appended to the list is a report appended.
LEMMA ReportsAdd ==
  ASSUME RnbTypeOK, RnbTypeOK', Add, Room
  PROVE  Reports' = Append(Reports, rnbCmdID)
<1> DEFINE m == [id |-> rnbCmdID, from |-> read]
<1>1. m \in Measurements /\ m.id = rnbCmdID /\ rnbCmdID \in Ids
  BY DEF RnbTypeOK, Measurements, Ids
<1>2. measQueue \in Seq(Measurements) /\ measQueue' = Append(measQueue, m)
  BY DEF Add, RnbTypeOK
<1> HIDE DEF m
<1>3. /\ Len(measQueue') = Len(measQueue) + 1 /\ measQueue'[Len(measQueue) + 1] = m
      /\ \A i \in 1 .. Len(measQueue) : measQueue'[i] = measQueue[i]
  BY <1>1, <1>2
<1>4. /\ Reports' \in Seq(Ids) /\ Len(Reports') = Len(measQueue')
      /\ \A i \in 1 .. Len(measQueue') : Reports'[i] = measQueue'[i].id
  BY NamedFacts DEF Reports, RnbTypeOK
<1>5. /\ Reports \in Seq(Ids) /\ Len(Reports) = Len(measQueue) /\ Len(measQueue) \in Nat
      /\ \A i \in 1 .. Len(measQueue) : Reports[i] = measQueue[i].id
  BY NamedFacts DEF Reports, RnbTypeOK
<1> DEFINE t == Append(Reports, rnbCmdID)
<1>6. /\ t \in Seq(Ids) /\ Len(t) = Len(measQueue) + 1 /\ t[Len(measQueue) + 1] = rnbCmdID
      /\ \A i \in 1 .. Len(measQueue) : t[i] = Reports[i]
  BY <1>1, <1>5
<1> HIDE DEF t
<1>7. \A i \in 1 .. Len(measQueue) + 1 : Reports'[i] = t[i]
  <2> TAKE i \in 1 .. Len(measQueue) + 1
  <2>1. CASE i \in 1 .. Len(measQueue)
    BY <2>1, <1>3, <1>4, <1>5, <1>6
  <2>2. CASE i = Len(measQueue) + 1
    BY <2>2, <1>1, <1>3, <1>4, <1>5, <1>6
  <2> QED BY <2>1, <2>2, <1>5
<1>8. Reports' = t
  BY <1>3, <1>4, <1>6, <1>7, SeqEqual
<1> QED BY <1>8 DEF t

\* A measurement taken from the list is the first report taken.
LEMMA ReportsTake ==
  ASSUME RnbTypeOK, RnbTypeOK', checkMeasurements
  PROVE  Reports # <<>> /\ Reports' = Tail(Reports)
<1>1. measQueue \in Seq(Measurements) /\ measQueue # <<>> /\ measQueue' = Tail(measQueue)
  BY DEF checkMeasurements, RnbTypeOK
<1>2. /\ Len(measQueue') = Len(measQueue) - 1 /\ Len(measQueue) \in Nat \ {0}
      /\ \A i \in 1 .. Len(measQueue') : measQueue'[i] = measQueue[i + 1]
  BY <1>1, HeadTailProperties, EmptySeq
<1>3. /\ Reports \in Seq(Ids) /\ Len(Reports) = Len(measQueue)
      /\ \A i \in 1 .. Len(measQueue) : Reports[i] = measQueue[i].id
  BY NamedFacts DEF Reports, RnbTypeOK
<1>4. /\ Reports' \in Seq(Ids) /\ Len(Reports') = Len(measQueue')
      /\ \A i \in 1 .. Len(measQueue') : Reports'[i] = measQueue'[i].id
  BY NamedFacts DEF Reports, RnbTypeOK
<1>5. Reports # <<>>
  BY <1>2, <1>3
<1>6. /\ Tail(Reports) \in Seq(Ids) /\ Len(Tail(Reports)) = Len(measQueue) - 1
      /\ \A i \in 1 .. Len(measQueue) - 1 : Tail(Reports)[i] = Reports[i + 1]
  BY <1>3, <1>5, HeadTailProperties
<1>7. \A i \in 1 .. Len(measQueue') : Reports'[i] = Tail(Reports)[i]
  BY <1>2, <1>3, <1>4, <1>6
<1>8. Reports' = Tail(Reports)
  BY <1>2, <1>4, <1>6, <1>7, SeqEqual
<1> QED BY <1>5, <1>8

\* Begin is the start of an exchange, the other steps of a broadcast but the last
\* belong to it, and Release ends it.
LEMMA BroadcastStep ==
  ASSUME ExchangeInv, ExchangeInv', NEW c \in RnbContexts, Begin(c) \/ Broadcast(c)
  PROVE  [Exchange!Next]_(Exchange!vars)
<1>1. Reports' = Reports
  BY DEF Begin, Broadcast, SendRnb, Block, EndBlast, Release, Reports, Named
<1>2. CASE Begin(c)
  <2>1. ~flag /\ pc'[c] = "send"
    BY <1>2, GoesMain, GoesOne DEF Begin, RnbContexts, ExchangeInv
  <2>2. ~Broadcasting /\ ~Measured /\ Broadcasting'
    BY <2>1 DEF ExchangeInv, OwnerInv, Broadcasting, Sending
  <2>3. Partner = NoDroplet /\ Partner' = "self"
    BY <2>2 DEF Partner, Measured
  <2> QED BY <1>1, <2>3 DEF Exchange!Next, Exchange!Start, Reports, Named
<1>3. CASE SendRnb(c) \/ Block(c) \/ EndBlast(c)
  <2>1. PICK s \in Sending, t \in Sending : GoesOn(c, s, t)
    BY <1>3 DEF SendRnb, Block, EndBlast, Sending
  <2>2. pc[c] \in Sending /\ pc'[c] \in Sending
    BY <2>1, GoesMain, GoesOne DEF RnbContexts, ExchangeInv
  <2>3. Partner = "self" /\ Partner' = "self"
    BY <2>2 DEF Partner, Broadcasting
  <2> QED BY <1>1, <2>3 DEF Exchange!vars, Reports, Named
<1>4. CASE Release(c)
  <2>1. pc[c] = "release" /\ uses' = uses
    BY <1>4 DEF Release, GoesOn
  <2>2. Broadcasting /\ ~Broadcasting'
    BY <1>4, <2>1, OwnerRelease DEF Broadcasting, Sending
  <2>3. ~flag'
    BY <1>4 DEF Release
  <2>4. ~Measured'
    BY <2>3 DEF ExchangeInv, OwnerInv
  <2>5. Partner = "self" /\ Partner' = NoDroplet
    BY <2>2, <2>4 DEF Partner, Measured
  <2>6. "self" # NoDroplet
    BY RnbAssumption
  <2> QED BY <1>1, <2>5, <2>6 DEF Exchange!Next, Exchange!End, Reports, Named
<1> QED BY <1>2, <1>3, <1>4 DEF Broadcast

\* A received command starts an exchange with its sender, if useRnbData could be
\* scheduled.
LEMMA ReceivedStep ==
  ASSUME ExchangeInv, ExchangeInv', NEW s \in Droplets, receivedRnbCmd(s)
  PROVE  [Exchange!Next]_(Exchange!vars)
<1>1. Reports' = Reports /\ rnbCmdID' = s /\ pc' = pc
  BY DEF receivedRnbCmd, Reports, Named
<1>2. ~Broadcasting /\ ~Measured
  BY DEF receivedRnbCmd, Accepts, ExchangeInv, OwnerInv
<1>3. ~Broadcasting'
  BY <1>1, <1>2 DEF Broadcasting
<1>4. Partner = NoDroplet
  BY <1>2 DEF Partner, Measured
<1>5. Partner' \in {s, NoDroplet}
  BY <1>1, <1>3 DEF Partner
<1> QED BY <1>1, <1>4, <1>5
     DEF Exchange!Next, Exchange!Start, Exchange!vars, Reports, Named

\* useRnbData goes on with the exchange, reports it or ends it.
LEMMA UseExchange ==
  ASSUME ExchangeInv, ExchangeInv', StartUse \/ useRnbData
  PROVE  [Exchange!Next]_(Exchange!vars)
<1>1. Measured
  BY GoesOne DEF StartUse, useRnbData, Process, CheckRange, Add, Done, Using, Measured, ExchangeInv
<1>2. ~Broadcasting /\ rnbCmdID' = rnbCmdID
  BY <1>1 DEF ExchangeInv, OwnerInv, StartUse, useRnbData, Process, CheckRange, Add, Done
<1>3. ~Broadcasting'
  BY <1>2, UseStep, BroadcastingIs DEF ExchangeInv, Broadcasting, RnbContexts, Sending, Using
<1>4. CASE StartUse
  <2>1. Reports' = Reports /\ uses > 0 /\ pc'["task"] = "process"
    BY <1>4, GoesOne DEF StartUse, Reports, ExchangeInv
  <2>2. Partner = rnbCmdID /\ Partner' = rnbCmdID
    BY <1>2, <1>3, <2>1 DEF Partner, Using
  <2> QED BY <2>1, <2>2 DEF Exchange!vars, Reports, Named
<1>5. CASE Process \/ CheckRange
  <2>1. /\ Reports' = Reports
        /\ pc["task"] \in {"process", "range"} /\ pc'["task"] \in {"range", "add", "done"}
    BY <1>5, GoesOne DEF Process, CheckRange, Reports, ExchangeInv
  <2>2. Partner = rnbCmdID /\ rnbCmdID # NoDroplet
    BY <1>2, <2>1, RnbAssumption DEF Partner, Using, ExchangeInv, ReadingsInv
  <2>3. Partner' \in {rnbCmdID, NoDroplet}
    BY <1>2, <1>3 DEF Partner
  <2> QED BY <2>1, <2>2, <2>3 DEF Exchange!Next, Exchange!End, Exchange!vars, Reports, Named
<1>6. CASE Add
  <2>1. pc["task"] = "add" /\ pc'["task"] = "done" /\ uses' = uses
    BY <1>6, GoesOne DEF Add, ExchangeInv
  <2>2. Partner = rnbCmdID /\ rnbCmdID \in Droplets
    BY <1>2, <2>1 DEF Partner, Using, ExchangeInv, ReadingsInv
  <2>3. Partner' = NoDroplet
    <3>1. uses' \in Nat /\ ~(uses' > 0)
      BY <2>1 DEF ExchangeInv, OwnerInv, Using
    <3> QED BY <1>3, <2>1, <3>1 DEF Partner, Using
  <2>4. CASE Room
    <3>1. Reports' = Append(Reports, Partner)
      BY <1>6, <2>2, <2>4, ReportsAdd DEF ExchangeInv
    <3> QED BY <2>2, <2>3, <3>1 DEF Exchange!Next, Exchange!Report, Reports, Named
  <2>5. CASE ~Room
    <3>1. Reports' = Reports
      BY <1>6, <2>5 DEF Add, Reports, Named
    <3> QED BY <2>2, <2>3, <3>1, RnbAssumption DEF Exchange!Next, Exchange!End, Reports, Named
  <2> QED BY <2>4, <2>5
<1>7. CASE Done
  <2>1. /\ Reports' = Reports /\ uses' = uses
        /\ pc["task"] = "done" /\ pc'["task"] = "idle"
    BY <1>7, GoesOne DEF Done, Reports, ExchangeInv
  <2>2. ~(uses > 0)
    BY <2>1 DEF ExchangeInv, OwnerInv, Using
  <2>3. Partner = NoDroplet /\ Partner' = NoDroplet
    BY <1>2, <1>3, <2>1, <2>2 DEF Partner, Using
  <2> QED BY <2>1, <2>3 DEF Exchange!vars, Reports, Named
<1> QED BY <1>4, <1>5, <1>6, <1>7 DEF useRnbData

\* The other steps are not seen, but that of the program that takes a measurement.
LEMMA RestStep ==
  ASSUME ExchangeInv, ExchangeInv',
         FrameSent \/ StartBaseline \/ EndBaseline \/ checkMeasurements \/ UNCHANGED rnbVars
  PROVE  [Exchange!Next]_(Exchange!vars)
<1>1. uses' = uses /\ rnbCmdID' = rnbCmdID
  BY DEF FrameSent, StartBaseline, EndBaseline, checkMeasurements, rnbVars
<1>2. /\ pc'["main"] = pc["main"]
      /\ \/ pc'["task"] = pc["task"]
         \/ {pc["task"], pc'["task"]} = {"idle", "baseline"}
  BY GoesOne, GoesMain
     DEF FrameSent, StartBaseline, EndBaseline, checkMeasurements, rnbVars, ExchangeInv
<1>3. Broadcasting' = Broadcasting
  BY <1>2, BroadcastingIs DEF Broadcasting, RnbContexts, Sending
<1>4. Partner' = Partner
  BY <1>1, <1>2, <1>3 DEF Partner, Using
<1>5. CASE measQueue' = measQueue
  BY <1>4, <1>5 DEF Exchange!vars
<1>6. CASE checkMeasurements
  <2>1. Reports # <<>> /\ Reports' = Tail(Reports)
    BY <1>6, ReportsTake DEF ExchangeInv
  <2> QED BY <1>4, <2>1 DEF Exchange!Next, Exchange!Take, Reports, Named
<1> QED BY <1>5, <1>6
     DEF FrameSent, StartBaseline, EndBaseline, checkMeasurements, rnbVars

\* Every step is one of RnbExchange or is not seen there.
LEMMA RefinementNext ==
  ASSUME ExchangeInv, ExchangeInv', [RnbNext]_rnbVars
  PROVE  [Exchange!Next]_(Exchange!vars)
<1>1. ASSUME NEW c \in RnbContexts, Begin(c) \/ Broadcast(c)
      PROVE  [Exchange!Next]_(Exchange!vars)
  BY <1>1, BroadcastStep
<1>2. ASSUME NEW s \in Droplets, receivedRnbCmd(s)
      PROVE  [Exchange!Next]_(Exchange!vars)
  BY <1>2, ReceivedStep
<1>3. CASE StartUse \/ useRnbData
  BY <1>3, UseExchange
<1>4. CASE FrameSent \/ StartBaseline \/ EndBaseline \/ checkMeasurements \/ UNCHANGED rnbVars
  BY <1>4, RestStep
<1> QED BY <1>1, <1>2, <1>3, <1>4 DEF RnbNext

\* No partner and no report at the start.
LEMMA RefinementInit == RnbInit => Exchange!Init
<1> SUFFICES ASSUME RnbInit PROVE Exchange!Init
  OBVIOUS
<1>1. Partner = NoDroplet
  BY DEF RnbInit, Partner, Broadcasting, RnbContexts, Sending, Using
<1>2. [i \in 1 .. Len(measQueue) |-> measQueue[i].id] = <<>>
  BY DEF RnbInit
<1> QED BY <1>1, <1>2 DEF Exchange!Init

\* Unless a measurement fails the error check, for any number of droplets, any
\* size of the buffer and also when the task table is full: one exchange at a
\* time, each reported at most once and under the name of its partner.
THEOREM RnbImplementsExchange ==
  ASSUME ~Noisy
  PROVE  RnbSpec => ImplementsExchange
<1>1. ExchangeInv /\ [RnbNext]_rnbVars => ExchangeInv'
  BY ExchangeNext
<1>2. ExchangeInv /\ ExchangeInv' /\ [RnbNext]_rnbVars => [Exchange!Next]_(Exchange!vars)
  BY RefinementNext
<1> QED BY <1>1, <1>2, ExchangeInit, RefinementInit, PTL
     DEF RnbSpec, ImplementsExchange, Exchange!Spec
=============================================================================
