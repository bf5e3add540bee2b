-------------------------------- MODULE Rnb --------------------------------
(***************************************************************************)
(* Range and bearing: droplet_code/src/range_algs.c, with receivedRnbCmd of *)
(* ir_comm.c, updateIrBaselines of ir_sensor.c and checkMeasurements of    *)
(* droplet_init.c.                                                         *)
(*                                                                         *)
(* A droplet broadcasts (a timed command, then a blast of light from each  *)
(* emitter) or measures the blast of another droplet that announced it.    *)
(* processing_rnb_flag is to let one such exchange go on at a time, and    *)
(* hpIrBlock_bm keeps others off the IR hardware.  The measuring runs to   *)
(* its end in a medium level interrupt handler; what it measured is worked *)
(* on later by the task useRnbData, which that interrupt may preempt; a    *)
(* task preempts the main program.                                         *)
(***************************************************************************)
EXTENDS Integers, Sequences

CONSTANTS
  Droplets,     \* the other droplets, which broadcast
  MaxMeas,      \* measurements that fit in the buffer: (100 / sizeof(MeasNode)) + 1
  Noisy,        \* a measurement may fail the check of checkErrorAndPrint
  TableFull,    \* scheduleTask may find no free slot
  MaxCommands,  \* bound on the commands that are received
  NoDroplet

ASSUME RnbAssumption ==
  /\ MaxMeas \in Nat \ {0} /\ MaxCommands \in Nat
  /\ Noisy \in BOOLEAN /\ TableFull \in BOOLEAN
  /\ NoDroplet \notin Droplets \union {"self"} /\ "self" \notin Droplets

VARIABLES
  flag,       \* processing_rnb_flag
  block,      \* hpIrBlock_bm: all directions (0x3F) or none
  frame,      \* the droplet's own timed command is being transmitted
  rnbCmdID,
  bright,     \* brightMeas: the droplet whose blast it holds
  uses,       \* scheduled calls of useRnbData
  pc,         \* what the main program and the running task are doing
  read,       \* the droplets whose readings useRnbData has used so far
  measQueue,      \* the list of measurements: [id, from]
  commands    \* commands received so far

rnbVars == <<flag, block, frame, rnbCmdID, bright, uses, pc, read, measQueue, commands>>

\* The steps of broadcastRnbData, useRnbData and updateIrBaselines.
RnbContexts == {"main", "task"}
Sending  == {"send", "block", "blast", "release"}
Using    == {"process", "range", "add", "done"}
Steps    == {"idle", "baseline"} \union Sending \union Using

Measurements ==
  [id : Droplets \union {NoDroplet}, from : SUBSET (Droplets \union {NoDroplet})]

\* Types; the buffer of measurements does not exceed its limit.
RnbTypeOK ==
  /\ flag \in BOOLEAN /\ block \in BOOLEAN /\ frame \in BOOLEAN
  /\ rnbCmdID \in Droplets \union {NoDroplet} /\ bright \in Droplets \union {NoDroplet}
  /\ uses \in Nat /\ commands \in Nat
  /\ pc \in [RnbContexts -> Steps] /\ pc["main"] \in {"idle"} \union Sending
  /\ read \subseteq Droplets \union {NoDroplet}
  /\ measQueue \in Seq(Measurements) /\ Len(measQueue) <= MaxMeas

\* rangeAlgsInit
RnbInit ==
  /\ flag = FALSE /\ block = FALSE /\ frame = FALSE
  /\ rnbCmdID = NoDroplet /\ bright = NoDroplet
  /\ uses = 0 /\ commands = 0
  /\ pc = [c \in RnbContexts |-> "idle"]
  /\ read = {} /\ measQueue = <<>>

\* Context c, which has come to step s, goes on to step t.
GoesOn(c, s, t) ==
  /\ pc[c] = s
  /\ c = "main" => pc["task"] = "idle"
  /\ pc' = [pc EXCEPT ![c] = t]

\* irIsBusy(ALL_DIRS) is at least 4 on account of this droplet itself.
FrameOnly == frame
Occupied  == block \/ frame

----------------------------------------------------------------------------
(* broadcastRnbData, called by the main program or run as a task.          *)

Begin(c) ==
  /\ GoesOn(c, "idle", "send")
  /\ ~flag /\ flag' = TRUE
  /\ UNCHANGED <<block, frame, rnbCmdID, bright, uses, read, measQueue, commands>>

\* hpIrTargetedCmd starts the timed command; it fails if the channels are
\* occupied, also by a timed command that is being received.
SendRnb(c) ==
  /\ \/ ~Occupied /\ GoesOn(c, "send", "block") /\ frame' = TRUE
     \/ GoesOn(c, "send", "release") /\ UNCHANGED frame
  /\ UNCHANGED <<flag, block, rnbCmdID, bright, uses, read, measQueue, commands>>

Block(c) ==
  /\ GoesOn(c, "block", "blast")
  /\ block' = TRUE
  /\ UNCHANGED <<flag, frame, rnbCmdID, bright, uses, read, measQueue, commands>>

\* irRangeBlast is over.
EndBlast(c) ==
  /\ GoesOn(c, "blast", "release")
  /\ block' = FALSE
  /\ UNCHANGED <<flag, frame, rnbCmdID, bright, uses, read, measQueue, commands>>

Release(c) ==
  /\ GoesOn(c, "release", "idle")
  /\ flag' = FALSE
  /\ UNCHANGED <<block, frame, rnbCmdID, bright, uses, read, measQueue, commands>>

Broadcast(c) == SendRnb(c) \/ Block(c) \/ EndBlast(c) \/ Release(c)

\* The high level interrupt has sent the last byte of the timed command.
FrameSent ==
  /\ frame /\ frame' = FALSE
  /\ UNCHANGED <<flag, block, rnbCmdID, bright, uses, pc, read, measQueue, commands>>

----------------------------------------------------------------------------
(* receivedRnbCmd: a medium level interrupt, which low level tasks and the *)
(* main program do not interrupt.                                          *)

AcceptsUnblocked == ~block
Accepts == ~flag /\ ~block

\* irRangeMeas waits for the blast of droplet s and measures it.
receivedRnbCmd(s) ==
  /\ commands < MaxCommands /\ commands' = commands + 1
  /\ Accepts
  /\ rnbCmdID' = s /\ bright' = s
  /\ flag' = TRUE
  /\ \/ uses' = uses + 1
     \/ TableFull /\ UNCHANGED uses
  /\ UNCHANGED <<block, frame, pc, read, measQueue>>

----------------------------------------------------------------------------
(* useRnbData, run as a task.                                              *)

StartUse ==
  /\ GoesOn("task", "idle", "process")
  /\ uses > 0 /\ uses' = uses - 1
  /\ read' = {}
  /\ UNCHANGED <<flag, block, frame, rnbCmdID, bright, measQueue, commands>>

\* Bearing, heading and the first estimate of the range, which may be none.
Process ==
  /\ \/ GoesOn("task", "process", "range")
     \/ GoesOn("task", "process", "done")
  /\ read' = read \union {bright}
  /\ UNCHANGED <<flag, block, frame, rnbCmdID, bright, uses, measQueue, commands>>

\* calculate_range and checkErrorAndPrint: a measurement with too large an
\* error is not used, and the flag is given back at once.
CheckRange ==
  /\ \/ GoesOn("task", "range", "add") /\ UNCHANGED flag
     \/ GoesOn("task", "range", "done") /\ UNCHANGED flag
     \/ Noisy /\ GoesOn("task", "range", "done") /\ flag' = FALSE
  /\ read' = read \union {bright}
  /\ UNCHANGED <<block, frame, rnbCmdID, bright, uses, measQueue, commands>>

LateRoom == Len(measQueue) <= MaxMeas
Room     == Len(measQueue) < MaxMeas

\* addMeasToMeasQueue
Add ==
  /\ GoesOn("task", "add", "done")
  /\ measQueue' = IF Room THEN Append(measQueue, [id |-> rnbCmdID, from |-> read]) ELSE measQueue
  /\ UNCHANGED <<flag, block, frame, rnbCmdID, bright, uses, read, commands>>

\* useRnbData without its last block.
DoneHolding ==
  /\ GoesOn("task", "done", "idle")
  /\ UNCHANGED <<flag, block, frame, rnbCmdID, bright, uses, read, measQueue, commands>>

Done ==
  /\ GoesOn("task", "done", "idle")
  /\ flag' = FALSE
  /\ UNCHANGED <<block, frame, rnbCmdID, bright, uses, read, measQueue, commands>>

useRnbData == Process \/ CheckRange \/ Add \/ Done

----------------------------------------------------------------------------
(* updateIrBaselines, run as a periodic task, and checkMeasurements.       *)

StartBaseline ==
  /\ GoesOn("task", "idle", "baseline")
  /\ ~Occupied /\ block' = TRUE
  /\ UNCHANGED <<flag, frame, rnbCmdID, bright, uses, read, measQueue, commands>>

EndBaseline ==
  /\ GoesOn("task", "baseline", "idle")
  /\ block' = FALSE
  /\ UNCHANGED <<flag, frame, rnbCmdID, bright, uses, read, measQueue, commands>>

\* The main program takes a measurement from the list and calls handleMeas.
checkMeasurements ==
  /\ GoesOn("main", "idle", "idle")
  /\ measQueue # <<>> /\ measQueue' = Tail(measQueue)
  /\ UNCHANGED <<flag, block, frame, rnbCmdID, bright, uses, read, commands>>

----------------------------------------------------------------------------
RnbNext ==
  \/ \E c \in RnbContexts : Begin(c) \/ Broadcast(c)
  \/ FrameSent
  \/ \E s \in Droplets : receivedRnbCmd(s)
  \/ StartUse \/ useRnbData
  \/ StartBaseline \/ EndBaseline
  \/ checkMeasurements

RnbSpec == RnbInit /\ [][RnbNext]_rnbVars

\* A task that was started goes on and a scheduled one is started at last: the
\* scheduler runs what is due in the order of its time, and a periodic task
\* comes back one period later.  The main program executes at least an
\* instruction between two interrupts.
RnbFairness ==
  /\ WF_rnbVars(FrameSent)
  /\ WF_rnbVars(Broadcast("task") \/ useRnbData \/ EndBaseline)
  /\ SF_rnbVars(StartUse)
  /\ SF_rnbVars(Broadcast("main"))

FairRnbSpec == RnbSpec /\ RnbFairness

----------------------------------------------------------------------------
(* Properties.                                                             *)

\* hpIrBlock_bm has no owner: broadcasts, measurements and baseline updates set
\* and clear all of it.  Still it is set exactly while one of the contexts
\* uses the IR hardware, and never do both: none ends the block of another.
BlockHeld ==
  /\ block <=> \E c \in RnbContexts : pc[c] \in {"blast", "baseline"}
  /\ ~(pc["main"] = "blast" /\ pc["task"] \in {"blast", "baseline"})

\* A measurement given to the program as that of a droplet is worked out from
\* the readings of that droplet's blast alone.
Attributed == \A i \in 1 .. Len(measQueue) : measQueue[i].from = {measQueue[i].id}

Broadcasting == \E c \in RnbContexts : pc[c] \in Sending

\* The exchange that is going on: with "self" while the droplet broadcasts, or
\* with the droplet whose blast it measured until useRnbData has dealt with it.
Partner ==
  IF Broadcasting THEN "self"
  ELSE IF uses > 0 \/ pc["task"] \in Using \ {"done"} THEN rnbCmdID ELSE NoDroplet

Exchange == INSTANCE RnbExchange WITH
  Droplets <- Droplets, Self <- "self", None <- NoDroplet,
  partner <- Partner, reports <- [i \in 1 .. Len(measQueue) |-> measQueue[i].id]

\* The flag, the tasks and the interrupt implement RnbExchange: one exchange at
\* a time, each reported at most once and under the name of its partner, and the
\* program gets the reports in their order.
ImplementsExchange == Exchange!Spec

\* The flag is given back, whichever of the contexts took it: range and bearing
\* does not stop for good.
ExchangeEnds == flag ~> ~flag

=============================================================================
