----------------------------- MODULE MC_Devices -----------------------------
(***************************************************************************)
(* Instances of the devices and their drivers, of the queue of the         *)
(* messages heard and of range and bearing.  They share no state that is   *)
(* modelled, so a behaviour is one of one of them, which `device` names    *)
(* from the start, and the others stay as they were at first.              *)
(***************************************************************************)
EXTENDS TwiMaster, IrSense, Motion, Clock, Firefly, SerialLine, SerialHandler, EepromStore,
        MsgQueue, Rnb

CONSTANTS n1, n2, d1, d2, Devices

VARIABLE device

\* Bus: three calls; or two, with an error of the bus or a chip that holds it.
MCTwiBudgets == {[calls |-> 3, faults |-> 0, hangs |-> 0, task |-> TRUE],
                 [calls |-> 2, faults |-> 1, hangs |-> 0, task |-> TRUE],
                 [calls |-> 2, faults |-> 0, hangs |-> 1, task |-> TRUE]}

\* That calls return is checked with three of them, one and an error, or two and a hang.
MCTwiLive == {[calls |-> 3, faults |-> 0, hangs |-> 0, task |-> TRUE],
              [calls |-> 1, faults |-> 1, hangs |-> 0, task |-> TRUE],
              [calls |-> 2, faults |-> 0, hangs |-> 1, task |-> TRUE]}

\* Colours are asked for on a bus without errors.
MCSoundBus == {[calls |-> 2, faults |-> 0, hangs |-> 0, task |-> FALSE]}

\* Legs: two moves; or one, and the voltage falling twice; or falling three times.
MCMotionBudgets == {[calls |-> 2, edges |-> 0], [calls |-> 1, edges |-> 2],
                    [calls |-> 0, edges |-> 3]}

\* EEPROM: two values set; or one, and the power cut once.
MCStoreBudgets == {[sets |-> 2, writes |-> 2, cuts |-> 0], [sets |-> 1, writes |-> 2, cuts |-> 1]}

\* Messages: two of different length, each with a CRC of its own, as the theorems
\* about the counts and about Mailbox assume.
MCLength == <<1, 2>>
MCCrc    == <<1, 2>>
ASSUME MCTextsApart == LengthsAgree /\ TextsApart

Cmd(w, a) == [word |-> w, args |-> a]
MCSerialCommands ==
  {Cmd("set_motors", <<0, 1, -1, 1>>), Cmd("set_motors", <<0, 1>>), Cmd("adj_motors", <<0, 1, 1, -1>>),
   Cmd("set_led", << <<"r", "g">>, 1, 0>>), Cmd("set_led", << <<"g">>, 1>>),
   Cmd("move_steps", <<2, 1>>), Cmd("walk", <<3, 0>>), Cmd("stop_walk", <<>>),
   Cmd("set_dist_per_step", <<0, 1>>), Cmd("write_motor_settings", <<>>), Cmd("set_ir", <<1>>),
   Cmd("rnb_b", <<>>), Cmd("broadcast_id", <<>>), Cmd("msg", <<>>), Cmd("cmd", <<1>>)}

-----------------------------------------------------------------------------
\* Of the devices that stay as they are, one initial state is enough.
Init ==
  /\ device \in Devices
  /\ TwiInit /\ (device # "twi" => twiBudget = CHOOSE b \in TwiBudgets : TRUE)
  /\ SenseInit
  /\ MotionInit /\ (device # "motion" => motionBudget = CHOOSE b \in MotionBudgets : TRUE)
  /\ ClockInit
  /\ FireflyInit
  /\ LineInit
  /\ HandlerInit
  /\ StoreInit /\ (device # "store" => storeBudget = CHOOSE b \in StoreBudgets : TRUE)
  /\ QueueInit /\ RnbInit

\* The state of all but one of the devices
NotTwi     == <<senseVars, motionVars, clockVars, ffVars, lineVars, handlerVars, storeVars, queueVars, rnbVars, device>>
NotSense   == <<twiVars, motionVars, clockVars, ffVars, lineVars, handlerVars, storeVars, queueVars, rnbVars, device>>
NotMotion  == <<twiVars, senseVars, clockVars, ffVars, lineVars, handlerVars, storeVars, queueVars, rnbVars, device>>
NotClock   == <<twiVars, senseVars, motionVars, ffVars, lineVars, handlerVars, storeVars, queueVars, rnbVars, device>>
NotFirefly == <<twiVars, senseVars, motionVars, clockVars, lineVars, handlerVars, storeVars, queueVars, rnbVars, device>>
NotLine    == <<twiVars, senseVars, motionVars, clockVars, ffVars, handlerVars, storeVars, queueVars, rnbVars, device>>
NotHandler == <<twiVars, senseVars, motionVars, clockVars, ffVars, lineVars, storeVars, queueVars, rnbVars, device>>
NotStore   == <<twiVars, senseVars, motionVars, clockVars, ffVars, lineVars, handlerVars, queueVars, rnbVars, device>>
NotQueue   == <<twiVars, senseVars, motionVars, clockVars, ffVars, lineVars, handlerVars, storeVars, rnbVars, device>>
NotRnb     == <<twiVars, senseVars, motionVars, clockVars, ffVars, lineVars, handlerVars, storeVars, queueVars, device>>

TwiRuns     == device = "twi" /\ TwiCode /\ UNCHANGED NotTwi
TwiServed   == device = "twi" /\ TwiIsr /\ UNCHANGED NotTwi
MotionRuns  == device = "motion" /\ MotionCode /\ UNCHANGED NotMotion

Next ==
  \/ device = "twi" /\ TwiNext /\ UNCHANGED NotTwi
  \/ device = "sense" /\ SenseNext /\ UNCHANGED NotSense
  \/ device = "motion" /\ MotionNext /\ UNCHANGED NotMotion
  \/ device = "clock" /\ ClockNext /\ UNCHANGED NotClock
  \/ device = "firefly" /\ FireflyNext /\ UNCHANGED NotFirefly
  \/ device = "line" /\ LineNext /\ UNCHANGED NotLine
  \/ device = "handler" /\ HandlerNext /\ UNCHANGED NotHandler
  \/ device = "store" /\ StoreNext /\ UNCHANGED NotStore
  \/ device = "queue" /\ QueueNext /\ UNCHANGED NotQueue
  \/ device = "rnb" /\ RnbNext /\ UNCHANGED NotRnb

vars == <<twiVars, NotTwi>>
Spec == Init /\ [][Next]_vars

\* The processor goes on with what it runs, and serves an interrupt at last; range
\* and bearing as Rnb has it, of which nothing can happen while another device runs.
FairSpec ==
  /\ Spec /\ WF_vars(TwiRuns) /\ WF_vars(TwiServed) /\ WF_vars(MotionRuns)
  /\ RnbFairness

\* Calls of the bus return, when the bus is what runs.
BusCallsReturn == device = "twi" => TwiCallsReturn
=============================================================================
