------------------------------- MODULE Motion -------------------------------
(***************************************************************************)
(* The motors of droplet_code/src/motor.c and the low power fix of         *)
(* src/power.c, which moves a droplet that stands on the wrong lines of    *)
(* its floor.                                                              *)
(*                                                                         *)
(* The main program, a task and two interrupts (the comparator on the      *)
(* capacitor, and commands of the serial line) call the same functions,    *)
(* each in several steps; a context that is interrupted goes on where it   *)
(* was.  The job of a context is the sequence of the steps left to do.     *)
(* Scheduled tasks run in any order: their times are abstracted.           *)
(***************************************************************************)
EXTENDS Integers, Sequences

CONSTANTS
  TaskSlots,      \* handles of scheduled tasks; the code has MAX_NUM_SCHEDULED_TASKS
  MotionBudgets,  \* bounds on a behaviour: [calls, edges], calls of programs and
                  \* commands, and changes of the capacitor's voltage
  FirstTries, AllTries, \* 4 and 8, the limits of failedLegChecks
  NoTask

\* no task's handle: NULL
ASSUME MotionAssumption == NoTask \notin TaskSlots

VARIABLES
  moving,      \* MOTOR_STATUS_ON
  spinning,    \* the timers of the motors run
  current,     \* current_motor_task
  tasks,       \* what is scheduled: handle -> function
  jobs,        \* context -> the steps it still has to do
  handle,      \* context -> the handle it has from scheduleTask
  adjust,      \* motorAdjusts[6]: "calibrated" or a "guess"
  kept,        \* adj of checkLegsTask
  stored,      \* what the EEPROM has for it
  fixing,      \* unpoweredFixActive
  failed,      \* failedLegChecks
  crossed,     \* a motor function was called during another one, or no slot was free
  motionBudget

motors     == <<moving, spinning, current, handle>>
settings   == <<adjust, kept, stored>>
fix        == <<fixing, failed>>
motionVars == <<motors, tasks, jobs, settings, fix, crossed, motionBudget>>

MotionRank == [main |-> 1, task |-> 2, isr |-> 3]
MotionContexts == DOMAIN MotionRank

MotionInit ==
  /\ moving = FALSE /\ spinning = FALSE /\ current = NoTask
  /\ tasks = [h \in {} |-> "none"]
  /\ jobs = [c \in MotionContexts |-> <<>>]
  /\ handle = [c \in MotionContexts |-> NoTask]
  /\ adjust = "calibrated" /\ kept = "none" /\ stored = "calibrated"
  /\ fixing = FALSE /\ failed = 0 /\ crossed = FALSE
  /\ motionBudget \in MotionBudgets

----------------------------------------------------------------------------
(* The functions, as the steps they take.                                  *)

moveSteps == <<"isMoving", "mark", "spin", "schedule", "assign">>

\* mutant: the motors run on
StopHalf == <<"remove", "forget">>

stopMove  == <<"halt", "remove", "forget">>

Free == TaskSlots \ (DOMAIN tasks \union {current} \union {handle[c] : c \in MotionContexts})
Lowest == {CHOOSE h \in Free : TRUE}
Scheduled(h, f) == [g \in DOMAIN tasks \union {h} |-> IF g = h THEN f ELSE tasks[g]]
Unscheduled(h) == [g \in DOMAIN tasks \ {h} |-> tasks[g]]

\* A task runs when no interrupt does, the main program when neither does.
MayRun(c) == \A d \in MotionContexts : MotionRank[d] > MotionRank[c] => jobs[d] = <<>>

Uses(job) == \E i \in 1 .. Len(job) : job[i] \in {"isMoving", "halt"}
Busily == \E d \in MotionContexts : jobs[d] # <<>>

\* Context c is given a job.
Starts(c, job) ==
  /\ jobs[c] = <<>> /\ MayRun(c)
  /\ jobs' = [jobs EXCEPT ![c] = job]
  /\ crossed' = (crossed \/ (Uses(job) /\ Busily))

\* Context c comes to a step, and does the rest afterwards.
At(c, step) == MayRun(c) /\ jobs[c] # <<>> /\ Head(jobs[c]) = step
Goes(c, job) == jobs' = [jobs EXCEPT ![c] = job]
On(c) == Goes(c, Tail(jobs[c]))

\* The program or a command moves or stops the droplet, or has the settings
\* written to the EEPROM (handle of "write_motors": writeMotorSettings).
Call(c) ==
  /\ motionBudget.calls > 0 /\ motionBudget' = [motionBudget EXCEPT !.calls = @ - 1]
  /\ \E job \in {moveSteps, stopMove, <<"write">>} : Starts(c, job)
  /\ UNCHANGED <<motors, tasks, settings, fix>>

\* legStatus of the three legs: above, inside or below the window of the
\* comparator.  legsPowered and legsFloating each read them anew.
LegReadings == [0 .. 2 -> {1, 0, -1}]
legsPowered(status)  == {1, -1} \subseteq {status[leg] : leg \in 0 .. 2}
legsFloating(status) == \A leg \in 0 .. 2 : status[leg] = 0
LegsRight == {legsPowered(s) \/ legsFloating(t) : s, t \in LegReadings}

\* capFallingEdgeISR
FallingEdge ==
  /\ motionBudget.edges > 0 /\ motionBudget' = [motionBudget EXCEPT !.edges = @ - 1]
  /\ ~fixing /\ \E right \in LegsRight : ~right
  /\ fixing' = TRUE
  /\ Starts("isr", moveSteps \o <<"restart", "lowStop">>)
  /\ UNCHANGED <<motors, tasks, settings, failed>>

\* capRisingEdgeISR
RisingEdge ==
  /\ motionBudget.edges > 0 /\ motionBudget' = [motionBudget EXCEPT !.edges = @ - 1]
  /\ fixing
  /\ Starts("isr", stopMove \o <<"restart", "fixed">>)
  /\ UNCHANGED <<motors, tasks, settings, fix>>

\* mutant: the tries are not counted
CheckLegsForever ==
  IF ~fixing THEN {<<>>}
  ELSE {<<"fixed">>, moveSteps \o <<"lowStop">>}

\* checkLegsTask: nothing is done when the fix is over, the legs are powered
\* or all float; else the droplet is moved, later with guessed settings.
checkLegsTask ==
  IF ~fixing THEN {<<>>}
  ELSE {CASE right -> <<"fixed">>
          [] ~right /\ failed < FirstTries -> moveSteps \o <<"lowStop", "count">>
          [] ~right /\ failed >= FirstTries /\ failed < AllTries ->
               <<"guess">> \o moveSteps \o <<"restore", "lowStop", "count">>
          [] OTHER -> <<"fixed", "lowStop", "count">> : right \in LegsRight}

\* The scheduler calls a function; stopLowPowerMoveTask looks at the legs again.
RunTask ==
  /\ \E h \in DOMAIN tasks :
       /\ \/ tasks[h] = "stopMove" /\ Starts("task", stopMove)
          \/ tasks[h] = "lowStop" /\ Starts("task", stopMove \o <<"again">>)
          \/ /\ tasks[h] = "checkLegs" /\ \E job \in checkLegsTask : Starts("task", job)
       /\ tasks' = Unscheduled(h)
  /\ UNCHANGED <<motors, settings, fix, motionBudget>>

----------------------------------------------------------------------------
(* The steps.                                                              *)

\* A droplet that moves already does not start again.
IsMoving(c) ==
  /\ At(c, "isMoving")
  /\ IF moving THEN Goes(c, SubSeq(jobs[c], Len(moveSteps) + 1, Len(jobs[c]))) ELSE On(c)
  /\ UNCHANGED <<motors, tasks, settings, fix, crossed, motionBudget>>

\* motor_status is set, then the timers, and at last the task that is to stop
\* them is scheduled, unless no slot is free, and its handle kept.
Mark(c) ==
  /\ At(c, "mark") /\ On(c) /\ moving' = TRUE
  /\ UNCHANGED <<spinning, current, handle, tasks, settings, fix, crossed, motionBudget>>
Spin(c) ==
  /\ At(c, "spin") /\ On(c) /\ spinning' = TRUE
  /\ UNCHANGED <<moving, current, handle, tasks, settings, fix, crossed, motionBudget>>
Schedule(c) ==
  /\ At(c, "schedule") /\ On(c)
  /\ IF Free = {} THEN crossed' = TRUE /\ UNCHANGED <<tasks, handle>>
     ELSE \E h \in Lowest : /\ tasks' = Scheduled(h, "stopMove") /\ UNCHANGED crossed
                            /\ handle' = [handle EXCEPT ![c] = h]
  /\ UNCHANGED <<moving, spinning, current, settings, fix, motionBudget>>
Assign(c) ==
  /\ At(c, "assign") /\ On(c)
  /\ current' = handle[c] /\ handle' = [handle EXCEPT ![c] = NoTask]
  /\ UNCHANGED <<moving, spinning, tasks, settings, fix, crossed, motionBudget>>

\* stopMove: the timers and the status, then the task
Halt(c) ==
  /\ At(c, "halt") /\ On(c) /\ moving' = FALSE /\ spinning' = FALSE
  /\ UNCHANGED <<current, handle, tasks, settings, fix, crossed, motionBudget>>
Remove(c) ==
  /\ At(c, "remove") /\ On(c) /\ tasks' = Unscheduled(current)
  /\ UNCHANGED <<motors, settings, fix, crossed, motionBudget>>
Forget(c) ==
  /\ At(c, "forget") /\ On(c) /\ current' = NoTask
  /\ UNCHANGED <<moving, spinning, handle, tasks, settings, fix, crossed, motionBudget>>

\* checkLegsTask keeps the settings, and puts them back.
Guess(c) ==
  /\ At(c, "guess") /\ On(c) /\ kept' = adjust /\ adjust' = "guess"
  /\ UNCHANGED <<motors, tasks, stored, fix, crossed, motionBudget>>
RestoreAdjust(c) ==
  /\ At(c, "restore") /\ On(c) /\ adjust' = kept
  /\ UNCHANGED <<motors, tasks, kept, stored, fix, crossed, motionBudget>>

\* writeMotorSettings
WriteSettings(c) ==
  /\ At(c, "write") /\ On(c) /\ stored' = adjust
  /\ UNCHANGED <<motors, tasks, adjust, kept, fix, crossed, motionBudget>>

\* scheduleTask(150, stopLowPowerMoveTask) and (50, checkLegsTask), the
\* latter only while the fix is active
Later(c, step, f) ==
  /\ At(c, step) /\ On(c)
  /\ IF f = "checkLegs" /\ ~fixing THEN UNCHANGED <<tasks, crossed>>
     ELSE IF Free = {} THEN crossed' = TRUE /\ UNCHANGED tasks
     ELSE \E h \in Lowest : tasks' = Scheduled(h, f) /\ UNCHANGED crossed
  /\ UNCHANGED <<motors, settings, fix, motionBudget>>

\* failedLegChecks and unpoweredFixActive
Count(c) ==
  /\ \/ At(c, "count") /\ failed' = failed + 1 /\ UNCHANGED fixing
     \/ At(c, "restart") /\ failed' = 0 /\ UNCHANGED fixing
     \/ At(c, "fixed") /\ fixing' = FALSE /\ UNCHANGED failed
  /\ On(c)
  /\ UNCHANGED <<motors, tasks, settings, crossed, motionBudget>>

MotionStep(c) ==
  \/ IsMoving(c) \/ Mark(c) \/ Spin(c) \/ Schedule(c) \/ Assign(c)
  \/ Halt(c) \/ Remove(c) \/ Forget(c)
  \/ Guess(c) \/ RestoreAdjust(c) \/ WriteSettings(c) \/ Count(c)
  \/ Later(c, "lowStop", "lowStop") \/ Later(c, "again", "checkLegs")
MotionCode == RunTask \/ \E c \in MotionContexts : MotionStep(c)

MotionNext == (\E c \in MotionContexts : Call(c)) \/ FallingEdge \/ RisingEdge \/ MotionCode
MotionSpec == MotionInit /\ [][MotionNext]_motionVars

----------------------------------------------------------------------------

\* Every movement ends, if no motor function is called during another one.
MovesEnd == spinning ~> ~spinning \/ crossed

\* The low power fix gives up: it does not move the droplet for ever.
FixEnds == fixing ~> ~fixing \/ crossed

=============================================================================
