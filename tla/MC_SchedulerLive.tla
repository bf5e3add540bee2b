-------------------------- MODULE MC_SchedulerLive --------------------------
(***************************************************************************)
(* Scheduler with a clock that does not end, on a small instance.          *)
(* The clock of Spec ends at MaxTime; here Rebase moves the origin of      *)
(* time by an epoch.  The code compares and subtracts times and divides    *)
(* them by periods, which divide EpochLen here, so no step can tell.       *)
(***************************************************************************)
EXTENDS Scheduler

ASSUME \A p \in Periods : EpochLen % AtLeast(p, MinFuture) = 0
ASSUME EpochLen > StallLimit /\ MaxTime = 2 * EpochLen

Rebase ==
  /\ now = MaxTime /\ alarm > now
  /\ \A c \in Contexts : op[c] = Idle
  /\ \A n \in Listed \union Executing : time[n] >= EpochLen
  /\ now' = now - EpochLen /\ alarm' = alarm - EpochLen
  /\ time' = [n \in Nodes |-> IF n \in Listed \union Executing
                              THEN time[n] - EpochLen ELSE 0]
  /\ UNCHANGED <<comp_en, comp_if, used, period, next, head, num_tasks, isr, op, calls>>

\* What takes microseconds is over before the next tick: an interrupt that can
\* be served is, and taskListCleanup gets from its clock reading to its block.
Prompt ==
  /\ ~(comp = "off" /\ comp_en /\ comp_if /\ op["med"] = Idle /\ op["hi"] = Idle)
  /\ op["main"].pc # "cleanup"

\* No interrupt schedules a task between the moment when a task has removed itself
\* and its return.  It would be given the slot that run_tasks still holds, and
\* links a second time or frees: the list comes to lead back to itself.
Undisturbed == comp = "leaving" => calls' = calls

\* Work, but for the calls that disturb
LiveWork ==
  \/ \E c \in Callers : Call(c) /\ Undisturbed
  \/ \E c \in Contexts : Insert(c) \/ SetPeriod(c)
  \/ removeSelf
  \/ Main
  \/ CompInterrupt \/ CompISR

LiveNext == LiveWork \/ (Prompt /\ (Tick \/ Overflow)) \/ Rebase

LiveSpec ==
  /\ Init /\ [][LiveNext]_vars
  /\ Fairness
  /\ WF_vars((Prompt /\ (Tick \/ Overflow)) \/ Rebase)
=============================================================================
