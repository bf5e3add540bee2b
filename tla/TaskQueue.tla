----------------------------- MODULE TaskQueue -----------------------------
(***************************************************************************)
(* What the scheduler promises its callers: a task that was submitted      *)
(* waits until it is cancelled or started, is started once per submission  *)
(* (or period) and not before it is due, and no two tasks execute at once. *)
(* Scheduler implements this module: slots, links, counters, interrupts    *)
(* and the three parts of a schedule call are gone.                        *)
(***************************************************************************)
EXTENDS Integers

CONSTANTS Tasks, RunAhead, None

VARIABLES now, due, running

vars == <<now, due, running>>

TypeOK ==
  /\ now \in Nat
  /\ due \in [Tasks -> Nat \union {None}]
  /\ running \subseteq Tasks

Init == now = 0 /\ due = [s \in Tasks |-> None] /\ running = {}

Waits(s) == due[s] # None

Submit(s) ==
  /\ UNCHANGED <<now, running>>
  /\ s \notin running /\ ~Waits(s)
  /\ \E t \in {due'[s]} \ {None} : due' = [due EXCEPT ![s] = t]

Cancel(s) ==
  /\ UNCHANGED <<now, running>>
  /\ Waits(s)
  /\ due' = [due EXCEPT ![s] = None]

Start(s) ==
  /\ running = {} /\ running' = {s}
  /\ Waits(s) /\ due[s] <= now + RunAhead
  /\ due' = [due EXCEPT ![s] = None]
  /\ UNCHANGED now

\* The task is over, or it waits for its next period.
Finish(s) ==
  /\ s \in running /\ running' = {}
  /\ \/ UNCHANGED due
     \/ \E t \in {due'[s]} \ {None} : due' = [due EXCEPT ![s] = t]
  /\ UNCHANGED now

\* The tasks that wait get other times; none is lost and none appears.
Postpone ==
  /\ UNCHANGED <<now, running>>
  /\ due' \in [Tasks -> Nat \union {None}]
  /\ \A s \in Tasks : Waits(s) <=> due'[s] # None

Pass == now' = now + 1 /\ UNCHANGED <<due, running>>

Next ==
  \/ Pass
  \/ \E s \in Tasks : Start(s) \/ Finish(s) \/ Submit(s) \/ Cancel(s)
  \/ Postpone

Spec == Init /\ [][Next]_vars
=============================================================================
