----------------------------- MODULE Scheduler -----------------------------
(***************************************************************************)
(* The task scheduler of the droplet firmware: droplet_code/src/scheduler.c *)
(* and the taskListCheck of its header.                                    *)
(*                                                                         *)
(* Ten task slots form a linked list ordered by scheduled_time.  The RTC   *)
(* compare interrupt runs the tasks that are due; the main loop repairs a  *)
(* list whose head is long overdue.  scheduleTask is called by the main    *)
(* program, by task bodies and by medium and high level interrupt          *)
(* handlers, and it consists of three parts (fill a slot, link it, write   *)
(* its period) between which interrupts are enabled: the parts are actions *)
(* of their own, and a context moves only when every context above it in   *)
(* Contexts is idle, as the interrupt levels of the XMEGA prescribe.       *)
(***************************************************************************)
EXTENDS Integers, FiniteSets

CONSTANTS
  MAX_NUM_SCHEDULED_TASKS,  \* slots in task_storage_arr (10 in the code)
  MinFuture,    \* MIN_TASK_TIME_IN_FUTURE (10 ms)
  RunAhead,     \* run_tasks runs what is due within this time (2 ms)
  CompBit,      \* the bit or-ed into RTC.COMP (0x8)
  EpochLen,     \* ticks of the 16 bit RTC counter (65536)
  StallLimit,   \* taskListCheck: how long overdue the head may be (3000 ms)
  RecoverStep,  \* taskListCleanup: distance of the new times (500 ms)
  Delays,       \* delays that callers pass to scheduleTask
  Periods,      \* periods that callers pass to schedulePeriodicTask
  Callers,      \* the contexts that call the scheduler
  SelfRemove,   \* a running task may remove its own slot, as stopMove does
  Overcommit,   \* calls may find every slot taken and num_tasks below the limit
  MaxCalls,     \* bound on the schedule calls of a behaviour
  MaxTime,      \* bound on the clock
  NULL

\* From lowest to highest priority: the main loop, a task body (run by the low
\* level RTC compare interrupt), a medium and a high level interrupt handler.
Contexts == {"main", "task", "med", "hi"}

ASSUME SchedulerAssumption ==
  /\ MAX_NUM_SCHEDULED_TASKS \in Nat \ {0}
  /\ MinFuture \in Nat \ {0} /\ RunAhead \in Nat \ {0}
  /\ CompBit \in Nat \ {0} /\ EpochLen \in Nat \ {0}
  /\ EpochLen % (2 * CompBit) = 0
  /\ StallLimit \in Nat /\ RecoverStep \in Nat
  /\ Delays \subseteq Nat /\ Periods \subseteq Nat
  /\ Callers \subseteq Contexts
  /\ SelfRemove \in BOOLEAN /\ Overcommit \in BOOLEAN
  /\ MaxCalls \in Nat /\ MaxTime \in Nat
  /\ NULL \notin Nat

\* Slots of the array, and the address 0xFFFF that scheduler_malloc hands out
\* when it finds no free slot: the callers use it as if it were a slot.
Slots == 0 .. MAX_NUM_SCHEDULED_TASKS - 1
Wild  == MAX_NUM_SCHEDULED_TASKS
Nodes == Slots \union {Wild}

VARIABLES
  now,        \* getTime()
  alarm,      \* the time of the next match of RTC.CNT with RTC.COMP
  comp_en,    \* the compare interrupt is enabled in RTC.INTCTRL
  comp_if,    \* its flag: a match that was not served yet
  used,       \* the slots whose func is not NULL
  time, period, next,   \* the fields scheduled_time, period, next of the nodes
  head,       \* task_list
  num_tasks,
  comp,       \* the compare ISR: "off", "loop", "body" or "leaving"
  cur,        \* cur_task of run_tasks
  op,         \* per context, the call in progress: [pc, node, val]
  calls       \* schedule calls so far

clock == <<alarm, comp_en, comp_if>>
store == <<used, time, period, next, head, num_tasks>>
isr   == <<comp, cur>>
vars  == <<now, clock, store, isr, op, calls>>

Idle == [pc |-> "idle", node |-> NULL, val |-> 0]

\* Types; the match the compare register waits for lies ahead, and a task
\* executes exactly while the ISR is in the body of run_tasks.
TypeOK ==
  /\ now \in Nat
  /\ alarm \in Nat /\ alarm > now
  /\ comp_en \in BOOLEAN /\ comp_if \in BOOLEAN
  /\ used \subseteq Slots
  /\ time \in [Nodes -> Nat] /\ period \in [Nodes -> Nat]
  /\ next \in [Nodes -> Nodes \union {NULL}]
  /\ head \in Nodes \union {NULL}
  /\ num_tasks \in Int
  /\ comp \in {"off", "loop", "body", "leaving"}
  /\ cur \in IF comp \in {"body", "leaving"} THEN Nodes ELSE {NULL}
  /\ op \in [Contexts -> [pc : {"idle", "insert", "period", "cleanup"},
                          node : Nodes \union {NULL}, val : Nat]]
  /\ \A c \in Contexts : op[c].pc \in {"insert", "period"} => op[c].node \in Nodes
  /\ calls \in 0 .. MaxCalls

\* schedulerInit
Init ==
  /\ now = 0 /\ alarm = EpochLen /\ comp_en = FALSE /\ comp_if = FALSE
  /\ used = {} /\ head = NULL /\ num_tasks = 0
  /\ time = [n \in Nodes |-> 0] /\ period = [n \in Nodes |-> 0]
  /\ next = [n \in Nodes |-> NULL]
  /\ comp = "off" /\ cur = NULL
  /\ op = [c \in Contexts |-> Idle] /\ calls = 0

----------------------------------------------------------------------------
(* Contexts and interrupt levels.                                          *)

Above(c) == CASE c = "main" -> {"task", "med", "hi"}
              [] c = "task" -> {"med", "hi"}
              [] c = "med"  -> {"hi"}
              [] c = "hi"   -> {}

\* The processor can be executing context c: interrupts are enabled and
\* nothing of a higher level is in progress.
Runs(c) ==
  /\ comp # "loop"
  /\ c = "main" => comp = "off"
  /\ c = "task" => comp = "body"
  /\ \A d \in Above(c) : op[d] = Idle

task_executing == comp # "off"

Held == {op[c].node : c \in {d \in Contexts : op[d].pc = "insert"}}

----------------------------------------------------------------------------
(* The linked list.                                                        *)

\* The sets that contain h and are closed under nxt, and the least of them: the
\* nodes met by following nxt from h.
Closed(h, nxt) ==
  {S \in SUBSET Nodes :
     h \in S \union {NULL} /\ \A m \in S : nxt[m] \in S \union {NULL}}

Reachable(h, nxt) ==
  LET closed == Closed(h, nxt) IN {n \in Nodes : \A S \in closed : n \in S}

Listed == Reachable(head, next)

\* A walk along the list from h comes to an end: it meets no cycle.
Ends(h) == h # NULL => \E n \in Reachable(h, next) : next[n] = NULL

GoesFirst(t) == head # NULL => t <= time[head]

\* The walk tests the node it stands on, one behind.
StopsBehind(nxt, m, t) == nxt[m] # NULL => t <= time[m]

\* The walk of add_task_to_list for time t, along the links nxt, stops at a node
\* whose successor is not scheduled before t.
StopsAt(nxt, m, t) == nxt[m] # NULL => t <= time[nxt[m]]

Walked(nxt, t) ==
  Reachable(head, [m \in Nodes |-> IF StopsAt(nxt, m, t) THEN NULL ELSE nxt[m]])

\* add_task_to_list for node n, scheduled at t, when num_tasks is count: at the
\* front, or behind the node where the walk stops, or nowhere if the walk meets
\* a node that is its own successor.
Link(n, t, count) ==
  LET nxt == [next EXCEPT ![n] = head]
  IN  \/ /\ GoesFirst(t)
         /\ head' = n
         /\ next' = nxt
         /\ num_tasks' = count + 1
      \/ /\ ~GoesFirst(t)
         /\ \E m \in Walked(nxt, t) :
              \/ /\ StopsAt(nxt, m, t)
                 /\ next' = [nxt EXCEPT ![n] = nxt[m], ![m] = n]
                 /\ num_tasks' = count + 1
              \/ /\ ~StopsAt(nxt, m, t) /\ nxt[m] = m
                 /\ next' = nxt
                 /\ num_tasks' = count
         /\ UNCHANGED head

\* scheduler_free, for a slot whose links are next' = nxt before it.
Free(n, nxt) ==
  /\ used' = used \ {n}
  /\ time' = [time EXCEPT ![n] = 0]
  /\ period' = [period EXCEPT ![n] = 0]
  /\ next' = [nxt EXCEPT ![n] = NULL]

----------------------------------------------------------------------------
(* The RTC compare register.                                               *)

EpochStart(t) == t - (t % EpochLen)
EpochEnd(t)   == EpochStart(t) + EpochLen - 1

\* A match that is waited for although the counter has passed it.
MatchPassed(t, w) == EpochStart(w) + (t % EpochLen)

\* When RTC.CNT meets (uint16_t)t | CompBit if that is written at time w.  The
\* register takes RunAhead ticks to update: an earlier match is missed, and
\* the next one is an epoch away.
Match(t, w) ==
  LET low  == t % EpochLen
      v    == IF (low \div CompBit) % 2 = 1 THEN low ELSE low + CompBit
      meet == EpochStart(w) + v
  IN  IF meet >= w + RunAhead THEN meet ELSE meet + EpochLen

\* Arm the interrupt for t if t is in the current epoch, else disable it.
Arm(t) ==
  /\ comp_en' = (t <= EpochEnd(now))
  /\ alarm' = IF t <= EpochEnd(now) THEN Match(t, now) ELSE alarm
  /\ UNCHANGED comp_if

----------------------------------------------------------------------------
(* taskListCheck and taskListCleanup.                                      *)

\* An empty list is dereferenced: address 0 holds the GPIO registers, all 0.
HeadTime == IF head = NULL THEN 0 ELSE time[head]

\* The difference the other way round.
taskListCheckSwapped == HeadTime - now > StallLimit

taskListCheck == now - HeadTime > StallLimit

\* The nodes before n on the way from h.
Before(h, n) ==
  {m \in Reachable(h, next) \ {n} : n \in Reachable(m, next)}

\* The times after taskListCleanup has walked the list from h: t, t + 500, ...
Retimed(h, t) ==
  [n \in Nodes |-> IF n \in Reachable(h, next)
                   THEN t + Cardinality(Before(h, n)) * RecoverStep
                   ELSE time[n]]

\* The interrupt after taskListCleanup from h.
CleanupArm(h, t) ==
  IF h = NULL THEN comp_en' = FALSE /\ UNCHANGED <<alarm, comp_if>> ELSE Arm(t)

\* The main loop finds the head overdue.  taskListCleanup reads task_list and
\* the clock before its atomic block.
MainCheck ==
  /\ Runs("main") /\ op["main"] = Idle
  /\ taskListCheck
  /\ op' = [op EXCEPT !["main"] =
              [pc |-> "cleanup", node |-> head, val |-> now + RecoverStep]]
  /\ UNCHANGED <<now, clock, store, isr, calls>>

\* The atomic block of taskListCleanup.  It re-times the list from the node
\* that was its head and leaves num_tasks as it is.
MainCleanup ==
  /\ Runs("main") /\ op["main"].pc = "cleanup"
  /\ Ends(op["main"].node)
  /\ time' = Retimed(op["main"].node, op["main"].val)
  /\ CleanupArm(op["main"].node, op["main"].val)
  /\ op' = [op EXCEPT !["main"] = Idle]
  /\ UNCHANGED <<now, used, period, next, head, num_tasks, isr, calls>>

----------------------------------------------------------------------------
(* scheduleTask and schedulePeriodicTask, called by context c.             *)

\* scheduler_malloc's test for the limit.  num_tasks is a byte in the code: what
\* is below 0 here is 255 there, and refuses every task.
AtLimit == num_tasks < 0 \/ num_tasks >= MAX_NUM_SCHEDULED_TASKS

\* The first slot without a function, and the first that is not in the list.
FirstUnlisted ==
  CHOOSE s \in Slots \ Listed : \A r \in Slots \ Listed : s <= r
FirstFree == CHOOSE s \in Slots \ used : \A r \in Slots \ used : s <= r

\* The atomic block of schedule_task_absolute_time.  At the limit the callers
\* get NULL and write the period through it, to a GPIO register.
Allocate(c, t, p) ==
  /\ Runs(c) /\ op[c] = Idle
  /\ calls < MaxCalls /\ calls' = calls + 1
  /\ \/ /\ AtLimit
        /\ UNCHANGED <<clock, store, op>>
     \/ /\ ~AtLimit
        /\ used # Slots
        /\ used' = used \union {FirstFree}
        /\ time' = [time EXCEPT ![FirstFree] = t]
        /\ next' = [next EXCEPT ![FirstFree] = NULL]
        /\ op' = [op EXCEPT ![c] = [pc |-> "insert", node |-> FirstFree, val |-> p]]
        /\ UNCHANGED <<clock, period, head, num_tasks>>
     \/ /\ ~AtLimit
        /\ used = Slots
        /\ Overcommit /\ Ends(head)
        /\ CleanupArm(head, now + RecoverStep)
        /\ time' = [Retimed(head, now + RecoverStep) EXCEPT ![Wild] = t]
        /\ next' = [next EXCEPT ![Wild] = NULL]
        /\ op' = [op EXCEPT ![c] = [pc |-> "insert", node |-> Wild, val |-> p]]
        /\ UNCHANGED <<used, period, head, num_tasks>>
  /\ UNCHANGED <<now, isr>>

AtLeast(x, least) == IF x < least THEN least ELSE x

scheduleTask(c, delay) == Allocate(c, now + AtLeast(delay, MinFuture), 0)

schedulePeriodicTask(c, requested) ==
  LET p == AtLeast(requested, MinFuture)
  IN  Allocate(c, ((now \div p) + 1) * p, p)

\* add_task_to_list if its caller counted the task, too.
InsertCounting(c) ==
  LET n == op[c].node
  IN  /\ Runs(c) /\ op[c].pc = "insert"
      /\ Link(n, time[n], num_tasks + 1)
      /\ IF GoesFirst(time[n]) /\ ~task_executing
         THEN Arm(time[n])
         ELSE UNCHANGED clock
      /\ op' = [op EXCEPT ![c] = [pc |-> "period", node |-> n, val |-> op[c].val]]
      /\ UNCHANGED <<now, used, time, period, isr, calls>>

\* add_task_to_list
Insert(c) ==
  LET n == op[c].node
  IN  /\ Runs(c) /\ op[c].pc = "insert"
      /\ Link(n, time[n], num_tasks)
      /\ IF GoesFirst(time[n]) /\ ~task_executing
         THEN Arm(time[n])
         ELSE UNCHANGED clock
      /\ op' = [op EXCEPT ![c] = [pc |-> "period", node |-> n, val |-> op[c].val]]
      /\ UNCHANGED <<now, used, time, period, isr, calls>>

\* new_task->period = ..., after add_task_to_list has returned
SetPeriod(c) ==
  /\ Runs(c) /\ op[c].pc = "period"
  /\ period' = [period EXCEPT ![op[c].node] = op[c].val]
  /\ op' = [op EXCEPT ![c] = Idle]
  /\ UNCHANGED <<now, clock, used, time, next, head, num_tasks, isr, calls>>

----------------------------------------------------------------------------
(* removeTask.                                                             *)

Unlink(n) ==
  \/ /\ head = n
     /\ head' = next[n]
     /\ num_tasks' = num_tasks - 1
     /\ Free(n, next)
  \/ /\ head # n
     /\ \E m \in Listed :
          /\ next[m] = n
          /\ Free(n, [next EXCEPT ![m] = next[n]])
     /\ num_tasks' = num_tasks - 1
     /\ UNCHANGED head
  \/ /\ head # n /\ \A m \in Listed : next[m] # n /\ Ends(head)
     /\ Free(n, next)
     /\ UNCHANGED <<head, num_tasks>>

\* A caller removes a task that waits in the list.
removeTask(c, n) ==
  /\ Runs(c) /\ op[c] = Idle
  /\ n \in Listed \intersect used
  /\ Unlink(n)
  /\ UNCHANGED <<now, clock, isr, op, calls>>

\* The last thing a one-shot task does is to remove itself (stopMove).
removeSelf ==
  /\ SelfRemove
  /\ Runs("task") /\ op["task"] = Idle
  /\ period[cur] = 0
  /\ Unlink(cur)
  /\ comp' = "leaving"
  /\ UNCHANGED <<now, clock, cur, op, calls>>

----------------------------------------------------------------------------
(* The compare interrupt: run_tasks.  "loop" is its atomic part, in "body" *)
(* a task runs with interrupts enabled.                                    *)

CompInterrupt ==
  /\ comp = "off" /\ comp_en /\ comp_if
  /\ op["med"] = Idle /\ op["hi"] = Idle
  /\ comp_if' = FALSE
  /\ comp' = "loop"
  /\ UNCHANGED <<now, alarm, comp_en, store, cur, op, calls>>

\* Whatever is at the head is taken to be what the interrupt was armed for.
DueOnMatch == head # NULL

Due == head # NULL /\ HeadTime <= now + RunAhead

Consistent(u, n) == Cardinality(u) = n

\* Pop the head and start its function.
StartTask ==
  /\ comp = "loop" /\ Due
  /\ Consistent(used, num_tasks)
  /\ cur' = head
  /\ head' = next[head]
  /\ comp' = "body"
  /\ UNCHANGED <<now, clock, used, time, period, next, num_tasks, op, calls>>

\* The slots in use are not num_tasks: return -1, with COMP as it was.
AbortLoop ==
  /\ comp = "loop" /\ Due
  /\ ~Consistent(used, num_tasks)
  /\ comp' = "off"
  /\ UNCHANGED <<now, clock, store, cur, op, calls>>

\* Nothing (more) is due: arm for the next task of this epoch.
EndLoop ==
  /\ comp = "loop" /\ ~Due
  /\ IF head # NULL
     THEN Arm(HeadTime)
     ELSE comp_en' = FALSE /\ UNCHANGED <<alarm, comp_if>>
  /\ comp' = "off"
  /\ UNCHANGED <<now, store, cur, op, calls>>

\* The function of a task returns.
TaskReturns ==
  /\ comp \in {"body", "leaving"}
  /\ \A c \in {"task", "med", "hi"} : op[c] = Idle
  /\ IF period[cur] > 0
     THEN LET t == ((time[cur] \div period[cur]) + 1) * period[cur]
          IN  /\ time' = [time EXCEPT ![cur] = t]
              /\ Link(cur, t, num_tasks - 1)
              /\ UNCHANGED <<used, period>>
     ELSE /\ Free(cur, next)
          /\ num_tasks' = num_tasks - 1
          /\ UNCHANGED head
  /\ comp' = IF Consistent(used', num_tasks') THEN "loop" ELSE "off"
  /\ cur' = NULL
  /\ UNCHANGED <<now, clock, op, calls>>

----------------------------------------------------------------------------
(* The clock.  It stands still in the atomic part of run_tasks and in a    *)
(* high level handler, which the overflow interrupt cannot preempt.        *)

\* The counter moves; a match sets the flag.
Count ==
  /\ comp # "loop" /\ op["hi"] = Idle /\ now < MaxTime
  /\ now' = now + 1
  /\ comp_if' = (comp_if \/ alarm = now')

Tick ==
  /\ Count
  /\ now' % EpochLen # 0
  /\ alarm' = IF alarm = now' THEN alarm + EpochLen ELSE alarm
  /\ UNCHANGED <<comp_en, store, isr, op, calls>>

\* The counter wraps and the overflow interrupt arms for a head in the new
\* epoch, unless a task is executing.
Overflow ==
  /\ Count
  /\ now' % EpochLen = 0
  /\ IF /\ head # NULL /\ HeadTime < EpochEnd(now')
        /\ ~task_executing /\ HeadTime >= now'
     THEN comp_en' = TRUE /\ alarm' = Match(HeadTime, now')
     ELSE /\ alarm' = IF alarm = now' THEN alarm + EpochLen ELSE alarm
          /\ UNCHANGED comp_en
  /\ UNCHANGED <<store, isr, op, calls>>

----------------------------------------------------------------------------
Call(c) ==
  \/ \E d \in Delays : scheduleTask(c, d)
  \/ \E p \in Periods : schedulePeriodicTask(c, p)
  \/ \E n \in Nodes : removeTask(c, n)

Main == MainCheck \/ MainCleanup

CompISR == StartTask \/ AbortLoop \/ EndLoop \/ TaskReturns

\* What the processor does, and the clock.
Work ==
  \/ \E c \in Callers : Call(c)
  \/ \E c \in Contexts : Insert(c) \/ SetPeriod(c)
  \/ removeSelf
  \/ Main
  \/ CompInterrupt \/ CompISR

Next == Work \/ Tick \/ Overflow

Spec == Init /\ [][Next]_vars

\* Interrupt handlers and tasks return, the clock runs, and the main loop moves
\* on: after every return from an interrupt an AVR executes one instruction of
\* the interrupted program before it serves the next, so the main program is
\* never starved.
Fairness ==
  /\ WF_vars(CompInterrupt \/ CompISR)
  /\ \A c \in {"med", "hi"} : WF_vars(Insert(c) \/ SetPeriod(c))
  /\ WF_vars(Insert("task") \/ SetPeriod("task"))
  /\ SF_vars(Insert("main") \/ SetPeriod("main") \/ Main)

----------------------------------------------------------------------------
(* Properties.                                                             *)

Executing == {cur} \ {NULL}

\* A task that has removed itself runs on in a slot that is free.
InUse == IF comp = "leaving" THEN {} ELSE Executing

\* Every slot in use is in exactly one place: in the list, executing, or in
\* the hands of one caller that has filled but not yet linked it; num_tasks
\* counts the first two.  Whatever interrupts whatever between the three parts
\* of a schedule call, no slot is leaked, handed out twice or counted twice.
EverySlotAccounted ==
  /\ used = Listed \union InUse \union Held
  /\ Listed \intersect Executing = {}
  /\ Held \intersect (Listed \union Executing) = {}
  /\ \A c, d \in Contexts :
       (op[c].pc = "insert" /\ op[d].pc = "insert" /\ c # d) => op[c].node # op[d].node
  /\ num_tasks = Cardinality(Listed) + Cardinality(Executing)

Sorted ==
  \A n \in Listed : next[n] # NULL => time[n] <= time[next[n]]

\* add_task_to_list, removeTask and run_tasks keep the list ordered by
\* scheduled_time; only taskListCleanup can disorder it.
OrderKept == [][Sorted => Sorted' \/ MainCleanup]_vars

\* The scheduler implements TaskQueue: a task enters the queue when it is linked,
\* leaves it only to be executed or because its caller removes it, and is never
\* lost, doubled or started early by the interrupts between the parts of a call.
WaitingTimes ==
  LET waiting == Listed
  IN  [s \in Slots |-> IF s \in waiting THEN time[s] ELSE NULL]

Queue == INSTANCE TaskQueue WITH
  Tasks <- Slots, None <- NULL, running <- InUse,
  due <- WaitingTimes

ImplementsTaskQueue == Queue!Spec

\* run_tasks never calls the function of a free slot (a NULL pointer).
OnlyUsedStarted == [][StartTask => cur' \in used]_vars

\* A task that was scheduled as periodic is still scheduled when its period is
\* written: it has not run as a one-shot task before.
PeriodicStaysScheduled ==
  [][\A c \in Contexts : SetPeriod(c) /\ op[c].val > 0
        => op[c].node \in Listed \union Executing]_vars

\* num_tasks, which scheduler_malloc tests before the task is linked and counted,
\* exceeds the number of slots by no more than the callers that were nested in
\* their calls, even if the table overflows.  (That it does not fall below 0 is
\* part of EverySlotAccounted.  When the table overflows it can: 0xFFFF, linked
\* once as a periodic task, comes to be its own successor, and every further run
\* of it counts one task less.)
CountInRange ==
  num_tasks <= MAX_NUM_SCHEDULED_TASKS + Cardinality(Callers) - 1

\* Every task that waits in the list is run or removed at last, whatever stalls
\* on the way: a missed compare match, a failed consistency check, an epoch
\* boundary.  Where the slots are never accounted for again, because the table
\* has overflowed, run_tasks rightly refuses all tasks.
EveryTaskLeavesList ==
  []<>EverySlotAccounted => \A s \in Slots : s \in Listed ~> s \notin Listed

=============================================================================
