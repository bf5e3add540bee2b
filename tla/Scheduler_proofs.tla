-------------------------- MODULE Scheduler_proofs --------------------------
(***************************************************************************)
(* The task scheduler, for every number of slots and of calls and every    *)
(* interleaving of its callers: its types, and the limit of its count;     *)
(* and, as long as the callers are Disciplined, the account of its slots,  *)
(* the order of its list, the compare interrupt, and that it implements    *)
(* TaskQueue.                                                              *)
(***************************************************************************)
EXTENDS Scheduler, FiniteSetTheorems, NaturalFacts

-----------------------------------------------------------------------------
(***************************************************************************)
(* The types of Scheduler's variables, for every value of its constants,   *)
(* and the facts about slots, links and times that they rest on.           *)
(***************************************************************************)

----------------------------------------------------------------------------
(* The slots, and the least element that FirstFree chooses.                *)

\* The slots are finitely many numbers; NULL is no node, and the wild address is
\* no slot.
LEMMA NodeFacts ==
  /\ Slots \subseteq Nat /\ Nodes \subseteq Nat
  /\ Slots \subseteq Nodes /\ Wild \in Nodes /\ Wild \notin Slots
  /\ NULL \notin Nodes
  /\ IsFiniteSet(Slots) /\ IsFiniteSet(Nodes)
<1>1. IsFiniteSet(Slots)
  BY FS_Interval, SchedulerAssumption DEF Slots
<1>2. IsFiniteSet(Nodes)
  BY <1>1, FS_AddElement DEF Nodes
<1> QED BY <1>1, <1>2, SchedulerAssumption DEF Slots, Nodes, Wild

\* A nonempty set of naturals has a least element: the initial segments below
\* its elements have a minimal one.
LEMMA LeastExists ==
  ASSUME NEW T \in SUBSET Nat, T # {}
  PROVE  \E m \in T : \A r \in T : m <= r
<1> DEFINE Below == {0 .. m : m \in T}
<1>1. Below \subseteq FiniteSubsetsOf(Nat) /\ Below # {}
  <2>1. \A m \in T : 0 .. m \in SUBSET Nat /\ IsFiniteSet(0 .. m)
    BY FS_Interval
  <2> QED BY <2>1 DEF FiniteSubsetsOf
<1>2. PICK x \in Below : \A y \in Below : <<y, x>> \notin StrictSubsetOrdering(Nat)
  BY <1>1, WFMin, FS_StrictSubsetOrderingWellFounded
<1>3. PICK m \in T : x = 0 .. m
  BY DEF Below
<1>4. ASSUME NEW r \in T, ~(m <= r)
      PROVE  FALSE
  <2>1. 0 .. r \in Below /\ 0 .. r \subseteq 0 .. m /\ 0 .. r # 0 .. m
    <3>1. m \in 0 .. m /\ m \notin 0 .. r
      BY <1>4
    <3> QED BY <3>1, <1>4
  <2>2. <<0 .. r, 0 .. m>> \in (SUBSET Nat) \X (SUBSET Nat)
    OBVIOUS
  <2> QED BY <2>1, <2>2, <1>2, <1>3 DEF StrictSubsetOrdering
<1> QED BY <1>4

\* scheduler_malloc returns a free slot if there is one.
LEMMA FirstFreeSlot ==
  ASSUME used # Slots, used \subseteq Slots
  PROVE  FirstFree \in Slots \ used
<1>1. \E s \in Slots \ used : \A r \in Slots \ used : s <= r
  <2>1. Slots \ used \in SUBSET Nat /\ Slots \ used # {}
    BY NodeFacts
  <2> QED BY <2>1, LeastExists
<1> QED BY <1>1 DEF FirstFree

----------------------------------------------------------------------------
(* Reachable, as the least closed set.                                     *)

Links == [Nodes -> Nodes \union {NULL}]

\* The nodes met from h are in every set closed under the links.
LEMMA ReachableLeast ==
  ASSUME NEW h, NEW nxt, NEW S \in Closed(h, nxt)
  PROVE  Reachable(h, nxt) \subseteq S
BY DEF Reachable

\* The list holds nodes only.
LEMMA ReachableNodes ==
  ASSUME NEW h, NEW nxt
  PROVE  Reachable(h, nxt) \subseteq Nodes
BY DEF Reachable

\* The nodes met from h are such a set themselves.
LEMMA ReachableClosed ==
  ASSUME NEW h \in Nodes \union {NULL}, NEW nxt \in Links
  PROVE  Reachable(h, nxt) \in Closed(h, nxt)
BY DEF Reachable, Closed, Links

----------------------------------------------------------------------------
(* The arithmetic of the clock.                                            *)

\* Remainders and quotients of times and epochs are natural numbers.
LEMMA ModFacts ==
  ASSUME NEW a \in Nat, NEW b \in Nat \ {0}
  PROVE  /\ a % b \in Nat /\ a % b < b
         /\ a - (a % b) \in Nat
         /\ a \div b \in Nat
         /\ ((a \div b) + 1) * b \in Nat
<1>1. a % b \in Nat /\ a % b < b /\ a \div b \in Nat
  BY SMT
<1>2. a % b <= a
  <2>1. a = b * (a \div b) + (a % b)
    BY SMT
  <2>2. b * (a \div b) >= 0
    BY <1>1, SMT
  <2> QED BY <2>1, <2>2, <1>1, SMT
<1>3. ((a \div b) + 1) * b \in Nat
  <2> DEFINE q == (a \div b) + 1
  <2>1. q \in Nat
    BY <1>1
  <2> HIDE DEF q
  <2>2. q * b \in Nat
    BY <2>1, SMT
  <2> QED BY <2>2 DEF q
<1> QED BY <1>1, <1>2, <1>3

\* The match that is waited for is ahead of the time of the writing.
LEMMA MatchAhead ==
  ASSUME NEW t \in Nat, NEW w \in Nat
  PROVE  Match(t, w) \in Nat /\ Match(t, w) > w
<1> DEFINE low == t % EpochLen
           v   == IF (low \div CompBit) % 2 = 1 THEN low ELSE low + CompBit
<1>1. EpochLen \in Nat \ {0} /\ CompBit \in Nat \ {0} /\ RunAhead \in Nat \ {0}
  BY SchedulerAssumption
<1>2. low \in Nat
  BY <1>1, ModFacts
<1>3. v \in Nat
  BY <1>1, <1>2
<1>4. EpochStart(w) \in Nat /\ EpochStart(w) + EpochLen > w
  BY <1>1, ModFacts DEF EpochStart
<1>5. Match(t, w) = IF EpochStart(w) + v >= w + RunAhead
                    THEN EpochStart(w) + v ELSE EpochStart(w) + v + EpochLen
  BY DEF Match
<1> HIDE DEF v
<1> QED BY <1>1, <1>3, <1>4, <1>5

\* taskListCleanup writes times.
LEMMA RetimedType ==
  ASSUME NEW h, NEW t \in Nat, time \in [Nodes -> Nat]
  PROVE  Retimed(h, t) \in [Nodes -> Nat]
<1> SUFFICES ASSUME NEW n \in Nodes
             PROVE  t + Cardinality(Before(h, n)) * RecoverStep \in Nat
  BY DEF Retimed
<1>1. Before(h, n) \in SUBSET Nodes
  BY ReachableNodes DEF Before
<1>2. Cardinality(Before(h, n)) \in Nat
  BY <1>1, NodeFacts, FS_Subset, FS_CardinalityType
<1>3. \A x, y \in Nat : x * y \in Nat
  BY SMT
<1> QED BY <1>2, <1>3, SchedulerAssumption

----------------------------------------------------------------------------
(* The type invariant.                                                     *)

\* What Insert and TaskReturns do to the links keeps them links.
LEMMA LinkType ==
  ASSUME NEW n \in Nodes, NEW t, NEW count \in Int,
         head \in Nodes \union {NULL}, next \in Links, Link(n, t, count)
  PROVE  /\ head' \in Nodes \union {NULL}
         /\ next' \in Links
         /\ num_tasks' \in Int
<1> DEFINE nxt == [next EXCEPT ![n] = head]
<1>1. nxt \in Links
  BY DEF Links
<1>2. CASE head' = n /\ next' = nxt /\ num_tasks' = count + 1
  BY <1>1, <1>2
<1>3. ASSUME UNCHANGED head, NEW m \in Nodes,
             \/ /\ next' = [nxt EXCEPT ![n] = nxt[m], ![m] = n]
                /\ num_tasks' = count + 1
             \/ /\ next' = nxt
                /\ num_tasks' = count
      PROVE  head' \in Nodes \union {NULL} /\ next' \in Links /\ num_tasks' \in Int
  <2>1. nxt[m] \in Nodes \union {NULL}
    BY <1>1 DEF Links
  <2> HIDE DEF nxt
  <2>2. [nxt EXCEPT ![n] = nxt[m], ![m] = n] \in Links
    BY <1>1, <2>1 DEF Links
  <2> QED BY <1>1, <1>3, <2>2
<1>4. \A m \in Walked(nxt, t) : m \in Nodes
  BY ReachableNodes DEF Walked
<1> QED BY <1>2, <1>3, <1>4 DEF Link

\* The compare register is armed for a time ahead.
LEMMA ArmType ==
  ASSUME NEW t \in Nat, now \in Nat, alarm \in Nat, alarm > now, comp_if \in BOOLEAN,
         Arm(t)
  PROVE  alarm' \in Nat /\ alarm' > now /\ comp_en' \in BOOLEAN /\ comp_if' \in BOOLEAN
BY MatchAhead DEF Arm

\* removeTask keeps the types of what it writes.
LEMMA UnlinkType ==
  ASSUME NEW n \in Nodes, TypeOK, Unlink(n)
  PROVE  /\ used' \subseteq Slots
         /\ time' \in [Nodes -> Nat] /\ period' \in [Nodes -> Nat]
         /\ next' \in [Nodes -> Nodes \union {NULL}]
         /\ head' \in Nodes \union {NULL}
         /\ num_tasks' \in Int
<1> USE DEF TypeOK
<1>1. ASSUME NEW nxt \in Links, Free(n, nxt)
      PROVE  /\ used' \subseteq Slots
             /\ time' \in [Nodes -> Nat] /\ period' \in [Nodes -> Nat]
             /\ next' \in [Nodes -> Nodes \union {NULL}]
  BY <1>1 DEF Free, Links
<1>2. next \in Links /\ next[n] \in Nodes \union {NULL}
  BY DEF Links
<1>3. ASSUME NEW m \in Listed
      PROVE  [next EXCEPT ![m] = next[n]] \in Links
  BY <1>2 DEF Links
<1>4. CASE head = n /\ head' = next[n] /\ num_tasks' = num_tasks - 1 /\ Free(n, next)
  BY <1>1, <1>2, <1>4
<1>5. CASE /\ \E m \in Listed : Free(n, [next EXCEPT ![m] = next[n]])
           /\ num_tasks' = num_tasks - 1
           /\ UNCHANGED head
  <2>1. PICK m \in Listed : Free(n, [next EXCEPT ![m] = next[n]])
    BY <1>5
  <2>2. [next EXCEPT ![m] = next[n]] \in Links
    BY <1>3
  <2> QED BY <1>1, <1>5, <2>1, <2>2
<1>6. CASE Free(n, next) /\ UNCHANGED <<head, num_tasks>>
  BY <1>1, <1>2, <1>6
<1> QED BY <1>4, <1>5, <1>6 DEF Unlink

\* The start: an empty table and list, the compare interrupt off.
LEMMA TypeInit == Init => TypeOK
<1> SUFFICES ASSUME Init PROVE TypeOK
  OBVIOUS
<1>1. Idle \in [pc : {"idle", "insert", "period", "cleanup"},
                node : Nodes \union {NULL}, val : Nat]
  BY DEF Idle
<1>2. /\ op \in [Contexts -> [pc : {"idle", "insert", "period", "cleanup"},
                              node : Nodes \union {NULL}, val : Nat]]
      /\ \A c \in Contexts : op[c].pc \in {"insert", "period"} => op[c].node \in Nodes
  BY <1>1 DEF Init, Idle
<1>3. time \in [Nodes -> Nat] /\ period \in [Nodes -> Nat]
  BY DEF Init
<1>4. next \in [Nodes -> Nodes \union {NULL}]
  BY DEF Init
<1>5. EpochLen \in Nat /\ EpochLen > 0 /\ 0 \in 0 .. MaxCalls
  BY SchedulerAssumption
<1>6. now \in Nat /\ alarm \in Nat /\ alarm > now /\ calls \in 0 .. MaxCalls
  BY <1>5 DEF Init
<1>7. comp_en \in BOOLEAN /\ comp_if \in BOOLEAN /\ used \subseteq Slots
  BY DEF Init
<1>8. /\ num_tasks \in Int /\ head \in Nodes \union {NULL}
      /\ comp \in {"off", "loop", "body", "leaving"}
      /\ cur \in IF comp \in {"body", "leaving"} THEN Nodes ELSE {NULL}
  BY DEF Init
<1> QED BY <1>2, <1>3, <1>4, <1>6, <1>7, <1>8 DEF TypeOK

\* Filling a slot keeps the types, also when it fails or the address is wild.
LEMMA TypeAllocate ==
  ASSUME TypeOK, NEW c \in Contexts, NEW t \in Nat, NEW p \in Nat, Allocate(c, t, p)
  PROVE  TypeOK'
<1> USE DEF TypeOK
<1>1. calls' \in 0 .. MaxCalls /\ now' = now /\ comp' = comp /\ cur' = cur
  BY SchedulerAssumption DEF Allocate, isr
<1>2. CASE AtLimit /\ UNCHANGED <<clock, store, op>>
  BY <1>1, <1>2 DEF clock, store
<1>3. CASE /\ used # Slots
           /\ used' = used \union {FirstFree}
           /\ time' = [time EXCEPT ![FirstFree] = t]
           /\ next' = [next EXCEPT ![FirstFree] = NULL]
           /\ op' = [op EXCEPT ![c] = [pc |-> "insert", node |-> FirstFree, val |-> p]]
           /\ UNCHANGED <<clock, period, head, num_tasks>>
  <2>1. FirstFree \in Slots /\ FirstFree \in Nodes
    BY <1>3, FirstFreeSlot, NodeFacts
  <2> QED BY <1>1, <1>3, <2>1 DEF clock
<1>4. CASE /\ CleanupArm(head, now + RecoverStep)
           /\ time' = [Retimed(head, now + RecoverStep) EXCEPT ![Wild] = t]
           /\ next' = [next EXCEPT ![Wild] = NULL]
           /\ op' = [op EXCEPT ![c] = [pc |-> "insert", node |-> Wild, val |-> p]]
           /\ UNCHANGED <<used, period, head, num_tasks>>
  <2>1. now + RecoverStep \in Nat
    BY SchedulerAssumption
  <2>2. Retimed(head, now + RecoverStep) \in [Nodes -> Nat]
    BY <2>1, RetimedType
  <2>3. alarm' \in Nat /\ alarm' > now /\ comp_en' \in BOOLEAN /\ comp_if' \in BOOLEAN
    BY <2>1, <1>4, ArmType DEF CleanupArm
  <2> QED BY <1>1, <1>4, <2>2, <2>3, NodeFacts
<1> QED BY <1>2, <1>3, <1>4 DEF Allocate

\* The calls of the interface keep the types.
LEMMA TypeCall ==
  ASSUME TypeOK, NEW c \in Contexts, Call(c)
  PROVE  TypeOK'
<1>1. ASSUME NEW d \in Delays, scheduleTask(c, d)
      PROVE  TypeOK'
  <2>1. now + AtLeast(d, MinFuture) \in Nat
    BY SchedulerAssumption DEF TypeOK, AtLeast
  <2> QED BY <1>1, <2>1, TypeAllocate DEF scheduleTask
<1>2. ASSUME NEW r \in Periods, schedulePeriodicTask(c, r)
      PROVE  TypeOK'
  <2> DEFINE p == AtLeast(r, MinFuture)
  <2>1. p \in Nat \ {0}
    BY SchedulerAssumption DEF AtLeast
  <2>2. Allocate(c, ((now \div p) + 1) * p, p)
    BY <1>2 DEF schedulePeriodicTask
  <2> HIDE DEF p
  <2>3. ((now \div p) + 1) * p \in Nat
    BY <2>1, ModFacts DEF TypeOK
  <2> QED BY <2>1, <2>2, <2>3, TypeAllocate
<1>3. ASSUME NEW n \in Nodes, removeTask(c, n)
      PROVE  TypeOK'
  BY <1>3, UnlinkType DEF removeTask, TypeOK, clock, isr
<1> QED BY <1>1, <1>2, <1>3 DEF Call

\* The main loop's check and cleanup keep the types.
LEMMA TypeMain ==
  ASSUME TypeOK, Main
  PROVE  TypeOK'
<1> USE DEF TypeOK
<1>1. CASE MainCheck
  BY <1>1, SchedulerAssumption DEF MainCheck, Contexts, clock, store, isr
<1>2. CASE MainCleanup
  <2>1. op["main"].val \in Nat
    BY DEF Contexts
  <2>2. time' \in [Nodes -> Nat]
    BY <1>2, <2>1, RetimedType DEF MainCleanup
  <2>3. alarm' \in Nat /\ alarm' > now /\ comp_en' \in BOOLEAN /\ comp_if' \in BOOLEAN
    BY <1>2, <2>1, ArmType DEF MainCleanup, CleanupArm
  <2> QED BY <1>2, <2>2, <2>3 DEF MainCleanup, Contexts, Idle, isr
<1> QED BY <1>1, <1>2 DEF Main

\* The compare interrupt and run_tasks keep the types.
LEMMA TypeCompISR ==
  ASSUME TypeOK, CompISR
  PROVE  TypeOK'
<1>1. CASE StartTask
  BY <1>1, NodeFacts DEF StartTask, Due, TypeOK, clock
<1>2. CASE AbortLoop
  BY <1>2 DEF AbortLoop, TypeOK, clock, store
<1>3. CASE EndLoop
  <2>1. alarm' \in Nat /\ alarm' > now /\ comp_en' \in BOOLEAN /\ comp_if' \in BOOLEAN
    BY <1>3, ArmType DEF EndLoop, HeadTime, TypeOK
  <2> QED BY <1>3, <2>1 DEF EndLoop, TypeOK, store
<1>4. CASE TaskReturns
  <2>1. cur \in Nodes /\ time[cur] \in Nat /\ period[cur] \in Nat
    BY <1>4 DEF TaskReturns, TypeOK
  <2>2. /\ used' \subseteq Slots
        /\ time' \in [Nodes -> Nat] /\ period' \in [Nodes -> Nat]
        /\ next' \in [Nodes -> Nodes \union {NULL}]
        /\ head' \in Nodes \union {NULL}
        /\ num_tasks' \in Int
    <3>1. CASE period[cur] > 0
      <4> DEFINE t == ((time[cur] \div period[cur]) + 1) * period[cur]
      <4>1. t \in Nat
        BY <2>1, <3>1, ModFacts
      <4>2. /\ time' = [time EXCEPT ![cur] = t]
            /\ Link(cur, t, num_tasks - 1)
            /\ UNCHANGED <<used, period>>
        BY <1>4, <3>1 DEF TaskReturns
      <4> HIDE DEF t
      <4> QED BY <2>1, <4>1, <4>2, LinkType DEF TypeOK, Links
    <3>2. CASE ~(period[cur] > 0)
      BY <1>4, <2>1, <3>2 DEF TaskReturns, TypeOK, Free
    <3> QED BY <3>1, <3>2
  <2> QED BY <1>4, <2>2 DEF TaskReturns, TypeOK, clock
<1> QED BY <1>1, <1>2, <1>3, <1>4 DEF CompISR

\* The counter and its overflow interrupt keep the types.
LEMMA TypeClock ==
  ASSUME TypeOK, Tick \/ Overflow
  PROVE  TypeOK'
<1> USE DEF TypeOK
<1>1. now' = now + 1 /\ comp_if' \in BOOLEAN
  BY DEF Tick, Overflow, Count
<1>2. EpochLen \in Nat \ {0}
  BY SchedulerAssumption
<1>3. alarm' \in Nat /\ alarm' > now' /\ comp_en' \in BOOLEAN
  <2>1. \/ /\ alarm' = IF alarm = now' THEN alarm + EpochLen ELSE alarm
           /\ comp_en' = comp_en
        \/ /\ alarm' = Match(HeadTime, now')
           /\ comp_en' = TRUE
    <3>1. CASE Tick
      BY <3>1, Zenon DEF Tick
    <3>2. CASE Overflow
      <4>1. CASE /\ head # NULL /\ HeadTime < EpochEnd(now')
                 /\ ~task_executing /\ HeadTime >= now'
        BY <3>2, <4>1, Zenon DEF Overflow
      <4>2. CASE ~ /\ head # NULL /\ HeadTime < EpochEnd(now')
                   /\ ~task_executing /\ HeadTime >= now'
        BY <3>2, <4>2, Zenon DEF Overflow
      <4> QED BY <4>1, <4>2
    <3> QED BY <3>1, <3>2
  <2>2. HeadTime \in Nat /\ now' \in Nat
    BY <1>1 DEF HeadTime
  <2>3. Match(HeadTime, now') \in Nat /\ Match(HeadTime, now') > now'
    BY <2>2, MatchAhead
  <2>4. comp_en' \in BOOLEAN
    BY <2>1, Zenon
  <2>5. alarm' = (IF alarm = now' THEN alarm + EpochLen ELSE alarm)
        \/ alarm' = Match(HeadTime, now')
    BY <2>1, Zenon
  <2>6. now \in Nat /\ alarm \in Nat /\ alarm > now
    OBVIOUS
  <2>7. alarm' \in Nat /\ alarm' > now'
    BY <1>1, <1>2, <2>3, <2>5, <2>6
  <2> QED BY <2>4, <2>7
<1> QED BY <1>1, <1>3 DEF Tick, Overflow, store, isr

\* Every step keeps the types.
LEMMA TypeNext ==
  ASSUME TypeOK, [Next]_vars
  PROVE  TypeOK'
<1>1. ASSUME NEW c \in Callers, Call(c)
      PROVE  TypeOK'
  BY <1>1, TypeCall, SchedulerAssumption
<1>2. ASSUME NEW c \in Contexts, Insert(c)
      PROVE  TypeOK'
  <2> DEFINE n == op[c].node
  <2>1. n \in Nodes /\ time[n] \in Nat /\ op[c].val \in Nat
    BY <1>2 DEF Insert, TypeOK
  <2>2. head' \in Nodes \union {NULL} /\ next' \in Links /\ num_tasks' \in Int
    BY <1>2, <2>1, LinkType DEF Insert, TypeOK, Links
  <2>3. alarm' \in Nat /\ alarm' > now /\ comp_en' \in BOOLEAN /\ comp_if' \in BOOLEAN
    BY <1>2, <2>1, ArmType DEF Insert, TypeOK, clock
  <2> QED BY <1>2, <2>1, <2>2, <2>3 DEF Insert, TypeOK, isr, Links
<1>3. ASSUME NEW c \in Contexts, SetPeriod(c)
      PROVE  TypeOK'
  BY <1>3 DEF SetPeriod, TypeOK, Idle, clock, isr
<1>4. CASE removeSelf
  BY <1>4, UnlinkType DEF removeSelf, Runs, TypeOK, clock
<1>5. CASE CompInterrupt
  BY <1>5 DEF CompInterrupt, TypeOK, store
<1>6. CASE UNCHANGED vars
  BY <1>6 DEF vars, TypeOK, clock, store, isr
<1> QED BY <1>1, <1>2, <1>3, <1>4, <1>5, <1>6, TypeMain, TypeCompISR, TypeClock DEF Next, Work

\* The variables keep their types, the compare register never waits for a match
\* that has passed, and cur_task is a node exactly while a task executes; also
\* for clients that overflow the task table or remove the running task.
THEOREM TypeCorrect == Spec => []TypeOK
<1>1. Init => TypeOK
  BY TypeInit
<1>2. TypeOK /\ [Next]_vars => TypeOK'
  BY TypeNext
<1> QED BY <1>1, <1>2, PTL DEF Spec

----------------------------------------------------------------------------
(* The count of tasks, whatever the callers do.                            *)

\* The contexts that have a slot but have not linked it yet.
Pending == {c \in Contexts : op[c].pc = "insert"}

\* CountInRange is not inductive: a task that has passed the test for the limit is
\* counted only later.  Every caller may have one such task under way.
CountInv ==
  /\ TypeOK
  /\ Pending \subseteq Callers
  /\ num_tasks + Cardinality(Pending)
       <= MAX_NUM_SCHEDULED_TASKS + Cardinality(Callers) - 1

\* There are finitely many contexts, and no more pending calls than callers.
LEMMA PendingFacts ==
  ASSUME NEW P \in SUBSET Callers
  PROVE  /\ IsFiniteSet(P) /\ Cardinality(P) \in Nat /\ Cardinality(Callers) \in Nat
         /\ Cardinality(P) <= Cardinality(Callers)
<1>1. IsFiniteSet(Contexts)
  <2>1. IsFiniteSet({"main"})
    BY FS_Singleton
  <2>2. IsFiniteSet({"main"} \union {"task"})
    BY <2>1, FS_AddElement
  <2>3. IsFiniteSet(({"main"} \union {"task"}) \union {"med"})
    BY <2>2, FS_AddElement
  <2>4. IsFiniteSet((({"main"} \union {"task"}) \union {"med"}) \union {"hi"})
    BY <2>3, FS_AddElement
  <2>5. Contexts = (({"main"} \union {"task"}) \union {"med"}) \union {"hi"}
    BY DEF Contexts
  <2> QED BY <2>4, <2>5
<1>2. IsFiniteSet(Callers)
  BY <1>1, FS_Subset, SchedulerAssumption
<1> QED BY <1>2, FS_Subset, FS_CardinalityType

\* A step that links nothing and claims nothing.
LEMMA CountSame ==
  ASSUME CountInv, TypeOK', Pending' = Pending, num_tasks' <= num_tasks
  PROVE  CountInv'
<1>1. Cardinality(Pending) \in Nat /\ Cardinality(Callers) \in Nat
  BY PendingFacts DEF CountInv
<1>2. num_tasks \in Int /\ num_tasks' \in Int
  BY DEF CountInv, TypeOK
<1> HIDE DEF Pending
<1> QED BY <1>1, <1>2, SchedulerAssumption DEF CountInv

\* add_task_to_list counts at most one task.
LEMMA LinkCounts ==
  ASSUME NEW n, NEW t, NEW count \in Int, Link(n, t, count)
  PROVE  num_tasks' = count + 1 \/ num_tasks' = count
BY DEF Link

\* removeTask counts none.
LEMMA UnlinkCounts ==
  ASSUME TypeOK, NEW n, Unlink(n)
  PROVE  num_tasks' \in Int /\ num_tasks' <= num_tasks
<1>1. num_tasks \in Int
  BY DEF TypeOK
<1>2. num_tasks' = num_tasks - 1 \/ num_tasks' = num_tasks
  BY DEF Unlink
<1> QED BY <1>1, <1>2

\* schedule_task_absolute_time: below the limit one more call is pending.
LEMMA CountAllocate ==
  ASSUME CountInv, TypeOK', NEW c \in Callers, NEW t, NEW p, Allocate(c, t, p)
  PROVE  CountInv'
<1>1. TypeOK /\ c \in Contexts
  BY SchedulerAssumption DEF CountInv
<1>2. CASE UNCHANGED <<clock, store, op>>
  <2>1. num_tasks' = num_tasks /\ op' = op /\ num_tasks \in Int
    BY <1>1, <1>2 DEF store, TypeOK
  <2>2. Pending' = Pending /\ num_tasks' <= num_tasks
    BY <2>1 DEF Pending
  <2> QED BY <2>2, CountSame
<1>3. ASSUME ~AtLimit, num_tasks' = num_tasks, NEW n,
             op' = [op EXCEPT ![c] = [pc |-> "insert", node |-> n, val |-> p]]
      PROVE  CountInv'
  <2>1. Pending' \subseteq Callers
    BY <1>1, <1>3 DEF Pending, CountInv, TypeOK
  <2>2. num_tasks' \in Int /\ num_tasks' <= MAX_NUM_SCHEDULED_TASKS - 1
    BY <1>1, <1>3, SchedulerAssumption DEF AtLimit, TypeOK
  <2>3. /\ Cardinality(Pending') \in Nat /\ Cardinality(Callers) \in Nat
        /\ Cardinality(Pending') <= Cardinality(Callers)
    BY <2>1, PendingFacts
  <2>4. num_tasks' + Cardinality(Pending')
          <= MAX_NUM_SCHEDULED_TASKS + Cardinality(Callers) - 1
    <3> HIDE DEF Pending
    <3> QED BY <2>2, <2>3, SchedulerAssumption
  <2> QED BY <2>1, <2>4 DEF CountInv
<1> QED BY <1>2, <1>3 DEF Allocate

\* add_task_to_list: a pending call is counted.
LEMMA CountInsert ==
  ASSUME CountInv, TypeOK', NEW c \in Contexts, Insert(c)
  PROVE  CountInv'
<1>1. TypeOK /\ op[c].pc = "insert" /\ Pending \subseteq Callers
  BY DEF CountInv, Insert
<1>2. Pending' = Pending \ {c} /\ c \in Pending
  BY <1>1 DEF Insert, Pending, TypeOK
<1>3. num_tasks \in Int /\ (num_tasks' = num_tasks + 1 \/ num_tasks' = num_tasks)
  BY <1>1, LinkCounts DEF Insert, TypeOK
<1>4. /\ Cardinality(Pending) \in Nat /\ Cardinality(Callers) \in Nat
      /\ Cardinality(Pending \ {c}) = Cardinality(Pending) - 1
  BY <1>1, <1>2, PendingFacts, FS_RemoveElement
<1>5. num_tasks' + Cardinality(Pending')
        <= MAX_NUM_SCHEDULED_TASKS + Cardinality(Callers) - 1
  <2> HIDE DEF Pending
  <2> QED BY <1>2, <1>3, <1>4, SchedulerAssumption DEF CountInv
<1>6. Pending' \subseteq Callers
  BY <1>1, <1>2
<1> QED BY <1>5, <1>6 DEF CountInv

\* Every step keeps the invariant of the count.
LEMMA CountNext ==
  ASSUME CountInv, [Next]_vars
  PROVE  CountInv'
<1>1. TypeOK /\ TypeOK' /\ num_tasks \in Int
  BY TypeNext DEF CountInv, TypeOK
<1>2. ASSUME op' = op, num_tasks' \in Int, num_tasks' <= num_tasks
      PROVE  CountInv'
  BY <1>1, <1>2, CountSame DEF Pending
<1>3. ASSUME NEW c \in Callers, Call(c)
      PROVE  CountInv'
  <2>1. ASSUME NEW d \in Delays, scheduleTask(c, d)
        PROVE  CountInv'
    BY <1>1, <2>1, CountAllocate DEF scheduleTask
  <2>2. ASSUME NEW r \in Periods, schedulePeriodicTask(c, r)
        PROVE  CountInv'
    BY <1>1, <2>2, CountAllocate DEF schedulePeriodicTask
  <2>3. ASSUME NEW n \in Nodes, removeTask(c, n)
        PROVE  CountInv'
    BY <1>1, <1>2, <2>3, UnlinkCounts DEF removeTask
  <2> QED BY <1>3, <2>1, <2>2, <2>3 DEF Call
<1>4. ASSUME NEW c \in Contexts, Insert(c)
      PROVE  CountInv'
  BY <1>1, <1>4, CountInsert
<1>5. ASSUME NEW c \in Contexts, SetPeriod(c)
      PROVE  CountInv'
  <2>1. Pending' = Pending
    BY <1>1, <1>5 DEF SetPeriod, Pending, TypeOK, Idle
  <2> QED BY <1>1, <1>5, <2>1, CountSame DEF SetPeriod
<1>6. CASE removeSelf
  BY <1>1, <1>2, <1>6, UnlinkCounts DEF removeSelf
<1>7. CASE MainCheck
  <2>1. Pending' = Pending
    BY <1>1, <1>7 DEF MainCheck, Pending, TypeOK, Idle
  <2>2. num_tasks' = num_tasks
    BY <1>7 DEF MainCheck, store
  <2> QED BY <1>1, <2>1, <2>2, CountSame
<1>8. CASE MainCleanup
  <2>1. Pending' = Pending
    BY <1>1, <1>8 DEF MainCleanup, Pending, TypeOK, Idle
  <2> QED BY <1>1, <1>8, <2>1, CountSame DEF MainCleanup
<1>9. CASE TaskReturns
  <2>1. num_tasks' = num_tasks - 1 \/ num_tasks' = num_tasks
    <3>1. CASE period[cur] > 0
      <4>1. PICK t : Link(cur, t, num_tasks - 1)
        BY <1>9, <3>1 DEF TaskReturns
      <4>2. num_tasks - 1 \in Int
        BY <1>1
      <4> QED BY <1>1, <4>1, <4>2, LinkCounts
    <3>2. CASE ~(period[cur] > 0)
      BY <1>9, <3>2 DEF TaskReturns
    <3> QED BY <3>1, <3>2
  <2> QED BY <1>1, <1>2, <1>9, <2>1 DEF TaskReturns
<1>10. CASE CompInterrupt \/ StartTask \/ AbortLoop \/ EndLoop \/ Tick \/ Overflow
  <2>1. op' = op /\ num_tasks' = num_tasks
    BY <1>10 DEF CompInterrupt, StartTask, AbortLoop, EndLoop, Tick, Overflow, store
  <2> QED BY <1>1, <1>2, <2>1
<1>11. CASE UNCHANGED vars
  BY <1>1, <1>2, <1>11 DEF vars, store
<1> QED
  BY <1>3, <1>4, <1>5, <1>6, <1>7, <1>8, <1>9, <1>10, <1>11 DEF Next, Work, Main, CompISR

\* num_tasks never exceeds the number of slots by more than the callers that can
\* be nested in their calls, for callers of every level that find the table full
\* at any moment, overflow it or remove the running task: the limit that
\* scheduler_malloc tests before the task is counted is crossed by no more.
THEOREM CountStaysInRange == Spec => []CountInRange
<1>1. Init => CountInv
  <2> SUFFICES ASSUME Init PROVE CountInv
    OBVIOUS
  <2>1. Pending = {} /\ num_tasks = 0
    BY DEF Init, Pending, Idle
  <2>2. Cardinality(Pending) = 0 /\ Cardinality(Callers) \in Nat
    BY <2>1, PendingFacts, FS_EmptySet
  <2>3. num_tasks + Cardinality(Pending)
          <= MAX_NUM_SCHEDULED_TASKS + Cardinality(Callers) - 1
    <3> HIDE DEF Pending
    <3> QED BY <2>1, <2>2, SchedulerAssumption
  <2> QED BY <2>1, <2>3, TypeInit DEF CountInv
<1>2. CountInv /\ [Next]_vars => CountInv'
  BY CountNext
<1>3. CountInv => CountInRange
  <2> SUFFICES ASSUME CountInv PROVE CountInRange
    OBVIOUS
  <2>1. num_tasks \in Int /\ Cardinality(Pending) \in Nat /\ Cardinality(Callers) \in Nat
    BY PendingFacts DEF CountInv, TypeOK
  <2> HIDE DEF Pending
  <2> QED BY <2>1, SchedulerAssumption DEF CountInv, CountInRange
<1> QED BY <1>1, <1>2, <1>3, PTL DEF Spec

-----------------------------------------------------------------------------
(***************************************************************************)
(* What the edits of the linked list do to the set of its nodes.           *)
(* The facts are about any head h and any links nxt, so that they serve    *)
(* for add_task_to_list, removeTask and the pop of run_tasks alike.        *)
(***************************************************************************)

\* What is met behind the first node is met from a node before it.
LEMMA ReachablePredecessor ==
  ASSUME NEW h \in Nodes \union {NULL}, NEW nxt \in Links,
         NEW n \in Reachable(h, nxt), n # h
  PROVE  \E m \in Reachable(h, nxt) : m # n /\ nxt[m] = n
<1> DEFINE R == Reachable(h, nxt)
<1>1. SUFFICES ASSUME \A m \in R : m # n => nxt[m] # n
               PROVE  FALSE
  OBVIOUS
<1>2. R \ {n} \in Closed(h, nxt)
  BY <1>1, ReachableClosed, ReachableNodes DEF Closed
<1> QED BY <1>2, ReachableLeast

\* The nodes met from h form one chain: none leads back to h, and no two have
\* the same successor.
Chain(h, nxt) ==
  LET R == Reachable(h, nxt)
  IN  /\ \A m \in R : nxt[m] # h
      /\ \A m, k \in R : nxt[m] = nxt[k] /\ nxt[m] # NULL => m = k

\* No node of a chain is linked to itself.
LEMMA ChainNoSelf ==
  ASSUME NEW h \in Nodes \union {NULL}, NEW nxt \in Links, Chain(h, nxt),
         NEW n \in Reachable(h, nxt)
  PROVE  nxt[n] # n
<1>1. SUFFICES ASSUME nxt[n] = n, n # h
               PROVE  FALSE
  BY DEF Chain
<1>2. PICK m \in Reachable(h, nxt) : m # n /\ nxt[m] = n
  BY <1>1, ReachablePredecessor
<1> QED BY <1>1, <1>2, ReachableNodes, NodeFacts DEF Chain

\* Writing the links of nodes outside the list does not change the list.
LEMMA ReachableSame ==
  ASSUME NEW h \in Nodes \union {NULL}, NEW nxt \in Links, NEW nxt2 \in Links,
         \A m \in Reachable(h, nxt) : nxt2[m] = nxt[m]
  PROVE  /\ Reachable(h, nxt2) = Reachable(h, nxt)
         /\ Chain(h, nxt) => Chain(h, nxt2)
<1>1. Reachable(h, nxt) \in Closed(h, nxt2)
  BY ReachableClosed DEF Closed
<1>2. Reachable(h, nxt2) \subseteq Reachable(h, nxt)
  BY <1>1, ReachableLeast
<1>3. Reachable(h, nxt2) \in Closed(h, nxt)
  BY <1>2, ReachableClosed DEF Closed
<1>4. Reachable(h, nxt) \subseteq Reachable(h, nxt2)
  BY <1>3, ReachableLeast
<1> QED BY <1>2, <1>4 DEF Chain

\* add_task_to_list before the head: the new node joins the list, which stays a
\* chain.
LEMMA PutFirst ==
  ASSUME NEW h \in Nodes \union {NULL}, NEW nxt \in Links, NEW nxt2 \in Links,
         NEW n \in Nodes \ Reachable(h, nxt),
         nxt2[n] = h,
         \A k \in Reachable(h, nxt) : nxt2[k] = nxt[k]
  PROVE  /\ Reachable(n, nxt2) = Reachable(h, nxt) \union {n}
         /\ Chain(h, nxt) => Chain(n, nxt2)
<1> DEFINE R  == Reachable(h, nxt)
           R2 == Reachable(n, nxt2)
<1>1. R \in Closed(h, nxt) /\ R2 \in Closed(n, nxt2)
  BY ReachableClosed
<1>2. R2 \subseteq R \union {n}
  <2>1. R \union {n} \in Closed(n, nxt2)
    BY <1>1 DEF Closed
  <2> QED BY <2>1, ReachableLeast
<1>3. n \in R2
  BY <1>1, NodeFacts DEF Closed
<1>4. R2 \intersect R \in Closed(h, nxt)
  BY <1>1, <1>3 DEF Closed
<1>5. R \subseteq R2
  BY <1>4, ReachableLeast
<1>6. R2 = R \union {n}
  BY <1>2, <1>3, <1>5
<1>7. \A k \in R : nxt[k] \in R \union {NULL}
  BY <1>1 DEF Closed
<1>8. h # n
  BY <1>1, NodeFacts DEF Closed
<1> HIDE DEF R, R2
<1>9. ASSUME Chain(h, nxt)
      PROVE  Chain(n, nxt2)
  <2>1. \A m \in R2 : nxt2[m] # n
    BY <1>6, <1>7, <1>8, NodeFacts DEF R
  <2>2. \A m, k \in R2 : nxt2[m] = nxt2[k] /\ nxt2[m] # NULL => m = k
    BY <1>6, <1>9 DEF R, Chain
  <2> QED BY <2>1, <2>2 DEF Chain, R2
<1> QED BY <1>6, <1>9 DEF R, R2

\* The same behind a node m of the list.
LEMMA PutBehind ==
  ASSUME NEW h \in Nodes \union {NULL}, NEW nxt \in Links, NEW nxt2 \in Links,
         NEW m \in Reachable(h, nxt),
         NEW n \in Nodes \ Reachable(h, nxt),
         nxt2[n] = nxt[m], nxt2[m] = n,
         \A k \in Reachable(h, nxt) \ {m} : nxt2[k] = nxt[k]
  PROVE  /\ Reachable(h, nxt2) = Reachable(h, nxt) \union {n}
         /\ Chain(h, nxt) => Chain(h, nxt2)
<1> DEFINE R  == Reachable(h, nxt)
           R2 == Reachable(h, nxt2)
<1>1. R \in Closed(h, nxt) /\ R2 \in Closed(h, nxt2)
  BY ReachableClosed
<1>2. R2 \subseteq R \union {n}
  <2>1. R \union {n} \in Closed(h, nxt2)
    BY <1>1 DEF Closed
  <2> QED BY <2>1, ReachableLeast
<1>3. R2 \intersect R \in Closed(h, nxt)
  <2>1. m \in R2 => nxt[m] \in R2 \union {NULL}
    BY <1>1, NodeFacts DEF Closed
  <2> QED BY <1>1, <2>1 DEF Closed
<1>4. R \subseteq R2
  BY <1>3, ReachableLeast
<1>5. n \in R2
  BY <1>1, <1>4, NodeFacts DEF Closed
<1>6. R2 = R \union {n}
  BY <1>2, <1>4, <1>5
<1>7. \A k \in R : nxt[k] \in R \union {NULL}
  BY <1>1 DEF Closed
<1>8. h # n
  BY <1>1, NodeFacts DEF Closed
<1> HIDE DEF R, R2
<1>9. ASSUME Chain(h, nxt)
      PROVE  Chain(h, nxt2)
  <2>1. \A j \in R2 : nxt2[j] # h
    BY <1>6, <1>8, <1>9 DEF R, Chain
  <2>2. \A j, k \in R2 : nxt2[j] = nxt2[k] /\ nxt2[j] # NULL => j = k
    <3> SUFFICES ASSUME NEW j \in R2, NEW k \in R2, nxt2[j] = nxt2[k], nxt2[j] # NULL
                 PROVE  j = k
      OBVIOUS
    <3>1. \A i \in R \ {m} : nxt2[i] # n
      BY <1>7, NodeFacts DEF R
    <3>2. nxt[m] # n
      BY <1>7, NodeFacts DEF R
    <3> QED BY <1>6, <1>9, <3>1, <3>2 DEF R, Chain
  <2> QED BY <2>1, <2>2 DEF Chain, R2
<1> QED BY <1>6, <1>9 DEF R, R2

\* The head is taken from the list: by run_tasks, or by removeTask.
LEMMA DropFirst ==
  ASSUME NEW h \in Nodes, NEW nxt \in Links, NEW nxt2 \in Links,
         Chain(h, nxt),
         \A k \in Reachable(h, nxt) \ {h} : nxt2[k] = nxt[k]
  PROVE  /\ Reachable(nxt[h], nxt2) = Reachable(h, nxt) \ {h}
         /\ Chain(nxt[h], nxt2)
<1> DEFINE R  == Reachable(h, nxt)
           R2 == Reachable(nxt[h], nxt2)
<1>0. nxt[h] \in Nodes \union {NULL}
  BY DEF Links
<1>1. R \in Closed(h, nxt) /\ R2 \in Closed(nxt[h], nxt2)
  BY <1>0, ReachableClosed
<1>2. h \in R
  BY <1>1, NodeFacts DEF Closed
<1>3. \A k \in R : nxt[k] # h /\ nxt[k] \in R \union {NULL}
  BY <1>1 DEF Closed, Chain
<1>4. R2 \subseteq R \ {h}
  <2>1. R \ {h} \in Closed(nxt[h], nxt2)
    BY <1>1, <1>2, <1>3 DEF Closed
  <2> QED BY <2>1, ReachableLeast
<1>5. R \subseteq R2 \union {h}
  <2>1. R2 \union {h} \in Closed(h, nxt)
    BY <1>1, <1>4 DEF Closed
  <2> QED BY <2>1, ReachableLeast
<1>6. R2 = R \ {h}
  BY <1>4, <1>5
<1> HIDE DEF R, R2
<1>7. Chain(nxt[h], nxt2)
  <2>0. nxt[h] = NULL => R2 = {}
    <3>1. {} \in Closed(NULL, nxt2)
      BY DEF Closed
    <3> QED BY <3>1, ReachableLeast DEF R2
  <2>1. \A m \in R2 : nxt2[m] # nxt[h]
    BY <2>0, <1>2, <1>3, <1>6 DEF R, Chain
  <2>2. \A m, k \in R2 : nxt2[m] = nxt2[k] /\ nxt2[m] # NULL => m = k
    BY <1>6 DEF R, Chain
  <2> QED BY <2>1, <2>2 DEF Chain, R2
<1> QED BY <1>6, <1>7 DEF R, R2

\* A node n behind m is taken out of the list by removeTask.
LEMMA DropNext ==
  ASSUME NEW h \in Nodes \union {NULL}, NEW nxt \in Links, NEW nxt2 \in Links,
         Chain(h, nxt),
         NEW m \in Reachable(h, nxt), NEW n \in Reachable(h, nxt),
         nxt[m] = n, nxt2[m] = nxt[n],
         \A k \in Reachable(h, nxt) \ {m, n} : nxt2[k] = nxt[k]
  PROVE  /\ Reachable(h, nxt2) = Reachable(h, nxt) \ {n}
         /\ Chain(h, nxt2)
<1> DEFINE R  == Reachable(h, nxt)
           R2 == Reachable(h, nxt2)
<1>1. R \in Closed(h, nxt) /\ R2 \in Closed(h, nxt2)
  BY ReachableClosed
<1>2. n # h /\ m # n /\ n # NULL /\ nxt[n] # n
  BY ChainNoSelf, ReachableNodes, NodeFacts DEF Chain
<1>3. \A k \in R : nxt[k] \in R \union {NULL} /\ (k # m => nxt[k] # n)
  BY <1>1, <1>2 DEF Closed, Chain
<1>4. R2 \subseteq R \ {n}
  <2>1. R \ {n} \in Closed(h, nxt2)
    BY <1>1, <1>2, <1>3 DEF Closed
  <2> QED BY <2>1, ReachableLeast
<1>5. m \in R2
  <2>1. SUFFICES ASSUME m \notin R2
                 PROVE  FALSE
    OBVIOUS
  <2>2. R2 \in Closed(h, nxt)
    BY <1>1, <1>4, <2>1 DEF Closed
  <2> QED BY <2>1, <2>2, ReachableLeast
<1>6. R \subseteq R2 \union {n}
  <2>1. nxt[n] \in R2 \union {NULL}
    BY <1>1, <1>5 DEF Closed
  <2>2. R2 \union {n} \in Closed(h, nxt)
    BY <1>1, <1>4, <2>1 DEF Closed
  <2> QED BY <2>2, ReachableLeast
<1>7. R2 = R \ {n}
  BY <1>4, <1>6
<1> HIDE DEF R, R2
<1>8. Chain(h, nxt2)
  <2>1. \A j \in R2 : nxt2[j] # h
    BY <1>7 DEF R, Chain
  <2>2. \A j, k \in R2 : nxt2[j] = nxt2[k] /\ nxt2[j] # NULL => j = k
    BY <1>2, <1>7 DEF R, Chain
  <2> QED BY <2>1, <2>2 DEF Chain, R2
<1> QED BY <1>7, <1>8 DEF R, R2

-----------------------------------------------------------------------------
(***************************************************************************)
(* Scheduler keeps account of its slots, for every number of slots and of  *)
(* calls and every interleaving of its callers, as long as the callers are *)
(* Disciplined.                                                            *)
(***************************************************************************)

\* No call finds all slots taken while num_tasks is below the limit, and if the
\* running task may remove itself, no interrupt handler schedules tasks.
Disciplined ==
  /\ ~Overcommit
  /\ SelfRemove => Callers \intersect {"med", "hi"} = {}

\* EverySlotAccounted, and what it rests on: the listed nodes form one chain, a
\* handler that calls nothing is idle, and a task leaves its slot for good.
SlotInv ==
  /\ TypeOK
  /\ EverySlotAccounted
  /\ Chain(head, next)
  /\ \A c \in {"med", "hi"} \ Callers : op[c] = Idle
  /\ comp = "leaving" => SelfRemove /\ period[cur] = 0

----------------------------------------------------------------------------
(* The sets that the invariant is about.                                   *)

\* The list is a finite set of nodes closed under the links.
LEMMA ListFacts ==
  ASSUME TypeOK
  PROVE  /\ next \in Links /\ head \in Nodes \union {NULL}
         /\ Listed = Reachable(head, next)
         /\ Listed \subseteq Nodes /\ IsFiniteSet(Listed)
         /\ head # NULL => head \in Listed
         /\ \A m \in Listed : next[m] \in Listed \union {NULL}
<1>1. next \in Links /\ head \in Nodes \union {NULL}
  BY DEF TypeOK, Links
<1>2. Listed = Reachable(head, next) /\ Listed \subseteq Nodes
  BY ReachableNodes DEF Listed
<1>3. IsFiniteSet(Listed)
  BY <1>2, NodeFacts, FS_Subset
<1>4. Listed \in Closed(head, next)
  BY <1>1, <1>2, ReachableClosed
<1> QED BY <1>1, <1>2, <1>3, <1>4 DEF Closed

\* At most one task executes, cur_task.
LEMMA ExecutingFacts ==
  ASSUME TypeOK
  PROVE  /\ comp \in {"body", "leaving"} =>
              Executing = {cur} /\ cur \in Nodes /\ Cardinality(Executing) = 1
         /\ comp \notin {"body", "leaving"} =>
              Executing = {} /\ InUse = {} /\ Cardinality(Executing) = 0
<1>1. CASE comp \in {"body", "leaving"}
  <2>1. cur \in Nodes /\ Executing = {cur}
    BY <1>1, NodeFacts DEF TypeOK, Executing
  <2> QED BY <1>1, <2>1, FS_Singleton
<1>2. CASE comp \notin {"body", "leaving"}
  <2>1. Executing = {}
    BY <1>2 DEF TypeOK, Executing
  <2> QED BY <1>2, <2>1, FS_EmptySet DEF InUse
<1> QED BY <1>1, <1>2

\* num_tasks counts one more.
LEMMA CountAdd ==
  ASSUME NEW S \in SUBSET Nodes, NEW n \in Nodes \ S
  PROVE  Cardinality(S \union {n}) = Cardinality(S) + 1 /\ Cardinality(S) \in Nat
BY NodeFacts, FS_Subset, FS_AddElement, FS_CardinalityType

\* num_tasks counts one less.
LEMMA CountDrop ==
  ASSUME NEW S \in SUBSET Nodes, NEW n \in S
  PROVE  Cardinality(S \ {n}) = Cardinality(S) - 1 /\ Cardinality(S) \in Nat
BY NodeFacts, FS_Subset, FS_RemoveElement, FS_CardinalityType

----------------------------------------------------------------------------
(* add_task_to_list and removeTask.                                        *)

\* The links after add_task_to_list: n is first, or behind a node where the walk
\* stopped; the branch for a list with a self-reference is never taken.
LEMMA LinkShape ==
  ASSUME TypeOK, Chain(head, next), NEW n \in Nodes \ Listed, NEW t, NEW count \in Int,
         Link(n, t, count)
  PROVE  /\ num_tasks' = count + 1
         /\ next' \in Links
         /\ \/ /\ GoesFirst(t) /\ head' = n
               /\ next'[n] = head /\ \A k \in Listed : next'[k] = next[k]
            \/ /\ ~GoesFirst(t) /\ head' = head
               /\ \E m \in Listed \intersect Walked([next EXCEPT ![n] = head], t) :
                    /\ next[m] # NULL => t <= time[next[m]]
                    /\ next'[n] = next[m] /\ next'[m] = n
                    /\ \A k \in Listed \ {m} : next'[k] = next[k]
<1> DEFINE nxt == [next EXCEPT ![n] = head]
<1>1. next \in Links /\ next' \in Links
  BY ListFacts, LinkType DEF TypeOK
<1>2. nxt \in Links /\ nxt[n] = head /\ \A k \in Listed : nxt[k] = next[k]
  BY ListFacts DEF Links
<1>3. CASE GoesFirst(t) /\ head' = n /\ next' = nxt /\ num_tasks' = count + 1
  BY <1>1, <1>2, <1>3
<1>4. ASSUME NEW m \in Walked(nxt, t), ~GoesFirst(t), head' = head,
             \/ /\ StopsAt(nxt, m, t)
                /\ next' = [nxt EXCEPT ![n] = nxt[m], ![m] = n]
                /\ num_tasks' = count + 1
             \/ /\ nxt[m] = m
                /\ next' = nxt
                /\ num_tasks' = count
      PROVE  /\ num_tasks' = count + 1
             /\ m \in Listed
             /\ next[m] # NULL => t <= time[next[m]]
             /\ next'[n] = next[m] /\ next'[m] = n
             /\ \A k \in Listed \ {m} : next'[k] = next[k]
  <2>1. m \in Listed
    <3> DEFINE cut == [k \in Nodes |-> IF StopsAt(nxt, k, t) THEN NULL ELSE nxt[k]]
    <3>1. Listed \in Closed(head, cut)
      BY <1>2, ListFacts DEF Closed
    <3> QED BY <3>1, ReachableLeast DEF Walked
  <2>2. nxt[m] = next[m] /\ nxt[m] # m /\ m # n
    BY <1>2, <2>1, ListFacts, ChainNoSelf
  <2> HIDE DEF nxt
  <2>3. /\ StopsAt(nxt, m, t)
        /\ next' = [nxt EXCEPT ![n] = nxt[m], ![m] = n]
        /\ num_tasks' = count + 1
    BY <1>4, <2>2
  <2>4. next'[n] = next[m] /\ next'[m] = n /\ \A k \in Listed \ {m} : next'[k] = next[k]
    BY <1>2, <2>1, <2>2, <2>3, ListFacts DEF Links
  <2> QED BY <2>1, <2>2, <2>3, <2>4 DEF StopsAt
<1>5. \/ GoesFirst(t) /\ head' = n /\ next' = nxt /\ num_tasks' = count + 1
      \/ /\ ~GoesFirst(t) /\ head' = head
         /\ \E m \in Walked(nxt, t) :
              \/ /\ StopsAt(nxt, m, t)
                 /\ next' = [nxt EXCEPT ![n] = nxt[m], ![m] = n]
                 /\ num_tasks' = count + 1
              \/ /\ nxt[m] = m
                 /\ next' = nxt
                 /\ num_tasks' = count
  BY DEF Link
<1> HIDE DEF nxt
<1>6. CASE /\ ~GoesFirst(t) /\ head' = head
           /\ \E m \in Walked(nxt, t) :
                \/ /\ StopsAt(nxt, m, t)
                   /\ next' = [nxt EXCEPT ![n] = nxt[m], ![m] = n]
                   /\ num_tasks' = count + 1
                \/ /\ nxt[m] = m
                   /\ next' = nxt
                   /\ num_tasks' = count
  <2>1. PICK m \in Walked(nxt, t) :
          \/ /\ StopsAt(nxt, m, t)
             /\ next' = [nxt EXCEPT ![n] = nxt[m], ![m] = n]
             /\ num_tasks' = count + 1
          \/ /\ nxt[m] = m
             /\ next' = nxt
             /\ num_tasks' = count
    BY <1>6
  <2>2. /\ num_tasks' = count + 1
        /\ m \in Listed
        /\ next[m] # NULL => t <= time[next[m]]
        /\ next'[n] = next[m] /\ next'[m] = n
        /\ \A k \in Listed \ {m} : next'[k] = next[k]
    BY <1>4, <1>6, <2>1
  <2> QED BY <1>1, <1>6, <2>1, <2>2 DEF nxt
<1> QED BY <1>3, <1>5, <1>6

\* The node is linked, whatever its time.
LEMMA LinkListed ==
  ASSUME TypeOK, Chain(head, next), NEW n \in Nodes \ Listed, NEW t, NEW count \in Int,
         Link(n, t, count)
  PROVE  /\ Listed' = Listed \union {n}
         /\ Chain(head', next')
         /\ num_tasks' = count + 1
<1>1. num_tasks' = count + 1 /\ next' \in Links
  BY LinkShape
<1>2. CASE head' = n /\ next'[n] = head /\ \A k \in Listed : next'[k] = next[k]
  <2>1. Reachable(n, next') = Listed \union {n} /\ Chain(n, next')
    BY <1>1, <1>2, ListFacts, PutFirst
  <2> QED BY <1>1, <1>2, <2>1 DEF Listed
<1>3. ASSUME head' = head, NEW m \in Listed, next'[n] = next[m], next'[m] = n,
             \A k \in Listed \ {m} : next'[k] = next[k]
      PROVE  Listed' = Listed \union {n} /\ Chain(head', next')
  <2>1. Reachable(head, next') = Listed \union {n} /\ Chain(head, next')
    BY <1>1, <1>3, ListFacts, PutBehind
  <2> QED BY <1>3, <2>1 DEF Listed
<1> QED BY <1>1, <1>2, <1>3, LinkShape

\* The order is kept if n is linked at its time t and no listed time changes.
LEMMA LinkSorted ==
  ASSUME TypeOK, Chain(head, next), Sorted, NEW n \in Nodes \ Listed, NEW t \in Nat,
         NEW count \in Int, Link(n, t, count),
         time'[n] = t, \A k \in Listed : time'[k] = time[k]
  PROVE  Sorted'
<1> DEFINE nxt == [next EXCEPT ![n] = head]
<1>1. Listed' = Listed \union {n}
  BY LinkListed
<1>2. \A k \in Listed : time[k] \in Nat /\ next[k] \in Listed \union {NULL}
  BY ListFacts DEF TypeOK
<1>3. SUFFICES ASSUME NEW j \in Listed', next'[j] # NULL
               PROVE  time'[j] <= time'[next'[j]]
  BY DEF Sorted
<1>4. CASE /\ GoesFirst(t) /\ head' = n
           /\ next'[n] = head /\ \A k \in Listed : next'[k] = next[k]
  BY <1>1, <1>2, <1>3, <1>4, ListFacts DEF Sorted, GoesFirst
<1>5. ASSUME ~GoesFirst(t), NEW m \in Listed \intersect Walked(nxt, t),
             next[m] # NULL => t <= time[next[m]],
             next'[n] = next[m], next'[m] = n,
             \A k \in Listed \ {m} : next'[k] = next[k]
      PROVE  time'[j] <= time'[next'[j]]
  <2>1. time[m] < t
    <3> DEFINE cut == [k \in Nodes |-> IF StopsAt(nxt, k, t) THEN NULL ELSE nxt[k]]
               Earlier == {k \in Listed : time[k] < t}
    <3>1. head \in Earlier
      BY <1>2, <1>5, ListFacts DEF GoesFirst
    <3>2. \A k \in Listed : nxt[k] = next[k]
      BY ListFacts DEF Links
    <3>3. \A k \in Earlier : cut[k] \in Earlier \union {NULL}
      <4> HIDE DEF nxt
      <4> QED BY <1>2, <3>2, ListFacts DEF StopsAt
    <3>4. Earlier \in Closed(head, cut)
      BY <3>1, <3>3, ListFacts DEF Closed
    <3> QED BY <1>5, <3>4, ReachableLeast DEF Walked
  <2> QED BY <1>1, <1>2, <1>3, <1>5, <2>1 DEF Sorted
<1> QED BY <1>4, <1>5, LinkShape

\* removeTask of a task that waits.
LEMMA UnlinkListed ==
  ASSUME TypeOK, Chain(head, next), NEW n \in Listed, Unlink(n)
  PROVE  /\ Listed' = Listed \ {n}
         /\ Chain(head', next')
         /\ num_tasks' = num_tasks - 1
         /\ used' = used \ {n}
<1>1. n \in Nodes /\ next' \in Links
  BY ListFacts, UnlinkType DEF Links
<1>2. CASE head = n /\ head' = next[n] /\ num_tasks' = num_tasks - 1 /\ Free(n, next)
  <2>1. \A k \in Listed \ {n} : next'[k] = next[k]
    BY <1>2, ListFacts DEF Free, Links
  <2> QED BY <1>1, <1>2, <2>1, ListFacts, DropFirst DEF Listed, Free
<1>3. ASSUME NEW m \in Listed, next[m] = n, head' = head,
             Free(n, [next EXCEPT ![m] = next[n]]), num_tasks' = num_tasks - 1
      PROVE  /\ Listed' = Listed \ {n}
             /\ Chain(head', next')
             /\ num_tasks' = num_tasks - 1
             /\ used' = used \ {n}
  <2>1. m # n
    BY <1>3, ListFacts, ChainNoSelf
  <2>2. next'[m] = next[n] /\ \A k \in Listed \ {m, n} : next'[k] = next[k]
    BY <1>1, <1>3, <2>1, ListFacts DEF Free, Links
  <2>3. Reachable(head, next') = Listed \ {n} /\ Chain(head, next')
    BY <1>1, <1>3, <2>2, ListFacts, DropNext
  <2> QED BY <1>3, <2>3 DEF Listed, Free
<1>4. CASE head # n /\ \A m \in Listed : next[m] # n
  BY <1>4, ListFacts, ReachablePredecessor
<1> QED BY <1>2, <1>3, <1>4 DEF Unlink

\* removeTask keeps the order.
LEMMA UnlinkSorted ==
  ASSUME TypeOK, Chain(head, next), Sorted, NEW n \in Listed, Unlink(n)
  PROVE  Sorted'
<1>1. n \in Nodes /\ Listed' = Listed \ {n}
  BY ListFacts, UnlinkListed
<1>2. \A k \in Listed : time[k] \in Nat /\ k \in Nodes /\ next[k] \in Listed \union {NULL}
  BY ListFacts DEF TypeOK
<1>3. next[n] # n /\ n # NULL
  BY <1>1, ListFacts, ChainNoSelf, NodeFacts
<1>4. \A k \in Listed \ {n} : time'[k] = time[k]
  BY <1>2 DEF Unlink, Free, TypeOK
<1>5. SUFFICES ASSUME NEW k \in Listed \ {n}, next'[k] # NULL
               PROVE  time'[k] <= time'[next'[k]]
  BY <1>1 DEF Sorted
<1>6. CASE next'[k] = next[k] /\ next[k] # n
  BY <1>2, <1>4, <1>5, <1>6 DEF Sorted
<1>7. CASE next[k] = n /\ next'[k] = next[n]
  <2>1. time[k] <= time[n] /\ time[n] <= time[next[n]] /\ next[n] \in Listed \ {n}
    BY <1>2, <1>3, <1>5, <1>7 DEF Sorted
  <2> QED BY <1>2, <1>4, <1>7, <2>1
<1>8. CASE head = n /\ Free(n, next)
  BY <1>2, <1>6, <1>8, ListFacts DEF Free, Chain
<1>9. ASSUME NEW m \in Listed, next[m] = n, Free(n, [next EXCEPT ![m] = next[n]])
      PROVE  time'[k] <= time'[next'[k]]
  <2>1. m # n
    BY <1>3, <1>9
  <2>2. next'[k] = IF k = m THEN next[n] ELSE next[k]
    BY <1>2, <1>9, ListFacts DEF Free, Links
  <2>3. k # m => next[k] # n
    BY <1>3, <1>9, ListFacts DEF Chain
  <2> QED BY <1>6, <1>7, <1>9, <2>2, <2>3
<1>10. CASE head # n /\ \A m \in Listed : next[m] # n
  BY <1>10, ListFacts, ReachablePredecessor
<1> QED BY <1>8, <1>9, <1>10 DEF Unlink

\* removeTask of a node that is not in the list only frees it.
LEMMA UnlinkUnlisted ==
  ASSUME TypeOK, NEW n \in Nodes \ Listed, Unlink(n)
  PROVE  Free(n, next) /\ UNCHANGED <<head, num_tasks>>
BY ListFacts, NodeFacts DEF Unlink

\* Freeing a node that is not in the list does not change the list.
LEMMA FreeUnlisted ==
  ASSUME TypeOK, Chain(head, next), NEW n \in Nodes \ Listed, Free(n, next), head' = head
  PROVE  Listed' = Listed /\ Chain(head', next')
<1>1. next' \in Links /\ \A k \in Listed : next'[k] = next[k]
  BY ListFacts DEF Free, Links
<1> QED BY <1>1, ListFacts, ReachableSame DEF Listed

----------------------------------------------------------------------------
(* The steps.                                                              *)

\* No slot is used at the start.
LEMMA SlotInit == Init => SlotInv
<1> SUFFICES ASSUME Init PROVE SlotInv
  OBVIOUS
<1>1. TypeOK
  BY TypeInit
<1>2. Listed = {}
  <2>1. {} \in Closed(head, next)
    BY DEF Init, Closed
  <2> QED BY <2>1, ReachableLeast DEF Listed
<1>3. \A c \in Contexts : op[c] = Idle /\ op[c].pc # "insert"
  BY DEF Init, Idle
<1>4. Held = {}
  BY <1>3 DEF Held
<1>5. Executing = {} /\ InUse = {}
  BY DEF Init, Executing, InUse
<1>6. EverySlotAccounted
  BY <1>2, <1>3, <1>4, <1>5, FS_EmptySet DEF EverySlotAccounted, Init
<1>7. Chain(head, next)
  BY <1>2 DEF Chain, Listed
<1> QED BY <1>1, <1>3, <1>6, <1>7 DEF SlotInv, Init, Contexts

\* Steps that change no slot, no link and none of the calls that hold a slot.
LEMMA SlotSame ==
  ASSUME SlotInv, TypeOK',
         UNCHANGED <<used, next, head, num_tasks, cur>>, Held' = Held,
         Executing' = Executing, InUse' = InUse,
         \A c \in Contexts : op'[c] = op[c] \/ (op[c].pc # "insert" /\ op'[c].pc # "insert")
  PROVE  EverySlotAccounted' /\ Chain(head', next')
<1>1. Listed' = Listed
  BY DEF Listed
<1>2. \A c, d \in Contexts :
        (op'[c].pc = "insert" /\ op'[d].pc = "insert" /\ c # d) => op'[c].node # op'[d].node
  BY DEF SlotInv, EverySlotAccounted
<1> QED BY <1>1, <1>2 DEF SlotInv, EverySlotAccounted

\* A slot that is filled is held by the call that filled it.
LEMMA SlotAllocate ==
  ASSUME SlotInv, Disciplined, TypeOK', NEW c \in Callers, NEW t, NEW p,
         Allocate(c, t, p)
  PROVE  SlotInv'
<1>1. c \in Contexts /\ op[c] = Idle /\ comp # "leaving"
  BY SchedulerAssumption DEF Allocate, Runs, SlotInv, Disciplined, Contexts
<1>2. comp' = comp /\ cur' = cur /\ Executing' = Executing /\ InUse' = InUse
  BY DEF Allocate, isr, Executing, InUse
<1>3. \A d \in {"med", "hi"} \ Callers : op'[d] = Idle
  BY DEF Allocate, SlotInv, TypeOK, Contexts
<1>4. CASE UNCHANGED <<clock, store, op>>
  <2>1. Held' = Held
    BY <1>4 DEF Held
  <2>2. EverySlotAccounted' /\ Chain(head', next')
    BY <1>2, <1>4, <2>1, SlotSame DEF store
  <2> QED BY <1>1, <1>2, <1>3, <2>2 DEF SlotInv
<1>5. CASE /\ used # Slots
           /\ used' = used \union {FirstFree}
           /\ next' = [next EXCEPT ![FirstFree] = NULL]
           /\ op' = [op EXCEPT ![c] = [pc |-> "insert", node |-> FirstFree, val |-> p]]
           /\ UNCHANGED <<head, num_tasks>>
  <2> DEFINE n == FirstFree
  <2>1. n \in Nodes /\ n \notin used
    BY <1>5, FirstFreeSlot, NodeFacts DEF SlotInv, TypeOK
  <2>2. n \notin Listed /\ n \notin Held /\ n \notin Executing
    BY <1>1, <2>1 DEF SlotInv, EverySlotAccounted, InUse
  <2> HIDE DEF n
  <2>3. Listed' = Listed /\ Chain(head', next')
    <3>1. next' \in Links /\ \A k \in Listed : next'[k] = next[k]
      BY <1>5, <2>2, ListFacts DEF SlotInv, Links, n, TypeOK
    <3> QED BY <1>5, <3>1, ListFacts, ReachableSame DEF SlotInv, Listed
  <2>4. /\ op'[c].pc = "insert" /\ op'[c].node = n
        /\ \A d \in Contexts \ {c} : op'[d] = op[d]
    BY <1>1, <1>5 DEF SlotInv, TypeOK, n
  <2>5. Held' = Held \union {n}
    BY <1>1, <2>4 DEF Held, Idle
  <2>6. \A d \in Contexts : op[d].pc = "insert" => op[d].node # n
    BY <2>2 DEF Held
  <2>7. \A d, e \in Contexts :
          (op'[d].pc = "insert" /\ op'[e].pc = "insert" /\ d # e) => op'[d].node # op'[e].node
    BY <2>4, <2>6 DEF SlotInv, EverySlotAccounted
  <2>8. EverySlotAccounted'
    BY <1>2, <1>5, <2>2, <2>3, <2>5, <2>7 DEF SlotInv, EverySlotAccounted, n
  <2> QED BY <1>1, <1>2, <1>3, <2>3, <2>8 DEF SlotInv
<1> QED BY <1>4, <1>5 DEF Allocate, Disciplined

\* The call links the slot that it holds.
LEMMA SlotInsert ==
  ASSUME SlotInv, TypeOK', NEW c \in Contexts, Insert(c)
  PROVE  SlotInv'
<1> DEFINE n == op[c].node
<1>1. op[c].pc = "insert" /\ n \in Held /\ n \in Nodes
  BY DEF Insert, Held, SlotInv, TypeOK
<1>2. n \notin Listed /\ n \notin Executing
  BY <1>1 DEF SlotInv, EverySlotAccounted
<1>3. Link(n, time[n], num_tasks) /\ used' = used /\ comp' = comp /\ cur' = cur
      /\ period' = period
  BY DEF Insert, isr
<1> HIDE DEF n
<1>4. /\ Listed' = Listed \union {n}
      /\ Chain(head', next')
      /\ num_tasks' = num_tasks + 1
  <2>1. num_tasks \in Int
    BY DEF SlotInv, TypeOK
  <2> QED BY <1>1, <1>2, <1>3, <2>1, LinkListed DEF SlotInv
<1>5. op'[c].pc = "period" /\ \A d \in Contexts \ {c} : op'[d] = op[d]
  BY DEF Insert, SlotInv, TypeOK
<1>6. \A d \in Contexts \ {c} : op[d].pc = "insert" => op[d].node # n
  BY <1>1 DEF SlotInv, EverySlotAccounted, n
<1>7. Held' = Held \ {n}
  BY <1>1, <1>5, <1>6 DEF Held, n
<1>8. Executing' = Executing /\ InUse' = InUse
  BY <1>3 DEF Executing, InUse
<1>9. Cardinality(Listed') = Cardinality(Listed) + 1 /\ Cardinality(Listed) \in Nat
  BY <1>1, <1>2, <1>4, CountAdd, ListFacts DEF SlotInv
<1>10. Cardinality(Executing) \in Nat
  BY ExecutingFacts DEF SlotInv
<1>11. num_tasks' = Cardinality(Listed') + Cardinality(Executing')
  BY <1>4, <1>8, <1>9, <1>10 DEF SlotInv, EverySlotAccounted
<1>12. EverySlotAccounted'
  BY <1>1, <1>2, <1>3, <1>4, <1>5, <1>7, <1>8, <1>11 DEF SlotInv, EverySlotAccounted
<1>13. \A d \in {"med", "hi"} \ Callers : op'[d] = Idle
  BY <1>1, <1>5 DEF SlotInv, Contexts, Idle
<1> QED BY <1>3, <1>4, <1>12, <1>13 DEF SlotInv

\* removeTask of a waiting task frees its slot.
LEMMA SlotRemove ==
  ASSUME SlotInv, Disciplined, TypeOK', NEW c \in Callers, NEW n \in Nodes,
         removeTask(c, n)
  PROVE  SlotInv'
<1>1. n \in Listed /\ Unlink(n) /\ UNCHANGED <<op, comp, cur>>
  BY DEF removeTask, isr
<1>2. comp # "leaving"
  BY SchedulerAssumption DEF removeTask, Runs, SlotInv, Disciplined, Contexts
<1>3. /\ Listed' = Listed \ {n}
      /\ Chain(head', next')
      /\ num_tasks' = num_tasks - 1
      /\ used' = used \ {n}
  BY <1>1, UnlinkListed DEF SlotInv
<1>4. Executing' = Executing /\ InUse' = InUse /\ Held' = Held
  BY <1>1 DEF Executing, InUse, Held
<1>5. Cardinality(Listed') = Cardinality(Listed) - 1 /\ Cardinality(Listed) \in Nat
  BY <1>1, <1>3, CountDrop, ListFacts DEF SlotInv
<1>6. Cardinality(Executing) \in Nat
  BY ExecutingFacts DEF SlotInv
<1>7. num_tasks' = Cardinality(Listed') + Cardinality(Executing')
  BY <1>3, <1>4, <1>5, <1>6 DEF SlotInv, EverySlotAccounted
<1>8. n \notin Held /\ n \notin InUse
  BY <1>1 DEF SlotInv, EverySlotAccounted, InUse
<1>9. EverySlotAccounted'
  BY <1>1, <1>3, <1>4, <1>7, <1>8 DEF SlotInv, EverySlotAccounted
<1> QED BY <1>1, <1>2, <1>3, <1>9 DEF SlotInv

\* A task that removes itself leaves the state that its return expects.
LEMMA SlotRemoveSelf ==
  ASSUME SlotInv, Disciplined, TypeOK', removeSelf
  PROVE  SlotInv'
<1>1. /\ SelfRemove /\ comp = "body" /\ period[cur] = 0 /\ Unlink(cur)
      /\ comp' = "leaving" /\ UNCHANGED <<op, cur>>
  BY DEF removeSelf, Runs
<1>2. cur \in Nodes /\ Executing = {cur}
  BY <1>1, ExecutingFacts DEF SlotInv
<1>3. cur \notin Listed /\ cur \notin Held /\ InUse = {cur}
  BY <1>1, <1>2 DEF SlotInv, EverySlotAccounted, InUse
<1>4. Free(cur, next) /\ UNCHANGED <<head, num_tasks>>
  BY <1>1, <1>2, <1>3, UnlinkUnlisted DEF SlotInv
<1>5. Listed' = Listed /\ Chain(head', next')
  BY <1>2, <1>3, <1>4, FreeUnlisted DEF SlotInv
<1>6. used' = used \ {cur} /\ period'[cur] = 0
  BY <1>2, <1>4 DEF Free, SlotInv, TypeOK
<1>7. Executing' = Executing /\ InUse' = {} /\ Held' = Held
  BY <1>1 DEF Executing, InUse, Held
<1>8. EverySlotAccounted'
  BY <1>1, <1>2, <1>3, <1>4, <1>5, <1>6, <1>7 DEF SlotInv, EverySlotAccounted
<1> QED BY <1>1, <1>5, <1>6, <1>8 DEF SlotInv

\* run_tasks takes the head from the list and executes it.
LEMMA SlotStart ==
  ASSUME SlotInv, TypeOK', StartTask
  PROVE  SlotInv'
<1>1. /\ comp = "loop" /\ head # NULL /\ cur' = head /\ head' = next[head]
      /\ comp' = "body" /\ UNCHANGED <<used, period, next, num_tasks, op>>
  BY DEF StartTask, Due
<1>2. head \in Nodes /\ head \in Listed
  BY <1>1, ListFacts DEF SlotInv
<1>3. Listed' = Listed \ {head} /\ Chain(head', next')
  BY <1>1, <1>2, ListFacts, DropFirst DEF SlotInv, Listed
<1>4. Executing = {} /\ InUse = {} /\ Cardinality(Executing) = 0
  BY <1>1, ExecutingFacts DEF SlotInv
<1>5. Executing' = {head} /\ InUse' = {head} /\ Held' = Held
  BY <1>1, <1>2, NodeFacts DEF Executing, InUse, Held
<1>6. Cardinality(Listed') = Cardinality(Listed) - 1 /\ Cardinality(Listed) \in Nat
  BY <1>2, <1>3, CountDrop, ListFacts DEF SlotInv
<1>7. Cardinality(Executing') = 1
  BY <1>5, FS_Singleton
<1>8. num_tasks' = Cardinality(Listed') + Cardinality(Executing')
  BY <1>1, <1>4, <1>6, <1>7 DEF SlotInv, EverySlotAccounted
<1>9. head \notin Held
  BY <1>2 DEF SlotInv, EverySlotAccounted
<1>10. EverySlotAccounted'
  BY <1>1, <1>2, <1>3, <1>4, <1>5, <1>8, <1>9 DEF SlotInv, EverySlotAccounted
<1> QED BY <1>1, <1>3, <1>10 DEF SlotInv

\* The slot of a one-shot task is freed, that of a periodic one linked again.
LEMMA SlotReturn ==
  ASSUME SlotInv, TypeOK', TaskReturns
  PROVE  SlotInv'
<1>1. comp \in {"body", "leaving"} /\ cur' = NULL /\ comp' \in {"loop", "off"} /\ op' = op
  BY DEF TaskReturns
<1>2. cur \in Nodes /\ Executing = {cur} /\ Cardinality(Executing) = 1
  BY <1>1, ExecutingFacts DEF SlotInv
<1>3. cur \notin Listed /\ cur \notin Held
  BY <1>2 DEF SlotInv, EverySlotAccounted
<1>4. Executing' = {} /\ InUse' = {} /\ Cardinality(Executing') = 0 /\ Held' = Held
  BY <1>1, FS_EmptySet DEF Executing, InUse, Held
<1>5. num_tasks = Cardinality(Listed) + 1 /\ Cardinality(Listed) \in Nat /\ num_tasks \in Int
  BY <1>2, <1>3, CountAdd, ListFacts DEF SlotInv, EverySlotAccounted, TypeOK
<1>6. EverySlotAccounted' /\ Chain(head', next')
  <2>1. CASE period[cur] > 0
    <3>1. InUse = {cur} /\ used' = used
      <4>1. comp # "leaving"
        BY <2>1 DEF SlotInv
      <4> QED BY <1>2, <2>1, <4>1 DEF TaskReturns, InUse
    <3>2. PICK t : Link(cur, t, num_tasks - 1)
      BY <2>1 DEF TaskReturns
    <3>3. /\ Listed' = Listed \union {cur}
          /\ Chain(head', next')
          /\ num_tasks' = (num_tasks - 1) + 1
      <4>1. num_tasks - 1 \in Int
        BY <1>5
      <4> QED BY <1>2, <1>3, <3>2, <4>1, LinkListed DEF SlotInv
    <3>4. Cardinality(Listed') = Cardinality(Listed) + 1
      BY <1>2, <1>3, <3>3, CountAdd, ListFacts DEF SlotInv
    <3>5. num_tasks' = Cardinality(Listed') + Cardinality(Executing')
      BY <1>4, <1>5, <3>3, <3>4
    <3> QED BY <1>1, <1>3, <1>4, <3>1, <3>3, <3>5 DEF SlotInv, EverySlotAccounted
  <2>2. CASE ~(period[cur] > 0)
    <3>1. Free(cur, next) /\ num_tasks' = num_tasks - 1 /\ head' = head
      BY <2>2 DEF TaskReturns
    <3>2. Listed' = Listed /\ Chain(head', next')
      BY <1>2, <1>3, <3>1, FreeUnlisted DEF SlotInv
    <3>3. used' = used \ {cur}
      BY <3>1 DEF Free
    <3>4. num_tasks' = Cardinality(Listed') + Cardinality(Executing')
      BY <1>4, <1>5, <3>1, <3>2
    <3>5. InUse \subseteq {cur}
      BY <1>2 DEF InUse
    <3> QED BY <1>1, <1>3, <1>4, <3>2, <3>3, <3>4, <3>5 DEF SlotInv, EverySlotAccounted
  <2> QED BY <2>1, <2>2
<1> QED BY <1>1, <1>6 DEF SlotInv

\* Every step of disciplined callers keeps SlotInv.
LEMMA SlotNext ==
  ASSUME SlotInv, Disciplined, [Next]_vars
  PROVE  SlotInv'
<1>1. TypeOK'
  BY TypeNext DEF SlotInv
<1>2. ASSUME NEW c \in Callers, Call(c)
      PROVE  SlotInv'
  <2>1. ASSUME NEW d \in Delays, scheduleTask(c, d)
        PROVE  SlotInv'
    BY <1>1, <2>1, SlotAllocate DEF scheduleTask
  <2>2. ASSUME NEW r \in Periods, schedulePeriodicTask(c, r)
        PROVE  SlotInv'
    BY <1>1, <2>2, SlotAllocate DEF schedulePeriodicTask
  <2>3. ASSUME NEW n \in Nodes, removeTask(c, n)
        PROVE  SlotInv'
    BY <1>1, <2>3, SlotRemove
  <2> QED BY <1>2, <2>1, <2>2, <2>3 DEF Call
<1>3. ASSUME UNCHANGED <<used, period, next, head, num_tasks, cur>>,
             comp' = comp \/ {comp, comp'} \subseteq {"off", "loop"},
             \A c \in Contexts : op'[c] = op[c]
               \/ (op[c].pc # "insert" /\ op'[c].pc # "insert" /\ (op[c] = Idle => c = "main"))
      PROVE  SlotInv'
  <2>1. Held' = Held
    BY <1>3 DEF Held
  <2>2. Executing' = Executing /\ InUse' = InUse
    BY <1>3, ExecutingFacts DEF Executing, InUse, SlotInv
  <2>3. EverySlotAccounted' /\ Chain(head', next')
    BY <1>1, <1>3, <2>1, <2>2, SlotSame
  <2>4. \A c \in {"med", "hi"} \ Callers : op'[c] = Idle
    BY <1>3 DEF SlotInv, Contexts
  <2> QED BY <1>1, <1>3, <2>3, <2>4 DEF SlotInv
<1>4. ASSUME NEW c \in Contexts, SetPeriod(c)
      PROVE  SlotInv'
  <2>1. op[c].pc = "period" /\ op' = [op EXCEPT ![c] = Idle]
        /\ UNCHANGED <<used, next, head, num_tasks, comp, cur>>
    BY <1>4 DEF SetPeriod, isr
  <2>2. op'[c] = Idle /\ \A d \in Contexts \ {c} : op'[d] = op[d]
    BY <2>1 DEF SlotInv, TypeOK
  <2>3. Idle.pc = "idle"
    BY DEF Idle
  <2>4. Held' = Held
    BY <2>1, <2>2, <2>3 DEF Held
  <2>5. Executing' = Executing /\ InUse' = InUse
    BY <2>1 DEF Executing, InUse
  <2>6. EverySlotAccounted' /\ Chain(head', next')
    BY <1>1, <2>1, <2>2, <2>3, <2>4, <2>5, SlotSame
  <2>7. comp # "leaving"
    BY <1>4, <2>1, <2>3 DEF SetPeriod, Runs, SlotInv, Disciplined, Contexts
  <2>8. \A d \in {"med", "hi"} \ Callers : op'[d] = Idle
    BY <2>2 DEF SlotInv, Contexts
  <2> QED BY <1>1, <2>1, <2>6, <2>7, <2>8 DEF SlotInv
<1>5. CASE MainCheck
  <2>1. op["main"] = Idle /\ op'["main"].pc = "cleanup"
        /\ \A c \in Contexts \ {"main"} : op'[c] = op[c]
    BY <1>5 DEF MainCheck, SlotInv, TypeOK, Contexts
  <2> QED BY <1>3, <1>5, <2>1 DEF MainCheck, store, isr, Idle
<1>6. CASE MainCleanup
  <2>1. op["main"].pc = "cleanup" /\ op'["main"].pc = "idle"
        /\ \A c \in Contexts \ {"main"} : op'[c] = op[c]
    BY <1>6 DEF MainCleanup, SlotInv, TypeOK, Contexts, Idle
  <2> QED BY <1>3, <1>6, <2>1 DEF MainCleanup, isr
<1>7. CASE CompInterrupt \/ AbortLoop \/ EndLoop
  BY <1>3, <1>7 DEF CompInterrupt, AbortLoop, EndLoop, store
<1>8. CASE Tick \/ Overflow
  BY <1>3, <1>8 DEF Tick, Overflow, store, isr
<1>9. CASE UNCHANGED vars
  BY <1>3, <1>9 DEF vars, store, isr
<1> QED
  BY <1>1, <1>2, <1>4, <1>5, <1>6, <1>7, <1>8, <1>9,
     SlotInsert, SlotRemoveSelf, SlotStart, SlotReturn
  DEF Next, Work, Main, CompISR

\* With disciplined callers, every slot in use is in exactly one place and
\* num_tasks counts what is listed or executing, whatever interrupts whatever
\* between the parts of a schedule call.
THEOREM SlotsAccounted ==
  ASSUME Disciplined
  PROVE  Spec => []EverySlotAccounted
<1>1. Init => SlotInv
  BY SlotInit
<1>2. SlotInv /\ [Next]_vars => SlotInv'
  BY SlotNext
<1>3. SlotInv => EverySlotAccounted
  BY DEF SlotInv
<1> QED BY <1>1, <1>2, <1>3, PTL DEF Spec

----------------------------------------------------------------------------
(* The order of the list.                                                  *)

\* The list, its links and the times of its nodes stay as they are.
LEMMA SortedSame ==
  ASSUME Sorted, Listed' = Listed,
         \A k \in Listed : next'[k] = next[k] /\ time'[k] = time[k],
         \A k \in Listed : next[k] \in Listed \union {NULL}
  PROVE  Sorted'
BY DEF Sorted

\* No step but the cleanup takes the list out of order.
LEMMA SortedNext ==
  ASSUME SlotInv, SlotInv', Disciplined, Sorted, [Next]_vars, ~MainCleanup
  PROVE  Sorted'
<1>1. TypeOK /\ Chain(head, next)
  BY DEF SlotInv
<1>2. \A k \in Listed : k \in Nodes /\ next[k] \in Listed \union {NULL}
  BY <1>1, ListFacts
<1>3. ASSUME UNCHANGED <<time, next, head>>
      PROVE  Sorted'
  BY <1>3, <1>2, SortedSame DEF Listed
<1>4. ASSUME NEW c \in Callers, NEW t, NEW p, Allocate(c, t, p)
      PROVE  Sorted'
  <2>1. CASE UNCHANGED store
    BY <1>3, <2>1 DEF store
  <2>2. CASE /\ used # Slots
             /\ time' = [time EXCEPT ![FirstFree] = t]
             /\ next' = [next EXCEPT ![FirstFree] = NULL]
             /\ head' = head
    <3>1. FirstFree \notin Listed
      BY <2>2, FirstFreeSlot, <1>1 DEF SlotInv, EverySlotAccounted, TypeOK
    <3>2. \A k \in Listed : next'[k] = next[k] /\ time'[k] = time[k]
      BY <1>1, <1>2, <2>2, <3>1 DEF TypeOK
    <3>3. next' \in Links
      BY DEF SlotInv, TypeOK, Links
    <3>4. Listed' = Listed
      BY <1>1, <2>2, <3>2, <3>3, ListFacts, ReachableSame DEF Listed
    <3> QED BY <1>2, <3>2, <3>4, SortedSame
  <2> QED BY <1>4, <2>1, <2>2 DEF Allocate, Disciplined
<1>5. ASSUME NEW c \in Callers, Call(c)
      PROVE  Sorted'
  <2>1. ASSUME NEW d \in Delays, scheduleTask(c, d)
        PROVE  Sorted'
    BY <1>4, <2>1 DEF scheduleTask
  <2>2. ASSUME NEW r \in Periods, schedulePeriodicTask(c, r)
        PROVE  Sorted'
    BY <1>4, <2>2 DEF schedulePeriodicTask
  <2>3. ASSUME NEW n \in Nodes, removeTask(c, n)
        PROVE  Sorted'
    BY <1>1, <2>3, UnlinkSorted DEF removeTask
  <2> QED BY <1>5, <2>1, <2>2, <2>3 DEF Call
<1>6. ASSUME NEW c \in Contexts, Insert(c)
      PROVE  Sorted'
  <2>1. op[c].node \in Nodes \ Listed
    BY <1>1, <1>6 DEF Insert, SlotInv, TypeOK, EverySlotAccounted, Held
  <2>2. time[op[c].node] \in Nat /\ num_tasks \in Int
    BY <1>1, <2>1 DEF TypeOK
  <2>3. Link(op[c].node, time[op[c].node], num_tasks) /\ time' = time
    BY <1>6 DEF Insert
  <2> QED BY <1>1, <2>1, <2>2, <2>3, LinkSorted
<1>7. ASSUME NEW n \in Nodes \ Listed, Free(n, next), head' = head
      PROVE  Sorted'
  <2>1. Listed' = Listed
    BY <1>1, <1>7, FreeUnlisted
  <2>2. \A k \in Listed : next'[k] = next[k] /\ time'[k] = time[k]
    BY <1>1, <1>2, <1>7 DEF Free, TypeOK
  <2> QED BY <1>2, <2>1, <2>2, SortedSame
<1>8. CASE removeSelf
  <2>1. cur \in Nodes \ Listed /\ Unlink(cur)
    BY <1>1, <1>8, ExecutingFacts DEF removeSelf, Runs, SlotInv, EverySlotAccounted
  <2> QED BY <1>1, <1>7, <2>1, UnlinkUnlisted
<1>9. CASE StartTask
  <2>1. Listed' = Listed \ {head} /\ time' = time /\ next' = next
    <3>1. head \in Nodes /\ head' = next[head] /\ next' = next /\ time' = time
      BY <1>1, <1>9, ListFacts DEF StartTask, Due
    <3> QED BY <1>1, <3>1, ListFacts, DropFirst DEF Listed
  <2> QED BY <2>1 DEF Sorted
<1>10. CASE TaskReturns
  <2>1. cur \in Nodes \ Listed
    BY <1>1, <1>10, ExecutingFacts DEF TaskReturns, SlotInv, EverySlotAccounted
  <2>2. CASE period[cur] > 0
    <3> DEFINE t == ((time[cur] \div period[cur]) + 1) * period[cur]
    <3>1. time' = [time EXCEPT ![cur] = t] /\ Link(cur, t, num_tasks - 1)
      BY <1>10, <2>2 DEF TaskReturns
    <3>2. t \in Nat
      <4>1. time[cur] \in Nat /\ period[cur] \in Nat \ {0}
        BY <1>1, <2>1, <2>2 DEF TypeOK
      <4> QED BY <4>1, ModFacts
    <3> HIDE DEF t
    <3>3. time'[cur] = t /\ \A k \in Listed : time'[k] = time[k]
      BY <1>1, <1>2, <2>1, <3>1 DEF TypeOK
    <3>4. num_tasks - 1 \in Int
      BY <1>1 DEF TypeOK
    <3> QED BY <1>1, <2>1, <3>1, <3>2, <3>3, <3>4, LinkSorted
  <2>3. CASE ~(period[cur] > 0)
    BY <1>7, <1>10, <2>1, <2>3 DEF TaskReturns
  <2> QED BY <2>2, <2>3
<1>11. ASSUME NEW c \in Contexts, SetPeriod(c)
       PROVE  Sorted'
  BY <1>3, <1>11 DEF SetPeriod
<1>12. CASE MainCheck \/ CompInterrupt \/ AbortLoop \/ EndLoop
  BY <1>3, <1>12 DEF MainCheck, CompInterrupt, AbortLoop, EndLoop, store
<1>13. CASE Tick \/ Overflow
  BY <1>3, <1>13 DEF Tick, Overflow, store
<1>14. CASE UNCHANGED vars
  BY <1>3, <1>14 DEF vars, store
<1> QED
  BY <1>5, <1>6, <1>8, <1>9, <1>10, <1>11, <1>12, <1>13, <1>14 DEF Next, Work, Main, CompISR

\* With disciplined callers a sorted list stays sorted, whoever inserts, removes
\* or re-inserts a task and whatever interrupts it; only taskListCleanup, which
\* re-times the list from the node that it read as the head before its atomic
\* block, can break the order.
THEOREM OrderIsKept ==
  ASSUME Disciplined
  PROVE  Spec => OrderKept
<1>1. Init => SlotInv
  BY SlotInit
<1>2. SlotInv /\ [Next]_vars => SlotInv'
  BY SlotNext
<1>3. SlotInv /\ SlotInv' /\ [Next]_vars => [Sorted => Sorted' \/ MainCleanup]_vars
  BY SortedNext
<1> QED BY <1>1, <1>2, <1>3, PTL DEF Spec, OrderKept

\* With disciplined callers run_tasks calls only tasks whose slot is in use.
THEOREM OnlyUsedAreStarted ==
  ASSUME Disciplined
  PROVE  Spec => OnlyUsedStarted
<1>1. Init => SlotInv
  BY SlotInit
<1>2. SlotInv /\ [Next]_vars => SlotInv'
  BY SlotNext
<1>3. SlotInv /\ StartTask => cur' \in used
  BY ListFacts DEF StartTask, Due, SlotInv, EverySlotAccounted
<1>4. SlotInv => [StartTask => cur' \in used]_vars
  BY <1>3
<1> QED BY <1>1, <1>2, <1>4, PTL DEF Spec, OnlyUsedStarted

-----------------------------------------------------------------------------
(* The compare interrupt.                                                  *)

\* Outside of run_tasks the compare interrupt is enabled if the head of the list
\* is scheduled in this epoch, or before.
Armed == comp = "off" /\ head # NULL /\ HeadTime <= EpochEnd(now) => comp_en

\* taskListCleanup writes from a node that is no longer the head.
StaleCleanup == MainCleanup /\ op["main"].node # head

\* The overflow interrupt finds the head scheduled before the wrap or not before the
\* last tick of the new epoch, and arms nothing (scheduler.c compares with <).
LateOverflow == Overflow /\ ~(now' <= HeadTime /\ HeadTime < EpochEnd(now'))

\* The interrupt is left off for a head that is due in this epoch by a stale cleanup
\* or a late overflow, and by nothing else.
AlarmKept == [][Sorted /\ Armed => Armed' \/ StaleCleanup \/ LateOverflow]_vars

\* run_tasks runs with the interrupt enabled.
IsrOn == comp # "off" => comp_en

LEMMA IsrOnNext ==
  ASSUME TypeOK, Disciplined, IsrOn, [Next]_vars
  PROVE  IsrOn'
<1>1. CASE comp' = comp /\ comp_en' = comp_en
  BY <1>1 DEF IsrOn
<1>2. CASE comp' = "off"
  BY <1>2 DEF IsrOn
<1>3. ASSUME NEW c \in Callers, Call(c)
      PROVE  comp' = comp /\ comp_en' = comp_en
  <2>1. comp' = comp
    BY <1>3 DEF Call, scheduleTask, schedulePeriodicTask, Allocate, removeTask, isr
  <2>2. comp_en' = comp_en
    BY <1>3 DEF Call, scheduleTask, schedulePeriodicTask, Allocate, removeTask, clock, Disciplined
  <2> QED BY <2>1, <2>2
<1>4. ASSUME NEW c \in Contexts, Insert(c)
      PROVE  IsrOn'
  <2>1. CASE comp = "off"
    BY <1>2, <1>4, <2>1 DEF Insert, isr
  <2>2. CASE comp # "off"
    BY <1>1, <1>4, <2>2 DEF Insert, isr, clock, task_executing
  <2> QED BY <2>1, <2>2
<1>5. ASSUME NEW c \in Contexts, SetPeriod(c)
      PROVE  comp' = comp /\ comp_en' = comp_en
  BY <1>5 DEF SetPeriod, isr, clock
<1>6. CASE removeSelf \/ StartTask
  <2>1. comp # "off" /\ comp' # "off" /\ comp_en' = comp_en
    BY <1>6 DEF removeSelf, StartTask, Runs, clock
  <2> QED BY <2>1 DEF IsrOn
<1>7. CASE MainCheck
  BY <1>1, <1>7 DEF MainCheck, isr, clock
<1>8. CASE MainCleanup
  <2>1. comp = "off" /\ comp' = comp
    BY <1>8 DEF MainCleanup, Runs, isr
  <2> QED BY <1>2, <2>1
<1>9. CASE CompInterrupt
  BY <1>9 DEF CompInterrupt, IsrOn
<1>10. CASE AbortLoop \/ EndLoop
  BY <1>2, <1>10 DEF AbortLoop, EndLoop
<1>11. CASE TaskReturns
  <2>1. comp # "off" /\ comp_en' = comp_en
    BY <1>11 DEF TaskReturns, clock
  <2> QED BY <2>1 DEF IsrOn
<1>12. CASE Tick
  BY <1>1, <1>12 DEF Tick, isr
<1>13. CASE Overflow
  <2>1. comp' = comp
    BY <1>13 DEF Overflow, isr
  <2>2. comp # "off" => comp_en' = comp_en
    BY <1>13 DEF Overflow, task_executing
  <2> QED BY <2>1, <2>2 DEF IsrOn
<1>14. CASE UNCHANGED vars
  BY <1>1, <1>14 DEF vars, isr, clock
<1> QED BY <1>1, <1>3, <1>4, <1>5, <1>6, <1>7, <1>8, <1>9, <1>10, <1>11, <1>12, <1>13, <1>14
        DEF Next, Work, Main, CompISR

\* The head and its time stay.
LEMMA ArmedSame ==
  ASSUME Armed, UNCHANGED <<comp, comp_en, head, now>>, head # NULL => time'[head] = time[head]
  PROVE  Armed'
<1>1. head # NULL => HeadTime' = HeadTime
  BY DEF HeadTime
<1> QED BY <1>1 DEF Armed, EpochEnd, EpochStart

\* The register is written for the head.
LEMMA ArmedArm ==
  ASSUME NEW t, Arm(t), now' = now, head' # NULL => time'[head'] = t
  PROVE  Armed'
<1>1. head' # NULL => HeadTime' = t
  BY DEF HeadTime
<1> QED BY <1>1 DEF Armed, Arm, EpochEnd, EpochStart

\* The epoch lasts until the counter wraps.
LEMMA SameEpoch ==
  ASSUME NEW w \in Nat, (w + 1) % EpochLen # 0
  PROVE  EpochEnd(w + 1) = EpochEnd(w)
<1>1. PICK e \in Nat \ {0} : e = EpochLen
  BY SchedulerAssumption
<1>2. w \div e \in Int /\ (w % e) \in 0 .. e - 1 /\ w = (e * (w \div e)) + (w % e)
  BY DivMod
<1>3. PICK q, r : q \in Int /\ r \in 0 .. e - 1 /\ w = (e * q) + r /\ r = (w % e)
  BY <1>2
<1>4. q \in Int /\ r \in 0 .. e - 1 /\ w = (e * q) + r
  BY <1>3, Zenon
<1>5. CASE r = e - 1
  <2>1. 0 \in 0 .. e - 1 /\ q + 1 \in Int /\ (e * (q + 1)) + 0 = w + 1
    BY <1>3, <1>5
  <2>2. ((e * (q + 1)) + 0) % e = 0
    <3>1. PICK p \in Int : p = q + 1
      BY <2>1
    <3>2. ((p * e) + 0) % e = 0
      BY <2>1, RemainderIs
    <3>3. e * (q + 1) = p * e
      BY <1>3, <3>1
    <3> QED BY <3>2, <3>3
  <2> QED BY <1>1, <2>1, <2>2
<1>6. CASE r # e - 1
  <2>1. r + 1 \in 0 .. e - 1 /\ (q * e) + (r + 1) = w + 1
    <3>1. PICK p \in Int : p = e * q /\ p = q * e
      BY <1>4
    <3>2. w = p + r /\ r \in Int /\ r + 1 \in 0 .. e - 1
      BY <1>6, <1>4, <3>1
    <3>3. p + (r + 1) = w + 1
      BY <3>2
    <3>4. (q * e) + (r + 1) = p + (r + 1)
      BY <3>1, Zenon
    <3> QED BY <3>2, <3>3, <3>4, Zenon
  <2>2. ((q * e) + (r + 1)) % e = r + 1
    BY <1>3, <2>1, RemainderIs
  <2>3. ((w + 1) % e) = r + 1
    BY <2>1, <2>2
  <2>4. (w + 1) - ((w + 1) % e) = w - (w % e)
    BY <1>3, <2>3
  <2> QED BY <1>1, <2>4 DEF EpochEnd, EpochStart
<1> QED BY <1>5, <1>6

\* No node of a chain comes before its first.
LEMMA NoneBefore ==
  ASSUME TypeOK, Chain(head, next), head # NULL
  PROVE  Before(head, head) = {}
<1>1. next \in Links /\ head \in Nodes
  BY ListFacts, NodeFacts
<1> SUFFICES ASSUME NEW m \in Reachable(head, next) \ {head}, head \in Reachable(m, next)
             PROVE  FALSE
  BY DEF Before
<1>2. m \in Nodes
  BY ReachableNodes
<1>3. PICK k \in Reachable(m, next) : next[k] = head
  BY <1>1, <1>2, ReachablePredecessor
<1>4. Reachable(head, next) \in Closed(m, next)
  BY <1>1, ReachableClosed DEF Closed
<1>5. k \in Reachable(head, next)
  BY <1>3, <1>4, ReachableLeast
<1> QED BY <1>3, <1>5 DEF Chain

\* No step but those two leaves the interrupt off.
LEMMA AlarmNext ==
  ASSUME SlotInv, Disciplined, IsrOn, Sorted, Armed, [Next]_vars
  PROVE  Armed' \/ StaleCleanup \/ LateOverflow
<1>1. TypeOK /\ Chain(head, next)
  BY DEF SlotInv
<1>2. /\ head # NULL => head \in Listed /\ head \in Nodes /\ time[head] \in Nat
      /\ \A k \in Listed : k \in Nodes /\ next[k] \in Listed \union {NULL}
  BY <1>1, ListFacts DEF TypeOK
<1>3. CASE comp' # "off"
  BY <1>3 DEF Armed
<1>4. ASSUME UNCHANGED <<comp, comp_en, head, now, time>> PROVE Armed'
  BY <1>4, ArmedSame
<1>5. ASSUME NEW c \in Callers, NEW t, NEW p, Allocate(c, t, p)
      PROVE  Armed'
  <2>1. comp' = comp /\ comp_en' = comp_en /\ head' = head /\ now' = now
    BY <1>5 DEF Allocate, Disciplined, isr, clock, store
  <2>2. head # NULL => time'[head] = time[head]
    <3>1. CASE UNCHANGED store
      BY <3>1 DEF store
    <3>2. CASE used # Slots /\ time' = [time EXCEPT ![FirstFree] = t]
      <4>1. FirstFree \notin Listed
        BY <3>2, FirstFreeSlot, <1>1 DEF SlotInv, EverySlotAccounted, TypeOK
      <4> QED BY <1>1, <1>2, <3>2, <4>1 DEF TypeOK
    <3> QED BY <1>5, <3>1, <3>2 DEF Allocate, Disciplined
  <2> QED BY <2>1, <2>2, ArmedSame
<1>6. ASSUME NEW c \in Callers, NEW n \in Nodes, removeTask(c, n)
      PROVE  Armed'
  <2>1. n \in Listed /\ Unlink(n) /\ comp' = comp /\ comp_en' = comp_en /\ now' = now
    BY <1>6 DEF removeTask, isr, clock
  <2>2. \A k \in Listed \ {n} : time'[k] = time[k]
    BY <1>1, <1>2, <2>1 DEF Unlink, Free, TypeOK
  <2>3. CASE head = n
    <3>1. next[n] # n
      BY <1>1, <2>1, ListFacts, ChainNoSelf
    <3>2. head' = next[head]
      BY <2>1, <2>3 DEF Unlink
    <3>3. CASE head' = next[head] /\ head' # NULL
      <4>1. next[head] \in Listed \ {n} /\ time[head] <= time[next[head]]
        BY <1>2, <2>1, <2>3, <3>1, <3>3 DEF Sorted
      <4>2. /\ HeadTime = time[head] /\ HeadTime' = time[next[head]] /\ head # NULL
            /\ time[head] \in Nat /\ time[next[head]] \in Nat
        BY <1>1, <1>2, <2>1, <2>2, <2>3, <3>3, <4>1, NodeFacts DEF HeadTime, TypeOK
      <4>3. EpochEnd(now)' = EpochEnd(now) /\ EpochEnd(now) \in Int
        BY <1>1, <2>1, SchedulerAssumption, ModFacts DEF EpochEnd, EpochStart, TypeOK
      <4>4. HeadTime' <= EpochEnd(now)' => HeadTime <= EpochEnd(now)
        BY <4>1, <4>2, <4>3
      <4> QED BY <2>1, <4>2, <4>4 DEF Armed
    <3>4. CASE head' = NULL
      BY <3>4 DEF Armed
    <3> QED BY <3>2, <3>3, <3>4
  <2>4. CASE head # n
    <3>1. head' = head
      BY <2>1, <2>4 DEF Unlink
    <3> QED BY <1>2, <2>1, <2>2, <2>4, <3>1, ArmedSame
  <2> QED BY <2>3, <2>4
<1>7. ASSUME NEW c \in Callers, Call(c)
      PROVE  Armed'
  <2>1. ASSUME NEW d \in Delays, scheduleTask(c, d)
        PROVE  Armed'
    BY <1>5, <2>1 DEF scheduleTask
  <2>2. ASSUME NEW r \in Periods, schedulePeriodicTask(c, r)
        PROVE  Armed'
    BY <1>5, <2>2 DEF schedulePeriodicTask
  <2> QED BY <1>6, <1>7, <2>1, <2>2 DEF Call
<1>8. ASSUME NEW c \in Contexts, Insert(c)
      PROVE  Armed'
  <2>1. PICK n : n = op[c].node
    OBVIOUS
  <2>2. Link(n, time[n], num_tasks) /\ time' = time /\ comp' = comp /\ now' = now
    BY <1>8, <2>1 DEF Insert, isr
  <2>3. CASE GoesFirst(time[n]) /\ comp = "off"
    <3>1. Arm(time[n])
      BY <1>8, <2>1, <2>3 DEF Insert, task_executing
    <3>2. head' = n
      BY <2>2, <2>3 DEF Link
    <3> QED BY <2>2, <3>1, <3>2, ArmedArm
  <2>4. CASE ~GoesFirst(time[n])
    <3>1. head' = head /\ comp_en' = comp_en
      BY <1>8, <2>1, <2>2, <2>4 DEF Link, Insert, clock
    <3> QED BY <1>4, <2>2, <3>1
  <2>5. CASE comp # "off"
    <3>1. comp' # "off"
      BY <2>2, <2>5
    <3> QED BY <3>1 DEF Armed
  <2> QED BY <2>3, <2>4, <2>5
<1>9. ASSUME NEW c \in Contexts, SetPeriod(c)
      PROVE  Armed'
  BY <1>4, <1>9 DEF SetPeriod, isr, clock
<1>10. CASE removeSelf \/ StartTask \/ CompInterrupt
  <2>1. comp' # "off"
    BY <1>10 DEF removeSelf, StartTask, CompInterrupt
  <2> QED BY <1>3, <2>1
<1>11. CASE MainCheck
  BY <1>4, <1>11 DEF MainCheck, isr, clock, store
<1>12. CASE MainCleanup
  <2>1. PICK h, t : h = op["main"].node /\ t = op["main"].val
    OBVIOUS
  <2>2. time' = Retimed(h, t) /\ CleanupArm(h, t) /\ head' = head /\ now' = now /\ next' = next
    BY <1>12, <2>1 DEF MainCleanup
  <2>3. CASE h # head
    BY <1>12, <2>1, <2>3 DEF StaleCleanup
  <2>4. CASE h = head /\ head # NULL
    <3>1. Arm(t)
      BY <2>2, <2>4 DEF CleanupArm
    <3>2. op["main"] \in [pc : {"idle", "insert", "period", "cleanup"}, node : Nodes \union {NULL}, val : Nat]
      BY <1>1 DEF TypeOK, Contexts
    <3>3. t \in Nat /\ RecoverStep \in Nat
      BY <2>1, <3>2, SchedulerAssumption
    <3>4. time'[head] = t + Cardinality(Before(head, head)) * RecoverStep
      BY <1>2, <2>2, <2>4 DEF Retimed, Listed
    <3>5. Cardinality(Before(head, head)) = 0
      BY <1>1, <2>4, NoneBefore, FS_EmptySet
    <3>6. time'[head] = t
      BY <3>3, <3>4, <3>5
    <3> QED BY <2>2, <3>1, <3>6, ArmedArm
  <2>5. CASE head = NULL
    BY <2>2, <2>5 DEF Armed
  <2> QED BY <2>3, <2>4, <2>5
<1>13. CASE AbortLoop \/ TaskReturns
  <2>1. comp # "off" /\ comp_en' = comp_en
    BY <1>13 DEF AbortLoop, TaskReturns, clock
  <2> QED BY <2>1 DEF IsrOn, Armed
<1>14. CASE EndLoop
  <2>1. head' = head /\ time' = time /\ now' = now
    BY <1>14 DEF EndLoop, store
  <2>2. CASE head # NULL
    <3>1. Arm(time[head])
      BY <1>14, <2>2 DEF EndLoop, HeadTime
    <3> QED BY <2>1, <3>1, ArmedArm
  <2>3. CASE head = NULL
    BY <2>1, <2>3 DEF Armed
  <2> QED BY <2>2, <2>3
<1>15. CASE Tick
  <2>1. /\ now \in Nat /\ now' = now + 1 /\ now' % EpochLen # 0
        /\ comp' = comp /\ comp_en' = comp_en /\ head' = head /\ time' = time
    BY <1>1, <1>15 DEF Tick, Count, isr, store, TypeOK
  <2>2. EpochEnd(now') = EpochEnd(now)
    BY <2>1, SameEpoch
  <2>3. HeadTime' = HeadTime
    BY <2>1 DEF HeadTime
  <2> QED BY <2>1, <2>2, <2>3 DEF Armed
<1>16. CASE Overflow
  <2>1. CASE ~(now' <= HeadTime /\ HeadTime < EpochEnd(now'))
    BY <1>16, <2>1 DEF LateOverflow
  <2>2. CASE now' <= HeadTime /\ HeadTime < EpochEnd(now')
    <3>1. comp' = comp /\ head' = head
      BY <1>16 DEF Overflow, isr, store
    <3>2. comp = "off" /\ head # NULL => comp_en' = TRUE
      BY <1>16, <2>2 DEF Overflow, task_executing
    <3> QED BY <3>1, <3>2 DEF Armed
  <2> QED BY <2>1, <2>2
<1>17. CASE UNCHANGED vars
  BY <1>4, <1>17 DEF vars, isr, clock, store
<1> QED
  BY <1>7, <1>8, <1>9, <1>10, <1>11, <1>12, <1>13, <1>14, <1>15, <1>16, <1>17
  DEF Next, Work, Main, CompISR

\* With disciplined callers and a list in order: whoever links, removes or runs tasks
\* and whatever interrupts it, the compare interrupt stays enabled while the head is
\* due in this epoch.  taskListCleanup, when the head changed after it was read, and an
\* overflow that finds the head at the last tick or in the past are the only two
\* steps after which nothing but the main loop's check will find it.
THEOREM AlarmIsKept ==
  ASSUME Disciplined
  PROVE  Spec => AlarmKept
<1>1. Init => SlotInv /\ IsrOn
  BY SlotInit DEF Init, IsrOn
<1>2. SlotInv /\ IsrOn /\ [Next]_vars => (SlotInv /\ IsrOn)'
  <2>1. SlotInv => TypeOK
    BY DEF SlotInv
  <2> QED BY <2>1, SlotNext, IsrOnNext
<1>3. SlotInv /\ IsrOn /\ [Next]_vars => [Sorted /\ Armed => Armed' \/ StaleCleanup \/ LateOverflow]_vars
  BY AlarmNext
<1> QED BY <1>1, <1>2, <1>3, PTL DEF Spec, AlarmKept

-----------------------------------------------------------------------------
(***************************************************************************)
(* Scheduler implements TaskQueue when its callers are Disciplined.        *)
(***************************************************************************)

\* The mapped state, one slot at a time.
LEMMA DueFacts ==
  ASSUME SlotInv
  PROVE  /\ WaitingTimes = [s \in Slots |-> IF s \in Listed THEN time[s] ELSE NULL]
         /\ Listed \subseteq Slots /\ InUse \subseteq Slots
         /\ Listed \intersect InUse = {}
         /\ \A s \in Slots : time[s] \in Nat /\ time[s] # NULL
<1>1. WaitingTimes = [s \in Slots |-> IF s \in Listed THEN time[s] ELSE NULL]
  BY DEF WaitingTimes
<1>2. Listed \subseteq Slots /\ InUse \subseteq Slots /\ Listed \intersect InUse = {}
  BY DEF SlotInv, EverySlotAccounted, TypeOK, InUse
<1>3. \A s \in Slots : time[s] \in Nat /\ time[s] # NULL
  BY NodeFacts, SchedulerAssumption DEF SlotInv, TypeOK
<1> QED BY <1>1, <1>2, <1>3

\* The mapped state after a step.
LEMMA DueFactsPrime ==
  ASSUME SlotInv'
  PROVE  WaitingTimes' = [s \in Slots |-> IF s \in Listed' THEN time'[s] ELSE NULL]
BY DEF WaitingTimes

\* No task waits and none runs at the start.
LEMMA QueueInit == Init => Queue!Init
<1> SUFFICES ASSUME Init PROVE Queue!Init
  OBVIOUS
<1>1. SlotInv
  BY SlotInit
<1>2. Listed = {}
  <2>1. {} \in Closed(head, next)
    BY DEF Init, Closed
  <2> QED BY <2>1, ReachableLeast DEF Listed
<1>3. WaitingTimes = [s \in Slots |-> NULL]
  BY <1>1, <1>2, DueFacts
<1>4. InUse = {}
  BY DEF Init, InUse, Executing
<1> QED BY <1>3, <1>4 DEF Queue!Init, Init

----------------------------------------------------------------------------
(* Each kind of step.                                                      *)

\* Nothing that TaskQueue sees changes.
LEMMA QueueStutter ==
  ASSUME SlotInv, SlotInv', Listed' = Listed, \A s \in Listed : time'[s] = time[s],
         InUse' = InUse, now' = now
  PROVE  UNCHANGED Queue!vars
<1>1. WaitingTimes' = WaitingTimes
  BY DueFacts, DueFactsPrime
<1> QED BY <1>1 DEF Queue!vars

\* A node that is linked is a task submitted.
LEMMA QueueSubmit ==
  ASSUME SlotInv, SlotInv', NEW n \in Slots \ (Listed \union InUse),
         Listed' = Listed \union {n}, \A s \in Slots : time'[s] = time[s],
         InUse' = InUse, now' = now
  PROVE  Queue!Next
<1>1. WaitingTimes' = [WaitingTimes EXCEPT ![n] = WaitingTimes'[n]]
  BY DueFacts, DueFactsPrime
<1>2. WaitingTimes'[n] \notin {NULL} /\ WaitingTimes[n] = NULL
  BY DueFacts, DueFactsPrime
<1>3. Queue!Submit(n)
  BY <1>1, <1>2 DEF Queue!Submit, Queue!Waits
<1> QED BY <1>3 DEF Queue!Next

\* A node removed from the list is a task cancelled.
LEMMA QueueCancel ==
  ASSUME SlotInv, SlotInv', NEW n \in Listed,
         Listed' = Listed \ {n}, \A s \in Slots \ {n} : time'[s] = time[s],
         InUse' = InUse, now' = now
  PROVE  Queue!Next
<1>1. WaitingTimes' = [WaitingTimes EXCEPT ![n] = NULL] /\ WaitingTimes[n] # NULL
  BY DueFacts, DueFactsPrime
<1>2. Queue!Cancel(n)
  BY <1>1 DEF Queue!Cancel, Queue!Waits
<1> QED BY <1>2, DueFacts DEF Queue!Next

\* The head that run_tasks takes is a task started.
LEMMA QueueStart ==
  ASSUME SlotInv, SlotInv', NEW n \in Listed, time[n] <= now + RunAhead,
         Listed' = Listed \ {n}, time' = time,
         InUse = {}, InUse' = {n}, now' = now
  PROVE  Queue!Next
<1>1. /\ WaitingTimes' = [WaitingTimes EXCEPT ![n] = NULL]
      /\ WaitingTimes[n] # NULL /\ WaitingTimes[n] = time[n]
  BY DueFacts, DueFactsPrime
<1>2. Queue!Start(n)
  BY <1>1 DEF Queue!Start, Queue!Waits
<1> QED BY <1>2, DueFacts DEF Queue!Next

\* A task function that returns is a task finished; a periodic one waits
\* again.
LEMMA QueueFinish ==
  ASSUME SlotInv, SlotInv', NEW n \in InUse, InUse' = {}, now' = now,
         \A s \in Slots \ {n} : time'[s] = time[s],
         Listed' = Listed \/ Listed' = Listed \union {n}
  PROVE  Queue!Next
<1>1. n \in Slots \ Listed
  BY DueFacts
<1>2. CASE Listed' = Listed
  <2>1. WaitingTimes' = WaitingTimes
    BY <1>1, <1>2, DueFacts, DueFactsPrime
  <2>2. Queue!Finish(n)
    BY <2>1 DEF Queue!Finish
  <2> QED BY <1>1, <2>2 DEF Queue!Next
<1>3. CASE Listed' = Listed \union {n}
  <2>1. WaitingTimes' = [WaitingTimes EXCEPT ![n] = WaitingTimes'[n]]
    BY <1>1, <1>3, DueFacts, DueFactsPrime
  <2>2. WaitingTimes'[n] \notin {NULL}
    <3>1. time'[n] \in Nat
      BY <1>1, NodeFacts DEF SlotInv, TypeOK
    <3> QED BY <1>1, <1>3, <3>1, DueFactsPrime, SchedulerAssumption
  <2>3. Queue!Finish(n)
    BY <2>1, <2>2 DEF Queue!Finish
  <2> QED BY <1>1, <2>3 DEF Queue!Next
<1> QED BY <1>2, <1>3

\* New times for the same list are tasks postponed, by taskListCleanup.
LEMMA QueuePostpone ==
  ASSUME SlotInv, SlotInv', Listed' = Listed, InUse' = InUse, now' = now
  PROVE  Queue!Next
<1>1. \A s \in Slots : time'[s] \in Nat /\ time'[s] # NULL
  BY NodeFacts, SchedulerAssumption DEF SlotInv, TypeOK
<1>2. /\ WaitingTimes' \in [Slots -> Nat \union {NULL}]
      /\ \A s \in Slots : WaitingTimes[s] # NULL <=> WaitingTimes'[s] # NULL
  BY <1>1, DueFacts, DueFactsPrime
<1>3. Queue!Postpone
  BY <1>2 DEF Queue!Postpone, Queue!Waits
<1> QED BY <1>3 DEF Queue!Next

\* A tick of the RTC is a tick of the queue's time.
LEMMA QueuePass ==
  ASSUME SlotInv, SlotInv', now' = now + 1, UNCHANGED <<time, next, head, comp, cur>>
  PROVE  Queue!Next
<1>1. Listed' = Listed /\ InUse' = InUse
  BY DEF Listed, InUse, Executing
<1>2. WaitingTimes' = WaitingTimes
  BY <1>1, DueFacts, DueFactsPrime
<1> QED BY <1>1, <1>2 DEF Queue!Next, Queue!Pass

----------------------------------------------------------------------------
\* Every step of the scheduler is one of TaskQueue or is not seen there.
LEMMA QueueNext ==
  ASSUME SlotInv, SlotInv', Disciplined, [Next]_vars
  PROVE  [Queue!Next]_(Queue!vars)
<1>1. TypeOK /\ Chain(head, next)
  BY DEF SlotInv
<1>2. ASSUME UNCHANGED <<now, time, next, head, cur>>,
             comp' = comp \/ {comp, comp'} \subseteq {"off", "loop"}
      PROVE  UNCHANGED Queue!vars
  <2>1. Listed' = Listed /\ InUse' = InUse
    BY <1>1, <1>2, ExecutingFacts DEF Listed, InUse, Executing
  <2> QED BY <1>2, <2>1, QueueStutter
<1>3. ASSUME NEW c \in Callers, NEW t, NEW p, Allocate(c, t, p)
      PROVE  UNCHANGED Queue!vars
  <2>1. CASE UNCHANGED store
    BY <1>2, <1>3, <2>1 DEF Allocate, store, isr
  <2>2. CASE /\ used # Slots
             /\ time' = [time EXCEPT ![FirstFree] = t]
             /\ next' = [next EXCEPT ![FirstFree] = NULL]
             /\ head' = head
    <3>1. FirstFree \notin Listed
      BY <2>2, FirstFreeSlot, <1>1 DEF SlotInv, EverySlotAccounted, TypeOK
    <3>2. \A k \in Listed : next'[k] = next[k] /\ time'[k] = time[k]
      BY <1>1, <2>2, <3>1, ListFacts DEF TypeOK
    <3>3. next' \in Links
      BY DEF SlotInv, TypeOK, Links
    <3>4. Listed' = Listed
      BY <1>1, <2>2, <3>2, <3>3, ListFacts, ReachableSame DEF Listed
    <3>5. InUse' = InUse /\ now' = now
      BY <1>3 DEF Allocate, isr, InUse, Executing
    <3> QED BY <3>2, <3>4, <3>5, QueueStutter
  <2> QED BY <1>3, <2>1, <2>2 DEF Allocate, Disciplined
<1>4. ASSUME NEW c \in Callers, Call(c)
      PROVE  [Queue!Next]_(Queue!vars)
  <2>1. ASSUME NEW d \in Delays, scheduleTask(c, d)
        PROVE  UNCHANGED Queue!vars
    BY <1>3, <2>1 DEF scheduleTask
  <2>2. ASSUME NEW r \in Periods, schedulePeriodicTask(c, r)
        PROVE  UNCHANGED Queue!vars
    BY <1>3, <2>2 DEF schedulePeriodicTask
  <2>3. ASSUME NEW n \in Nodes, removeTask(c, n)
        PROVE  Queue!Next
    <3>1. n \in Listed /\ Unlink(n) /\ UNCHANGED <<now, comp, cur>>
      BY <2>3 DEF removeTask, isr
    <3>2. Listed' = Listed \ {n}
      BY <1>1, <3>1, UnlinkListed
    <3>3. \A s \in Slots \ {n} : time'[s] = time[s]
      BY <1>1, <3>1, NodeFacts DEF Unlink, Free, TypeOK
    <3>4. InUse' = InUse
      BY <3>1 DEF InUse, Executing
    <3> QED BY <3>1, <3>2, <3>3, <3>4, QueueCancel
  <2> QED BY <1>4, <2>1, <2>2, <2>3 DEF Call
<1>5. ASSUME NEW c \in Contexts, Insert(c)
      PROVE  Queue!Next
  <2> DEFINE n == op[c].node
  <2>1. n \in Held /\ n \in Nodes
    BY <1>1, <1>5 DEF Insert, Held, TypeOK
  <2>2. n \in Slots \ (Listed \union InUse) /\ n \notin Listed
    BY <1>1, <2>1 DEF SlotInv, EverySlotAccounted, TypeOK, InUse
  <2>3. Link(n, time[n], num_tasks) /\ UNCHANGED <<now, time, comp, cur>>
    BY <1>5 DEF Insert, isr
  <2> HIDE DEF n
  <2>4. Listed' = Listed \union {n}
    <3>1. num_tasks \in Int
      BY <1>1 DEF TypeOK
    <3> QED BY <1>1, <2>1, <2>2, <2>3, <3>1, LinkListed
  <2>5. InUse' = InUse
    BY <2>3 DEF InUse, Executing
  <2> QED BY <2>2, <2>3, <2>4, <2>5, QueueSubmit
<1>6. CASE removeSelf
  <2>1. /\ comp = "body" /\ comp' = "leaving" /\ now' = now /\ Unlink(cur)
        /\ cur \in Nodes /\ Executing = {cur}
    BY <1>1, <1>6, ExecutingFacts DEF removeSelf, Runs
  <2>2. cur \in InUse /\ cur \notin Listed /\ InUse' = {}
    BY <2>1 DEF InUse, SlotInv, EverySlotAccounted
  <2>3. Free(cur, next) /\ head' = head
    BY <1>1, <2>1, <2>2, UnlinkUnlisted
  <2>4. Listed' = Listed
    BY <1>1, <2>1, <2>2, <2>3, FreeUnlisted
  <2>5. \A s \in Slots \ {cur} : time'[s] = time[s]
    BY <1>1, <2>3, NodeFacts DEF Free, TypeOK
  <2> QED BY <2>1, <2>2, <2>4, <2>5, QueueFinish
<1>7. CASE StartTask
  <2>1. /\ comp = "loop" /\ head # NULL /\ time[head] <= now + RunAhead
        /\ cur' = head /\ head' = next[head] /\ comp' = "body"
        /\ UNCHANGED <<now, time, next>>
    BY <1>7 DEF StartTask, Due, HeadTime
  <2>2. head \in Nodes /\ head \in Listed
    BY <1>1, <2>1, ListFacts
  <2>3. Listed' = Listed \ {head}
    BY <1>1, <2>1, <2>2, ListFacts, DropFirst DEF Listed
  <2>4. InUse = {} /\ InUse' = {head}
    BY <1>1, <2>1, <2>2, ExecutingFacts, NodeFacts DEF InUse, Executing
  <2> QED BY <2>1, <2>2, <2>3, <2>4, QueueStart
<1>8. CASE TaskReturns
  <2>1. /\ comp \in {"body", "leaving"} /\ comp' \in {"loop", "off"} /\ cur' = NULL
        /\ now' = now /\ cur \in Nodes /\ Executing = {cur}
    BY <1>1, <1>8, ExecutingFacts DEF TaskReturns
  <2>2. cur \notin Listed /\ InUse' = {}
    BY <2>1 DEF SlotInv, EverySlotAccounted, InUse, Executing
  <2>3. \A s \in Slots \ {cur} : time'[s] = time[s]
    BY <1>1, <1>8, NodeFacts DEF TaskReturns, Free, TypeOK
  <2>4. CASE period[cur] > 0
    <3>1. comp # "leaving" /\ InUse = {cur}
      BY <2>1, <2>4 DEF SlotInv, InUse
    <3>2. PICK t : Link(cur, t, num_tasks - 1)
      BY <1>8, <2>4 DEF TaskReturns
    <3>3. Listed' = Listed \union {cur}
      <4>1. num_tasks - 1 \in Int
        BY <1>1 DEF TypeOK
      <4> QED BY <1>1, <2>1, <2>2, <3>2, <4>1, LinkListed
    <3> QED BY <2>1, <2>2, <2>3, <3>1, <3>3, QueueFinish
  <2>5. CASE ~(period[cur] > 0)
    <3>1. Listed' = Listed
      <4>1. Free(cur, next) /\ head' = head
        BY <1>8, <2>5 DEF TaskReturns
      <4> QED BY <1>1, <2>1, <2>2, <4>1, FreeUnlisted
    <3>2. CASE comp = "body"
      <4>1. InUse = {cur}
        BY <2>1, <3>2 DEF InUse
      <4> QED BY <2>1, <2>2, <2>3, <3>1, <4>1, QueueFinish
    <3>3. CASE comp = "leaving"
      <4>1. InUse = {}
        BY <3>3 DEF InUse
      <4>2. \A s \in Listed : time'[s] = time[s]
        BY <2>2, <2>3, DueFacts
      <4> QED BY <2>1, <2>2, <3>1, <4>1, <4>2, QueueStutter
    <3> QED BY <2>1, <3>2, <3>3
  <2> QED BY <2>4, <2>5
<1>9. CASE MainCleanup
  <2>1. Listed' = Listed /\ InUse' = InUse /\ now' = now
    BY <1>9 DEF MainCleanup, isr, Listed, InUse, Executing
  <2> QED BY <2>1, QueuePostpone
<1>10. CASE Tick \/ Overflow
  BY <1>10, QueuePass DEF Tick, Overflow, Count, store, isr
<1>11. ASSUME NEW c \in Contexts, SetPeriod(c)
       PROVE  UNCHANGED Queue!vars
  BY <1>2, <1>11 DEF SetPeriod, isr
<1>12. CASE MainCheck \/ CompInterrupt \/ AbortLoop \/ EndLoop
  BY <1>2, <1>12 DEF MainCheck, CompInterrupt, AbortLoop, EndLoop, store, isr
<1>13. CASE UNCHANGED vars
  BY <1>2, <1>13 DEF vars, store, isr
<1> QED
  BY <1>4, <1>5, <1>6, <1>7, <1>8, <1>9, <1>10, <1>11, <1>12, <1>13
  DEF Next, Work, Main, CompISR

\* The scheduler implements the abstract queue: to disciplined callers its slots,
\* links, interrupts and the parts of its calls are invisible; a task that was
\* submitted waits until it is cancelled or started, and is started when due.
THEOREM SchedulerImplementsTaskQueue ==
  ASSUME Disciplined
  PROVE  Spec => ImplementsTaskQueue
<1>1. Init => SlotInv /\ Queue!Init
  BY SlotInit, QueueInit
<1>2. SlotInv /\ [Next]_vars => SlotInv'
  BY SlotNext
<1>3. SlotInv /\ SlotInv' /\ [Next]_vars => [Queue!Next]_(Queue!vars)
  BY QueueNext
<1> QED BY <1>1, <1>2, <1>3, PTL DEF Spec, ImplementsTaskQueue, Queue!Spec
=============================================================================
