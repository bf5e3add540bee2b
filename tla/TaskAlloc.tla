------------------------------ MODULE TaskAlloc ------------------------------
(***************************************************************************)
(* The task allocation program on one droplet: droplet_programs/           *)
(* task_alloc.c.                                                           *)
(*                                                                         *)
(* A droplet that waits tells with each heartbeat whether it is for        *)
(* collaborating, counts who beats around it, and forgets whom it has not  *)
(* heard for a while.  When half of its group has said yes it says GO and  *)
(* collaborates for some time; who hears GO passes it on and collaborates  *)
(* too.  All of it runs in the main loop.                                  *)
(*                                                                         *)
(* What the others say is arbitrary.  roll_sigmoid may fall either way.    *)
(* Nothing leads to the states LEAVING, SAFE and SEARCHING: the only call  *)
(* that did is commented out (line 40).  Colours are left out.             *)
(***************************************************************************)
EXTENDS Integers, FiniteSets

CONSTANTS
  MyBot, Mates,    \* this droplet, and those around it
  GroupPlaces,     \* 1 .. MAX_GROUP_SIZE
  Timeout,         \* GROUP_MEMBERSHIP_TIMEOUT
  HeartRate,       \* HEART_RATE
  CollabTime,      \* COLLABORATE_DURATION
  MaxHours, MaxBeats \* bounds on the time, and on what is heard

Vacant == "vacant"

AllocAssumption ==
  /\ MyBot \notin Mates /\ Vacant \notin Mates \union {MyBot}
  /\ GroupPlaces \subseteq Nat /\ IsFiniteSet(GroupPlaces)
  /\ {Timeout, HeartRate, CollabTime, MaxHours, MaxBeats} \subseteq Nat
ASSUME AllocAssumption

VARIABLES
  hour,        \* get_time
  working,     \* state: COLLABORATING, or WAITING
  group,       \* per place [id, age]; id = Vacant is 0 in the code
  groupSize,   \* current_group_size
  yesCount,
  heartbeatAt, updatedAt, collabAt, \* heartbeat_time, last_update_time, collab_time
  heardAt,     \* when each of the others was last heard in this waiting, or -1
  saidYes,     \* somebody has said yes in this waiting
  decided,     \* the last decision of its own: [others, yes], who of the others had
               \* been heard in due time, and whether somebody had said yes
  beats        \* what has been heard

allocVars == <<hour, working, group, groupSize, yesCount, heartbeatAt, updatedAt, collabAt,
               heardAt, saidYes, decided, beats>>

Places_TA(g, id) == {i \in GroupPlaces : g[i].id = id}

\* Before its first decision
Undecided == [others |-> {MyBot}, yes |-> TRUE]

\* clear_state that leaves the group as it is
NotCleared(g) == g

\* clear_state: no age is reset, and none is looked at
Cleared_TA(g) == [i \in GroupPlaces |-> [g[i] EXCEPT !.id = Vacant]]

\* add_group_member without looking whether it is there
AddedAnew(g, id) ==
  LET free == Places_TA(g, Vacant)
  IN  IF free = {} THEN g
      ELSE [g EXCEPT ![CHOOSE i \in free : \A j \in free : i <= j] = [id |-> id, age |-> 0]]

\* add_group_member; who finds no place is not counted.
Added(g, id) ==
  IF Places_TA(g, id) # {}
  THEN [g EXCEPT ![CHOOSE i \in Places_TA(g, id) : TRUE].age = 0]
  ELSE AddedAnew(g, id)

\* update_group_size
Aged(g, gap) ==
  [i \in GroupPlaces |-> IF g[i].id = Vacant THEN g[i]
                         ELSE [id  |-> IF g[i].age + gap > Timeout THEN Vacant ELSE g[i].id,
                               age |-> g[i].age + gap]]
SizeOf(g) == Cardinality({i \in GroupPlaces : g[i].id # Vacant})

\* roll_sigmoid, of a random number
roll_sigmoid == BOOLEAN

\* send_heartbeat, with or without a yes; g and y are the group and the yeses so far
Heartbeat(g, y, yes) == /\ group' = Added(g, MyBot)
                        /\ yesCount' = IF yes THEN y + 1 ELSE y

\* change_state(WAITING)
StartWaiting(g) ==
  /\ working' = FALSE /\ groupSize' = 0
  /\ updatedAt' = hour /\ heartbeatAt' = hour
  /\ heardAt' = [e \in Mates |-> -1]
  /\ \E yes \in roll_sigmoid : Heartbeat(Cleared_TA(g), 0, yes) /\ saidYes' = yes

\* init
AllocInit ==
  /\ hour = 0 /\ working = FALSE /\ groupSize = 0
  /\ \E yes \in roll_sigmoid : yesCount = (IF yes THEN 1 ELSE 0) /\ saidYes = yes
  /\ group = Added([i \in GroupPlaces |-> [id |-> Vacant, age |-> 0]], MyBot)
  /\ heartbeatAt = 0 /\ updatedAt = 0 /\ collabAt = 0
  /\ heardAt = [e \in Mates |-> -1] /\ decided = Undecided /\ beats = 0

----------------------------------------------------------------------------
\* change_state(COLLABORATING)
Collaborate == working' = TRUE /\ collabAt' = hour

\* check_votes
Enough(size, yeses) == size > 1 /\ yeses * 2 >= size

InTime == {e \in Mates : heardAt[e] >= 0 /\ hour - heardAt[e] <= Timeout}

\* loop, in WAITING, between heartbeats
Wait ==
  /\ ~working /\ hour - heartbeatAt <= HeartRate
  /\ group' = Aged(group, hour - updatedAt) /\ updatedAt' = hour
  /\ groupSize' = SizeOf(group')
  /\ UNCHANGED <<hour, working, yesCount, heartbeatAt, collabAt, heardAt, saidYes, decided, beats>>

\* loop, in WAITING, with a heartbeat: the votes are compared with the size of
\* the group before it.
Beat ==
  /\ ~working /\ hour - heartbeatAt > HeartRate
  /\ heartbeatAt' = hour /\ updatedAt' = hour
  /\ LET aged == Aged(group, hour - updatedAt)
     IN  /\ groupSize' = SizeOf(aged)
         /\ \E yes \in roll_sigmoid : Heartbeat(aged, yesCount, yes) /\ saidYes' = (saidYes \/ yes)
  /\ IF Enough(groupSize', yesCount')
     THEN Collaborate /\ decided' = [others |-> InTime, yes |-> saidYes']
     ELSE UNCHANGED <<working, collabAt, decided>>
  /\ UNCHANGED <<hour, heardAt, beats>>

\* loop, in COLLABORATING
Return ==
  /\ working /\ hour - collabAt > CollabTime
  /\ StartWaiting(group)
  /\ UNCHANGED <<hour, collabAt, decided, beats>>

\* handle_msg: a heartbeat of e
HearBeat(e, yes) ==
  /\ beats < MaxBeats /\ beats' = beats + 1 /\ ~working
  /\ group' = Added(group, e) /\ yesCount' = IF yes THEN yesCount + 1 ELSE yesCount
  /\ heardAt' = [heardAt EXCEPT ![e] = hour] /\ saidYes' = (saidYes \/ yes)
  /\ UNCHANGED <<hour, working, groupSize, heartbeatAt, updatedAt, collabAt, decided>>

\* handle_msg: GO, which is passed on
HearGo ==
  /\ beats < MaxBeats /\ beats' = beats + 1 /\ ~working
  /\ Collaborate
  /\ UNCHANGED <<hour, group, groupSize, yesCount, heartbeatAt, updatedAt, heardAt, saidYes, decided>>

Hour ==
  /\ hour < MaxHours /\ hour' = hour + 1
  /\ UNCHANGED <<working, group, groupSize, yesCount, heartbeatAt, updatedAt, collabAt, heardAt,
                 saidYes, decided, beats>>

AllocNext ==
  \/ Hour \/ Wait \/ Beat \/ Return \/ HearGo
  \/ \E e \in Mates, yes \in BOOLEAN : HearBeat(e, yes)

AllocSpec == AllocInit /\ [][AllocNext]_allocVars

----------------------------------------------------------------------------
\* A droplet does not decide alone: when it says GO, another one has been
\* heard in this waiting and within the timeout, and somebody has said yes in
\* this waiting, however ages, turns of the loop and returns from a
\* collaboration (whose group is not aged meanwhile) come together.
DecidesTogether == decided.others # {} /\ decided.yes

=============================================================================
