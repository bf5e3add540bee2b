-------------------------- MODULE Programs_proofs ---------------------------
(***************************************************************************)
(* The programs that droplets run, and the localisation that they use.     *)
(***************************************************************************)
EXTENDS TaskAlloc, Localization, ShortPath, ChemSim, PongBall, PongBots, MouseKeyboard, NaturalFacts,
        SequenceTheorems

-----------------------------------------------------------------------------
(* Task allocation                                                         *)

\* The entries of the group, and the types of the variables.
Members == [id : Mates \cup {MyBot, Vacant}, age : Nat]

AllocTypeOK ==
  /\ hour \in Nat /\ working \in BOOLEAN /\ group \in [GroupPlaces -> Members]
  /\ yesCount \in Nat /\ updatedAt \in 0 .. hour
  /\ heardAt \in [Mates -> Nat \cup {-1}] /\ saidYes \in BOOLEAN

\* No droplet has two places.
OnePlaceEach(g) == \A i, j \in GroupPlaces : g[i].id = g[j].id /\ g[i].id # Vacant => i = j

\* A droplet that has a place was heard, no longer ago than the age it has there
\* and what has passed since ages were counted.
HeardWhenAged(g, updated, heard) ==
  \A i \in GroupPlaces : g[i].id \in Mates =>
    heard[g[i].id] \in Nat /\ updated - heard[g[i].id] <= g[i].age

\* Who is in the group has one place in it, and its age is that of its last
\* heartbeat, as of the last ageing.
AllocInv ==
  /\ AllocTypeOK
  /\ OnePlaceEach(group) /\ HeardWhenAged(group, updatedAt, heardAt)
  /\ yesCount > 0 => saidYes
  /\ DecidesTogether

----------------------------------------------------------------------------
\* add_group_member: who is added has one place, of age 0, or none.
LEMMA AddedGroup ==
  ASSUME NEW g \in [GroupPlaces -> Members], NEW id \in Mates \cup {MyBot}, OnePlaceEach(g)
  PROVE  /\ Added(g, id) \in [GroupPlaces -> Members] /\ OnePlaceEach(Added(g, id))
         /\ \A i \in GroupPlaces : \/ Added(g, id)[i] = [id |-> id, age |-> 0]
                                   \/ Added(g, id)[i] = g[i] /\ g[i].id # id
                                   \/ Added(g, id)[i] = g[i] /\ id \notin Mates
<1>0. id # Vacant
  BY AllocAssumption DEF AllocAssumption
<1>1. CASE Places_TA(g, id) # {}
  <2> DEFINE k == CHOOSE i \in Places_TA(g, id) : TRUE
  <2>1. k \in GroupPlaces /\ g[k].id = id
    BY <1>1 DEF Places_TA
  <2>2. Added(g, id) = [g EXCEPT ![k] = [g[k] EXCEPT !.age = 0]]
    BY <1>1 DEF Added
  <2> HIDE DEF k
  <2>3. g[k] \in Members /\ [g[k] EXCEPT !.age = 0] = [id |-> id, age |-> 0]
    BY <2>1 DEF Members
  <2>4. \A i \in GroupPlaces \ {k} : g[i].id # id
    BY <1>0, <2>1 DEF OnePlaceEach
  <2>5. [id |-> id, age |-> 0] \in Members
    BY DEF Members
  <2>6. Added(g, id) = [g EXCEPT ![k] = [id |-> id, age |-> 0]]
    BY <2>2, <2>3
  <2> QED BY <2>1, <2>4, <2>5, <2>6 DEF OnePlaceEach
<1>2. CASE Places_TA(g, id) = {} /\ Places_TA(g, Vacant) = {}
  <2>1. Added(g, id) = g /\ \A i \in GroupPlaces : g[i].id # id
    BY <1>2 DEF Added, AddedAnew, Places_TA
  <2> QED BY <2>1
<1>3. CASE Places_TA(g, id) = {} /\ Places_TA(g, Vacant) # {}
  <2> DEFINE k == CHOOSE i \in Places_TA(g, Vacant) : \A j \in Places_TA(g, Vacant) : i <= j
  <2>1. Added(g, id) = [g EXCEPT ![k] = [id |-> id, age |-> 0]]
    BY <1>3 DEF Added, AddedAnew
  <2> HIDE DEF k
  <2>2. \A i \in GroupPlaces : g[i].id # id
    BY <1>3 DEF Places_TA
  <2>3. [id |-> id, age |-> 0] \in Members
    BY DEF Members
  <2>4. \A i \in GroupPlaces : Added(g, id)[i] = IF i = k THEN [id |-> id, age |-> 0] ELSE g[i]
    BY <2>1
  <2>5. Added(g, id) \in [GroupPlaces -> Members]
    BY <2>1, <2>3
  <2> QED BY <2>2, <2>4, <2>5 DEF OnePlaceEach
<1> QED BY <1>1, <1>2, <1>3

\* update_group_size: who keeps a place is not older than the timeout.
LEMMA AgedGroup ==
  ASSUME NEW g \in [GroupPlaces -> Members], NEW gap \in Nat, OnePlaceEach(g)
  PROVE  /\ Aged(g, gap) \in [GroupPlaces -> Members] /\ OnePlaceEach(Aged(g, gap))
         /\ \A i \in GroupPlaces : Aged(g, gap)[i].id # Vacant =>
              /\ Aged(g, gap)[i].id = g[i].id /\ Aged(g, gap)[i].age = g[i].age + gap
              /\ g[i].age + gap <= Timeout
<1> DEFINE a(i) == IF g[i].id = Vacant THEN g[i]
                   ELSE [id  |-> IF g[i].age + gap > Timeout THEN Vacant ELSE g[i].id,
                         age |-> g[i].age + gap]
<1>0. Timeout \in Nat
  BY AllocAssumption DEF AllocAssumption
<1>1. \A i \in GroupPlaces : Aged(g, gap)[i] = a(i)
  BY DEF Aged
<1>2. ASSUME NEW i \in GroupPlaces
      PROVE  /\ a(i) \in Members
             /\ a(i).id # Vacant => a(i).id = g[i].id /\ a(i).age = g[i].age + gap /\ g[i].age + gap <= Timeout
  <2>1. g[i] \in Members /\ g[i].age + gap \in Nat
    BY DEF Members
  <2>2. CASE g[i].id = Vacant
    BY <2>1, <2>2
  <2>3. CASE g[i].id # Vacant
    BY <1>0, <2>1, <2>3 DEF Members
  <2> QED BY <2>2, <2>3
<1>3. Aged(g, gap) \in [GroupPlaces -> Members]
  BY <1>2 DEF Aged
<1> HIDE DEF a
<1> QED BY <1>1, <1>2, <1>3 DEF OnePlaceEach

\* A group of more than one has somebody else in it.
LEMMA NotAlone ==
  ASSUME NEW g \in [GroupPlaces -> Members], OnePlaceEach(g), SizeOf(g) > 1
  PROVE  \E i \in GroupPlaces : g[i].id \in Mates
<1> DEFINE T == {i \in GroupPlaces : g[i].id # Vacant}
<1>1. IsFiniteSet(T) /\ Cardinality(T) \in Nat /\ Cardinality(T) > 1
  <2>1. IsFiniteSet(T)
    BY FS_Subset, AllocAssumption DEF AllocAssumption
  <2> QED BY <2>1, FS_CardinalityType DEF SizeOf
<1>2. PICK i \in T : TRUE
  BY <1>1, FS_EmptySet
<1>3. PICK j \in T \ {i} : TRUE
  <2>1. Cardinality(T \ {i}) = Cardinality(T) - 1
    BY <1>1, <1>2, FS_RemoveElement
  <2> QED BY <1>1, <2>1, FS_EmptySet
<1>4. g[i].id # g[j].id /\ {g[i].id, g[j].id} \subseteq Mates \cup {MyBot}
  BY <1>2, <1>3 DEF OnePlaceEach, Members
<1> QED BY <1>2, <1>3, <1>4

----------------------------------------------------------------------------
\* The group is empty at first.
LEMMA AllocInitially == AllocInit => AllocInv
<1> SUFFICES ASSUME AllocInit PROVE AllocInv
  OBVIOUS
<1> USE DEF AllocInit
<1> DEFINE g == [i \in GroupPlaces |-> [id |-> Vacant, age |-> 0]]
<1>1. g \in [GroupPlaces -> Members] /\ OnePlaceEach(g) /\ \A i \in GroupPlaces : g[i].id \notin Mates
  BY AllocAssumption DEF AllocAssumption, Members, OnePlaceEach
<1>2. group = Added(g, MyBot)
  OBVIOUS
<1> HIDE DEF g
<1>3. /\ group \in [GroupPlaces -> Members] /\ OnePlaceEach(group)
      /\ \A i \in GroupPlaces : group[i].id \notin Mates
  <2>1. /\ Added(g, MyBot) \in [GroupPlaces -> Members] /\ OnePlaceEach(Added(g, MyBot))
        /\ \A i \in GroupPlaces : Added(g, MyBot)[i] = [id |-> MyBot, age |-> 0] \/ Added(g, MyBot)[i] = g[i]
    BY <1>1, AddedGroup
  <2>2. ASSUME NEW i \in GroupPlaces
        PROVE  Added(g, MyBot)[i].id \notin Mates
    <3>1. MyBot \notin Mates
      BY AllocAssumption DEF AllocAssumption
    <3> QED BY <1>1, <2>1, <3>1
  <2> QED BY <1>2, <2>1, <2>2
<1>4. heardAt \in [Mates -> Nat \cup {-1}] /\ 0 \in 0 .. 0
  OBVIOUS
<1>5. AllocTypeOK
  <2>1. yesCount \in Nat /\ saidYes \in BOOLEAN
    BY DEF roll_sigmoid
  <2> QED BY <1>3, <1>4, <2>1 DEF AllocTypeOK
<1>6. HeardWhenAged(group, updatedAt, heardAt)
  BY <1>3 DEF HeardWhenAged
<1>7. DecidesTogether
  BY DEF DecidesTogether, Undecided
<1>8. yesCount > 0 => saidYes
  OBVIOUS
<1> QED BY <1>3, <1>5, <1>6, <1>7, <1>8 DEF AllocInv

\* A heartbeat of its own
LEMMA OwnHeartbeat ==
  ASSUME NEW g \in [GroupPlaces -> Members], OnePlaceEach(g),
         NEW updated, NEW heard, HeardWhenAged(g, updated, heard)
  PROVE  /\ Added(g, MyBot) \in [GroupPlaces -> Members] /\ OnePlaceEach(Added(g, MyBot))
         /\ HeardWhenAged(Added(g, MyBot), updated, heard)
<1>1. /\ Added(g, MyBot) \in [GroupPlaces -> Members] /\ OnePlaceEach(Added(g, MyBot))
      /\ \A i \in GroupPlaces : Added(g, MyBot)[i] = [id |-> MyBot, age |-> 0] \/ Added(g, MyBot)[i] = g[i]
  BY AddedGroup
<1> QED BY <1>1, AllocAssumption DEF AllocAssumption, HeardWhenAged

\* Ages are counted up to the hour.
LEMMA AgedToNow ==
  ASSUME AllocInv
  PROVE  LET aged == Aged(group, hour - updatedAt)
         IN  /\ aged \in [GroupPlaces -> Members] /\ OnePlaceEach(aged)
             /\ HeardWhenAged(aged, hour, heardAt)
             /\ \A i \in GroupPlaces : aged[i].id \in Mates => aged[i].id \in InTime
<1> DEFINE aged == Aged(group, hour - updatedAt)
<1>0. hour - updatedAt \in Nat /\ group \in [GroupPlaces -> Members] /\ OnePlaceEach(group)
      /\ hour \in Nat /\ updatedAt \in Nat
  BY DEF AllocInv, AllocTypeOK
<1>1. /\ aged \in [GroupPlaces -> Members] /\ OnePlaceEach(aged)
      /\ \A i \in GroupPlaces : aged[i].id # Vacant =>
              /\ aged[i].id = group[i].id /\ aged[i].age = group[i].age + (hour - updatedAt)
              /\ group[i].age + (hour - updatedAt) <= Timeout
  BY <1>0, AgedGroup
<1> HIDE DEF aged
<1>2. ASSUME NEW i \in GroupPlaces, aged[i].id \in Mates
      PROVE  /\ heardAt[aged[i].id] \in Nat /\ hour - heardAt[aged[i].id] <= aged[i].age
             /\ aged[i].age <= Timeout
  <2>1. aged[i].id # Vacant
    BY <1>2, AllocAssumption DEF AllocAssumption
  <2>2. aged[i].id = group[i].id /\ aged[i].age = group[i].age + (hour - updatedAt) /\ aged[i].age <= Timeout
    BY <1>1, <2>1
  <2>3. heardAt[group[i].id] \in Nat /\ updatedAt - heardAt[group[i].id] <= group[i].age
    BY <1>2, <2>2 DEF AllocInv, HeardWhenAged
  <2>4. group[i].age \in Nat
    BY <1>0 DEF Members
  <2> QED BY <1>0, <2>2, <2>3, <2>4
<1>3. ASSUME NEW i \in GroupPlaces, aged[i].id \in Mates
      PROVE  aged[i].id \in InTime
  <2>1. aged[i].age \in Nat /\ Timeout \in Nat
    BY <1>1, AllocAssumption DEF Members, AllocAssumption
  <2> QED BY <1>0, <1>2, <1>3, <2>1 DEF InTime
<1>4. HeardWhenAged(aged, hour, heardAt)
  BY <1>2 DEF HeardWhenAged
<1> QED BY <1>1, <1>3, <1>4 DEF aged

\* Every heartbeat, turn of the loop and decision keeps the invariant.
LEMMA AllocStep == AllocInv /\ [AllocNext]_allocVars => AllocInv'
<1> SUFFICES ASSUME AllocInv, [AllocNext]_allocVars PROVE AllocInv'
  OBVIOUS
<1>1. CASE Hour
  BY <1>1 DEF Hour, AllocInv, AllocTypeOK, OnePlaceEach, HeardWhenAged, DecidesTogether
<1>2. CASE Wait
  <2>1. group' \in [GroupPlaces -> Members] /\ OnePlaceEach(group') /\ HeardWhenAged(group', hour, heardAt)
    BY <1>2, AgedToNow DEF Wait
  <2> QED BY <1>2, <2>1 DEF Wait, AllocInv, AllocTypeOK, DecidesTogether
<1>3. CASE Beat
  <2> DEFINE aged == Aged(group, hour - updatedAt)
  <2>1. /\ aged \in [GroupPlaces -> Members] /\ OnePlaceEach(aged) /\ HeardWhenAged(aged, hour, heardAt)
        /\ \A i \in GroupPlaces : aged[i].id \in Mates => aged[i].id \in InTime
    BY AgedToNow
  <2>2. PICK yes \in BOOLEAN : Heartbeat(aged, yesCount, yes) /\ saidYes' = (saidYes \/ yes)
    BY <1>3 DEF Beat, roll_sigmoid
  <2>3. groupSize' = SizeOf(aged) /\ updatedAt' = hour /\ UNCHANGED <<hour, heardAt>> /\ ~working
    BY <1>3 DEF Beat
  <2> HIDE DEF aged
  <2>4. group' \in [GroupPlaces -> Members] /\ OnePlaceEach(group') /\ HeardWhenAged(group', hour, heardAt)
    BY <2>1, <2>2, OwnHeartbeat DEF Heartbeat
  <2>5. yesCount' = (IF yes THEN yesCount + 1 ELSE yesCount) /\ saidYes' \in BOOLEAN
    BY <2>2 DEF Heartbeat
  <2>6. yesCount' \in Nat /\ (yesCount' > 0 => saidYes')
    BY <2>2, <2>5 DEF AllocInv, AllocTypeOK
  <2>7. AllocTypeOK'
    <3>1. working' \in BOOLEAN
      BY <1>3 DEF Beat, Collaborate, AllocInv, AllocTypeOK
    <3> QED BY <2>3, <2>4, <2>5, <2>6, <3>1 DEF AllocInv, AllocTypeOK
  <2>8. DecidesTogether'
    <3>1. CASE Enough(groupSize', yesCount')
      <4>1. decided' = [others |-> InTime, yes |-> saidYes']
        BY <1>3, <3>1 DEF Beat
      <4>2. SizeOf(aged) > 1 /\ yesCount' * 2 >= SizeOf(aged)
        BY <2>3, <3>1 DEF Enough
      <4>3. InTime # {}
        BY <2>1, <4>2, NotAlone
      <4>4. SizeOf(aged) \in Nat
        BY FS_Subset, FS_CardinalityType, AllocAssumption DEF SizeOf, AllocAssumption
      <4>5. yesCount' > 0
        BY <2>6, <4>2, <4>4
      <4> QED BY <2>6, <4>1, <4>3, <4>5 DEF DecidesTogether
    <3>2. CASE ~Enough(groupSize', yesCount')
      BY <1>3, <3>2 DEF Beat, AllocInv, DecidesTogether
    <3> QED BY <3>1, <3>2
  <2> QED BY <2>3, <2>4, <2>6, <2>7, <2>8 DEF AllocInv
<1>4. CASE Return
  <2> DEFINE cleared == Cleared_TA(group)
  <2>1. /\ cleared \in [GroupPlaces -> Members] /\ OnePlaceEach(cleared)
        /\ \A i \in GroupPlaces : cleared[i].id \notin Mates
    <3>1. \A i \in GroupPlaces : cleared[i] = [group[i] EXCEPT !.id = Vacant] /\ group[i] \in Members
      BY DEF Cleared_TA, AllocInv, AllocTypeOK
    <3>2. \A i \in GroupPlaces : cleared[i] \in Members /\ cleared[i].id = Vacant
      BY <3>1 DEF Members
    <3>3. cleared \in [GroupPlaces -> Members]
      BY <3>2 DEF Cleared_TA
    <3> HIDE DEF cleared
    <3> QED BY <3>2, <3>3, AllocAssumption DEF OnePlaceEach, AllocAssumption
  <2>2. PICK yes \in BOOLEAN : Heartbeat(cleared, 0, yes) /\ saidYes' = yes
    BY <1>4 DEF Return, StartWaiting, roll_sigmoid
  <2> HIDE DEF cleared
  <2>3. /\ heardAt' = [e \in Mates |-> -1] /\ updatedAt' = hour /\ working' = FALSE
        /\ UNCHANGED <<hour, decided>>
    BY <1>4, Zenon DEF Return, StartWaiting
  <2>4. HeardWhenAged(cleared, hour, heardAt')
    BY <2>1 DEF HeardWhenAged
  <2>5. group' \in [GroupPlaces -> Members] /\ OnePlaceEach(group') /\ HeardWhenAged(group', hour, heardAt')
    BY <2>1, <2>2, <2>4, OwnHeartbeat DEF Heartbeat
  <2>6. yesCount' = (IF yes THEN 1 ELSE 0)
    BY <2>2 DEF Heartbeat
  <2>7. heardAt' \in [Mates -> Nat \cup {-1}]
    BY <2>3
  <2>8. yesCount' \in Nat /\ (yesCount' > 0 => saidYes') /\ saidYes' \in BOOLEAN
    BY <2>2, <2>6
  <2>9. AllocTypeOK'
    <3>1. working' \in BOOLEAN
      BY <2>3, Zenon
    <3>2. hour' \in Nat /\ updatedAt' \in 0 .. hour'
      BY <2>3 DEF AllocInv, AllocTypeOK
    <3> QED BY <2>5, <2>7, <2>8, <3>1, <3>2 DEF AllocTypeOK
  <2> QED BY <2>3, <2>5, <2>8, <2>9 DEF AllocInv, DecidesTogether
<1>5. ASSUME NEW e \in Mates, NEW yes \in BOOLEAN, HearBeat(e, yes)
      PROVE  AllocInv'
  <2>1. /\ group' = Added(group, e) /\ yesCount' = (IF yes THEN yesCount + 1 ELSE yesCount)
        /\ heardAt' = [heardAt EXCEPT ![e] = hour] /\ saidYes' = (saidYes \/ yes)
        /\ UNCHANGED <<hour, working, updatedAt, decided>>
    BY <1>5 DEF HearBeat
  <2>2. /\ group \in [GroupPlaces -> Members] /\ OnePlaceEach(group) /\ heardAt \in [Mates -> Nat \cup {-1}]
        /\ hour \in Nat /\ updatedAt \in Nat /\ updatedAt <= hour
    BY DEF AllocInv, AllocTypeOK
  <2>3. /\ group' \in [GroupPlaces -> Members] /\ OnePlaceEach(group')
        /\ \A i \in GroupPlaces : \/ group'[i] = [id |-> e, age |-> 0]
                                  \/ group'[i] = group[i] /\ group[i].id # e
    BY <2>1, <2>2, AddedGroup
  <2>4. HeardWhenAged(group', updatedAt, heardAt')
    <3> SUFFICES ASSUME NEW i \in GroupPlaces, group'[i].id \in Mates
                 PROVE  /\ heardAt'[group'[i].id] \in Nat
                        /\ updatedAt - heardAt'[group'[i].id] <= group'[i].age
      BY DEF HeardWhenAged
    <3>1. CASE group'[i] = [id |-> e, age |-> 0]
      BY <2>1, <2>2, <3>1
    <3>2. CASE group'[i] = group[i] /\ group[i].id # e
      BY <2>1, <2>2, <3>2 DEF AllocInv, HeardWhenAged
    <3> QED BY <2>3, <3>1, <3>2
  <2>5. yesCount' \in Nat /\ (yesCount' > 0 => saidYes') /\ saidYes' \in BOOLEAN
    BY <2>1 DEF AllocInv, AllocTypeOK
  <2>6. heardAt' \in [Mates -> Nat \cup {-1}]
    BY <2>1, <2>2
  <2> QED BY <2>1, <2>3, <2>4, <2>5, <2>6 DEF AllocInv, AllocTypeOK, DecidesTogether
<1>6. CASE HearGo
  BY <1>6 DEF HearGo, Collaborate, AllocInv, AllocTypeOK, OnePlaceEach, HeardWhenAged, DecidesTogether
<1>7. CASE UNCHANGED allocVars
  BY <1>7 DEF allocVars, AllocInv, AllocTypeOK, OnePlaceEach, HeardWhenAged, DecidesTogether
<1> QED BY <1>1, <1>2, <1>3, <1>4, <1>5, <1>6, <1>7 DEF AllocNext

\* A droplet that says GO has heard another one within the timeout, and a yes in
\* this waiting, for every size of the group, timeout and number of droplets.
THEOREM DropletsDecideTogether == AllocSpec => []DecidesTogether
<1>1. AllocInv => DecidesTogether
  BY DEF AllocInv
<1> QED BY <1>1, AllocInitially, AllocStep, PTL DEF AllocSpec

-----------------------------------------------------------------------------
(* Localisation: the messages that wait                                    *)

\* Every step keeps each node where it is or hands it on.
LEMMA NodesStep == NodesKept /\ [LocNext]_locVars => NodesKept'
<1> SUFFICES ASSUME NodesKept, [LocNext]_locVars PROVE NodesKept'
  OBVIOUS
<1> USE DEF NodesKept
<1>1. CASE handleBotMeasMsg
  BY <1>1 DEF handleBotMeasMsg
<1>2. CASE \E n \in Nodes : useRNBmeas(n)
  BY <1>2 DEF useRNBmeas, NoCall, Call
<1>3. CASE SendsAtOnce
  BY <1>3 DEF SendsAtOnce, NoCall
<1>4. CASE SendsLater
  BY <1>4 DEF SendsLater, Call
<1>5. CASE CountReads
  BY <1>5 DEF CountReads, Call
<1>6. CASE CountWrites
  BY <1>6 DEF CountWrites, NoCall
<1>7. CASE \E n \in Nodes : TaskSends(n)
  BY <1>7 DEF TaskSends
<1>8. ASSUME NEW n \in Nodes, TaskWaits(n) PROVE NodesKept'
  <2>1. CASE numTries[n] > GiveUp
    BY <1>8, <2>1 DEF TaskWaits
  <2>2. CASE ~(numTries[n] > GiveUp)
    BY <1>8, <2>2 DEF TaskWaits
  <2> QED BY <2>1, <2>2
<1>9. CASE UNCHANGED locVars
  BY <1>9 DEF locVars
<1> QED BY <1>1, <1>2, <1>3, <1>4, <1>5, <1>6, <1>7, <1>8, <1>9 DEF LocNext

\* With any number of messages, of tries and of measurements, and wherever a retry
\* runs, inside the call that scheduled it too, every node of localization.c is sent
\* or given up once: none is leaked and none freed twice.
THEOREM NodesAreKept == LocSpec => []NodesKept
<1>1. LocInit => NodesKept
  BY DEF LocInit, NodesKept, NoCall
<1> QED BY <1>1, NodesStep, PTL DEF LocSpec

-----------------------------------------------------------------------------
(* The shortest path                                                       *)

----------------------------------------------------------------------------
(* Trail: what pointers lead to.                                           *)

\* A droplet for each, or Nobody.
Pointers == [Walkers -> Walkers \cup {Nobody}]

\* What is in S points to nothing outside it.
Closed(next, S) == \A e \in S : next[e] # Nobody => next[e] \in S

\* One step further
Further(next, S) == S \cup ({next[e] : e \in S} \ {Nobody})

\* reach is the function that Trail ends.
Reaches(reach, next, d) ==
  /\ reach \in [0 .. Cardinality(Walkers) -> SUBSET Walkers]
  /\ reach[0] = {d}
  /\ \A n \in 1 .. Cardinality(Walkers) : reach[n] = Further(next, reach[n - 1])
  /\ Trail(next, d) = reach[Cardinality(Walkers)]

\* The droplets one step further are droplets.
LEMMA FurtherIs ==
  ASSUME NEW next \in Pointers, NEW S \in SUBSET Walkers
  PROVE  Further(next, S) \in SUBSET Walkers
BY DEF Further, Pointers

\* The recursion of Trail is defined.
LEMMA TrailReaches ==
  ASSUME NEW next \in Pointers, NEW d \in Walkers
  PROVE  \E reach : Reaches(reach, next, d)
<1>1. PICK N : N = Cardinality(Walkers) /\ N \in Nat
  BY PathAssumption, FS_CardinalityType DEF PathAssumption
<1>2. PICK g : g = [n \in 1 .. N |-> [S \in SUBSET Walkers |-> Further(next, S)]]
  OBVIOUS
<1>3. g \in StepsUpTo(N, SUBSET Walkers)
  BY <1>2, FurtherIs DEF StepsUpTo
<1>4. {d} \in SUBSET Walkers
  OBVIOUS
<1>5. PICK f : Follows(f, {d}, g, N, SUBSET Walkers)
  BY <1>1, <1>3, <1>4, RecursionUpTo
<1>6. f \in [0 .. N -> SUBSET Walkers] /\ f[0] = {d}
  BY <1>5 DEF Follows
<1>7. ASSUME NEW n \in 1 .. N
      PROVE  f[n] = Further(next, f[n - 1])
  <2>1. n - 1 \in 0 .. N
    BY <1>1
  <2>2. f[n - 1] \in SUBSET Walkers
    BY <1>6, <2>1
  <2>3. f[n] = g[n][f[n - 1]]
    BY <1>5 DEF Follows
  <2> QED BY <1>2, <2>2, <2>3
<1>8. f = [n \in 0 .. N |-> IF n = 0 THEN {d} ELSE f[n - 1] \cup ({next[e] : e \in f[n - 1]} \ {Nobody})]
  <2>1. f = [n \in 0 .. N |-> f[n]] /\ \A n \in 0 .. N : n # 0 => n \in 1 .. N
    BY <1>1, <1>6
  <2>2. \A n \in 1 .. N : f[n] = f[n - 1] \cup ({next[e] : e \in f[n - 1]} \ {Nobody})
    BY <1>7 DEF Further
  <2> QED BY <1>6, <2>1, <2>2
<1> DEFINE reach == CHOOSE h : h = [n \in 0 .. N |-> IF n = 0 THEN {d} ELSE h[n - 1] \cup ({next[e] : e \in h[n - 1]} \ {Nobody})]
<1>9. reach = [n \in 0 .. N |-> IF n = 0 THEN {d} ELSE reach[n - 1] \cup ({next[e] : e \in reach[n - 1]} \ {Nobody})]
  BY <1>8
<1>10. Trail(next, d) = reach[N]
  BY <1>1 DEF Trail
<1> HIDE DEF reach
<1>11. reach = f
  <2> DEFINE T == {n \in 0 .. N : reach[n] = f[n]}
  <2>1. 0 \in T
    BY <1>1, <1>6, <1>9
  <2>2. \A n \in 0 .. N - 1 : n \in T => n + 1 \in T
    <3> SUFFICES ASSUME NEW n \in 0 .. N - 1, n \in T PROVE n + 1 \in T
      OBVIOUS
    <3>1. n + 1 \in 0 .. N /\ n + 1 # 0 /\ (n + 1) - 1 = n
      BY <1>1
    <3>2. reach[n + 1] = reach[n] \cup ({next[e] : e \in reach[n]} \ {Nobody})
      BY <1>9, <3>1
    <3>3. f[n + 1] = f[n] \cup ({next[e] : e \in f[n]} \ {Nobody})
      BY <1>8, <3>1
    <3>4. reach[n] = f[n]
      OBVIOUS
    <3> QED BY <3>1, <3>2, <3>3, <3>4
  <2> HIDE DEF T
  <2>3. 0 .. N \subseteq T
    BY <1>1, <2>1, <2>2, InductionUpTo
  <2>4. \A n \in 0 .. N : reach[n] = f[n]
    BY <2>3 DEF T
  <2>5. reach = [n \in 0 .. N |-> reach[n]]
    BY <1>9
  <2> QED BY <1>6, <2>4, <2>5
<1>12. Reaches(f, next, d)
  BY <1>1, <1>6, <1>7, <1>10, <1>11 DEF Reaches
<1> QED BY <1>12

\* The trail from d is the least closed set that holds d.
LEMMA TrailIs ==
  ASSUME NEW next \in Pointers, NEW d \in Walkers
  PROVE  /\ d \in Trail(next, d) /\ Trail(next, d) \in SUBSET Walkers
         /\ Closed(next, Trail(next, d))
         /\ \A S : d \in S /\ Closed(next, S) => Trail(next, d) \subseteq S
<1>1. PICK N : N = Cardinality(Walkers) /\ N \in Nat /\ IsFiniteSet(Walkers)
  BY PathAssumption, FS_CardinalityType DEF PathAssumption
<1>2. PICK f : Reaches(f, next, d)
  BY TrailReaches
<1>3. /\ f \in [0 .. N -> SUBSET Walkers] /\ f[0] = {d} /\ Trail(next, d) = f[N]
      /\ \A n \in 1 .. N : f[n] = Further(next, f[n - 1])
  BY <1>1, <1>2 DEF Reaches
<1>4. \A n \in 0 .. N - 1 : n \in 0 .. N /\ n + 1 \in 0 .. N /\ f[n + 1] = Further(next, f[n]) /\ f[n] \in SUBSET Walkers
  <2> SUFFICES ASSUME NEW n \in 0 .. N - 1
               PROVE  n \in 0 .. N /\ n + 1 \in 0 .. N /\ f[n + 1] = Further(next, f[n]) /\ f[n] \in SUBSET Walkers
    OBVIOUS
  <2>1. n \in 0 .. N /\ n + 1 \in 0 .. N /\ n + 1 \in 1 .. N /\ (n + 1) - 1 = n
    BY <1>1
  <2>2. f[n + 1] = Further(next, f[(n + 1) - 1])
    BY <1>3, <2>1
  <2> QED BY <1>3, <2>1, <2>2
<1>5. d \in f[N]
  <2> DEFINE T == {n \in 0 .. N : d \in f[n]}
  <2>1. 0 \in T /\ \A n \in 0 .. N - 1 : n \in T => n + 1 \in T
    BY <1>1, <1>3, <1>4 DEF Further
  <2> HIDE DEF T
  <2>2. 0 .. N \subseteq T
    BY <1>1, <2>1, InductionUpTo
  <2> QED BY <1>1, <2>2 DEF T
<1>6. ASSUME NEW S, d \in S, Closed(next, S)
      PROVE  f[N] \subseteq S
  <2> DEFINE T == {n \in 0 .. N : f[n] \subseteq S}
  <2>1. 0 \in T /\ \A n \in 0 .. N - 1 : n \in T => n + 1 \in T
    BY <1>1, <1>3, <1>4, <1>6 DEF Further, Closed
  <2> HIDE DEF T
  <2>2. 0 .. N \subseteq T
    BY <1>1, <2>1, InductionUpTo
  <2> QED BY <1>1, <2>2 DEF T
<1>7. Closed(next, f[N])
  <2> DEFINE T == {n \in 0 .. N : Closed(next, f[n]) \/ Cardinality(f[n]) >= n + 1}
  <2>1. 0 \in T
    <3>1. Cardinality({d}) = 1
      BY FS_Singleton
    <3>2. Cardinality(f[0]) >= 0 + 1 /\ 0 \in 0 .. N
      BY <1>1, <1>3, <3>1
    <3> QED BY <3>2
  <2>2. ASSUME NEW n \in 0 .. N - 1, n \in T
        PROVE  n + 1 \in T
    <3>1. PICK A, B : A = f[n] /\ B = f[n + 1] /\ B = Further(next, A) /\ A \in SUBSET Walkers /\ B \in SUBSET Walkers
                      /\ n + 1 \in 0 .. N
      BY <1>3, <1>4
    <3>2. CASE Closed(next, A)
      <4>1. B = A
        BY <3>1, <3>2 DEF Further, Closed
      <4> QED BY <3>1, <3>2, <4>1
    <3>3. CASE ~Closed(next, A)
      <4>1. PICK x : x \in B /\ x \notin A /\ A \cup {x} \subseteq B
        BY <3>1, <3>3 DEF Further, Closed
      <4>2. IsFiniteSet(A) /\ IsFiniteSet(B)
        BY <1>1, <3>1, FS_Subset
      <4>3. IsFiniteSet(A \cup {x}) /\ Cardinality(A \cup {x}) = Cardinality(A) + 1
        BY <4>1, <4>2, FS_AddElement
      <4>4. Cardinality(A \cup {x}) <= Cardinality(B)
        BY <4>1, <4>2, FS_Subset
      <4>5. Cardinality(A) \in Nat /\ Cardinality(B) \in Nat /\ Cardinality(A) >= n + 1
        BY <2>2, <3>1, <3>3, <4>2, FS_CardinalityType
      <4>6. Cardinality(B) >= n + 1 + 1
        BY <1>1, <4>3, <4>4, <4>5
      <4> QED BY <1>1, <3>1, <4>6
    <3> QED BY <3>2, <3>3
  <2> HIDE DEF T
  <2>3. 0 .. N \subseteq T
    BY <1>1, <2>1, <2>2, InductionUpTo
  <2>4. CASE ~Closed(next, f[N])
    <3>1. Cardinality(f[N]) >= N + 1 /\ f[N] \subseteq Walkers
      BY <1>1, <1>3, <2>3, <2>4 DEF T
    <3>2. Cardinality(f[N]) <= N /\ Cardinality(f[N]) \in Nat
      BY <1>1, <3>1, FS_Subset, FS_CardinalityType
    <3> QED BY <1>1, <3>1, <3>2
  <2> QED BY <2>4
<1> QED BY <1>1, <1>3, <1>5, <1>6, <1>7

----------------------------------------------------------------------------
(* The invariant                                                           *)

\* The states, the messages, and the types of the variables.
PathStates   == {"idle", "frontier", "wait", "light_on", "final"}
PathMessages == [from : Walkers, what : {"F?", "ACK", "F!"}]

PathTypes ==
  /\ state \in [Walkers -> PathStates] /\ asker \in Pointers /\ answerer \in Pointers
  /\ acking \subseteq Walkers /\ pathInbox \in [Walkers -> SUBSET PathMessages]

\* Who says it may: it asks, or it has the answer.
Sound(m) == /\ m.what = "F?" => state[m.from] # "idle"
            /\ m.what = "F!" => Tells(m.from)

\* What d has heard came from one who has the answer.
Answered(d) == answerer[d] \in Walkers /\ Tells(answerer[d])

\* What the pointers of S lead to is in S.
Circuit(next, S) == S \in SUBSET Walkers /\ S # {} /\ \A e \in S : next[e] \in S

\* What every message and every acknowledgement says is still so; a lit droplet
\* has its answer; and no circle of answers is all lit, nor one of askers without
\* a goal.
PathInv ==
  /\ PathTypes
  /\ \A d \in Walkers : \A m \in pathInbox[d] : Sound(m)
  /\ \A d \in Walkers : asker[d] # Nobody => state[d] # "idle" /\ state[asker[d]] # "idle"
  /\ \A d \in acking : state[d] \in {"frontier", "wait"} /\ Answered(d)
  /\ \A d \in Walkers : state[d] = "light_on" => Answered(d)
  /\ \A S : Circuit(answerer, S) => \E e \in S : state[e] # "light_on"
  /\ \A S : Circuit(asker, S) => \E e \in S : state[e] = "final"

\* At first nobody has asked.
LEMMA PathBegins == PathInit => PathInv
<1> SUFFICES ASSUME PathInit PROVE PathInv
  OBVIOUS
<1>1. PathTypes
  BY DEF PathInit, PathTypes, Pointers, PathStates
<1>2. Nobody \notin Walkers
  BY PathAssumption DEF PathAssumption
<1>3. \A S : ~Circuit(asker, S) /\ ~Circuit(answerer, S)
  BY <1>2 DEF PathInit, Circuit
<1> QED BY <1>1, <1>3 DEF PathInit, PathInv

\* How the states go on: nobody becomes idle again, or forgets the answer.
GoesOn ==
  /\ state' \in [Walkers -> PathStates] /\ pathInbox' \in [Walkers -> SUBSET PathMessages]
  /\ \A d \in Walkers : /\ state[d] # "idle" => state'[d] # "idle"
                        /\ state[d] \in {"final", "light_on"} => state'[d] \in {"final", "light_on"}
                        /\ state[d] = "final" => state'[d] = "final"
  /\ \A d \in Walkers : \A m \in pathInbox'[d] : m \in pathInbox[d] \/ Sound(m)'

\* What a message said stays so while every droplet goes on.
LEMMA StaySound ==
  ASSUME PathInv, GoesOn
  PROVE  /\ (\A d \in Walkers : \A m \in pathInbox[d] : Sound(m))'
         /\ \A d \in Walkers : Tells(d) => Tells(d)'
<1>1. \A d \in Walkers : Tells(d) => Tells(d)'
  BY DEF GoesOn, Tells
<1>2. ASSUME NEW d \in Walkers, NEW m \in pathInbox[d]
      PROVE  Sound(m)'
  <2>1. m.from \in Walkers
    BY DEF PathInv, PathTypes, PathMessages
  <2>2. Sound(m)
    BY DEF PathInv
  <2> QED BY <1>1, <2>1, <2>2 DEF Sound, GoesOn
<1> QED BY <1>1, <1>2 DEF GoesOn

\* The steps after which everyone knows the same, and nobody lights up
LEMMA PathGoesOn ==
  ASSUME PathInv, GoesOn, UNCHANGED <<asker, answerer, acking>>,
         \A d \in Walkers : state'[d] = "light_on" => state[d] = "light_on",
         \A d \in acking : state'[d] = state[d] \/ state'[d] \in {"frontier", "wait"}
  PROVE  PathInv'
<1>1. PathTypes'
  BY DEF PathInv, PathTypes, GoesOn
<1>2. \A d \in Walkers : Answered(d) => Answered(d)'
  BY StaySound DEF Answered
<1>3. (\A d \in Walkers : asker[d] # Nobody => state[d] # "idle" /\ state[asker[d]] # "idle")'
  <2> SUFFICES ASSUME NEW d \in Walkers, asker[d] # Nobody
               PROVE  state'[d] # "idle" /\ state'[asker[d]] # "idle"
    OBVIOUS
  <2>1. asker[d] \in Walkers
    BY DEF PathInv, PathTypes, Pointers
  <2> QED BY <2>1 DEF PathInv, GoesOn
<1>4. (\A d \in acking : state[d] \in {"frontier", "wait"} /\ Answered(d))'
  BY <1>2 DEF PathInv, PathTypes
<1>5. (\A d \in Walkers : state[d] = "light_on" => Answered(d))'
  BY <1>2 DEF PathInv
<1>6. (\A S : Circuit(answerer, S) => \E e \in S : state[e] # "light_on")'
  BY DEF PathInv, Circuit
<1>7. (\A S : Circuit(asker, S) => \E e \in S : state[e] = "final")'
  BY DEF PathInv, Circuit, GoesOn
<1> QED BY <1>1, <1>3, <1>4, <1>5, <1>6, <1>7, StaySound DEF PathInv

\* Become, on the states
LEMMA TurnsTo ==
  ASSUME PathInv, NEW d \in Walkers, NEW s \in PathStates, Become(d, s)
  PROVE  /\ state' \in [Walkers -> PathStates] /\ state'[d] = s
         /\ \A e \in Walkers : e # d => state'[e] = state[e]
BY DEF PathInv, PathTypes, Become

\* What is in the inboxes after Say
LEMMA Says ==
  ASSUME PathInv, NEW d \in Walkers, NEW what \in {"F?", "ACK", "F!"}, NEW L, Say(d, what, L)
  PROVE  /\ pathInbox' \in [Walkers -> SUBSET PathMessages]
         /\ \A e \in Walkers : \A m \in pathInbox'[e] :
              m \in pathInbox[e] \/ (m.from = d /\ m.what = what)
<1>1. PICK n : n = [from |-> d, what |-> what]
  OBVIOUS
<1>2. n \in PathMessages /\ n.from = d /\ n.what = what
  BY <1>1 DEF PathMessages
<1>3. pathInbox' = [e \in Walkers |-> IF e \in L /\ {d, e} \in Adjacent THEN pathInbox[e] \cup {n} ELSE pathInbox[e]]
  BY <1>1 DEF Say
<1>4. \A e \in Walkers : pathInbox[e] \subseteq PathMessages
  BY DEF PathInv, PathTypes
<1>5. \A e \in Walkers : pathInbox'[e] \subseteq pathInbox[e] \cup {n}
  BY <1>3
<1>6. \A e \in Walkers : pathInbox'[e] \in SUBSET PathMessages
  BY <1>2, <1>4, <1>5
<1>7. pathInbox' \in [Walkers -> SUBSET PathMessages]
  BY <1>3, <1>6
<1> QED BY <1>2, <1>5, <1>7

\* What is heard leaves the inbox, or stays to be heard again.
LEMMA Hears ==
  ASSUME PathInv, NEW d \in Walkers, NEW m, Heard(d, m)
  PROVE  /\ pathInbox' \in [Walkers -> SUBSET PathMessages]
         /\ \A e \in Walkers : pathInbox'[e] \subseteq pathInbox[e]
BY DEF PathInv, PathTypes, Heard

\* A droplet that sees red or green keeps the invariant.
LEMMA LightsGoOn ==
  ASSUME PathInv, NEW d \in Walkers, SeeRed(d) \/ SeeGreen(d)
  PROVE  PathInv'
<1>1. PICK s \in {"final", "frontier"} : Become(d, s) /\ (s = "frontier" => state[d] = "idle") /\ (s = "final" => d \notin acking)
  BY DEF SeeRed, SeeGreen
<1>2. UNCHANGED <<asker, answerer, acking, pathInbox>>
  BY DEF SeeRed, SeeGreen
<1>3. /\ state' \in [Walkers -> PathStates] /\ state'[d] = s
      /\ \A e \in Walkers : e # d => state'[e] = state[e]
  BY <1>1, TurnsTo DEF PathStates
<1>4. GoesOn
  BY <1>1, <1>2, <1>3 DEF GoesOn, PathInv, PathTypes
<1>5. \A e \in acking : state'[e] = state[e] \/ state'[e] \in {"frontier", "wait"}
  BY <1>1, <1>3 DEF PathInv, PathTypes
<1>6. \A e \in Walkers : state'[e] = "light_on" => state[e] = "light_on"
  BY <1>1, <1>3
<1> QED BY <1>2, <1>4, <1>5, <1>6, PathGoesOn

\* A query keeps the invariant.
LEMMA QueryGoesOn ==
  ASSUME PathInv, NEW d \in Walkers, Query(d)
  PROVE  PathInv'
<1>1. UNCHANGED <<asker, answerer, acking>> /\ Say(d, "F?", Walkers) /\ state[d] = "frontier" /\ d \notin acking
  BY DEF Query
<1>2. /\ pathInbox' \in [Walkers -> SUBSET PathMessages]
      /\ \A e \in Walkers : \A m \in pathInbox'[e] : m \in pathInbox[e] \/ (m.from = d /\ m.what = "F?")
  BY <1>1, Says
<1>3. /\ state' \in [Walkers -> PathStates] /\ state'[d] \in {"frontier", "wait"}
      /\ \A e \in Walkers : e # d => state'[e] = state[e]
  <2>1. CASE numSent[d] = QueryLimit
    BY <2>1, TurnsTo DEF Query, PathStates
  <2>2. CASE numSent[d] # QueryLimit
    BY <1>1, <2>2 DEF Query, PathInv, PathTypes
  <2> QED BY <2>1, <2>2
<1>4. GoesOn
  <2>1. \A e \in Walkers : \A m \in pathInbox'[e] : m \in pathInbox[e] \/ Sound(m)'
    BY <1>2, <1>3 DEF Sound
  <2>2. \A e \in Walkers : /\ state[e] # "idle" => state'[e] # "idle"
                           /\ state[e] \in {"final", "light_on"} => state'[e] \in {"final", "light_on"}
                           /\ state[e] = "final" => state'[e] = "final"
    BY <1>1, <1>3
  <2> QED BY <1>2, <1>3, <2>1, <2>2 DEF GoesOn
<1>5. \A e \in Walkers : state'[e] = "light_on" => state[e] = "light_on"
  BY <1>3
<1>6. \A e \in acking : state'[e] = state[e] \/ state'[e] \in {"frontier", "wait"}
  BY <1>3 DEF PathInv, PathTypes
<1> QED BY <1>1, <1>4, <1>5, <1>6, PathGoesOn

\* The steps that leave the states as they are
LEMMA TalkGoesOn ==
  ASSUME PathInv, NEW d \in Walkers,
         Found(d) \/ \E m \in pathInbox[d] : HearAck(d, m) \/ Ignore(d, m) \/ Lose(d, m)
  PROVE  PathInv'
<1>1. UNCHANGED <<state, asker, answerer, acking>>
  BY DEF Found, HearAck, Ignore, Lose
<1>2. /\ pathInbox' \in [Walkers -> SUBSET PathMessages]
      /\ \A e \in Walkers : \A m \in pathInbox'[e] : m \in pathInbox[e] \/ (m.from = d /\ m.what = "F!" /\ Tells(d))
  <2>1. CASE Found(d)
    <3>1. Say(d, "F!", {asker[d]}) /\ Tells(d)
      BY <2>1 DEF Found
    <3> QED BY <3>1, Says
  <2>2. ASSUME NEW m, Heard(d, m)
        PROVE  pathInbox' \in [Walkers -> SUBSET PathMessages] /\ \A e \in Walkers : pathInbox'[e] \subseteq pathInbox[e]
    BY <2>2, Hears
  <2>3. CASE ~Found(d)
    <3>1. PICK m : Heard(d, m)
      BY <2>3 DEF HearAck, Ignore, Lose
    <3> QED BY <2>2, <3>1
  <2> QED BY <2>1, <2>3
<1>3. GoesOn
  BY <1>1, <1>2 DEF GoesOn, PathInv, PathTypes, Sound, Tells
<1> QED BY <1>1, <1>3, PathGoesOn

\* A query that is heard makes the sender the asker of an idle droplet only.
LEMMA HearQueryGoesOn ==
  ASSUME PathInv, NEW d \in Walkers, NEW m \in pathInbox[d], HearQuery(d, m)
  PROVE  PathInv'
<1>1. /\ d \notin acking /\ m.what = "F?" /\ state[d] \in {"idle", "final"} /\ Heard(d, m)
      /\ asker' = [asker EXCEPT ![d] = m.from] /\ UNCHANGED <<answerer, acking>>
  BY DEF HearQuery, Asked
<1>2. m.from \in Walkers /\ state[m.from] # "idle"
  BY <1>1 DEF PathInv, PathTypes, PathMessages, Sound
<1>3. /\ state' \in [Walkers -> PathStates]
      /\ (state[d] = "idle" /\ state'[d] = "frontier") \/ (state[d] = "final" /\ state'[d] = "final")
      /\ \A e \in Walkers : e # d => state'[e] = state[e]
  <2>1. CASE state[d] = "idle"
    <3>1. Become(d, "frontier") /\ "frontier" \in PathStates
      BY <2>1 DEF HearQuery, PathStates
    <3> QED BY <2>1, <3>1, TurnsTo
  <2>2. CASE state[d] # "idle"
    BY <1>1, <2>2 DEF HearQuery, PathInv, PathTypes
  <2> QED BY <2>1, <2>2
<1>4. GoesOn
  BY <1>1, <1>3, Hears DEF GoesOn
<1>5. asker' \in Pointers /\ asker'[d] = m.from /\ \A e \in Walkers : e # d => asker'[e] = asker[e]
  BY <1>1, <1>2 DEF PathInv, PathTypes, Pointers
<1>6. PathTypes'
  BY <1>1, <1>4, <1>5 DEF PathInv, PathTypes, GoesOn
<1>7. \A e \in Walkers : Answered(e) => Answered(e)'
  BY <1>1, <1>4, StaySound DEF Answered
<1>8. (\A e \in Walkers : asker[e] # Nobody => state[e] # "idle" /\ state[asker[e]] # "idle")'
  <2> SUFFICES ASSUME NEW e \in Walkers, asker'[e] # Nobody
               PROVE  state'[e] # "idle" /\ state'[asker'[e]] # "idle"
    OBVIOUS
  <2>1. CASE e = d
    BY <1>2, <1>3, <1>4, <1>5, <2>1 DEF GoesOn
  <2>2. CASE e # d
    <3>1. asker'[e] = asker[e] /\ asker[e] \in Walkers /\ state[e] # "idle" /\ state[asker[e]] # "idle"
      BY <1>5, <2>2 DEF PathInv, PathTypes, Pointers
    <3> QED BY <1>4, <3>1 DEF GoesOn
  <2> QED BY <2>1, <2>2
<1>9. (\A e \in acking : state[e] \in {"frontier", "wait"} /\ Answered(e))'
  BY <1>1, <1>3, <1>7 DEF PathInv, PathTypes
<1>10. (\A e \in Walkers : state[e] = "light_on" => Answered(e))'
  BY <1>3, <1>7 DEF PathInv
<1>11. (\A S : Circuit(answerer, S) => \E e \in S : state[e] # "light_on")'
  BY <1>1, <1>3 DEF PathInv, Circuit
<1>12. (\A S : Circuit(asker, S) => \E e \in S : state[e] = "final")'
  <2> SUFFICES ASSUME NEW S, Circuit(asker', S), \A e \in S : state'[e] # "final"
               PROVE  FALSE
    BY DEF Circuit
  <2>1. \A e \in S : e \in Walkers /\ asker'[e] \in S /\ state[e] # "final"
    BY <1>3 DEF Circuit
  <2>2. PICK R : R = S \ {d}
    OBVIOUS
  <2>3. \A e \in R : asker[e] \in R
    <3> SUFFICES ASSUME NEW e \in R PROVE asker[e] \in R
      OBVIOUS
    <3>1. e \in Walkers /\ asker[e] \in S /\ asker[e] # Nobody
      BY <1>5, <2>1, <2>2, PathAssumption DEF PathAssumption, Circuit
    <3>2. CASE d \in S
      <4>1. state[d] = "idle" /\ state[asker[e]] # "idle"
        BY <1>3, <2>1, <3>1, <3>2 DEF PathInv
      <4> QED BY <2>2, <3>1, <4>1
    <3>3. CASE d \notin S
      BY <2>2, <3>1, <3>3
    <3> QED BY <3>2, <3>3
  <2>4. R # {}
    <3>1. CASE d \in S
      <4>1. m.from \in S /\ m.from # d
        BY <1>2, <1>3, <1>5, <2>1, <3>1
      <4> QED BY <2>2, <4>1
    <3>2. CASE d \notin S
      BY <2>2, <3>2 DEF Circuit
    <3> QED BY <3>1, <3>2
  <2>5. Circuit(asker, R)
    BY <2>1, <2>2, <2>3, <2>4 DEF Circuit
  <2> QED BY <2>1, <2>2, <2>5 DEF PathInv
<1> QED BY <1>4, <1>6, <1>8, <1>9, <1>10, <1>11, <1>12, StaySound DEF PathInv

\* An answer that is heard is from a droplet that has lit up, or saw red.
LEMMA HearFoundGoesOn ==
  ASSUME PathInv, NEW d \in Walkers, NEW m \in pathInbox[d], HearFound(d, m)
  PROVE  PathInv'
<1>1. /\ d \notin acking /\ m.what = "F!" /\ state[d] \in {"frontier", "wait"}
      /\ answerer' = [answerer EXCEPT ![d] = m.from] /\ acking' = acking \cup {d}
      /\ UNCHANGED <<state, asker>>
  BY DEF HearFound, Expecting
<1>2. m.from \in Walkers /\ Tells(m.from)
  BY <1>1 DEF PathInv, PathTypes, PathMessages, Sound
<1>3. GoesOn
  <2>1. PICK a : a = [from |-> d, what |-> "ACK"]
    OBVIOUS
  <2>2. a \in PathMessages /\ a.what = "ACK"
    BY <2>1 DEF PathMessages
  <2>3. pathInbox' = [pathInbox EXCEPT ![d] = @ \ {m}, ![m.from] = @ \cup {a}]
    BY <2>1 DEF HearFound, AckTo
  <2>4. /\ pathInbox' \in [Walkers -> SUBSET PathMessages]
        /\ \A e \in Walkers : \A n \in pathInbox'[e] : n \in pathInbox[e] \/ n = a
    BY <1>2, <2>2, <2>3 DEF PathInv, PathTypes
  <2>5. Sound(a)'
    BY <2>2 DEF Sound
  <2> QED BY <1>1, <2>4, <2>5 DEF GoesOn, PathInv, PathTypes
<1>4. answerer' \in Pointers /\ answerer'[d] = m.from /\ \A e \in Walkers : e # d => answerer'[e] = answerer[e]
  BY <1>1, <1>2 DEF PathInv, PathTypes, Pointers
<1>5. PathTypes'
  BY <1>1, <1>3, <1>4 DEF PathInv, PathTypes, GoesOn
<1>6. \A e \in Walkers : Answered(e) \/ e = d => Answered(e)'
  BY <1>2, <1>3, <1>4, StaySound DEF Answered
<1>7. (\A e \in acking : state[e] \in {"frontier", "wait"} /\ Answered(e))'
  BY <1>1, <1>6 DEF PathInv, PathTypes
<1>8. (\A e \in Walkers : state[e] = "light_on" => Answered(e))'
  BY <1>1, <1>6 DEF PathInv
<1>9. (\A S : Circuit(answerer, S) => \E e \in S : state[e] # "light_on")'
  <2> SUFFICES ASSUME NEW S, Circuit(answerer', S), \A e \in S : state'[e] = "light_on"
               PROVE  FALSE
    BY DEF Circuit
  <2>1. d \notin S
    BY <1>1
  <2>2. Circuit(answerer, S)
    BY <1>4, <2>1 DEF Circuit
  <2> QED BY <1>1, <2>2 DEF PathInv
<1>10. (\A e \in Walkers : asker[e] # Nobody => state[e] # "idle" /\ state[asker[e]] # "idle")'
  BY <1>1 DEF PathInv
<1>11. (\A S : Circuit(asker, S) => \E e \in S : state[e] = "final")'
  BY <1>1 DEF PathInv, Circuit
<1> QED BY <1>3, <1>5, <1>7, <1>8, <1>9, <1>10, <1>11, StaySound DEF PathInv

\* A droplet lights up behind one that has lit up before: no circle is closed.
LEMMA LightUpGoesOn ==
  ASSUME PathInv, NEW d \in Walkers, LightUp(d)
  PROVE  PathInv'
<1>1. d \in acking /\ acking' = acking \ {d} /\ UNCHANGED <<asker, answerer, pathInbox>>
  BY DEF LightUp
<1>2. state[d] \in {"frontier", "wait"} /\ Answered(d)
  BY <1>1 DEF PathInv
<1>3. /\ state' \in [Walkers -> PathStates] /\ state'[d] = "light_on"
      /\ \A e \in Walkers : e # d => state'[e] = state[e]
  BY TurnsTo DEF LightUp, PathStates
<1>4. GoesOn
  BY <1>1, <1>2, <1>3 DEF GoesOn, PathInv, PathTypes
<1>5. PathTypes'
  BY <1>1, <1>4 DEF PathInv, PathTypes, GoesOn
<1>6. \A e \in Walkers : Answered(e) => Answered(e)'
  BY <1>1, <1>4, StaySound DEF Answered
<1>7. (\A e \in Walkers : asker[e] # Nobody => state[e] # "idle" /\ state[asker[e]] # "idle")'
  <2> SUFFICES ASSUME NEW e \in Walkers, asker[e] # Nobody
               PROVE  state'[e] # "idle" /\ state'[asker[e]] # "idle"
    BY <1>1
  <2>1. asker[e] \in Walkers
    BY DEF PathInv, PathTypes, Pointers
  <2> QED BY <1>4, <2>1 DEF PathInv, GoesOn
<1>8. (\A e \in acking : state[e] \in {"frontier", "wait"} /\ Answered(e))'
  BY <1>1, <1>3, <1>6 DEF PathInv, PathTypes
<1>9. (\A e \in Walkers : state[e] = "light_on" => Answered(e))'
  BY <1>2, <1>3, <1>6 DEF PathInv
<1>10. (\A S : Circuit(answerer, S) => \E e \in S : state[e] # "light_on")'
  <2> SUFFICES ASSUME NEW S, Circuit(answerer, S), \A e \in S : state'[e] = "light_on"
               PROVE  FALSE
    BY <1>1 DEF Circuit
  <2>1. PICK R : R = S \ {d}
    OBVIOUS
  <2>2. \A e \in R : e \in Walkers /\ answerer[e] \in S /\ state[e] = "light_on"
    BY <1>3, <2>1 DEF Circuit
  <2>3. \A e \in R : answerer[e] # d
    BY <1>2, <2>2 DEF PathInv, Answered, Tells
  <2>4. R # {}
    BY <1>2, <2>1 DEF Circuit, Answered, Tells
  <2>5. Circuit(answerer, R)
    BY <2>1, <2>2, <2>3, <2>4 DEF Circuit
  <2> QED BY <2>2, <2>5 DEF PathInv
<1>11. (\A S : Circuit(asker, S) => \E e \in S : state[e] = "final")'
  BY <1>1, <1>4 DEF PathInv, Circuit, GoesOn
<1> QED BY <1>4, <1>5, <1>7, <1>8, <1>9, <1>10, <1>11, StaySound DEF PathInv

\* Every step keeps the invariant.
LEMMA PathStep ==
  ASSUME PathInv, [PathNext]_pathVars
  PROVE  PathInv'
<1>1. CASE UNCHANGED pathVars
  BY <1>1 DEF pathVars, PathInv, PathTypes, Sound, Tells, Answered, Circuit
<1> QED BY <1>1, LightsGoOn, QueryGoesOn, TalkGoesOn, HearQueryGoesOn, HearFoundGoesOn, LightUpGoesOn
        DEF PathNext

\* A trail without a goal has a droplet on it that is not lit.
LEMMA LitLead == PathInv => LitLeadsToGoal
<1> SUFFICES ASSUME PathInv, NEW d \in Walkers, state[d] = "light_on",
                    \A e \in Trail(answerer, d) : state[e] # "final"
             PROVE  FALSE
  BY DEF LitLeadsToGoal
<1>1. PICK T, p : T = Trail(answerer, d) /\ p = answerer /\ p \in Pointers
  BY DEF PathInv, PathTypes
<1>2. d \in T /\ T \in SUBSET Walkers /\ Closed(p, T)
  BY <1>1, TrailIs
<1>3. PICK S : S = {e \in T : state[e] = "light_on"}
  OBVIOUS
<1>4. \A e \in S : p[e] \in S
  <2> SUFFICES ASSUME NEW e \in S PROVE p[e] \in S
    OBVIOUS
  <2>1. Answered(e) /\ e \in T
    BY <1>2, <1>3 DEF PathInv
  <2>2. p[e] \in Walkers /\ state[p[e]] \in {"final", "light_on"} /\ p[e] # Nobody
    BY <1>1, <2>1, PathAssumption DEF Answered, Tells, PathAssumption
  <2>3. p[e] \in T
    BY <1>2, <2>1, <2>2 DEF Closed
  <2> QED BY <1>1, <1>3, <2>2, <2>3
<1>5. Circuit(answerer, S)
  BY <1>1, <1>2, <1>3, <1>4 DEF Circuit
<1> QED BY <1>3, <1>5 DEF PathInv

\* Askers that lead back to a droplet make a loop.
LEMMA AskersLead == PathInv => AskersLeadBack
<1> SUFFICES ASSUME PathInv, NEW d \in Walkers, asker[d] # Nobody, d \in Trail(asker, asker[d]),
                    \A e \in Trail(asker, d) : state[e] # "final"
             PROVE  FALSE
  BY DEF AskersLeadBack
<1>1. PICK p, a : p = asker /\ a = asker[d] /\ p \in Pointers /\ a \in Walkers
  BY DEF PathInv, PathTypes, Pointers
<1>2. PICK U : U = Trail(p, a)
  OBVIOUS
<1>3. a \in U /\ U \in SUBSET Walkers /\ Closed(p, U) /\ \A S : a \in S /\ Closed(p, S) => U \subseteq S
  BY <1>1, <1>2, TrailIs
<1>4. PICK W : W = {e \in Walkers : d \in Trail(p, e)}
  OBVIOUS
<1>5. Closed(p, W)
  <2> SUFFICES ASSUME NEW e \in W, p[e] # Nobody PROVE p[e] \in W
    BY DEF Closed
  <2>1. e \in Walkers /\ p[e] \in Walkers /\ d \in Trail(p, e)
    BY <1>1, <1>4 DEF Pointers
  <2>2. CASE e = d
    BY <1>1, <1>4, <2>1, <2>2
  <2>3. CASE e # d
    <3>1. PICK V : V = Trail(p, p[e]) /\ p[e] \in V /\ V \in SUBSET Walkers /\ Closed(p, V)
      BY <1>1, <2>1, TrailIs
    <3>2. Closed(p, V \cup {e}) /\ e \in V \cup {e}
      BY <3>1 DEF Closed
    <3>3. Trail(p, e) \subseteq V \cup {e}
      BY <1>1, <2>1, <3>2, TrailIs
    <3> QED BY <1>4, <2>1, <2>3, <3>1, <3>3
  <2> QED BY <2>2, <2>3
<1>6. U \subseteq W
  BY <1>1, <1>3, <1>4, <1>5
<1>7. \A e \in U : p[e] # Nobody
  <2> SUFFICES ASSUME NEW e \in U, p[e] = Nobody PROVE FALSE
    OBVIOUS
  <2>1. e \in Walkers /\ d \in Trail(p, e)
    BY <1>4, <1>6
  <2>2. Closed(p, {e})
    BY DEF Closed
  <2>3. Trail(p, e) \subseteq {e}
    BY <1>1, <2>1, <2>2, TrailIs
  <2>4. e = d
    BY <2>1, <2>3
  <2> QED BY <1>1, <2>4
<1>8. Circuit(asker, U)
  BY <1>1, <1>3, <1>7 DEF Circuit, Closed
<1>9. U \subseteq Trail(p, d)
  <2>1. d \in Trail(p, d) /\ Closed(p, Trail(p, d))
    BY <1>1, TrailIs
  <2>2. a \in Trail(p, d)
    BY <1>1, <2>1 DEF Closed
  <2> QED BY <1>3, <2>1, <2>2
<1> QED BY <1>1, <1>8, <1>9 DEF PathInv

\* handle_msg and loop of short_path.c, with any number of droplets and whatever
\* is lost, late or repeated: the answers of a lit droplet lead to a goal.
THEOREM LitLeadToGoal == PathSpec => []LitLeadsToGoal
<1>1. PathInv /\ [PathNext]_pathVars => PathInv'
  BY PathStep
<1> QED BY <1>1, PathBegins, LitLead, PTL DEF PathSpec

\* And the askers lead back to where a search began: they make no circle but by
\* way of a goal, which takes a new asker with every query.
THEOREM AskersDoLeadBack == PathSpec => []AskersLeadBack
<1>1. PathInv /\ [PathNext]_pathVars => PathInv'
  BY PathStep
<1> QED BY <1>1, PathBegins, AskersLead, PTL DEF PathSpec

-----------------------------------------------------------------------------
(* Chemistry                                                               *)

----------------------------------------------------------------------------
(* Counting orbitals                                                       *)

\* Counting the four orbitals one by one.
Has(X, i) == IF i \in X THEN 1 ELSE 0
Ones(X)   == Has(X, 0) + Has(X, 1) + Has(X, 2) + Has(X, 3)

\* One element more counts one more.
LEMMA CountOneMore ==
  ASSUME NEW X, NEW k, NEW A, NEW B, IsFiniteSet(A), A = X \cap B, k \notin B
  PROVE  /\ IsFiniteSet(X \cap (B \cup {k}))
         /\ Cardinality(X \cap (B \cup {k})) = Cardinality(A) + Has(X, k)
<1>1. Cardinality(A) \in Nat
  BY FS_CardinalityType
<1>2. CASE k \in X
  <2>1. X \cap (B \cup {k}) = A \cup {k} /\ k \notin A
    BY <1>2
  <2>2. PICK Y : Y = A \cup {k} /\ IsFiniteSet(Y) /\ Cardinality(Y) = Cardinality(A) + 1
    BY <2>1, FS_AddElement
  <2>3. Has(X, k) = 1
    BY <1>2 DEF Has
  <2>4. IsFiniteSet(X \cap (B \cup {k})) /\ Cardinality(X \cap (B \cup {k})) = Cardinality(A) + 1
    BY <2>1, <2>2, Zenon
  <2> QED BY <2>3, <2>4, Zenon
<1>3. CASE k \notin X
  <2>1. X \cap (B \cup {k}) = A
    BY <1>3
  <2>2. Has(X, k) = 0 /\ Cardinality(A) + 0 = Cardinality(A)
    BY <1>1, <1>3 DEF Has
  <2> QED BY <2>1, <2>2, Zenon
<1> QED BY <1>2, <1>3

\* The number of the orbitals that are in X.
LEMMA OrbitalCount ==
  ASSUME NEW X \in SUBSET Orbitals
  PROVE  Cardinality(X) = Ones(X) /\ Ones(X) \in Nat /\ IsFiniteSet(X)
<1>1. PICK A : A = X \cap {}
  OBVIOUS
<1>2. IsFiniteSet(A) /\ Cardinality(A) = 0
  BY <1>1, FS_EmptySet
<1>3. PICK B : B = X \cap ({} \cup {0})
  OBVIOUS
<1>4. IsFiniteSet(B) /\ Cardinality(B) = 0 + Has(X, 0)
  BY <1>1, <1>2, <1>3, CountOneMore
<1>5. PICK C : C = X \cap ({0} \cup {1})
  OBVIOUS
<1>6. IsFiniteSet(C) /\ Cardinality(C) = Cardinality(B) + Has(X, 1)
  <2>1. B = X \cap {0} /\ 1 \notin {0}
    BY <1>3
  <2> QED BY <1>4, <1>5, <2>1, CountOneMore
<1>7. PICK D : D = X \cap ({0, 1} \cup {2})
  OBVIOUS
<1>8. IsFiniteSet(D) /\ Cardinality(D) = Cardinality(C) + Has(X, 2)
  <2>1. C = X \cap {0, 1} /\ 2 \notin {0, 1}
    BY <1>5
  <2> QED BY <1>6, <1>7, <2>1, CountOneMore
<1>9. PICK E : E = X \cap ({0, 1, 2} \cup {3})
  OBVIOUS
<1>10. IsFiniteSet(E) /\ Cardinality(E) = Cardinality(D) + Has(X, 3)
  <2>1. D = X \cap {0, 1, 2} /\ 3 \notin {0, 1, 2}
    BY <1>7
  <2> QED BY <1>8, <1>9, <2>1, CountOneMore
<1>11. X = E
  <2>1. Orbitals = {0, 1, 2} \cup {3}
    BY DEF Orbitals
  <2> QED BY <1>9, <2>1
<1>12. Has(X, 0) \in {0, 1} /\ Has(X, 1) \in {0, 1} /\ Has(X, 2) \in {0, 1} /\ Has(X, 3) \in {0, 1}
  BY DEF Has
<1>13. PICK a, b, c, d : a = Has(X, 0) /\ b = Has(X, 1) /\ c = Has(X, 2) /\ d = Has(X, 3)
  OBVIOUS
<1>15. a \in {0, 1} /\ b \in {0, 1} /\ c \in {0, 1} /\ d \in {0, 1}
  BY <1>12, <1>13
<1>16. Ones(X) = a + b + c + d /\ Ones(X) \in Nat
  BY <1>13, <1>15 DEF Ones
<1>14. Cardinality(E) = a + b + c + d /\ Ones(X) = a + b + c + d /\ Ones(X) \in Nat
  <2>1. PICK p, q, r, s : p = Cardinality(B) /\ q = Cardinality(C) /\ r = Cardinality(D) /\ s = Cardinality(E)
    OBVIOUS
  <2>2. p = 0 + a /\ q = p + b /\ r = q + c /\ s = r + d
    BY <1>4, <1>6, <1>8, <1>10, <1>13, <2>1, Zenon
  <2>3. s = a + b + c + d
    BY <1>15, <2>2
  <2> QED BY <1>16, <2>1, <2>3
<1> QED BY <1>10, <1>11, <1>14

\* The first n of a set of orbitals
FirstOrbitals(F, n) == {i \in F : Cardinality({j \in F : j < i}) < n}

\* The first n of at least n free orbitals are n.
LEMMA FirstAreCounted ==
  ASSUME NEW F \in SUBSET Orbitals, NEW n \in Nat, n <= Cardinality(F)
  PROVE  FirstOrbitals(F, n) \in SUBSET F /\ Cardinality(FirstOrbitals(F, n)) = n
<1>1. PICK G : G = FirstOrbitals(F, n)
  OBVIOUS
<1>2. G \in SUBSET F /\ G \in SUBSET Orbitals
  BY <1>1 DEF FirstOrbitals
<1>3. ASSUME NEW i \in Orbitals
      PROVE  Cardinality({j \in F : j < i}) = Ones({j \in F : j < i})
  BY OrbitalCount
<1>4. \A i \in F : i \in G <=> Ones({j \in F : j < i}) < n
  BY <1>1, <1>3 DEF FirstOrbitals
<1>5. PICK a, b, c, d : a = Has(F, 0) /\ b = Has(F, 1) /\ c = Has(F, 2) /\ d = Has(F, 3)
  OBVIOUS
<1>6. a \in {0, 1} /\ b \in {0, 1} /\ c \in {0, 1} /\ d \in {0, 1}
  BY <1>5 DEF Has
<1>7. /\ Ones({j \in F : j < 0}) = 0 /\ Ones({j \in F : j < 1}) = a
      /\ Ones({j \in F : j < 2}) = a + b /\ Ones({j \in F : j < 3}) = a + b + c
  <2>1. /\ Has({j \in F : j < 0}, 0) = 0 /\ Has({j \in F : j < 0}, 1) = 0
        /\ Has({j \in F : j < 0}, 2) = 0 /\ Has({j \in F : j < 0}, 3) = 0
    BY DEF Has
  <2>2. /\ Has({j \in F : j < 1}, 0) = a /\ Has({j \in F : j < 1}, 1) = 0
        /\ Has({j \in F : j < 1}, 2) = 0 /\ Has({j \in F : j < 1}, 3) = 0
    BY <1>5 DEF Has
  <2>3. /\ Has({j \in F : j < 2}, 0) = a /\ Has({j \in F : j < 2}, 1) = b
        /\ Has({j \in F : j < 2}, 2) = 0 /\ Has({j \in F : j < 2}, 3) = 0
    BY <1>5 DEF Has
  <2>4. /\ Has({j \in F : j < 3}, 0) = a /\ Has({j \in F : j < 3}, 1) = b
        /\ Has({j \in F : j < 3}, 2) = c /\ Has({j \in F : j < 3}, 3) = 0
    BY <1>5 DEF Has
  <2> QED BY <1>6, <2>1, <2>2, <2>3, <2>4 DEF Ones
<1>8. /\ Has(G, 0) = IF a = 1 /\ 0 < n THEN 1 ELSE 0
      /\ Has(G, 1) = IF b = 1 /\ a < n THEN 1 ELSE 0
      /\ Has(G, 2) = IF c = 1 /\ a + b < n THEN 1 ELSE 0
      /\ Has(G, 3) = IF d = 1 /\ a + b + c < n THEN 1 ELSE 0
  <2>1. Has(G, 0) = IF a = 1 /\ 0 < n THEN 1 ELSE 0
    BY <1>2, <1>4, <1>5, <1>7 DEF Has
  <2>2. Has(G, 1) = IF b = 1 /\ a < n THEN 1 ELSE 0
    BY <1>2, <1>4, <1>5, <1>7 DEF Has
  <2>3. Has(G, 2) = IF c = 1 /\ a + b < n THEN 1 ELSE 0
    BY <1>2, <1>4, <1>5, <1>7 DEF Has
  <2>4. Has(G, 3) = IF d = 1 /\ a + b + c < n THEN 1 ELSE 0
    BY <1>2, <1>4, <1>5, <1>7 DEF Has
  <2> QED BY <2>1, <2>2, <2>3, <2>4
<1>9. n <= a + b + c + d
  BY <1>5, OrbitalCount DEF Ones
<1>10. Ones(G) = n
  BY <1>6, <1>8, <1>9 DEF Ones
<1> QED BY <1>1, <1>2, <1>10, OrbitalCount

----------------------------------------------------------------------------
(* Atoms                                                                   *)

\* What an orbital is bonded to.
Ends == Droplets \cup {NoBond, NoPlace}

\* The places that a bond takes
Same(b, i) == {j \in Orbitals : b[j] = b[i]}

TellsBond(o, b, i) ==
  /\ b[i] = NoBond => o[i] = Free
  /\ b[i] = NoPlace => o[i] = Absent
  /\ b[i] \in Droplets => Cardinality(Same(b, i)) <= 3 /\ o[i] = Cardinality(Same(b, i)) + 1

\* An atom that droplet d may play
Sane(d, a) ==
  /\ a.b \in [Orbitals -> Ends] /\ a.o \in [Orbitals -> Int]
  /\ \A i \in Orbitals : TellsBond(a.o, a.b, i)
  /\ d \in a.m /\ (Partners(a.b) = {} => a.m = {d})

\* Its molecule holds what it is bonded to.
Holds(a) == Partners(a.b) \subseteq a.m

\* A droplet is told from NoBond and NoPlace.
LEMMA EndsAre ==
  /\ NoBond \notin Droplets /\ NoPlace \notin Droplets /\ NoBond # NoPlace
  /\ \A x \in Ends : x \in Droplets \/ x = NoBond \/ x = NoPlace
BY ChemAssumption DEF ChemAssumption, Ends

\* A free orbital has no bond.
LEMMA FreeAreUnbound ==
  ASSUME NEW d, NEW a, Sane(d, a), NEW i \in Orbitals, a.o[i] = Free
  PROVE  a.b[i] = NoBond
<1>1. a.b[i] \in Ends
  BY DEF Sane
<1>2. CASE a.b[i] \in Droplets
  <2>1. Same(a.b, i) \in SUBSET Orbitals /\ i \in Same(a.b, i)
    BY DEF Same
  <2>2. Cardinality(Same(a.b, i)) = Ones(Same(a.b, i)) /\ Ones(Same(a.b, i)) \in Nat
    BY <2>1, OrbitalCount
  <2>3. Cardinality(Same(a.b, i)) # 0
    BY <2>1, OrbitalCount, FS_EmptySet
  <2>4. a.o[i] = Cardinality(Same(a.b, i)) + 1
    BY <1>2 DEF Sane, TellsBond
  <2> QED BY <2>2, <2>3, <2>4 DEF Free
<1>3. CASE a.b[i] = NoPlace
  BY <1>3 DEF Sane, TellsBond, Free, Absent
<1> QED BY <1>1, <1>2, <1>3, EndsAre

\* breakBond takes all orbitals of one bond, so that the other bonds stay told.
LEMMA BreakIsSane ==
  ASSUME NEW d \in Droplets, NEW a, Sane(d, a), NEW e \in Droplets, e # d
  PROVE  Sane(d, breakBond(d, a, e)) /\ (Holds(a) => Holds(breakBond(d, a, e)))
<1>1. PICK hit, b, o, m :
        /\ hit = {i \in Orbitals : a.b[i] = e}
        /\ b = [i \in Orbitals |-> IF i \in hit THEN NoBond ELSE a.b[i]]
        /\ o = [i \in Orbitals |-> IF i \in hit THEN Free ELSE a.o[i]]
        /\ m = IF Partners(b) = {} THEN {d} ELSE a.m \ {e}
  OBVIOUS
<1>2. breakBond(d, a, e) = [o |-> o, b |-> b, m |-> m]
  BY <1>1 DEF breakBond, removeFromMolecule
<1>3. b \in [Orbitals -> Ends] /\ o \in [Orbitals -> Int]
  BY <1>1 DEF Sane, Ends, Free
<1>4. Partners(b) = Partners(a.b) \ {e}
  BY <1>1, EndsAre DEF Partners
<1>5. ASSUME NEW i \in Orbitals
      PROVE  TellsBond(o, b, i)
  <2>1. CASE i \in hit
    BY <1>1, <2>1, EndsAre DEF TellsBond
  <2>2. CASE i \notin hit
    <3>1. b[i] = a.b[i] /\ o[i] = a.o[i] /\ TellsBond(a.o, a.b, i)
      BY <1>1, <2>2 DEF Sane
    <3>2. b[i] \in Droplets => Same(b, i) = Same(a.b, i)
      BY <1>1, <2>2, EndsAre DEF Same
    <3> QED BY <3>1, <3>2 DEF TellsBond
  <2> QED BY <2>1, <2>2
<1>6. d \in m /\ (Partners(b) = {} => m = {d}) /\ (Holds(a) => Partners(b) \subseteq m)
  BY <1>1, <1>4 DEF Sane, Holds
<1> QED BY <1>2, <1>3, <1>5, <1>6 DEF Sane, Holds

\* A droplet that left its molecule is alone.
LEMMA AloneIsSane ==
  ASSUME NEW d \in Droplets, NEW a, Sane(d, a)
  PROVE  Sane(d, Alone(d, a)) /\ Partners(Alone(d, a).b) = {}
<1>1. CASE Partners(a.b) = {}
  BY <1>1 DEF Alone
<1>2. CASE Partners(a.b) # {}
  <2>1. PICK b, o :
          /\ o = [i \in Orbitals |-> IF a.b[i] \in {NoBond, NoPlace} THEN a.o[i] ELSE Free]
          /\ b = [i \in Orbitals |-> IF a.b[i] = NoPlace THEN NoPlace ELSE NoBond]
    OBVIOUS
  <2>2. Alone(d, a) = [o |-> o, b |-> b, m |-> {d}]
    BY <1>2, <2>1 DEF Alone
  <2>3. b \in [Orbitals -> Ends] /\ o \in [Orbitals -> Int] /\ Partners(b) = {}
    BY <2>1, EndsAre DEF Sane, Ends, Free, Partners
  <2>4. ASSUME NEW i \in Orbitals
        PROVE  TellsBond(o, b, i)
    BY <2>1, EndsAre DEF Sane, TellsBond
  <2> QED BY <2>2, <2>3, <2>4 DEF Sane
<1> QED BY <1>1, <1>2

\* Clearing what half a bond left changes no bond.
LEMMA CleanedIsSane ==
  ASSUME NEW d \in Droplets, NEW a, Sane(d, a), a = [o |-> a.o, b |-> a.b, m |-> a.m],
         NEW e \in Droplets, e # d, e \notin Partners(a.b), NEW msg, NEW half
  PROVE  /\ Sane(d, Cleaned(a, e, msg, half)) /\ Cleaned(a, e, msg, half).b = a.b
         /\ Holds(a) => Holds(Cleaned(a, e, msg, half))
<1>1. PICK c : c = [a EXCEPT !.m = removeFromMolecule(@, e)]
  OBVIOUS
<1>2. c.b = a.b /\ c.o = a.o /\ c.m = a.m \ {e}
  BY <1>1 DEF removeFromMolecule
<1>3. Sane(d, c) /\ (Holds(a) => Holds(c))
  BY <1>2 DEF Sane, Holds
<1> QED BY <1>1, <1>2, <1>3 DEF Cleaned

\* A list that begins with the droplet and the one whose molecule it joins holds
\* both.
LEMMA JoinedHoldsBoth ==
  ASSUME NEW d, NEW e, NEW atoms, e \in atoms, NEW m \in joinNewMolecule(d, e, atoms)
  PROVE  d \in m /\ e \in m
<1>1. CASE m = {d} \union atoms \union {}
  BY <1>1
<1>2. CASE m # {d} \union atoms \union {}
  <2>1. d \in m /\ Cardinality(m) = MaxAtoms /\ ({e} \subseteq m \/ m \subseteq {d} \union {e})
    BY <1>2 DEF joinNewMolecule, Lists
  <2>2. ASSUME e \notin m
        PROVE  FALSE
    <3>1. m = {d}
      BY <2>1, <2>2
    <3>2. Cardinality({d}) = 1
      BY FS_Singleton
    <3> QED BY <2>1, <3>1, <3>2, ChemAssumption DEF ChemAssumption
  <2> QED BY <2>1, <2>2
<1> QED BY <1>1, <1>2

\* updateMolecule keeps the atoms that the droplet is bonded to, if there is room.
LEMMA UpdateIsSane ==
  ASSUME NEW d \in Droplets, NEW a, Sane(d, a), a = [o |-> a.o, b |-> a.b, m |-> a.m],
         NEW first, NEW atoms, Partners(a.b) # {} \/ atoms \subseteq {d},
         NEW c \in updateMolecule(d, a, first, atoms)
  PROVE  /\ Sane(d, c)
         /\ Holds(a) /\ Cardinality({d} \union atoms \union Kept(a)) <= MaxAtoms => Holds(c)
<1>1. PICK all : all = {d} \union atoms \union Kept(a)
  OBVIOUS
<1>2. PICK S \in Lists(d, first, atoms, Kept(a)) : c = [a EXCEPT !.m = S]
  BY DEF updateMolecule
<1>3. c.b = a.b /\ c.o = a.o /\ c.m = S
  BY <1>2
<1>4. d \in S /\ (Cardinality(all) <= MaxAtoms => S = all)
  BY <1>1, <1>2 DEF Lists
<1>5. Partners(a.b) = {} => S = {d}
  <2>1. SUFFICES ASSUME Partners(a.b) = {} PROVE S = {d}
    OBVIOUS
  <2>2. all = {d}
    BY <1>1, <2>1 DEF Kept
  <2>3. Cardinality(all) = 1
    BY <2>2, FS_Singleton
  <2>4. 1 <= MaxAtoms
    BY ChemAssumption DEF ChemAssumption
  <2> QED BY <1>4, <2>2, <2>3, <2>4
<1>6. Holds(a) /\ S = all => Holds(c)
  BY <1>1, <1>3 DEF Holds, Kept
<1> QED BY <1>1, <1>3, <1>4, <1>5, <1>6 DEF Sane

\* attemptToBond takes as many orbitals as its bond is said to have, three at
\* most, and puts the other atom into the molecule.
LEMMA BondIsSane ==
  ASSUME NEW d \in Droplets, NEW a, Sane(d, a), a = [o |-> a.o, b |-> a.b, m |-> a.m],
         NEW e \in Droplets, e # d, e \notin Partners(a.b),
         NEW msg, e \in msg.m, NEW rxn \in {1, 2}, NEW c \in attemptToBond(d, a, e, msg, rxn)
  PROVE  Sane(d, c) /\ (Holds(a) => Holds(c))
<1>1. PICK room, left, n, filled, F :
        /\ room = RoomOf(d, msg, rxn) /\ left = LeaveFor(d, a, rxn) /\ F = FreeOf(left.o)
        /\ n = Least(Least(Cardinality(F), room), 3) /\ filled = FirstOrbitals(F, n)
  OBVIOUS
<1>2. PICK o, b, M :
        /\ o = [i \in Orbitals |-> IF i \in filled THEN TypeOf(n) ELSE left.o[i]]
        /\ b = [i \in Orbitals |-> IF i \in filled THEN e ELSE left.b[i]]
        /\ M = IF rxn = 1 THEN {left.m \cup {e}} ELSE joinNewMolecule(d, e, msg.m)
  OBVIOUS
<1>3. c = a \/ c = left \/ (n # 0 /\ \E m \in M : c = [o |-> o, b |-> b, m |-> m])
  <2>1. \/ c \in {a} \/ c \in {left}
        \/ n # 0 /\ c \in {[o |-> o, b |-> b, m |-> m] : m \in M}
    BY <1>1, <1>2 DEF attemptToBond, FirstOrbitals
  <2> QED BY <2>1
<1>4. /\ Sane(d, left) /\ e \notin Partners(left.b) /\ (rxn = 2 => Partners(left.b) = {})
      /\ Holds(a) => Holds(left)
  BY <1>1, AloneIsSane DEF LeaveFor, Holds
<1>5. F \in SUBSET Orbitals /\ Cardinality(F) \in Nat
  <2>1. F \in SUBSET Orbitals
    BY <1>1 DEF FreeOf
  <2> QED BY <2>1, OrbitalCount
<1>6. room \in Nat
  <2>1. PICK X, Y : /\ X = {i \in Orbitals : msg.b[i] = d}
                    /\ Y = {i \in Orbitals : \/ rxn = 2 /\ msg.o[i] = Free
                                             \/ rxn = 1 /\ msg.o[i] # Absent /\ msg.b[i] # d}
    OBVIOUS
  <2>2. X \in SUBSET Orbitals /\ Y \in SUBSET Orbitals
    BY <2>1
  <2>3. Cardinality(X) \in Nat /\ Cardinality(Y) \in Nat
    BY <2>2, OrbitalCount
  <2>4. room = Cardinality(X) + Cardinality(Y)
    BY <1>1, <2>1 DEF RoomOf
  <2> QED BY <2>3, <2>4
<1>7. n \in Nat /\ n <= 3 /\ n <= Cardinality(F)
  BY <1>1, <1>5, <1>6 DEF Least
<1>8. filled \in SUBSET F /\ Cardinality(filled) = n
  BY <1>1, <1>5, <1>7, FirstAreCounted
<1>9. ASSUME n # 0, NEW m \in M, c = [o |-> o, b |-> b, m |-> m]
      PROVE  Sane(d, c) /\ (Holds(a) => Holds(c))
  <2>1. filled # {}
    BY <1>8, <1>9, FS_EmptySet
  <2>2. \A i \in filled : i \in Orbitals /\ left.b[i] = NoBond
    BY <1>1, <1>4, <1>5, <1>8, FreeAreUnbound DEF FreeOf
  <2>3. b \in [Orbitals -> Ends] /\ o \in [Orbitals -> Int]
    BY <1>2, <1>4, <1>7 DEF Sane, Ends, TypeOf
  <2>4. Partners(b) = Partners(left.b) \cup {e}
    BY <1>2, <2>1, <2>2, EndsAre DEF Partners
  <2>5. ASSUME NEW i \in Orbitals
        PROVE  TellsBond(o, b, i)
    <3>1. CASE i \in filled
      <4>1. Same(b, i) = filled
        BY <1>2, <1>4, <2>2, <3>1 DEF Same, Partners
      <4>2. b[i] = e /\ o[i] = n + 1
        BY <1>2, <3>1 DEF TypeOf
      <4> QED BY <1>7, <1>8, <4>1, <4>2, EndsAre DEF TellsBond
    <3>2. CASE i \notin filled
      <4>1. b[i] = left.b[i] /\ o[i] = left.o[i] /\ TellsBond(left.o, left.b, i)
        BY <1>2, <1>4, <3>2 DEF Sane
      <4>2. left.b[i] \in Droplets => Same(b, i) = Same(left.b, i)
        BY <1>2, <1>4, <2>2, <3>2, EndsAre DEF Same, Partners
      <4> QED BY <4>1, <4>2 DEF TellsBond
    <3> QED BY <3>1, <3>2
  <2>6. d \in m /\ Partners(b) # {} /\ (Holds(a) => Partners(b) \subseteq m)
    <3>1. CASE rxn = 1
      <4>1. m = left.m \cup {e}
        BY <1>2, <1>9, <3>1
      <4> QED BY <1>4, <2>4, <4>1 DEF Sane, Holds
    <3>2. CASE rxn = 2
      <4>1. m \in joinNewMolecule(d, e, msg.m) /\ Partners(b) = {e}
        BY <1>2, <1>4, <1>9, <2>4, <3>2
      <4> QED BY <4>1, JoinedHoldsBoth
    <3> QED BY <3>1, <3>2
  <2>7. Sane(d, [o |-> o, b |-> b, m |-> m])
    BY <2>3, <2>5, <2>6 DEF Sane
  <2> QED BY <1>9, <2>6, <2>7 DEF Holds
<1> QED BY <1>3, <1>4, <1>9

----------------------------------------------------------------------------
(* What every droplet is and says                                          *)

\* Every droplet's orbitals and bonds agree, and its molecule with them while no
\* list was too long; and it is in the molecule that it says it is in.
ChemInv ==
  /\ chemBudget \in [pairs : SUBSET (SUBSET Droplets), slots : Nat, scrubs : Nat]
  /\ orbital = [d \in Droplets |-> orbital[d]] /\ bonded = [d \in Droplets |-> bonded[d]]
  /\ molecule = [d \in Droplets |-> molecule[d]] /\ overfull \subseteq Droplets
  /\ said = [d \in Droplets |-> said[d]] /\ unheard \in [Droplets -> SUBSET Droplets]
  /\ \A d \in Droplets : Sane(d, Self(d)) /\ (d \notin overfull => Holds(Self(d)))
  /\ \A d \in Droplets : d \notin unheard[d] /\ (unheard[d] # {} => d \in said[d].m)

\* At first no atom is bonded.
LEMMA ChemBegins == ChemInit => ChemInv
<1> SUFFICES ASSUME ChemInit PROVE ChemInv
  OBVIOUS
<1>1. ASSUME NEW d \in Droplets
      PROVE  Sane(d, Self(d)) /\ Holds(Self(d))
  <2>1. PICK o, b : /\ o = [i \in Orbitals |-> IF i \in Places(d) THEN Free ELSE Absent]
                    /\ b = [i \in Orbitals |-> IF i \in Places(d) THEN NoBond ELSE NoPlace]
    OBVIOUS
  <2>2. Self(d) = [o |-> o, b |-> b, m |-> {d}]
    BY <2>1 DEF ChemInit, Self
  <2>3. b \in [Orbitals -> Ends] /\ o \in [Orbitals -> Int]
    BY <2>1 DEF Ends, Free, Absent
  <2>4. Partners(b) = {} /\ \A i \in Orbitals : TellsBond(o, b, i)
    BY <2>1, EndsAre DEF Partners, TellsBond
  <2> QED BY <2>2, <2>3, <2>4 DEF Sane, Holds
<1>2. chemBudget \in [pairs : SUBSET (SUBSET Droplets), slots : Nat, scrubs : Nat]
  BY ChemAssumption DEF ChemInit, ChemAssumption
<1>3. overfull \subseteq Droplets
  BY DEF ChemInit
<1> QED BY <1>1, <1>2, <1>3 DEF ChemInit, ChemInv

\* A droplet without bonds reaches nobody.
LEMMA AloneReachesItself ==
  ASSUME NEW d \in Droplets, Partners(bonded[d]) = {}
  PROVE  Reach(d) = {d}
<1>1. PICK N : N = Cardinality(Droplets) /\ N \in Nat
  BY ChemAssumption, FS_CardinalityType DEF ChemAssumption
<1> DEFINE next(S) == S \union {e \in DOMAIN near[d] : \/ e \in Partners(bonded[d])
                                                \/ \E x \in S \ {d} : e \in near[d][x]}
           from == CHOOSE f : f = [n \in 0 .. N |-> IF n = 0 THEN {d} ELSE next(f[n - 1])]
<1>2. next({d}) = {d}
  OBVIOUS
<1>3. Reach(d) = from[N]
  BY <1>1 DEF Reach
<1>4. PICK h : h = [n \in 0 .. N |-> {d}]
  OBVIOUS
<1>5. \A n \in 0 .. N : n # 0 => n - 1 \in 0 .. N
  BY <1>1
<1> HIDE DEF next
<1>6. h = [n \in 0 .. N |-> IF n = 0 THEN {d} ELSE next(h[n - 1])]
  BY <1>2, <1>4, <1>5
<1>7. from = [n \in 0 .. N |-> IF n = 0 THEN {d} ELSE next(from[n - 1])]
  BY <1>6
<1> HIDE DEF from
<1> DEFINE T == {n \in 0 .. N : from[n] = {d}}
<1>8. 0 \in T
  BY <1>1, <1>7
<1>9. \A n \in 0 .. N - 1 : n \in T => n + 1 \in T
  <2> SUFFICES ASSUME NEW n \in 0 .. N - 1, n \in T PROVE n + 1 \in T
    OBVIOUS
  <2>1. n + 1 \in 0 .. N /\ n + 1 # 0 /\ (n + 1) - 1 = n
    BY <1>1
  <2>2. from[n + 1] = next(from[n])
    BY <1>7, <2>1
  <2> QED BY <1>2, <2>1, <2>2
<1> HIDE DEF T
<1>10. 0 .. N \subseteq T
  BY <1>1, <1>8, <1>9, InductionUpTo
<1> QED BY <1>1, <1>3, <1>10 DEF T

\* A droplet becomes another atom.
LEMMA BecomesSane ==
  ASSUME ChemInv, NEW d \in Droplets, NEW a, Sane(d, a), NEW wanted, Becomes(d, a, wanted),
         Holds(Self(d)) /\ Cardinality(wanted) <= MaxAtoms => Holds(a)
  PROVE  /\ orbital' = [e \in Droplets |-> orbital'[e]] /\ bonded' = [e \in Droplets |-> bonded'[e]]
         /\ molecule' = [e \in Droplets |-> molecule'[e]] /\ overfull' \subseteq Droplets
         /\ \A e \in Droplets : Sane(e, Self(e))' /\ (e \notin overfull' => Holds(Self(e))')
<1>1. /\ orbital' = [orbital EXCEPT ![d] = a.o] /\ bonded' = [bonded EXCEPT ![d] = a.b]
      /\ molecule' = [molecule EXCEPT ![d] = a.m]
  BY DEF Becomes
<1>2. /\ orbital' = [e \in Droplets |-> IF e = d THEN a.o ELSE orbital[e]]
      /\ bonded' = [e \in Droplets |-> IF e = d THEN a.b ELSE bonded[e]]
      /\ molecule' = [e \in Droplets |-> IF e = d THEN a.m ELSE molecule[e]]
  BY <1>1 DEF ChemInv
<1>3. /\ orbital' = [e \in Droplets |-> orbital'[e]] /\ bonded' = [e \in Droplets |-> bonded'[e]]
      /\ molecule' = [e \in Droplets |-> molecule'[e]]
  BY <1>2
<1>5. /\ overfull' \subseteq Droplets
      /\ d \notin overfull' => Holds(a)
      /\ \A e \in Droplets \ {d} : e \notin overfull' => e \notin overfull
  <2>1. overfull' = IF Partners(a.b) = {} THEN overfull \ {d}
                    ELSE IF Cardinality(wanted) <= MaxAtoms THEN overfull ELSE overfull \union {d}
    BY DEF Becomes
  <2>2. overfull \subseteq Droplets /\ (d \notin overfull => Holds(Self(d)))
    BY DEF ChemInv
  <2>3. Partners(a.b) = {} => Holds(a)
    BY DEF Holds
  <2> QED BY <2>1, <2>2, <2>3
<1>4. ASSUME NEW e \in Droplets
      PROVE  Sane(e, Self(e))' /\ (e \notin overfull' => Holds(Self(e))')
  <2>1. CASE e = d
    <3>1. orbital'[e] = a.o /\ bonded'[e] = a.b /\ molecule'[e] = a.m
      BY <1>2, <2>1
    <3>2. /\ Sane(e, [o |-> orbital'[e], b |-> bonded'[e], m |-> molecule'[e]])
          /\ e \notin overfull' => Holds([o |-> orbital'[e], b |-> bonded'[e], m |-> molecule'[e]])
      BY <1>5, <2>1, <3>1 DEF Sane, Holds
    <3> QED BY <3>2 DEF Self, Sane, Holds, TellsBond, Same, Partners
  <2>2. CASE e # d
    <3>1. orbital'[e] = orbital[e] /\ bonded'[e] = bonded[e] /\ molecule'[e] = molecule[e]
      BY <1>2, <2>2
    <3>2. /\ Sane(e, [o |-> orbital'[e], b |-> bonded'[e], m |-> molecule'[e]])
          /\ e \notin overfull' => Holds([o |-> orbital'[e], b |-> bonded'[e], m |-> molecule'[e]])
      BY <1>5, <2>2, <3>1 DEF ChemInv, Self
    <3> QED BY <3>2 DEF Self, Sane, Holds, TellsBond, Same, Partners
  <2> QED BY <2>1, <2>2
<1> QED BY <1>3, <1>4, <1>5

\* Whatever reaction is found
LEMMA MessageLeavesSane ==
  ASSUME NEW d \in Droplets, Sane(d, Self(d)), NEW e \in Droplets, e # d, NEW msg, e \in msg.m,
         NEW a \in msgState(d, e, msg), NEW wanted,
         e \in Partners(bonded[d]) /\ d \in Partners(msg.b) => wanted = {d} \union msg.m \union Kept(Self(d))
  PROVE  Sane(d, a) /\ (Holds(Self(d)) /\ Cardinality(wanted) <= MaxAtoms => Holds(a))
<1>1. PICK s, half : s = Self(d) /\ half = (d \in Partners(msg.b))
  OBVIOUS
<1>2. Sane(d, s) /\ s = [o |-> s.o, b |-> s.b, m |-> s.m] /\ s.b = bonded[d]
  BY <1>1 DEF Self
<1>3. CASE e \in Partners(s.b)
  <2>1. a \in IF half THEN updateMolecule(d, s, {e}, msg.m) ELSE {breakBond(d, s, e)}
    BY <1>1, <1>3 DEF msgState
  <2>2. CASE half
    <3>1. wanted = {d} \union msg.m \union Kept(s) /\ a \in updateMolecule(d, s, {e}, msg.m)
      BY <1>1, <1>2, <1>3, <2>1, <2>2
    <3>2. Partners(s.b) # {}
      BY <1>3
    <3>3. Sane(d, a) /\ (Holds(s) /\ Cardinality({d} \union msg.m \union Kept(s)) <= MaxAtoms => Holds(a))
      BY <1>2, <3>1, <3>2, UpdateIsSane
    <3> QED BY <1>1, <3>1, <3>3
  <2>3. CASE ~half
    <3>1. a = breakBond(d, s, e)
      BY <2>1, <2>3
    <3> QED BY <1>1, <1>2, <3>1, BreakIsSane
  <2> QED BY <2>2, <2>3
<1>4. CASE e \notin Partners(s.b)
  <2>1. PICK c : c = Cleaned(s, e, msg, half)
    OBVIOUS
  <2>2. Sane(d, c) /\ c.b = s.b /\ (Holds(s) => Holds(c))
    BY <1>2, <1>4, <2>1, CleanedIsSane
  <2>3. c = [o |-> c.o, b |-> c.b, m |-> c.m]
    BY <1>2, <2>1 DEF Cleaned
  <2>4. PICK R : /\ a \in UNION {IF rxn = 0 THEN {c} ELSE attemptToBond(d, c, e, msg, rxn) : rxn \in R}
                 /\ R = {0} \/ R = energyCheck(d, c.m, e, msg.m, half)
    BY <1>1, <1>4, <2>1 DEF msgState
  <2>5. R \subseteq {0, 1, 2}
    BY <2>4 DEF energyCheck, Favoured
  <2>6. PICK rxn \in {0, 1, 2} : a \in IF rxn = 0 THEN {c} ELSE attemptToBond(d, c, e, msg, rxn)
    BY <2>4, <2>5
  <2>7. CASE rxn = 0
    BY <1>1, <2>2, <2>6, <2>7
  <2>8. CASE rxn \in {1, 2}
    <3>1. a \in attemptToBond(d, c, e, msg, rxn)
      BY <2>6, <2>8
    <3>2. Sane(d, a) /\ (Holds(c) => Holds(a))
      BY <1>4, <2>2, <2>3, <2>8, <3>1, BondIsSane
    <3> QED BY <1>1, <2>2, <3>2
  <2> QED BY <2>7, <2>8
<1> QED BY <1>3, <1>4

\* Every message that is said, heard or missed keeps the invariant.
LEMMA ChemStep ==
  ASSUME ChemInv, [ChemNext]_chemVars
  PROVE  ChemInv'
<1>1. Present \subseteq Droplets
  BY DEF ChemInv, Present
<1>2. ASSUME NEW d \in Droplets, Broadcast(d)
      PROVE  ChemInv'
  <2>1. UNCHANGED <<orbital, bonded, molecule, overfull>>
    BY <1>2 DEF Broadcast
  <2>2. chemBudget' \in [pairs : SUBSET (SUBSET Droplets), slots : Nat, scrubs : Nat]
    BY <1>2 DEF Broadcast, ChemInv
  <2>3. PICK a : a = Self(d) /\ d \in a.m
    BY DEF ChemInv, Sane
  <2>4. said' = [said EXCEPT ![d] = a] /\ unheard' = [unheard EXCEPT ![d] = Hearers(d)]
    BY <1>2, <2>3 DEF Broadcast
  <2>5. said' = [e \in Droplets |-> IF e = d THEN a ELSE said[e]]
    BY <2>4 DEF ChemInv
  <2>6. said' = [e \in Droplets |-> said'[e]] /\ unheard' \in [Droplets -> SUBSET Droplets]
    BY <2>4, <2>5 DEF ChemInv, Hearers
  <2>7. \A e \in Droplets : e \notin unheard'[e] /\ (unheard'[e] # {} => e \in said'[e].m)
    BY <2>3, <2>4, <2>5 DEF ChemInv, Hearers
  <2>8. ASSUME NEW e \in Droplets
        PROVE  Sane(e, Self(e))' /\ (e \notin overfull' => Holds(Self(e))')
    <3>1. /\ Sane(e, [o |-> orbital'[e], b |-> bonded'[e], m |-> molecule'[e]])
          /\ e \notin overfull' => Holds([o |-> orbital'[e], b |-> bonded'[e], m |-> molecule'[e]])
      BY <2>1 DEF ChemInv, Self
    <3> QED BY <3>1 DEF Self, Sane, Holds, TellsBond, Same, Partners
  <2> QED BY <2>1, <2>2, <2>6, <2>7, <2>8 DEF ChemInv
<1>3. ASSUME NEW d \in Droplets, Scrub(d)
      PROVE  ChemInv'
  <2>1. chemBudget' \in [pairs : SUBSET (SUBSET Droplets), slots : Nat, scrubs : Nat]
    BY <1>3 DEF Scrub, ChemInv
  <2>2. PICK s : s = Self(d)
    OBVIOUS
  <2>3. Sane(d, s) /\ s = [o |-> s.o, b |-> s.b, m |-> s.m] /\ s.b = bonded[d]
    BY <2>2 DEF ChemInv, Self
  <2>4. PICK first, atoms, wanted : /\ atoms = Reach(d) /\ first = Reach(d) \cap Partners(bonded[d])
                                    /\ wanted = {d} \union Reach(d) \union Kept(s)
    OBVIOUS
  <2>5. PICK a \in updateMolecule(d, s, first, atoms) : Becomes(d, a, wanted)
    BY <1>3, <2>2, <2>4 DEF Scrub
  <2>7. Partners(s.b) # {} \/ atoms \subseteq {d}
    BY <2>3, <2>4, AloneReachesItself
  <2>8. Sane(d, a) /\ (Holds(s) /\ Cardinality({d} \union atoms \union Kept(s)) <= MaxAtoms => Holds(a))
    BY <2>3, <2>7, UpdateIsSane
  <2>9. {d} \union atoms \union Kept(s) = wanted
    BY <2>4
  <2>10. Holds(Self(d)) /\ Cardinality(wanted) <= MaxAtoms => Holds(a)
    BY <2>2, <2>8, <2>9
  <2>11. UNCHANGED <<said, unheard>>
    BY <1>3 DEF Scrub
  <2>12. /\ orbital' = [e \in Droplets |-> orbital'[e]] /\ bonded' = [e \in Droplets |-> bonded'[e]]
         /\ molecule' = [e \in Droplets |-> molecule'[e]] /\ overfull' \subseteq Droplets
         /\ \A e \in Droplets : Sane(e, Self(e))' /\ (e \notin overfull' => Holds(Self(e))')
    BY <2>5, <2>8, <2>10, BecomesSane
  <2> QED BY <2>1, <2>11, <2>12 DEF ChemInv
<1>4. ASSUME NEW d \in Droplets, NEW s \in Droplets, Hear(d, s)
      PROVE  ChemInv'
  <2>1. d \in unheard[s] /\ unheard' = [unheard EXCEPT ![s] = @ \ {d}] /\ UNCHANGED chemBudget
    BY <1>4 DEF Hear
  <2>2. d # s /\ s \in said[s].m
    BY <2>1 DEF ChemInv
  <2>3. PICK msg : msg = said[s]
    OBVIOUS
  <2>10. PICK wanted : wanted = IF s \in Partners(bonded[d]) /\ d \in Partners(msg.b)
                               THEN {d} \union msg.m \union Kept(Self(d)) ELSE {}
    OBVIOUS
  <2>4. PICK a \in msgState(d, s, msg) : Becomes(d, a, wanted)
    BY <1>4, <2>3, <2>10 DEF Hear
  <2>5. Sane(d, a) /\ (Holds(Self(d)) /\ Cardinality(wanted) <= MaxAtoms => Holds(a))
    BY <2>2, <2>3, <2>4, <2>10, MessageLeavesSane DEF ChemInv
  <2>6. PICK x : said' = [said EXCEPT ![s] = x] /\ (unheard[s] # {d} => x = said[s])
    BY <1>4 DEF Hear
  <2>7. said' = [e \in Droplets |-> IF e = s THEN x ELSE said[e]]
    BY <2>6 DEF ChemInv
  <2>8. said' = [e \in Droplets |-> said'[e]] /\ unheard' \in [Droplets -> SUBSET Droplets]
    BY <2>1, <2>7 DEF ChemInv
  <2>9. \A e \in Droplets : e \notin unheard'[e] /\ (unheard'[e] # {} => e \in said'[e].m)
    BY <2>1, <2>6, <2>7 DEF ChemInv
  <2>11. /\ orbital' = [e \in Droplets |-> orbital'[e]] /\ bonded' = [e \in Droplets |-> bonded'[e]]
         /\ molecule' = [e \in Droplets |-> molecule'[e]] /\ overfull' \subseteq Droplets
         /\ \A e \in Droplets : Sane(e, Self(e))' /\ (e \notin overfull' => Holds(Self(e))')
    BY <2>4, <2>5, BecomesSane
  <2> QED BY <2>1, <2>8, <2>9, <2>11 DEF ChemInv
<1>5. CASE UNCHANGED chemVars
  <2>1. /\ orbital' = orbital /\ bonded' = bonded /\ molecule' = molecule /\ overfull' = overfull
        /\ said' = said /\ unheard' = unheard /\ chemBudget' = chemBudget
    BY <1>5 DEF chemVars
  <2>2. \A e \in Droplets :
          /\ Sane(e, [o |-> orbital[e], b |-> bonded[e], m |-> molecule[e]])
          /\ e \notin overfull => Holds([o |-> orbital[e], b |-> bonded[e], m |-> molecule[e]])
    BY DEF ChemInv, Self
  <2>3. ASSUME NEW e \in Droplets
        PROVE  Sane(e, Self(e))' /\ (e \notin overfull' => Holds(Self(e))')
    <3>1. /\ Sane(e, [o |-> orbital'[e], b |-> bonded'[e], m |-> molecule'[e]])
          /\ e \notin overfull' => Holds([o |-> orbital'[e], b |-> bonded'[e], m |-> molecule'[e]])
      BY <2>1, <2>2
    <3> QED BY <3>1 DEF Self, Sane, Holds, TellsBond, Same, Partners
  <2> QED BY <2>1, <2>3 DEF ChemInv
<1> QED BY <1>1, <1>2, <1>3, <1>4, <1>5 DEF ChemNext

\* The two properties are what Sane and Holds say.
LEMMA ChemIsSane ==
  ASSUME ChemInv
  PROVE  MoleculeHoldsBonds /\ OrbitalsTellBonds
<1>1. \A d \in Droplets :
        /\ Sane(d, [o |-> orbital[d], b |-> bonded[d], m |-> molecule[d]])
        /\ d \notin overfull => Holds([o |-> orbital[d], b |-> bonded[d], m |-> molecule[d]])
  BY DEF ChemInv, Self
<1>2. MoleculeHoldsBonds
  BY <1>1 DEF Sane, Holds, MoleculeHoldsBonds
<1>3. ASSUME NEW d \in Droplets, NEW i \in Orbitals
      PROVE  TellsBond(orbital[d], bonded[d], i) /\ bonded[d][i] \in Ends
  BY <1>1 DEF Sane
<1>4. OrbitalsTellBonds
  BY <1>3, EndsAre DEF OrbitalsTellBonds, TellsBond, Same
<1> QED BY <1>2, <1>4

\* A droplet without bonds is alone, and while no list was too long for it a
\* droplet's molecule holds the atoms it is bonded to: for any number of droplets
\* and places in the lists, whatever msgState hears in what order.
THEOREM MoleculesHoldBonds == ChemSpec => []MoleculeHoldsBonds
<1>1. ChemInv /\ [ChemNext]_chemVars => ChemInv'
  BY ChemStep
<1> QED BY <1>1, ChemBegins, ChemIsSane, PTL DEF ChemSpec

\* Every bond is told by as many orbitals as its type says, three at most, and
\* all other orbitals are as they were.
THEOREM OrbitalsDoTellBonds == ChemSpec => []OrbitalsTellBonds
<1>1. ChemInv /\ [ChemNext]_chemVars => ChemInv'
  BY ChemStep
<1> QED BY <1>1, ChemBegins, ChemIsSane, PTL DEF ChemSpec

-----------------------------------------------------------------------------
(* Pong: the message that waits                                            *)

\* A message is told apart from none by its fields.
LEMMA MessageIsOne ==
  ASSUME NEW m, "attempts" \in DOMAIN m
  PROVE  m # NoMsg
<1>1. "attempts" \notin DOMAIN NoMsg
  BY DEF NoMsg
<1> QED BY <1>1

\* BlocksKept, and that what waits is a message.
BlocksInv ==
  /\ BlocksKept
  /\ prepped # NoMsg => "attempts" \in DOMAIN prepped

\* Every step keeps it.
LEMMA BlocksStep == BlocksInv /\ [PongBallNext]_pongVars => BlocksInv'
<1> SUFFICES ASSUME BlocksInv, [PongBallNext]_pongVars PROVE BlocksInv'
  OBVIOUS
<1>1. ASSUME UNCHANGED <<prepped, chain, blocks>> PROVE BlocksInv'
  BY <1>1 DEF BlocksInv, BlocksKept
<1>2. CASE Prepare
  <2>1. \A a : "attempts" \in DOMAIN Told(a) /\ Told(a) # NoMsg
    BY MessageIsOne DEF Told
  <2>2. CASE prepped = NoMsg
    <3>1. prepped' = Told(0) /\ blocks' = blocks + 1 /\ chain' = TRUE
      BY <1>2, <2>2 DEF Prepare
    <3> QED BY <2>1, <2>2, <3>1 DEF BlocksInv, BlocksKept
  <2>3. CASE prepped # NoMsg
    <3>1. prepped' = Told(prepped.attempts) /\ UNCHANGED <<blocks, chain>>
      BY <1>2, <2>3 DEF Prepare
    <3> QED BY <2>1, <2>3, <3>1 DEF BlocksInv, BlocksKept
  <2> QED BY <2>2, <2>3
<1>3. ASSUME chain, prepped' = NoMsg, blocks' = blocks - 1, chain' = FALSE
      PROVE  BlocksInv'
  BY <1>3 DEF BlocksInv, BlocksKept
<1>4. CASE SendLater
  <2>1. CASE prepped.attempts > SendTries
    BY <1>3, <1>4, <2>1 DEF SendLater
  <2>2. CASE ~(prepped.attempts > SendTries)
    <3>1. prepped # NoMsg /\ "attempts" \in DOMAIN prepped
      BY <1>4 DEF SendLater, BlocksInv, BlocksKept
    <3>2. prepped' = [prepped EXCEPT !.attempts = @ + 1] /\ UNCHANGED <<blocks, chain>>
      BY <1>4, <2>2 DEF SendLater
    <3>3. "attempts" \in DOMAIN prepped'
      BY <3>1, <3>2
    <3>4. prepped' # NoMsg
      BY <3>3, MessageIsOne
    <3> QED BY <3>1, <3>2, <3>3, <3>4 DEF BlocksInv, BlocksKept
  <2> QED BY <2>1, <2>2
<1>5. CASE SendNow
  BY <1>3, <1>5 DEF SendNow
<1>6. CASE \/ \E t \in Elapsed : UpdateBall(t)
           \/ EdgesRebuilt
           \/ SlotBegins
           \/ \E m \in Reports : HandleBallMsg(m)
           \/ \E v \in Speeds, d \in {-1, 1} : Launch(v * d)
           \/ Kill
  BY <1>1, <1>6 DEF UpdateBall, EdgesRebuilt, SlotBegins, HandleBallMsg, Launch, Kill
<1>7. CASE UNCHANGED pongVars
  BY <1>1, <1>7 DEF pongVars
<1> QED BY <1>2, <1>4, <1>5, <1>6, <1>7 DEF PongBallNext

\* Whatever order preparing, sending, retrying and giving up come in, however many
\* tries there are, at most one block is allocated, for the message that waits, and
\* a task is due that sends or frees it: none is leaked and none freed twice.
THEOREM BlocksAreKept == PongSpec => []BlocksKept
<1>1. PongInit => BlocksInv
  BY DEF PongInit, BlocksInv, BlocksKept
<1>2. BlocksInv => BlocksKept
  BY DEF BlocksInv
<1> QED BY <1>1, <1>2, BlocksStep, PTL DEF PongSpec

-----------------------------------------------------------------------------
(* Pong: the ball                                                          *)

\* On the way through a turn the ball is inside, when it began `in`, and crosses none
\* of the edges that were looked at since it bounced.
OnTheWay(f, t, in) ==
  /\ f \in Flights /\ f.v # 0 /\ f.d <= Ticks * Abs(f.v) /\ f.edge <= Len(walls) + 1
  /\ in => Inside(walls, f.x, f.v)
  /\ \A e \in 1 .. f.edge - 1 : ~Crosses(f.x, f.v, Remaining(f, t), walls[e])

\* the edges that may yet be looked at
LooksLeft(f) == (Ticks * Abs(f.v) - f.d) * (Len(walls) + 1) + (Len(walls) + 1 - f.edge)

LEMMA TicksArePositive ==
  /\ Ticks \in Nat \ {0} /\ \A t \in Elapsed : t \in 1 .. Ticks
BY PongAssumption DEF PongAssumption

LEMMA AbsIs ==
  ASSUME NEW v \in Int
  PROVE  /\ Abs(v) \in Nat /\ Abs(-v) = Abs(v) /\ (v # 0 => Abs(v) \in Nat \ {0})
         /\ (v > 0 => Abs(v) = v) /\ (v < 0 => Abs(v) = -v)
BY DEF Abs

LEMMA TimesIsMonotone ==
  ASSUME NEW a \in Int, NEW b \in Int, NEW c \in Nat, a <= b
  PROVE  a * c <= b * c
<1>1. PICK d \in Nat : b = a + d
  <2>1. b - a \in Nat /\ b = a + (b - a)
    OBVIOUS
  <2> QED BY <2>1
<1>2. b * c = a * c + d * c
  BY <1>1
<1>3. d * c \in Nat /\ a * c \in Int
  OBVIOUS
<1> QED BY <1>2, <1>3

\* How long the ball can fly in the time that is left
LEMMA RemainingIs ==
  ASSUME NEW t \in 1 .. Ticks, NEW v \in Nat \ {0}, NEW d \in Nat, d <= Ticks * v
  PROVE  Left(t, d, v) \in Nat /\ v * Left(t, d, v) <= Ticks * v - d
<1>1. Ticks \in Nat \ {0}
  BY TicksArePositive
<1>2. PICK b \in Nat \ {0} : b = Ticks * v
  BY <1>1
<1>3. PICK a \in Nat : a = b - d
  BY <1>2
<1>4. PICK n \in Nat : n = t * a
  OBVIOUS
<1>5. Left(t, d, v) = n \div b
  <2>1. t * (Ticks * v - d) = n
    BY <1>2, <1>3, <1>4
  <2> QED BY <1>2, <2>1 DEF Left, Trunc
<1>10. n \div b \in Int /\ n % b \in 0 .. b - 1 /\ n = (b * (n \div b)) + (n % b)
  <2>1. n \in Int
    OBVIOUS
  <2> QED BY <2>1, DivMod
<1>6. PICK q \in Int : q = n \div b
  BY <1>10
<1>7. PICK r \in 0 .. b - 1 : n = b * q + r
  BY <1>6, <1>10
<1>8. q \in Nat
  <2> SUFFICES ASSUME q <= -1 PROVE FALSE
    BY <1>6
  <2>1. q * b <= (-1) * b
    BY TimesIsMonotone
  <2>2. b * q = q * b
    OBVIOUS
  <2> QED BY <1>7, <2>1, <2>2
<1>9. v * q <= a
  <2> SUFFICES ASSUME a + 1 <= v * q PROVE FALSE
    BY <1>8
  <2>1. v * q \in Nat /\ (a + 1) * Ticks <= (v * q) * Ticks
    BY <1>1, <1>8, TimesIsMonotone
  <2>2. (v * q) * Ticks = b * q
    BY <1>1, <1>2, <1>8
  <2>3. t * a <= Ticks * a
    BY <1>1, TimesIsMonotone
  <2>4. (a + 1) * Ticks = Ticks * a + Ticks /\ Ticks * a \in Nat /\ b * q \in Nat
    BY <1>1, <1>8
  <2> QED BY <1>1, <1>4, <1>7, <2>1, <2>2, <2>3, <2>4
<1> QED BY <1>2, <1>3, <1>5, <1>6, <1>8, <1>9

\* A flight is cut to whole millimetres, towards where it began, by less than one.
LEMMA FlightIs ==
  ASSUME NEW v \in Int, NEW t \in Nat
  PROVE  /\ Flight(v, t) \in Int
         /\ v > 0 => 0 <= Flight(v, t) /\ Flight(v, t) <= v * t
         /\ v < 0 => v * t <= Flight(v, t) /\ Flight(v, t) <= 0
         /\ v * t - Flight(v, t) < Ticks /\ Flight(v, t) - v * t < Ticks
<1>1. Ticks \in Nat \ {0}
  BY TicksArePositive
<1>2. PICK n \in Int : n = v * t
  OBVIOUS
<1>3. Flight(v, t) = (IF n < 0 THEN -((-n) \div Ticks) ELSE n \div Ticks) * Ticks
  BY <1>2 DEF Flight, Trunc
<1>4. ASSUME NEW m \in Nat
      PROVE  /\ (m \div Ticks) * Ticks \in Int
             /\ 0 <= (m \div Ticks) * Ticks /\ (m \div Ticks) * Ticks <= m
             /\ m - (m \div Ticks) * Ticks < Ticks
  <2>6. m \div Ticks \in Int /\ m % Ticks \in 0 .. Ticks - 1 /\ m = (Ticks * (m \div Ticks)) + (m % Ticks)
    <3>1. m \in Int
      OBVIOUS
    <3> QED BY <1>1, <3>1, DivMod
  <2>1. PICK q \in Int : q = m \div Ticks
    BY <2>6
  <2>2. PICK r \in 0 .. Ticks - 1 : m = Ticks * q + r
    BY <2>1, <2>6
  <2>3. q * Ticks = Ticks * q /\ q * Ticks \in Int
    BY <1>1
  <2>4. q >= 0
    <3> SUFFICES ASSUME q <= -1 PROVE FALSE
      OBVIOUS
    <3>1. q * Ticks <= (-1) * Ticks
      BY <1>1, TimesIsMonotone
    <3> QED BY <1>1, <2>2, <2>3, <3>1
  <2>5. 0 * Ticks <= q * Ticks
    BY <1>1, <2>4, TimesIsMonotone
  <2> QED BY <1>1, <2>1, <2>2, <2>3, <2>5
<1>5. v > 0 => n >= 0
  BY <1>2
<1>6. v < 0 => n <= 0
  <2> SUFFICES ASSUME v < 0 PROVE n <= 0
    OBVIOUS
  <2>1. v * t <= 0 * t
    BY TimesIsMonotone
  <2> QED BY <1>2, <2>1
<1>7. CASE n >= 0
  <2>1. Flight(v, t) = (n \div Ticks) * Ticks
    BY <1>3, <1>7
  <2>2. Flight(v, t) \in Int /\ 0 <= Flight(v, t) /\ Flight(v, t) <= n
    BY <1>4, <1>7, <2>1
  <2>3. v < 0 => n = 0
    BY <1>6, <1>7
  <2>4. n - Flight(v, t) < Ticks
    BY <1>4, <1>7, <2>1
  <2> QED BY <1>1, <1>2, <2>2, <2>3, <2>4
<1>8. CASE n < 0
  <2>1. PICK m \in Nat : m = -n
    BY <1>8
  <2>2. PICK p \in Int : p = (m \div Ticks) * Ticks
    BY <1>4
  <2>3. 0 <= p /\ p <= m
    BY <1>4, <2>2
  <2>4. Flight(v, t) = -p
    <3>1. PICK q \in Int : q = m \div Ticks
      BY <1>1, DivMod
    <3>2. Flight(v, t) = (-q) * Ticks
      BY <1>3, <1>8, <2>1, <3>1
    <3>3. (-q) * Ticks = -(q * Ticks)
      BY <1>1
    <3> QED BY <2>2, <3>1, <3>2, <3>3
  <2>5. m - p < Ticks
    BY <1>4, <2>2
  <2> QED BY <1>1, <1>2, <1>5, <1>8, <2>1, <2>3, <2>4, <2>5
<1> QED BY <1>2, <1>7, <1>8

----------------------------------------------------------------------------
\* What is looked at is on the way to somewhere.
LEMMA LookIsFlight ==
  ASSUME walls \in Seq(Int), NEW f \in Flights, ~Through(f), NEW t
  PROVE  LookAt(f, t) \in Flights
<1>1. f.edge \in Nat \ {0} /\ f.x \in Int /\ f.v \in Int /\ f.d \in Nat
  BY DEF Flights
<1>2. f.edge \in 1 .. Len(walls)
  BY <1>1 DEF Through
<1>3. PICK w \in Int : w = walls[f.edge]
  BY <1>2
<1>4. CASE Crosses(f.x, f.v, Remaining(f, t), walls[f.edge])
  <2>1. LookAt(f, t) = [edge |-> 1, x |-> w, v |-> -f.v, d |-> f.d + Abs(w - f.x)]
    BY <1>3, <1>4 DEF LookAt, SearchedAnew, calculateBounce
  <2>2. PICK x \in Int : x = f.x
    BY <1>1
  <2>3. Abs(w - x) \in Nat
    BY AbsIs
  <2>4. f.d + Abs(w - f.x) \in Nat /\ -f.v \in Int
    BY <1>1, <2>2, <2>3
  <2> QED BY <2>1, <2>4 DEF Flights
<1>5. CASE ~Crosses(f.x, f.v, Remaining(f, t), walls[f.edge])
  <2>1. LookAt(f, t) = [f EXCEPT !.edge = @ + 1]
    BY <1>5 DEF LookAt
  <2>2. f.edge + 1 \in Nat \ {0}
    BY <1>1
  <2> QED BY <2>1, <2>2 DEF Flights
<1> QED BY <1>4, <1>5

\* The ball stays inside, and comes nearer to the end of the turn.
LEMMA LookIsOnTheWay ==
  ASSUME walls \in Seq(Int), NEW t \in 1 .. Ticks, NEW in \in BOOLEAN, NEW f,
         OnTheWay(f, t, in), ~Through(f)
  PROVE  /\ OnTheWay(LookAt(f, t), t, in) /\ Abs(LookAt(f, t).v) = Abs(f.v)
         /\ LooksLeft(LookAt(f, t)) <= LooksLeft(f) - 1
         /\ LooksLeft(f) \in Nat \ {0}
<1>1. /\ f \in Flights /\ f.v # 0 /\ f.d <= Ticks * Abs(f.v)
      /\ in => Inside(walls, f.x, f.v)
      /\ \A e \in 1 .. f.edge - 1 : ~Crosses(f.x, f.v, Remaining(f, t), walls[e])
  BY DEF OnTheWay
<1>2. Ticks \in Nat \ {0} /\ Len(walls) \in Nat
  BY PongAssumption DEF PongAssumption
<1>3. PICK x \in Int : x = f.x
  BY <1>1 DEF Flights
<1>4. PICK v \in Int : v = f.v
  BY <1>1 DEF Flights
<1>5. PICK d \in Nat : d = f.d
  BY <1>1 DEF Flights
<1>6. PICK e \in Nat \ {0} : e = f.edge
  BY <1>1 DEF Flights
<1>7. PICK V \in Nat \ {0} : V = Abs(v)
  BY <1>1, <1>4, AbsIs
<1>8. PICK L \in Nat : L = Len(walls)
  BY <1>2
<1>9. PICK left \in Nat : left = Left(t, d, V) /\ V * left <= Ticks * V - d
  BY <1>1, <1>4, <1>5, <1>7, RemainingIs
<1>10. Remaining(f, t) = left
  BY <1>4, <1>5, <1>7, <1>9 DEF Remaining
<1>11. e \in 1 .. L /\ L \in Nat \ {0}
  BY <1>2, <1>6, <1>8 DEF Through
<1>12. PICK w \in Int : w = walls[e]
  BY <1>2, <1>8, <1>11
<1>13. PICK D \in Nat : D = Ticks * V - d
  BY <1>1, <1>2, <1>4, <1>5, <1>7
<1>14. LooksLeft(f) = D * (L + 1) + (L + 1 - e)
  BY <1>4, <1>5, <1>6, <1>7, <1>8, <1>13 DEF LooksLeft
<1>15. D * (L + 1) \in Nat
  OBVIOUS
<1>16. LooksLeft(f) \in Nat \ {0}
  BY <1>11, <1>14, <1>15
<1>17. LookAt(f, t) \in Flights
  BY <1>1, LookIsFlight
<1>18. CASE Crosses(x, v, left, w)
  <2>1. PICK g : g = LookAt(f, t)
    OBVIOUS
  <2>2. g = [edge |-> 1, x |-> w, v |-> -v, d |-> d + Abs(w - x)]
    BY <1>3, <1>4, <1>5, <1>6, <1>10, <1>12, <1>18, <2>1 DEF LookAt, SearchedAnew, calculateBounce
  <2>3. PICK m \in Int : m = Flight(v, left)
    BY FlightIs
  <2>4. (x < w /\ w <= x + m) \/ (x + m <= w /\ w < x)
    BY <1>18, <2>3 DEF Crosses
  <2>5. PICK p \in Int : p = v * left
    OBVIOUS
  <2>6. (v > 0 => 0 <= m /\ m <= p) /\ (v < 0 => p <= m /\ m <= 0)
    BY <2>3, <2>5, FlightIs
  <2>7. (v > 0 => V = v /\ V * left = p) /\ (v < 0 => V = -v /\ V * left = -p) /\ (v > 0 \/ v < 0)
    <3>1. v > 0 \/ v < 0
      BY <1>1, <1>4
    <3>2. v < 0 => V * left = -p
      <4> SUFFICES ASSUME v < 0 PROVE V * left = -p
        OBVIOUS
      <4>1. V = -v
        BY <1>7, AbsIs
      <4>2. (-v) * left = -(v * left)
        OBVIOUS
      <4> QED BY <2>5, <4>1, <4>2
    <3>3. v > 0 => V = v
      BY <1>7, AbsIs
    <3>4. v < 0 => V = -v
      BY <1>7, AbsIs
    <3> QED BY <2>5, <3>1, <3>2, <3>3, <3>4
  <2>8. PICK a \in Nat : a = Abs(w - x)
    BY AbsIs
  <2>9. a >= 1 /\ a <= V * left
    <3>1. CASE v > 0
      <4>1. x < w /\ w <= x + m /\ m <= p
        BY <2>4, <2>6, <3>1
      <4>2. a = w - x
        BY <2>8, <4>1 DEF Abs
      <4> QED BY <2>7, <3>1, <4>1, <4>2
    <3>2. CASE v < 0
      <4>1. w < x /\ x + m <= w /\ p <= m
        BY <2>4, <2>6, <3>2
      <4>2. a = x - w
        BY <2>8, <4>1 DEF Abs
      <4> QED BY <2>7, <3>2, <4>1, <4>2
    <3> QED BY <2>7, <3>1, <3>2
  <2>10. g.edge = 1 /\ g.x = w /\ g.v = -v /\ g.d = d + a
    BY <2>2, <2>8
  <2>11. Abs(g.v) = V
    BY <1>7, <2>10, AbsIs
  <2>12. a <= D
    <3>1. PICK k \in Int : k = V * left
      OBVIOUS
    <3> QED BY <1>9, <1>13, <2>9, <3>1
  <2>13. g.d <= Ticks * Abs(g.v) /\ g.v # 0 /\ g.edge <= Len(walls) + 1
    <3>1. PICK k \in Nat : k = Ticks * V
      BY <1>2
    <3>2. d + a <= k
      BY <1>13, <2>12, <3>1
    <3> QED BY <1>8, <1>1, <1>4, <2>10, <2>11, <3>1, <3>2
  <2>14. in => Inside(walls, w, -v)
    <3> SUFFICES ASSUME in PROVE Inside(walls, w, -v)
      OBVIOUS
    <3>1. DOMAIN walls = 1 .. L /\ \A i \in 1 .. L : walls[i] \in Int
      BY <1>2, <1>8
    <3>2. CASE v > 0
      <4>1. x < w
        BY <2>4, <2>6, <3>2
      <4>2. PICK i \in 1 .. L : walls[i] <= x
        BY <1>1, <1>3, <3>1 DEF Inside
      <4>3. walls[i] < w /\ walls[e] = w /\ -v < 0
        BY <1>12, <3>1, <3>2, <4>1, <4>2
      <4> QED BY <1>11, <3>1, <4>3 DEF Inside
    <3>3. CASE v < 0
      <4>1. w < x
        BY <2>4, <2>6, <3>3
      <4>2. PICK i \in 1 .. L : x <= walls[i]
        BY <1>1, <1>3, <3>1 DEF Inside
      <4>3. w < walls[i] /\ walls[e] = w /\ -v > 0
        BY <1>12, <3>1, <3>3, <4>1, <4>2
      <4> QED BY <1>11, <3>1, <4>3 DEF Inside
    <3> QED BY <2>7, <3>2, <3>3
  <2>15. 1 .. g.edge - 1 = {}
    BY <2>10
  <2>16. OnTheWay(g, t, in)
    BY <1>17, <2>1, <2>10, <2>13, <2>14, <2>15 DEF OnTheWay
  <2>17. LooksLeft(g) = (D - a) * (L + 1) + L
    <3>1. Ticks * V - (d + a) = D - a
      <4>1. PICK k \in Nat : k = Ticks * V
        BY <1>2
      <4> QED BY <1>13, <4>1
    <3>2. L + 1 - 1 = L
      OBVIOUS
    <3> QED BY <1>8, <2>10, <2>11, <3>1, <3>2 DEF LooksLeft
  <2>18. LooksLeft(g) <= LooksLeft(f) - 1
    <3>1. (D - a) * (L + 1) <= (D - 1) * (L + 1)
      BY <2>9, <2>12, TimesIsMonotone
    <3>2. (D - 1) * (L + 1) = D * (L + 1) - (L + 1)
      OBVIOUS
    <3>3. PICK y \in Int : y = (D - a) * (L + 1)
      BY <2>12
    <3>4. PICK z \in Int : z = D * (L + 1)
      OBVIOUS
    <3>5. y + L <= z + (L + 1 - e) - 1
      BY <1>11, <3>1, <3>2, <3>3, <3>4
    <3> QED BY <1>14, <2>17, <3>3, <3>4, <3>5
  <2> QED BY <1>4, <1>7, <1>16, <2>1, <2>11, <2>16, <2>18
<1>19. CASE ~Crosses(x, v, left, w)
  <2>1. PICK g : g = LookAt(f, t)
    OBVIOUS
  <2>2. g = [f EXCEPT !.edge = @ + 1]
    BY <1>3, <1>4, <1>6, <1>10, <1>12, <1>19, <2>1 DEF LookAt
  <2>3. g.edge = e + 1 /\ g.x = x /\ g.v = v /\ g.d = d
    BY <1>1, <1>3, <1>4, <1>5, <1>6, <2>2 DEF Flights
  <2>4. Remaining(g, t) = left
    BY <1>7, <1>9, <2>3 DEF Remaining
  <2>5. ASSUME NEW i \in 1 .. g.edge - 1 PROVE ~Crosses(x, v, left, walls[i])
    <3>1. i \in 1 .. e - 1 \/ i = e
      BY <2>3
    <3>2. \A j \in 1 .. e - 1 : ~Crosses(x, v, left, walls[j])
      BY <1>1, <1>3, <1>4, <1>6, <1>10
    <3> QED BY <1>12, <1>19, <3>1, <3>2
  <2>6. g.edge <= Len(walls) + 1 /\ g.v # 0 /\ g.d <= Ticks * Abs(g.v) /\ (in => Inside(walls, g.x, g.v))
    BY <1>1, <1>3, <1>4, <1>5, <1>8, <1>11, <2>3
  <2>7. OnTheWay(g, t, in)
    BY <1>17, <2>1, <2>3, <2>4, <2>5, <2>6 DEF OnTheWay
  <2>8. LooksLeft(g) = D * (L + 1) + (L + 1 - (e + 1))
    BY <1>7, <1>8, <1>13, <2>3 DEF LooksLeft
  <2>9. LooksLeft(g) <= LooksLeft(f) - 1
    <3>1. PICK z \in Int : z = D * (L + 1)
      OBVIOUS
    <3> QED BY <1>14, <2>8, <3>1
  <2>10. Abs(g.v) = Abs(f.v)
    BY <1>4, <2>3
  <2> QED BY <1>16, <2>1, <2>7, <2>9, <2>10
<1> QED BY <1>18, <1>19

\* The loop is over before it has looked at more edges than are left.
LEMMA LoopEnds ==
  ASSUME walls \in Seq(Int), NEW t \in 1 .. Ticks, NEW in \in BOOLEAN, NEW f, OnTheWay(f, t, in),
         LooksLeft(f) <= MostLooks(f.v)
  PROVE  OnTheWay(LoopEnd(f, t), t, in) /\ Through(LoopEnd(f, t))
<1> DEFINE S == [Flights -> Flights]
<1>1. /\ Ticks \in Nat \ {0} /\ Len(walls) \in Nat /\ f \in Flights
      /\ f.v \in Int /\ Abs(f.v) \in Nat
  BY PongAssumption, AbsIs DEF PongAssumption, OnTheWay, Flights
<1>2. MostLooks(f.v) \in Nat
  <2>1. PICK a \in Nat : a = Abs(f.v)
    BY <1>1
  <2>2. PICK n \in Nat : n = Ticks * a
    BY <1>1
  <2>3. PICK l \in Nat : l = Len(walls)
    BY <1>1
  <2>4. n * (l + 1) + l \in Nat
    OBVIOUS
  <2> QED BY <2>1, <2>2, <2>3, <2>4 DEF MostLooks
<1>3. PICK most \in Nat : most = MostLooks(f.v)
  BY <1>2
<1> DEFINE look(h) == [g \in Flights |-> IF Through(g) THEN g ELSE h[LookAt(g, t)]]
           none    == [g \in Flights |-> g]
<1>4. none \in S
  OBVIOUS
<1>5. \A h \in S : look(h) \in S
  BY LookIsFlight
<1>6. PICK turn : turn = [n \in 1 .. most |-> [h \in S |-> look(h)]]
  OBVIOUS
<1>7. turn \in StepsUpTo(most, S)
  <2> HIDE DEF S, look
  <2>1. \A n \in 1 .. most : turn[n] \in [S -> S]
    BY <1>5, <1>6
  <2> QED BY <1>6, <2>1 DEF StepsUpTo
<1>8. PICK on : Follows(on, none, turn, most, S)
  <2> HIDE DEF S, none
  <2> QED BY <1>3, <1>4, <1>7, RecursionUpTo
<1>9. on \in [0 .. most -> S] /\ on[0] = none /\ \A n \in 1 .. most : on[n] = look(on[n - 1])
  <2> HIDE DEF S, none, look
  <2>1. ASSUME NEW n \in 1 .. most PROVE on[n] = look(on[n - 1])
    <3>1. n - 1 \in 0 .. most
      BY <1>3
    <3>2. on[n - 1] \in S /\ on[n] = turn[n][on[n - 1]]
      BY <1>8, <3>1 DEF Follows
    <3> QED BY <1>6, <3>2
  <2> QED BY <1>8, <2>1 DEF Follows
<1> DEFINE loop(up) == [n \in 0 .. most |->
                          [g \in Flights |-> IF n = 0 \/ Through(g) THEN g ELSE up[n - 1][LookAt(g, t)]]]
           end == CHOOSE up : up = loop(up)
<1>10. LoopEnd(f, t) = end[most][f]
  BY <1>3 DEF LoopEnd
<1>11. on = loop(on)
  <2>1. ASSUME NEW n \in 0 .. most PROVE on[n] = loop(on)[n]
    <3>1. CASE n = 0
      BY <1>9, <3>1
    <3>2. CASE n # 0
      <4>1. n \in 1 .. most
        BY <3>2
      <4>2. on[n] = look(on[n - 1])
        BY <1>9, <4>1
      <4>3. loop(on)[n] = [g \in Flights |-> IF Through(g) THEN g ELSE on[n - 1][LookAt(g, t)]]
        BY <3>2
      <4> QED BY <4>2, <4>3
    <3> QED BY <3>1, <3>2
  <2>2. on = [n \in 0 .. most |-> on[n]]
    BY <1>9
  <2>3. loop(on) = [n \in 0 .. most |-> loop(on)[n]]
    OBVIOUS
  <2> HIDE DEF loop
  <2> QED BY <2>1, <2>2, <2>3
<1>12. end = loop(end)
  <2> HIDE DEF loop
  <2> QED BY <1>11
<1> HIDE DEF end
<1>13. ASSUME NEW n \in 0 .. most, NEW g \in Flights
       PROVE  end[n][g] = IF n = 0 \/ Through(g) THEN g ELSE end[n - 1][LookAt(g, t)]
  <2>1. end[n] = [h \in Flights |-> IF n = 0 \/ Through(h) THEN h ELSE end[n - 1][LookAt(h, t)]]
    BY <1>12
  <2> QED BY <2>1
<1> HIDE DEF loop, S, look, none
<1> DEFINE T == {n \in 0 .. most : \A g : OnTheWay(g, t, in) /\ LooksLeft(g) <= n
                                          => OnTheWay(end[n][g], t, in) /\ Through(end[n][g])}
<1>14. 0 \in T
  <2> SUFFICES ASSUME NEW g, OnTheWay(g, t, in), LooksLeft(g) <= 0
               PROVE  OnTheWay(end[0][g], t, in) /\ Through(end[0][g])
    BY <1>3
  <2>1. Through(g)
    <3> SUFFICES ASSUME ~Through(g) PROVE FALSE
      OBVIOUS
    <3>1. LooksLeft(g) \in Nat \ {0}
      BY LookIsOnTheWay
    <3> QED BY <3>1
  <2>2. g \in Flights /\ 0 \in 0 .. most
    BY <1>3 DEF OnTheWay
  <2>3. end[0][g] = g
    BY <1>13, <2>2
  <2> QED BY <2>1, <2>3
<1>15. ASSUME NEW n \in 0 .. most - 1, n \in T PROVE n + 1 \in T
  <2>1. n + 1 \in 0 .. most /\ n + 1 # 0 /\ n + 1 - 1 = n /\ n \in Nat
    BY <1>3
  <2> SUFFICES ASSUME NEW g, OnTheWay(g, t, in), LooksLeft(g) <= n + 1
               PROVE  OnTheWay(end[n + 1][g], t, in) /\ Through(end[n + 1][g])
    BY <2>1
  <2>2. g \in Flights
    BY DEF OnTheWay
  <2>3. CASE Through(g)
    <3>1. end[n + 1][g] = g
      BY <1>13, <2>1, <2>2, <2>3
    <3> QED BY <2>3, <3>1
  <2>4. CASE ~Through(g)
    <3>1. PICK h : h = LookAt(g, t)
      OBVIOUS
    <3>2. OnTheWay(h, t, in) /\ LooksLeft(h) <= LooksLeft(g) - 1 /\ LooksLeft(g) \in Nat \ {0}
      BY <2>4, <3>1, LookIsOnTheWay
    <3>3. LooksLeft(h) \in Int
      <4>1. h.d \in Nat /\ h.v \in Int /\ h.edge \in Nat
        BY <3>2 DEF OnTheWay, Flights
      <4>2. PICK a \in Nat : a = Abs(h.v)
        BY <4>1, AbsIs
      <4>3. PICK l \in Nat : l = Len(walls)
        BY <1>1
      <4>4. PICK c \in Int : c = Ticks * a - h.d
        BY <1>1, <4>1
      <4>5. PICK e \in Int : e = h.edge
        BY <4>1
      <4>6. c * (l + 1) + (l + 1 - e) \in Int
        OBVIOUS
      <4> QED BY <4>2, <4>3, <4>4, <4>5, <4>6 DEF LooksLeft
    <3>4. LooksLeft(h) <= n
      <4>1. PICK a \in Int : a = LooksLeft(h)
        BY <3>3
      <4>2. PICK b \in Int : b = LooksLeft(g)
        BY <3>2
      <4>3. a <= b - 1 /\ b <= n + 1
        BY <3>2, <4>1, <4>2
      <4> QED BY <2>1, <4>1, <4>2, <4>3
    <3>5. OnTheWay(end[n][h], t, in) /\ Through(end[n][h])
      BY <1>15, <3>2, <3>4
    <3>6. end[n + 1][g] = end[n][h]
      BY <1>13, <2>1, <2>2, <2>4, <3>1
    <3> QED BY <3>5, <3>6
  <2> QED BY <2>3, <2>4
<1> HIDE DEF T
<1>16. 0 .. most \subseteq T
  BY <1>3, <1>14, <1>15, InductionUpTo
<1>17. \A g : OnTheWay(g, t, in) /\ LooksLeft(g) <= most => OnTheWay(end[most][g], t, in) /\ Through(end[most][g])
  <2>1. most \in T
    BY <1>3, <1>16
  <2> QED BY <2>1 DEF T
<1>18. OnTheWay(end[most][f], t, in) /\ Through(end[most][f])
  BY <1>3, <1>17
<1> QED BY <1>10, <1>18

\* The rest of the flight crosses no edge by a millimetre.
LEMMA RestStraysLittle ==
  ASSUME walls \in Seq(Int), NEW t \in 1 .. Ticks, NEW f, OnTheWay(f, t, TRUE), Through(f)
  PROVE  Nearly(walls, f.x + f.v * Remaining(f, t))
<1>1. /\ f \in Flights /\ f.v # 0 /\ f.d <= Ticks * Abs(f.v) /\ f.edge <= Len(walls) + 1
      /\ Inside(walls, f.x, f.v)
      /\ \A e \in 1 .. f.edge - 1 : ~Crosses(f.x, f.v, Remaining(f, t), walls[e])
  BY DEF OnTheWay
<1>2. Ticks \in Nat \ {0}
  BY TicksArePositive
<1>3. PICK x \in Int : x = f.x
  BY <1>1 DEF Flights
<1>4. PICK v \in Int : v = f.v
  BY <1>1 DEF Flights
<1>5. PICK d \in Nat : d = f.d
  BY <1>1 DEF Flights
<1>6. PICK e \in Nat : e = f.edge
  BY <1>1 DEF Flights
<1>7. PICK V \in Nat \ {0} : V = Abs(v)
  BY <1>1, <1>4, AbsIs
<1>8. PICK left \in Nat : left = Left(t, d, V)
  BY <1>1, <1>4, <1>5, <1>7, RemainingIs
<1>9. Remaining(f, t) = left
  BY <1>4, <1>5, <1>7, <1>8 DEF Remaining
<1>10. PICK p \in Int : p = v * left
  OBVIOUS
<1>11. PICK m \in Int : m = Flight(v, left)
  BY FlightIs
<1>12. PICK L \in Nat : L = Len(walls) /\ DOMAIN walls = 1 .. L
  OBVIOUS
<1>13. ASSUME NEW i \in 1 .. L
       PROVE  ~((x < walls[i] /\ walls[i] <= x + m) \/ (x + m <= walls[i] /\ walls[i] < x))
  <2>1. i \in 1 .. f.edge - 1
    BY <1>6, <1>12 DEF Through
  <2>2. ~Crosses(x, v, left, walls[i])
    BY <1>1, <1>3, <1>4, <1>9, <2>1
  <2> QED BY <1>11, <2>2 DEF Crosses
<1>14. \A i \in 1 .. L : walls[i] \in Int
  BY <1>12
<1>15. (v > 0 => m >= 0) /\ (v < 0 => m <= 0) /\ (v > 0 \/ v < 0) /\ p - m < Ticks /\ m - p < Ticks
  <2>1. v > 0 \/ v < 0
    BY <1>1, <1>4
  <2>2. /\ v > 0 => 0 <= Flight(v, left)
        /\ v < 0 => Flight(v, left) <= 0
        /\ v * left - Flight(v, left) < Ticks /\ Flight(v, left) - v * left < Ticks
    BY FlightIs
  <2> QED BY <1>10, <1>11, <2>1, <2>2
<1>16. PICK i \in 1 .. L : walls[i] < x \/ (walls[i] = x /\ v > 0)
  BY <1>1, <1>3, <1>4, <1>12 DEF Inside
<1>17. PICK j \in 1 .. L : x < walls[j] \/ (walls[j] = x /\ v < 0)
  BY <1>1, <1>3, <1>4, <1>12 DEF Inside
<1>18. walls[i] <= x + m
  BY <1>13, <1>14, <1>15, <1>16
<1>19. x + m <= walls[j]
  BY <1>13, <1>14, <1>15, <1>17
<1>20. walls[i] - Ticks < x + p /\ x + p < walls[j] + Ticks
  BY <1>2, <1>14, <1>15, <1>18, <1>19
<1>21. Nearly(walls, x + p)
  BY <1>12, <1>20 DEF Nearly
<1> QED BY <1>3, <1>4, <1>9, <1>10, <1>21

\* A turn leaves numbers for the place and the speed, and ends nearly inside when it
\* begins inside.
LEMMA TurnStraysLittle ==
  ASSUME walls \in Seq(Int), NEW t \in Elapsed, ball.x \in Int, ball.v \in Int, ball.v # 0
  PROVE  /\ Flown(t).x \in Int /\ Flown(t).v \in Int /\ Flown(t).v # 0
         /\ Inside(walls, ball.x, ball.v) => Nearly(walls, Flown(t).x)
<1>1. Ticks \in Nat \ {0} /\ t \in 1 .. Ticks /\ Len(walls) \in Nat
  BY TicksArePositive
<1>2. PICK f : f = [edge |-> 1, x |-> ball.x, v |-> ball.v, d |-> 0]
  OBVIOUS
<1>3. f \in Flights /\ f.edge = 1 /\ f.x = ball.x /\ f.v = ball.v /\ f.d = 0
  BY <1>2 DEF Flights
<1>4. PICK V \in Nat : V = Abs(f.v)
  BY <1>3, AbsIs
<1>5. PICK n \in Nat : n = Ticks * V
  BY <1>1
<1>6. PICK l \in Nat : l = Len(walls)
  BY <1>1
<1>7. PICK in \in BOOLEAN : in = Inside(walls, ball.x, ball.v)
  BY DEF Inside
<1>8. OnTheWay(f, t, in)
  <2>1. f.d <= Ticks * Abs(f.v) /\ f.edge <= Len(walls) + 1 /\ f.v # 0
    BY <1>3, <1>4, <1>5, <1>6
  <2>2. 1 .. f.edge - 1 = {}
    BY <1>3
  <2>3. in => Inside(walls, f.x, f.v)
    BY <1>3, <1>7
  <2> QED BY <1>3, <2>1, <2>2, <2>3 DEF OnTheWay
<1>9. LooksLeft(f) <= MostLooks(f.v)
  <2>1. LooksLeft(f) = (n - 0) * (l + 1) + (l + 1 - 1)
    BY <1>3, <1>4, <1>5, <1>6 DEF LooksLeft
  <2>2. MostLooks(f.v) = n * (l + 1) + l
    BY <1>4, <1>5, <1>6 DEF MostLooks
  <2>3. n - 0 = n /\ l + 1 - 1 = l /\ n * (l + 1) + l \in Int
    OBVIOUS
  <2>4. LooksLeft(f) = n * (l + 1) + l
    BY <2>1, <2>3
  <2> QED BY <2>2, <2>3, <2>4
<1>10. PICK g : g = LoopEnd(f, t)
  OBVIOUS
<1>11. OnTheWay(g, t, in) /\ Through(g)
  BY <1>1, <1>8, <1>9, <1>10, LoopEnds
<1>12. Flown(t) = [x |-> g.x + g.v * Remaining(g, t), v |-> g.v]
  BY <1>2, <1>10 DEF Flown
<1>13. Flown(t).x = g.x + g.v * Remaining(g, t) /\ Flown(t).v = g.v
  BY <1>12
<1>14. in => Nearly(walls, Flown(t).x)
  <2> SUFFICES ASSUME in PROVE Nearly(walls, Flown(t).x)
    OBVIOUS
  <2>1. OnTheWay(g, t, TRUE)
    BY <1>11 DEF OnTheWay
  <2> QED BY <1>1, <1>11, <1>13, <2>1, RestStraysLittle
<1>15. g.v # 0 /\ g \in Flights /\ g.d <= Ticks * Abs(g.v)
  BY <1>11 DEF OnTheWay
<1>16. g.v \in Int /\ g.x \in Int /\ Remaining(g, t) \in Int
  <2>1. g.v \in Int /\ g.x \in Int /\ g.d \in Nat
    BY <1>15 DEF Flights
  <2>2. PICK W \in Nat \ {0} : W = Abs(g.v)
    BY <1>15, <2>1, AbsIs
  <2>3. PICK d \in Nat : d = g.d
    BY <2>1
  <2>4. Left(t, d, W) \in Nat
    BY <1>1, <1>15, <2>2, <2>3, RemainingIs
  <2> QED BY <2>1, <2>2, <2>3, <2>4 DEF Remaining
<1>17. g.x + g.v * Remaining(g, t) \in Int
  BY <1>16
<1> QED BY <1>7, <1>13, <1>14, <1>15, <1>16, <1>17

\* What the ball and the edges are
BallInv ==
  /\ walls \in Seq(Int)
  /\ ball = [id |-> ball.id, known |-> ball.known, x |-> ball.x, v |-> ball.v]
  /\ Valid => ball.x \in Int /\ ball.v \in Int /\ ball.v # 0

LEMMA SpeedsAreNotZero ==
  ASSUME NEW s \in Speeds, NEW d \in {-1, 1}
  PROVE  s * d \in Int /\ s * d # 0
BY PongAssumption DEF PongAssumption

\* A turn that finds the ball and the edges as they are
LEMMA TurnIs ==
  ASSUME BallInv, NEW t \in Elapsed, UpdateBall(t)
  PROVE  BallInv' /\ (Valid /\ Inside(walls, ball.x, ball.v) /\ Valid' => Nearly(walls, ball'.x))
<1>1. walls \in Seq(Int) /\ walls' = walls
      /\ ball = [id |-> ball.id, known |-> ball.known, x |-> ball.x, v |-> ball.v]
  BY DEF BallInv, UpdateBall
<1>2. CASE ~Valid
  <2>1. ball' = ball
    BY <1>2 DEF UpdateBall
  <2> QED BY <1>1, <1>2, <2>1 DEF BallInv, Valid
<1>3. CASE Valid
  <2>1. PICK flown : flown = Flown(t)
    OBVIOUS
  <2>2. PICK dist : dist = Abs(MyPlace * Ticks - flown.x) \div Ticks
    OBVIOUS
  <2>3. ball' = IF dist > FarAway
                THEN [ball EXCEPT !.id = Dead, !.known = FALSE, !.v = flown.v]
                ELSE [ball EXCEPT !.x = flown.x, !.v = flown.v]
    BY <1>3, <2>1, <2>2 DEF UpdateBall
  <2>4. CASE dist > FarAway
    <3>1. ball' = [id |-> Dead, known |-> FALSE, x |-> ball.x, v |-> flown.v]
      BY <1>1, <2>3, <2>4
    <3>2. ball'.known = FALSE /\ ball'.id = Dead /\ ball'.x = ball.x /\ ball'.v = flown.v
      BY <3>1
    <3>3. ~Valid'
      BY <3>2 DEF Valid
    <3> QED BY <1>1, <3>1, <3>2, <3>3 DEF BallInv
  <2>5. CASE ~(dist > FarAway)
    <3>1. ball' = [id |-> ball.id, known |-> ball.known, x |-> flown.x, v |-> flown.v]
      BY <1>1, <2>3, <2>5
    <3>2. /\ ball'.known = ball.known /\ ball'.id = ball.id
          /\ ball'.x = flown.x /\ ball'.v = flown.v
      BY <3>1
    <3>3. ball' = [id |-> ball'.id, known |-> ball'.known, x |-> ball'.x, v |-> ball'.v]
      BY <3>1, <3>2
    <3>4. /\ flown.x \in Int /\ flown.v \in Int /\ flown.v # 0
          /\ Inside(walls, ball.x, ball.v) => Nearly(walls, flown.x)
      <4>1. ball.x \in Int /\ ball.v \in Int /\ ball.v # 0
        BY <1>3 DEF BallInv
      <4> QED BY <1>1, <2>1, <4>1, TurnStraysLittle
    <3> QED BY <1>1, <3>2, <3>3, <3>4 DEF BallInv
  <2> QED BY <2>4, <2>5
<1> QED BY <1>2, <1>3

LEMMA BallStep == BallInv /\ [PongBallNext]_pongVars => BallInv'
<1> SUFFICES ASSUME BallInv, [PongBallNext]_pongVars PROVE BallInv'
  OBVIOUS
<1>1. walls \in Seq(Int) /\ ball = [id |-> ball.id, known |-> ball.known, x |-> ball.x, v |-> ball.v]
  BY DEF BallInv
<1>2. ASSUME UNCHANGED <<ball, walls>> PROVE BallInv'
  BY <1>2 DEF BallInv, Valid
<1>3. CASE SlotBegins \/ Prepare \/ SendLater \/ SendNow \/ UNCHANGED pongVars
  BY <1>2, <1>3 DEF SlotBegins, Prepare, SendLater, SendNow, pongVars
<1>4. CASE EdgesRebuilt
  <2>1. walls' \in Seq(Int) /\ ball' = ball
    BY <1>4, PongAssumption DEF EdgesRebuilt, PongAssumption
  <2> QED BY <2>1 DEF BallInv, Valid
<1>5. ASSUME NEW m \in Reports, HandleBallMsg(m) PROVE BallInv'
  <2>1. walls' = walls
    BY <1>5 DEF HandleBallMsg
  <2>2. CASE Late(m)
    BY <1>2, <1>5, <2>1, <2>2 DEF HandleBallMsg
  <2>3. CASE ~Late(m)
    <3>1. ball' = [id |-> m.id, known |-> TRUE, x |-> m.x * Ticks, v |-> m.v]
      BY <1>5, <2>3 DEF HandleBallMsg
    <3>2. m.x \in Reported /\ \E s \in Speeds, d \in {-1, 1} : m.v = s * d
      BY DEF Reports
    <3>3. PICK p \in Int : p = m.x * Ticks
      <4>1. Reported \subseteq Int /\ Ticks \in Int /\ m.x \in Reported
        BY <3>2, PongAssumption DEF PongAssumption
      <4>2. PICK x \in Int : x = m.x
        BY <4>1
      <4>3. PICK k \in Int : k = Ticks
        BY <4>1
      <4>4. x * k \in Int
        OBVIOUS
      <4> QED BY <4>2, <4>3, <4>4
    <3>4. PICK w \in Int : w = m.v /\ w # 0
      BY <3>2, SpeedsAreNotZero
    <3>5. ball'.x = p /\ ball'.v = w
      BY <3>1, <3>3, <3>4
    <3>6. ball' = [id |-> ball'.id, known |-> ball'.known, x |-> ball'.x, v |-> ball'.v]
      BY <3>1
    <3> QED BY <1>1, <2>1, <3>4, <3>5, <3>6 DEF BallInv
  <2> QED BY <2>2, <2>3
<1>6. ASSUME NEW s \in Speeds, NEW d \in {-1, 1}, Launch(s * d) PROVE BallInv'
  <2>1. walls' = walls /\ ball' = [id |-> Alive, known |-> TRUE, x |-> MyPlace * Ticks, v |-> s * d]
    BY <1>6 DEF Launch
  <2>2. PICK w \in Int : w = s * d /\ w # 0
    BY SpeedsAreNotZero
  <2>3. PICK p \in Int : p = MyPlace * Ticks
    BY PongAssumption DEF PongAssumption
  <2>4. ball'.x = p /\ ball'.v = w
    BY <2>1, <2>2, <2>3
  <2>5. ball' = [id |-> ball'.id, known |-> ball'.known, x |-> ball'.x, v |-> ball'.v]
    BY <2>1
  <2> QED BY <1>1, <2>1, <2>2, <2>4, <2>5 DEF BallInv
<1>7. CASE Kill
  <2>1. walls' = walls /\ ball' = [ball EXCEPT !.id = Dead]
    BY <1>7 DEF Kill
  <2>2. ball' = [id |-> Dead, known |-> ball.known, x |-> ball.x, v |-> ball.v]
    BY <1>1, <2>1
  <2>3. ball'.id = Dead /\ ball' = [id |-> ball'.id, known |-> ball'.known, x |-> ball'.x, v |-> ball'.v]
    BY <2>2
  <2>4. ~Valid'
    BY <2>3 DEF Valid
  <2> QED BY <1>1, <2>1, <2>3, <2>4 DEF BallInv
<1>8. CASE \E t \in Elapsed : UpdateBall(t)
  BY <1>8, TurnIs
<1> QED BY <1>3, <1>4, <1>5, <1>6, <1>7, <1>8 DEF PongBallNext

\* Whatever the edges, their order in the list, the place and the speed of the ball
\* and the length of the turn, a turn of updateBall that begins with the ball between
\* the edges ends with it less than a millimetre past them: the search starts again
\* after each bounce, and ends when no edge is crossed by what checkBounce looks at.
THEOREM BallDoesStrayLittle == PongSpec => BallStraysLittle
<1>1. PongInit => BallInv
  BY DEF PongInit, BallInv, Valid
<1>2. ASSUME BallInv, NEW t \in Elapsed
      PROVE  UpdateBall(t) /\ Valid /\ Inside(walls, ball.x, ball.v) /\ Valid' => Nearly(walls, ball'.x)
  BY <1>2, TurnIs
<1>3. BallInv
      => [\A t \in Elapsed :
            UpdateBall(t) /\ Valid /\ Inside(walls, ball.x, ball.v) /\ Valid' => Nearly(walls, ball'.x)]_pongVars
  BY <1>2
<1> QED BY <1>1, <1>3, BallStep, PTL DEF PongSpec, BallStraysLittle

-----------------------------------------------------------------------------
(* Mouse and keyboard                                                      *)

KeyEvents == [time : Int, src : Others \cup {Me, "delta", "nobody"}, button : Buttons]

KeyTypeOK ==
  /\ now \in Int /\ lastTurn \in Int /\ frameStart \in Int
  /\ loopID \in Int /\ prevLoopID \in Int
  /\ myButton \in Buttons
  /\ eventLog \in [1 .. LogSize -> KeyEvents]
  /\ followed \in Seq(KeyEvents)
  /\ start \in [button : Buttons, settled : BOOLEAN, at : Nat, ticks : Nat, presses : Nat,
                messages : Nat, commands : Nat, roles : Nat]

\* The loop is never more than a turn behind, nor a frame.
Timely ==
  /\ frameStart <= lastTurn /\ lastTurn <= now /\ now - lastTurn <= LongestTurn
  /\ lastTurn - frameStart <= FrameLength
  /\ loopID # NoSlot => loopID \in 0 .. Slots /\ SlotLength * loopID <= lastTurn - frameStart
  /\ prevLoopID \in 0 .. Slots

\* What was followed lies before the slot of the last turn and, for a mouse, before
\* the slot in which it asked last.
Behind ==
  \A k \in DOMAIN followed :
    /\ loopID # NoSlot /\ followed[k].time <= frameStart + SlotLength * loopID
    /\ Role = "mouse" => followed[k].time <= frameStart + SlotLength * prevLoopID

KeyInv ==
  /\ KeyTypeOK
  /\ start.settled => myButton # "unknown" /\ Timely /\ Behind /\ Once

----------------------------------------------------------------------------
\* The constants, one by one.
LEMMA KeyConstants ==
  /\ Multipress \in Nat \ {0} /\ SlotLength \in Nat \ {0} /\ Slots \in Nat \ {0}
  /\ LogSize \in Nat \ {0} /\ LongestTurn \in Nat \ {0}
  /\ FrameLength = SlotLength * Slots /\ FrameLength \in Nat
  /\ FrameLength < Word /\ LongestTurn <= FrameLength /\ Word \in Nat \ {0}
<1>1. /\ Multipress \in Nat \ {0} /\ SlotLength \in Nat \ {0} /\ Slots \in Nat \ {0}
      /\ LogSize \in Nat \ {0} /\ LongestTurn \in Nat \ {0}
  BY KeyAssumption DEF KeyAssumption
<1> QED BY <1>1, KeyAssumption DEF KeyAssumption, FrameLength, Word

\* Slots begin one after another.
LEMMA SlotsApart ==
  ASSUME NEW s \in Nat \ {0}, NEW a \in Int, NEW b \in Int, a < b
  PROVE  s * a \in Int /\ s * b \in Int /\ s * a + s <= s * b
<1>1. PICK e : e = b - 1 - a /\ e \in Nat
  OBVIOUS
<1>2. s * b = s * a + s + s * e
  <2>1. b = a + 1 + e
    BY <1>1
  <2> QED BY <1>1, <2>1
<1>3. s * e \in Nat /\ s * a \in Int
  BY <1>1
<1> QED BY <1>2, <1>3

\* The frame and the slot of a turn of the loop
LEMMA SlotFacts ==
  ASSUME KeyTypeOK, Timely
  PROVE  /\ Frame \in Int /\ Slot \in 0 .. Slots
         /\ Frame <= now /\ now - Frame <= FrameLength
         /\ SlotLength * Slot \in Int /\ SlotLength * Slot <= now - Frame
         /\ now - Frame < SlotLength * Slot + SlotLength
         /\ Frame = frameStart \/ Frame = frameStart + FrameLength
<1>1. now \in Int /\ frameStart \in Int /\ lastTurn \in Int
  BY DEF KeyTypeOK
<1>2. /\ Frame \in Int /\ Frame <= now /\ now - Frame <= FrameLength
      /\ Frame = frameStart \/ Frame = frameStart + FrameLength
  BY <1>1, KeyConstants DEF Timely, Frame, FrameOver
<1>3. PICK f : f = Frame
  OBVIOUS
<1>4. PICK q : q = (now - f) \div SlotLength
  OBVIOUS
<1>5. PICK r : r = (now - f) % SlotLength
  OBVIOUS
<1>6. q \in Int /\ r \in 0 .. SlotLength - 1 /\ now - f = (SlotLength * q) + r
  <2>1. now - f \in Int
    BY <1>1, <1>2, <1>3
  <2> QED BY <2>1, <1>4, <1>5, KeyConstants, DivMod
<1>7. SlotLength * q \in Int
  BY <1>6, KeyConstants
<1>8. q >= 0
  <2> SUFFICES ASSUME q < 0 PROVE FALSE
    BY <1>6
  <2>1. SlotLength * q + SlotLength <= SlotLength * 0
    BY <1>6, KeyConstants, SlotsApart
  <2> QED BY <2>1, <1>1, <1>2, <1>3, <1>6, <1>7, KeyConstants
<1>9. q <= Slots
  <2> SUFFICES ASSUME Slots < q PROVE FALSE
    BY <1>6, KeyConstants
  <2>1. SlotLength * Slots + SlotLength <= SlotLength * q /\ SlotLength * Slots \in Int
    BY <1>6, KeyConstants, SlotsApart
  <2> QED BY <2>1, <1>1, <1>2, <1>3, <1>6, <1>7, KeyConstants
<1>10. Slot = q
  BY <1>3, <1>4 DEF Slot
<1>11. Slot \in 0 .. Slots
  BY <1>6, <1>8, <1>9, <1>10, KeyConstants
<1>12. SlotLength * q <= now - f /\ now - f < SlotLength * q + SlotLength
  BY <1>1, <1>2, <1>3, <1>6, <1>7, KeyConstants
<1> QED BY <1>2, <1>3, <1>7, <1>10, <1>11, <1>12

\* The product of a slot of the frame keeps within 16 bits; one less than 0 does
\* not, and lies beyond.
LEMMA OffsetFacts ==
  /\ \A s \in 0 .. Slots : Offset(s) = SlotLength * s
  /\ Offset(0) = 0
  /\ Offset(-1) \in Nat
<1>1. ASSUME NEW s \in 0 .. Slots PROVE Offset(s) = SlotLength * s
  <2>1. SlotLength * s \in Nat /\ SlotLength * s <= FrameLength
    <3>1. s \in Int /\ SlotLength * s \in Nat
      BY KeyConstants
    <3>2. CASE s = Slots
      BY <3>1, <3>2, KeyConstants
    <3>3. CASE s < Slots
      <4>1. SlotLength * s + SlotLength <= SlotLength * Slots
        BY <3>1, <3>3, KeyConstants, SlotsApart
      <4> QED BY <3>1, <4>1, KeyConstants
    <3> QED BY <3>2, <3>3, KeyConstants
  <2> DEFINE p == SlotLength * s
  <2>2. p \in 0 .. Word - 1
    BY <2>1, KeyConstants
  <2> HIDE DEF p
  <2>3. p % Word = p
    <3>1. 0 * Word + p = p
      BY <2>2, KeyConstants
    <3>2. (0 * Word + p) % Word = p
      BY <2>2, KeyConstants, RemainderIs
    <3> QED BY <3>1, <3>2
  <2> QED BY <2>3 DEF Offset, p
<1>2. Offset(0) = 0
  <2>1. 0 \in 0 .. Slots /\ SlotLength * 0 = 0
    BY KeyConstants
  <2> QED BY <1>1, <2>1
<1>3. Offset(-1) \in Nat
  <2> DEFINE p == SlotLength * (-1)
  <2>1. p \in Int
    BY KeyConstants
  <2> HIDE DEF p
  <2>2. p % Word \in 0 .. Word - 1
    BY <2>1, KeyConstants, DivMod
  <2> QED BY <2>2, KeyConstants DEF Offset, p
<1> QED BY <1>1, <1>2, <1>3

\* An event that is found lies in the window.
LEMMA EventFound ==
  ASSUME eventLog \in [1 .. LogSize -> KeyEvents], NEW lo \in Int, NEW hi \in Int,
         NEW e, e = checkForEvent(lo, hi), e.button # "unknown"
  PROVE  e \in KeyEvents /\ lo < e.time /\ e.time <= hi
<1> DEFINE found == {i \in 1 .. LogSize : lo < eventLog[i].time /\ eventLog[i].time <= hi}
<1>1. found # {}
  BY DEF checkForEvent, NoEvent
<1>2. found \in SUBSET Nat
  OBVIOUS
<1>3. \E i \in found : \A j \in found : i <= j
  BY <1>1, <1>2, LeastNatural
<1>4. PICK i : i = CHOOSE n \in found : \A j \in found : n <= j
  OBVIOUS
<1>5. i \in found
  BY <1>3, <1>4
<1>6. e = eventLog[i]
  BY <1>1, <1>4 DEF checkForEvent
<1> QED BY <1>5, <1>6

\* addEvent keeps a log a log.
LEMMA LogType ==
  ASSUME NEW log \in [1 .. LogSize -> KeyEvents], NEW e \in KeyEvents
  PROVE  addEvent(log, e) \in [1 .. LogSize -> KeyEvents]
<1>1. \A i : [log EXCEPT ![i] = e] \in [1 .. LogSize -> KeyEvents]
  OBVIOUS
<1>2. LogWith(log, e) \in [1 .. LogSize -> KeyEvents]
  BY <1>1 DEF LogWith
<1> QED BY <1>2 DEF addEvent

----------------------------------------------------------------------------
\* A turn that takes nothing from the log, or one event of a window that begins
\* where those before have ended.
LEMMA TakeNext ==
  ASSUME followed \in Seq(KeyEvents), Once,
         NEW e \in KeyEvents, \A k \in DOMAIN followed : followed[k].time < e.time,
         followed' = Append(followed, e)
  PROVE  /\ followed' \in Seq(KeyEvents) /\ Once'
         /\ \A k \in DOMAIN followed' : followed'[k] = e \/ \E i \in DOMAIN followed : followed'[k] = followed[i]
<1>1. /\ followed' \in Seq(KeyEvents)
      /\ DOMAIN followed = 1 .. Len(followed) /\ Len(followed) \in Nat
      /\ DOMAIN followed' = 1 .. Len(followed) + 1
      /\ \A k \in 1 .. Len(followed) : followed'[k] = followed[k]
      /\ followed'[Len(followed) + 1] = e
  BY AppendProperties, LenProperties
<1>2. \A k \in DOMAIN followed : followed[k] \in KeyEvents /\ followed[k] # e
  <2>1. ASSUME NEW k \in DOMAIN followed PROVE followed[k] \in KeyEvents /\ followed[k] # e
    <3>1. followed[k] \in KeyEvents
      BY <1>1, ElementOfSeq
    <3>2. followed[k].time < e.time /\ e.time \in Int
      BY DEF KeyEvents
    <3> QED BY <3>1, <3>2
  <2> QED BY <2>1
<1>3. \A k \in DOMAIN followed' : k = Len(followed) + 1 \/ k \in DOMAIN followed
  BY <1>1
<1>4. Once'
  BY <1>1, <1>2, <1>3 DEF Once
<1> QED BY <1>1, <1>3, <1>4

\* What was followed are events.
LEMMA TimesAreTimes ==
  ASSUME KeyTypeOK
  PROVE  \A k \in DOMAIN followed : followed[k].time \in Int
<1> SUFFICES ASSUME NEW k \in DOMAIN followed PROVE followed[k].time \in Int
  OBVIOUS
<1>1. followed \in Seq(KeyEvents)
  BY DEF KeyTypeOK
<1>2. DOMAIN followed = 1 .. Len(followed) /\ Len(followed) \in Nat
  BY <1>1, LenProperties
<1>3. followed[k] \in KeyEvents
  BY <1>1, <1>2, ElementOfSeq
<1> QED BY <1>3 DEF KeyEvents

\* The slot that was current comes to lie before the one that begins.
LEMMA SlotsMoveOn ==
  ASSUME KeyTypeOK, Timely, loopID # NoSlot
  PROVE  /\ frameStart + SlotLength * loopID <= Frame + SlotLength * Slot
         /\ Slot # loopID /\ Slot # 0 =>
              frameStart + SlotLength * loopID <= Frame + SlotLength * (Slot - 1)
<1>1. PICK F : F = Frame
  OBVIOUS
<1>2. PICK S : S = Slot
  OBVIOUS
<1>3. /\ F \in Int /\ S \in 0 .. Slots /\ S \in Int /\ F <= now
      /\ SlotLength * S \in Int /\ now - F < SlotLength * S + SlotLength
      /\ F = frameStart \/ F = frameStart + FrameLength
  BY <1>1, <1>2, SlotFacts, KeyConstants
<1>4. now \in Int /\ frameStart \in Int /\ lastTurn \in Int /\ loopID \in Int
  BY DEF KeyTypeOK
<1>5. /\ lastTurn <= now /\ lastTurn - frameStart <= FrameLength
      /\ SlotLength * loopID <= lastTurn - frameStart
  BY DEF Timely
<1>6. SlotLength * loopID \in Int
  BY <1>4, KeyConstants
<1>7. CASE F = frameStart
  <2>1. loopID <= S
    <3> SUFFICES ASSUME S < loopID PROVE FALSE
      BY <1>3, <1>4
    <3>1. SlotLength * S + SlotLength <= SlotLength * loopID
      BY <1>3, <1>4, KeyConstants, SlotsApart
    <3> QED BY <3>1, <1>3, <1>4, <1>5, <1>6, <1>7, KeyConstants
  <2>2. CASE loopID = S
    BY <2>2, <1>1, <1>2, <1>3, <1>4, <1>7
  <2>3. CASE loopID < S
    <3>1. SlotLength * loopID + SlotLength <= SlotLength * S
      BY <2>3, <1>3, <1>4, KeyConstants, SlotsApart
    <3>2. SlotLength * loopID <= SlotLength * (S - 1) /\ SlotLength * (S - 1) \in Int
      <4>1. S - 1 \in Int /\ SlotLength * (S - 1) \in Int
        BY <1>3, KeyConstants
      <4>2. CASE loopID = S - 1
        BY <4>1, <4>2
      <4>3. CASE loopID < S - 1
        <5>1. SlotLength * loopID + SlotLength <= SlotLength * (S - 1)
          BY <4>1, <4>3, <1>4, KeyConstants, SlotsApart
        <5> QED BY <5>1, <4>1, <1>6, KeyConstants
      <4> QED BY <4>2, <4>3, <2>3, <1>3, <1>4
    <3> QED BY <3>1, <3>2, <1>1, <1>2, <1>3, <1>4, <1>6, <1>7, KeyConstants
  <2> QED BY <2>1, <2>2, <2>3, <1>3, <1>4
<1>8. CASE F = frameStart + FrameLength
  <2>1. frameStart + SlotLength * loopID <= F
    BY <1>4, <1>5, <1>6, <1>8, KeyConstants
  <2>2. SlotLength * S \in Nat /\ (S # 0 => SlotLength * (S - 1) \in Nat)
    BY <1>3, KeyConstants
  <2> QED BY <2>1, <2>2, <1>1, <1>2, <1>3, <1>4, <1>6
<1> QED BY <1>3, <1>7, <1>8

\* The window that a turn asks for ends with the slot, and begins after all that
\* was followed before.
LEMMA WindowsApart ==
  ASSUME KeyTypeOK, Timely, Behind, Role # "unknown", loopID # Slot,
         NEW w, w = IF Role = "keyboard" THEN Window(Slot) ELSE <<prevLoopID, Slot>>,
         NEW lo, lo = Frame + Offset(w[1]), NEW hi, hi = Frame + Offset(w[2])
  PROVE  /\ lo \in Int /\ hi \in Int /\ hi = Frame + SlotLength * Slot
         /\ lo < hi => \A k \in DOMAIN followed : followed[k].time <= lo
<1>1. /\ Frame \in Int /\ Slot \in 0 .. Slots /\ SlotLength * Slot \in Int
      /\ Frame = frameStart \/ Frame = frameStart + FrameLength
  BY SlotFacts
<1>2. w[2] = Slot /\ Offset(Slot) = SlotLength * Slot
  BY <1>1, OffsetFacts DEF Window
<1>3. hi = Frame + SlotLength * Slot /\ hi \in Int
  BY <1>1, <1>2
<1>4. \A k \in DOMAIN followed : followed[k].time \in Int
  BY TimesAreTimes
<1>5. CASE Role = "keyboard"
  <2>1. w[1] = Slot - 1
    BY <1>5 DEF Window
  <2>2. CASE Slot = 0
    <3>1. lo = Frame + Offset(-1) /\ Offset(-1) \in Nat
      BY <2>1, <2>2, OffsetFacts
    <3>2. hi = Frame
      BY <1>1, <1>2, <1>3, <2>2, OffsetFacts
    <3> QED BY <1>1, <1>3, <3>1, <3>2
  <2>3. CASE Slot # 0
    <3>1. lo = Frame + SlotLength * (Slot - 1) /\ SlotLength * (Slot - 1) \in Int
      <4>1. Slot - 1 \in 0 .. Slots
        BY <1>1, <2>3, KeyConstants
      <4>2. Offset(Slot - 1) = SlotLength * (Slot - 1)
        BY <4>1, OffsetFacts
      <4>3. SlotLength * (Slot - 1) \in Int
        BY <4>1, KeyConstants
      <4> QED BY <2>1, <4>2, <4>3
    <3>2. \A k \in DOMAIN followed : followed[k].time <= lo
      <4> SUFFICES ASSUME NEW k \in DOMAIN followed PROVE followed[k].time <= lo
        OBVIOUS
      <4>1. loopID # NoSlot /\ followed[k].time <= frameStart + SlotLength * loopID
        BY DEF Behind
      <4>2. frameStart + SlotLength * loopID <= lo
        BY <4>1, <2>3, <3>1, SlotsMoveOn
      <4>3. frameStart + SlotLength * loopID \in Int
        BY KeyConstants DEF KeyTypeOK
      <4> QED BY <4>1, <4>2, <4>3, <1>1, <1>4, <3>1
    <3> QED BY <1>1, <1>3, <3>1, <3>2
  <2> QED BY <2>2, <2>3
<1>6. CASE Role = "mouse"
  <2>1. prevLoopID \in 0 .. Slots /\ SlotLength * prevLoopID \in Int
    BY KeyConstants DEF Timely
  <2>2. lo = Frame + SlotLength * prevLoopID
    BY <1>6, <2>1, OffsetFacts
  <2>3. frameStart \in Int /\ frameStart + SlotLength * prevLoopID <= lo
    BY <1>1, <2>1, <2>2, KeyConstants DEF KeyTypeOK
  <2>4. \A k \in DOMAIN followed : followed[k].time <= lo
    BY <1>1, <1>4, <1>6, <2>1, <2>2, <2>3 DEF Behind
  <2> QED BY <1>1, <1>3, <2>1, <2>2, <2>4
<1> QED BY <1>5, <1>6 DEF Role

\* Following up takes the event, or nothing.
LEMMA FollowsOne ==
  ASSUME NEW e, FollowUp(e)
  PROVE  followed' = followed \/ (followed' = Append(followed, e) /\ e.button # "unknown")
BY DEF FollowUp

\* A turn of the loop of any droplet keeps the types.
LEMMA LoopType ==
  ASSUME KeyTypeOK, Loop
  PROVE  KeyTypeOK'
<1>1. PICK F : F = Frame
  OBVIOUS
<1>2. PICK S : S = Slot
  OBVIOUS
<1>3. /\ now \in Int /\ frameStart \in Int /\ prevLoopID \in Int
      /\ followed \in Seq(KeyEvents) /\ eventLog \in [1 .. LogSize -> KeyEvents]
  BY DEF KeyTypeOK
<1>4. F \in Int
  BY <1>1, <1>3, KeyConstants DEF Frame
<1>5. S \in Int
  BY <1>1, <1>2, <1>3, <1>4, KeyConstants, DivMod DEF Slot
<1>6. \A x \in Int : Offset(x) \in Int
  <2> SUFFICES ASSUME NEW x \in Int PROVE Offset(x) \in Int
    OBVIOUS
  <2>1. PICK p : p = SlotLength * x
    OBVIOUS
  <2>2. p \in Int
    BY <2>1, KeyConstants
  <2>3. p % Word \in 0 .. Word - 1
    BY <2>2, KeyConstants, DivMod
  <2> QED BY <2>1, <2>3, KeyConstants DEF Offset
<1>7. followed' \in Seq(KeyEvents)
  <2>1. CASE followed' = followed
    BY <1>3, <2>1
  <2>2. CASE followed' # followed
    <3>1. PICK w : w = IF Role = "keyboard" THEN Window(Slot) ELSE <<prevLoopID, Slot>>
      OBVIOUS
    <3>2. PICK lo : lo = Frame + Offset(w[1])
      OBVIOUS
    <3>3. PICK hi : hi = Frame + Offset(w[2])
      OBVIOUS
    <3>4. PICK e : e = checkForEvent(lo, hi)
      OBVIOUS
    <3>5. FollowUp(e)
      BY <2>2, <3>1, <3>2, <3>3, <3>4 DEF Loop
    <3>6. followed' = Append(followed, e) /\ e.button # "unknown"
      BY <2>2, <3>5, FollowsOne
    <3>7. w[1] \in Int /\ w[2] \in Int
      BY <1>2, <1>3, <1>5, <3>1 DEF Window
    <3>8. lo \in Int /\ hi \in Int
      BY <1>1, <1>4, <1>6, <3>2, <3>3, <3>7
    <3>9. e \in KeyEvents
      BY <1>3, <3>4, <3>6, <3>8, EventFound
    <3> QED BY <1>3, <3>6, <3>9, AppendProperties
  <2> QED BY <2>1, <2>2
<1>8. /\ lastTurn' = now /\ frameStart' = F /\ loopID' = S /\ UNCHANGED <<now, myButton, eventLog, start>>
      /\ prevLoopID' = prevLoopID \/ prevLoopID' = S
  BY <1>1, <1>2 DEF Loop
<1> QED BY <1>3, <1>4, <1>5, <1>7, <1>8 DEF KeyTypeOK

\* A turn of the loop of a droplet that kept its button
LEMMA LoopKeeps ==
  ASSUME KeyTypeOK, Timely, Behind, Once, Loop
  PROVE  KeyTypeOK' /\ Timely' /\ Behind' /\ Once'
<1>1. PICK F : F = Frame
  OBVIOUS
<1>2. PICK S : S = Slot
  OBVIOUS
<1>3. /\ lastTurn' = now /\ frameStart' = F /\ loopID' = S /\ Role # "unknown"
      /\ now' = now /\ myButton' = myButton /\ eventLog' = eventLog /\ start' = start
      /\ prevLoopID' = prevLoopID \/ prevLoopID' = S
  BY <1>1, <1>2 DEF Loop
<1>4. /\ F \in Int /\ S \in 0 .. Slots /\ F <= now /\ now - F <= FrameLength
      /\ SlotLength * S \in Int /\ SlotLength * S <= now - F
      /\ F = frameStart \/ F = frameStart + FrameLength
  BY <1>1, <1>2, SlotFacts
<1>5. now \in Int /\ frameStart \in Int /\ loopID \in Int /\ prevLoopID \in 0 .. Slots
  BY DEF KeyTypeOK, Timely
<1>6. Timely'
  <2>1. /\ frameStart' <= lastTurn' /\ lastTurn' <= now' /\ now' - lastTurn' <= LongestTurn
        /\ lastTurn' - frameStart' <= FrameLength
    BY <1>3, <1>4, <1>5, KeyConstants
  <2>2. loopID' \in 0 .. Slots /\ SlotLength * loopID' <= lastTurn' - frameStart'
    BY <1>3, <1>4
  <2>3. prevLoopID' \in 0 .. Slots
    BY <1>3, <1>4, <1>5
  <2> QED BY <2>1, <2>2, <2>3 DEF Timely
<1>7. \A k \in DOMAIN followed : /\ followed[k].time \in Int
                                /\ followed[k].time <= F + SlotLength * S
  <2> SUFFICES ASSUME NEW k \in DOMAIN followed
               PROVE  followed[k].time \in Int /\ followed[k].time <= F + SlotLength * S
    OBVIOUS
  <2>1. followed[k].time \in Int
    BY TimesAreTimes
  <2>2. loopID # NoSlot /\ followed[k].time <= frameStart + SlotLength * loopID
    BY DEF Behind
  <2>3. frameStart + SlotLength * loopID <= F + SlotLength * S
    BY <1>1, <1>2, <2>2, SlotsMoveOn
  <2>4. frameStart + SlotLength * loopID \in Int
    BY <1>5, KeyConstants
  <2> QED BY <1>4, <2>1, <2>2, <2>3, <2>4
<1>8. \A k \in DOMAIN followed : Role = "mouse" =>
        followed[k].time <= F + SlotLength * prevLoopID
  <2> SUFFICES ASSUME NEW k \in DOMAIN followed, Role = "mouse"
               PROVE  followed[k].time <= F + SlotLength * prevLoopID
    OBVIOUS
  <2>1. followed[k].time <= frameStart + SlotLength * prevLoopID
    BY DEF Behind
  <2>2. SlotLength * prevLoopID \in Int
    BY <1>5, KeyConstants
  <2> QED BY <1>4, <1>5, <1>7, <2>1, <2>2, KeyConstants
<1>9. loopID' # NoSlot /\ Role' = Role /\ F \in Int /\ S \in Int
  BY <1>3, <1>4 DEF NoSlot, Role
<1>10. ASSUME followed' = followed PROVE Behind' /\ Once'
  <2>1. Behind'
    <3> SUFFICES ASSUME NEW k \in DOMAIN followed
                 PROVE  /\ followed[k].time <= F + SlotLength * S
                        /\ Role = "mouse" => followed[k].time <= F + SlotLength * prevLoopID'
      BY <1>3, <1>9, <1>10 DEF Behind
    <3> QED BY <1>3, <1>7, <1>8
  <2>2. Once'
    BY <1>10 DEF Once
  <2> QED BY <2>1, <2>2
<1>11. ASSUME followed' # followed PROVE Behind' /\ Once'
  <2>1. PICK w : w = IF Role = "keyboard" THEN Window(Slot) ELSE <<prevLoopID, Slot>>
    OBVIOUS
  <2>2. PICK lo : lo = Frame + Offset(w[1])
    OBVIOUS
  <2>3. PICK hi : hi = Frame + Offset(w[2])
    OBVIOUS
  <2>4. PICK e : e = checkForEvent(lo, hi)
    OBVIOUS
  <2>5. /\ loopID # Slot /\ FollowUp(e)
        /\ prevLoopID' = IF Role = "mouse" THEN Slot ELSE prevLoopID
    BY <1>11, <2>1, <2>2, <2>3, <2>4 DEF Loop
  <2>6. followed' = Append(followed, e) /\ e.button # "unknown"
    BY <1>11, <2>5, FollowsOne
  <2>7. /\ lo \in Int /\ hi \in Int /\ hi = F + SlotLength * S
        /\ lo < hi => \A k \in DOMAIN followed : followed[k].time <= lo
    BY <1>1, <1>2, <1>3, <2>1, <2>2, <2>3, <2>5, WindowsApart
  <2>8. eventLog \in [1 .. LogSize -> KeyEvents] /\ followed \in Seq(KeyEvents)
    BY DEF KeyTypeOK
  <2>9. e \in KeyEvents /\ lo < e.time /\ e.time <= hi
    BY <2>4, <2>6, <2>7, <2>8, EventFound
  <2>10. e.time \in Int
    BY <2>9 DEF KeyEvents
  <2>11. \A k \in DOMAIN followed : followed[k].time < e.time
    BY <1>7, <2>7, <2>9, <2>10
  <2>12. /\ followed' \in Seq(KeyEvents) /\ Once'
         /\ \A k \in DOMAIN followed' :
              followed'[k] = e \/ \E i \in DOMAIN followed : followed'[k] = followed[i]
    BY <2>6, <2>8, <2>9, <2>11, TakeNext
  <2>13. Behind'
    <3> SUFFICES ASSUME NEW k \in DOMAIN followed'
                 PROVE  /\ followed'[k].time <= F + SlotLength * S
                        /\ Role = "mouse" => followed'[k].time <= F + SlotLength * S
      BY <1>2, <1>3, <1>9, <2>5 DEF Behind
    <3>1. CASE followed'[k] = e
      BY <2>7, <2>9, <3>1
    <3>2. CASE \E i \in DOMAIN followed : followed'[k] = followed[i]
      BY <1>7, <3>2
    <3> QED BY <2>12, <3>1, <3>2
  <2> QED BY <2>12, <2>13
<1> QED BY <1>6, <1>10, <1>11, LoopType

\* A step that leaves the loop, its button and what it followed alone, in time
LEMMA UnhurriedKeeps ==
  ASSUME KeyInv, eventLog' \in [1 .. LogSize -> KeyEvents],
         start' = start \/ \E what \in {"ticks", "presses", "messages", "commands"} : Spend(what),
         now' = now \/ (now' = now + 1 /\ now - lastTurn < LongestTurn),
         lastTurn' = lastTurn, frameStart' = frameStart, loopID' = loopID,
         prevLoopID' = prevLoopID, followed' = followed, myButton' = myButton
  PROVE  KeyInv'
<1>1. KeyTypeOK
  BY DEF KeyInv
<1> DEFINE Starts == [button : Buttons, settled : BOOLEAN, at : Nat, ticks : Nat,
                      presses : Nat, messages : Nat, commands : Nat, roles : Nat]
<1>2. start' \in Starts /\ start'.settled = start.settled
  <2>1. start \in Starts
    BY <1>1 DEF KeyTypeOK
  <2>2. ASSUME NEW what \in {"ticks", "presses", "messages", "commands"}, Spend(what)
        PROVE  start' \in Starts /\ start'.settled = start.settled
    <3>1. start[what] \in Nat /\ start[what] > 0
      BY <2>1, <2>2 DEF Spend
    <3>2. start' = [start EXCEPT ![what] = start[what] - 1]
      BY <2>2 DEF Spend
    <3>3. start[what] - 1 \in Nat
      BY <3>1
    <3> QED BY <2>1, <2>2, <3>2, <3>3
  <2> QED BY <2>1, <2>2
<1>3. now \in Int /\ lastTurn \in Int
  BY <1>1 DEF KeyTypeOK
<1>4. KeyTypeOK'
  BY <1>1, <1>2, <1>3 DEF KeyTypeOK
<1>5. ASSUME start.settled PROVE Timely' /\ Behind' /\ Once' /\ myButton' # "unknown"
  <2>1. Timely /\ Behind /\ Once /\ myButton # "unknown"
    BY <1>5 DEF KeyInv
  <2>2. Timely'
    BY <1>3, <2>1, KeyConstants DEF Timely
  <2>3. Role' = Role
    BY DEF Role
  <2>4. Behind'
    BY <2>1, <2>3 DEF Behind
  <2> QED BY <2>1, <2>2, <2>4 DEF Once
<1> QED BY <1>2, <1>4, <1>5 DEF KeyInv

\* Whatever is logged, the log stays one, and the loop's own state is left alone.
LEMMA LoggingKeeps ==
  ASSUME KeyInv,
         \/ Press
         \/ \E o \in Others, b \in {"key", "caps_on"}, p \in Phases : HandleButtonPressMsg(o, b, p)
         \/ \E p \in Phases : HandleMouseMoveMsg(p)
         \/ PressCommand
  PROVE  KeyInv'
<1>1. KeyTypeOK
  BY DEF KeyInv
<1>2. now \in Int /\ myButton \in Buttons /\ eventLog \in [1 .. LogSize -> KeyEvents]
  BY <1>1 DEF KeyTypeOK
<1>3. \A p \in Phases : Stamp(p) \in Int
  <2> SUFFICES ASSUME NEW p \in Phases PROVE Stamp(p) \in Int
    OBVIOUS
  <2>1. p \in Int /\ Multipress \in Nat \ {0}
    BY KeyConstants DEF Phases
  <2>2. now \div Multipress \in Int
    BY <1>2, <2>1, DivMod
  <2> QED BY <2>1, <2>2 DEF Stamp
<1>4. \E e \in KeyEvents : eventLog' = addEvent(eventLog, e)
  <2>1. ASSUME Press PROVE \E e \in KeyEvents : eventLog' = addEvent(eventLog, e)
    <3> DEFINE e == [time |-> now, src |-> Me, button |-> myButton]
    <3>1. e \in KeyEvents /\ eventLog' = addEvent(eventLog, e)
      BY <1>2, <2>1 DEF Press, KeyEvents
    <3> QED BY <3>1
  <2>2. ASSUME NEW o \in Others, NEW b \in {"key", "caps_on"}, NEW p \in Phases,
               HandleButtonPressMsg(o, b, p)
        PROVE  \E e \in KeyEvents : eventLog' = addEvent(eventLog, e)
    <3> DEFINE e == [time |-> Stamp(p), src |-> o, button |-> b]
    <3>1. e \in KeyEvents /\ eventLog' = addEvent(eventLog, e)
      BY <1>3, <2>2 DEF HandleButtonPressMsg, KeyEvents, Buttons
    <3> QED BY <3>1
  <2>3. ASSUME NEW p \in Phases, HandleMouseMoveMsg(p)
        PROVE  \E e \in KeyEvents : eventLog' = addEvent(eventLog, e)
    <3> DEFINE e == [time |-> Stamp(p), src |-> "delta", button |-> "move"]
    <3>1. e \in KeyEvents /\ eventLog' = addEvent(eventLog, e)
      BY <1>3, <2>3 DEF HandleMouseMoveMsg, KeyEvents, Buttons
    <3> QED BY <3>1
  <2>4. ASSUME PressCommand PROVE \E e \in KeyEvents : eventLog' = addEvent(eventLog, e)
    <3> DEFINE e == [time |-> now, src |-> Me, button |-> "key"]
    <3>1. e \in KeyEvents /\ eventLog' = addEvent(eventLog, e)
      BY <1>2, <2>4 DEF PressCommand, KeyEvents, Buttons
    <3> QED BY <3>1
  <2> QED BY <2>1, <2>2, <2>3, <2>4
<1>5. eventLog' \in [1 .. LogSize -> KeyEvents]
  BY <1>2, <1>4, LogType
<1>6. /\ now' = now /\ lastTurn' = lastTurn /\ frameStart' = frameStart /\ loopID' = loopID
      /\ prevLoopID' = prevLoopID /\ followed' = followed /\ myButton' = myButton
  BY DEF Press, HandleButtonPressMsg, HandleMouseMoveMsg, PressCommand, frameVars
<1>7. \E what \in {"presses", "messages", "commands"} : Spend(what)
  BY DEF Press, HandleButtonPressMsg, HandleMouseMoveMsg, PressCommand
<1> QED BY <1>1, <1>5, <1>6, <1>7, UnhurriedKeeps

\* Every step keeps the invariant.
LEMMA KeyStep == KeyInv /\ [KeyNext]_keyVars => KeyInv'
<1> SUFFICES ASSUME KeyInv, [KeyNext]_keyVars PROVE KeyInv'
  OBVIOUS
<1>1. KeyTypeOK /\ eventLog \in [1 .. LogSize -> KeyEvents]
  BY DEF KeyInv, KeyTypeOK
<1>2. CASE Tick
  BY <1>1, <1>2, UnhurriedKeeps DEF Tick, frameVars
<1>3. CASE Loop
  <2>1. start' = start /\ myButton' = myButton
    BY <1>3 DEF Loop
  <2>2. CASE start.settled
    BY <1>3, <2>1, <2>2, LoopKeeps DEF KeyInv
  <2>3. CASE ~start.settled
    BY <1>1, <1>3, <2>1, <2>3, LoopType DEF KeyInv
  <2> QED BY <2>2, <2>3
<1>4. ASSUME NEW b \in {"key", "left"}, CheckPosition(b) PROVE KeyInv'
  <2>1. myButton = "unknown"
    BY <1>4 DEF CheckPosition, Role
  <2>2. ~start.settled /\ start' = start
    BY <1>4, <2>1 DEF KeyInv, CheckPosition
  <2>3. KeyTypeOK'
    BY <1>1, <1>4 DEF KeyTypeOK, CheckPosition, Buttons
  <2> QED BY <2>2, <2>3 DEF KeyInv
<1>5. CASE \/ \E m \in waiting : SendAgain(m)
           \/ WireSleep
  BY <1>1, <1>5, UnhurriedKeeps DEF SendAgain, WireSleep, frameVars
<1>6. CASE \/ Press
           \/ \E o \in Others, b \in {"key", "caps_on"}, p \in Phases : HandleButtonPressMsg(o, b, p)
           \/ \E p \in Phases : HandleMouseMoveMsg(p)
           \/ PressCommand
  BY <1>6, LoggingKeeps
<1>7. CASE Wake
  BY <1>1, <1>7, UnhurriedKeeps DEF Wake, frameVars
<1>8. ASSUME NEW b \in {"key", "right"}, SetRole(b) PROVE KeyInv'
  <2> DEFINE Starts == [button : Buttons, settled : BOOLEAN, at : Nat, ticks : Nat,
                        presses : Nat, messages : Nat, commands : Nat, roles : Nat]
  <2>1. start \in Starts /\ start.roles \in Nat /\ start.roles > 0
    BY <1>1, <1>8 DEF KeyTypeOK, SetRole
  <2>2. start.roles - 1 \in Nat /\ FALSE \in BOOLEAN
    BY <2>1
  <2>3. start' \in Starts /\ start'.settled = FALSE
    <3>1. start' = [start EXCEPT !.roles = start.roles - 1, !.settled = FALSE]
      BY <1>8 DEF SetRole
    <3>2. PICK s : s = [start EXCEPT !.roles = start.roles - 1]
      OBVIOUS
    <3>3. s \in Starts
      BY <2>1, <2>2, <3>2
    <3>4. start' = [s EXCEPT !.settled = FALSE]
      BY <2>1, <3>1, <3>2
    <3> QED BY <2>2, <3>3, <3>4
  <2>4. KeyTypeOK'
    BY <1>1, <1>8, <2>3 DEF KeyTypeOK, SetRole, frameVars, Buttons
  <2> QED BY <2>3, <2>4 DEF KeyInv
<1>9. CASE UNCHANGED keyVars
  BY <1>1, <1>9, UnhurriedKeeps DEF keyVars, frameVars, wireVars
<1> QED BY <1>2, <1>3, <1>4, <1>5, <1>6, <1>7, <1>8, <1>9 DEF KeyNext

\* A behaviour begins with the invariant.
LEMMA KeyBegins == KeyInit => KeyInv
<1> SUFFICES ASSUME KeyInit PROVE KeyInv
  OBVIOUS
<1>1. start \in [button : Buttons, settled : BOOLEAN, at : Nat, ticks : Nat, presses : Nat,
                 messages : Nat, commands : Nat, roles : Nat]
      /\ (start.settled => start.button # "unknown")
  BY KeyAssumption DEF KeyAssumption, KeyInit
<1>2. NoEvent \in KeyEvents
  BY DEF NoEvent, KeyEvents, Buttons
<1>3. followed \in Seq(KeyEvents) /\ DOMAIN followed = {}
  BY EmptySeq DEF KeyInit
<1>4. KeyTypeOK
  BY <1>1, <1>2, <1>3 DEF KeyInit, KeyTypeOK, NoSlot
<1>5. Timely
  BY <1>1, KeyConstants DEF KeyInit, Timely
<1>6. Behind /\ Once
  BY <1>3 DEF Behind, Once
<1> QED BY <1>1, <1>4, <1>5, <1>6 DEF KeyInv, KeyInit

\* However the presses, the messages of other droplets, the commands and the turns
\* of the loop interleave, whatever slots a mouse does not ask in, and however long
\* a turn takes up to a frame, a droplet that keeps its button follows up no event
\* twice: it types no key twice, and sends none twice.
THEOREM PressesAreFollowedOnce == KeySpec => []FollowedOnce
<1>1. KeyInit => KeyInv
  BY KeyBegins
<1>2. KeyInv => FollowedOnce
  BY DEF KeyInv, FollowedOnce, Settled
<1> QED BY <1>1, <1>2, KeyStep, PTL DEF KeySpec

----------------------------------------------------------------------------
\* A press is followed up, by a loop that has a turn in every slot.

\* SlotOf and the exceptions of PressFollowed, of a droplet that started at time a
SlotFrom(a, t) == (t - a - 1) \div SlotLength
Regular(a, t)  == (t - a) % SlotLength # 0 /\ (SlotFrom(a, t) + 1) % Slots # 0

\* Frames are as many slots after the start as they have, and the slot of the last
\* turn is the one it was in.
Aligned(a, frame, id, turn) ==
  /\ a \in Nat /\ \E m \in Int : frame = a + SlotLength * (Slots * m)
  /\ id # NoSlot => turn - frame < SlotLength * id + SlotLength

\* A press is not followed up only until its slot is over, and is in the log until
\* then, where nothing else will be found in its place.
Remembered(a, log, press, done, turn) ==
  /\ press \in KeyEvents /\ press.src = Me /\ press.button \notin {"unknown", "move"}
  /\ \A i \in 1 .. LogSize :
       SlotFrom(a, log[i].time) = SlotFrom(a, press.time) => log[i] = press
  /\ Regular(a, press.time) =>
       \/ \E k \in DOMAIN done : done[k] = press
       \/ /\ \E i \in 1 .. LogSize : log[i] = press
          /\ turn < a + SlotLength * (SlotFrom(a, press.time) + 1)

PressInv ==
  start.settled /\ Role = "keyboard" =>
    /\ myButton # "move" /\ crowded \in BOOLEAN
    /\ Aligned(start.at, frameStart, loopID, lastTurn)
    /\ added # NoEvent /\ ~crowded =>
         Remembered(start.at, eventLog, added, followed, lastTurn)

\* A slot is what lies between two multiples of its length.
LEMMA SlotSpan ==
  ASSUME NEW a \in Int, NEW t \in Int
  PROVE  /\ SlotFrom(a, t) \in Int /\ SlotLength * SlotFrom(a, t) \in Int
         /\ SlotLength * (SlotFrom(a, t) + 1) = SlotLength * SlotFrom(a, t) + SlotLength
         /\ SlotLength * SlotFrom(a, t) < t - a
         /\ t - a <= SlotLength * SlotFrom(a, t) + SlotLength
         /\ \A s \in Int : SlotLength * s < t - a /\ t - a <= SlotLength * s + SlotLength
                             => SlotFrom(a, t) = s
<1>1. PICK x \in Int : x = t - a - 1
  OBVIOUS
<1>2. PICK L \in Nat \ {0} : L = SlotLength
  BY KeyConstants
<1>3. x \div L \in Int /\ x % L \in 0 .. L - 1 /\ x = (L * (x \div L)) + (x % L)
  BY DivMod
<1>4. PICK q \in Int : q = x \div L
  BY <1>3
<1>5. PICK r \in 0 .. L - 1 : r = x % L
  BY <1>3
<1>6. SlotFrom(a, t) = q
  BY <1>1, <1>2, <1>4 DEF SlotFrom
<1>7. x = (L * q) + r /\ L * q \in Int
  BY <1>3, <1>4, <1>5
<1>8. L * q < t - a /\ t - a <= L * q + L /\ L * (q + 1) = L * q + L
  BY <1>1, <1>7
<1>9. ASSUME NEW s \in Int, L * s < t - a, t - a <= L * s + L
      PROVE  q = s
  <2>1. ~(q < s)
    <3> SUFFICES ASSUME q < s PROVE FALSE
      OBVIOUS
    <3>1. L * q \in Int /\ L * s \in Int /\ L * q + L <= L * s
      BY SlotsApart
    <3> QED BY <1>8, <1>9, <3>1
  <2>2. ~(s < q)
    <3> SUFFICES ASSUME s < q PROVE FALSE
      OBVIOUS
    <3>1. L * q \in Int /\ L * s \in Int /\ L * s + L <= L * q
      BY SlotsApart
    <3> QED BY <1>8, <1>9, <3>1
  <2> QED BY <2>1, <2>2
<1> QED BY <1>2, <1>6, <1>7, <1>8, <1>9

\* What a regular press is not: on a tick between slots, or in a frame's last slot
LEMMA RegularPress ==
  ASSUME NEW a \in Int, NEW t \in Int, Regular(a, t)
  PROVE  /\ t - a # SlotLength * (SlotFrom(a, t) + 1)
         /\ \A m \in Int : SlotFrom(a, t) + 1 # Slots * m
<1>1. PICK s \in Int : s = SlotFrom(a, t)
  BY SlotSpan
<1>2. (t - a) % SlotLength # 0 /\ (s + 1) % Slots # 0
  BY <1>1 DEF Regular
<1>3. t - a # SlotLength * (s + 1)
  <2> SUFFICES ASSUME t - a = SlotLength * (s + 1) PROVE FALSE
    OBVIOUS
  <2>1. PICK n \in Int : n = s + 1
    OBVIOUS
  <2>2. 0 \in 0 .. SlotLength - 1
    BY KeyConstants
  <2>3. (n * SlotLength + 0) % SlotLength = 0
    BY <2>2, KeyConstants, RemainderIs
  <2>4. n * SlotLength + 0 = SlotLength * n
    BY KeyConstants
  <2> QED BY <1>2, <2>1, <2>3, <2>4
<1>4. ASSUME NEW m \in Int PROVE s + 1 # Slots * m
  <2>1. 0 \in 0 .. Slots - 1
    BY KeyConstants
  <2>2. (m * Slots + 0) % Slots = 0
    BY <2>1, KeyConstants, RemainderIs
  <2>3. m * Slots + 0 = Slots * m
    BY KeyConstants
  <2> QED BY <1>2, <2>2, <2>3
<1> QED BY <1>1, <1>3, <1>4

\* Time t is a turn, in slot q of a frame at f, in the slot that follows slot s.
TurnIn(L, N, a, m, s, f, q, t) ==
  /\ L \in Nat \ {0} /\ N \in Nat \ {0} /\ a \in Int /\ m \in Int /\ s \in Int
  /\ \A x \in Int : s + 1 # N * x
  /\ f \in Int /\ f = a + L * (N * m) /\ q \in 0 .. N /\ t \in Int
  /\ L * q <= t - f /\ t - f < L * q + L /\ a + L * (s + 1) <= t /\ t < a + L * (s + 1) + L

\* The first turn after slot s is in the slot after it, of the same frame.
LEMMA TurnAfter ==
  ASSUME NEW L, NEW N, NEW a, NEW m, NEW s, NEW f, NEW q, NEW t, TurnIn(L, N, a, m, s, f, q, t)
  PROVE  q \in 1 .. N - 1 /\ f + L * q = a + L * (s + 1) /\ f + L * (q - 1) = a + L * s
<1>0. /\ L \in Nat \ {0} /\ N \in Nat \ {0} /\ a \in Int /\ m \in Int /\ s \in Int
      /\ \A x \in Int : s + 1 # N * x
      /\ f \in Int /\ f = a + L * (N * m) /\ q \in 0 .. N /\ t \in Int
      /\ L * q <= t - f /\ t - f < L * q + L /\ a + L * (s + 1) <= t /\ t < a + L * (s + 1) + L
  BY DEF TurnIn
<1>1. PICK z \in Int : z = N * m
  BY <1>0
<1>2. PICK n \in Int : n = z + q
  BY <1>0, <1>1
<1>3. q \in Int /\ L * q \in Int /\ L * z \in Int /\ L * n = L * z + L * q /\ f = a + L * z
  BY <1>0, <1>1, <1>2
<1>4. PICK u \in Int : u = s + 1
  BY <1>0
<1>5. L * u \in Int /\ L * u <= t - a /\ t - a < L * u + L
  BY <1>0, <1>4
<1>6. L * n \in Int /\ L * n <= t - a /\ t - a < L * n + L
  <2>1. PICK y \in Int : y = L * q
    BY <1>0, <1>3
  <2>2. PICK v \in Int : v = L * z
    BY <1>0, <1>3
  <2>3. y <= t - f /\ t - f < y + L /\ f = a + v /\ L * n = v + y
    BY <1>0, <1>3, <2>1, <2>2
  <2> QED BY <1>0, <2>3
<1>7. n = u
  <2>1. ~(n < u)
    <3> SUFFICES ASSUME n < u PROVE FALSE
      OBVIOUS
    <3>1. L * n + L <= L * u
      BY <1>0, SlotsApart
    <3> QED BY <1>0, <1>5, <1>6, <3>1
  <2>2. ~(u < n)
    <3> SUFFICES ASSUME u < n PROVE FALSE
      OBVIOUS
    <3>1. L * u + L <= L * n
      BY <1>0, SlotsApart
    <3> QED BY <1>0, <1>5, <1>6, <3>1
  <2> QED BY <1>0, <2>1, <2>2
<1>8. q # 0
  BY <1>0, <1>1, <1>2, <1>4, <1>7
<1>9. q # N
  <2>1. N * (m + 1) = z + N /\ m + 1 \in Int
    BY <1>0, <1>1
  <2> QED BY <1>0, <1>2, <1>4, <1>7, <2>1
<1>10. f + L * q = a + L * (s + 1)
  BY <1>0, <1>3, <1>4, <1>7
<1>11. f + L * (q - 1) = a + L * s
  <2>1. L * (q - 1) = L * q - L /\ L * (s + 1) = L * s + L /\ L * s \in Int
    BY <1>0, <1>3
  <2> QED BY <1>0, <1>3, <1>10, <2>1
<1> QED BY <1>0, <1>8, <1>9, <1>10, <1>11

\* That turn finds another slot than the one before.
LEMMA SlotIsNew ==
  ASSUME NEW L \in Nat \ {0}, NEW N \in Nat \ {0}, NEW end \in Int, NEW f \in Int, NEW g \in Int,
         NEW q \in 1 .. N - 1, f + L * q = end, f = g \/ f = g + L * N,
         NEW p \in Int, NEW last \in Int, NEW t \in Int,
         L * p <= last - g, last - g < L * p + L, last < end, end <= t, t <= last + L
  PROVE  p # q
<1> SUFFICES ASSUME p = q PROVE FALSE
  OBVIOUS
<1>1. PICK y \in Int : y = L * q
  OBVIOUS
<1>2. PICK v \in Int : v = L * N
  OBVIOUS
<1>3. y + L <= v /\ L <= y
  <2>1. L * q + L <= L * N
    <3>1. q < N /\ q \in Int /\ N \in Int
      OBVIOUS
    <3> QED BY <3>1, SlotsApart
  <2>2. L * 0 + L <= L * q
    <3>1. 0 < q /\ q \in Int /\ 0 \in Int
      OBVIOUS
    <3> QED BY <3>1, SlotsApart
  <2> QED BY <1>1, <1>2, <2>1, <2>2
<1>4. f + y = end /\ (f = g \/ f = g + v) /\ y <= last - g /\ last - g < y + L
  BY <1>1, <1>2
<1> QED BY <1>3, <1>4

\* addEvent logs what is not logged yet, over an empty place or the oldest event.
LEMMA LogGains ==
  ASSUME NEW log \in [1 .. LogSize -> KeyEvents], NEW e \in KeyEvents
  PROVE  \E n \in 1 .. LogSize :
           /\ LogWith(log, e) = [log EXCEPT ![n] = e]
           /\ log[n] = NoEvent \/ \A j \in 1 .. LogSize : log[n].time <= log[j].time
<1> DEFINE free   == {i \in 1 .. LogSize : log[i] = NoEvent}
           oldest == {i \in 1 .. LogSize : \A j \in 1 .. LogSize : log[i].time <= log[j].time}
           first(S) == CHOOSE i \in S : \A j \in S : i <= j
           last(S)  == CHOOSE i \in S : \A j \in S : j <= i
<1>1. \A i \in 1 .. LogSize : log[i].time \in Int
  BY DEF KeyEvents
<1>2. CASE free # {}
  <2>1. free \in SUBSET Nat
    OBVIOUS
  <2>2. \E i \in free : \A j \in free : i <= j
    BY <1>2, <2>1, LeastNatural
  <2>3. first(free) \in free
    BY <2>2
  <2>4. LogWith(log, e) = [log EXCEPT ![first(free)] = e]
    BY <1>2 DEF LogWith
  <2> QED BY <2>3, <2>4
<1>3. CASE free = {}
  <2>1. oldest # {}
    <3> DEFINE T == {m \in 0 .. LogSize :
                       m = 0 \/ \E i \in 1 .. m : \A j \in 1 .. m : log[i].time <= log[j].time}
    <3>1. 0 \in T /\ LogSize \in Nat \ {0}
      BY KeyConstants
    <3>2. ASSUME NEW m \in 0 .. LogSize - 1, m \in T PROVE m + 1 \in T
      <4>1. CASE m = 0
        <5>1. 1 \in 1 .. LogSize /\ 1 .. 1 = {1}
          BY <3>1
        <5>2. \E i \in 1 .. 1 : \A j \in 1 .. 1 : log[i].time <= log[j].time
          BY <1>1, <5>1
        <5> QED BY <3>1, <4>1, <5>2
      <4>2. CASE m # 0
        <5>1. PICK i \in 1 .. m : \A j \in 1 .. m : log[i].time <= log[j].time
          BY <3>2, <4>2
        <5>2. \A j \in 1 .. m + 1 : j \in 1 .. LogSize /\ (j \in 1 .. m \/ j = m + 1)
          BY <3>1
        <5>3. CASE log[i].time <= log[m + 1].time
          <6>1. i \in 1 .. m + 1 /\ \A j \in 1 .. m + 1 : log[i].time <= log[j].time
            BY <5>1, <5>2, <5>3
          <6> QED BY <3>1, <6>1
        <5>4. CASE ~(log[i].time <= log[m + 1].time)
          <6>1. m + 1 \in 1 .. m + 1 /\ i \in 1 .. m + 1
            OBVIOUS
          <6>2. log[m + 1].time <= log[i].time /\ log[m + 1].time <= log[m + 1].time
            BY <1>1, <5>2, <5>4, <6>1
          <6>3. \A j \in 1 .. m + 1 : log[m + 1].time <= log[j].time
            BY <1>1, <5>1, <5>2, <6>1, <6>2
          <6> QED BY <3>1, <6>1, <6>3
        <5> QED BY <5>3, <5>4
      <4> QED BY <4>1, <4>2
    <3> HIDE DEF T
    <3>3. 0 .. LogSize \subseteq T
      BY <3>1, <3>2, InductionUpTo
    <3>4. LogSize \in T /\ LogSize # 0
      BY <3>1, <3>3
    <3> QED BY <3>4 DEF T
  <2>2. \E i \in oldest : \A j \in oldest : j <= i
    <3> DEFINE R == {LogSize - i : i \in oldest}
    <3>0. \A i \in oldest : LogSize - i \in Nat
      BY KeyConstants
    <3>1. R \in SUBSET Nat /\ R # {}
      <4>1. R \in SUBSET Nat
        BY <3>0
      <4>2. PICK i : i \in oldest
        BY <2>1
      <4>3. LogSize - i \in R
        BY <4>2
      <4> QED BY <4>1, <4>3
    <3>2. PICK r \in R : \A x \in R : r <= x
      BY <3>1, LeastNatural
    <3>3. PICK i \in oldest : r = LogSize - i
      BY <3>2
    <3>4. ASSUME NEW j \in oldest PROVE j <= i
      <4>1. LogSize - j \in R
        OBVIOUS
      <4>2. LogSize - i <= LogSize - j
        BY <3>2, <3>3, <4>1
      <4> QED BY <4>2, KeyConstants
    <3> QED BY <3>4
  <2>3. last(oldest) \in oldest
    BY <2>2
  <2>4. LogWith(log, e) = [log EXCEPT ![last(oldest)] = e]
    BY <1>3 DEF LogWith
  <2> QED BY <2>3, <2>4
<1> QED BY <1>2, <1>3

\* What is in the log stays there, if the log has something older.
LEMMA LogKeeps ==
  ASSUME NEW log \in [1 .. LogSize -> KeyEvents], NEW e \in KeyEvents,
         NEW press \in KeyEvents, press # NoEvent, \E i \in 1 .. LogSize : log[i] = press,
         \E i \in 1 .. LogSize : log[i].time < press.time
  PROVE  \E i \in 1 .. LogSize : LogWith(log, e)[i] = press
<1>1. PICK i \in 1 .. LogSize : log[i] = press
  OBVIOUS
<1>2. PICK j \in 1 .. LogSize : log[j].time < press.time
  OBVIOUS
<1>3. PICK n \in 1 .. LogSize :
        /\ LogWith(log, e) = [log EXCEPT ![n] = e]
        /\ log[n] = NoEvent \/ \A x \in 1 .. LogSize : log[n].time <= log[x].time
  BY LogGains
<1>4. \A x \in 1 .. LogSize : log[x].time \in Int
  BY DEF KeyEvents
<1>5. n # i
  BY <1>1, <1>2, <1>3, <1>4
<1>6. LogWith(log, e)[i] = press
  BY <1>1, <1>3, <1>5
<1> QED BY <1>6

LEMMA LogHas ==
  ASSUME NEW log \in [1 .. LogSize -> KeyEvents], NEW e \in KeyEvents
  PROVE  /\ \E i \in 1 .. LogSize : LogWith(log, e)[i] = e
         /\ \A i \in 1 .. LogSize : LogWith(log, e)[i] \in {log[i], e}
<1>1. PICK n \in 1 .. LogSize : LogWith(log, e) = [log EXCEPT ![n] = e]
  BY LogGains
<1> QED BY <1>1

\* The press is in the log, and alone in a window.
OnlyPressIn(press, lo, hi) ==
  /\ \E i \in 1 .. LogSize : /\ eventLog[i] = press
                             /\ lo < eventLog[i].time /\ eventLog[i].time <= hi
  /\ \A i \in 1 .. LogSize :
       lo < eventLog[i].time /\ eventLog[i].time <= hi => eventLog[i] = press

\* A press that is alone in the window is found.
LEMMA PressIsFound ==
  ASSUME NEW lo, NEW hi, NEW press, OnlyPressIn(press, lo, hi)
  PROVE  checkForEvent(lo, hi) = press
<1> DEFINE found == {i \in 1 .. LogSize : lo < eventLog[i].time /\ eventLog[i].time <= hi}
<1>1. found # {} /\ found \in SUBSET Nat
  BY DEF OnlyPressIn
<1>2. \E i \in found : \A j \in found : i <= j
  BY <1>1, LeastNatural
<1>3. PICK i : i = CHOOSE n \in found : \A j \in found : n <= j
  OBVIOUS
<1>4. i \in found
  BY <1>2, <1>3
<1>5. checkForEvent(lo, hi) = eventLog[i]
  BY <1>1, <1>3 DEF checkForEvent
<1> QED BY <1>4, <1>5 DEF OnlyPressIn

\* A turn leaves the frames aligned, and is in the slot that it found.
LEMMA FramesStayAligned ==
  ASSUME KeyTypeOK, Timely, NEW a, Aligned(a, frameStart, loopID, lastTurn)
  PROVE  /\ \E m \in Int : Frame = a + SlotLength * (Slots * m)
         /\ Aligned(a, Frame, Slot, now)
<1>1. PICK L \in Nat \ {0} : L = SlotLength
  BY KeyConstants
<1>2. PICK N \in Nat \ {0} : N = Slots
  BY KeyConstants
<1>3. a \in Nat /\ \E m \in Int : frameStart = a + SlotLength * (Slots * m)
  BY DEF Aligned
<1>4. PICK m \in Int : frameStart = a + L * (N * m)
  BY <1>1, <1>2, <1>3
<1>5. FrameLength = L * N
  BY <1>1, <1>2, KeyConstants
<1>6. Frame = frameStart \/ Frame = frameStart + FrameLength
  BY SlotFacts
<1>7. \E k \in Int : Frame = a + L * (N * k)
  <2>1. CASE Frame = frameStart
    BY <1>4, <2>1
  <2>2. CASE Frame = frameStart + FrameLength
    <3>1. PICK z \in Int : z = N * m
      OBVIOUS
    <3>2. N * (m + 1) = z + N /\ m + 1 \in Int
      BY <3>1
    <3>3. PICK y \in Int : y = L * z
      BY <3>1
    <3>4. L * (z + N) = y + L * N /\ L * N \in Int
      BY <3>3
    <3>5. Frame = a + L * (N * (m + 1))
      BY <1>3, <1>4, <1>5, <2>2, <3>1, <3>2, <3>3, <3>4
    <3> QED BY <3>2, <3>5
  <2> QED BY <1>6, <2>1, <2>2
<1>8. now - Frame < SlotLength * Slot + SlotLength
  BY SlotFacts
<1> QED BY <1>1, <1>2, <1>3, <1>7, <1>8 DEF Aligned

\* The first turn after the slot of a remembered press asks for that slot, and finds it.
LEMMA TurnAsks ==
  ASSUME KeyTypeOK, Timely, LongestTurn <= SlotLength, NEW a, NEW press,
         Aligned(a, frameStart, loopID, lastTurn),
         Remembered(a, eventLog, press, followed, lastTurn), Regular(a, press.time),
         \E i \in 1 .. LogSize : eventLog[i] = press,
         lastTurn < a + SlotLength * (SlotFrom(a, press.time) + 1),
         a + SlotLength * (SlotFrom(a, press.time) + 1) <= now
  PROVE  /\ loopID # Slot
         /\ checkForEvent(Frame + Offset(Slot - 1), Frame + Offset(Slot)) = press
<1>1. PICK L \in Nat \ {0} : L = SlotLength
  BY KeyConstants
<1>2. PICK N \in Nat \ {0} : N = Slots
  BY KeyConstants
<1>3. /\ a \in Int /\ press.time \in Int /\ now \in Int /\ lastTurn \in Int /\ frameStart \in Int
      /\ loopID \in Int /\ now - lastTurn <= LongestTurn
      /\ eventLog \in [1 .. LogSize -> KeyEvents]
  BY DEF Aligned, Remembered, KeyEvents, KeyTypeOK, Timely
<1>4. PICK s \in Int : s = SlotFrom(a, press.time)
  BY <1>3, SlotSpan
<1>5. \A x \in Int : s + 1 # N * x
  BY <1>2, <1>3, <1>4, RegularPress
<1>6. PICK m \in Int : Frame = a + SlotLength * (Slots * m)
  BY FramesStayAligned
<1>7. PICK f \in Int : f = Frame
  BY SlotFacts
<1>8. PICK q \in 0 .. N : q = Slot
  BY <1>2, SlotFacts
<1>9. L * q <= now - f /\ now - f < L * q + L /\ (f = frameStart \/ f = frameStart + L * N)
  BY <1>1, <1>2, <1>7, <1>8, SlotFacts, KeyConstants
<1>10. PICK end \in Int : end = a + L * (s + 1)
  BY <1>3
<1>11. lastTurn < end /\ end <= now /\ now <= lastTurn + L
  BY <1>1, <1>3, <1>4, <1>10, KeyConstants
<1>12. f = a + L * (N * m) /\ a + L * (s + 1) <= now /\ now < a + L * (s + 1) + L
  BY <1>1, <1>2, <1>3, <1>6, <1>7, <1>10, <1>11
<1>13. q \in 1 .. N - 1 /\ f + L * q = a + L * (s + 1) /\ f + L * (q - 1) = a + L * s
  <2>1. PICK t \in Int : t = now
    BY <1>3
  <2>2. PICK b \in Int : b = a
    BY <1>3
  <2>3. TurnIn(L, N, b, m, s, f, q, t)
    <3>1. /\ L * q <= t - f /\ t - f < L * q + L /\ f = b + L * (N * m)
          /\ b + L * (s + 1) <= t /\ t < b + L * (s + 1) + L
      BY <1>9, <1>12, <2>1, <2>2
    <3> QED BY <1>5, <3>1 DEF TurnIn
  <2> QED BY <2>2, <2>3, TurnAfter
<1>14. loopID # Slot
  <2>1. CASE loopID = NoSlot
    BY <1>2, <1>8, <2>1 DEF NoSlot
  <2>2. CASE loopID # NoSlot
    <3>1. L * loopID <= lastTurn - frameStart /\ lastTurn - frameStart < L * loopID + L
      BY <1>1, <2>2 DEF Timely, Aligned
    <3>2. f + L * q = end
      BY <1>10, <1>13
    <3>3. loopID # q
      BY <1>3, <1>9, <1>11, <1>13, <3>1, <3>2, SlotIsNew
    <3> QED BY <1>8, <3>3
  <2> QED BY <2>1, <2>2
<1>15. PICK lo \in Int : lo = a + L * s
  BY <1>3
<1>16. Frame + Offset(Slot - 1) = lo /\ Frame + Offset(Slot) = end
  <2>1. q - 1 \in 0 .. Slots /\ q \in 0 .. Slots
    BY <1>2, <1>13
  <2>2. Offset(q - 1) = L * (q - 1) /\ Offset(q) = L * q
    BY <1>1, <2>1, OffsetFacts
  <2> QED BY <1>7, <1>8, <1>10, <1>13, <1>15, <2>2
<1>17. \A i \in 1 .. LogSize : SlotFrom(a, eventLog[i].time) = s => eventLog[i] = press
  BY <1>4 DEF Remembered
<1>18. end = lo + L /\ lo - a = L * s /\ L * s \in Int
  <2>1. L * (s + 1) = L * s + L /\ L * s \in Int
    OBVIOUS
  <2> QED BY <1>3, <1>10, <1>15, <2>1
<1>19. \A i \in 1 .. LogSize : lo < eventLog[i].time /\ eventLog[i].time <= end => eventLog[i] = press
  <2> SUFFICES ASSUME NEW i \in 1 .. LogSize, lo < eventLog[i].time, eventLog[i].time <= end
               PROVE  eventLog[i] = press
    OBVIOUS
  <2>1. PICK t \in Int : t = eventLog[i].time
    BY <1>3 DEF KeyEvents
  <2>2. L * s < t - a /\ t - a <= L * s + L
    BY <1>3, <1>18, <2>1
  <2>3. SlotFrom(a, t) = s
    BY <1>1, <1>3, <2>2, SlotSpan
  <2> QED BY <1>17, <2>1, <2>3
<1>20. \E i \in 1 .. LogSize : /\ eventLog[i] = press
                               /\ lo < eventLog[i].time /\ eventLog[i].time <= end
  <2>1. L * s < press.time - a /\ press.time - a <= L * s + L
    BY <1>1, <1>3, <1>4, SlotSpan
  <2>2. lo < press.time /\ press.time <= end
    BY <1>3, <1>18, <2>1
  <2> QED BY <2>2
<1>21. OnlyPressIn(press, lo, end)
  BY <1>19, <1>20 DEF OnlyPressIn
<1> QED BY <1>14, <1>16, <1>21, PressIsFound

\* A turn follows up what it has to.
LEMMA TurnFollows ==
  ASSUME KeyInv, PressInv, LongestTurn <= SlotLength, Loop, start.settled
  PROVE  PressInv'
<1> SUFFICES ASSUME Role = "keyboard" PROVE PressInv'
  <2>1. Role' = Role
    BY DEF Loop, Role
  <2> QED BY <2>1 DEF PressInv
<1>1. KeyTypeOK /\ Timely
  BY DEF KeyInv
<1>2. /\ myButton # "move" /\ crowded \in BOOLEAN
      /\ Aligned(start.at, frameStart, loopID, lastTurn)
      /\ added # NoEvent /\ ~crowded =>
           Remembered(start.at, eventLog, added, followed, lastTurn)
  BY DEF PressInv
<1>3. /\ lastTurn' = now /\ frameStart' = Frame /\ loopID' = Slot /\ myButton' = myButton
      /\ eventLog' = eventLog /\ added' = added /\ crowded' = crowded /\ start' = start
  BY DEF Loop
<1>4. Aligned(start.at, frameStart', loopID', lastTurn')
  BY <1>1, <1>2, <1>3, FramesStayAligned
<1>5. ASSUME added # NoEvent, ~crowded
      PROVE  Remembered(start.at, eventLog, added, followed', now)
  <2>1. PICK a : a = start.at
    OBVIOUS
  <2>2. PICK press : press = added
    OBVIOUS
  <2>3. Remembered(a, eventLog, press, followed, lastTurn)
    BY <1>2, <1>5, <2>1, <2>2
  <2>4. \A k \in DOMAIN followed : k \in DOMAIN followed' /\ followed'[k] = followed[k]
    <3>1. followed \in Seq(KeyEvents)
      BY <1>1 DEF KeyTypeOK
    <3>2. followed' = followed \/ \E e : FollowUp(e)
      BY DEF Loop
    <3>3. followed' = followed \/ \E e : followed' = Append(followed, e)
      BY <3>2, FollowsOne
    <3> QED BY <3>1, <3>3
  <2>5. CASE \E k \in DOMAIN followed : followed[k] = press
    <3>1. \E k \in DOMAIN followed' : followed'[k] = press
      BY <2>4, <2>5
    <3> QED BY <2>1, <2>2, <2>3, <3>1 DEF Remembered
  <2>6. CASE ~\E k \in DOMAIN followed : followed[k] = press
    <3> SUFFICES ASSUME Regular(a, press.time),
                        ~(now < a + SlotLength * (SlotFrom(a, press.time) + 1))
                 PROVE  \E k \in DOMAIN followed' : followed'[k] = press
      BY <2>1, <2>2, <2>3, <2>6 DEF Remembered
    <3>1. /\ \E i \in 1 .. LogSize : eventLog[i] = press
          /\ lastTurn < a + SlotLength * (SlotFrom(a, press.time) + 1)
      BY <2>3, <2>6 DEF Remembered
    <3>2. a \in Int /\ press.time \in Int /\ now \in Int
      BY <1>1, <1>2, <2>1, <2>3 DEF Aligned, Remembered, KeyEvents, KeyTypeOK
    <3>3. a + SlotLength * (SlotFrom(a, press.time) + 1) <= now
      <4>1. SlotFrom(a, press.time) \in Int
        BY <3>2, SlotSpan
      <4>2. SlotLength * (SlotFrom(a, press.time) + 1) \in Int
        BY <4>1, KeyConstants
      <4> QED BY <3>2, <4>2
    <3>4. /\ loopID # Slot
          /\ checkForEvent(Frame + Offset(Slot - 1), Frame + Offset(Slot)) = press
      BY <1>1, <1>2, <2>1, <2>3, <3>1, <3>3, TurnAsks
    <3>5. FollowUp(press)
      <4>1. Window(Slot)[1] = Slot - 1 /\ Window(Slot)[2] = Slot
        BY DEF Window
      <4> QED BY <3>4, <4>1 DEF Loop
    <3>6. press.src = Me /\ press.button \notin {"unknown", "move"}
      BY <2>3 DEF Remembered
    <3>7. followed' = Append(followed, press)
      BY <3>5, <3>6 DEF FollowUp
    <3>8. followed \in Seq(KeyEvents) /\ press \in KeyEvents
      BY <1>1, <2>3 DEF KeyTypeOK, Remembered
    <3>9. Len(followed) + 1 \in DOMAIN followed' /\ followed'[Len(followed) + 1] = press
      BY <3>7, <3>8, AppendProperties
    <3> QED BY <3>9
  <2> QED BY <2>5, <2>6
<1> QED BY <1>2, <1>3, <1>4, <1>5 DEF PressInv

\* What a step leaves alone that is no turn of the loop
LoopStays ==
  /\ lastTurn' = lastTurn /\ frameStart' = frameStart /\ loopID' = loopID
  /\ followed' = followed /\ myButton' = myButton
  /\ start'.at = start.at /\ start'.settled = start.settled

\* Spending leaves the beginning as it was.
LEMMA SpendingKeeps ==
  ASSUME KeyTypeOK, NEW what \in {"ticks", "presses", "messages", "commands"}, Spend(what)
  PROVE  start'.at = start.at /\ start'.settled = start.settled
<1>1. start \in [button : Buttons, settled : BOOLEAN, at : Nat, ticks : Nat,
                 presses : Nat, messages : Nat, commands : Nat, roles : Nat]
  BY DEF KeyTypeOK
<1>2. start' = [start EXCEPT ![what] = start[what] - 1]
  BY DEF Spend
<1> QED BY <1>1, <1>2

\* Neither the loop nor the log
LEMMA NeitherKeeps ==
  ASSUME PressInv, LoopStays, eventLog' = eventLog, added' = added, crowded' = crowded
  PROVE  PressInv'
<1>1. Role' = Role
  BY DEF LoopStays, Role
<1> QED BY <1>1 DEF PressInv, LoopStays

\* An event that is logged and is not the droplet's own press
LEMMA OthersKeep ==
  ASSUME KeyInv, PressInv, LoopStays, NEW e \in KeyEvents, eventLog' = addEvent(eventLog, e),
         added' = added, crowded' = (crowded \/ Crowds(e))
  PROVE  PressInv'
<1> SUFFICES ASSUME start.settled, Role = "keyboard" PROVE PressInv'
  <2>1. Role' = Role /\ start'.settled = start.settled
    BY DEF LoopStays, Role
  <2> QED BY <2>1 DEF PressInv
<1>1. eventLog \in [1 .. LogSize -> KeyEvents]
  BY DEF KeyInv, KeyTypeOK
<1>2. /\ myButton # "move" /\ crowded \in BOOLEAN
      /\ Aligned(start.at, frameStart, loopID, lastTurn)
      /\ added # NoEvent /\ ~crowded =>
           Remembered(start.at, eventLog, added, followed, lastTurn)
  BY DEF PressInv
<1>3. crowded' \in BOOLEAN /\ (~crowded' => ~crowded /\ ~Crowds(e))
  BY <1>2
<1>4. ASSUME added # NoEvent, ~crowded, ~Crowds(e)
      PROVE  Remembered(start.at, eventLog', added, followed, lastTurn)
  <2>1. Remembered(start.at, eventLog, added, followed, lastTurn)
    BY <1>2, <1>4
  <2>2. CASE Logged(eventLog, e)
    BY <2>1, <2>2 DEF addEvent
  <2>3. CASE ~Logged(eventLog, e)
    <3>1. eventLog' = LogWith(eventLog, e)
      BY <2>3 DEF addEvent
    <3>2. /\ SlotFrom(start.at, e.time) # SlotFrom(start.at, added.time)
          /\ ~\A i \in 1 .. LogSize : eventLog[i].time >= added.time
      BY <1>4, <2>3 DEF Crowds, SlotOf, SlotFrom
    <3>3. added \in KeyEvents
      BY <2>1 DEF Remembered
    <3>4. \E i \in 1 .. LogSize : eventLog[i].time < added.time
      BY <1>1, <3>2, <3>3 DEF KeyEvents
    <3>5. \A i \in 1 .. LogSize : eventLog'[i] \in {eventLog[i], e}
      BY <1>1, <3>1, LogHas
    <3>6. \A i \in 1 .. LogSize :
            SlotFrom(start.at, eventLog'[i].time) = SlotFrom(start.at, added.time)
              => eventLog'[i] = added
      BY <2>1, <3>2, <3>5 DEF Remembered
    <3>7. (\E i \in 1 .. LogSize : eventLog[i] = added)
            => \E i \in 1 .. LogSize : eventLog'[i] = added
      <4> SUFFICES ASSUME \E i \in 1 .. LogSize : eventLog[i] = added
                   PROVE  \E i \in 1 .. LogSize : eventLog'[i] = added
        OBVIOUS
      <4>1. \E i \in 1 .. LogSize : LogWith(eventLog, e)[i] = added
        BY <1>1, <1>4, <3>3, <3>4, LogKeeps
      <4> QED BY <3>1, <4>1
    <3> QED BY <2>1, <3>6, <3>7 DEF Remembered
  <2> QED BY <2>2, <2>3
<1>5. Role' = Role
  BY DEF LoopStays, Role
<1> QED BY <1>2, <1>3, <1>4, <1>5 DEF PressInv, LoopStays

\* A press of the droplet's own
LEMMA OwnPressKeeps ==
  ASSUME KeyInv, PressInv, LoopStays, Press
  PROVE  PressInv'
<1> DEFINE e == [time |-> now, src |-> Me, button |-> myButton]
<1>1. CASE Logged(eventLog, e)
  <2>1. eventLog' = eventLog /\ added' = added /\ crowded' = crowded
    BY <1>1 DEF Press, addEvent
  <2> QED BY <2>1, NeitherKeeps
<1>2. CASE ~Logged(eventLog, e)
  <2> SUFFICES ASSUME start.settled, Role = "keyboard" PROVE PressInv'
    <3>1. Role' = Role /\ start'.settled = start.settled
      BY DEF LoopStays, Role
    <3> QED BY <3>1 DEF PressInv
  <2>1. PICK press : press = e
    OBVIOUS
  <2>2. /\ eventLog' = LogWith(eventLog, press) /\ added' = press
        /\ crowded' = \E i \in 1 .. LogSize : SlotOf(eventLog[i].time) = SlotOf(now)
    BY <1>2, <2>1 DEF Press, addEvent
  <2>3. /\ eventLog \in [1 .. LogSize -> KeyEvents] /\ now \in Int /\ lastTurn \in Int
        /\ lastTurn <= now /\ myButton \in Buttons
    BY DEF KeyInv, KeyTypeOK, Timely
  <2>4. myButton \notin {"unknown", "move"} /\ Aligned(start.at, frameStart, loopID, lastTurn)
    BY DEF KeyInv, PressInv
  <2>5. /\ press \in KeyEvents /\ press.src = Me /\ press.time = now
        /\ press.button \notin {"unknown", "move"}
    BY <2>1, <2>3, <2>4 DEF KeyEvents
  <2>6. crowded' \in BOOLEAN
    BY <2>2
  <2>7. ASSUME ~crowded' PROVE Remembered(start.at, eventLog', press, followed, lastTurn)
    <3>1. \A i \in 1 .. LogSize :
            SlotFrom(start.at, eventLog[i].time) # SlotFrom(start.at, press.time)
      BY <2>2, <2>5, <2>7 DEF SlotOf, SlotFrom
    <3>2. /\ \E i \in 1 .. LogSize : eventLog'[i] = press
          /\ \A i \in 1 .. LogSize : eventLog'[i] \in {eventLog[i], press}
      <4>1. /\ \E i \in 1 .. LogSize : LogWith(eventLog, press)[i] = press
            /\ \A i \in 1 .. LogSize : LogWith(eventLog, press)[i] \in {eventLog[i], press}
        BY <2>3, <2>5, LogHas
      <4> QED BY <2>2, <4>1
    <3>3. \A i \in 1 .. LogSize :
            SlotFrom(start.at, eventLog'[i].time) = SlotFrom(start.at, press.time)
              => eventLog'[i] = press
      BY <3>1, <3>2
    <3>4. ASSUME Regular(start.at, press.time)
          PROVE  lastTurn < start.at + SlotLength * (SlotFrom(start.at, press.time) + 1)
      <4>1. PICK a \in Int : a = start.at
        BY <2>4 DEF Aligned
      <4>2. PICK s \in Int : s = SlotFrom(a, now)
        BY <2>3, SlotSpan
      <4>3. PICK y \in Int : y = SlotLength * (s + 1)
        BY KeyConstants
      <4>4. now - a <= y
        BY <2>3, <4>2, <4>3, SlotSpan
      <4>5. now - a # y
        BY <2>3, <2>5, <3>4, <4>1, <4>2, <4>3, RegularPress
      <4> QED BY <2>3, <2>5, <4>1, <4>2, <4>3, <4>4, <4>5
    <3> QED BY <2>5, <3>2, <3>3, <3>4 DEF Remembered
  <2>8. Role' = Role
    BY DEF LoopStays, Role
  <2> QED BY <2>2, <2>4, <2>6, <2>7, <2>8 DEF PressInv, LoopStays
<1> QED BY <1>1, <1>2

\* Every step keeps what is remembered of the press.
LEMMA PressStep ==
  ASSUME LongestTurn <= SlotLength, KeyInv, PressInv, [KeyNext]_keyVars
  PROVE  PressInv'
<1>1. KeyTypeOK
  BY DEF KeyInv
<1>2. now \in Int
  BY <1>1 DEF KeyTypeOK
<1>3. \A p \in Phases : Stamp(p) \in Int
  <2> SUFFICES ASSUME NEW p \in Phases PROVE Stamp(p) \in Int
    OBVIOUS
  <2>1. p \in Int /\ Multipress \in Nat \ {0}
    BY KeyConstants DEF Phases
  <2>2. now \div Multipress \in Int
    BY <1>2, <2>1, DivMod
  <2> QED BY <2>1, <2>2 DEF Stamp
<1>4. CASE Tick
  <2>1. LoopStays
    BY <1>1, <1>4, SpendingKeeps DEF Tick, frameVars, LoopStays
  <2> QED BY <1>4, <2>1, NeitherKeeps DEF Tick
<1>5. CASE Loop
  <2>1. CASE start.settled
    BY <1>5, <2>1, TurnFollows
  <2>2. CASE ~start.settled
    <3>1. start' = start
      BY <1>5 DEF Loop
    <3> QED BY <2>2, <3>1 DEF PressInv
  <2> QED BY <2>1, <2>2
<1>6. ASSUME NEW b \in {"key", "left"}, CheckPosition(b) PROVE PressInv'
  <2>1. ~start.settled /\ start' = start
    BY <1>6 DEF KeyInv, CheckPosition, Role
  <2> QED BY <2>1 DEF PressInv
<1>7. CASE (\E m \in waiting : SendAgain(m)) \/ WireSleep
  <2>1. /\ LoopStays /\ eventLog' = eventLog /\ added' = added /\ crowded' = crowded
    BY <1>7 DEF SendAgain, WireSleep, frameVars, LoopStays
  <2> QED BY <2>1, NeitherKeeps
<1>8. CASE Press
  <2>1. LoopStays
    BY <1>1, <1>8, SpendingKeeps DEF Press, frameVars, LoopStays
  <2> QED BY <1>8, <2>1, OwnPressKeeps
<1>9. ASSUME NEW o \in Others, NEW b \in {"key", "caps_on"}, NEW p \in Phases,
             HandleButtonPressMsg(o, b, p)
      PROVE  PressInv'
  <2>1. LoopStays
    BY <1>1, <1>9, SpendingKeeps DEF HandleButtonPressMsg, frameVars, LoopStays
  <2>2. PICK e : e = [time |-> Stamp(p), src |-> o, button |-> b]
    OBVIOUS
  <2>3. e \in KeyEvents
    BY <1>3, <2>2 DEF KeyEvents, Buttons
  <2>4. eventLog' = addEvent(eventLog, e) /\ added' = added /\ crowded' = (crowded \/ Crowds(e))
    BY <1>9, <2>2 DEF HandleButtonPressMsg
  <2> QED BY <2>1, <2>3, <2>4, OthersKeep
<1>10. ASSUME NEW p \in Phases, HandleMouseMoveMsg(p) PROVE PressInv'
  <2>1. LoopStays
    BY <1>1, <1>10, SpendingKeeps DEF HandleMouseMoveMsg, frameVars, LoopStays
  <2>2. PICK e : e = [time |-> Stamp(p), src |-> "delta", button |-> "move"]
    OBVIOUS
  <2>3. e \in KeyEvents
    BY <1>3, <2>2 DEF KeyEvents, Buttons
  <2>4. eventLog' = addEvent(eventLog, e) /\ added' = added /\ crowded' = (crowded \/ Crowds(e))
    BY <1>10, <2>2 DEF HandleMouseMoveMsg
  <2> QED BY <2>1, <2>3, <2>4, OthersKeep
<1>11. CASE PressCommand
  <2>1. LoopStays
    BY <1>1, <1>11, SpendingKeeps DEF PressCommand, frameVars, LoopStays
  <2>2. PICK e : e = [time |-> now, src |-> Me, button |-> "key"]
    OBVIOUS
  <2>3. e \in KeyEvents
    BY <1>2, <2>2 DEF KeyEvents, Buttons
  <2>4. eventLog' = addEvent(eventLog, e) /\ added' = added /\ crowded' = (crowded \/ Crowds(e))
    BY <1>11, <2>2 DEF PressCommand
  <2> QED BY <2>1, <2>3, <2>4, OthersKeep
<1>12. CASE Wake
  <2>1. LoopStays
    BY <1>1, <1>12, SpendingKeeps DEF Wake, frameVars, LoopStays
  <2> QED BY <1>12, <2>1, NeitherKeeps DEF Wake
<1>13. ASSUME NEW b \in {"key", "right"}, SetRole(b) PROVE PressInv'
  <2>1. PICK s : s = [start EXCEPT !.roles = start.roles - 1]
    OBVIOUS
  <2>2. start \in [button : Buttons, settled : BOOLEAN, at : Nat, ticks : Nat,
                   presses : Nat, messages : Nat, commands : Nat, roles : Nat]
    BY <1>1 DEF KeyTypeOK
  <2>3. start' = [start EXCEPT !.roles = start.roles - 1, !.settled = FALSE]
    BY <1>13 DEF SetRole
  <2>4. start' = [s EXCEPT !.settled = FALSE] /\ DOMAIN s = DOMAIN start
    BY <2>1, <2>2, <2>3
  <2>5. start'.settled = FALSE
    BY <2>2, <2>4
  <2> QED BY <2>5 DEF PressInv
<1>14. CASE UNCHANGED keyVars
  <2>1. LoopStays /\ eventLog' = eventLog /\ added' = added /\ crowded' = crowded
    BY <1>14 DEF keyVars, LoopStays
  <2> QED BY <2>1, NeitherKeeps
<1> QED BY <1>4, <1>5, <1>6, <1>7, <1>8, <1>9, <1>10, <1>11, <1>12, <1>13, <1>14 DEF KeyNext

\* A press that addEvent says it added is followed up, once the loop had a turn after
\* its slot: however the turns, the messages and the commands interleave, at whatever
\* time the droplet started, and with a log of any length.  What is asked of the
\* constants is a loop that has a turn in every slot: slots have 300 ms, and the loop
\* waits for 11 (mouseKeyboard.h:29).  The press must be regular and
\* not be crowded out, as PressFollowed says.
THEOREM PressesAreFollowed ==
  ASSUME LongestTurn <= SlotLength
  PROVE  KeySpec => []PressFollowed
<1>1. KeyInit => KeyInv
  BY KeyBegins
<1>2. KeyInit => PressInv
  <2> SUFFICES ASSUME KeyInit PROVE PressInv
    OBVIOUS
  <2>1. /\ start \in [button : Buttons \ {"move"}, settled : BOOLEAN, at : Nat, ticks : Nat,
                      presses : Nat, messages : Nat, commands : Nat, roles : Nat]
    BY KeyAssumption DEF KeyAssumption, KeyInit
  <2>2. Aligned(start.at, frameStart, loopID, lastTurn)
    <3>1. start.at = start.at + SlotLength * (Slots * 0) /\ start.at \in Nat
      BY <2>1, KeyConstants
    <3>2. frameStart = start.at /\ loopID = NoSlot
      BY DEF KeyInit
    <3> QED BY <3>1, <3>2 DEF Aligned
  <2>3. myButton # "move" /\ crowded = FALSE /\ added = NoEvent
    BY <2>1 DEF KeyInit
  <2> QED BY <2>2, <2>3 DEF PressInv
<1>3. KeyInv /\ PressInv /\ [KeyNext]_keyVars => PressInv'
  BY PressStep
<1>4. KeyInv /\ PressInv => PressFollowed
  <2> SUFFICES ASSUME KeyInv, PressInv, Settled, Role = "keyboard", added # NoEvent, ~crowded,
                      lastTurn >= SlotEnd(added.time),
                      (added.time - start.at) % SlotLength # 0,
                      (SlotOf(added.time) + 1) % Slots # 0
               PROVE  \E k \in DOMAIN followed : followed[k] = added
    BY DEF PressFollowed
  <2>1. PICK a : a = start.at
    OBVIOUS
  <2>2. Remembered(a, eventLog, added, followed, lastTurn) /\ a \in Int
    BY <2>1 DEF PressInv, Settled, Aligned
  <2>3. added.time \in Int /\ lastTurn \in Int
    BY <2>2 DEF Remembered, KeyEvents, KeyInv, KeyTypeOK
  <2>4. PICK s \in Int : s = SlotFrom(a, added.time)
    BY <2>2, <2>3, SlotSpan
  <2>5. SlotOf(added.time) = s
    BY <2>1, <2>4 DEF SlotOf, SlotFrom
  <2>6. Regular(a, added.time)
    BY <2>1, <2>4, <2>5 DEF Regular
  <2>7. PICK y \in Int : y = SlotLength * (s + 1)
    BY KeyConstants
  <2>8. (s + 1) * SlotLength = y
    BY <2>7, KeyConstants
  <2>9. ~(lastTurn < a + y)
    BY <2>1, <2>2, <2>3, <2>5, <2>8 DEF SlotEnd
  <2> QED BY <2>2, <2>4, <2>6, <2>7, <2>9 DEF Remembered
<1> QED BY <1>1, <1>2, <1>3, <1>4, KeyStep, PTL DEF KeySpec

-----------------------------------------------------------------------------
(* Pong: the neighbours and the edges                                      *)

\* A table holds neighbours that were heard, each of them once.
TableOK(t) ==
  /\ t \in [BotPlaces -> {Empty} \union {<<s>> : s \in Sightings}]
  /\ \A i, j \in BotPlaces : Used(t, i) /\ Used(t, j) /\ Bot(t, i).id = Bot(t, j).id => i = j

\* The first n places are filled from the front, and by bearing.
Filled(t, n) == \A j \in 1 .. n : \A i \in 1 .. j : Used(t, j) => Used(t, i)
ByBearing(t, n) ==
  \A j \in 1 .. n : \A i \in 1 .. j : Used(t, j) => Bot(t, i).bearing <= Bot(t, j).bearing

UsedPlaces(t) == {i \in 1 .. Tracked : Used(t, i)}
Heading(t, i) == Bot(t, i).bearing

\* No two neighbours lie in the same direction.
AllApart(t) == \A i, j \in UsedPlaces(t) : i # j => Ahead(Heading(t, i), Heading(t, j)) # 0

\* What is in a place that is used
LEMMA BotIs ==
  ASSUME NEW t, TableOK(t), NEW i \in BotPlaces, Used(t, i)
  PROVE  Bot(t, i) \in Sightings /\ Bot(t, i).bearing \in -180 .. 180
<1>1. PICK s \in Sightings : t[i] = <<s>>
  BY DEF TableOK, Used
<1>2. Bot(t, i) = s
  BY <1>1 DEF Bot
<1> QED BY <1>2, BotsAssumption DEF BotsAssumption

LEMMA PlacesAre ==
  /\ Tracked \in Nat \ {0} /\ BotPlaces = 1 .. Tracked + 1
  /\ \A i \in 1 .. Tracked : i \in BotPlaces /\ i \in Int
BY BotsAssumption DEF BotsAssumption, BotPlaces

\* Sorting leaves the entries in the table, and what comes before what.
LEMMA SortedKeeps ==
  ASSUME NEW t, TableOK(t), NEW n \in 1 .. Tracked + 1, NEW key, NEW u \in Sorted(t, n, key)
  PROVE  /\ TableOK(u)
         /\ \A i \in 1 .. n - 1 : u[i + 1] = Empty \/ Before(u[i], u[i + 1], key)
<1>1. PICK p \in Orders(n) :
        /\ \A i \in 1 .. n - 1 : t[p[i + 1]] = Empty \/ Before(t[p[i]], t[p[i + 1]], key)
        /\ u = [i \in BotPlaces |-> IF i <= n THEN t[p[i]] ELSE t[i]]
  BY DEF Sorted
<1>2. p \in [1 .. n -> 1 .. n] /\ \A i, j \in 1 .. n : p[i] = p[j] => i = j
  BY DEF Orders
<1>3. n \in Nat /\ n <= Tracked + 1 /\ Tracked \in Nat
  BY PlacesAre
<1> DEFINE from(i) == IF i <= n THEN p[i] ELSE i
<1>4. \A i \in BotPlaces : from(i) \in BotPlaces /\ u[i] = t[from(i)]
  BY <1>1, <1>2, <1>3 DEF BotPlaces
<1>5. \A i, j \in BotPlaces : from(i) = from(j) => i = j
  BY <1>2, <1>3 DEF BotPlaces
<1> HIDE DEF from
<1>6. u \in [BotPlaces -> {Empty} \union {<<s>> : s \in Sightings}]
  <2>1. u = [i \in BotPlaces |-> u[i]]
    BY <1>1
  <2>2. \A i \in BotPlaces : u[i] \in {Empty} \union {<<s>> : s \in Sightings}
    BY <1>4 DEF TableOK
  <2> QED BY <2>1, <2>2
<1>7. \A i, j \in BotPlaces : Used(u, i) /\ Used(u, j) /\ Bot(u, i).id = Bot(u, j).id => i = j
  <2> SUFFICES ASSUME NEW i \in BotPlaces, NEW j \in BotPlaces,
                      Used(u, i), Used(u, j), Bot(u, i).id = Bot(u, j).id
               PROVE  i = j
    OBVIOUS
  <2>1. /\ Used(t, from(i)) /\ Used(t, from(j)) /\ Bot(t, from(i)).id = Bot(t, from(j)).id
        /\ from(i) \in BotPlaces /\ from(j) \in BotPlaces
    BY <1>4 DEF Used, Bot
  <2>2. from(i) = from(j)
    BY <2>1 DEF TableOK
  <2> QED BY <1>5, <2>2
<1>8. ASSUME NEW i \in 1 .. n - 1 PROVE u[i + 1] = Empty \/ Before(u[i], u[i + 1], key)
  <2>1. i \in BotPlaces /\ i + 1 \in BotPlaces /\ i <= n /\ i + 1 <= n
    BY <1>3 DEF BotPlaces
  <2>2. u[i] = t[p[i]] /\ u[i + 1] = t[p[i + 1]]
    BY <1>1, <2>1
  <2> QED BY <1>1, <2>2
<1> QED BY <1>6, <1>7, <1>8 DEF TableOK

\* The empty places are the last.
LEMMA SortedFills ==
  ASSUME NEW t, TableOK(t), NEW n \in 1 .. Tracked + 1, NEW key, NEW u \in Sorted(t, n, key)
  PROVE  Filled(u, n)
<1>1. n \in Nat \ {0} /\ n - 1 \in Nat
  BY PlacesAre
<1> DEFINE T == {m \in 0 .. n - 1 : \A i \in 1 .. m + 1 : Used(u, m + 1) => Used(u, i)}
<1>2. 0 \in T
  BY <1>1
<1>3. ASSUME NEW m \in 0 .. n - 1 - 1, m \in T PROVE m + 1 \in T
  <2>1. m + 1 \in 1 .. n - 1 /\ m + 1 \in 0 .. n - 1
    BY <1>1
  <2>2. u[m + 1 + 1] = Empty \/ Before(u[m + 1], u[m + 1 + 1], key)
    BY <2>1, SortedKeeps
  <2>3. Used(u, m + 1 + 1) => Used(u, m + 1)
    BY <2>2 DEF Used, Before
  <2>4. \A i \in 1 .. m + 1 + 1 : i = m + 1 + 1 \/ i \in 1 .. m + 1
    BY <2>1
  <2> QED BY <1>3, <2>1, <2>3, <2>4
<1> HIDE DEF T
<1>4. 0 .. n - 1 \subseteq T
  BY <1>1, <1>2, <1>3, InductionUpTo
<1>5. ASSUME NEW j \in 1 .. n, NEW i \in 1 .. j, Used(u, j) PROVE Used(u, i)
  <2>1. j - 1 \in 0 .. n - 1 /\ j - 1 + 1 = j
    BY <1>1
  <2>2. \A k \in 1 .. j : Used(u, j) => Used(u, k)
    BY <1>4, <2>1 DEF T
  <2> QED BY <1>5, <2>2
<1> QED BY <1>5 DEF Filled

\* And sorted by bearing they are in the order of it.
LEMMA SortedIsOrdered ==
  ASSUME NEW t, TableOK(t), NEW u \in Sorted(t, Tracked, "bearing")
  PROVE  TableOK(u) /\ Filled(u, Tracked) /\ ByBearing(u, Tracked)
<1>1. Tracked \in Nat \ {0} /\ Tracked - 1 \in Nat /\ Tracked \in 1 .. Tracked + 1
  BY PlacesAre
<1>2. TableOK(u) /\ Filled(u, Tracked)
  BY <1>1, SortedKeeps, SortedFills
<1> DEFINE T == {m \in 0 .. Tracked - 1 : \A i \in 1 .. m + 1 :
                   Used(u, m + 1) => Bot(u, i).bearing <= Bot(u, m + 1).bearing}
<1>3. \A i \in 1 .. Tracked : Used(u, i) => Bot(u, i).bearing \in Int
  <2> SUFFICES ASSUME NEW i \in 1 .. Tracked, Used(u, i) PROVE Bot(u, i).bearing \in Int
    OBVIOUS
  <2>1. i \in BotPlaces
    BY PlacesAre
  <2>2. Bot(u, i).bearing \in -180 .. 180
    BY <1>2, <2>1, BotIs
  <2> QED BY <2>2
<1>4. 0 \in T
  <2>1. \A i \in 1 .. 0 + 1 : i = 1
    OBVIOUS
  <2>2. 1 \in 1 .. Tracked
    BY <1>1
  <2> QED BY <1>1, <1>3, <2>1, <2>2
<1>5. ASSUME NEW m \in 0 .. Tracked - 1 - 1, m \in T PROVE m + 1 \in T
  <2>1. /\ m + 1 \in 1 .. Tracked - 1 /\ m + 1 \in 0 .. Tracked - 1
        /\ m + 1 \in 1 .. Tracked /\ m + 1 + 1 \in 1 .. Tracked /\ m + 1 \in 1 .. m + 1 + 1
    BY <1>1
  <2>2. u[m + 1 + 1] = Empty \/ Before(u[m + 1], u[m + 1 + 1], "bearing")
    BY <1>1, <2>1, SortedKeeps
  <2>3. ASSUME Used(u, m + 1 + 1)
        PROVE  Used(u, m + 1) /\ Bot(u, m + 1).bearing <= Bot(u, m + 1 + 1).bearing
    <3>1. Before(u[m + 1], u[m + 1 + 1], "bearing")
      BY <2>2, <2>3 DEF Used
    <3> QED BY <2>3, <3>1 DEF Used, Before, Bot
  <2>4. ASSUME NEW i \in 1 .. m + 1 + 1, Used(u, m + 1 + 1)
        PROVE  Bot(u, i).bearing <= Bot(u, m + 1 + 1).bearing
    <3>1. i \in 1 .. Tracked /\ Used(u, i)
      <4>1. i \in 1 .. Tracked
        BY <1>1, <2>1
      <4>2. \A l \in 1 .. m + 1 + 1 : Used(u, m + 1 + 1) => Used(u, l)
        BY <1>2, <2>1 DEF Filled
      <4> QED BY <2>4, <4>1, <4>2
    <3>2. CASE i = m + 1 + 1
      BY <1>3, <3>1, <3>2
    <3>3. CASE i # m + 1 + 1
      <4>1. i \in 1 .. m + 1
        BY <2>1, <3>3
      <4>2. Bot(u, i).bearing <= Bot(u, m + 1).bearing
        BY <1>5, <2>3, <2>4, <4>1
      <4>3. /\ Bot(u, i).bearing \in Int /\ Bot(u, m + 1).bearing \in Int
            /\ Bot(u, m + 1 + 1).bearing \in Int
        BY <1>3, <2>1, <2>3, <2>4, <3>1
      <4> QED BY <2>3, <2>4, <4>2, <4>3
    <3> QED BY <3>2, <3>3
  <2> QED BY <2>1, <2>4
<1> HIDE DEF T
<1>6. 0 .. Tracked - 1 \subseteq T
  BY <1>1, <1>4, <1>5, InductionUpTo
<1>7. ASSUME NEW j \in 1 .. Tracked, NEW i \in 1 .. j, Used(u, j)
      PROVE  Bot(u, i).bearing <= Bot(u, j).bearing
  <2>1. j - 1 \in 0 .. Tracked - 1 /\ j - 1 + 1 = j
    BY <1>1
  <2>2. \A k \in 1 .. j : Used(u, j) => Bot(u, k).bearing <= Bot(u, j).bearing
    BY <1>6, <2>1 DEF T
  <2> QED BY <1>7, <2>2
<1> QED BY <1>2, <1>7 DEF ByBearing

----------------------------------------------------------------------------
\* addOtherBot gives a neighbour the place it has, or one that nobody else keeps.
LEMMA HeardOnce ==
  ASSUME NEW t, TableOK(t), Filled(t, Tracked + 1), NEW s \in Sightings
  PROVE  TableOK([t EXCEPT ![PlaceOf(t, s.id)] = <<s>>])
<1> DEFINE own   == {i \in 1 .. Tracked : Used(t, i) /\ Bot(t, i).id = s.id}
           empty == {i \in 1 .. Tracked : ~Used(t, i)}
           first(S) == CHOOSE i \in S : \A j \in S : i <= j
<1>1. Tracked \in Nat /\ BotPlaces = 1 .. Tracked + 1 /\ own \in SUBSET Nat /\ empty \in SUBSET Nat
  BY PlacesAre
<1>2. ASSUME NEW S \in SUBSET Nat, S # {} PROVE first(S) \in S
  <2>1. \E i \in S : \A j \in S : i <= j
    BY <1>2, LeastNatural
  <2> QED BY <2>1
<1>3. PICK p : p = PlaceOf(t, s.id)
  OBVIOUS
<1>4. p = IF own # {} THEN first(own) ELSE IF empty # {} THEN first(empty) ELSE Tracked + 1
  BY <1>3 DEF PlaceOf
<1>5. /\ own # {} => p \in own
      /\ own = {} /\ empty # {} => p \in empty
      /\ own = {} /\ empty = {} => p = Tracked + 1
  <2> HIDE DEF own, empty, first
  <2> QED BY <1>1, <1>2, <1>4
<1>6. p \in BotPlaces
  BY <1>1, <1>5
<1>7. ASSUME NEW i \in BotPlaces, Used(t, i), Bot(t, i).id = s.id PROVE i = p
  <2>1. CASE own # {}
    <3>1. Used(t, p) /\ Bot(t, p).id = s.id
      BY <1>5, <2>1
    <3> QED BY <1>6, <1>7, <3>1 DEF TableOK
  <2>2. CASE own = {}
    <3>1. i = Tracked + 1
      BY <1>1, <1>7, <2>2
    <3>2. \A j \in 1 .. Tracked : Used(t, j)
      <4>1. i \in 1 .. Tracked + 1 /\ \A j \in 1 .. Tracked : j \in 1 .. i
        BY <1>1, <3>1
      <4> QED BY <1>7, <4>1 DEF Filled
    <3> QED BY <1>5, <2>2, <3>1, <3>2
  <2> QED BY <2>1, <2>2
<1> HIDE DEF own, empty, first
<1>8. PICK u : u = [t EXCEPT ![p] = <<s>>]
  OBVIOUS
<1>9. \A i \in BotPlaces : u[i] = IF i = p THEN <<s>> ELSE t[i]
  BY <1>8 DEF TableOK
<1>10. u \in [BotPlaces -> {Empty} \union {<<r>> : r \in Sightings}]
  BY <1>8 DEF TableOK
<1>11. ASSUME NEW i \in BotPlaces, NEW j \in BotPlaces,
              Used(u, i), Used(u, j), Bot(u, i).id = Bot(u, j).id
       PROVE  i = j
  <2>1. CASE i # p /\ j # p
    BY <1>9, <1>11, <2>1 DEF TableOK, Used, Bot
  <2>2. CASE i = p /\ j # p
    <3>1. u[i] = <<s>> /\ u[j] = t[j]
      BY <1>9, <2>2
    <3>2. Used(t, j) /\ Bot(t, j).id = s.id
      BY <1>11, <3>1 DEF Used, Bot
    <3> QED BY <1>7, <2>2, <3>2
  <2>3. CASE i # p /\ j = p
    <3>1. u[j] = <<s>> /\ u[i] = t[i]
      BY <1>9, <2>3
    <3>2. Used(t, i) /\ Bot(t, i).id = s.id
      BY <1>11, <3>1 DEF Used, Bot
    <3> QED BY <1>7, <2>3, <3>2
  <2> QED BY <2>1, <2>2, <2>3
<1> QED BY <1>3, <1>8, <1>10, <1>11 DEF TableOK

----------------------------------------------------------------------------
\* From one bearing ahead to another
LEMMA AheadIs ==
  ASSUME NEW a \in -180 .. 180, NEW b \in -180 .. 180
  PROVE  Ahead(a, b) = IF b - a = 360 THEN 0 ELSE IF b >= a THEN b - a ELSE b - a + 360
BY DEF Ahead

\* The code takes the shorter way round.
LEMMA DifferenceIs ==
  ASSUME NEW a \in -180 .. 180, NEW b \in -180 .. 180
  PROVE  /\ Difference(a, b) = IF Ahead(a, b) <= 180 THEN Ahead(a, b) ELSE 360 - Ahead(a, b)
         /\ Ahead(a, b) \in 0 .. 359
<1>1. Ahead(a, b) = IF b - a = 360 THEN 0 ELSE IF b >= a THEN b - a ELSE b - a + 360
  BY AheadIs
<1>2. Ahead(a, b) \in 0 .. 359
  BY <1>1
<1>3. PICK x \in -360 .. 360 : x = a - b
  OBVIOUS
<1>4. (x + 540) % 360 = IF x < -180 THEN x + 540 ELSE IF x < 180 THEN x + 180 ELSE x - 180
  <2>1. CASE x < -180
    <3>1. x + 540 = 0 * 360 + (x + 540) /\ x + 540 \in 0 .. 360 - 1
      BY <2>1
    <3> QED BY <2>1, <3>1, RemainderIs
  <2>2. CASE ~(x < -180) /\ x < 180
    <3>1. x + 540 = 1 * 360 + (x + 180) /\ x + 180 \in 0 .. 360 - 1
      BY <2>2
    <3> QED BY <2>2, <3>1, RemainderIs
  <2>3. CASE ~(x < -180) /\ ~(x < 180)
    <3>1. x + 540 = 2 * 360 + (x - 180) /\ x - 180 \in 0 .. 360 - 1
      BY <2>3
    <3>2. (2 * 360 + (x - 180)) % 360 = x - 180
      BY <3>1, RemainderIs
    <3> QED BY <2>3, <3>1, <3>2
  <2> QED BY <2>1, <2>2, <2>3
<1>5. PICK r \in Int : r = (x + 540) % 360
  BY <1>4
<1>6. Difference(a, b) = IF r - 180 < 0 THEN 180 - r ELSE r - 180
  <2>1. Difference(a, b) = Magnitude(r - 180)
    BY <1>3, <1>5 DEF Difference
  <2>2. -(r - 180) = 180 - r
    OBVIOUS
  <2> QED BY <2>1, <2>2 DEF Magnitude
<1>7. PICK d \in 0 .. 359 : d = Ahead(a, b)
  BY <1>2
<1>8. Difference(a, b) = IF d <= 180 THEN d ELSE 360 - d
  BY <1>1, <1>3, <1>4, <1>5, <1>6, <1>7
<1> QED BY <1>1, <1>7, <1>8

\* The next neighbour is the one behind in the table, and the first behind the last.
LEMMA NextIs ==
  ASSUME NEW t, NEW i \in UsedPlaces(t), NEW k, k = NextIndex(t, i)
  PROVE  /\ k \in UsedPlaces(t)
         /\ \/ i < k /\ \A j \in UsedPlaces(t) : j <= i \/ k <= j
            \/ k <= i /\ \A j \in UsedPlaces(t) : k <= j /\ j <= i
<1> DEFINE used  == {j \in 1 .. Tracked : Used(t, j)}
           after == {j \in used : j > i}
           from  == IF after # {} THEN after ELSE used
<1>1. used = UsedPlaces(t) /\ used \in SUBSET Nat /\ i \in Nat /\ i \in used
  BY PlacesAre DEF UsedPlaces
<1>2. k = CHOOSE j \in from : \A l \in from : j <= l
  BY DEF NextIndex
<1>3. from \in SUBSET Nat /\ from # {} /\ from \subseteq used
  BY <1>1
<1>4. \E j \in from : \A l \in from : j <= l
  <2> HIDE DEF from
  <2> QED BY <1>3, LeastNatural
<1>5. k \in from /\ \A l \in from : k <= l
  <2> HIDE DEF from
  <2> QED BY <1>2, <1>4
<1>6. CASE after # {}
  <2>1. from = after
    BY <1>6
  <2>2. \A j \in used : j <= i \/ j \in after
    BY <1>1
  <2> QED BY <1>1, <1>5, <2>1, <2>2
<1>7. CASE after = {}
  <2>1. from = used
    BY <1>7
  <2>2. \A j \in used : j <= i
    BY <1>1, <1>7
  <2> HIDE DEF used, after, from
  <2> QED BY <1>1, <1>5, <2>1, <2>2
<1> QED BY <1>6, <1>7

\* It is the nearest ahead.
LEMMA NextIsNearest ==
  ASSUME NEW t, TableOK(t), ByBearing(t, Tracked), AllApart(t), NEW i \in UsedPlaces(t),
         NEW k, k = NextIndex(t, i), k # i, NEW j \in UsedPlaces(t) \ {i, k}
  PROVE  Ahead(Heading(t, i), Heading(t, k)) < Ahead(Heading(t, i), Heading(t, j))
<1>1. /\ k \in UsedPlaces(t)
      /\ \/ i < k /\ \A l \in UsedPlaces(t) : l <= i \/ k <= l
         \/ k <= i /\ \A l \in UsedPlaces(t) : k <= l /\ l <= i
  BY NextIs
<1>2. \A l \in UsedPlaces(t) : /\ l \in 1 .. Tracked /\ l \in Int /\ Used(t, l)
                              /\ Heading(t, l) \in -180 .. 180
  BY BotIs, PlacesAre DEF UsedPlaces, Heading
<1>3. \A l, m \in UsedPlaces(t) : l < m => Heading(t, l) < Heading(t, m) /\ Heading(t, m) - Heading(t, l) < 360
  <2> SUFFICES ASSUME NEW l \in UsedPlaces(t), NEW m \in UsedPlaces(t), l < m
               PROVE  Heading(t, l) < Heading(t, m) /\ Heading(t, m) - Heading(t, l) < 360
    OBVIOUS
  <2>1. l \in 1 .. m /\ m \in 1 .. Tracked /\ Used(t, m) /\ l # m
    BY <1>2
  <2>2. Heading(t, l) <= Heading(t, m)
    BY <2>1 DEF ByBearing, Heading
  <2>3. Ahead(Heading(t, l), Heading(t, m)) # 0
    BY <2>1 DEF AllApart
  <2>4. PICK a \in -180 .. 180 : a = Heading(t, l)
    BY <1>2
  <2>5. PICK b \in -180 .. 180 : b = Heading(t, m)
    BY <1>2
  <2>6. Ahead(a, b) = IF b - a = 360 THEN 0 ELSE IF b >= a THEN b - a ELSE b - a + 360
    BY AheadIs
  <2>7. a <= b /\ Ahead(a, b) # 0
    BY <2>2, <2>3, <2>4, <2>5
  <2>8. a < b /\ b - a < 360
    BY <2>6, <2>7
  <2> QED BY <2>4, <2>5, <2>8
<1>4. PICK a \in -180 .. 180 : a = Heading(t, i)
  BY <1>2
<1>5. PICK b \in -180 .. 180 : b = Heading(t, k)
  BY <1>1, <1>2
<1>6. PICK c \in -180 .. 180 : c = Heading(t, j)
  BY <1>2
<1>7. j # i /\ j # k /\ i \in Int /\ j \in Int /\ k \in Int
  BY <1>1, <1>2
<1> DEFINE ahead(from, to) == IF to - from = 360 THEN 0 ELSE IF to >= from THEN to - from
                              ELSE to - from + 360
<1>10. /\ Ahead(Heading(t, i), Heading(t, k)) = ahead(a, b)
       /\ Ahead(Heading(t, i), Heading(t, j)) = ahead(a, c)
  <2>0. /\ Ahead(Heading(t, i), Heading(t, k)) = Ahead(a, b)
        /\ Ahead(Heading(t, i), Heading(t, j)) = Ahead(a, c)
    BY <1>4, <1>5, <1>6
  <2>1. Ahead(a, b) = ahead(a, b)
    BY AheadIs
  <2>2. Ahead(a, c) = ahead(a, c)
    BY AheadIs
  <2> HIDE DEF ahead
  <2> QED BY <2>0, <2>1, <2>2
<1>8. CASE i < k
  <2>1. a < b /\ b - a < 360
    BY <1>1, <1>3, <1>4, <1>5, <1>8
  <2>2. CASE j < i
    <3>1. c < a /\ c < b /\ b - c < 360
      <4>1. j < k
        BY <1>7, <1>8, <2>2
      <4> QED BY <1>1, <1>3, <1>4, <1>5, <1>6, <2>2, <4>1
    <3> QED BY <1>10, <2>1, <3>1
  <2>3. CASE k < j
    <3>1. b < c /\ a < c /\ c - a < 360
      <4>1. i < j
        BY <1>7, <1>8, <2>3
      <4> QED BY <1>1, <1>3, <1>4, <1>5, <1>6, <2>3, <4>1
    <3> QED BY <1>10, <2>1, <3>1
  <2> QED BY <1>1, <1>7, <1>8, <2>2, <2>3
<1>9. CASE ~(i < k)
  <2>1. k < j /\ j < i /\ k < i
    BY <1>1, <1>7, <1>9
  <2>2. b < c /\ c < a /\ b < a /\ a - b < 360 /\ a - c < 360
    BY <1>1, <1>3, <1>4, <1>5, <1>6, <2>1
  <2> QED BY <1>10, <2>2
<1> QED BY <1>8, <1>9

----------------------------------------------------------------------------
BotsOf(t)     == {t[i][1] : i \in {i \in 1 .. Tracked : Used(t, i)}}
EdgeOf(t, i)  == <<Bot(t, i).id, Bot(t, NextIndex(t, i)).id>>
WidePlaces(t) == {i \in 1 .. Tracked : Wide(t, Circle(t), i)}

\* The edges for the gaps of more than 120 and less than 240 degrees
GapEdges(t) ==
  {<<p[1].id, p[2].id>> : p \in
     {p \in BotsOf(t) \X BotsOf(t) :
        Gap(p[1], p[2], BotsOf(t)) /\ Ahead(p[1].bearing, p[2].bearing) < 240}}

\* The neighbours at two places are two.
LEMMA BotsDiffer ==
  ASSUME NEW t, TableOK(t), NEW i \in UsedPlaces(t), NEW j \in UsedPlaces(t)
  PROVE  Bot(t, i).id = Bot(t, j).id => i = j
BY PlacesAre DEF TableOK, UsedPlaces

LEMMA WideIs ==
  ASSUME NEW t, TableOK(t), NEW i
  PROVE  i \in WidePlaces(t) <=>
           /\ i \in UsedPlaces(t) /\ NextIndex(t, i) # i
           /\ 120 < Ahead(Heading(t, i), Heading(t, NextIndex(t, i)))
           /\ Ahead(Heading(t, i), Heading(t, NextIndex(t, i))) < 240
<1>1. DOMAIN Circle(t) = {j \in UsedPlaces(t) : NextIndex(t, j) # j}
  BY DEF Circle, UsedPlaces
<1>2. \A j \in DOMAIN Circle(t) : Circle(t)[j] = NextIndex(t, j)
  BY DEF Circle
<1>3. UsedPlaces(t) \subseteq 1 .. Tracked
  BY DEF UsedPlaces
<1>4. i \in WidePlaces(t) <=>
        /\ i \in UsedPlaces(t) /\ NextIndex(t, i) # i
        /\ Difference(Heading(t, i), Heading(t, NextIndex(t, i))) > 120
  BY <1>1, <1>2, <1>3 DEF WidePlaces, Wide, Heading
<1>5. ASSUME i \in UsedPlaces(t)
      PROVE  Difference(Heading(t, i), Heading(t, NextIndex(t, i))) > 120 <=>
               /\ 120 < Ahead(Heading(t, i), Heading(t, NextIndex(t, i)))
               /\ Ahead(Heading(t, i), Heading(t, NextIndex(t, i))) < 240
  <2>1. PICK k : k = NextIndex(t, i)
    OBVIOUS
  <2>2. k \in UsedPlaces(t)
    BY <1>5, <2>1, NextIs
  <2>3. \A l \in UsedPlaces(t) : Heading(t, l) \in -180 .. 180
    BY BotIs, PlacesAre DEF UsedPlaces, Heading
  <2>4. PICK a \in -180 .. 180 : a = Heading(t, i)
    BY <1>5, <2>3
  <2>5. PICK b \in -180 .. 180 : b = Heading(t, k)
    BY <2>2, <2>3
  <2>6. PICK d \in 0 .. 359 : d = Ahead(a, b)
    BY DifferenceIs
  <2>7. Difference(a, b) = IF d <= 180 THEN d ELSE 360 - d
    <3>1. Difference(a, b) = IF Ahead(a, b) <= 180 THEN Ahead(a, b) ELSE 360 - Ahead(a, b)
      BY DifferenceIs
    <3> QED BY <2>6, <3>1
  <2>8. Difference(a, b) > 120 <=> 120 < Ahead(a, b) /\ Ahead(a, b) < 240
    <3>1. PICK z \in Int : z = Difference(a, b)
      BY <2>7
    <3>2. z > 120 <=> 120 < d /\ d < 240
      BY <2>7, <3>1
    <3> QED BY <2>6, <3>1, <3>2
  <2> QED BY <2>1, <2>4, <2>5, <2>8
<1> QED BY <1>4, <1>5

\* The wide gaps are those from a neighbour to the one after it.
LEMMA GapsAreWidePlaces ==
  ASSUME NEW t, TableOK(t), ByBearing(t, Tracked), AllApart(t)
  PROVE  GapEdges(t) = {EdgeOf(t, i) : i \in WidePlaces(t)}
<1> DEFINE Gaps == {p \in BotsOf(t) \X BotsOf(t) :
                      Gap(p[1], p[2], BotsOf(t)) /\ Ahead(p[1].bearing, p[2].bearing) < 240}
<1>1. /\ \A e \in BotsOf(t) : \E i \in UsedPlaces(t) : e = Bot(t, i)
      /\ \A i \in UsedPlaces(t) : Bot(t, i) \in BotsOf(t)
  BY DEF BotsOf, UsedPlaces, Bot
<1>2. \A l \in UsedPlaces(t) : l \in Int /\ Heading(t, l) = Bot(t, l).bearing
                              /\ Heading(t, l) \in -180 .. 180
  BY BotIs, PlacesAre DEF UsedPlaces, Heading
<1>3. \A l, m \in UsedPlaces(t) : Ahead(Heading(t, l), Heading(t, m)) \in 0 .. 359
  BY <1>2, DifferenceIs
<1>4. ASSUME NEW i \in WidePlaces(t) PROVE \E p \in Gaps : EdgeOf(t, i) = <<p[1].id, p[2].id>>
  <2>1. PICK k : k = NextIndex(t, i)
    OBVIOUS
  <2>2. /\ i \in UsedPlaces(t) /\ k # i
        /\ 120 < Ahead(Heading(t, i), Heading(t, k)) /\ Ahead(Heading(t, i), Heading(t, k)) < 240
    BY <2>1, WideIs
  <2>3. k \in UsedPlaces(t)
    BY <2>1, <2>2, NextIs
  <2>4. PICK e \in BotsOf(t) : e = Bot(t, i)
    BY <1>1, <2>2
  <2>5. PICK f \in BotsOf(t) : f = Bot(t, k)
    BY <1>1, <2>3
  <2>6. e # f
    BY <2>2, <2>3, <2>4, <2>5, BotsDiffer
  <2>7. ASSUME NEW g \in BotsOf(t) \ {e, f}
        PROVE  Ahead(e.bearing, g.bearing) >= Ahead(e.bearing, f.bearing)
    <3>1. PICK j \in UsedPlaces(t) : g = Bot(t, j)
      BY <1>1
    <3>2. j # i /\ j # k
      BY <2>4, <2>5, <3>1
    <3>3. Ahead(Heading(t, i), Heading(t, k)) < Ahead(Heading(t, i), Heading(t, j))
      BY <2>1, <2>2, <3>2, NextIsNearest
    <3>4. e.bearing = Heading(t, i) /\ f.bearing = Heading(t, k) /\ g.bearing = Heading(t, j)
      BY <1>2, <2>2, <2>3, <2>4, <2>5, <3>1
    <3>5. PICK x \in Int : x = Ahead(Heading(t, i), Heading(t, k))
      BY <1>3, <2>2, <2>3
    <3>6. PICK y \in Int : y = Ahead(Heading(t, i), Heading(t, j))
      BY <1>3, <2>2
    <3>7. y >= x
      BY <3>3, <3>5, <3>6
    <3> QED BY <3>4, <3>5, <3>6, <3>7
  <2>8. e.bearing = Heading(t, i) /\ f.bearing = Heading(t, k)
    BY <1>2, <2>2, <2>3, <2>4, <2>5
  <2>9. PICK x \in Int : x = Ahead(Heading(t, i), Heading(t, k))
    BY <1>3, <2>2, <2>3
  <2>10. Ahead(e.bearing, f.bearing) > 120 /\ Ahead(e.bearing, f.bearing) < 240
    <3>1. x > 120 /\ x < 240
      BY <2>2, <2>9
    <3> QED BY <2>8, <2>9, <3>1
  <2>11. Gap(e, f, BotsOf(t))
    BY <2>6, <2>7, <2>10 DEF Gap
  <2>12. <<e, f>> \in Gaps
    BY <2>10, <2>11
  <2>13. EdgeOf(t, i) = <<e.id, f.id>>
    BY <2>1, <2>4, <2>5 DEF EdgeOf
  <2> HIDE DEF Gaps
  <2>14. PICK p : p = <<e, f>>
    OBVIOUS
  <2>15. p \in Gaps /\ p[1] = e /\ p[2] = f
    BY <2>12, <2>14
  <2> QED BY <2>13, <2>15
<1>5. ASSUME NEW p \in Gaps PROVE \E i \in WidePlaces(t) : EdgeOf(t, i) = <<p[1].id, p[2].id>>
  <2>1. PICK e \in BotsOf(t) : e = p[1]
    OBVIOUS
  <2>2. PICK f \in BotsOf(t) : f = p[2]
    OBVIOUS
  <2>3. Gap(e, f, BotsOf(t)) /\ Ahead(e.bearing, f.bearing) < 240
    BY <2>1, <2>2
  <2>4. /\ e # f /\ Ahead(e.bearing, f.bearing) > 120
        /\ \A g \in BotsOf(t) \ {e, f} : Ahead(e.bearing, g.bearing) >= Ahead(e.bearing, f.bearing)
    BY <2>3 DEF Gap
  <2>5. PICK i \in UsedPlaces(t) : e = Bot(t, i)
    BY <1>1
  <2>6. PICK j \in UsedPlaces(t) : f = Bot(t, j)
    BY <1>1
  <2>7. PICK k : k = NextIndex(t, i)
    OBVIOUS
  <2>8. /\ k \in UsedPlaces(t)
        /\ \/ i < k /\ \A l \in UsedPlaces(t) : l <= i \/ k <= l
           \/ k <= i /\ \A l \in UsedPlaces(t) : k <= l /\ l <= i
    BY <2>7, NextIs
  <2>9. i # j /\ k # i
    <3>1. i # j
      BY <2>4, <2>5, <2>6
    <3>2. ASSUME k = i PROVE FALSE
      <4>1. i <= j /\ j <= i /\ i \in Int /\ j \in Int
        BY <1>2, <2>8, <3>2
      <4> QED BY <3>1, <4>1
    <3> QED BY <3>1, <3>2
  <2>10. e.bearing = Heading(t, i) /\ f.bearing = Heading(t, j)
    BY <1>2, <2>5, <2>6
  <2>11. j = k
    <3> SUFFICES ASSUME j # k PROVE FALSE
      OBVIOUS
    <3>1. Ahead(Heading(t, i), Heading(t, k)) < Ahead(Heading(t, i), Heading(t, j))
      BY <2>7, <2>9, NextIsNearest
    <3>2. PICK g \in BotsOf(t) : g = Bot(t, k)
      BY <1>1, <2>8
    <3>3. g # e /\ g # f
      BY <2>5, <2>6, <2>8, <2>9, <3>2, BotsDiffer
    <3>4. g.bearing = Heading(t, k)
      BY <1>2, <2>8, <3>2
    <3>5. Ahead(Heading(t, i), Heading(t, k)) >= Ahead(Heading(t, i), Heading(t, j))
      BY <2>4, <2>10, <3>3, <3>4
    <3>6. PICK x \in Int : x = Ahead(Heading(t, i), Heading(t, k))
      BY <1>3, <2>8
    <3>7. PICK y \in Int : y = Ahead(Heading(t, i), Heading(t, j))
      BY <1>3
    <3> QED BY <3>1, <3>5, <3>6, <3>7
  <2>12. PICK x \in Int : x = Ahead(Heading(t, i), Heading(t, k))
    BY <1>3, <2>8
  <2>13. x > 120 /\ x < 240
    BY <2>3, <2>4, <2>10, <2>11, <2>12
  <2>14. i \in WidePlaces(t)
    <3>1. 120 < x /\ x < 240
      BY <2>13
    <3> QED BY <2>7, <2>9, <2>12, <3>1, WideIs
  <2>15. EdgeOf(t, i) = <<e.id, f.id>>
    BY <2>5, <2>6, <2>7, <2>11 DEF EdgeOf
  <2> HIDE DEF Gaps
  <2> QED BY <2>1, <2>2, <2>14, <2>15
<1> HIDE DEF Gaps
<1>6. {<<p[1].id, p[2].id>> : p \in Gaps} = {EdgeOf(t, i) : i \in WidePlaces(t)}
  BY <1>4, <1>5
<1> QED BY <1>6 DEF Gaps, GapEdges

\* One turn of the loop of updateHardEdges
EdgesTurn(t, edges, i) == IF i \in WidePlaces(t) THEN Append(edges, EdgeOf(t, i)) ELSE edges

AllEdges(t) == {EdgeOf(t, i) : i \in 1 .. Tracked}

\* The edges are those of the wide places up to a place, each of them once.
EdgesUpTo(t, edges, n) ==
  /\ edges \in Seq(AllEdges(t))
  /\ {edges[k] : k \in 1 .. Len(edges)} = {EdgeOf(t, j) : j \in {j \in WidePlaces(t) : j <= n}}
  /\ \A k, l \in 1 .. Len(edges) : edges[k] = edges[l] => k = l

\* The loop runs from one place to the next.
LEMMA EdgesTurns ==
  ASSUME NEW t
  PROVE  \E f : /\ f[0] = <<>>
                /\ \A n \in 1 .. Tracked : f[n] = EdgesTurn(t, f[n - 1], n)
                /\ Edges(t, Circle(t)) = f[Tracked]
<1>1. Tracked \in Nat
  BY PlacesAre
<1> DEFINE S == Seq(AllEdges(t))
<1>2. <<>> \in S
  OBVIOUS
<1>3. PICK g : g = [n \in 1 .. Tracked |-> [e \in S |-> EdgesTurn(t, e, n)]]
  OBVIOUS
<1>4. g \in StepsUpTo(Tracked, S)
  <2>1. \A n \in 1 .. Tracked : EdgeOf(t, n) \in AllEdges(t)
    BY DEF AllEdges
  <2>2. \A n \in 1 .. Tracked : \A e \in S : EdgesTurn(t, e, n) \in S
    BY <2>1 DEF EdgesTurn
  <2>3. \A n \in 1 .. Tracked : g[n] \in [S -> S]
    BY <1>3, <2>2
  <2> QED BY <1>3, <2>3 DEF StepsUpTo
<1>5. PICK h : Follows(h, <<>>, g, Tracked, S)
  BY <1>1, <1>2, <1>4, RecursionUpTo
<1>6. /\ h \in [0 .. Tracked -> S] /\ h[0] = <<>>
      /\ \A n \in 1 .. Tracked : h[n] = EdgesTurn(t, h[n - 1], n)
  <2>1. ASSUME NEW n \in 1 .. Tracked PROVE h[n] = EdgesTurn(t, h[n - 1], n)
    <3>1. n - 1 \in 0 .. Tracked
      BY <1>1
    <3>2. h[n - 1] \in S /\ h[n] = g[n][h[n - 1]]
      BY <1>5, <3>1 DEF Follows
    <3> QED BY <1>3, <3>2
  <2> QED BY <1>5, <2>1 DEF Follows
<1> DEFINE turn(f) == [n \in 0 .. Tracked |-> IF n = 0 THEN <<>> ELSE EdgesTurn(t, f[n - 1], n)]
           loop(f) == [i \in 0 .. Tracked |->
                         IF i = 0 THEN <<>>
                         ELSE IF Wide(t, Circle(t), i)
                              THEN addHardEdge(f[i - 1], Bot(t, i), Bot(t, Circle(t)[i]))
                              ELSE f[i - 1]]
           upTo == CHOOSE f : f = loop(f)
<1>7. \A f : loop(f) = turn(f)
  <2> SUFFICES ASSUME NEW f PROVE loop(f) = turn(f)
    OBVIOUS
  <2>1. ASSUME NEW i \in 1 .. Tracked
        PROVE  (IF Wide(t, Circle(t), i)
                THEN addHardEdge(f[i - 1], Bot(t, i), Bot(t, Circle(t)[i]))
                ELSE f[i - 1]) = EdgesTurn(t, f[i - 1], i)
    <3>1. Wide(t, Circle(t), i) <=> i \in WidePlaces(t)
      BY DEF WidePlaces
    <3>2. Wide(t, Circle(t), i) => Circle(t)[i] = NextIndex(t, i)
      BY DEF Wide, Circle
    <3>3. ASSUME Wide(t, Circle(t), i)
          PROVE  addHardEdge(f[i - 1], Bot(t, i), Bot(t, Circle(t)[i])) = Append(f[i - 1], EdgeOf(t, i))
      BY <3>2, <3>3 DEF addHardEdge, EdgeOf
    <3> QED BY <3>1, <3>3 DEF EdgesTurn
  <2>2. \A i \in 0 .. Tracked : i = 0 \/ i \in 1 .. Tracked
    BY <1>1
  <2>3. \A i \in 0 .. Tracked : loop(f)[i] = turn(f)[i]
    BY <2>1, <2>2
  <2> QED BY <2>3
<1>8. Edges(t, Circle(t)) = upTo[Tracked]
  BY DEF Edges
<1>9. h = turn(h)
  BY <1>6
<1>10. upTo = loop(upTo)
  <2>1. h = loop(h)
    BY <1>7, <1>9
  <2> QED BY <2>1
<1> HIDE DEF upTo
<1>11. upTo = turn(upTo)
  BY <1>7, <1>10
<1> HIDE DEF loop
<1>12. /\ upTo[0] = <<>>
       /\ \A n \in 1 .. Tracked : upTo[n] = EdgesTurn(t, upTo[n - 1], n)
  BY <1>1, <1>11
<1> QED BY <1>8, <1>12

LEMMA EdgesAre ==
  ASSUME NEW t, TableOK(t)
  PROVE  EdgesUpTo(t, Edges(t, Circle(t)), Tracked)
<1>1. Tracked \in Nat
  BY PlacesAre
<1>2. PICK f : /\ f[0] = <<>>
               /\ \A n \in 1 .. Tracked : f[n] = EdgesTurn(t, f[n - 1], n)
               /\ Edges(t, Circle(t)) = f[Tracked]
  BY EdgesTurns
<1>3. WidePlaces(t) \subseteq 1 .. Tracked /\ WidePlaces(t) \subseteq UsedPlaces(t)
  BY WideIs DEF WidePlaces
<1> DEFINE T == {n \in 0 .. Tracked : EdgesUpTo(t, f[n], n)}
<1>4. 0 \in T
  <2>1. {j \in WidePlaces(t) : j <= 0} = {}
    BY <1>1, <1>3
  <2>2. f[0] \in Seq(AllEdges(t)) /\ Len(f[0]) = 0 /\ 1 .. Len(f[0]) = {}
    BY <1>2
  <2> QED BY <1>1, <2>1, <2>2 DEF EdgesUpTo
<1>5. ASSUME NEW n \in 0 .. Tracked - 1, n \in T PROVE n + 1 \in T
  <2>1. n + 1 \in 1 .. Tracked /\ n + 1 - 1 = n /\ n + 1 \in 0 .. Tracked
    BY <1>1
  <2>2. PICK e : e = f[n]
    OBVIOUS
  <2>3. EdgesUpTo(t, e, n) /\ f[n + 1] = EdgesTurn(t, e, n + 1)
    BY <1>2, <1>5, <2>1, <2>2
  <2>4. CASE n + 1 \notin WidePlaces(t)
    <3>1. f[n + 1] = e
      BY <2>3, <2>4 DEF EdgesTurn
    <3>2. \A j \in WidePlaces(t) : j <= n <=> j <= n + 1
      BY <1>1, <1>3, <2>4
    <3>3. {j \in WidePlaces(t) : j <= n} = {j \in WidePlaces(t) : j <= n + 1}
      BY <3>2
    <3>4. EdgesUpTo(t, e, n + 1)
      BY <2>3, <3>3 DEF EdgesUpTo
    <3> QED BY <2>1, <3>1, <3>4
  <2>5. CASE n + 1 \in WidePlaces(t)
    <3>1. PICK x : x = EdgeOf(t, n + 1)
      OBVIOUS
    <3>2. PICK d : d = Append(e, x)
      OBVIOUS
    <3>3. x \in AllEdges(t)
      BY <2>1, <3>1 DEF AllEdges
    <3>4. /\ e \in Seq(AllEdges(t))
          /\ {e[k] : k \in 1 .. Len(e)} = {EdgeOf(t, j) : j \in {j \in WidePlaces(t) : j <= n}}
          /\ \A k, l \in 1 .. Len(e) : e[k] = e[l] => k = l
      BY <2>3 DEF EdgesUpTo
    <3>5. /\ d \in Seq(AllEdges(t)) /\ Len(e) \in Nat /\ Len(d) = Len(e) + 1 /\ d[Len(e) + 1] = x
          /\ \A k \in 1 .. Len(e) : d[k] = e[k]
      BY <3>2, <3>3, <3>4
    <3>6. \A k \in 1 .. Len(d) : k \in 1 .. Len(e) \/ k = Len(e) + 1
      BY <3>5
    <3>7. 1 .. Len(e) \subseteq 1 .. Len(d) /\ Len(e) + 1 \in 1 .. Len(d)
      BY <3>5
    <3>8. \A j \in WidePlaces(t) : j <= n + 1 <=> j <= n \/ j = n + 1
      BY <1>1, <1>3
    <3>9. \A j \in WidePlaces(t) : j <= n => EdgeOf(t, j) # x
      <4> SUFFICES ASSUME NEW j \in WidePlaces(t), j <= n, EdgeOf(t, j) = x PROVE FALSE
        OBVIOUS
      <4>1. Bot(t, j).id = Bot(t, n + 1).id
        BY <3>1 DEF EdgeOf
      <4>2. j = n + 1
        BY <1>3, <2>5, <4>1, BotsDiffer
      <4> QED BY <1>1, <1>3, <4>2
    <3>10. \A k \in 1 .. Len(e) : e[k] # x
      BY <3>4, <3>9
    <3>11. {d[k] : k \in 1 .. Len(d)} = {e[k] : k \in 1 .. Len(e)} \union {x}
      BY <3>5, <3>6, <3>7
    <3>12. {EdgeOf(t, j) : j \in {j \in WidePlaces(t) : j <= n + 1}}
             = {EdgeOf(t, j) : j \in {j \in WidePlaces(t) : j <= n}} \union {x}
      BY <2>5, <3>1, <3>8
    <3>13. \A k, l \in 1 .. Len(d) : d[k] = d[l] => k = l
      BY <3>4, <3>5, <3>6, <3>10
    <3>14. EdgesUpTo(t, d, n + 1)
      BY <3>4, <3>5, <3>11, <3>12, <3>13 DEF EdgesUpTo
    <3>15. f[n + 1] = d
      BY <2>3, <2>5, <3>1, <3>2 DEF EdgesTurn
    <3> QED BY <2>1, <3>14, <3>15
  <2> QED BY <2>4, <2>5
<1> HIDE DEF T
<1>6. 0 .. Tracked \subseteq T
  BY <1>1, <1>4, <1>5, InductionUpTo
<1>7. EdgesUpTo(t, f[Tracked], Tracked)
  BY <1>1, <1>6 DEF T
<1> QED BY <1>2, <1>7

----------------------------------------------------------------------------
\* What is made of a table in order is right.
LEMMA EdgesAreRight ==
  ASSUME NEW t, TableOK(t), ByBearing(t, Tracked), AllApart(t), NEW edges, edges = Edges(t, Circle(t))
  PROVE  /\ {edges[k] : k \in DOMAIN edges} = GapEdges(t)
         /\ Cardinality({edges[k] : k \in DOMAIN edges}) = Len(edges)
<1>1. Tracked \in Nat /\ WidePlaces(t) \subseteq 1 .. Tracked
  BY PlacesAre DEF WidePlaces
<1>2. /\ edges \in Seq(AllEdges(t))
      /\ {edges[k] : k \in 1 .. Len(edges)} = {EdgeOf(t, j) : j \in {j \in WidePlaces(t) : j <= Tracked}}
      /\ \A k, l \in 1 .. Len(edges) : edges[k] = edges[l] => k = l
  <2>1. EdgesUpTo(t, edges, Tracked)
    BY EdgesAre
  <2> QED BY <2>1 DEF EdgesUpTo
<1>3. DOMAIN edges = 1 .. Len(edges) /\ Len(edges) \in Nat
  BY <1>2
<1>4. {j \in WidePlaces(t) : j <= Tracked} = WidePlaces(t)
  BY <1>1
<1>5. {edges[k] : k \in DOMAIN edges} = {EdgeOf(t, j) : j \in WidePlaces(t)}
  BY <1>2, <1>3, <1>4
<1>6. PICK S : S = {edges[k] : k \in DOMAIN edges}
  OBVIOUS
<1>7. edges \in Bijection(1 .. Len(edges), S)
  <2>1. edges \in [1 .. Len(edges) -> S]
    <3>1. edges = [k \in 1 .. Len(edges) |-> edges[k]]
      BY <1>2, <1>3
    <3>2. \A k \in 1 .. Len(edges) : edges[k] \in S
      BY <1>3, <1>6
    <3> QED BY <3>1, <3>2
  <2>2. IsInjective(edges)
    BY <1>2, <1>3 DEF IsInjective
  <2>3. \A s \in S : \E k \in 1 .. Len(edges) : edges[k] = s
    BY <1>3, <1>6
  <2> QED BY <2>1, <2>2, <2>3 DEF Bijection, Injection, Surjection
<1>8. Cardinality(S) = Len(edges)
  BY <1>3, <1>7, FS_CountingElements DEF ExistsBijection
<1> QED BY <1>5, <1>6, <1>8, GapsAreWidePlaces

BotsInv == TableOK(nearBots) /\ EdgesAreGaps

LEMMA BotsInitially == BotsInit => BotsInv
<1> SUFFICES ASSUME BotsInit PROVE BotsInv
  OBVIOUS
<1>1. \A i \in BotPlaces : nearBots[i] = Empty
  BY DEF BotsInit
<1>2. nearBots \in [BotPlaces -> {Empty} \union {<<s>> : s \in Sightings}]
  BY DEF BotsInit
<1>3. TableOK(nearBots)
  BY <1>1, <1>2 DEF TableOK, Used
<1>4. EdgesAreGaps
  BY DEF EdgesAreGaps, FrameEnds, BotsInit
<1> QED BY <1>3, <1>4 DEF BotsInv

LEMMA BotIsHeard ==
  ASSUME BotsInv, NEW s \in Sightings, handleBotPosMsg(s)
  PROVE  BotsInv'
<1>1. PICK t \in Arranged(nearBots) : nearBots' = [t EXCEPT ![PlaceOf(t, s.id)] = <<s>>]
  BY DEF handleBotPosMsg
<1>2. t \in Sorted(nearBots, Tracked + 1, "dist") /\ Tracked + 1 \in 1 .. Tracked + 1 /\ TableOK(nearBots)
  BY <1>1, PlacesAre DEF Arranged, ByDistance, BotsInv
<1>3. TableOK(t) /\ Filled(t, Tracked + 1)
  BY <1>2, SortedKeeps, SortedFills
<1>4. TableOK([t EXCEPT ![PlaceOf(t, s.id)] = <<s>>])
  BY <1>3, HeardOnce
<1>5. PICK u : u = [t EXCEPT ![PlaceOf(t, s.id)] = <<s>>]
  OBVIOUS
<1>6. TableOK(u) /\ nearBots' = u
  BY <1>1, <1>4, <1>5
<1>7. TableOK(nearBots)'
  BY <1>6 DEF TableOK, Used, Bot
<1>8. framed' = FALSE
  BY DEF handleBotPosMsg
<1>9. EdgesAreGaps'
  BY <1>8 DEF EdgesAreGaps, FrameEnds
<1> QED BY <1>7, <1>9 DEF BotsInv

LEMMA EdgesAreMade ==
  ASSUME BotsInv, updateHardEdges
  PROVE  BotsInv'
<1>1. PICK ranked \in ByDistance(nearBots) : \E table \in Sorted(ranked, Tracked, "bearing") :
        nearBots' = table /\ hardEdges' = Edges(table, Circle(table))
  BY DEF updateHardEdges
<1>2. PICK t \in Sorted(ranked, Tracked, "bearing") : nearBots' = t /\ hardEdges' = Edges(t, Circle(t))
  BY <1>1
<1>3. Tracked + 1 \in 1 .. Tracked + 1 /\ TableOK(nearBots) /\ ranked \in Sorted(nearBots, Tracked + 1, "dist")
  BY <1>1, PlacesAre DEF ByDistance, BotsInv
<1>4. TableOK(ranked)
  BY <1>3, SortedKeeps
<1>5. TableOK(t) /\ ByBearing(t, Tracked)
  BY <1>4, SortedIsOrdered
<1>6. TableOK(nearBots)'
  BY <1>2, <1>5 DEF TableOK, Used, Bot
<1>7. TrackedBots' = BotsOf(t)
  BY <1>2 DEF TrackedBots, BotsOf, Used
<1>8. PICK edges : edges = Edges(t, Circle(t))
  OBVIOUS
<1>9. EdgeSet' = {edges[k] : k \in DOMAIN edges} /\ Len(hardEdges') = Len(edges)
  BY <1>2, <1>8 DEF EdgeSet
<1>10. ASSUME \A g, h \in BotsOf(t) : g # h => Ahead(g.bearing, h.bearing) # 0
       PROVE  AllApart(t)
  <2> SUFFICES ASSUME NEW i \in UsedPlaces(t), NEW j \in UsedPlaces(t), i # j
               PROVE  Ahead(Heading(t, i), Heading(t, j)) # 0
    BY DEF AllApart
  <2>1. Bot(t, i) \in BotsOf(t) /\ Bot(t, j) \in BotsOf(t)
    BY DEF BotsOf, UsedPlaces, Bot
  <2>2. Bot(t, i) # Bot(t, j)
    BY <1>5, BotsDiffer
  <2> QED BY <1>10, <2>1, <2>2 DEF Heading
<1>11. ASSUME \A g, h \in BotsOf(t) : g # h => Ahead(g.bearing, h.bearing) # 0
       PROVE  EdgeSet' = GapEdges(t) /\ Cardinality(EdgeSet') = Len(hardEdges')
  <2>1. AllApart(t)
    BY <1>10, <1>11
  <2>2. /\ {edges[k] : k \in DOMAIN edges} = GapEdges(t)
        /\ Cardinality({edges[k] : k \in DOMAIN edges}) = Len(edges)
    BY <1>5, <1>8, <2>1, EdgesAreRight
  <2> QED BY <1>9, <2>2
<1>12. PICK pairs : pairs = {p \in BotsOf(t) \X BotsOf(t) : Gap(p[1], p[2], BotsOf(t))}
  OBVIOUS
<1>13. GapPairs' = pairs
  BY <1>7, <1>12 DEF GapPairs
<1>14. /\ GapEdges(t) \subseteq {EdgeFor(p) : p \in pairs}
       /\ \A p \in pairs : Ahead(p[1].bearing, p[2].bearing) < 240 => EdgeFor(p) \in GapEdges(t)
  BY <1>12 DEF GapEdges, EdgeFor
<1>15. FrameEnds' => \A g, h \in BotsOf(t) : g # h => Ahead(g.bearing, h.bearing) # 0
  BY <1>7 DEF FrameEnds
<1>16. EdgesAreGaps'
  <2> SUFFICES ASSUME FrameEnds'
               PROVE  /\ EdgeSet' \subseteq {EdgeFor(p) : p \in GapPairs'}
                      /\ \A p \in GapPairs' : Ahead(p[1].bearing, p[2].bearing) < 240 => EdgeFor(p) \in EdgeSet'
                      /\ Cardinality(EdgeSet') = Len(hardEdges')
    BY DEF EdgesAreGaps
  <2> QED BY <1>11, <1>13, <1>14, <1>15
<1> QED BY <1>6, <1>16 DEF BotsInv

\* With any table and any neighbours, the edges of a frame are gaps of more than 120
\* degrees, every one of them below 240, each of them once: updateHardEdges closes the
\* circle and passes nobody over.
THEOREM EdgesDoCloseGaps == BotsSpec => []EdgesAreGaps
<1>1. BotsInit => BotsInv
  BY BotsInitially
<1>2. BotsInv /\ [BotsNext]_botsVars => BotsInv'
  <2> SUFFICES ASSUME BotsInv, [BotsNext]_botsVars PROVE BotsInv'
    OBVIOUS
  <2>1. CASE UNCHANGED botsVars
    <3>1. nearBots' = nearBots /\ hardEdges' = hardEdges /\ framed' = framed
      BY <2>1 DEF botsVars
    <3>2. TableOK(nearBots)'
      BY <3>1 DEF BotsInv, TableOK, Used, Bot
    <3>3. TrackedBots' = TrackedBots /\ EdgeSet' = EdgeSet
      BY <3>1 DEF TrackedBots, EdgeSet, Used
    <3>4. EdgesAreGaps'
      BY <3>1, <3>3 DEF BotsInv, EdgesAreGaps, FrameEnds, GapPairs
    <3> QED BY <3>2, <3>4 DEF BotsInv
  <2>2. ASSUME NEW s \in Sightings, handleBotPosMsg(s) PROVE BotsInv'
    BY <2>2, BotIsHeard
  <2>3. CASE updateHardEdges
    BY <2>3, EdgesAreMade
  <2> QED BY <2>1, <2>2, <2>3 DEF BotsNext
<1>3. BotsInv => EdgesAreGaps
  BY DEF BotsInv
<1> QED BY <1>1, <1>2, <1>3, PTL DEF BotsSpec
=============================================================================
