------------------------------ MODULE PongBots ------------------------------
(***************************************************************************)
(* The neighbours of a droplet in the pong program: pong.c, the table      *)
(* nearBots and the hard edges made of it at the end of every frame.       *)
(*                                                                         *)
(* The table has one place more than the droplets it tracks.  It is sorted *)
(* by distance, with the empty places last, before a neighbour is added,   *)
(* so that the spare place holds the farthest of them, and by bearing for  *)
(* the edges.  All of it runs in the main loop.  A position is a distance  *)
(* and a bearing, in degrees; qsort may order equals either way.           *)
(***************************************************************************)
EXTENDS Integers, Sequences, FiniteSets

CONSTANTS
  Tracked,   \* NUM_TRACKED_BOTS
  Sightings, \* who may be heard where: records [id, dist, bearing]
  MaxHeard   \* bounds the positions heard

BotsAssumption ==
  /\ Tracked \in Nat \ {0} /\ MaxHeard \in Nat
  /\ \A s \in Sightings : s.dist \in Nat /\ s.bearing \in -180 .. 180
ASSUME BotsAssumption

VARIABLES
  nearBots,  \* the table: sequences of at most one neighbour
  hardEdges, \* pairs of neighbours, in the order of the list
  framed,    \* the edges are those of the table
  heardCount

botsVars == <<nearBots, hardEdges, framed, heardCount>>

BotPlaces == 1 .. Tracked + 1             \* the spare place last
Empty  == <<>>
Used(table, i) == table[i] # Empty
Bot(table, i)  == table[i][1]

BotsInit ==
  /\ nearBots = [i \in BotPlaces |-> Empty] /\ hardEdges = <<>>
  /\ framed = FALSE /\ heardCount = 0

-----------------------------------------------------------------------------
(* qsort with nearBotsDistCmp and with nearBotsBearingCmp *)

Orders(n) == {p \in [1 .. n -> 1 .. n] : \A i, j \in 1 .. n : p[i] = p[j] => i = j}

\* a comes before b by the key, the empty places last
Before(a, b, key) == a # Empty /\ (b = Empty \/ a[1][key] <= b[1][key])

\* the outcomes of sorting the first n places
Sorted(table, n, key) ==
  {[i \in BotPlaces |-> IF i <= n THEN table[p[i]] ELSE table[i]] :
     p \in {p \in Orders(n) :
              \A i \in 1 .. n - 1 : table[p[i + 1]] = Empty
                                    \/ Before(table[p[i]], table[p[i + 1]], key)}}

ByDistance(table) == Sorted(table, Tracked + 1, "dist")

-----------------------------------------------------------------------------
(* Neighbours *)

\* The place addOtherBot returns: the neighbour's own, else the first empty
\* one, else the spare place.
PlaceOf(table, bot) ==
  LET own   == {i \in 1 .. Tracked : Used(table, i) /\ Bot(table, i).id = bot}
      empty == {i \in 1 .. Tracked : ~Used(table, i)}
      first(S) == CHOOSE i \in S : \A j \in S : i <= j
  IN IF own # {} THEN first(own) ELSE IF empty # {} THEN first(empty) ELSE Tracked + 1

\* what addOtherBot looks through
Arranged(table) == ByDistance(table)

\* handleBotPosMsg, with addOtherBot
handleBotPosMsg(s) ==
  /\ heardCount < MaxHeard /\ heardCount' = heardCount + 1
  /\ \E table \in Arranged(nearBots) :
       nearBots' = [table EXCEPT ![PlaceOf(table, s.id)] = <<s>>]
  /\ framed' = FALSE
  /\ UNCHANGED hardEdges

-----------------------------------------------------------------------------
(* Edges *)

Magnitude(n) == IF n < 0 THEN -n ELSE n

\* the angle between two bearings, by the arithmetic of the code
Difference(a, b) == Magnitude(((a - b + 540) % 360) - 180)

\* the neighbour after i in the table, and the first after the last
NextIndex(table, i) ==
  LET used  == {j \in 1 .. Tracked : Used(table, j)}
      after == {j \in used : j > i}
      from  == IF after # {} THEN after ELSE used
  IN CHOOSE j \in from : \A k \in from : j <= k

\* the loop of updateHardEdges when it stops before the circle is closed
OpenCircle(table) ==
  [i \in {i \in 1 .. Tracked : Used(table, i) /\ NextIndex(table, i) > i} |->
     NextIndex(table, i)]

\* The neighbours it pairs, each with its next: none when there is only one.
Circle(table) ==
  [i \in {i \in 1 .. Tracked : Used(table, i) /\ NextIndex(table, i) # i} |->
     NextIndex(table, i)]

addHardEdge(edges, from, to) == Append(edges, <<from.id, to.id>>)

Wide(table, next, i) ==
  /\ i \in DOMAIN next
  /\ Difference(Bot(table, i).bearing, Bot(table, next[i]).bearing) > 120

\* The loop of updateHardEdges: upTo[i] are the edges after the neighbour at i.
Edges(table, next) ==
  LET upTo[i \in 0 .. Tracked] ==
        IF i = 0 THEN <<>>
        ELSE IF Wide(table, next, i) THEN addHardEdge(upTo[i - 1], Bot(table, i), Bot(table, next[i]))
        ELSE upTo[i - 1]
  IN upTo[Tracked]

\* updateHardEdges, at the end of a frame
updateHardEdges ==
  /\ ~framed /\ framed' = TRUE
  /\ \E near \in ByDistance(nearBots) : \E table \in Sorted(near, Tracked, "bearing") :
       nearBots' = table /\ hardEdges' = Edges(table, Circle(table))
  /\ UNCHANGED heardCount

BotsNext ==
  \/ \E s \in Sightings : handleBotPosMsg(s)
  \/ updateHardEdges

BotsSpec == BotsInit /\ [][BotsNext]_botsVars

-----------------------------------------------------------------------------
(* Correctness *)

Ahead(a, b) == (b - a + 360) % 360      \* from bearing a on to bearing b

\* From e on to f, the bearings leave a gap of more than 120 degrees with nobody in it.
Gap(e, f, tracked) ==
  /\ e # f /\ Ahead(e.bearing, f.bearing) > 120
  /\ \A g \in tracked \ {e, f} : Ahead(e.bearing, g.bearing) >= Ahead(e.bearing, f.bearing)

TrackedBots == {nearBots[i][1] : i \in {i \in 1 .. Tracked : Used(nearBots, i)}}
GapPairs    == {p \in TrackedBots \X TrackedBots : Gap(p[1], p[2], TrackedBots)}
EdgeSet     == {hardEdges[k] : k \in DOMAIN hardEdges}
EdgeFor(p)  == <<p[1].id, p[2].id>>

\* the edges are those of the table, and no two neighbours lie the same way
FrameEnds == framed /\ \A g, h \in TrackedBots : g # h => Ahead(g.bearing, h.bearing) # 0

\* At the end of a frame the circle of the neighbours is closed and nobody in it is
\* passed over: an edge is only where there is a gap, a gap of less than 240 degrees
\* has its edge, and no edge is in the list twice.
EdgesAreGaps ==
  FrameEnds =>
    /\ EdgeSet \subseteq {EdgeFor(p) : p \in GapPairs}
    /\ \A p \in GapPairs : Ahead(p[1].bearing, p[2].bearing) < 240 => EdgeFor(p) \in EdgeSet
    /\ Cardinality(EdgeSet) = Len(hardEdges)

\* "go through each near bot by bearing and add it to hardBots if the gap in
\* bearings is above 120 degrees" (pong.c:256): every gap has its edge.
WideGapsAreEdges ==
  FrameEnds => \A p \in GapPairs : EdgeFor(p) \in EdgeSet
=============================================================================
