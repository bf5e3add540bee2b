------------------------------ MODULE PongBall ------------------------------
(***************************************************************************)
(* The ball of the pong program on one droplet: pong.c and the geometry of *)
(* pong.h.                                                                 *)
(*                                                                         *)
(* Every droplet moves its own copy of the ball with each turn of the main *)
(* loop, bounces it off the hard edges, tells the others where it is by    *)
(* messages and believes what the others tell.  Commands come by the       *)
(* serial line; prepBallMsg and sendBallMsg are tasks, so neither runs     *)
(* inside the other and msgHandleLock is free whenever one starts.         *)
(*                                                                         *)
(* The ball flies along a line and the edges cross it at right angles.     *)
(* Lengths are counted in millimetres / Ticks and times in seconds / Ticks *)
(* (the code has floats and milliseconds), so that v * t is a length.      *)
(* Colours, the paddle and printing are left out.                          *)
(***************************************************************************)
EXTENDS Integers, Sequences

CONSTANTS
  Ticks,      \* per second and per millimetre
  MyPlace,    \* where this droplet is, in millimetres
  Walls,      \* the lists of edges that updateHardEdges can make
  Speeds,     \* of a new ball, in millimetres per second
  Elapsed,    \* the times one turn of the loop takes
  Reported,   \* where the others say the ball is, in millimetres
  Radius,     \* DROPLET_RADIUS, 22
  FarAway,    \* 250: farther balls are no longer tracked
  SendTries,  \* 5: after so many a message is given up
  PongBudgets \* bounds on a behaviour, as pongBudget

PongAssumption ==
  /\ Ticks \in Nat \ {0} /\ MyPlace \in Int /\ \A list \in Walls : list \in Seq(Int)
  /\ Speeds \subseteq Nat \ {0} /\ Elapsed \subseteq 1 .. Ticks
  /\ Reported \subseteq Int /\ Radius \in Nat /\ FarAway \in Nat /\ SendTries \in Nat
ASSUME PongAssumption

NoBallYet == 0                          \* theBall.id after init
Alive     == 1                          \* the ball command makes no other
Dead      == 15                         \* 0x0F

VARIABLES
  ball,      \* [id, known, x, v]: known when its place is a number
  walls,     \* hardEdges
  inReach,   \* myDist <= DROPLET_RADIUS, when myDist is defined
  lastBallID,
  prepDue,   \* a prepBallMsg task is scheduled
  prepped,   \* preppedMsgHandle: NoMsg or [attempts, id, x, v]
  chain,     \* a sendBallMsg task is scheduled
  blocks,    \* messages that myMalloc gave out and myFree did not take back
  pongBudget \* bounds: [commands, turns, messages, sends] left

pongVars == <<ball, walls, inReach, lastBallID, prepDue, prepped, chain, blocks, pongBudget>>

NoMsg == [id |-> NoBallYet]

PongInit ==
  /\ ball = [id |-> NoBallYet, known |-> FALSE, x |-> 0, v |-> 0]
  /\ walls = <<>> /\ inReach = FALSE /\ lastBallID = NoBallYet
  /\ prepDue = FALSE /\ prepped = NoMsg /\ chain = FALSE /\ blocks = 0
  /\ pongBudget \in PongBudgets

Valid == ball.known /\ ball.id # Dead   \* BALL_VALID

SpendPong(what) == /\ pongBudget[what] > 0
                   /\ pongBudget' = [pongBudget EXCEPT ![what] = @ - 1]

-----------------------------------------------------------------------------
(* The bounce *)

Abs(n)      == IF n < 0 THEN -n ELSE n
Trunc(a, b) == IF a < 0 THEN -((-a) \div b) ELSE a \div b     \* C's division, b > 0

\* checkBounce: the two ends of the flight are whole millimetres apart
Flight(v, t)        == Trunc(v * t, Ticks) * Ticks

Crosses(x, v, t, w) ==
  LET y == x + Flight(v, t)
  IN (x < w /\ w <= y) \/ (y <= w /\ w < x)

\* What is left of the time after flying d at speed v: the code takes d, in
\* millimetres, divided by the speed for the portion of the time it took.
Left(t, d, v) == Trunc(t * (Ticks * v - d), Ticks * v)

\* calculateBounce off an edge across the line of the flight
calculateBounce(v) == -v

\* the next edge to look at, had the search gone on where it was
SearchedOn(edge) == edge + 1

\* After a bounce updateBall starts again at the first edge.
SearchedAnew(edge) == 1

\* On the way through a turn: at x with speed v, after a flight of d, next to
\* look at an edge
Flights == [edge : Nat \ {0}, x : Int, v : Int, d : Nat]

Remaining(f, t) == Left(t, f.d, Abs(f.v))
Through(f)      == f.edge > Len(walls)

\* The body of the loop of updateBall
LookAt(f, t) ==
  LET w == walls[f.edge]
  IN IF Crosses(f.x, f.v, Remaining(f, t), w)
     THEN [edge |-> SearchedAnew(f.edge), x |-> w, v |-> calculateBounce(f.v),
           d |-> f.d + Abs(w - f.x)]
     ELSE [f EXCEPT !.edge = @ + 1]

\* more edges than a turn looks at: a bounce takes a part of the flight
MostLooks(v) == Ticks * Abs(v) * (Len(walls) + 1) + Len(walls)

\* The loop of updateBall, in a turn that takes time t: on[n][f] is how it ends
\* from f when it looks at n edges or fewer.
LoopEnd(f, t) ==
  LET on[n \in 0 .. MostLooks(f.v)] ==
        [g \in Flights |-> IF n = 0 \/ Through(g) THEN g ELSE on[n - 1][LookAt(g, t)]]
  IN on[MostLooks(f.v)][f]

\* and then the ball flies for the rest of the time
Flown(t) ==
  LET f == LoopEnd([edge |-> 1, x |-> ball.x, v |-> ball.v, d |-> 0], t)
  IN [x |-> f.x + f.v * Remaining(f, t), v |-> f.v]

\* updateBall, in the main loop
UpdateBall(t) ==
  /\ SpendPong("turns")
  /\ IF Valid
     THEN LET flown == Flown(t)
              dist  == Abs(MyPlace * Ticks - flown.x) \div Ticks
          IN /\ ball' = IF dist > FarAway
                        THEN [ball EXCEPT !.id = Dead, !.known = FALSE, !.v = flown.v]
                        ELSE [ball EXCEPT !.x = flown.x, !.v = flown.v]
             /\ inReach' = (dist <= Radius)
     ELSE inReach' = FALSE /\ UNCHANGED ball
  /\ UNCHANGED <<walls, lastBallID, prepDue, prepped, chain, blocks>>

\* The loop in the last slot of a frame: updateHardEdges makes the list of edges
\* anew, of where the neighbours are now (PongBots has how).
EdgesRebuilt ==
  /\ walls' \in Walls
  /\ UNCHANGED <<ball, inReach, lastBallID, prepDue, prepped, chain, blocks, pongBudget>>

-----------------------------------------------------------------------------
(* Messages *)

Millimetres(x) == Trunc(x, Ticks)

\* The loop, at the start of a slot, when the ball is over this droplet
SlotBegins ==
  /\ Valid /\ inReach /\ ~prepDue
  /\ prepDue' = TRUE
  /\ UNCHANGED <<ball, walls, inReach, lastBallID, prepped, chain, blocks, pongBudget>>

Told(attempts) == [attempts |-> attempts, id |-> ball.id, x |-> Millimetres(ball.x), v |-> ball.v]

\* prepBallMsg that does not look at the handle
PrepareAnew ==
  /\ prepDue /\ prepDue' = FALSE
  /\ prepped' = Told(0) /\ blocks' = blocks + 1 /\ chain' = TRUE
  /\ UNCHANGED <<ball, walls, inReach, lastBallID, pongBudget>>

\* prepBallMsg: a message that waits is brought up to date where it is
Prepare ==
  /\ prepDue /\ prepDue' = FALSE
  /\ IF prepped = NoMsg
     THEN prepped' = Told(0) /\ blocks' = blocks + 1 /\ chain' = TRUE
     ELSE prepped' = Told(prepped.attempts) /\ UNCHANGED <<blocks, chain>>
  /\ UNCHANGED <<ball, walls, inReach, lastBallID, pongBudget>>

\* sendBallMsg, while ir_is_busy: try again, and give up after too many times
SendLater ==
  /\ chain /\ SpendPong("sends")
  /\ IF prepped.attempts > SendTries
     THEN prepped' = NoMsg /\ blocks' = blocks - 1 /\ chain' = FALSE
     ELSE /\ prepped' = [prepped EXCEPT !.attempts = @ + 1]
          /\ UNCHANGED <<blocks, chain>>
  /\ UNCHANGED <<ball, walls, inReach, lastBallID, prepDue>>

\* sendBallMsg when the channels are free
SendNow ==
  /\ chain /\ SpendPong("sends")
  /\ prepped' = NoMsg /\ blocks' = blocks - 1 /\ chain' = FALSE
  /\ UNCHANGED <<ball, walls, inReach, lastBallID, prepDue>>

LastMarked(m) == IF m.id = Dead /\ ball.id # Dead THEN ball.id ELSE lastBallID

\* A sender that has not realised the ball is dead yet
Late(m) == ~(m.id = Dead /\ ball.id # Dead) /\ m.id = lastBallID /\ ball.id = Dead

\* handleBallMsg, from the main loop
HandleBallMsg(m) ==
  /\ SpendPong("messages")
  /\ IF Late(m)
     THEN UNCHANGED <<ball, lastBallID>>
     ELSE /\ lastBallID' = LastMarked(m)
          /\ ball' = [id |-> m.id, known |-> TRUE, x |-> m.x * Ticks, v |-> m.v]
  /\ UNCHANGED <<walls, inReach, prepDue, prepped, chain, blocks>>

-----------------------------------------------------------------------------
(* Commands: user_handle_command, in the interrupt of the serial line *)

\* ball: a new ball at this droplet
Launch(v) ==
  /\ SpendPong("commands")
  /\ ball' = [id |-> Alive, known |-> TRUE, x |-> MyPlace * Ticks, v |-> v]
  /\ UNCHANGED <<walls, inReach, lastBallID, prepDue, prepped, chain, blocks>>

\* ball_kill
Kill ==
  /\ SpendPong("commands")
  /\ ball' = [ball EXCEPT !.id = Dead]
  /\ UNCHANGED <<walls, inReach, lastBallID, prepDue, prepped, chain, blocks>>

Reports == [id : {Alive, Dead}, x : Reported, v : {v * d : v \in Speeds, d \in {-1, 1}}]

PongBallNext ==
  \/ \E t \in Elapsed : UpdateBall(t)
  \/ EdgesRebuilt
  \/ SlotBegins
  \/ Prepare
  \/ SendLater
  \/ SendNow
  \/ \E m \in Reports : HandleBallMsg(m)
  \/ \E v \in Speeds, d \in {-1, 1} : Launch(v * d)
  \/ Kill

PongSpec == PongInit /\ [][PongBallNext]_pongVars

-----------------------------------------------------------------------------
(* Correctness *)

\* x is between two edges, or at one and v leads away from it.
Inside(list, x, v) ==
  /\ \E i \in DOMAIN list : list[i] < x \/ (list[i] = x /\ v > 0)
  /\ \E i \in DOMAIN list : x < list[i] \/ (list[i] = x /\ v < 0)

\* x is between two edges, or beyond the last of them by less than a millimetre.
Nearly(list, x) ==
  /\ \E i \in DOMAIN list : list[i] - Ticks < x
  /\ \E i \in DOMAIN list : x < list[i] + Ticks

\* "We need to start searching through edges again to make sure there aren't two+
\* bounces within this timestep" (pong.c:201): one turn of updateBall finds all the
\* bounces of a ball that is between the edges when it begins, however many there
\* are and in whatever order the list holds the edges, but for what checkBounce cuts
\* off the flight: when the turn ends the ball is less than a millimetre past them.
BallStraysLittle ==
  [][\A t \in Elapsed :
       UpdateBall(t) /\ Valid /\ Inside(walls, ball.x, ball.v) /\ Valid' => Nearly(walls, ball'.x)]_pongVars

\* "Returns 1 if the line segment of the edge and the line segment between the
\* ball's current and future position intersect" (pong.h:198): a turn that takes
\* the ball straight on to its future position meets no edge.
EdgesAreMet ==
  [][\A t \in Elapsed :
       LET y == ball.x + ball.v * t
       IN UpdateBall(t) /\ Valid /\ ball'.x = y
            => \A i \in DOMAIN walls : ~((ball.x < walls[i] /\ walls[i] <= y)
                                         \/ (y <= walls[i] /\ walls[i] < ball.x))]_pongVars

\* The message that waits is the only one allocated, and a task will send or
\* free it: the block is neither leaked nor freed twice whatever order the
\* tasks, the retries and the giving up of sendBallMsg come in.
BlocksKept ==
  /\ blocks = IF prepped = NoMsg THEN 0 ELSE 1
  /\ chain <=> prepped # NoMsg

=============================================================================
