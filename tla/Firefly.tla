------------------------------ MODULE Firefly ------------------------------
(***************************************************************************)
(* Firefly synchronisation: droplet_code/src/firefly_sync.c and updateFire- *)
(* flyCounter of include/firefly_sync.h.                                   *)
(*                                                                         *)
(* A timer runs through a period.  Pings of other droplets are queued, by  *)
(* a medium level interrupt, in a list that is sorted and doubly linked;   *)
(* later a task takes the whole list and moves the timer forward.  A light *)
(* may blink towards the end of every period: two interrupts of the high   *)
(* level, on matches of the timer, turn it on and off.                     *)
(***************************************************************************)
EXTENDS Naturals, FiniteSets

CONSTANTS
  Top,        \* FFSYNC_FULL_PERIOD, in ticks of the timer
  ObsCells,   \* the memory for nodes of the list
  Delays,     \* how long ago a ping was sent, in ticks
  FFC,        \* FFSYNC_FFC: an observation moves the timer by obs / FFC
  LightColours, \* the colours that the program gives to the light
  MaxPeriods, \* bound on the overflows of the timer
  MaxPings    \* bound on the pings that are received

Start == "obsStart"
Blink == "blink"

\* A ping is not older than a period; obsStart is not taken from the heap.
FireflyAssumption ==
  /\ Top \in Nat /\ Top > 3 /\ Delays \subseteq 0 .. Top /\ FFC \in Nat \ {0}
  /\ Blink \notin LightColours /\ Start \notin ObsCells
  /\ MaxPeriods \in Nat /\ MaxPings \in Nat
ASSUME FireflyAssumption

VARIABLES
  cnt,        \* TCE0.CNT
  cca, ccb,   \* TCE0.CCA and CCB; 0 when the blinking is disabled
  shown,      \* the colour of the light
  prevShown,  \* ffsync_blink_prev_r, g, b
  upset,      \* the blinking was reconfigured, or the light given a colour, in a
              \* blink, or the timer ticked while processObsQueue set it
  obs, nextObs, prevObs, \* the list, over the cells in use and obsStart
  work,       \* processObsQueue: [at, curr, jump, count]
  raced,      \* a ping was queued while processObsQueue took the list
  duties,     \* sendPing and processObsQueue calls that are scheduled
  periods, pings

ffVars == <<cnt, cca, ccb, shown, prevShown, upset, obs, nextObs, prevObs, work, raced,
            duties, periods, pings>>
timer == <<cnt, cca, ccb, shown, prevShown, upset>>
list  == <<obs, nextObs, prevObs, raced>>

Cells == DOMAIN obs \ {Start}
NoWork == [at |-> "idle", curr |-> Start, jump |-> 0, count |-> 0]

\* fireflySyncInit
FireflyInit ==
  /\ cnt = 0 /\ cca = 0 /\ ccb = 0
  /\ shown \in LightColours /\ prevShown = shown /\ upset = FALSE
  /\ obs = [n \in {Start} |-> 0]
  /\ nextObs = [n \in {Start} |-> Start] /\ prevObs = [n \in {Start} |-> Start]
  /\ work = NoWork /\ raced = FALSE
  /\ duties = [ping |-> 0, process |-> 0] /\ periods = 0 /\ pings = 0

----------------------------------------------------------------------------
(* The timer and the light.                                                *)

Blinking == ccb # 0

\* The light comes on at CCA and takes its colour back at CCB, when the counter
\* comes to them.
Matches(count) ==
  IF ~Blinking \/ count = cnt THEN UNCHANGED <<shown, prevShown>>
  ELSE IF count = cca THEN shown' = Blink /\ prevShown' = shown
  ELSE IF count = ccb THEN shown' = prevShown /\ UNCHANGED prevShown
  ELSE UNCHANGED <<shown, prevShown>>

PhaseTick ==
  /\ cnt < Top /\ cnt' = cnt + 1 /\ Matches(cnt')
  /\ upset' = (upset \/ (Blinking /\ work.at = "write"))
  /\ UNCHANGED <<cca, ccb, list, work, duties, periods, pings>>

\* TCE0_OVF_vect; Clock has updateRTC.
Overflows ==
  /\ cnt = Top /\ periods < MaxPeriods /\ periods' = periods + 1
  /\ cnt' = 0 /\ duties' = [duties EXCEPT !.ping = @ + 1]
  /\ upset' = (upset \/ (Blinking /\ work.at = "write"))
  /\ UNCHANGED <<cca, ccb, shown, prevShown, list, work, pings>>

InBlink == Blinking /\ cca <= cnt /\ cnt < ccb

\* enableSyncBlink, also with setSyncBlinkDuration, and disableSyncBlink; and
\* the program sets the colour of the light.
Steer ==
  /\ \/ \E off \in (Top \div 2) + 1 .. Top, dur \in 1 .. 2 :
          cca' = off - dur /\ ccb' = off /\ UNCHANGED shown
     \/ cca' = 0 /\ ccb' = 0 /\ UNCHANGED shown
     \/ shown' \in LightColours /\ UNCHANGED <<cca, ccb>>
  /\ <<cca, ccb, shown>>' # <<cca, ccb, shown>>
  /\ upset' = (upset \/ InBlink)
  /\ UNCHANGED <<cnt, prevShown, list, work, duties, periods, pings>>

----------------------------------------------------------------------------
(* The queue of observations.                                              *)

\* mutant: a blink that is jumped over is left to the interrupt
EndsNever(count, jump) == FALSE

\* processObsQueue, on the timer it has read
EndsBlink(count, jump) == count < ccb /\ count + jump > ccb

\* mutant: the node behind is not linked back
QueueOneWay(n, after, o) ==
  /\ obs' = [m \in DOMAIN obs \union {n} |-> IF m = n THEN o ELSE obs[m]]
  /\ nextObs' = [m \in DOMAIN obs' |-> IF m = n THEN nextObs[after] ELSE IF m = after THEN n ELSE nextObs[m]]
  /\ prevObs' = [m \in DOMAIN obs' |-> IF m = n THEN after ELSE prevObs[m]]

QueueBehind(n, after, o) ==
  /\ obs' = [m \in DOMAIN obs \union {n} |-> IF m = n THEN o ELSE obs[m]]
  /\ nextObs' = [m \in DOMAIN obs' |-> IF m = n THEN nextObs[after] ELSE IF m = after THEN n ELSE nextObs[m]]
  /\ prevObs' = [m \in DOMAIN obs' |->
                   IF m = n THEN after ELSE IF m = nextObs[after] THEN n ELSE prevObs[m]]

\* Where updateFireflyCounter comes to, from the end of the list; obsStart has
\* observation 0 and stops it.
Behind(o) ==
  LET walk[n \in DOMAIN obs] == IF o < obs[n] THEN walk[prevObs[n]] ELSE n
  IN  walk[prevObs[Start]]

\* The observation of a ping: the position in the period when it was sent.
Observation(count, delay) == IF count <= delay THEN count + (Top - delay) ELSE count - delay

\* A ping is received; it is dropped when there is no memory.  What happens to
\* the list and the heap once the walk of processObsQueue is interrupted is
\* undefined: the node behind which the new one goes may have been freed.
updateFireflyCounter(delay) ==
  /\ pings < MaxPings /\ pings' = pings + 1 /\ ~raced
  /\ \/ work.at = "walk" /\ raced' = TRUE /\ UNCHANGED <<obs, nextObs, prevObs>>
     \/ work.at # "walk" /\ Cells = ObsCells /\ UNCHANGED list
     \/ /\ work.at # "walk" /\ Cells # ObsCells /\ UNCHANGED raced
        /\ LET o == Observation(cnt, delay)
           IN  QueueBehind(CHOOSE n \in ObsCells \ Cells : TRUE, Behind(o), o)
  /\ UNCHANGED <<timer, work, duties, periods>>

\* sendPing (the ping itself is sent by IrComm) schedules processObsQueue.
SendPing ==
  /\ work.at = "idle" /\ duties.ping > 0
  /\ duties' = [ping |-> duties.ping - 1, process |-> duties.process + 1]
  /\ UNCHANGED <<timer, list, work, periods, pings>>

ProcessBegins ==
  /\ work.at = "idle" /\ duties.process > 0 /\ ~raced
  /\ duties' = [duties EXCEPT !.process = @ - 1]
  /\ work' = [NoWork EXCEPT !.at = "walk", !.curr = nextObs[Start]]
  /\ UNCHANGED <<timer, list, periods, pings>>

\* A node is added to the jump and freed.
ProcessNode ==
  /\ work.at = "walk" /\ work.curr # Start /\ ~raced
  /\ work' = [work EXCEPT !.jump = @ + obs[work.curr] \div FFC, !.curr = nextObs[work.curr]]
  /\ UNCHANGED <<timer, list, duties, periods, pings>>

\* The list is empty again, and the timer is read.  A blink that the jump
\* goes past the end of is ended.
ProcessReads ==
  /\ work.at = "walk" /\ work.curr = Start /\ ~raced
  /\ obs' = [n \in {Start} |-> 0]
  /\ nextObs' = [n \in {Start} |-> Start] /\ prevObs' = [n \in {Start} |-> Start]
  /\ work' = [work EXCEPT !.at = "write", !.count = cnt]
  /\ shown' = IF EndsBlink(cnt, work.jump) THEN prevShown ELSE shown
  /\ UNCHANGED <<cnt, cca, ccb, prevShown, upset, raced, duties, periods, pings>>

\* The timer is written: what it has counted since it was read is lost.
ProcessWrites ==
  /\ work.at = "write" /\ work' = NoWork
  /\ cnt' = IF work.count + work.jump >= Top THEN Top - 1 ELSE work.count + work.jump
  /\ Matches(cnt')
  /\ UNCHANGED <<cca, ccb, upset, list, duties, periods, pings>>

FireflyNext ==
  \/ PhaseTick \/ Overflows \/ Steer
  \/ \E delay \in Delays : updateFireflyCounter(delay)
  \/ SendPing \/ ProcessBegins \/ ProcessNode \/ ProcessReads \/ ProcessWrites

FireflySpec == FireflyInit /\ [][FireflyNext]_ffVars

----------------------------------------------------------------------------
\* While no ping is queued during processObsQueue, the list is sorted, its two
\* directions agree, and it has every node in use: no node is lost.
ListSound ==
  ~raced =>
    LET nth[i \in 0 .. Cardinality(Cells)] == IF i = 0 THEN Start ELSE nextObs[nth[i - 1]]
    IN  /\ {nth[i] : i \in DOMAIN nth} = DOMAIN obs
        /\ \A n \in DOMAIN obs : prevObs[nextObs[n]] = n
        /\ \A n \in Cells : nextObs[n] # Start => obs[n] <= obs[nextObs[n]]

\* The light is the program's outside of a blink, also when the timer jumps
\* over the end of one, unless a blink is upset in the middle.
BlinkEnds == ~upset /\ ~InBlink /\ work.at # "write" => shown # Blink
=============================================================================
