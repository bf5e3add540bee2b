------------------------------ MODULE IrSense ------------------------------
(***************************************************************************)
(* What is done with the infrared emitters besides sending: collision      *)
(* checks and baselines (droplet_code/src/ir_sensor.c), the blasts of      *)
(* irRangeBlast (src/range_algs.c), and irLedOn and irLedOff (src/         *)
(* ir_led.c), which take an emitter from its USART and give it back.       *)
(*                                                                         *)
(* A task interrupts the main program, and a command of the serial line is *)
(* carried out in an interrupt.  hpIrBlock_bm keeps baselines and checks   *)
(* off a blast; a check sets only IR_STATUS_BUSY_bm, which irIsBusy does   *)
(* not look at.  The first baseline, a second after the start, neither     *)
(* asks irIsBusy nor blocks.                                               *)
(***************************************************************************)
EXTENDS Naturals

CONSTANTS
  LastDir,     \* the directions are 1 .. LastDir
  LowPower,    \* a power of the emitters that a program asks for
  SenseCalls   \* bound on the calls

SenseAssumption == LastDir \in Nat \ {0} /\ LowPower \in 0 .. 255 /\ SenseCalls \in Nat
ASSUME SenseAssumption

Dirs       == 1 .. LastDir
Enabled    == {"rx", "tx"}
FullPower  == 256
Rank       == [main |-> 1, task |-> 2, isr |-> 3]
SenseContexts == DOMAIN Rank

VARIABLES
  ctrlb,     \* CTRLB of the USARTs: what is enabled
  saved,     \* saved_usart_ctrlb_vals
  lit,       \* the emitters that shine
  held,      \* hpIrBlock_bm: all directions or none
  power,     \* curr_ir_power
  baseline,  \* ir_sense_baseline: per direction, the light it was taken in
  firstBase, \* initIrBaselines: due, measuring, or the light that it found
  senseJob,  \* per context, the operation it is in and its next step
  overlapped,\* an operation has begun during a check
  senseCalls

senseVars == <<ctrlb, saved, lit, held, power, baseline, firstBase,
               senseJob, overlapped, senseCalls>>

NoSense == [op |-> "none", at |-> "idle", dir |-> 0, before |-> 0]

SenseInit ==
  /\ ctrlb = [d \in Dirs |-> Enabled] /\ saved = [d \in Dirs |-> {}]
  /\ lit = {} /\ held = FALSE /\ power = LowPower
  /\ baseline = [d \in Dirs |-> "dark"] /\ firstBase = "due"
  /\ senseJob = [c \in SenseContexts |-> NoSense]
  /\ overlapped = FALSE /\ senseCalls = 0

\* A context runs when those that interrupt it do not.
Runs(c) == \A d \in SenseContexts : Rank[d] > Rank[c] => senseJob[d] = NoSense
Step(c, op, at) == senseJob[c].op = op /\ senseJob[c].at = at /\ Runs(c)
Becomes(c, job) == senseJob' = [senseJob EXCEPT ![c] = job]
GoesTo(c, at) == Becomes(c, [senseJob[c] EXCEPT !.at = at])

\* irLedOn and irLedOff
irLedOn(d) ==
  /\ saved' = [saved EXCEPT ![d] = ctrlb[d]]
  /\ ctrlb' = [ctrlb EXCEPT ![d] = {}] /\ lit' = lit \union {d}
irLedOff(d) ==
  /\ ctrlb' = [ctrlb EXCEPT ![d] = saved[d]] /\ lit' = lit \ {d}
  /\ UNCHANGED saved

\* mutant: the block is not looked at
NeverBusy == FALSE

\* irIsBusy, apart from what is sent and received: IrComm has that.
Busy == held

\* What a sensor measures: its own light or another's.
Light == IF lit = {} THEN "dark" ELSE "lit"

----------------------------------------------------------------------------
\* An operation begins in a context that is idle and not interrupted.  The
\* first flash of a blast is in an atomic block, which delayMS ends.
Begins(c, op) ==
  /\ senseJob[c] = NoSense /\ Runs(c) /\ senseCalls < SenseCalls
  /\ senseCalls' = senseCalls + 1
  /\ \A d \in SenseContexts : ~(senseJob[d].op = "blast" /\ senseJob[d].at = "off" /\ senseJob[d].dir = 1)
  /\ overlapped' = (overlapped \/ \E d \in SenseContexts : senseJob[d].op = "check")

\* checkCollisions on busy hardware measures nothing: what checkCollisionValues
\* should return stays undefined, and any direction may seem to collide.
CheckRefused(c) ==
  /\ Begins(c, "check") /\ Busy
  /\ UNCHANGED <<ctrlb, saved, lit, held, power, baseline, firstBase, senseJob>>

\* checkCollisionValues up to the first emitter: full power, and the dark
\* measurement
CheckBegins(c) ==
  /\ Begins(c, "check") /\ ~Busy
  /\ Becomes(c, [op |-> "check", at |-> "on", dir |-> 1, before |-> power])
  /\ power' = FullPower
  /\ UNCHANGED <<ctrlb, saved, lit, held, baseline, firstBase>>

CheckOn(c) ==
  /\ Step(c, "check", "on")
  /\ irLedOn(senseJob[c].dir)
  /\ LET last == senseJob[c].dir = LastDir
     IN  Becomes(c, [senseJob[c] EXCEPT !.at = IF last THEN "measure" ELSE "on",
                                        !.dir = IF last THEN 1 ELSE @ + 1])
  /\ UNCHANGED <<held, power, baseline, firstBase, overlapped, senseCalls>>

\* The second measurement; a bright direction counts as a collision.
CheckMeasures(c) ==
  /\ Step(c, "check", "measure") /\ GoesTo(c, "off")
  /\ UNCHANGED <<ctrlb, saved, lit, held, power, baseline, firstBase, overlapped, senseCalls>>

CheckOff(c) ==
  /\ Step(c, "check", "off")
  /\ irLedOff(senseJob[c].dir)
  /\ IF senseJob[c].dir = LastDir THEN GoesTo(c, "restore")
     ELSE Becomes(c, [senseJob[c] EXCEPT !.dir = @ + 1])
  /\ UNCHANGED <<held, power, baseline, firstBase, overlapped, senseCalls>>

Restore(c, op) ==
  /\ Step(c, op, "restore") /\ Becomes(c, NoSense)
  /\ power' = senseJob[c].before
  /\ UNCHANGED <<ctrlb, saved, lit, baseline, firstBase, overlapped, senseCalls>>

CheckEnds(c) == Restore(c, "check") /\ UNCHANGED held

----------------------------------------------------------------------------
\* initIrBaselines, a task that is scheduled once and comes before the first
\* updateIrBaselines: the first baseline is what it measures.
FirstBegins ==
  /\ firstBase = "due" /\ Begins("task", "first")
  /\ firstBase' = "measuring"
  /\ Becomes("task", [op |-> "first", at |-> "measure", dir |-> 0, before |-> 0])
  /\ UNCHANGED <<ctrlb, saved, lit, held, power, baseline>>
FirstEnds ==
  /\ Step("task", "first", "measure") /\ Becomes("task", NoSense)
  /\ baseline' = [d \in Dirs |-> Light] /\ firstBase' = Light
  /\ UNCHANGED <<ctrlb, saved, lit, held, power, overlapped, senseCalls>>

\* updateIrBaselines, a task: the new baseline is the mean of the last one
\* and of what is measured now.
BaselineBegins ==
  /\ firstBase # "due" /\ Begins("task", "baseline") /\ ~Busy
  /\ held' = TRUE
  /\ Becomes("task", [op |-> "baseline", at |-> "measure", dir |-> 0, before |-> 0])
  /\ UNCHANGED <<ctrlb, saved, lit, power, baseline, firstBase>>
BaselineEnds ==
  /\ Step("task", "baseline", "measure") /\ Becomes("task", NoSense)
  /\ baseline' = [d \in Dirs |-> IF Light = "dark" THEN baseline[d] ELSE "lit"]
  /\ held' = FALSE
  /\ UNCHANGED <<ctrlb, saved, lit, power, firstBase, overlapped, senseCalls>>

\* irRangeBlast, called by broadcastRnbData (of the main program or a task)
\* with the IR hardware blocked; the block is released after it.  Rnb has the
\* way that broadcastRnbData comes to the block.
BlastBegins(c) ==
  /\ c # "isr" /\ Begins(c, "blast") /\ ~held
  /\ held' = TRUE /\ power' = FullPower
  /\ Becomes(c, [op |-> "blast", at |-> "on", dir |-> 1, before |-> power])
  /\ UNCHANGED <<ctrlb, saved, lit, baseline, firstBase>>
BlastOn(c) ==
  /\ Step(c, "blast", "on") /\ GoesTo(c, "off")
  /\ irLedOn(senseJob[c].dir)
  /\ UNCHANGED <<held, power, baseline, firstBase, overlapped, senseCalls>>
BlastOff(c) ==
  /\ Step(c, "blast", "off")
  /\ irLedOff(senseJob[c].dir)
  /\ IF senseJob[c].dir = LastDir THEN GoesTo(c, "restore")
     ELSE Becomes(c, [senseJob[c] EXCEPT !.at = "on", !.dir = @ + 1])
  /\ UNCHANGED <<held, power, baseline, firstBase, overlapped, senseCalls>>
BlastEnds(c) == Restore(c, "blast") /\ held' = FALSE

----------------------------------------------------------------------------
Check(c) == CheckBegins(c) \/ CheckOn(c) \/ CheckMeasures(c) \/ CheckOff(c) \/ CheckEnds(c)
RangeBlast(c) == BlastBegins(c) \/ BlastOn(c) \/ BlastOff(c) \/ BlastEnds(c)

SenseNext ==
  \/ FirstBegins \/ FirstEnds \/ BaselineBegins \/ BaselineEnds
  \/ \E c \in SenseContexts : Check(c) \/ RangeBlast(c) \/ CheckRefused(c)

SenseSpec == SenseInit /\ [][SenseNext]_senseVars

\* While nothing begins during a collision check, every USART is given back
\* enabled (saved_usart_ctrlb_vals has one value per direction), and the block
\* keeps the baselines off the blasts: the one that may be taken in the
\* droplet's own light is that of initIrBaselines, which does not ask for it
\* and interrupts a blast of the main program in delayMS.
EmittersKeptApart ==
  ~overlapped =>
    /\ \A d \in Dirs \ lit : ctrlb[d] = Enabled
    /\ firstBase # "lit" => \A d \in Dirs : baseline[d] = "dark"

=============================================================================
