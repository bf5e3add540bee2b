----------------------------- MODULE TwiMaster -----------------------------
(***************************************************************************)
(* The I2C master of droplet_code/src/i2c.c and its two clients: the power *)
(* of the infrared emitters (src/ir_led.c), kept by two chips, and the     *)
(* colour sensor of audio droplets (src/rgb_sensor.c).                     *)
(*                                                                         *)
(* A transaction is started by the main program or by a task, which may    *)
(* interrupt it, and is carried out by an interrupt, byte by byte.  The    *)
(* clients learn only that a transaction was started.                      *)
(***************************************************************************)
EXTENDS Naturals, Sequences

CONSTANTS
  Powers,   \* the powers that setAllirPowers is asked for, 256 among them
  Wipers,   \* bytes of a power, one per potentiometer of a chip
  Colours,  \* bytes of a colour
  TwiBudgets  \* bounds on a behaviour: [calls, faults, hangs, task]: calls,
              \* NACKs and bus errors, and whether tasks call

TwiAssumption == Wipers \in Nat \ {0} /\ Colours \in Nat \ {0}
ASSUME TwiAssumption

TwiContexts == {"main", "task"}
PowerChips  == {"A", "B"}

VARIABLES
  twi,       \* TWI_Master_t: [status, result, address, data, toWrite, toRead,
             \* written, read, readData]
  bus,       \* what the hardware is doing: "idle", "write", "read", "stuck"
  chip,      \* the chip that answers
  wiper,     \* per power chip, its potentiometers
  measured,  \* the number of colours asked for; the sensor returns the last one
  curr_ir_power,
  twiJob,    \* per context, the call it is in
  colour,    \* what the last getRGB returned, and the number of that call
  disturbed, \* a transaction failed, or a call began during another one
  twiBudget

twiVars == <<twi, bus, chip, wiper, measured, curr_ir_power, twiJob, colour, disturbed, twiBudget>>

NoTwiJob == [op |-> "none", todo |-> <<>>, at |-> "idle"]

TwiCalls ==      {[op |-> "setAllirPowers", power |-> p] : p \in Powers}
            \cup {[op |-> "getRGB", power |-> 0]}

\* A transaction: the chip, the byte to write (what is sent to the sensor does
\* not matter), and how many to write and to read.
Write(c, data, n) == [chip |-> c, data |-> data, write |-> n, read |-> 0]
Script(k) ==
  CASE k.op = "rgbSensorInit" -> [i \in 1 .. 4 |-> Write("rgb", 0, 2)]
    [] k.op = "setAllirPowers" -> <<Write("A", k.power, Wipers), Write("B", k.power, Wipers)>>
    [] k.op = "getRGB" -> <<[chip |-> "rgb", data |-> 0, write |-> 1, read |-> Colours]>>
Called(k) == [op |-> k.op, power |-> k.power, todo |-> Script(k), at |-> "wait"]

\* i2cInit, and the first call of the start-up: rgbSensorInit
TwiInit ==
  /\ twi = [status |-> "ready", result |-> "unknown", address |-> "none", data |-> 0,
            toWrite |-> 0, toRead |-> 0, written |-> 0, read |-> 0,
            readData |-> [i \in 1 .. Colours |-> 0]]
  /\ bus = "idle" /\ chip = "none" /\ measured = 0
  /\ wiper = [c \in PowerChips |-> [i \in 1 .. Wipers |-> 0]]
  /\ curr_ir_power = 0
  /\ twiJob = [c \in TwiContexts |-> IF c = "main" THEN Called([op |-> "rgbSensorInit", power |-> 0])
                                                     ELSE NoTwiJob]
  /\ colour = [call |-> 0, bytes |-> [i \in 1 .. Colours |-> 0]]
  /\ disturbed = FALSE /\ twiBudget \in TwiBudgets

----------------------------------------------------------------------------
(* The calls.  A task runs to its end before the main program goes on.     *)

TwiRunning(c) == c = "task" \/ twiJob["task"] = NoTwiJob

\* setAllirPowers returns at once for the power it believes to be set.
CallTwi(c, k) ==
  /\ twiJob[c] = NoTwiJob /\ TwiRunning(c) /\ twiBudget.calls > 0
  /\ c = "task" => twiBudget.task /\ k.op = "setAllirPowers"
  /\ k.op = "setAllirPowers" => k.power # curr_ir_power
  /\ twiJob' = [twiJob EXCEPT ![c] = Called(k)]
  /\ disturbed' = (disturbed \/ \E d \in TwiContexts : twiJob[d] # NoTwiJob)
  /\ twiBudget' = [twiBudget EXCEPT !.calls = @ - 1]
  /\ UNCHANGED <<twi, bus, chip, wiper, measured, curr_ir_power, colour>>

AtTwi(c, stage) == twiJob[c].at = stage /\ TwiRunning(c)

\* The call with its next transaction behind it
Advanced(c) == [twiJob[c] EXCEPT !.todo = Tail(@), !.at = "wait"]

\* waitForTWIReady and the test of TWI_MasterWriteRead that follows it: a
\* context that finds the bus taken in between waits again.
ReadyNow(c) ==
  /\ AtTwi(c, "wait") /\ twi.status = "ready"
  /\ twiJob' = [twiJob EXCEPT ![c].at = "claim"]
  /\ UNCHANGED <<twi, bus, chip, wiper, measured, curr_ir_power, colour, disturbed, twiBudget>>

\* mutant: the caller waits for as long as it takes
WaitOn(c) ==
  /\ AtTwi(c, "wait") /\ twi.status = "busy" /\ bus \in {"idle", "stuck"}
  /\ UNCHANGED twiVars

\* A second passes when no interrupt is to come: on a bus that hangs, or in a
\* task that has interrupted the main program between the two steps below.
\* Only rgbSensorInit goes on with its next transaction.
TimedOut(c) ==
  /\ AtTwi(c, "wait") /\ twi.status = "busy" /\ bus \in {"idle", "stuck"}
  /\ twiJob' = [twiJob EXCEPT ![c] =
       IF @.op = "rgbSensorInit" /\ Len(@.todo) > 1 THEN Advanced(c) ELSE NoTwiJob]
  /\ disturbed' = TRUE
  /\ UNCHANGED <<twi, bus, chip, wiper, measured, curr_ir_power, colour, twiBudget>>

\* TWI_MasterWriteRead, after the test: the bus is taken ...
ClaimBus(c) ==
  /\ AtTwi(c, "claim")
  /\ twi' = [twi EXCEPT !.status = "busy", !.result = "unknown",
                        !.address = Head(twiJob[c].todo).chip]
  /\ twiJob' = [twiJob EXCEPT ![c].at = "fill"]
  /\ UNCHANGED <<bus, chip, wiper, measured, curr_ir_power, colour, disturbed, twiBudget>>

\* ... and, once the buffer is filled, the first address byte is sent, also
\* over a transaction that another context has under way.
Fill(c) ==
  /\ AtTwi(c, "fill")
  /\ LET tx == Head(twiJob[c].todo)
     IN  /\ twi' = [twi EXCEPT !.data = tx.data, !.toWrite = tx.write, !.toRead = tx.read,
                               !.written = 0, !.read = 0]
         /\ bus' = IF bus = "stuck" THEN bus ELSE IF tx.write > 0 THEN "write" ELSE "read"
         /\ measured' = IF tx.read > 0 THEN measured + 1 ELSE measured
  /\ chip' = twi.address
  /\ twiJob' = [twiJob EXCEPT ![c] = IF Len(@.todo) > 1 THEN Advanced(c)
                                                         ELSE [@ EXCEPT !.at = "return"]]
  /\ UNCHANGED <<wiper, curr_ir_power, colour, disturbed, twiBudget>>

\* The call returns although its last transaction has only begun: the power
\* counts as set, and getRGB takes what the read buffer holds.
ReturnTwi(c) ==
  /\ AtTwi(c, "return")
  /\ twiJob' = [twiJob EXCEPT ![c] = NoTwiJob]
  /\ curr_ir_power' = IF twiJob[c].op = "setAllirPowers" THEN twiJob[c].power ELSE curr_ir_power
  /\ colour' = IF twiJob[c].op = "getRGB" THEN [call |-> measured, bytes |-> twi.readData]
                                          ELSE colour
  /\ UNCHANGED <<twi, bus, chip, wiper, measured, disturbed, twiBudget>>

----------------------------------------------------------------------------
(* The interrupt.                                                          *)

Ended(result) == /\ twi' = [twi EXCEPT !.status = "ready", !.result = result]
                 /\ bus' = "idle" /\ UNCHANGED <<chip, wiper>>

\* TWI_MasterArbitrationLostBusErrorHandler, or an answer that is no ACK
Fault ==
  /\ bus \in {"write", "read"} /\ twiBudget.faults > 0
  /\ \E result \in {"bus error", "nack"} : Ended(result)
  /\ disturbed' = TRUE /\ twiBudget' = [twiBudget EXCEPT !.faults = @ - 1]
  /\ UNCHANGED <<measured, curr_ir_power, twiJob, colour>>

\* The clock line is held: no interrupt comes any more.
Hang ==
  /\ bus \in {"write", "read"} /\ twiBudget.hangs > 0
  /\ bus' = "stuck" /\ disturbed' = TRUE
  /\ twiBudget' = [twiBudget EXCEPT !.hangs = @ - 1]
  /\ UNCHANGED <<twi, chip, wiper, measured, curr_ir_power, twiJob, colour>>

\* mutant: the last byte is not sent
WriteHandlerShort ==
  /\ bus = "write"
  /\ \/ /\ twi.written + 1 < twi.toWrite
        /\ twi' = [twi EXCEPT !.written = @ + 1]
        /\ wiper' = IF chip \in PowerChips THEN [wiper EXCEPT ![chip][twi.written + 1] = twi.data]
                                           ELSE wiper
        /\ UNCHANGED <<bus, chip>>
     \/ /\ twi.written + 1 >= twi.toWrite /\ twi.read < twi.toRead
        /\ bus' = "read" /\ chip' = twi.address /\ UNCHANGED <<twi, wiper>>
     \/ twi.written + 1 >= twi.toWrite /\ twi.read >= twi.toRead /\ Ended("ok")
  /\ UNCHANGED <<measured, curr_ir_power, twiJob, colour, disturbed, twiBudget>>

\* TWI_MasterWriteHandler after an ACK: the next byte, a repeated START to
\* read, or STOP
WriteHandler ==
  /\ bus = "write"
  /\ \/ /\ twi.written < twi.toWrite
        /\ twi' = [twi EXCEPT !.written = @ + 1]
        /\ wiper' = IF chip \in PowerChips THEN [wiper EXCEPT ![chip][twi.written + 1] = twi.data]
                                           ELSE wiper
        /\ UNCHANGED <<bus, chip>>
     \/ /\ twi.written >= twi.toWrite /\ twi.read < twi.toRead
        /\ bus' = "read" /\ chip' = twi.address /\ UNCHANGED <<twi, wiper>>
     \/ twi.written >= twi.toWrite /\ twi.read >= twi.toRead /\ Ended("ok")
  /\ UNCHANGED <<measured, curr_ir_power, twiJob, colour, disturbed, twiBudget>>

\* mutant: the last byte read does not end the transaction
ReadHandlerOpen ==
  /\ bus = "read"
  /\ LET got == [twi EXCEPT !.readData[twi.read + 1] = measured, !.read = @ + 1]
     IN  IF got.read < got.toRead THEN twi' = got /\ UNCHANGED bus
         ELSE twi' = got /\ bus' = "idle"
  /\ UNCHANGED <<chip, wiper, measured, curr_ir_power, twiJob, colour, disturbed, twiBudget>>

\* TWI_MasterReadHandler; no transaction reads more than the buffer holds.
ReadHandler ==
  /\ bus = "read"
  /\ LET got == IF twi.read < Colours
                THEN [twi EXCEPT !.readData[twi.read + 1] = measured, !.read = @ + 1]
                ELSE [twi EXCEPT !.result = "buffer overflow", !.status = "ready"]
     IN  IF got.read < got.toRead THEN twi' = got /\ UNCHANGED bus
         ELSE twi' = [got EXCEPT !.status = "ready", !.result = "ok"] /\ bus' = "idle"
  /\ UNCHANGED <<chip, wiper, measured, curr_ir_power, twiJob, colour, disturbed, twiBudget>>

----------------------------------------------------------------------------
TwiCode == \E c \in TwiContexts : ReadyNow(c) \/ TimedOut(c) \/ ClaimBus(c) \/ Fill(c) \/ ReturnTwi(c)
TwiIsr  == WriteHandler \/ ReadHandler
TwiNext == TwiCode \/ TwiIsr \/ Fault \/ Hang \/ \E c \in TwiContexts, k \in TwiCalls : CallTwi(c, k)

TwiSpec == TwiInit /\ [][TwiNext]_twiVars

\* No call waits for an interrupt that does not come: while the status is
\* busy, a byte is under way or a context is about to send one.
BusyHasCause ==
  twi.status = "busy" => bus # "idle" \/ \E c \in TwiContexts : twiJob[c].at = "fill"

\* At rest, after calls that did not overlap and did not fail, both chips
\* have the power that curr_ir_power tells.
PowersAgree ==
  ~disturbed /\ bus = "idle" /\ (\A c \in TwiContexts : twiJob[c] = NoTwiJob) =>
    \A c \in PowerChips, i \in 1 .. Wipers : wiper[c][i] = curr_ir_power

\* Every call returns, also on a bus that hangs.
TwiCallsReturn == \A c \in TwiContexts : (twiJob[c] # NoTwiJob) ~> (twiJob[c] = NoTwiJob)

\* "This function returns the sensed red, green, and blue values": what
\* getRGB returns was read from the sensor in that call.
ColourSensed == \A i \in 1 .. Colours : colour.bytes[i] = colour.call
=============================================================================
