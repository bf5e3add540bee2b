----------------------------- MODULE Bus_proofs -----------------------------
(***************************************************************************)
(* The drivers that share the processor with their interrupt handlers: the *)
(* clock, the I2C bus, the IR sensors and emitters, the synchronisation,   *)
(* and the motors.                                                         *)
(***************************************************************************)
EXTENDS Clock, TwiMaster, IrSense, Firefly, Motion, SequenceTheorems, NaturalFacts

-----------------------------------------------------------------------------
(* The clock                                                               *)

\* The types of the clock's variables.
ClockTypeOK ==
  /\ rtcCnt \in 0 .. EpochTicks - 1 /\ rtc_epoch \in Int
  /\ ovfPending \in BOOLEAN /\ elapsed \in Int
  /\ reader \in [Readers -> {"open", "closed"}]
  /\ update \in [at : {"idle", "read"}, read : Int]
  /\ slipped \in BOOLEAN /\ updates \in Nat

\* What updateRTC has read is a time of the epoch that still counts, and, unless
\* the counter ran over since, an overflow that is pending was so then.
ClockInv ==
  /\ ClockTypeOK /\ EpochsRight
  /\ update.at = "read" => update.read - rtc_epoch * EpochTicks \in 0 .. EpochTicks - 1

\* The clock starts aligned, with no reading under way.
LEMMA ClockInitially == ClockInit => ClockInv
<1> SUFFICES ASSUME ClockInit PROVE ClockInv
  OBVIOUS
<1> USE DEF ClockInit
<1>1. ClockTypeOK
  <2>1. reader \in [Readers -> {"open", "closed"}] /\ update \in [at : {"idle", "read"}, read : Int]
    OBVIOUS
  <2>2. 0 \in 0 .. EpochTicks - 1
    BY ClockAssumption DEF ClockAssumption
  <2> QED BY <2>1, <2>2 DEF ClockTypeOK
<1>2. EpochsRight
  BY ClockAssumption DEF EpochsRight, getTime, ClockAssumption
<1> QED BY <1>1, <1>2 DEF ClockInv

\* The change that updateRTC makes: of at most half a period, to a multiple of it.
LEMMA ChangeAligns ==
  ASSUME update.read \in Int
  PROVE  /\ Change \in -(PeriodMs \div 2) .. PeriodMs \div 2
         /\ Change \in -(EpochTicks - 1) .. EpochTicks - 1
         /\ (update.read + Change) % PeriodMs = 0
<1> DEFINE q == update.read \div PeriodMs
<1>1. /\ PeriodMs \in Nat \ {0} /\ EpochTicks \in Nat /\ PeriodMs < EpochTicks
      /\ q \in Int /\ Remainder \in 0 .. PeriodMs - 1
      /\ update.read = (PeriodMs * q) + Remainder
  BY DivMod, ClockAssumption DEF ClockAssumption, Remainder
<1> HIDE DEF q
<1> DEFINE half == PeriodMs \div 2
<1>2. half \in Nat /\ PeriodMs - 1 <= 2 * half /\ 2 * half <= PeriodMs
  BY <1>1
<1> HIDE DEF half
<1>3. CASE Remainder > half
  <2>1. Change = PeriodMs - Remainder
    BY <1>3 DEF Change, half
  <2>2. update.read + Change = (q + 1) * PeriodMs + 0
    BY <1>1, <2>1
  <2>3. (update.read + Change) % PeriodMs = 0
    <3>1. PeriodMs \in Nat \ {0} /\ q + 1 \in Int /\ 0 \in 0 .. PeriodMs - 1
      BY <1>1
    <3>2. ((q + 1) * PeriodMs + 0) % PeriodMs = 0
      BY <3>1, RemainderIs
    <3> QED BY <2>2, <3>2
  <2>4. Change \in -half .. half /\ Change \in -(EpochTicks - 1) .. EpochTicks - 1
    BY <1>1, <1>2, <1>3, <2>1 
  <2> QED BY <2>3, <2>4 DEF half
<1>4. CASE ~(Remainder > half)
  <2>1. Change = -Remainder
    BY <1>4 DEF Change, half
  <2>2. update.read + Change = q * PeriodMs + 0
    BY <1>1, <2>1
  <2>3. (update.read + Change) % PeriodMs = 0
    <3>1. PeriodMs \in Nat \ {0} /\ q \in Int /\ 0 \in 0 .. PeriodMs - 1
      BY <1>1
    <3>2. (q * PeriodMs + 0) % PeriodMs = 0
      BY <3>1, RemainderIs
    <3> QED BY <2>2, <3>2
  <2>4. Change \in -half .. half /\ Change \in -(EpochTicks - 1) .. EpochTicks - 1
    BY <1>1, <1>2, <1>4, <2>1
  <2> QED BY <2>3, <2>4 DEF half
<1> QED BY <1>3, <1>4

\* The epoch and the counter that updateRTC writes tell the changed time.
LEMMA CarryCounts ==
  ASSUME NEW e \in Int, update.read \in Int,
         update.read - e * EpochTicks \in 0 .. EpochTicks - 1
  PROVE  /\ Carry \in Int
         /\ (update.read + Change) % EpochTicks \in 0 .. EpochTicks - 1
         /\ (e + Carry) * EpochTicks + ((update.read + Change) % EpochTicks) = update.read + Change
<1> DEFINE ticks == update.read - e * EpochTicks
<1>1. EpochTicks \in Nat \ {0} /\ ticks \in 0 .. EpochTicks - 1
  BY ClockAssumption DEF ClockAssumption
<1>2. update.read % EpochTicks = ticks
  <2>1. update.read = e * EpochTicks + ticks
    BY <1>1
  <2> QED BY <1>1, <2>1, RemainderIs
<1>3. /\ Change \in -(EpochTicks - 1) .. EpochTicks - 1
      /\ Remainder \in 0 .. PeriodMs - 1
      /\ PeriodMs \in Nat \ {0} /\ PeriodMs < EpochTicks
  BY ChangeAligns, DivMod, ClockAssumption DEF ClockAssumption, Remainder
<1>4. /\ Carry \in {-1, 0, 1}
      /\ ticks + Change - Carry * EpochTicks \in 0 .. EpochTicks - 1
  <2>1. CASE Remainder > PeriodMs \div 2
    <3>1. Change = PeriodMs - Remainder
      BY <2>1 DEF Change
    <3>2. Carry = IF (EpochTicks - 1) - Change < ticks THEN 1 ELSE 0
      BY <2>1, <1>2 DEF Carry
    <3> QED BY <3>1, <3>2, <1>1, <1>3
  <2>2. CASE ~(Remainder > PeriodMs \div 2)
    <3>1. Change = -Remainder
      BY <2>2 DEF Change
    <3>2. Carry = IF ticks < Remainder THEN -1 ELSE 0
      BY <2>2, <1>2 DEF Carry
    <3> QED BY <3>1, <3>2, <1>1, <1>3
  <2> QED BY <2>1, <2>2
<1> DEFINE r == ticks + Change - Carry * EpochTicks
<1>5. update.read + Change = (e + Carry) * EpochTicks + r
  BY <1>1, <1>3, <1>4
<1>6. (update.read + Change) % EpochTicks = r
  <2> HIDE DEF r
  <2>1. r \in 0 .. EpochTicks - 1 /\ e + Carry \in Int
    BY <1>4 DEF r
  <2> QED BY <1>1, <1>5, <2>1, RemainderIs
<1> QED BY <1>4, <1>5, <1>6

\* Every step of the clock, of a reader and of updateRTC keeps the invariant:
\* an overflow that is taken counts an epoch, and a correction carries.
LEMMA ClockStep ==
  ASSUME ClockInv, [ClockNext]_clockVars
  PROVE  ClockInv'
<1> USE ClockAssumption DEF ClockAssumption
<1> USE DEF ClockInv
<1>1. CASE ClockTick
  <2>1. /\ (rtcCnt + 1) % EpochTicks = IF rtcCnt = EpochTicks - 1 THEN 0 ELSE rtcCnt + 1
    <3>1. rtcCnt + 1 = IF rtcCnt = EpochTicks - 1 THEN 1 * EpochTicks + 0 ELSE 0 * EpochTicks + (rtcCnt + 1)
      BY DEF ClockTypeOK
    <3> QED BY <3>1, RemainderIs DEF ClockTypeOK
  <2>2. ClockTypeOK'
    BY <1>1, <2>1 DEF ClockTypeOK, ClockTick
  <2>3. EpochsRight'
    <3>1. rtc_epoch * EpochTicks \in Int
      BY DEF ClockTypeOK
    <3>2. rtc_epoch' = rtc_epoch /\ getTime = rtc_epoch * EpochTicks + rtcCnt /\ getTime' = rtc_epoch * EpochTicks + rtcCnt'
      BY <1>1 DEF ClockTick, getTime
    <3>3. CASE rtcCnt = EpochTicks - 1
      <4>0. rtcCnt' = 0
        BY <1>1, <2>1, <3>3 DEF ClockTick
      <4>1. getTime' = getTime + 1 - EpochTicks
        BY <4>0, <3>1, <3>2, <3>3 DEF ClockTypeOK
      <4>3. ovfPending' /\ ~ovfPending
        BY <1>1, <4>0, Zenon DEF ClockTick
      <4>2. elapsed' = elapsed + 1 /\ (slipped => slipped')
        BY <1>1 DEF ClockTick
      <4> QED BY <3>1, <3>2, <4>1, <4>2, <4>3 DEF ClockTypeOK, EpochsRight
    <3>4. CASE rtcCnt # EpochTicks - 1
      <4>1. getTime' = getTime + 1 /\ ovfPending' = ovfPending
        BY <1>1, <2>1, <3>1, <3>2, <3>4 DEF ClockTypeOK, ClockTick
      <4>2. elapsed' = elapsed + 1 /\ (slipped => slipped')
        BY <1>1 DEF ClockTick
      <4> QED BY <3>1, <3>2, <4>1, <4>2 DEF ClockTypeOK, EpochsRight
    <3> QED BY <3>3, <3>4
  <2> QED BY <1>1, <2>2, <2>3 DEF ClockTick
<1>2. CASE CountEpoch
  <2>1. (rtc_epoch + 1) * EpochTicks = rtc_epoch * EpochTicks + EpochTicks
    BY DEF ClockTypeOK
  <2>2. ClockTypeOK' /\ EpochsRight'
    <3>1. ClockTypeOK'
      <4>1. ovfPending' = FALSE /\ rtc_epoch' = rtc_epoch + 1
        BY <1>2, Zenon DEF CountEpoch
      <4>2. rtc_epoch' \in Int
        BY <4>1 DEF ClockTypeOK
      <4> QED BY <1>2, <4>1, <4>2 DEF CountEpoch, ClockTypeOK
    <3>2. getTime' = getTime + EpochTicks
      BY <1>2, <2>1 DEF CountEpoch, ClockTypeOK, getTime
    <3>3. getTime \in Int
      BY DEF ClockTypeOK, getTime
    <3> QED BY <1>2, <3>1, <3>2, <3>3 DEF CountEpoch, ClockTypeOK, EpochsRight
  <2>3. update'.at = "idle"
    BY <1>2 DEF CountEpoch, Open
  <2> QED BY <2>2, <2>3
<1>3. CASE UpdateReads
  BY <1>3 DEF UpdateReads, ClockTypeOK, EpochsRight, getTime
<1>4. CASE UpdateWrites
  <2>1. /\ Carry \in Int
        /\ (update.read + Change) % EpochTicks \in 0 .. EpochTicks - 1
        /\ (rtc_epoch + Carry) * EpochTicks + ((update.read + Change) % EpochTicks) = update.read + Change
    BY <1>4, CarryCounts DEF UpdateWrites, ClockTypeOK
  <2>2. Change \in Int
    BY <1>4, ChangeAligns DEF ClockTypeOK
  <2> HIDE DEF ClockAssumption
  <2>3. ClockTypeOK'
    BY <1>4, <2>1, <2>2 DEF ClockTypeOK, UpdateWrites
  <2>4. EpochsRight'
    BY <1>4, <2>1, <2>2 DEF ClockTypeOK, UpdateWrites, EpochsRight, getTime
  <2> QED BY <1>4, <2>3, <2>4 DEF UpdateWrites
<1>5. CASE \E c \in Readers : GetTimeCloses(c) \/ GetTimeReads(c)
  <2>1. /\ reader' \in [Readers -> {"open", "closed"}]
        /\ UNCHANGED <<rtcCnt, rtc_epoch, ovfPending, elapsed, update, slipped, updates>>
    BY <1>5 DEF GetTimeCloses, GetTimeReads, ClockTypeOK
  <2> QED BY <2>1 DEF ClockTypeOK, EpochsRight, getTime
<1>6. CASE UNCHANGED clockVars
  BY <1>6 DEF clockVars, ClockTypeOK, EpochsRight, getTime
<1> QED BY <1>1, <1>2, <1>3, <1>4, <1>5, <1>6 DEF ClockNext

\* ClockInv is an invariant, for every length of the epoch and of the period.
LEMMA ClockSafe == ClockSpec => []ClockInv
BY ClockInitially, ClockStep, PTL DEF ClockSpec

\* getTime loses no epoch and counts none twice, whatever updateRTC corrects,
\* unless the counter runs over between its reading and its writing.
THEOREM EpochsAreRight == ClockSpec => []EpochsRight
<1>1. ClockInv => EpochsRight
  BY DEF ClockInv
<1> QED BY <1>1, ClockSafe, PTL

\* Every correction of updateRTC aligns the clock with the synchronisation
\* period and moves it by no more than half of it, for every period and epoch.
THEOREM UpdateIsAligned == ClockSpec => UpdateAligns
<1>1. ASSUME ClockInv, [ClockNext]_clockVars
      PROVE  [UpdateWrites /\ ~ovfPending /\ ~slipped =>
               /\ elapsed' % PeriodMs = 0
               /\ elapsed' - update.read \in -(PeriodMs \div 2) .. PeriodMs \div 2]_clockVars
  <2> SUFFICES ASSUME UpdateWrites, ~ovfPending
               PROVE  /\ elapsed' % PeriodMs = 0
                      /\ elapsed' - update.read \in -(PeriodMs \div 2) .. PeriodMs \div 2
    OBVIOUS
  <2>1. /\ update.read \in Int
        /\ Change \in -(PeriodMs \div 2) .. PeriodMs \div 2 /\ Change \in Int
        /\ (update.read + Change) % PeriodMs = 0
    BY <1>1, ChangeAligns DEF ClockInv, ClockTypeOK
  <2>2. elapsed' = update.read + Change
    BY <2>1 DEF UpdateWrites
  <2> QED BY <2>1, <2>2
<1> QED BY <1>1, ClockSafe, PTL DEF ClockSpec, UpdateAligns

-----------------------------------------------------------------------------
(* The I2C bus                                                             *)

\* A sequence that is not empty has a first element.
LEMMA SomeElements ==
  ASSUME NEW S, NEW s \in Seq(S), s # <<>>
  PROVE  Len(s) \in Nat \ {0} /\ Head(s) \in S
OBVIOUS

\* The tail of more than one transaction is not empty.
LEMMA TailOfMany ==
  ASSUME NEW S, NEW s \in Seq(S), Len(s) > 1
  PROVE  Tail(s) \in Seq(S) /\ Tail(s) # <<>> /\ Len(Tail(s)) = Len(s) - 1
OBVIOUS

\* More than one transaction are not one.
LEMMA ManyIsNotOne ==
  ASSUME NEW s, NEW a, Len(s) > 1
  PROVE  s # <<a>>
OBVIOUS

\* The two transactions of setAllirPowers, one after the other.
LEMMA PairsAre ==
  ASSUME NEW a, NEW b
  PROVE  /\ Len(<<a, b>>) = 2 /\ Head(<<a, b>>) = a /\ Tail(<<a, b>>) = <<b>>
         /\ Len(<<a>>) = 1 /\ Head(<<a>>) = a /\ <<a>> # <<>> /\ <<a, b>> # <<>> /\ <<a, b>> # <<b>>
OBVIOUS

\* What is written, and the transactions
BusBytes == {0} \cup Powers
\* How many bytes a transaction reads, the chips, and the transactions.
BusReads == {0, Colours}
Chips == {"A", "B", "rgb"}
Transactions == [chip : Chips, data : BusBytes, write : Nat, read : BusReads]

\* The transactions with the colour sensor
SensorTx == [chip : {"rgb"}, data : {0}, write : Nat, read : BusReads]

\* Where a call is.
CallStages == {"wait", "claim", "fill", "return"}

\* The transactions of setAllirPowers
ToA(p) == Write("A", p, Wipers)
ToB(p) == Write("B", p, Wipers)

\* The calls that a context may be in
SensorCall(j) ==
  /\ j.op \in {"rgbSensorInit", "getRGB"} /\ j.at \in CallStages
  /\ j.todo \in Seq(SensorTx) /\ j.todo # <<>>
PowerCall(j) ==
  /\ j.op = "setAllirPowers" /\ j.at \in CallStages
  /\ \/ j.todo = <<ToA(j.power), ToB(j.power)>> /\ j.at # "return"
     \/ j.todo = <<ToB(j.power)>>

\* The results of a transaction, the record twi, and the calls under way.
TwiResults == {"unknown", "ok", "nack", "bus error", "buffer overflow"}
TwiStates == [status : {"ready", "busy"}, result : TwiResults, address : {"none"} \cup Chips, data : BusBytes,
              toWrite : Nat, toRead : BusReads, written : Nat, read : Nat, readData : [1 .. Colours -> Nat]]

TwiJobs == [op : {"rgbSensorInit", "getRGB", "setAllirPowers"}, power : BusBytes,
         todo : Seq(Transactions), at : CallStages]

\* The types of the bus, its chips and the calls of its master.
TwiTypeOK ==
  /\ twi \in TwiStates
  /\ bus \in {"idle", "write", "read", "stuck"} /\ chip \in {"none"} \cup Chips
  /\ wiper \in [PowerChips -> [1 .. Wipers -> BusBytes]]
  /\ measured \in Nat
  /\ twiJob \in [TwiContexts -> {NoTwiJob} \cup TwiJobs]
  /\ \A c \in TwiContexts : twiJob[c] # NoTwiJob => SensorCall(twiJob[c]) \/ PowerCall(twiJob[c])

\* The changes that the steps make to the state of the bus keep its type.
LEMMA TwiChanges ==
  ASSUME NEW t \in TwiStates
  PROVE  /\ \A b \in BusBytes, n \in Nat, r \in BusReads :
              [t EXCEPT !.data = b, !.toWrite = n, !.toRead = r, !.written = 0, !.read = 0] \in TwiStates
         /\ \A d \in [1 .. Colours -> Nat], n \in Nat :
              [t EXCEPT !.readData = d, !.read = n] \in TwiStates
<1>1. ASSUME NEW b \in BusBytes, NEW n \in Nat, NEW r \in BusReads
      PROVE  [t EXCEPT !.data = b, !.toWrite = n, !.toRead = r, !.written = 0, !.read = 0] \in TwiStates
  BY DEF TwiStates
<1>2. ASSUME NEW d \in [1 .. Colours -> Nat], NEW n \in Nat
      PROVE  [t EXCEPT !.readData = d, !.read = n] \in TwiStates
  BY DEF TwiStates
<1> QED BY <1>1, <1>2

\* What a call begins with is one of the transactions of its operation.
LEMMA ScriptCalls ==
  /\ LET j == Called([op |-> "rgbSensorInit", power |-> 0]) IN j \in TwiJobs /\ SensorCall(j)
  /\ \A k \in TwiCalls : LET j == Called(k) IN j \in TwiJobs /\ (SensorCall(j) \/ PowerCall(j))
<1> USE TwiAssumption DEF TwiAssumption, CallStages
<1>1. LET j == Called([op |-> "rgbSensorInit", power |-> 0]) IN j \in TwiJobs /\ SensorCall(j)
  <2> DEFINE k == [op |-> "rgbSensorInit", power |-> 0]
             s == [i \in 1 .. 4 |-> Write("rgb", 0, 2)]
  <2>1. Called(k) = [op |-> "rgbSensorInit", power |-> 0, todo |-> s, at |-> "wait"]
    BY DEF Called, Script
  <2>2. s \in Seq(SensorTx) /\ s # <<>>
    BY DEF SensorTx, BusReads, Write
  <2>3. s \in Seq(Transactions)
    <3>1. Write("rgb", 0, 2) \in Transactions
      BY DEF Write, Transactions, BusBytes, BusReads, Chips
    <3> QED BY <3>1
  <2> HIDE DEF s
  <2> QED BY <2>1, <2>2, <2>3 DEF SensorCall, TwiJobs, BusBytes
<1>2. ASSUME NEW k \in TwiCalls
      PROVE  LET j == Called(k) IN j \in TwiJobs /\ (SensorCall(j) \/ PowerCall(j))
  <2>1. CASE k.op = "setAllirPowers"
    <3>1. Called(k) = [op |-> "setAllirPowers", power |-> k.power, todo |-> <<ToA(k.power), ToB(k.power)>>, at |-> "wait"]
      BY <2>1 DEF Called, Script, ToA, ToB
    <3>2. k.power \in BusBytes
      BY DEF TwiCalls, BusBytes
    <3>3. <<ToA(k.power), ToB(k.power)>> \in Seq(Transactions)
      <4>1. ToA(k.power) \in Transactions /\ ToB(k.power) \in Transactions
        BY <3>2 DEF ToA, ToB, Write, Transactions, BusReads, Chips
      <4> QED BY <4>1
    <3> QED BY <3>1, <3>2, <3>3 DEF PowerCall, TwiJobs
  <2>2. CASE k.op # "setAllirPowers"
    <3>1. k = [op |-> "getRGB", power |-> 0]
      BY <2>2 DEF TwiCalls
    <3> DEFINE tx == [chip |-> "rgb", data |-> 0, write |-> 1, read |-> Colours]
    <3>2. Called(k) = [op |-> "getRGB", power |-> 0, todo |-> <<tx>>, at |-> "wait"]
      BY <3>1 DEF Called, Script
    <3>3. <<tx>> \in Seq(Transactions)
          /\ <<tx>> \in Seq(SensorTx) /\ <<tx>> # <<>>
      <4>1. tx \in Transactions /\ tx \in SensorTx
        BY DEF SensorTx, Transactions, BusBytes, BusReads, Chips
      <4> HIDE DEF tx
      <4> QED BY <4>1
    <3>4. 0 \in BusBytes
      BY DEF BusBytes
    <3> HIDE DEF tx
    <3> QED BY <3>2, <3>3, <3>4 DEF SensorCall, TwiJobs
  <2> QED BY <2>1, <2>2
<1> QED BY <1>1, <1>2


----------------------------------------------------------------------------
\* The power that a chip has, or will have when the transaction under way ends
ComesTo(c, p) ==
  IF bus = "write" /\ chip = c
  THEN /\ twi.data = p /\ twi.toWrite = Wipers
       /\ \A i \in 1 .. Wipers : i <= twi.written => wiper[c][i] = p
  ELSE \A i \in 1 .. Wipers : wiper[c][i] = p

\* The chips have, or will have got, the power that setAllirPowers was asked
\* for, by where the call is.
PowersComing(j) ==
  IF j.op = "setAllirPowers"
  THEN /\ j.todo = <<ToB(j.power)>> => ComesTo("A", j.power)
       /\ j.at = "return" => ComesTo("B", j.power)
  ELSE ComesTo("A", curr_ir_power) /\ ComesTo("B", curr_ir_power)

\* At most one call is under way, and what the bus does is the end of the
\* call before or of the transaction before.
BusQuiet ==
  /\ \E c \in TwiContexts : /\ \A d \in TwiContexts \ {c} : twiJob[d] = NoTwiJob
                            /\ PowersComing(twiJob[c])
  /\ bus # "stuck" /\ (twi.status = "ready" => bus = "idle")
  /\ bus # "idle" => chip = twi.address
  /\ bus = "read" => chip = "rgb"
  /\ bus = "write" /\ chip # "rgb" => twi.toRead = 0
  /\ \A c \in TwiContexts :
       /\ twiJob[c].at = "claim" => twi.status = "ready"
       /\ twiJob[c].at = "fill"  => /\ bus = "idle" /\ twi.status = "busy"
                                    /\ twi.address = Head(twiJob[c].todo).chip

\* A busy status has its cause, whatever fails; and the bus is quiet as long as
\* nothing disturbs it.
TwiInv == TwiTypeOK /\ BusyHasCause /\ (~disturbed => BusQuiet)

\* The bus is at rest at first.
LEMMA TwiInitially == TwiInit => TwiInv
<1> SUFFICES ASSUME TwiInit PROVE TwiInv
  OBVIOUS
<1> USE TwiAssumption DEF TwiInit, TwiAssumption
<1> DEFINE first == Called([op |-> "rgbSensorInit", power |-> 0])
<1>1. first \in TwiJobs /\ SensorCall(first) /\ first.at = "wait" /\ first.op = "rgbSensorInit"
  BY ScriptCalls DEF Called
<1> HIDE DEF first
<1>2. twiJob = [c \in TwiContexts |-> IF c = "main" THEN first ELSE NoTwiJob]
  BY DEF first
<1>3. TwiTypeOK
  <2>1. twi \in TwiStates
    <3>1. [i \in 1 .. Colours |-> 0] \in [1 .. Colours -> Nat] /\ 0 \in BusBytes
      BY DEF BusBytes
    <3> QED BY <3>1 DEF TwiStates, TwiResults, BusReads
  <2>2. wiper \in [PowerChips -> [1 .. Wipers -> BusBytes]]
    BY DEF BusBytes
  <2>3. /\ twiJob \in [TwiContexts -> {NoTwiJob} \cup TwiJobs]
        /\ \A c \in TwiContexts : twiJob[c] # NoTwiJob => SensorCall(twiJob[c]) \/ PowerCall(twiJob[c])
    BY <1>1, <1>2
  <2> QED BY <2>1, <2>2, <2>3 DEF TwiTypeOK
<1>4. BusyHasCause
  BY DEF BusyHasCause
<1>5. BusQuiet
  <2>1. ComesTo("A", curr_ir_power) /\ ComesTo("B", curr_ir_power)
    BY DEF ComesTo, PowerChips
  <2>2. PowersComing(twiJob["main"]) /\ twiJob["task"] = NoTwiJob
    BY <1>1, <1>2, <2>1 DEF PowersComing, TwiContexts
  <2>3. \A c \in TwiContexts : twiJob[c].at \in {"wait", "idle"}
    BY <1>1, <1>2 DEF NoTwiJob
  <2> QED BY <2>2, <2>3 DEF BusQuiet, TwiContexts
<1> QED BY <1>3, <1>4, <1>5 DEF TwiInv

----------------------------------------------------------------------------
\* A context that is somewhere in a call is in one of the two kinds of call,
\* and its next transaction is one of theirs.
LEMMA InCall ==
  ASSUME TwiTypeOK, NEW c \in TwiContexts, twiJob[c].at # "idle"
  PROVE  /\ twiJob[c] # NoTwiJob /\ twiJob[c] \in TwiJobs
         /\ SensorCall(twiJob[c]) \/ PowerCall(twiJob[c])
         /\ Len(twiJob[c].todo) \in Nat \ {0}
         /\ Head(twiJob[c].todo) \in Transactions
         /\ SensorCall(twiJob[c]) => Head(twiJob[c].todo) \in SensorTx
<1>1. twiJob[c] # NoTwiJob
  BY DEF NoTwiJob
<1>2. twiJob[c] \in TwiJobs /\ (SensorCall(twiJob[c]) \/ PowerCall(twiJob[c]))
  BY <1>1 DEF TwiTypeOK
<1>3. twiJob[c].todo \in Seq(Transactions) /\ twiJob[c].todo # <<>>
  <2>1. twiJob[c].todo \in Seq(Transactions)
    BY <1>2 DEF TwiJobs
  <2> QED BY <1>2, <2>1, PairsAre DEF SensorCall, PowerCall
<1>4. SensorCall(twiJob[c]) => Head(twiJob[c].todo) \in SensorTx
  BY SomeElements DEF SensorCall
<1> QED BY <1>1, <1>2, <1>3, <1>4, SomeElements

\* Types and BusyHasCause
LEMMA TwiTypeStep ==
  ASSUME TwiTypeOK, BusyHasCause, [TwiNext]_twiVars
  PROVE  TwiTypeOK' /\ BusyHasCause'
<1> USE TwiAssumption DEF TwiAssumption
<1>1. ASSUME NEW c \in TwiContexts, NEW k \in TwiCalls, CallTwi(c, k)
      PROVE  TwiTypeOK' /\ BusyHasCause'
  <2>1. Called(k) \in TwiJobs /\ (SensorCall(Called(k)) \/ PowerCall(Called(k)))
    BY ScriptCalls
  <2>2. TwiTypeOK'
    BY <1>1, <2>1 DEF CallTwi, TwiTypeOK
  <2>3. \A d \in TwiContexts : twiJob[d].at = "fill" => twiJob'[d].at = "fill"
    BY <1>1 DEF CallTwi, TwiTypeOK, NoTwiJob
  <2> QED BY <1>1, <2>2, <2>3 DEF CallTwi, BusyHasCause
<1>2. ASSUME NEW c \in TwiContexts, ReadyNow(c)
      PROVE  TwiTypeOK' /\ BusyHasCause'
  <2>1. twiJob[c] \in TwiJobs /\ (SensorCall(twiJob[c]) \/ PowerCall(twiJob[c]))
    BY <1>2, InCall DEF ReadyNow, AtTwi
  <2>2. LET j == [twiJob[c] EXCEPT !.at = "claim"] IN j \in TwiJobs /\ (SensorCall(j) \/ PowerCall(j))
    BY <2>1 DEF TwiJobs, SensorCall, PowerCall, CallStages
  <2>3. TwiTypeOK'
    BY <1>2, <2>2 DEF ReadyNow, TwiTypeOK
  <2> QED BY <1>2, <2>3 DEF ReadyNow, BusyHasCause
<1>3. ASSUME NEW c \in TwiContexts, TimedOut(c)
      PROVE  TwiTypeOK' /\ BusyHasCause'
  <2>1. twiJob[c] \in TwiJobs /\ (SensorCall(twiJob[c]) \/ PowerCall(twiJob[c])) /\ twiJob[c].at = "wait"
    BY <1>3, InCall DEF TimedOut, AtTwi
  <2>2. ASSUME twiJob[c].op = "rgbSensorInit", Len(twiJob[c].todo) > 1
        PROVE  Advanced(c) \in TwiJobs /\ SensorCall(Advanced(c))
    <3>1. SensorCall(twiJob[c])
      BY <2>1, <2>2 DEF PowerCall
    <3>2. /\ Tail(twiJob[c].todo) \in Seq(SensorTx) /\ Tail(twiJob[c].todo) # <<>>
          /\ Tail(twiJob[c].todo) \in Seq(Transactions)
      BY <2>1, <2>2, <3>1, TailOfMany DEF TwiJobs, SensorCall
    <3> QED BY <2>1, <3>1, <3>2 DEF TwiJobs, SensorCall, Advanced, CallStages
  <2>3. TwiTypeOK'
    <3>1. CASE twiJob[c].op = "rgbSensorInit" /\ Len(twiJob[c].todo) > 1
      <4> DEFINE next == Advanced(c)
      <4>1. twiJob' = [twiJob EXCEPT ![c] = next]
        BY <1>3, <3>1 DEF TimedOut
      <4>2. next \in TwiJobs /\ SensorCall(next)
        BY <2>2, <3>1
      <4> HIDE DEF next
      <4> QED BY <1>3, <4>1, <4>2 DEF TimedOut, TwiTypeOK
    <3>2. CASE ~(twiJob[c].op = "rgbSensorInit" /\ Len(twiJob[c].todo) > 1)
      <4>1. twiJob' = [twiJob EXCEPT ![c] = NoTwiJob]
        BY <1>3, <3>2 DEF TimedOut
      <4> QED BY <1>3, <4>1 DEF TimedOut, TwiTypeOK
    <3> QED BY <3>1, <3>2
  <2>4. \A d \in TwiContexts : twiJob[d].at = "fill" => twiJob'[d].at = "fill"
    BY <1>3, <2>1 DEF TimedOut, TwiTypeOK
  <2> QED BY <1>3, <2>3, <2>4 DEF TimedOut, BusyHasCause
<1>4. ASSUME NEW c \in TwiContexts, ClaimBus(c)
      PROVE  TwiTypeOK' /\ BusyHasCause'
  <2>1. /\ twiJob[c] \in TwiJobs /\ (SensorCall(twiJob[c]) \/ PowerCall(twiJob[c]))
        /\ Head(twiJob[c].todo).chip \in Chips
    BY <1>4, InCall DEF ClaimBus, AtTwi, Transactions
  <2>2. LET j == [twiJob[c] EXCEPT !.at = "fill"] IN j \in TwiJobs /\ (SensorCall(j) \/ PowerCall(j))
    BY <2>1 DEF TwiJobs, SensorCall, PowerCall, CallStages
  <2>3. twi' \in TwiStates
    BY <1>4, <2>1 DEF ClaimBus, TwiTypeOK, TwiStates, TwiResults
  <2>4. TwiTypeOK'
    BY <1>4, <2>2, <2>3 DEF ClaimBus, TwiTypeOK
  <2>5. twiJob'[c].at = "fill"
    BY <1>4, <2>1 DEF ClaimBus, TwiTypeOK, TwiJobs
  <2> QED BY <2>4, <2>5 DEF BusyHasCause
<1>5. ASSUME NEW c \in TwiContexts, Fill(c)
      PROVE  TwiTypeOK' /\ BusyHasCause'
  <2> DEFINE tx == Head(twiJob[c].todo)
  <2>1. /\ twiJob[c] \in TwiJobs /\ (SensorCall(twiJob[c]) \/ PowerCall(twiJob[c]))
        /\ tx \in Transactions
    BY <1>5, InCall DEF Fill, AtTwi
  <2>2. ASSUME Len(twiJob[c].todo) > 1
        PROVE  Advanced(c) \in TwiJobs /\ (SensorCall(Advanced(c)) \/ PowerCall(Advanced(c)))
    <3>1. Tail(twiJob[c].todo) \in Seq(Transactions)
      BY <2>1, <2>2, TailOfMany DEF TwiJobs
    <3>2. CASE SensorCall(twiJob[c])
      <4>1. Tail(twiJob[c].todo) \in Seq(SensorTx) /\ Tail(twiJob[c].todo) # <<>>
        BY <2>2, <3>2, TailOfMany DEF SensorCall
      <4> QED BY <2>1, <3>1, <3>2, <4>1 DEF TwiJobs, SensorCall, CallStages, Advanced
    <3>3. CASE PowerCall(twiJob[c])
      <4>1. Tail(twiJob[c].todo) = <<ToB(twiJob[c].power)>>
        <5>1. twiJob[c].todo # <<ToB(twiJob[c].power)>>
          BY <2>2, ManyIsNotOne
        <5>2. twiJob[c].todo = <<ToA(twiJob[c].power), ToB(twiJob[c].power)>>
          BY <3>3, <5>1, Zenon DEF PowerCall
        <5> QED BY <5>2, PairsAre
      <4> QED BY <2>1, <3>1, <3>3, <4>1 DEF TwiJobs, PowerCall, CallStages, Advanced
    <3> QED BY <2>1, <3>2, <3>3
  <2>3. ASSUME ~(Len(twiJob[c].todo) > 1)
        PROVE  LET j == [twiJob[c] EXCEPT !.at = "return"] IN j \in TwiJobs /\ (SensorCall(j) \/ PowerCall(j))
    <3>1. CASE SensorCall(twiJob[c])
      BY <2>1, <3>1 DEF TwiJobs, SensorCall, CallStages
    <3>2. CASE PowerCall(twiJob[c])
      <4>1. twiJob[c].todo = <<ToB(twiJob[c].power)>>
        BY <2>3, <3>2, PairsAre DEF PowerCall
      <4> QED BY <2>1, <3>2, <4>1 DEF TwiJobs, PowerCall, CallStages
    <3> QED BY <2>1, <3>1, <3>2
  <2>4. twiJob' \in [TwiContexts -> {NoTwiJob} \cup TwiJobs]
        /\ \A d \in TwiContexts : twiJob'[d] # NoTwiJob => SensorCall(twiJob'[d]) \/ PowerCall(twiJob'[d])
    <3>1. CASE Len(twiJob[c].todo) > 1
      <4> DEFINE next == Advanced(c)
      <4>1. twiJob' = [twiJob EXCEPT ![c] = next]
        BY <1>5, <3>1 DEF Fill
      <4>2. next \in TwiJobs /\ (SensorCall(next) \/ PowerCall(next))
        BY <2>2, <3>1
      <4> HIDE DEF next
      <4> QED BY <4>1, <4>2 DEF TwiTypeOK
    <3>2. CASE ~(Len(twiJob[c].todo) > 1)
      <4> DEFINE next == [twiJob[c] EXCEPT !.at = "return"]
      <4>1. twiJob' = [twiJob EXCEPT ![c] = next]
        BY <1>5, <3>2 DEF Fill
      <4>2. next \in TwiJobs /\ (SensorCall(next) \/ PowerCall(next))
        BY <2>3, <3>2
      <4> HIDE DEF next
      <4> QED BY <4>1, <4>2 DEF TwiTypeOK
    <3> QED BY <3>1, <3>2
  <2>5. /\ twi' = [twi EXCEPT !.data = tx.data, !.toWrite = tx.write, !.toRead = tx.read,
                              !.written = 0, !.read = 0]
        /\ bus' = IF bus = "stuck" THEN bus ELSE IF tx.write > 0 THEN "write" ELSE "read"
        /\ measured' = IF tx.read > 0 THEN measured + 1 ELSE measured
    BY <1>5 DEF Fill
  <2>6. twi' \in TwiStates /\ measured' \in Nat
    <3>1. twi \in TwiStates /\ measured \in Nat
      BY DEF TwiTypeOK
    <3>2. tx.data \in BusBytes /\ tx.write \in Nat /\ tx.read \in BusReads
      BY <2>1 DEF Transactions
    <3> HIDE DEF tx
    <3>3. twi' = [twi EXCEPT !.data = tx.data, !.toWrite = tx.write, !.toRead = tx.read,
                             !.written = 0, !.read = 0]
      BY <2>5
    <3>4. measured' \in {measured, measured + 1}
      BY <2>5
    <3>5. twi' \in TwiStates
      BY <3>1, <3>2, <3>3, TwiChanges
    <3> QED BY <3>1, <3>4, <3>5
  <2>7. bus' \in {"stuck", "write", "read"} /\ chip' \in {"none"} \cup Chips
    BY <1>5, <2>5 DEF Fill, TwiTypeOK, TwiStates
  <2>8. TwiTypeOK'
    BY <1>5, <2>4, <2>6, <2>7 DEF Fill, TwiTypeOK
  <2> QED BY <2>7, <2>8 DEF BusyHasCause
<1>6. ASSUME NEW c \in TwiContexts, ReturnTwi(c)
      PROVE  TwiTypeOK' /\ BusyHasCause'
  <2>1. TwiTypeOK'
    BY <1>6 DEF ReturnTwi, TwiTypeOK
  <2>2. \A d \in TwiContexts : twiJob[d].at = "fill" => twiJob'[d].at = "fill"
    BY <1>6 DEF ReturnTwi, AtTwi, TwiTypeOK
  <2> QED BY <1>6, <2>1, <2>2 DEF ReturnTwi, BusyHasCause
<1>7. CASE Fault
  <2>1. twi' \in TwiStates /\ twi'.status = "ready" /\ bus' = "idle"
    BY <1>7 DEF Fault, Ended, TwiTypeOK, TwiStates, TwiResults
  <2> QED BY <1>7, <2>1 DEF Fault, Ended, TwiTypeOK, BusyHasCause
<1>8. CASE Hang
  BY <1>8 DEF Hang, TwiTypeOK, BusyHasCause
<1>9. CASE WriteHandler
  <2>1. CASE twi.written < twi.toWrite
    <3>1. /\ twi' = [twi EXCEPT !.written = @ + 1] /\ bus' = "write" /\ chip' = chip
          /\ wiper' = IF chip \in PowerChips THEN [wiper EXCEPT ![chip][twi.written + 1] = twi.data]
                                             ELSE wiper
      BY <1>9, <2>1 DEF WriteHandler, TwiTypeOK, TwiStates
    <3>2. twi' \in TwiStates
      BY <3>1 DEF TwiTypeOK, TwiStates
    <3>3. wiper' \in [PowerChips -> [1 .. Wipers -> BusBytes]]
      <4>1. twi.data \in BusBytes
        BY DEF TwiTypeOK, TwiStates
      <4> QED BY <3>1, <4>1 DEF TwiTypeOK
    <3> QED BY <1>9, <3>1, <3>2, <3>3 DEF WriteHandler, TwiTypeOK, BusyHasCause
  <2>2. CASE /\ twi.written >= twi.toWrite /\ twi.read < twi.toRead
             /\ bus' = "read" /\ chip' = twi.address /\ UNCHANGED <<twi, wiper>>
    BY <1>9, <2>2 DEF WriteHandler, TwiTypeOK, TwiStates, BusyHasCause
  <2>3. CASE Ended("ok")
    <3>1. twi' \in TwiStates /\ twi'.status = "ready" /\ bus' = "idle"
      BY <2>3 DEF Ended, TwiTypeOK, TwiStates, TwiResults
    <3> QED BY <1>9, <2>3, <3>1 DEF WriteHandler, Ended, TwiTypeOK, BusyHasCause
  <2> QED BY <1>9, <2>1, <2>2, <2>3 DEF WriteHandler
<1>10. CASE ReadHandler
  <2> DEFINE got == IF twi.read < Colours
                    THEN [twi EXCEPT !.readData[twi.read + 1] = measured, !.read = @ + 1]
                    ELSE [twi EXCEPT !.result = "buffer overflow", !.status = "ready"]
  <2>1. got \in TwiStates
    <3>1. CASE twi.read < Colours
      <4>1. [twi.readData EXCEPT ![twi.read + 1] = measured] \in [1 .. Colours -> Nat]
        BY <3>1 DEF TwiTypeOK, TwiStates
      <4>2. got = [twi EXCEPT !.readData = [twi.readData EXCEPT ![twi.read + 1] = measured],
                              !.read = twi.read + 1]
        BY <3>1
      <4>3. twi \in TwiStates /\ twi.read + 1 \in Nat
        BY DEF TwiTypeOK, TwiStates
      <4> HIDE DEF got
      <4> QED BY <4>1, <4>2, <4>3, TwiChanges
    <3>2. CASE ~(twi.read < Colours)
      <4>1. got = [twi EXCEPT !.result = "buffer overflow", !.status = "ready"] /\ twi \in TwiStates
        BY <3>2 DEF TwiTypeOK
      <4> HIDE DEF got
      <4> QED BY <4>1 DEF TwiStates, TwiResults
    <3> QED BY <3>1, <3>2
  <2>2. \/ got.read < got.toRead /\ twi' = got /\ bus' = "read"
        \/ twi' = [got EXCEPT !.status = "ready", !.result = "ok"] /\ bus' = "idle"
    BY <1>10 DEF ReadHandler
  <2> HIDE DEF got
  <2>3. twi' \in TwiStates /\ bus' \in {"read", "idle"} /\ (bus' = "idle" => twi'.status = "ready")
    BY <2>1, <2>2 DEF TwiStates, TwiResults
  <2> QED BY <1>10, <2>3 DEF ReadHandler, TwiTypeOK, BusyHasCause
<1>11. CASE UNCHANGED twiVars
  BY <1>11 DEF twiVars, TwiTypeOK, BusyHasCause
<1> QED
  BY <1>1, <1>2, <1>3, <1>4, <1>5, <1>6, <1>7, <1>8, <1>9, <1>10, <1>11 DEF TwiNext, TwiCode, TwiIsr

----------------------------------------------------------------------------
\* The context of a call that is under way is the only one in a call.
LEMMA OnlyCall ==
  ASSUME BusQuiet, NEW c \in TwiContexts, twiJob[c] # NoTwiJob
  PROVE  (\A d \in TwiContexts \ {c} : twiJob[d] = NoTwiJob) /\ PowersComing(twiJob[c])
BY DEF BusQuiet

\* A step of the interrupt that takes no power from a chip
LEMMA PowersKept ==
  ASSUME BusQuiet, UNCHANGED <<twiJob, curr_ir_power>>,
         \A c \in PowerChips : \A p : ComesTo(c, p) => ComesTo(c, p)'
  PROVE  \E c \in TwiContexts : /\ \A d \in TwiContexts \ {c} : twiJob'[d] = NoTwiJob
                                /\ PowersComing(twiJob[c])'
<1>1. PICK c \in TwiContexts : /\ \A d \in TwiContexts \ {c} : twiJob[d] = NoTwiJob
                               /\ PowersComing(twiJob[c])
  BY DEF BusQuiet
<1>2. "A" \in PowerChips /\ "B" \in PowerChips
  BY DEF PowerChips
<1>3. PowersComing(twiJob[c])'
  BY <1>1, <1>2 DEF PowersComing, ToB, Write
<1> QED BY <1>1, <1>3

\* A step that disturbs nothing keeps one call at most, and takes both chips
\* towards its power.
LEMMA QuietStep ==
  ASSUME TwiTypeOK, BusQuiet, [TwiNext]_twiVars, ~disturbed, ~disturbed'
  PROVE  BusQuiet'
<1> USE TwiAssumption DEF TwiAssumption
<1>1. ASSUME NEW c \in TwiContexts, NEW k \in TwiCalls, CallTwi(c, k)
      PROVE  BusQuiet'
  <2>1. \A d \in TwiContexts : twiJob[d] = NoTwiJob
    BY <1>1, Zenon DEF CallTwi
  <2>2. PowersComing(NoTwiJob)
    BY <2>1 DEF BusQuiet
  <2>3. ComesTo("A", curr_ir_power)' /\ ComesTo("B", curr_ir_power)'
    BY <1>1, <2>2 DEF CallTwi, PowersComing, NoTwiJob, ComesTo
  <2>4. /\ twiJob'[c] = Called(k) /\ \A d \in TwiContexts \ {c} : twiJob'[d] = NoTwiJob
        /\ Called(k).at = "wait" /\ Called(k).op = k.op
    BY <1>1, <2>1 DEF CallTwi, TwiTypeOK, Called
  <2>5. k.op = "setAllirPowers" => Called(k).todo # <<ToB(k.power)>>
    BY PairsAre DEF Called, Script, ToA, ToB
  <2>6. Called(k).power = k.power
    BY DEF Called
  <2>7. PowersComing(twiJob[c])'
    BY <2>3, <2>4, <2>5, <2>6 DEF PowersComing, ToB, Write
  <2>8. \A d \in TwiContexts : twiJob'[d].at \in {"wait", "idle"}
    BY <2>4 DEF NoTwiJob
  <2> QED BY <1>1, <2>4, <2>7, <2>8 DEF CallTwi, BusQuiet
<1>2. ASSUME NEW c \in TwiContexts, ReadyNow(c)
      PROVE  BusQuiet'
  <2>1. twiJob[c] # NoTwiJob /\ twiJob[c].at = "wait" /\ twiJob[c] \in TwiJobs
    BY <1>2, InCall DEF ReadyNow, AtTwi
  <2>2. (\A d \in TwiContexts \ {c} : twiJob[d] = NoTwiJob) /\ PowersComing(twiJob[c])
    BY <2>1, OnlyCall
  <2>3. /\ twiJob'[c] = [twiJob[c] EXCEPT !.at = "claim"]
        /\ \A d \in TwiContexts \ {c} : twiJob'[d] = NoTwiJob
    BY <1>2, <2>2 DEF ReadyNow, TwiTypeOK
  <2>4. PowersComing(twiJob[c])'
    BY <1>2, <2>1, <2>2, <2>3 DEF ReadyNow, PowersComing, ComesTo, TwiJobs, ToB, Write
  <2>5. twiJob'[c].at = "claim" /\ \A d \in TwiContexts \ {c} : twiJob'[d].at = "idle"
    BY <2>1, <2>3 DEF TwiJobs, NoTwiJob
  <2> QED BY <1>2, <2>3, <2>4, <2>5 DEF ReadyNow, AtTwi, BusQuiet
<1>3. ASSUME NEW c \in TwiContexts, ClaimBus(c)
      PROVE  BusQuiet'
  <2>1. twiJob[c] # NoTwiJob /\ twiJob[c].at = "claim" /\ twiJob[c] \in TwiJobs
    BY <1>3, InCall DEF ClaimBus, AtTwi
  <2>2. (\A d \in TwiContexts \ {c} : twiJob[d] = NoTwiJob) /\ PowersComing(twiJob[c])
    BY <2>1, OnlyCall
  <2>3. bus = "idle"
    BY <2>1 DEF BusQuiet
  <2>4. /\ twiJob'[c] = [twiJob[c] EXCEPT !.at = "fill"]
        /\ \A d \in TwiContexts \ {c} : twiJob'[d] = NoTwiJob
    BY <1>3, <2>2 DEF ClaimBus, TwiTypeOK
  <2>5. PowersComing(twiJob[c])'
    BY <1>3, <2>1, <2>2, <2>3, <2>4 DEF ClaimBus, PowersComing, ComesTo, TwiJobs, ToB, Write
  <2>6. twiJob'[c].at = "fill" /\ twiJob'[c].todo = twiJob[c].todo
        /\ \A d \in TwiContexts \ {c} : twiJob'[d].at = "idle"
    BY <2>1, <2>4 DEF TwiJobs, NoTwiJob
  <2>7. twi'.status = "busy" /\ twi'.address = Head(twiJob[c].todo).chip /\ bus' = "idle"
    BY <1>3, <2>3 DEF ClaimBus, TwiTypeOK, TwiStates
  <2> QED BY <2>4, <2>5, <2>6, <2>7 DEF BusQuiet
<1>4. ASSUME NEW c \in TwiContexts, Fill(c)
      PROVE  BusQuiet'
  <2> DEFINE j == twiJob[c]
             tx == Head(j.todo)
  <2>1. /\ j # NoTwiJob /\ j.at = "fill" /\ j \in TwiJobs /\ tx \in Transactions
        /\ SensorCall(j) \/ PowerCall(j)
        /\ SensorCall(j) => tx \in SensorTx
    BY <1>4, InCall DEF Fill, AtTwi
  <2>2. (\A d \in TwiContexts \ {c} : twiJob[d] = NoTwiJob) /\ PowersComing(j)
    BY <2>1, OnlyCall
  <2>3. bus = "idle" /\ twi.address = tx.chip
    BY <2>1 DEF BusQuiet
  <2>4. /\ twi' = [twi EXCEPT !.data = tx.data, !.toWrite = tx.write, !.toRead = tx.read,
                              !.written = 0, !.read = 0]
        /\ bus' = IF tx.write > 0 THEN "write" ELSE "read"
        /\ chip' = tx.chip /\ UNCHANGED <<wiper, curr_ir_power>>
    BY <1>4, <2>3 DEF Fill
  <2>5. /\ twi'.data = tx.data /\ twi'.toWrite = tx.write /\ twi'.toRead = tx.read
        /\ twi'.written = 0 /\ twi'.status = twi.status /\ twi'.address = twi.address
    <3>1. twi \in TwiStates
      BY DEF TwiTypeOK
    <3> HIDE DEF tx
    <3> QED BY <3>1, <2>4 DEF TwiStates
  <2>6. twi.status = "busy"
    BY <2>1 DEF BusQuiet
  <2>7. \A d \in TwiContexts \ {c} : twiJob'[d] = NoTwiJob
    BY <1>4, <2>2 DEF Fill, TwiTypeOK
  <2>8. \A d \in TwiContexts \ {c} : twiJob'[d].at = "idle"
    BY <2>7 DEF NoTwiJob
  <2>9. bus' \in {"write", "read"} /\ (bus' = "write" <=> tx.write > 0)
    BY <2>4
  <2>10. CASE SensorCall(j)
    <3>1. tx.chip = "rgb" /\ chip' = "rgb"
      BY <2>1, <2>4, <2>10 DEF SensorTx
    <3>2. j.op # "setAllirPowers"
      BY <2>10 DEF SensorCall
    <3>3. twiJob'[c].op = j.op /\ twiJob'[c].at \in {"wait", "return"}
      BY <1>4, <2>1 DEF Fill, Advanced, TwiTypeOK, TwiJobs
    <3>4. ComesTo("A", curr_ir_power)' /\ ComesTo("B", curr_ir_power)'
      BY <2>2, <2>3, <2>4, <3>1, <3>2 DEF PowersComing, ComesTo
    <3>5. PowersComing(twiJob[c])'
      BY <3>2, <3>3, <3>4 DEF PowersComing
    <3> QED BY <2>3, <2>5, <2>6, <2>7, <2>8, <2>9, <3>1, <3>3, <3>5 DEF BusQuiet
  <2>11. CASE PowerCall(j) /\ j.todo = <<ToB(j.power)>>
    <3>1. Len(j.todo) = 1 /\ tx = ToB(j.power) /\ j.op = "setAllirPowers"
      BY <2>11, PairsAre DEF PowerCall
    <3>2. twiJob'[c] = [j EXCEPT !.at = "return"]
      BY <1>4, <3>1 DEF Fill, TwiTypeOK
    <3>3. /\ twiJob'[c].op = j.op /\ twiJob'[c].at = "return" /\ twiJob'[c].power = j.power
          /\ twiJob'[c].todo = j.todo
      BY <2>1, <3>2 DEF TwiJobs
    <3>4. tx.chip = "B" /\ tx.data = j.power /\ tx.write = Wipers /\ tx.read = 0
      BY <3>1 DEF ToB, Write
    <3>5. ComesTo("A", j.power)
      BY <2>2, <2>11, <3>1 DEF PowersComing
    <3> HIDE DEF tx
    <3>6. ComesTo("A", j.power)' /\ ComesTo("B", j.power)'
      <4>1. bus' = "write" /\ chip' = "B" /\ wiper' = wiper
        BY <2>4, <3>4
      <4>2. twi'.data = j.power /\ twi'.toWrite = Wipers /\ \A i \in 1 .. Wipers : ~(i <= twi'.written)
        BY <2>5, <3>4
      <4>3. j.power' = j.power
        BY <3>3
      <4> HIDE DEF j
      <4> QED BY <2>3, <3>5, <4>1, <4>2, <4>3 DEF ComesTo
    <3>7. PowersComing(twiJob[c])'
      BY <3>1, <3>3, <3>6 DEF PowersComing
    <3> QED BY <2>3, <2>4, <2>5, <2>6, <2>7, <2>8, <2>9, <3>3, <3>4, <3>7 DEF BusQuiet
  <2>12. CASE PowerCall(j) /\ j.todo # <<ToB(j.power)>>
    <3>1. Len(j.todo) = 2 /\ tx = ToA(j.power) /\ Tail(j.todo) = <<ToB(j.power)>> /\ j.op = "setAllirPowers"
      <4>1. j.todo = <<ToA(j.power), ToB(j.power)>> /\ j.op = "setAllirPowers"
        BY <2>12 DEF PowerCall
      <4> QED BY <4>1, PairsAre
    <3>2. twiJob'[c] = Advanced(c)
      BY <1>4, <3>1 DEF Fill, TwiTypeOK
    <3>3. twiJob'[c].op = j.op /\ twiJob'[c].at = "wait" /\ twiJob'[c].power = j.power
      BY <2>1, <3>2 DEF TwiJobs, Advanced
    <3>4. tx.chip = "A" /\ tx.data = j.power /\ tx.write = Wipers /\ tx.read = 0
      BY <3>1 DEF ToA, Write
    <3> HIDE DEF tx
    <3>5. ComesTo("A", j.power)'
      <4>1. bus' = "write" /\ chip' = "A"
        BY <2>4, <3>4
      <4>2. twi'.data = j.power /\ twi'.toWrite = Wipers /\ \A i \in 1 .. Wipers : ~(i <= twi'.written)
        BY <2>5, <3>4
      <4>3. j.power' = twi'.data
        BY <2>1, <3>2, <4>2 DEF Advanced, TwiJobs
      <4> HIDE DEF j
      <4> QED BY <4>1, <4>2, <4>3 DEF ComesTo
    <3>6. PowersComing(twiJob[c])'
      BY <3>1, <3>3, <3>5 DEF PowersComing
    <3> QED BY <2>3, <2>4, <2>5, <2>6, <2>7, <2>8, <2>9, <3>3, <3>4, <3>6 DEF BusQuiet
  <2> QED BY <2>1, <2>10, <2>11, <2>12
<1>5. ASSUME NEW c \in TwiContexts, ReturnTwi(c)
      PROVE  BusQuiet'
  <2>1. twiJob[c] # NoTwiJob /\ twiJob[c].at = "return" /\ (SensorCall(twiJob[c]) \/ PowerCall(twiJob[c]))
    BY <1>5, InCall DEF ReturnTwi, AtTwi
  <2>2. (\A d \in TwiContexts \ {c} : twiJob[d] = NoTwiJob) /\ PowersComing(twiJob[c])
    BY <1>5, <2>1, InCall, OnlyCall DEF ReturnTwi, AtTwi
  <2>3. \A d \in TwiContexts : twiJob'[d] = NoTwiJob
    BY <1>5, <2>2 DEF ReturnTwi, TwiTypeOK
  <2>4. ComesTo("A", curr_ir_power') /\ ComesTo("B", curr_ir_power')
    <3>1. CASE twiJob[c].op = "setAllirPowers"
      <4>1. twiJob[c].at = "return" /\ curr_ir_power' = twiJob[c].power
        BY <1>5, <3>1 DEF ReturnTwi, AtTwi
      <4>2. twiJob[c].todo = <<ToB(twiJob[c].power)>>
        BY <1>5, <2>1, <3>1, <4>1, InCall DEF ReturnTwi, AtTwi, SensorCall, PowerCall
      <4> QED BY <2>2, <3>1, <4>1, <4>2 DEF PowersComing
    <3>2. CASE twiJob[c].op # "setAllirPowers"
      BY <1>5, <2>2, <3>2 DEF ReturnTwi, PowersComing
    <3> QED BY <3>1, <3>2
  <2>5. ComesTo("A", curr_ir_power)' /\ ComesTo("B", curr_ir_power)'
    BY <1>5, <2>4 DEF ReturnTwi, ComesTo
  <2>6. PowersComing(twiJob["main"])' /\ \A d \in TwiContexts : twiJob'[d].at = "idle"
    BY <2>3, <2>5 DEF PowersComing, NoTwiJob, TwiContexts
  <2> QED BY <1>5, <2>3, <2>6 DEF ReturnTwi, BusQuiet, TwiContexts
<1>6. CASE WriteHandler
  <2>0. bus = "write" /\ \A c \in TwiContexts : twiJob[c].at \notin {"claim", "fill"}
    BY <1>6 DEF WriteHandler, BusQuiet
  <2>1. CASE twi.written < twi.toWrite
    <3>1. /\ twi' = [twi EXCEPT !.written = @ + 1] /\ bus' = "write" /\ chip' = chip
          /\ wiper' = IF chip \in PowerChips THEN [wiper EXCEPT ![chip][twi.written + 1] = twi.data]
                                             ELSE wiper
          /\ twi \in TwiStates /\ wiper \in [PowerChips -> [1 .. Wipers -> BusBytes]]
      BY <1>6, <2>1 DEF WriteHandler, TwiTypeOK, TwiStates
    <3>2. /\ twi'.written = twi.written + 1 /\ twi.written \in Nat /\ twi'.data = twi.data
          /\ twi'.toWrite = twi.toWrite /\ twi'.toRead = twi.toRead
          /\ twi'.status = twi.status /\ twi'.address = twi.address
      BY <3>1 DEF TwiStates
    <3>3. ASSUME NEW c \in PowerChips, NEW p, ComesTo(c, p)
          PROVE  ComesTo(c, p)'
      <4>1. CASE c = chip
        <5>1. twi.data = p /\ twi.toWrite = Wipers /\ \A i \in 1 .. Wipers : i <= twi.written => wiper[c][i] = p
          BY <2>0, <3>3, <4>1 DEF ComesTo
        <5>2. wiper'[c] = [wiper[c] EXCEPT ![twi.written + 1] = twi.data]
          BY <3>1, <4>1
        <5>3. \A i \in 1 .. Wipers : i <= twi.written + 1 => wiper'[c][i] = p
          BY <5>1, <5>2, <3>1, <3>2
        <5> QED BY <3>1, <3>2, <4>1, <5>1, <5>3 DEF ComesTo
      <4>2. CASE c # chip
        <5>1. wiper'[c] = wiper[c]
          BY <3>1, <4>2
        <5> QED BY <3>1, <3>3, <4>2, <5>1 DEF ComesTo
      <4> QED BY <4>1, <4>2
    <3>4. UNCHANGED <<twiJob, curr_ir_power>>
      BY <1>6 DEF WriteHandler
    <3> QED BY <2>0, <3>1, <3>2, <3>3, <3>4, PowersKept DEF BusQuiet
  <2>2. CASE /\ twi.written >= twi.toWrite /\ twi.read < twi.toRead
             /\ bus' = "read" /\ chip' = twi.address /\ UNCHANGED <<twi, wiper>>
    <3>1. chip = "rgb" /\ twi.address = "rgb"
      BY <2>0, <2>2 DEF BusQuiet, TwiTypeOK, TwiStates
    <3>2. ASSUME NEW c \in PowerChips, NEW p, ComesTo(c, p)
          PROVE  ComesTo(c, p)'
      BY <2>0, <2>2, <3>1, <3>2 DEF ComesTo, PowerChips
    <3>3. UNCHANGED <<twiJob, curr_ir_power>>
      BY <1>6 DEF WriteHandler
    <3> QED BY <2>0, <2>2, <3>1, <3>2, <3>3, PowersKept DEF BusQuiet
  <2>3. CASE twi.written >= twi.toWrite /\ Ended("ok")
    <3>1. twi \in TwiStates /\ twi.written \in Nat /\ twi.toWrite \in Nat
      BY DEF TwiTypeOK, TwiStates
    <3>2. twi'.status = "ready" /\ bus' = "idle" /\ chip' = chip /\ wiper' = wiper
      BY <2>3, <3>1 DEF Ended, TwiStates
    <3>3. ASSUME NEW c \in PowerChips, NEW p, ComesTo(c, p)
          PROVE  ComesTo(c, p)'
      BY <2>0, <2>3, <3>1, <3>2, <3>3 DEF ComesTo
    <3>4. UNCHANGED <<twiJob, curr_ir_power>>
      BY <1>6 DEF WriteHandler
    <3> QED BY <2>0, <3>2, <3>3, <3>4, PowersKept DEF BusQuiet
  <2> QED BY <1>6, <2>1, <2>2, <2>3 DEF WriteHandler
<1>7. CASE ReadHandler
  <2>0. bus = "read" /\ chip = "rgb" /\ \A c \in TwiContexts : twiJob[c].at \notin {"claim", "fill"}
    BY <1>7 DEF ReadHandler, BusQuiet
  <2>1. twi \in TwiStates /\ twi.toRead \in {0, Colours} /\ twi.read \in Nat
    BY DEF TwiTypeOK, TwiStates, BusReads
  <2> DEFINE got == IF twi.read < Colours
                    THEN [twi EXCEPT !.readData[twi.read + 1] = measured, !.read = @ + 1]
                    ELSE [twi EXCEPT !.result = "buffer overflow", !.status = "ready"]
  <2>2. got.toRead = twi.toRead /\ (got.read < got.toRead => got.status = twi.status /\ got.address = twi.address)
    <3>1. CASE twi.read < Colours
      BY <2>1, <3>1 DEF TwiStates
    <3>2. CASE ~(twi.read < Colours)
      <4>1. got.read = twi.read /\ got.toRead = twi.toRead
        BY <2>1, <3>2 DEF TwiStates
      <4> QED BY <2>1, <3>2, <4>1
    <3> QED BY <3>1, <3>2
  <2>3. \/ got.read < got.toRead /\ twi' = got /\ bus' = "read"
        \/ twi' = [got EXCEPT !.status = "ready", !.result = "ok"] /\ bus' = "idle"
    BY <1>7, <2>0 DEF ReadHandler
  <2>4. bus' = "idle" \/ (bus' = "read" /\ twi'.status = twi.status /\ twi'.address = twi.address)
    <3> HIDE DEF got
    <3> QED BY <2>2, <2>3
  <2>5. UNCHANGED <<chip, wiper, twiJob, curr_ir_power>>
    BY <1>7 DEF ReadHandler
  <2>6. ASSUME NEW c \in PowerChips, NEW p, ComesTo(c, p)
        PROVE  ComesTo(c, p)'
    BY <2>0, <2>4, <2>5, <2>6 DEF ComesTo, PowerChips
  <2> QED BY <2>0, <2>4, <2>5, <2>6, PowersKept DEF BusQuiet
<1>8. CASE UNCHANGED twiVars
  BY <1>8 DEF twiVars, BusQuiet, PowersComing, ComesTo, ToB, Write
<1> QED
  BY <1>1, <1>2, <1>3, <1>4, <1>5, <1>6, <1>7, <1>8 DEF TwiNext, TwiCode, TwiIsr, TimedOut, Fault, Hang

\* TwiInv is an invariant, for every set of contexts, calls, powers and budgets.
LEMMA TwiSafe == TwiSpec => []TwiInv
<1>1. TwiInv /\ [TwiNext]_twiVars => TwiInv'
  <2> SUFFICES ASSUME TwiInv, [TwiNext]_twiVars PROVE TwiInv'
    OBVIOUS
  <2>1. disturbed => disturbed'
    BY DEF TwiNext, TwiCode, TwiIsr, CallTwi, ReadyNow, TimedOut, ClaimBus, Fill, ReturnTwi,
           Fault, Hang, WriteHandler, ReadHandler, twiVars
  <2>2. TwiTypeOK' /\ BusyHasCause'
    BY TwiTypeStep DEF TwiInv
  <2>3. ~disturbed' => BusQuiet'
    BY <2>1, QuietStep DEF TwiInv
  <2> QED BY <2>2, <2>3 DEF TwiInv
<1> QED BY <1>1, TwiInitially, PTL DEF TwiSpec

\* TWI_MasterWriteRead never finds the status busy for good: a busy status has a
\* byte under way or a context about to send one, also after errors and hangs.
THEOREM BusyIsCaused == TwiSpec => []BusyHasCause
<1>1. TwiInv => BusyHasCause
  BY DEF TwiInv
<1> QED BY <1>1, TwiSafe, PTL

\* After calls of setAllirPowers that did not overlap and did not fail, both
\* potentiometers have the power that curr_ir_power tells.
THEOREM PowersAreAgreed == TwiSpec => []PowersAgree
<1>1. TwiInv => PowersAgree
  <2> SUFFICES ASSUME TwiInv, ~disturbed, bus = "idle", \A c \in TwiContexts : twiJob[c] = NoTwiJob
               PROVE  \A c \in PowerChips, i \in 1 .. Wipers : wiper[c][i] = curr_ir_power
    BY DEF PowersAgree
  <2>1. PowersComing(NoTwiJob)
    BY DEF TwiInv, BusQuiet
  <2>2. ComesTo("A", curr_ir_power) /\ ComesTo("B", curr_ir_power)
    BY <2>1 DEF PowersComing, NoTwiJob
  <2> QED BY <2>2 DEF ComesTo, PowerChips
<1> QED BY <1>1, TwiSafe, PTL

-----------------------------------------------------------------------------
(* The infra-red sensors and emitters                                      *)

\* The operations on the sensors and emitters, and the types of the variables.
SenseJobs == [op : {"none", "check", "blast", "baseline", "first"}, at : {"idle", "on", "measure", "off", "restore"},
              dir : 0 .. LastDir, before : 0 .. FullPower]

SenseTypeOK ==
  /\ ctrlb \in [Dirs -> SUBSET Enabled] /\ saved \in [Dirs -> SUBSET Enabled]
  /\ held \in BOOLEAN /\ power \in 0 .. FullPower
  /\ baseline \in [Dirs -> {"dark", "lit"}] /\ firstBase \in {"due", "measuring", "dark", "lit"}
  /\ senseJob \in [SenseContexts -> SenseJobs]

\* A direction whose USART is its own, and one whose emitter a job has taken
Given(d) == d \notin lit /\ ctrlb[d] = Enabled
Taken(d) == d \in lit /\ saved[d] = Enabled

\* A job that neither takes an emitter nor asks for the block
Idle(j) == j = NoSense \/ j.op = "first"

\* The baseline is dark but for the first one.
DarkButFirst == firstBase # "lit" => \A d \in Dirs : baseline[d] = "dark"

\* How far check_collisions is, by the emitters it has taken; and a blast; and
\* what takes no emitter.
CheckShape(j) ==
  /\ j.op = "check" /\ ~held /\ j.dir \in Dirs
  /\ \/ j.at = "on" /\ \A d \in Dirs : IF d < j.dir THEN Taken(d) ELSE Given(d)
     \/ j.at = "measure" /\ j.dir = 1 /\ \A d \in Dirs : Taken(d)
     \/ j.at = "off" /\ \A d \in Dirs : IF d < j.dir THEN Given(d) ELSE Taken(d)
     \/ j.at = "restore" /\ \A d \in Dirs : Given(d)

BlastShape(j) ==
  /\ j.op = "blast" /\ held /\ j.dir \in Dirs
  /\ \/ j.at \in {"on", "restore"} /\ \A d \in Dirs : Given(d)
     \/ j.at = "off" /\ \A d \in Dirs : IF d = j.dir THEN Taken(d) ELSE Given(d)

OtherShape(j) ==
  /\ \A d \in Dirs : Given(d)
  /\ \/ Idle(j) /\ ~held
     \/ j.op = "baseline" /\ j.at = "measure" /\ held

\* One operation at most is under way, apart from the first baseline, and its
\* next step tells which emitters it has taken.
SenseQuiet ==
  /\ lit \subseteq Dirs /\ DarkButFirst
  /\ \E c \in SenseContexts :
       /\ \A d \in SenseContexts \ {c} : Idle(senseJob[d])
       /\ CheckShape(senseJob[c]) \/ BlastShape(senseJob[c]) \/ OtherShape(senseJob[c])

\* The types; and one operation at most while nothing overlaps a collision check.
SenseInv == SenseTypeOK /\ (~overlapped => SenseQuiet)

\* All USARTs are enabled and nothing is under way at first.
LEMMA SenseInitially == SenseInit => SenseInv
<1> SUFFICES ASSUME SenseInit PROVE SenseInv
  OBVIOUS
<1> USE SenseAssumption DEF SenseInit, SenseAssumption
<1>1. SenseTypeOK
  <2>1. ctrlb \in [Dirs -> SUBSET Enabled] /\ saved \in [Dirs -> SUBSET Enabled]
    OBVIOUS
  <2>2. power \in 0 .. FullPower
    BY DEF FullPower
  <2>3. NoSense \in SenseJobs
    BY DEF SenseJobs, NoSense, FullPower
  <2>4. held \in BOOLEAN
    OBVIOUS
  <2> QED BY <2>1, <2>2, <2>3, <2>4 DEF SenseTypeOK
<1>2. SenseQuiet
  <2>1. "main" \in SenseContexts /\ \A c \in SenseContexts : senseJob[c] = NoSense
    BY DEF SenseContexts, Rank
  <2>2. OtherShape(NoSense)
    BY DEF OtherShape, Given, Idle
  <2> QED BY <2>1, <2>2 DEF SenseQuiet, DarkButFirst, Idle
<1> QED BY <1>1, <1>2 DEF SenseInv

----------------------------------------------------------------------------
\* irLedOn and irLedOff of a direction
LEMMA LedOn ==
  ASSUME SenseTypeOK, NEW d \in Dirs, irLedOn(d), Given(d)
  PROVE  /\ Taken(d)' /\ (lit \subseteq Dirs => lit' \subseteq Dirs)
         /\ \A e \in Dirs \ {d} : (Given(e) => Given(e)') /\ (Taken(e) => Taken(e)')
BY DEF SenseTypeOK, irLedOn, Given, Taken

\* What ir_led_off changes of the directions: d is given back, the others stay.
LEMMA LedOff ==
  ASSUME SenseTypeOK, NEW d \in Dirs, irLedOff(d), Taken(d)
  PROVE  /\ Given(d)' /\ (lit \subseteq Dirs => lit' \subseteq Dirs)
         /\ \A e \in Dirs \ {d} : (Given(e) => Given(e)') /\ (Taken(e) => Taken(e)')
BY DEF SenseTypeOK, irLedOff, Given, Taken

\* A direction stays as it is when neither its USART nor its light changes.
LEMMA LedsKept ==
  ASSUME UNCHANGED <<ctrlb, saved, lit>>
  PROVE  \A d \in Dirs : (Given(d) => Given(d)') /\ (Taken(d) => Taken(d)')
BY DEF Given, Taken

\* Every step keeps the types.
LEMMA SenseTypeStep ==
  ASSUME SenseTypeOK, [SenseNext]_senseVars
  PROVE  SenseTypeOK'
<1> USE SenseAssumption DEF SenseAssumption, SenseTypeOK
<1>0. \A c \in SenseContexts, j \in SenseJobs :
        Becomes(c, j) => senseJob' \in [SenseContexts -> SenseJobs]
  BY DEF Becomes
<1>1. ASSUME NEW c \in SenseContexts, Check(c) \/ RangeBlast(c) \/ CheckRefused(c)
      PROVE  SenseTypeOK'
  <2>0. senseJob[c] \in SenseJobs /\ NoSense \in SenseJobs
    BY DEF SenseJobs, NoSense, FullPower
  <2>1. CASE CheckRefused(c)
    BY <2>1 DEF CheckRefused, Begins
  <2>2. CASE CheckBegins(c) \/ BlastBegins(c)
    <3>1. senseJob' \in [SenseContexts -> SenseJobs]
      <4>1. \A o \in {"check", "blast"} :
              [op |-> o, at |-> "on", dir |-> 1, before |-> power] \in SenseJobs
        BY DEF SenseJobs
      <4> QED BY <1>0, <2>2, <4>1 DEF CheckBegins, BlastBegins
    <3>2. power' \in 0 .. FullPower
      BY <2>2 DEF CheckBegins, BlastBegins, FullPower
    <3>3. held' \in BOOLEAN
      BY <2>2 DEF CheckBegins, BlastBegins
    <3> QED BY <2>2, <3>1, <3>2, <3>3 DEF CheckBegins, BlastBegins
  <2>3. CASE CheckOn(c)
    <3>1. senseJob' \in [SenseContexts -> SenseJobs]
      <4>1. \A n \in 0 .. LastDir, a \in {"on", "measure"} :
              [senseJob[c] EXCEPT !.at = a, !.dir = n] \in SenseJobs
        BY <2>0 DEF SenseJobs
      <4>2. CASE senseJob[c].dir = LastDir
        <5>1. Becomes(c, [senseJob[c] EXCEPT !.at = "measure", !.dir = 1])
          BY <2>3, <4>2 DEF CheckOn
        <5>2. [senseJob[c] EXCEPT !.at = "measure", !.dir = 1] \in SenseJobs
          <6>1. 1 \in 0 .. LastDir
            OBVIOUS
          <6> QED BY <2>0, <6>1, <4>1
        <5> QED BY <1>0, <5>1, <5>2
      <4>3. CASE senseJob[c].dir # LastDir
        <5> DEFINE n == senseJob[c].dir + 1
        <5>1. Becomes(c, [senseJob[c] EXCEPT !.at = "on", !.dir = n])
          BY <2>3, <4>3 DEF CheckOn
        <5>2. n \in 0 .. LastDir
          BY <2>0, <4>3 DEF SenseJobs
        <5> HIDE DEF n
        <5> QED BY <1>0, <4>1, <5>1, <5>2
      <4> QED BY <4>2, <4>3
    <3> QED BY <2>3, <3>1 DEF CheckOn, irLedOn
  <2>4. CASE CheckMeasures(c)
    <3>1. [senseJob[c] EXCEPT !.at = "off"] \in SenseJobs
      BY <2>0 DEF SenseJobs
    <3> QED BY <1>0, <2>4, <3>1 DEF CheckMeasures, GoesTo
  <2>5. CASE CheckOff(c) \/ BlastOff(c) \/ BlastOn(c)
    <3>1. senseJob' \in [SenseContexts -> SenseJobs]
      <4>1. \A a \in {"off", "restore"} : [senseJob[c] EXCEPT !.at = a] \in SenseJobs
        BY <2>0 DEF SenseJobs
      <4>2. ASSUME senseJob[c].dir # LastDir
            PROVE  /\ [senseJob[c] EXCEPT !.dir = @ + 1] \in SenseJobs
                   /\ [senseJob[c] EXCEPT !.at = "on", !.dir = @ + 1] \in SenseJobs
        <5> DEFINE n == senseJob[c].dir + 1
        <5>1. n \in 0 .. LastDir
          BY <2>0, <4>2 DEF SenseJobs
        <5>2. /\ [senseJob[c] EXCEPT !.dir = n] \in SenseJobs
              /\ [senseJob[c] EXCEPT !.at = "on", !.dir = n] \in SenseJobs
          <6> HIDE DEF n
          <6> QED BY <2>0, <5>1 DEF SenseJobs
        <5> QED BY <5>2
      <4>3. CASE senseJob[c].dir = LastDir
        BY <1>0, <2>5, <4>1, <4>3 DEF CheckOff, BlastOff, BlastOn, GoesTo
      <4>4. CASE senseJob[c].dir # LastDir
        BY <1>0, <2>5, <4>1, <4>2, <4>4 DEF CheckOff, BlastOff, BlastOn, GoesTo
      <4> QED BY <4>3, <4>4
    <3>2. ctrlb' \in [Dirs -> SUBSET Enabled] /\ saved' \in [Dirs -> SUBSET Enabled]
      <4>1. \A d : irLedOn(d) \/ irLedOff(d) => \/ \E e \in SUBSET Enabled : ctrlb' = [ctrlb EXCEPT ![d] = e]
                                                \/ d \notin Dirs
        BY DEF irLedOn, irLedOff
      <4> QED BY <2>5 DEF CheckOff, BlastOff, BlastOn, irLedOn, irLedOff
    <3> QED BY <2>5, <3>1, <3>2 DEF CheckOff, BlastOff, BlastOn
  <2>6. CASE CheckEnds(c) \/ BlastEnds(c)
    <3>1. senseJob' \in [SenseContexts -> SenseJobs]
      BY <1>0, <2>0, <2>6 DEF CheckEnds, BlastEnds, Restore
    <3>2. power' \in 0 .. FullPower /\ held' \in BOOLEAN
      BY <2>0, <2>6 DEF CheckEnds, BlastEnds, Restore, SenseJobs
    <3> QED BY <2>6, <3>1, <3>2 DEF CheckEnds, BlastEnds, Restore
  <2> QED BY <1>1, <2>1, <2>2, <2>3, <2>4, <2>5, <2>6 DEF Check, RangeBlast
<1>4. CASE FirstBegins
  <2>1. [op |-> "first", at |-> "measure", dir |-> 0, before |-> 0] \in SenseJobs /\ "task" \in SenseContexts
    BY DEF SenseJobs, FullPower, SenseContexts, Rank
  <2> QED BY <1>0, <1>4, <2>1 DEF FirstBegins
<1>5. CASE FirstEnds
  <2>1. NoSense \in SenseJobs /\ "task" \in SenseContexts
    BY DEF SenseJobs, NoSense, FullPower, SenseContexts, Rank
  <2>2. baseline' \in [Dirs -> {"dark", "lit"}] /\ firstBase' \in {"dark", "lit"}
    BY <1>5 DEF FirstEnds, Light
  <2> QED BY <1>0, <1>5, <2>1, <2>2 DEF FirstEnds
<1>2. CASE BaselineBegins
  <2>1. [op |-> "baseline", at |-> "measure", dir |-> 0, before |-> 0] \in SenseJobs /\ "task" \in SenseContexts
    BY DEF SenseJobs, FullPower, SenseContexts, Rank
  <2> QED BY <1>0, <1>2, <2>1 DEF BaselineBegins
<1>3. CASE BaselineEnds
  <2>1. NoSense \in SenseJobs /\ "task" \in SenseContexts
    BY DEF SenseJobs, NoSense, FullPower, SenseContexts, Rank
  <2>2. baseline' \in [Dirs -> {"dark", "lit"}] /\ held' \in BOOLEAN
    BY <1>3 DEF BaselineEnds
  <2> QED BY <1>0, <1>3, <2>1, <2>2 DEF BaselineEnds
<1>6. CASE UNCHANGED senseVars
  BY <1>6 DEF senseVars
<1> QED BY <1>1, <1>2, <1>3, <1>4, <1>5, <1>6 DEF SenseNext

----------------------------------------------------------------------------
\* Nothing begins while an operation holds the hardware, or else during a
\* collision check.
LEMMA BeginsAlone ==
  ASSUME SenseQuiet, NEW c \in SenseContexts, NEW op, Begins(c, op), ~held, ~overlapped'
  PROVE  /\ \A d \in SenseContexts : Idle(senseJob[d])
         /\ \A d \in Dirs : Given(d)
<1>1. \A d \in SenseContexts : senseJob[d].op # "check"
  BY Zenon DEF Begins
<1>2. PICK e \in SenseContexts :
        /\ \A d \in SenseContexts \ {e} : Idle(senseJob[d])
        /\ CheckShape(senseJob[e]) \/ BlastShape(senseJob[e]) \/ OtherShape(senseJob[e])
  BY DEF SenseQuiet
<1>3. OtherShape(senseJob[e]) /\ Idle(senseJob[e])
  BY <1>1, <1>2 DEF CheckShape, BlastShape, OtherShape
<1> QED BY <1>2, <1>3 DEF OtherShape

\* The context that takes a step of an operation is the one that is in it.
LEMMA StepsAlone ==
  ASSUME SenseQuiet, NEW c \in SenseContexts, senseJob[c].op \in {"check", "blast", "baseline"}
  PROVE  /\ \A d \in SenseContexts \ {c} : Idle(senseJob[d])
         /\ senseJob[c].op = "check" => CheckShape(senseJob[c])
         /\ senseJob[c].op = "blast" => BlastShape(senseJob[c])
         /\ senseJob[c].op = "baseline" => OtherShape(senseJob[c])
<1>1. PICK e \in SenseContexts :
        /\ \A d \in SenseContexts \ {e} : Idle(senseJob[d])
        /\ CheckShape(senseJob[e]) \/ BlastShape(senseJob[e]) \/ OtherShape(senseJob[e])
  BY DEF SenseQuiet
<1>2. c = e
  BY <1>1 DEF NoSense, Idle
<1> QED BY <1>1, <1>2 DEF CheckShape, BlastShape, OtherShape, NoSense, Idle

\* What a step leaves behind is again an operation that is alone.
LEMMA StaysAlone ==
  ASSUME SenseTypeOK, NEW c \in SenseContexts, NEW j, Becomes(c, j),
         \A d \in SenseContexts \ {c} : Idle(senseJob[d]),
         lit' \subseteq Dirs, DarkButFirst',
         CheckShape(j)' \/ BlastShape(j)' \/ OtherShape(j)'
  PROVE  SenseQuiet'
<1>1. senseJob'[c] = j /\ \A d \in SenseContexts \ {c} : Idle(senseJob'[d])
  BY DEF SenseTypeOK, Becomes
<1> QED BY <1>1 DEF SenseQuiet, CheckShape, BlastShape, OtherShape, NoSense, Idle

\* Every step that overlaps nothing keeps one operation at most, with the
\* emitters that its next step expects.
LEMMA SenseQuietStep ==
  ASSUME SenseTypeOK, SenseQuiet, [SenseNext]_senseVars, ~overlapped'
  PROVE  SenseQuiet'
<1> USE SenseAssumption DEF SenseAssumption
<1>0. lit \subseteq Dirs /\ (UNCHANGED <<baseline, firstBase>> => DarkButFirst')
  BY DEF SenseQuiet, DarkButFirst
<1>1. ASSUME NEW c \in SenseContexts, CheckRefused(c)
      PROVE  SenseQuiet'
  BY <1>1 DEF CheckRefused, SenseQuiet, DarkButFirst, CheckShape, BlastShape, OtherShape, Given, Taken
<1>2. ASSUME NEW c \in SenseContexts, CheckBegins(c)
      PROVE  SenseQuiet'
  <2>1. (\A d \in SenseContexts : Idle(senseJob[d])) /\ \A d \in Dirs : Given(d)
    BY <1>2, BeginsAlone DEF CheckBegins, Busy
  <2>2. PICK j : j = [op |-> "check", at |-> "on", dir |-> 1, before |-> power]
    OBVIOUS
  <2>3. CheckShape(j)'
    BY <1>2, <2>1, <2>2 DEF CheckBegins, CheckShape, Given, Taken, Busy, Dirs
  <2> QED BY <1>0, <1>2, <2>1, <2>2, <2>3, StaysAlone DEF CheckBegins
<1>3. ASSUME NEW c \in SenseContexts, CheckOn(c)
      PROVE  SenseQuiet'
  <2>1. CheckShape(senseJob[c]) /\ \A d \in SenseContexts \ {c} : Idle(senseJob[d])
    BY <1>3, StepsAlone DEF CheckOn, Step
  <2> DEFINE n == senseJob[c].dir
  <2>2. n \in Dirs /\ ~held /\ senseJob[c] \in SenseJobs /\ \A d \in Dirs : IF d < n THEN Taken(d) ELSE Given(d)
    BY <1>3, <2>1 DEF CheckShape, CheckOn, Step, SenseTypeOK
  <2>3. lit' \subseteq Dirs /\ \A d \in Dirs : IF d <= n THEN Taken(d)' ELSE Given(d)'
    <3>1. irLedOn(n) /\ Given(n)
      BY <1>3, <2>2 DEF CheckOn, Dirs
    <3> HIDE DEF n
    <3> QED BY <1>0, <2>2, <3>1, LedOn DEF Dirs
  <2>4. PICK j : j = [senseJob[c] EXCEPT !.at = IF n = LastDir THEN "measure" ELSE "on",
                                         !.dir = IF n = LastDir THEN 1 ELSE n + 1]
    OBVIOUS
  <2>5. j.op = "check" /\ j.at = (IF n = LastDir THEN "measure" ELSE "on")
        /\ j.dir = (IF n = LastDir THEN 1 ELSE n + 1)
    BY <1>3, <2>2, <2>4 DEF SenseJobs, CheckOn, Step
  <2>6. Becomes(c, j)
    BY <1>3, <2>4 DEF CheckOn
  <2>7. ~held' /\ DarkButFirst'
    BY <1>0, <1>3, <2>2 DEF CheckOn
  <2>8. CheckShape(j)'
    <3> HIDE DEF n
    <3>1. CASE n = LastDir
      BY <2>2, <2>3, <2>5, <2>7, <3>1 DEF CheckShape, Dirs
    <3>2. CASE n # LastDir
      <4>1. \A d \in Dirs : d < j.dir <=> d <= n
        BY <2>2, <2>5, <3>2 DEF Dirs
      <4>2. j.dir \in Dirs
        BY <2>2, <2>5, <3>2 DEF Dirs
      <4> QED BY <2>3, <2>5, <2>7, <3>2, <4>1, <4>2 DEF CheckShape
    <3> QED BY <3>1, <3>2
  <2> QED BY <2>1, <2>3, <2>6, <2>7, <2>8, StaysAlone
<1>4. ASSUME NEW c \in SenseContexts, CheckMeasures(c)
      PROVE  SenseQuiet'
  <2>1. CheckShape(senseJob[c]) /\ \A d \in SenseContexts \ {c} : Idle(senseJob[d])
    BY <1>4, StepsAlone DEF CheckMeasures, Step
  <2>2. PICK j : j = [senseJob[c] EXCEPT !.at = "off"]
    OBVIOUS
  <2>3. /\ senseJob[c].dir = 1 /\ ~held /\ senseJob[c] \in SenseJobs
        /\ \A d \in Dirs : Taken(d) /\ ~(d < 1)
    BY <1>4, <2>1 DEF CheckShape, CheckMeasures, Step, SenseTypeOK, Dirs
  <2>4. j.op = "check" /\ j.at = "off" /\ j.dir = 1 /\ Becomes(c, j)
    BY <1>4, <2>2, <2>3 DEF SenseJobs, CheckMeasures, Step, GoesTo
  <2>5. CheckShape(j)'
    BY <1>4, <2>3, <2>4, LedsKept DEF CheckMeasures, CheckShape, Dirs
  <2> QED BY <1>0, <1>4, <2>1, <2>4, <2>5, StaysAlone DEF CheckMeasures
<1>5. ASSUME NEW c \in SenseContexts, CheckOff(c)
      PROVE  SenseQuiet'
  <2>1. CheckShape(senseJob[c]) /\ \A d \in SenseContexts \ {c} : Idle(senseJob[d])
    BY <1>5, StepsAlone DEF CheckOff, Step
  <2> DEFINE n == senseJob[c].dir
  <2>2. n \in Dirs /\ ~held /\ senseJob[c] \in SenseJobs /\ \A d \in Dirs : IF d < n THEN Given(d) ELSE Taken(d)
    BY <1>5, <2>1 DEF CheckShape, CheckOff, Step, SenseTypeOK
  <2>3. lit' \subseteq Dirs /\ \A d \in Dirs : IF d <= n THEN Given(d)' ELSE Taken(d)'
    <3>1. irLedOff(n) /\ Taken(n)
      BY <1>5, <2>2 DEF CheckOff, Dirs
    <3> HIDE DEF n
    <3> QED BY <1>0, <2>2, <3>1, LedOff DEF Dirs
  <2>4. PICK j : j = IF n = LastDir THEN [senseJob[c] EXCEPT !.at = "restore"]
                                    ELSE [senseJob[c] EXCEPT !.dir = n + 1]
    OBVIOUS
  <2>5. j.op = "check" /\ (n = LastDir => j.at = "restore" /\ j.dir = n)
        /\ (n # LastDir => j.at = "off" /\ j.dir = n + 1)
    BY <1>5, <2>2, <2>4 DEF SenseJobs, CheckOff, Step
  <2>6. Becomes(c, j)
    BY <1>5, <2>4 DEF CheckOff, GoesTo
  <2>7. ~held' /\ DarkButFirst'
    BY <1>0, <1>5, <2>2 DEF CheckOff
  <2>8. CheckShape(j)'
    <3> HIDE DEF n
    <3>1. CASE n = LastDir
      BY <2>2, <2>3, <2>5, <2>7, <3>1 DEF CheckShape, Dirs
    <3>2. CASE n # LastDir
      <4>1. \A d \in Dirs : d < j.dir <=> d <= n
        BY <2>2, <2>5, <3>2 DEF Dirs
      <4>2. j.dir \in Dirs
        BY <2>2, <2>5, <3>2 DEF Dirs
      <4> QED BY <2>3, <2>5, <2>7, <3>2, <4>1, <4>2 DEF CheckShape
    <3> QED BY <3>1, <3>2
  <2> QED BY <2>1, <2>3, <2>6, <2>7, <2>8, StaysAlone
<1>6. ASSUME NEW c \in SenseContexts, NEW op \in {"check", "blast"}, Restore(c, op), ~held'
      PROVE  SenseQuiet'
  <2>1. /\ \A d \in SenseContexts \ {c} : Idle(senseJob[d])
        /\ \A d \in Dirs : Given(d)
    BY <1>6, StepsAlone DEF Restore, Step, CheckShape, BlastShape
  <2>2. PICK j : j = NoSense
    OBVIOUS
  <2>3. OtherShape(j)'
    BY <1>6, <2>1, <2>2, LedsKept DEF Restore, OtherShape, NoSense, Idle
  <2> QED BY <1>0, <1>6, <2>1, <2>2, <2>3, StaysAlone DEF Restore
<1>7. CASE BaselineBegins
  <2>0. "task" \in SenseContexts
    BY DEF SenseContexts, Rank
  <2>1. (\A d \in SenseContexts : Idle(senseJob[d])) /\ \A d \in Dirs : Given(d)
    BY <1>7, <2>0, BeginsAlone DEF BaselineBegins, Busy
  <2>2. PICK j : j = [op |-> "baseline", at |-> "measure", dir |-> 0, before |-> 0]
    OBVIOUS
  <2>3. OtherShape(j)'
    BY <1>7, <2>1, <2>2, LedsKept DEF BaselineBegins, OtherShape
  <2> QED BY <1>0, <1>7, <2>0, <2>1, <2>2, <2>3, StaysAlone DEF BaselineBegins
<1>8. CASE BaselineEnds
  <2>0. "task" \in SenseContexts
    BY DEF SenseContexts, Rank
  <2>1. /\ \A d \in SenseContexts \ {"task"} : Idle(senseJob[d])
        /\ \A d \in Dirs : Given(d)
    BY <1>8, <2>0, StepsAlone DEF BaselineEnds, Step, OtherShape
  <2>2. PICK j : j = NoSense
    OBVIOUS
  <2>3. OtherShape(j)'
    BY <1>8, <2>1, <2>2, LedsKept DEF BaselineEnds, OtherShape, NoSense, Idle
  <2>4. DarkButFirst'
    <3>1. lit = {} /\ DarkButFirst
      BY <1>0, <2>1 DEF Given, SenseQuiet
    <3> QED BY <1>8, <3>1 DEF BaselineEnds, Light, DarkButFirst
  <2> QED BY <1>0, <1>8, <2>0, <2>1, <2>2, <2>3, <2>4, StaysAlone DEF BaselineEnds
<1>9. ASSUME NEW c \in SenseContexts, BlastBegins(c)
      PROVE  SenseQuiet'
  <2>1. (\A d \in SenseContexts : Idle(senseJob[d])) /\ \A d \in Dirs : Given(d)
    BY <1>9, BeginsAlone DEF BlastBegins
  <2>2. PICK j : j = [op |-> "blast", at |-> "on", dir |-> 1, before |-> power]
    OBVIOUS
  <2>3. BlastShape(j)'
    BY <1>9, <2>1, <2>2 DEF BlastBegins, BlastShape, Given, Dirs
  <2> QED BY <1>0, <1>9, <2>1, <2>2, <2>3, StaysAlone DEF BlastBegins
<1>10. ASSUME NEW c \in SenseContexts, BlastOn(c)
       PROVE  SenseQuiet'
  <2>1. BlastShape(senseJob[c]) /\ \A d \in SenseContexts \ {c} : Idle(senseJob[d])
    BY <1>10, StepsAlone DEF BlastOn, Step
  <2> DEFINE n == senseJob[c].dir
  <2>2. n \in Dirs /\ held /\ senseJob[c] \in SenseJobs /\ \A d \in Dirs : Given(d)
    BY <1>10, <2>1 DEF BlastShape, BlastOn, Step, SenseTypeOK
  <2>3. lit' \subseteq Dirs /\ \A d \in Dirs : IF d = n THEN Taken(d)' ELSE Given(d)'
    <3>1. irLedOn(n)
      BY <1>10 DEF BlastOn
    <3> HIDE DEF n
    <3> QED BY <1>0, <2>2, <3>1, LedOn
  <2>4. PICK j : j = [senseJob[c] EXCEPT !.at = "off"]
    OBVIOUS
  <2>5. j.op = "blast" /\ j.at = "off" /\ j.dir = n /\ Becomes(c, j)
    BY <1>10, <2>2, <2>4 DEF SenseJobs, BlastOn, Step, GoesTo
  <2>6. held' /\ DarkButFirst'
    BY <1>0, <1>10, <2>2 DEF BlastOn
  <2>7. BlastShape(j)'
    <3> HIDE DEF n
    <3> QED BY <2>2, <2>3, <2>5, <2>6 DEF BlastShape
  <2> QED BY <2>1, <2>3, <2>5, <2>6, <2>7, StaysAlone
<1>11. ASSUME NEW c \in SenseContexts, BlastOff(c)
       PROVE  SenseQuiet'
  <2>1. BlastShape(senseJob[c]) /\ \A d \in SenseContexts \ {c} : Idle(senseJob[d])
    BY <1>11, StepsAlone DEF BlastOff, Step
  <2> DEFINE n == senseJob[c].dir
  <2>2. n \in Dirs /\ held /\ senseJob[c] \in SenseJobs /\ \A d \in Dirs : IF d = n THEN Taken(d) ELSE Given(d)
    BY <1>11, <2>1 DEF BlastShape, BlastOff, Step, SenseTypeOK
  <2>3. lit' \subseteq Dirs /\ \A d \in Dirs : Given(d)'
    <3>1. irLedOff(n)
      BY <1>11 DEF BlastOff
    <3> HIDE DEF n
    <3> QED BY <1>0, <2>2, <3>1, LedOff
  <2>4. PICK j : j = IF n = LastDir THEN [senseJob[c] EXCEPT !.at = "restore"]
                                    ELSE [senseJob[c] EXCEPT !.at = "on", !.dir = n + 1]
    OBVIOUS
  <2>5. j.op = "blast" /\ j.at \in {"on", "restore"} /\ j.dir \in Dirs
    BY <1>11, <2>2, <2>4 DEF SenseJobs, BlastOff, Step, Dirs
  <2>6. Becomes(c, j)
    BY <1>11, <2>4 DEF BlastOff, GoesTo
  <2>7. held' /\ DarkButFirst'
    BY <1>0, <1>11, <2>2 DEF BlastOff
  <2>8. BlastShape(j)'
    BY <2>3, <2>5, <2>7 DEF BlastShape
  <2> QED BY <2>1, <2>3, <2>6, <2>7, <2>8, StaysAlone
<1>12. CASE UNCHANGED senseVars
  BY <1>12 DEF senseVars, SenseQuiet, DarkButFirst, CheckShape, BlastShape, OtherShape, Given, Taken
<1>14. ASSUME NEW j, Becomes("task", j), Idle(senseJob["task"]), Idle(j), DarkButFirst',
              UNCHANGED <<ctrlb, saved, lit, held>>
       PROVE  SenseQuiet'
  <2>1. PICK e \in SenseContexts :
          /\ \A d \in SenseContexts \ {e} : Idle(senseJob[d])
          /\ CheckShape(senseJob[e]) \/ BlastShape(senseJob[e]) \/ OtherShape(senseJob[e])
    BY DEF SenseQuiet
  <2>2. \A d \in SenseContexts : senseJob'[d] = IF d = "task" THEN j ELSE senseJob[d]
    BY <1>14 DEF SenseTypeOK, Becomes
  <2>3. \A d \in SenseContexts \ {e} : Idle(senseJob'[d])
    BY <1>14, <2>1, <2>2
  <2>4. CheckShape(senseJob[e])' \/ BlastShape(senseJob[e])' \/ OtherShape(senseJob[e])'
    <3>1. CASE e = "task"
      <4>1. OtherShape(senseJob[e]) /\ ~held
        BY <1>14, <2>1, <3>1 DEF CheckShape, BlastShape, OtherShape, Idle, NoSense
      <4> QED BY <1>14, <2>2, <3>1, <4>1, LedsKept DEF OtherShape
    <3>2. CASE e # "task"
      <4>1. senseJob'[e] = senseJob[e]
        BY <2>2, <3>2
      <4> QED BY <1>14, <2>1, <4>1, LedsKept DEF CheckShape, BlastShape, OtherShape
    <3> QED BY <3>1, <3>2
  <2> QED BY <1>0, <1>14, <2>3, <2>4 DEF SenseQuiet
<1>15. CASE FirstBegins
  <2>1. Idle(senseJob["task"]) /\ Idle([op |-> "first", at |-> "measure", dir |-> 0, before |-> 0])
    BY <1>15 DEF FirstBegins, Begins, Idle
  <2>2. DarkButFirst'
    BY <1>15 DEF FirstBegins, DarkButFirst, SenseQuiet
  <2> QED BY <1>14, <1>15, <2>1, <2>2 DEF FirstBegins
<1>16. CASE FirstEnds
  <2>1. Idle(senseJob["task"]) /\ Idle(NoSense)
    BY <1>16 DEF FirstEnds, Step, Idle
  <2>2. DarkButFirst'
    BY <1>16 DEF FirstEnds, DarkButFirst, Light
  <2> QED BY <1>14, <1>16, <2>1, <2>2 DEF FirstEnds
<1>13. ASSUME NEW c \in SenseContexts, CheckEnds(c) \/ BlastEnds(c)
       PROVE  SenseQuiet'
  <2>1. CASE CheckEnds(c)
    <3>1. ~held'
      BY <2>1, StepsAlone DEF CheckEnds, Restore, Step, CheckShape
    <3> QED BY <1>6, <2>1, <3>1 DEF CheckEnds
  <2>2. CASE BlastEnds(c)
    BY <1>6, <2>2 DEF BlastEnds
  <2> QED BY <1>13, <2>1, <2>2
<1> QED
  BY <1>1, <1>2, <1>3, <1>4, <1>5, <1>7, <1>8, <1>9, <1>10, <1>11, <1>12, <1>13, <1>15, <1>16
  DEF SenseNext, Check, RangeBlast

\* SenseInv is an invariant, for every number of directions and of contexts.
LEMMA SenseSafe == SenseSpec => []SenseInv
<1>1. SenseInv /\ [SenseNext]_senseVars => SenseInv'
  <2> SUFFICES ASSUME SenseInv, [SenseNext]_senseVars PROVE SenseInv'
    OBVIOUS
  <2>1. overlapped => overlapped'
    BY DEF SenseNext, Check, RangeBlast, CheckRefused, FirstBegins, FirstEnds, BaselineBegins,
           BaselineEnds, CheckBegins,
           CheckOn, CheckMeasures, CheckOff, CheckEnds, BlastBegins, BlastOn, BlastOff, BlastEnds,
           Begins, Restore, senseVars
  <2>2. SenseTypeOK'
    BY SenseTypeStep DEF SenseInv
  <2>3. ~overlapped' => SenseQuiet'
    BY <2>1, SenseQuietStep DEF SenseInv
  <2> QED BY <2>2, <2>3 DEF SenseInv
<1> QED BY <1>1, SenseInitially, PTL DEF SenseSpec

\* While nothing begins during checkCollisions, every USART is given back as
\* it was saved, and no baseline but the first is taken in the droplet's own
\* light.
THEOREM EmittersAreKeptApart == SenseSpec => []EmittersKeptApart
<1>1. SenseInv => EmittersKeptApart
  <2> SUFFICES ASSUME SenseQuiet
               PROVE  DarkButFirst /\ \A d \in Dirs \ lit : ctrlb[d] = Enabled
    BY DEF SenseInv, EmittersKeptApart, DarkButFirst
  <2>1. \A d \in Dirs : Taken(d) \/ Given(d)
    BY DEF SenseQuiet, CheckShape, BlastShape, OtherShape
  <2> QED BY <2>1 DEF SenseQuiet, Given, Taken
<1> QED BY <1>1, SenseSafe, PTL

-----------------------------------------------------------------------------
(* Synchronisation                                                         *)

\* The nodes in use, obsStart with them.
Listed == DOMAIN obs

\* The list in both directions, as it is when pos numbers its nodes from
\* obsStart on and k is the last number
InOrder(pos, k) ==
  /\ IsFiniteSet(Cells) /\ Cardinality(Cells) = k /\ Start \in Listed
  /\ obs \in [Listed -> Nat] /\ obs[Start] = 0
  /\ nextObs \in [Listed -> Listed] /\ prevObs \in [Listed -> Listed]
  /\ pos \in [Listed -> 0 .. k] /\ pos[Start] = 0
  /\ \A i \in 0 .. k : \E n \in Listed : pos[n] = i
  /\ \A n, m \in Listed : pos[n] = pos[m] => n = m
  /\ \A n \in Listed : pos[nextObs[n]] = IF pos[n] = k THEN 0 ELSE pos[n] + 1
  /\ \A n \in Listed : prevObs[nextObs[n]] = n /\ nextObs[prevObs[n]] = n
  /\ \A n, m \in Listed : pos[n] <= pos[m] => obs[n] <= obs[m]

\* A node other than obsStart is one further than the node before it; the node
\* before obsStart is the last.
LEMMA StepBack ==
  ASSUME NEW k \in Nat, NEW pos, InOrder(pos, k), NEW n \in Listed
  PROVE  /\ n # Start => pos[n] = pos[prevObs[n]] + 1
         /\ n = Start => pos[prevObs[n]] = k
<1>1. prevObs[n] \in Listed /\ nextObs[prevObs[n]] = n /\ pos[n] \in 0 .. k /\ pos[prevObs[n]] \in 0 .. k
  BY DEF InOrder
<1>2. pos[n] = IF pos[prevObs[n]] = k THEN 0 ELSE pos[prevObs[n]] + 1
  BY <1>1 DEF InOrder
<1>3. pos[n] = 0 <=> n = Start
  BY DEF InOrder
<1> QED BY <1>1, <1>2, <1>3

\* updateFireflyCounter walks to the last node whose observation is not later.
LEMMA BehindIsLast ==
  ASSUME NEW k \in Nat, NEW pos, InOrder(pos, k), NEW o \in Nat
  PROVE  /\ Behind(o) \in Listed /\ obs[Behind(o)] <= o
         /\ \A n \in Listed : pos[Behind(o)] < pos[n] => o < obs[n]
<1> DEFINE Early == {n \in Listed : obs[n] <= o}
<1>1. \A n \in Listed : obs[n] \in Nat /\ pos[n] \in 0 .. k /\ prevObs[n] \in Listed
  BY DEF InOrder
<1>2. \E last \in Early : \A n \in Early : pos[n] <= pos[last]
  <2> DEFINE T == {k - pos[n] : n \in Early}
  <2>1. T \in SUBSET Nat /\ T # {}
    <3>1. Start \in Early
      BY DEF InOrder
    <3>2. \A n \in Early : k - pos[n] \in Nat
      BY <1>1
    <3> QED BY <3>1, <3>2
  <2>2. PICK m \in T : \A r \in T : m <= r
    BY <2>1, LeastNatural
  <2>3. PICK last \in Early : m = k - pos[last]
    BY <2>2
  <2>4. \A n \in Early : k - pos[last] <= k - pos[n]
    BY <2>2, <2>3
  <2> QED BY <1>1, <2>3, <2>4
<1>3. PICK last \in Early : \A n \in Early : pos[n] <= pos[last]
  BY <1>2
\* Only the node behind the last of the early ones has an early one before it.
<1>4. ASSUME NEW n \in Listed, o < obs[n], obs[prevObs[n]] <= o
      PROVE  prevObs[n] = last
  <2>1. n # Start
    BY <1>4 DEF InOrder
  <2>2. pos[n] = pos[prevObs[n]] + 1
    BY <2>1, StepBack
  <2>3. pos[prevObs[n]] <= pos[last]
    BY <1>1, <1>3, <1>4
  <2>4. ~(pos[n] <= pos[last])
    <3>1. obs[last] <= o /\ last \in Listed /\ obs[last] \in Nat /\ obs[n] \in Nat
      BY <1>1, <1>3
    <3>2. pos[n] <= pos[last] => obs[n] <= obs[last]
      BY <3>1 DEF InOrder
    <3> QED BY <1>4, <3>1, <3>2
  <2>5. pos[prevObs[n]] = pos[last]
    BY <1>1, <2>2, <2>3, <2>4
  <2> QED BY <1>1, <2>5 DEF InOrder
<1> DEFINE walk == CHOOSE f : f = [n \in Listed |-> IF o < obs[n] THEN f[prevObs[n]] ELSE n]
<1>5. walk = [n \in Listed |-> IF o < obs[n] THEN walk[prevObs[n]] ELSE n]
  <2> DEFINE g == [n \in Listed |-> IF o < obs[n] THEN last ELSE n]
  <2>1. g = [n \in Listed |-> IF o < obs[n] THEN g[prevObs[n]] ELSE n]
    <3>1. ASSUME NEW n \in Listed, o < obs[n]
          PROVE  g[prevObs[n]] = last
      <4>1. CASE o < obs[prevObs[n]]
        BY <1>1, <4>1
      <4>2. CASE ~(o < obs[prevObs[n]])
        <5>1. prevObs[n] = last
          BY <1>1, <1>4, <3>1, <4>2
        <5> QED BY <1>1, <4>2, <5>1
      <4> QED BY <4>1, <4>2
    <3> QED BY <3>1
  <2> HIDE DEF g
  <2> QED BY <2>1
<1>6. Behind(o) = walk[prevObs[Start]]
  BY DEF Behind, Listed
<1> HIDE DEF walk
<1>7. ASSUME NEW n \in Listed, o < obs[n]
      PROVE  walk[n] = last
  <2> DEFINE Bad == {m \in Listed : o < obs[m] /\ walk[m] # last}
             T == {pos[m] : m \in Bad}
  <2> SUFFICES ASSUME Bad # {} PROVE FALSE
    BY <1>7
  <2>1. T \in SUBSET Nat /\ T # {}
    BY <1>1
  <2>2. PICK m \in Bad : \A r \in Bad : pos[m] <= pos[r]
    <3>1. PICK t \in T : \A r \in T : t <= r
      BY <2>1, LeastNatural
    <3>2. PICK m \in Bad : t = pos[m]
      BY <3>1
    <3>3. \A r \in Bad : pos[r] \in T
      OBVIOUS
    <3> QED BY <3>1, <3>2, <3>3
  <2>3. walk[m] = walk[prevObs[m]]
    BY <1>5, <2>2
  <2>4. pos[m] = pos[prevObs[m]] + 1
    <3>1. m # Start
      BY <2>2 DEF InOrder
    <3> QED BY <2>2, <3>1, StepBack
  <2>5. CASE o < obs[prevObs[m]]
    <3>1. prevObs[m] \in Bad
      BY <1>1, <2>2, <2>3, <2>5
    <3> QED BY <1>1, <2>2, <2>4, <3>1
  <2>6. CASE ~(o < obs[prevObs[m]])
    <3>1. prevObs[m] = last
      BY <1>1, <1>4, <2>2, <2>6
    <3>2. walk[prevObs[m]] = prevObs[m]
      BY <1>1, <1>5, <2>2, <2>6
    <3> QED BY <2>2, <2>3, <3>1, <3>2
  <2> QED BY <2>5, <2>6
<1>8. Start \in Listed /\ prevObs[Start] \in Listed /\ pos[prevObs[Start]] = k
  BY StepBack DEF InOrder
<1>9. Behind(o) \in Early /\ pos[last] <= pos[Behind(o)]
  <2>1. CASE o < obs[prevObs[Start]]
    <3>1. Behind(o) = last
      BY <1>6, <1>7, <1>8, <2>1
    <3> QED BY <1>1, <1>3, <3>1
  <2>2. CASE ~(o < obs[prevObs[Start]])
    <3>1. Behind(o) = prevObs[Start]
      BY <1>5, <1>6, <1>8, <2>2
    <3> QED BY <1>1, <1>3, <1>8, <2>2, <3>1
  <2> QED BY <2>1, <2>2
<1> QED
  <2>1. ASSUME NEW n \in Listed, pos[Behind(o)] < pos[n], ~(o < obs[n])
        PROVE  FALSE
    BY <1>1, <1>3, <1>9, <2>1
  <2> QED BY <1>9, <2>1

\* A node that is put behind the last one with an observation not later is in
\* its place, and every node behind it moves on by one.
LEMMA QueuedInOrder ==
  ASSUME FireflyAssumption, NEW k \in Nat, NEW pos, InOrder(pos, k),
         NEW n \in ObsCells \ Cells, NEW o \in Nat, QueueBehind(n, Behind(o), o)
  PROVE  \E q : InOrder(q, k + 1)'
<1>1. n \notin Listed
  BY DEF FireflyAssumption, Cells, Listed
<1>2. PICK a : a = Behind(o)
  OBVIOUS
<1>3. a \in Listed /\ obs[a] <= o /\ \A m \in Listed : pos[a] < pos[m] => o < obs[m]
  BY <1>2, BehindIsLast
<1>4. PICK all : all = Listed
  OBVIOUS
<1>5. PICK x : x = nextObs[a]
  OBVIOUS
<1>6. /\ obs' = [m \in all \union {n} |-> IF m = n THEN o ELSE obs[m]]
      /\ nextObs' = [m \in all \union {n} |-> IF m = n THEN x ELSE IF m = a THEN n ELSE nextObs[m]]
      /\ prevObs' = [m \in all \union {n} |-> IF m = n THEN a ELSE IF m = x THEN n ELSE prevObs[m]]
  BY <1>2, <1>4, <1>5 DEF QueueBehind, Listed
<1>7. Listed' = all \union {n}
  BY <1>6 DEF Listed
<1> DEFINE q == [m \in all \union {n} |-> IF m = n THEN pos[a] + 1
                                          ELSE IF pos[m] > pos[a] THEN pos[m] + 1 ELSE pos[m]]
<1>8. /\ \A m \in all : pos[m] \in 0 .. k /\ obs[m] \in Nat /\ nextObs[m] \in all /\ prevObs[m] \in all
      /\ n \notin all /\ a \in all /\ x \in all /\ Start \in all
  BY <1>1, <1>3, <1>4, <1>5 DEF InOrder
<1>9. /\ \A m \in all : q[m] = IF pos[m] > pos[a] THEN pos[m] + 1 ELSE pos[m]
      /\ q[n] = pos[a] + 1
  BY <1>8
<1>10. /\ \A m \in all : obs'[m] = obs[m]
       /\ obs'[n] = o /\ nextObs'[n] = x /\ prevObs'[n] = a
       /\ \A m \in all : nextObs'[m] = IF m = a THEN n ELSE nextObs[m]
       /\ \A m \in all : prevObs'[m] = IF m = x THEN n ELSE prevObs[m]
  BY <1>6, <1>8
<1>11. /\ IsFiniteSet(Cells') /\ Cardinality(Cells') = k + 1 /\ Start \in Listed'
  <2>1. Cells' = Cells \union {n}
    BY <1>4, <1>6, <1>8 DEF Cells, Listed
  <2> QED BY <1>7, <1>8, <2>1, FS_AddElement DEF InOrder
<1>12. obs' \in [Listed' -> Nat] /\ obs'[Start] = 0
  BY <1>6, <1>7, <1>8, <1>10 DEF InOrder
<1>13. nextObs' \in [Listed' -> Listed'] /\ prevObs' \in [Listed' -> Listed']
  BY <1>6, <1>7, <1>8
<1>14. q \in [Listed' -> 0 .. k + 1] /\ q[Start] = 0
  <2>1. \A m \in all \union {n} : q[m] \in 0 .. k + 1
    BY <1>8, <1>9
  <2>2. pos[Start] = 0
    BY DEF InOrder
  <2> QED BY <1>7, <1>8, <1>9, <2>1, <2>2
<1> HIDE DEF q
<1>15. \A i \in 0 .. k + 1 : \E m \in Listed' : q[m] = i
  <2> SUFFICES ASSUME NEW i \in 0 .. k + 1
               PROVE  \E m \in all \union {n} : q[m] = i
    BY <1>7
  <2>1. CASE i = pos[a] + 1
    BY <1>9, <2>1
  <2>2. CASE i <= pos[a]
    <3>1. PICK m \in all : pos[m] = i
      BY <1>4, <1>8, <2>2 DEF InOrder
    <3> QED BY <1>8, <1>9, <2>2, <3>1
  <2>3. CASE i > pos[a] + 1
    <3>1. i - 1 \in 0 .. k
      BY <1>8, <2>3
    <3>2. PICK m \in all : pos[m] = i - 1
      BY <1>4, <3>1 DEF InOrder
    <3> QED BY <1>8, <1>9, <2>3, <3>2
  <2> QED BY <1>8, <2>1, <2>2, <2>3
<1>16. \A m, r \in Listed' : q[m] = q[r] => m = r
  <2>1. \A m, r \in all : pos[m] = pos[r] => m = r
    BY <1>4 DEF InOrder
  <2> QED BY <1>7, <1>8, <1>9, <2>1
<1>17. \A m \in Listed' : q[nextObs'[m]] = IF q[m] = k + 1 THEN 0 ELSE q[m] + 1
  <2>1. \A m \in all : pos[nextObs[m]] = IF pos[m] = k THEN 0 ELSE pos[m] + 1
    BY <1>4 DEF InOrder
  <2>2. q[nextObs'[n]] = IF q[n] = k + 1 THEN 0 ELSE q[n] + 1
    <3>1. pos[x] = IF pos[a] = k THEN 0 ELSE pos[a] + 1
      BY <1>5, <1>8, <2>1
    <3> QED BY <1>8, <1>9, <1>10, <3>1
  <2>3. ASSUME NEW m \in all
        PROVE  q[nextObs'[m]] = IF q[m] = k + 1 THEN 0 ELSE q[m] + 1
    <3>1. CASE m = a
      BY <1>8, <1>9, <1>10, <3>1
    <3>2. CASE m # a
      <4>1. pos[m] # pos[a]
        BY <1>4, <1>8, <3>2 DEF InOrder
      <4>2. nextObs'[m] = nextObs[m] /\ nextObs[m] \in all
        BY <1>8, <1>10, <3>2
      <4>3. pos[m] \in 0 .. k /\ pos[a] \in 0 .. k /\ pos[nextObs[m]] = IF pos[m] = k THEN 0 ELSE pos[m] + 1
        BY <1>8, <2>1
      <4> QED BY <1>9, <4>1, <4>2, <4>3
    <3> QED BY <3>1, <3>2
  <2> QED BY <1>7, <2>2, <2>3
<1>18. \A m \in Listed' : prevObs'[nextObs'[m]] = m /\ nextObs'[prevObs'[m]] = m
  <2>1. \A m \in all : prevObs[nextObs[m]] = m /\ nextObs[prevObs[m]] = m
    BY <1>4 DEF InOrder
  <2> QED BY <1>5, <1>7, <1>8, <1>10, <2>1
<1>19. \A m, r \in Listed' : q[m] <= q[r] => obs'[m] <= obs'[r]
  <2>1. \A m, r \in all : pos[m] <= pos[r] => obs[m] <= obs[r]
    BY <1>4 DEF InOrder
  <2>2. \A m \in all : pos[a] < pos[m] => o < obs[m]
    BY <1>3, <1>4
  <2>3. ASSUME NEW m \in all, NEW r \in all, q[m] <= q[r]
        PROVE  obs'[m] <= obs'[r]
    BY <1>8, <1>9, <1>10, <2>1, <2>3
  <2>4. ASSUME NEW m \in all, q[m] <= q[n]
        PROVE  obs'[m] <= obs'[n]
    <3>1. pos[m] <= pos[a]
      BY <1>8, <1>9, <2>4
    <3>2. obs[m] <= obs[a] /\ obs[a] <= o /\ obs[m] \in Nat /\ obs[a] \in Nat
      BY <1>3, <1>8, <2>1, <3>1
    <3> QED BY <1>10, <3>2
  <2>5. ASSUME NEW m \in all, q[n] <= q[m]
        PROVE  obs'[n] <= obs'[m]
    <3>1. pos[a] < pos[m]
      BY <1>8, <1>9, <2>5
    <3> QED BY <1>8, <1>10, <2>2, <3>1
  <2> QED BY <1>7, <1>8, <1>10, <2>3, <2>4, <2>5
<1>20. InOrder(q, k + 1)'
  BY <1>11, <1>12, <1>13, <1>14, <1>15, <1>16, <1>17, <1>18, <1>19 DEF InOrder
<1> QED BY <1>20

\* The list in order is ListSound: the node that is reached in i steps is the
\* one that pos gives i.
LEMMA OrderIsSound ==
  ASSUME NEW k \in Nat, NEW pos, InOrder(pos, k)
  PROVE  ListSound
<1> DEFINE nth == CHOOSE f : f = [i \in 0 .. k |-> IF i = 0 THEN Start ELSE nextObs[f[i - 1]]]
<1>1. nth = [i \in 0 .. k |-> IF i = 0 THEN Start ELSE nextObs[nth[i - 1]]]
  <2> DEFINE g == [i \in 0 .. k |-> CHOOSE n \in Listed : pos[n] = i]
  <2>1. \A i \in 0 .. k : g[i] \in Listed /\ pos[g[i]] = i
    BY DEF InOrder
  <2>2. g[0] = Start
    BY <2>1 DEF InOrder
  <2>3. ASSUME NEW i \in 0 .. k, i # 0
        PROVE  g[i] = nextObs[g[i - 1]]
    <3>1. i - 1 \in 0 .. k /\ i - 1 # k
      BY <2>3
    <3>2. g[i - 1] \in Listed /\ pos[g[i - 1]] = i - 1 /\ g[i] \in Listed /\ pos[g[i]] = i
      BY <2>1, <3>1
    <3>3. nextObs[g[i - 1]] \in Listed /\ pos[nextObs[g[i - 1]]] = i
      BY <3>1, <3>2 DEF InOrder
    <3> QED BY <3>2, <3>3 DEF InOrder
  <2>4. g = [i \in 0 .. k |-> g[i]]
    OBVIOUS
  <2> HIDE DEF g
  <2>5. g = [i \in 0 .. k |-> IF i = 0 THEN Start ELSE nextObs[g[i - 1]]]
    BY <2>2, <2>3, <2>4
  <2> QED BY <2>5
<1> HIDE DEF nth
<1>2. nth \in [0 .. k -> Listed] /\ \A i \in 0 .. k : pos[nth[i]] = i
  <2> DEFINE T == {i \in 0 .. k : ~(nth[i] \in Listed /\ pos[nth[i]] = i)}
  <2>1. T = {}
    <3> SUFFICES ASSUME T # {} PROVE FALSE
      OBVIOUS
    <3>1. PICK i \in T : \A r \in T : i <= r
      <4>1. T \in SUBSET Nat
        OBVIOUS
      <4> QED BY <4>1, LeastNatural
    <3>2. i # 0
      BY <1>1, <3>1 DEF InOrder
    <3>3. i - 1 \in 0 .. k /\ i - 1 # k /\ ~(i <= i - 1)
      BY <3>1, <3>2
    <3>4. nth[i - 1] \in Listed /\ pos[nth[i - 1]] = i - 1
      BY <3>1, <3>3
    <3>5. nth[i] = nextObs[nth[i - 1]]
      BY <1>1, <3>1, <3>2
    <3>6. nth[i] \in Listed /\ pos[nth[i]] = i
      BY <3>3, <3>4, <3>5 DEF InOrder
    <3> QED BY <3>1, <3>6
  <2>2. DOMAIN nth = 0 .. k
    BY <1>1
  <2>3. \A i \in 0 .. k : nth[i] \in Listed /\ pos[nth[i]] = i
    BY <2>1
  <2> HIDE DEF T
  <2> QED BY <1>1, <2>2, <2>3
<1>3. {nth[i] : i \in DOMAIN nth} = Listed
  <2>1. ASSUME NEW n \in Listed
        PROVE  \E i \in 0 .. k : nth[i] = n
    <3>1. pos[n] \in 0 .. k
      BY DEF InOrder
    <3>2. nth[pos[n]] \in Listed /\ pos[nth[pos[n]]] = pos[n]
      BY <1>2, <3>1
    <3> QED BY <3>1, <3>2 DEF InOrder
  <2>2. DOMAIN nth = 0 .. k
    BY <1>2
  <2> QED BY <1>2, <2>1, <2>2
<1>4. \A n \in Listed : prevObs[nextObs[n]] = n
  BY DEF InOrder
<1>5. ASSUME NEW n \in Cells, nextObs[n] # Start
      PROVE  obs[n] <= obs[nextObs[n]]
  <2>1. n \in Listed /\ nextObs[n] \in Listed /\ pos[n] \in 0 .. k /\ pos[nextObs[n]] \in 0 .. k
    BY DEF InOrder, Cells, Listed
  <2>2. pos[nextObs[n]] # 0
    BY <1>5, <2>1 DEF InOrder
  <2>3. pos[nextObs[n]] = pos[n] + 1
    BY <2>1, <2>2 DEF InOrder
  <2> QED BY <2>1, <2>3 DEF InOrder
<1>6. Cardinality(Cells) = k
  BY DEF InOrder
<1> QED BY <1>3, <1>4, <1>5, <1>6 DEF ListSound, Listed, nth

\* The list as the interrupts and the task leave it.
ListInv ==
  /\ ~raced => \E k \in Nat : \E pos : InOrder(pos, k)
  /\ cnt \in 0 .. Top /\ obs \in [Listed -> Nat]
  /\ Start \in Listed /\ Cells \subseteq ObsCells
  /\ work.at \in {"idle", "walk", "write"}
  /\ work = [at |-> work.at, curr |-> work.curr, jump |-> work.jump, count |-> work.count]
  /\ work.jump \in Nat /\ work.count \in 0 .. Top
  /\ ~raced => work.curr \in Listed
  /\ raced => work.at = "walk"

\* The list of obsStart alone is in order.
LEMMA OneInOrder ==
  ASSUME obs = [n \in {Start} |-> 0],
         nextObs = [n \in {Start} |-> Start], prevObs = [n \in {Start} |-> Start]
  PROVE  InOrder([n \in {Start} |-> 0], 0)
<1>1. Listed = {Start} /\ Cells = {}
  BY DEF Listed, Cells
<1>2. IsFiniteSet(Cells) /\ Cardinality(Cells) = 0
  BY <1>1, FS_EmptySet
<1> QED BY <1>1, <1>2 DEF InOrder

\* At first the list has obsStart alone.
LEMMA ListBegins == FireflyAssumption /\ FireflyInit => ListInv
<1> SUFFICES ASSUME FireflyAssumption, FireflyInit PROVE ListInv
  OBVIOUS
<1>1. \E k \in Nat : \E pos : InOrder(pos, k)
  BY OneInOrder DEF FireflyInit
<1> QED BY <1>1 DEF ListInv, FireflyInit, FireflyAssumption, NoWork, Listed, Cells

\* A step that leaves the list alone leaves its order.
LEMMA OrderStays ==
  ASSUME ~raced => \E k \in Nat : \E pos : InOrder(pos, k), UNCHANGED list
  PROVE  (~raced => \E k \in Nat : \E pos : InOrder(pos, k))'
<1>1. SUFFICES ASSUME ~raced'
      PROVE  \E k \in Nat : \E pos : InOrder(pos, k)'
  OBVIOUS
<1>2. ~raced
  BY <1>1 DEF list
<1>5. PICK k \in Nat : \E pos : InOrder(pos, k)
  BY <1>2
<1>3. PICK pos : InOrder(pos, k)
  BY <1>5
<1>4. InOrder(pos, k)'
  BY <1>3 DEF list, InOrder, Cells, Listed
<1> QED BY <1>4

\* Pings are put in their place, and processObsQueue takes the list apart from
\* its start: the list stays in order unless a ping comes meanwhile.
LEMMA ListStep ==
  ASSUME FireflyAssumption, ListInv, [FireflyNext]_ffVars
  PROVE  ListInv'
<1>1. CASE UNCHANGED ffVars
  <2>1. UNCHANGED list
    BY <1>1 DEF ffVars, list
  <2> QED BY <1>1, <2>1, OrderStays DEF ListInv, ffVars, Listed, Cells
<1>2. ASSUME cnt' \in 0 .. Top, UNCHANGED <<list, work>>
      PROVE  ListInv'
  BY <1>2, OrderStays DEF ListInv, list, Listed, Cells
<1>3. CASE PhaseTick \/ Overflows \/ Steer \/ SendPing
  <2>1. cnt' \in 0 .. Top /\ UNCHANGED <<list, work>>
    BY <1>3 DEF PhaseTick, Overflows, Steer, SendPing, timer, ListInv, FireflyAssumption
  <2> QED BY <1>2, <2>1
<1>4. ASSUME NEW delay \in Delays, updateFireflyCounter(delay)
      PROVE  ListInv'
  <2> USE <1>4
  <2>1. PICK o : o = Observation(cnt, delay)
    OBVIOUS
  <2>2. o \in Nat
    BY <2>1 DEF Observation, ListInv, FireflyAssumption
  <2>3. UNCHANGED <<cnt, work>> /\ ~raced
    BY DEF updateFireflyCounter, timer
  <2>4. CASE work.at = "walk"
    <3>1. raced' /\ UNCHANGED <<obs, nextObs, prevObs>>
      BY <2>4, Zenon DEF updateFireflyCounter
    <3> QED BY <2>3, <2>4, <3>1 DEF ListInv, Listed, Cells
  <2>5. CASE work.at # "walk" /\ Cells = ObsCells
    <3>1. UNCHANGED list
      BY <2>5 DEF updateFireflyCounter
    <3> QED BY <1>2, <2>3, <3>1 DEF ListInv
  <2>6. CASE work.at # "walk" /\ Cells # ObsCells
    <3>1. PICK n : n = CHOOSE m \in ObsCells \ Cells : TRUE
      OBVIOUS
    <3>2. QueueBehind(n, Behind(o), o) /\ UNCHANGED raced
      BY <2>1, <2>6, <3>1 DEF updateFireflyCounter
    <3>3. n \in ObsCells \ Cells
      BY <2>6, <3>1 DEF ListInv
    <3>11. PICK k \in Nat : \E pos : InOrder(pos, k)
      BY <2>3 DEF ListInv
    <3>4. PICK pos : InOrder(pos, k)
      BY <3>11
    <3>5. \E q : InOrder(q, k + 1)'
      BY <2>2, <3>2, <3>3, <3>4, QueuedInOrder
    <3>6. (~raced => \E i \in Nat : \E q : InOrder(q, i))'
      BY <3>5
    <3>7. obs' = [m \in Listed \union {n} |-> IF m = n THEN o ELSE obs[m]]
      BY <3>2 DEF QueueBehind, Listed
    <3>8. obs' \in [Listed' -> Nat] /\ Listed' = Listed \union {n}
      BY <2>2, <3>7 DEF Listed, ListInv
    <3>9. Start \in Listed' /\ Cells' \subseteq ObsCells
      BY <3>3, <3>8 DEF Listed, Cells, ListInv
    <3> QED BY <2>3, <3>2, <3>6, <3>8, <3>9 DEF ListInv
  <2> QED BY <2>4, <2>5, <2>6
<1>5. CASE ProcessBegins
  <2>1. UNCHANGED list /\ cnt' = cnt
    BY <1>5 DEF ProcessBegins, timer
  <2>2. work' = [at |-> "walk", curr |-> nextObs[Start], jump |-> 0, count |-> 0] /\ ~raced
    BY <1>5 DEF ProcessBegins, NoWork
  <2>3. nextObs[Start] \in Listed
    BY <2>2 DEF ListInv, InOrder
  <2> QED BY <2>1, <2>2, <2>3, OrderStays DEF ListInv, list, Listed, Cells, FireflyAssumption
<1>6. CASE ProcessNode
  <2>1. UNCHANGED list /\ cnt' = cnt
    BY <1>6 DEF ProcessNode, timer
  <2>2. ~raced /\ work.curr \in Listed
    BY <1>6 DEF ProcessNode, ListInv
  <2>3. work' = [at |-> work.at, curr |-> nextObs[work.curr], count |-> work.count,
                 jump |-> work.jump + (obs[work.curr] \div FFC)]
    BY <1>6 DEF ProcessNode, ListInv
  <2>4. nextObs[work.curr] \in Listed /\ obs[work.curr] \in Nat
    BY <2>2 DEF ListInv, InOrder
  <2>5. work.jump + (obs[work.curr] \div FFC) \in Nat
    BY <2>4 DEF ListInv, FireflyAssumption
  <2> QED BY <2>1, <2>2, <2>3, <2>4, <2>5, OrderStays DEF ListInv, list, Listed, Cells
<1>7. CASE ProcessReads
  <2>1. /\ obs' = [n \in {Start} |-> 0]
        /\ nextObs' = [n \in {Start} |-> Start] /\ prevObs' = [n \in {Start} |-> Start]
    BY <1>7 DEF ProcessReads
  <2>2. (~raced => \E i \in Nat : \E q : InOrder(q, i))'
    <3>1. Listed' = {Start} /\ Cells' = {}
      BY <2>1 DEF Listed, Cells
    <3>2. IsFiniteSet(Cells') /\ Cardinality(Cells') = 0
      BY <3>1, FS_EmptySet
    <3>3. InOrder([n \in {Start} |-> 0], 0)'
      BY <2>1, <3>1, <3>2 DEF InOrder
    <3> QED BY <3>3
  <2>3. work' = [at |-> "write", curr |-> Start, jump |-> work.jump, count |-> cnt]
    BY <1>7 DEF ProcessReads, ListInv
  <2>4. Listed' = {Start} /\ Cells' = {} /\ obs' \in [{Start} -> Nat]
    BY <2>1 DEF Listed, Cells
  <2>5. ~raced /\ ~raced' /\ cnt' = cnt
    BY <1>7 DEF ProcessReads
  <2> QED BY <2>2, <2>3, <2>4, <2>5 DEF ListInv
<1>8. CASE ProcessWrites
  <2>1. UNCHANGED list /\ work' = [at |-> "idle", curr |-> Start, jump |-> 0, count |-> 0]
    BY <1>8 DEF ProcessWrites, NoWork
  <2>2. cnt' \in 0 .. Top /\ ~raced
    BY <1>8 DEF ProcessWrites, ListInv, FireflyAssumption
  <2> QED BY <2>1, <2>2, OrderStays DEF ListInv, list, Listed, Cells, FireflyAssumption
<1> QED BY <1>1, <1>3, <1>4, <1>5, <1>6, <1>7, <1>8 DEF FireflyNext

\* While no ping is queued during processObsQueue, the list of observations is
\* sorted, its two directions agree, and no node of it is lost.
THEOREM ListIsSound == FireflySpec => []ListSound
<1>1. ListInv => ListSound
  <2> SUFFICES ASSUME ListInv, ~raced PROVE ListSound
    BY DEF ListSound
  <2> QED BY OrderIsSound DEF ListInv
<1> QED BY <1>1, FireflyAssumption, ListBegins, ListStep, PTL DEF FireflySpec

\* The light shows the colour of the blink in a blink only, and the colour
\* that it will take back is never that of the blink.
LightInv ==
  /\ cca \in Nat /\ ccb \in 0 .. Top /\ (ccb # 0 => 0 < cca /\ cca < ccb)
  /\ ~upset => /\ prevShown # Blink
               /\ shown = Blink => InBlink
               /\ shown = Blink /\ work.at = "write" =>
                    cnt = work.count /\ work.count + work.jump <= ccb

\* At first the light is the program's.
LEMMA LightBegins == FireflyAssumption /\ FireflyInit => LightInv
BY DEF FireflyAssumption, FireflyInit, LightInv, InBlink, Blinking

\* Every step of the timer, of its interrupts and of the jumps that
\* updateFireflyCounter makes keeps the light told apart from the blink.
LEMMA LightStep ==
  ASSUME FireflyAssumption, ListInv, LightInv, [FireflyNext]_ffVars
  PROVE  LightInv'
<1>1. CASE UNCHANGED ffVars
  BY <1>1 DEF LightInv, ffVars, InBlink, Blinking
<1>2. CASE PhaseTick
  <2>1. ~upset' => ~upset /\ ~(Blinking /\ work.at = "write")
    BY <1>2, Zenon DEF PhaseTick
  <2>2. cnt < Top /\ cnt' = cnt + 1 /\ Matches(cnt') /\ UNCHANGED <<cca, ccb, work>>
    BY <1>2 DEF PhaseTick
  <2> QED BY <2>1, <2>2 DEF LightInv, ListInv, InBlink, Blinking, Matches, FireflyAssumption
<1>3. CASE Overflows
  <2>1. ~upset' => ~upset
    BY <1>3, Zenon DEF Overflows
  <2>2. cnt = Top /\ UNCHANGED <<cca, ccb, shown, prevShown, work>>
    BY <1>3 DEF Overflows
  <2> QED BY <2>1, <2>2 DEF LightInv, ListInv, InBlink, Blinking, FireflyAssumption
<1>4. CASE Steer
  <2>1. ~upset' => ~upset /\ ~InBlink
    BY <1>4, Zenon DEF Steer
  <2>2. UNCHANGED <<cnt, prevShown, work>>
    BY <1>4 DEF Steer
  <2>3. shown' = shown \/ shown' \in LightColours
    BY <1>4 DEF Steer
  <2>4. cca' \in Nat /\ ccb' \in 0 .. Top /\ (ccb' # 0 => 0 < cca' /\ cca' < ccb')
    <3>1. ASSUME NEW off \in (Top \div 2) + 1 .. Top, NEW dur \in 1 .. 2, cca' = off - dur, ccb' = off
          PROVE  cca' \in Nat /\ ccb' \in 0 .. Top /\ 0 < cca' /\ cca' < ccb'
      BY <3>1 DEF FireflyAssumption
    <3> QED BY <1>4, <3>1 DEF Steer, LightInv, FireflyAssumption
  <2> QED BY <2>1, <2>2, <2>3, <2>4 DEF LightInv, FireflyAssumption
<1>5. CASE (\E delay \in Delays : updateFireflyCounter(delay)) \/ SendPing
  <2>1. UNCHANGED <<timer, work>> \/ (UNCHANGED timer /\ work.at = "idle")
    BY <1>5 DEF updateFireflyCounter, SendPing
  <2> QED BY <1>5, <2>1 DEF updateFireflyCounter, SendPing, timer, LightInv, InBlink, Blinking
<1>6. CASE ProcessBegins \/ ProcessNode
  <2>1. UNCHANGED timer /\ work'.at = "walk"
    BY <1>6 DEF ProcessBegins, ProcessNode, ListInv, NoWork
  <2> QED BY <2>1 DEF timer, LightInv, InBlink, Blinking
<1>7. CASE ProcessReads
  <2>1. UNCHANGED <<cnt, cca, ccb, prevShown, upset>> /\ shown' = IF EndsBlink(cnt, work.jump) THEN prevShown ELSE shown
    BY <1>7 DEF ProcessReads
  <2>2. work'.count = cnt /\ work'.jump = work.jump
    BY <1>7 DEF ProcessReads, ListInv
  <2> QED BY <2>1, <2>2 DEF LightInv, ListInv, InBlink, Blinking, EndsBlink, FireflyAssumption
<1>8. CASE ProcessWrites
  <2>1. UNCHANGED <<cca, ccb, upset>> /\ work'.at = "idle" /\ Matches(cnt')
    BY <1>8 DEF ProcessWrites, NoWork
  <2>2. cnt' = IF work.count + work.jump >= Top THEN Top - 1 ELSE work.count + work.jump
    BY <1>8 DEF ProcessWrites
  <2>3. work.at = "write"
    BY <1>8 DEF ProcessWrites
  <2> QED BY <2>1, <2>2, <2>3 DEF LightInv, ListInv, InBlink, Blinking, Matches, FireflyAssumption
<1> QED BY <1>1, <1>2, <1>3, <1>4, <1>5, <1>6, <1>7, <1>8 DEF FireflyNext

\* Outside of a blink the light is the program's, also when updateFireflyCounter
\* jumps over the end of one, unless a blink is upset in the middle.
THEOREM BlinkIsEnded == FireflySpec => []BlinkEnds
<1>1. LightInv => BlinkEnds
  BY DEF LightInv, BlinkEnds
<1> QED BY <1>1, FireflyAssumption, ListBegins, ListStep, LightBegins, LightStep, PTL DEF FireflySpec

-----------------------------------------------------------------------------
(* Motors                                                                  *)

\* The steps of a motor function, those in the midst of one, and all others
Inner      == {"mark", "spin", "schedule", "assign", "halt", "remove", "forget"}
MotorSteps == Inner \cup {"isMoving"}
OtherSteps == {"guess", "restore", "restart", "lowStop", "again", "count", "fixed", "write"}
JobSteps   == MotorSteps \cup OtherSteps

\* A job comes to a motor function once at most, and runs it from end to end.
Orderly(j) ==
  /\ j \in Seq(JobSteps)
  /\ \A i \in 1 .. Len(j) :
       /\ j[i] = "isMoving" => i < Len(j) /\ j[i + 1] = "mark"
       /\ j[i] = "mark"     => i < Len(j) /\ j[i + 1] = "spin"
       /\ j[i] = "spin"     => i < Len(j) /\ j[i + 1] = "schedule"
       /\ j[i] = "schedule" => i < Len(j) /\ j[i + 1] = "assign"
       /\ j[i] = "halt"     => i < Len(j) /\ j[i + 1] = "remove"
       /\ j[i] = "remove"   => i < Len(j) /\ j[i + 1] = "forget"
       /\ j[i] \in OtherSteps /\ i < Len(j) => j[i + 1] \notin Inner
       /\ j[i] \in {"assign", "forget"} => \A k \in i + 1 .. Len(j) : j[k] \notin MotorSteps

Motors(j) == \E i \in 1 .. Len(j) : j[i] \in MotorSteps

AtStep(todo, c, step) == todo[c] # <<>> /\ Head(todo[c]) = step
Midst(todo) == \E c \in MotionContexts : \E s \in Inner : AtStep(todo, c, s)

\* the scheduled tasks that stop the droplet
Stops(t) == {h \in DOMAIN t : t[h] = "stopMove"}

\* A droplet that moves has one task that will stop it, whose handle is kept.
Timed(on, runs, cur, stops) ==
  \/ on = TRUE /\ runs = TRUE /\ stops = {cur}
  \/ on = FALSE /\ runs = FALSE /\ stops = {}

\* What holds before a step of a motor function
Stage(step, on, runs, cur, stops, own) ==
  /\ step = "mark"     => on = FALSE /\ runs = FALSE /\ stops = {}
  /\ step = "spin"     => on = TRUE /\ runs = FALSE /\ stops = {}
  /\ step = "schedule" => on = TRUE /\ runs = TRUE /\ stops = {}
  /\ step = "assign"   => on = TRUE /\ runs = TRUE /\ stops = {own}
  /\ step = "halt"     => stops \subseteq {cur}
  /\ step = "remove"   => on = FALSE /\ runs = FALSE /\ stops \subseteq {cur}
  /\ step = "forget"   => on = FALSE /\ runs = FALSE /\ stops = {}

\* Two contexts are not both in, or before, a motor function.
Apart(todo) == \A c, d \in MotionContexts : c # d /\ Motors(todo[c]) => ~Motors(todo[d])

Staged(todo, on, runs, cur, stops, own) ==
  /\ Apart(todo)
  /\ \A c \in MotionContexts : \A s \in Inner :
       AtStep(todo, c, s) => Stage(s, on, runs, cur, stops, own[c])
  /\ ~Midst(todo) => Timed(on, runs, cur, stops)

AllOrderly(todo) ==
  todo \in [MotionContexts -> Seq(JobSteps)] /\ \A c \in MotionContexts : Orderly(todo[c])

MotionInv ==
  /\ AllOrderly(jobs) /\ DOMAIN handle = MotionContexts /\ crossed \in BOOLEAN
  /\ ~crossed => Staged(jobs, moving, spinning, current, Stops(tasks), handle)

\* Unless a motor function was called in the midst of another one, or no slot was
\* free: when no context is in one, the motors run only with the one task scheduled
\* that will stop them, under the handle that stopMove removes it by.
MovesAreTimed ==
  ~crossed /\ ~Midst(jobs) => Timed(moving, spinning, current, Stops(tasks))

----------------------------------------------------------------------------
\* Jobs
LEMMA TailIsOrderly ==
  ASSUME NEW j, Orderly(j), j # <<>>
  PROVE  /\ Orderly(Tail(j)) /\ (Motors(Tail(j)) => Motors(j))
         /\ (Head(j) \in MotorSteps => Motors(j))
         /\ Len(j) \in Nat \ {0} /\ Head(j) = j[1] /\ Head(j) \in JobSteps
         /\ Len(Tail(j)) = Len(j) - 1 /\ \A i \in 1 .. Len(j) - 1 : Tail(j)[i] = j[i + 1]
<1>1. j \in Seq(JobSteps) /\ Len(j) \in Nat \ {0} /\ Head(j) = j[1] /\ 1 \in 1 .. Len(j)
  BY DEF Orderly
<1>2. /\ Tail(j) \in Seq(JobSteps) /\ Len(Tail(j)) = Len(j) - 1
      /\ \A i \in 1 .. Len(j) - 1 : Tail(j)[i] = j[i + 1]
  BY <1>1
<1>3. PICK t : t = Tail(j)
  OBVIOUS
<1>4. PICK n \in Nat : n = Len(j)
  BY <1>1
<1>5. ASSUME NEW i \in 1 .. n - 1
      PROVE  /\ t[i] = "isMoving" => i < n - 1 /\ t[i + 1] = "mark"
             /\ t[i] = "mark"     => i < n - 1 /\ t[i + 1] = "spin"
             /\ t[i] = "spin"     => i < n - 1 /\ t[i + 1] = "schedule"
             /\ t[i] = "schedule" => i < n - 1 /\ t[i + 1] = "assign"
             /\ t[i] = "halt"     => i < n - 1 /\ t[i + 1] = "remove"
             /\ t[i] = "remove"   => i < n - 1 /\ t[i + 1] = "forget"
             /\ t[i] \in OtherSteps /\ i < n - 1 => t[i + 1] \notin Inner
             /\ t[i] \in {"assign", "forget"} => \A k \in i + 1 .. n - 1 : t[k] \notin MotorSteps
  <2>1. i + 1 \in 1 .. n /\ t[i] = j[i + 1] /\ (i + 1 < n => i < n - 1)
    BY <1>2, <1>3, <1>4
  <2>2. i < n - 1 => t[i + 1] = j[i + 1 + 1]
    BY <1>2, <1>3, <1>4
  <2>3. /\ j[i + 1] = "isMoving" => i + 1 < n /\ j[i + 1 + 1] = "mark"
        /\ j[i + 1] = "mark"     => i + 1 < n /\ j[i + 1 + 1] = "spin"
        /\ j[i + 1] = "spin"     => i + 1 < n /\ j[i + 1 + 1] = "schedule"
        /\ j[i + 1] = "schedule" => i + 1 < n /\ j[i + 1 + 1] = "assign"
        /\ j[i + 1] = "halt"     => i + 1 < n /\ j[i + 1 + 1] = "remove"
        /\ j[i + 1] = "remove"   => i + 1 < n /\ j[i + 1 + 1] = "forget"
        /\ j[i + 1] \in OtherSteps /\ i + 1 < n => j[i + 1 + 1] \notin Inner
        /\ j[i + 1] \in {"assign", "forget"} => \A k \in i + 1 + 1 .. n : j[k] \notin MotorSteps
    BY <1>4, <2>1 DEF Orderly
  <2>4. t[i] \in {"assign", "forget"} => \A k \in i + 1 .. n - 1 : t[k] \notin MotorSteps
    <3> SUFFICES ASSUME t[i] \in {"assign", "forget"}, NEW k \in i + 1 .. n - 1
                 PROVE  t[k] \notin MotorSteps
      OBVIOUS
    <3>1. k + 1 \in i + 1 + 1 .. n /\ k \in 1 .. n - 1
      OBVIOUS
    <3>2. t[k] = j[k + 1]
      BY <1>2, <1>3, <1>4, <3>1
    <3> QED BY <2>1, <2>3, <3>1, <3>2
  <2> HIDE DEF Inner, OtherSteps, MotorSteps
  <2> QED BY <2>1, <2>2, <2>3, <2>4
<1>6. Orderly(t)
  BY <1>2, <1>3, <1>4, <1>5 DEF Orderly
<1>7. Motors(t) => Motors(j)
  <2> SUFFICES ASSUME Motors(t) PROVE Motors(j)
    OBVIOUS
  <2>1. PICK i \in 1 .. n - 1 : t[i] \in MotorSteps
    BY <1>2, <1>3, <1>4 DEF Motors
  <2>2. i + 1 \in 1 .. n /\ j[i + 1] \in MotorSteps
    BY <1>2, <1>3, <1>4, <2>1
  <2> QED BY <1>4, <2>2 DEF Motors
<1>8. Head(j) \in MotorSteps => Motors(j)
  BY <1>1 DEF Motors
<1>9. Head(j) \in JobSteps
  BY <1>1
<1> QED BY <1>1, <1>2, <1>3, <1>6, <1>7, <1>8, <1>9

\* What follows a step of a motor function
LEMMA NextStepIs ==
  ASSUME NEW j, Orderly(j), j # <<>>
  PROVE  /\ Head(j) = "isMoving" => Tail(j) # <<>> /\ Head(Tail(j)) = "mark"
         /\ Head(j) = "mark"     => Tail(j) # <<>> /\ Head(Tail(j)) = "spin"
         /\ Head(j) = "spin"     => Tail(j) # <<>> /\ Head(Tail(j)) = "schedule"
         /\ Head(j) = "schedule" => Tail(j) # <<>> /\ Head(Tail(j)) = "assign"
         /\ Head(j) = "halt"     => Tail(j) # <<>> /\ Head(Tail(j)) = "remove"
         /\ Head(j) = "remove"   => Tail(j) # <<>> /\ Head(Tail(j)) = "forget"
         /\ Head(j) \in {"assign", "forget"} => ~Motors(Tail(j))
         /\ Head(j) \in OtherSteps /\ Tail(j) # <<>> => Head(Tail(j)) \notin Inner
<1>1. PICK t : t = Tail(j)
  OBVIOUS
<1>2. PICK n \in Nat \ {0} : n = Len(j)
  BY TailIsOrderly
<1>3. /\ Head(j) = j[1] /\ Len(t) = n - 1 /\ t \in Seq(JobSteps)
      /\ \A i \in 1 .. n - 1 : t[i] = j[i + 1]
  BY <1>1, <1>2, TailIsOrderly DEF Orderly
<1>4. 1 < n => t # <<>> /\ Head(t) = j[2]
  <2> SUFFICES ASSUME 1 < n PROVE t # <<>> /\ Head(t) = j[2]
    OBVIOUS
  <2>1. Len(t) >= 1 /\ 1 \in 1 .. n - 1
    BY <1>3
  <2>2. t # <<>> /\ Head(t) = t[1]
    BY <1>3, <2>1
  <2> QED BY <1>3, <2>1, <2>2
<1>5. t # <<>> => 1 < n
  BY <1>3
<1>6. /\ j[1] = "isMoving" => 1 < n /\ j[2] = "mark"
      /\ j[1] = "mark"     => 1 < n /\ j[2] = "spin"
      /\ j[1] = "spin"     => 1 < n /\ j[2] = "schedule"
      /\ j[1] = "schedule" => 1 < n /\ j[2] = "assign"
      /\ j[1] = "halt"     => 1 < n /\ j[2] = "remove"
      /\ j[1] = "remove"   => 1 < n /\ j[2] = "forget"
      /\ j[1] \in OtherSteps /\ 1 < n => j[2] \notin Inner
      /\ j[1] \in {"assign", "forget"} => \A k \in 2 .. n : j[k] \notin MotorSteps
  <2>1. 1 \in 1 .. n /\ 1 + 1 = 2
    BY <1>2
  <2> QED BY <1>2, <2>1 DEF Orderly
<1>7. Head(j) \in {"assign", "forget"} => ~Motors(t)
  <2> SUFFICES ASSUME Head(j) \in {"assign", "forget"}, NEW i \in 1 .. n - 1 PROVE t[i] \notin MotorSteps
    BY <1>3 DEF Motors
  <2>1. i + 1 \in 2 .. n
    OBVIOUS
  <2> QED BY <1>3, <1>6, <2>1
<1> QED BY <1>1, <1>3, <1>4, <1>5, <1>6, <1>7

LEMMA MadeUpSeq ==
  ASSUME NEW S, NEW m \in Nat, NEW s \in [1 .. m -> S]
  PROVE  s \in Seq(S) /\ Len(s) = m
OBVIOUS

\* What is left when moveSteps finds the droplet moving
LEMMA Skipped ==
  ASSUME NEW j, Orderly(j), j # <<>>, Head(j) = "isMoving",
         NEW s, s = SubSeq(j, Len(moveSteps) + 1, Len(j))
  PROVE  /\ s \in Seq(JobSteps) /\ Len(s) = Len(j) - 5 /\ Len(j) \in Nat /\ 5 <= Len(j)
         /\ \A i \in 1 .. Len(j) - 5 : s[i] = j[i + 5]
         /\ \A i \in 1 .. 5 : j[i] \in MotorSteps
         /\ \A i \in 6 .. Len(j) : j[i] \notin MotorSteps
<1>1. PICK n \in Nat \ {0} : n = Len(j)
  BY TailIsOrderly
<1>2. j \in Seq(JobSteps) /\ j[1] = "isMoving" /\ Len(moveSteps) + 1 = 6
  BY TailIsOrderly DEF Orderly, moveSteps
<1>3. 1 \in 1 .. n /\ 2 \in 1 .. n /\ j[2] = "mark"
  <2>1. 1 < n /\ j[1 + 1] = "mark"
    BY <1>1, <1>2 DEF Orderly
  <2> QED BY <2>1
<1>4. 3 \in 1 .. n /\ j[3] = "spin"
  <2>1. 2 < n /\ j[2 + 1] = "spin"
    BY <1>1, <1>3 DEF Orderly
  <2> QED BY <2>1
<1>5. 4 \in 1 .. n /\ j[4] = "schedule"
  <2>1. 3 < n /\ j[3 + 1] = "schedule"
    BY <1>1, <1>4 DEF Orderly
  <2> QED BY <2>1
<1>6. 5 \in 1 .. n /\ j[5] = "assign"
  <2>1. 4 < n /\ j[4 + 1] = "assign"
    BY <1>1, <1>5 DEF Orderly
  <2> QED BY <2>1
<1>7. \A k \in 6 .. n : j[k] \notin MotorSteps
  <2>1. \A k \in 5 + 1 .. n : j[k] \notin MotorSteps
    BY <1>1, <1>6 DEF Orderly
  <2> QED BY <2>1
<1>8. /\ s \in Seq(JobSteps) /\ Len(s) = n - 5
      /\ \A i \in 1 .. n - 5 : s[i] = j[i + 5]
  <2>1. \A i \in 6 .. n : j[i] \in JobSteps
    BY <1>1, <1>2
  <2>2. 6 <= n + 1 /\ n - 5 \in Nat
    BY <1>6
  <2>3. s = [i \in 1 .. n - 5 |-> j[i + 5]]
    BY <1>1, <1>2, <2>2
  <2>4. \A i \in 1 .. n - 5 : i + 5 \in 6 .. n
    BY <2>2
  <2>5. s \in [1 .. n - 5 -> JobSteps]
    BY <2>1, <2>3, <2>4
  <2>6. s \in Seq(JobSteps) /\ Len(s) = n - 5
    BY <2>2, <2>5, MadeUpSeq
  <2>7. \A i \in 1 .. n - 5 : s[i] = j[i + 5]
    BY <2>3, Zenon
  <2> QED BY <2>6, <2>7
<1>9. \A i \in 1 .. 5 : j[i] \in MotorSteps
  <2>1. \A i \in 1 .. 5 : i = 1 \/ i = 2 \/ i = 3 \/ i = 4 \/ i = 5
    OBVIOUS
  <2> QED BY <1>2, <1>3, <1>4, <1>5, <1>6, <2>1 DEF MotorSteps, Inner
<1>10. Len(j) \in Nat /\ 5 <= Len(j)
  BY <1>1, <1>6
<1> QED BY <1>1, <1>7, <1>8, <1>9, <1>10, Zenon

LEMMA SkippedIsOrderly ==
  ASSUME NEW j, Orderly(j), j # <<>>, Head(j) = "isMoving"
  PROVE  /\ Orderly(SubSeq(j, Len(moveSteps) + 1, Len(j)))
         /\ ~Motors(SubSeq(j, Len(moveSteps) + 1, Len(j)))
<1>1. PICK s : s = SubSeq(j, Len(moveSteps) + 1, Len(j))
  OBVIOUS
<1>2. /\ s \in Seq(JobSteps) /\ Len(s) = Len(j) - 5 /\ Len(j) \in Nat /\ 5 <= Len(j)
      /\ \A i \in 1 .. Len(j) - 5 : s[i] = j[i + 5]
      /\ \A i \in 6 .. Len(j) : j[i] \notin MotorSteps
  BY <1>1, Skipped
<1>3. \A i \in 1 .. Len(s) : s[i] \in JobSteps /\ s[i] \notin MotorSteps
  BY <1>2
<1>4. Orderly(s)
  <2>1. \A i \in 1 .. Len(s) : s[i] \in OtherSteps /\ s[i] \notin Inner
    BY <1>3 DEF JobSteps, MotorSteps
  <2>2. \A i \in 1 .. Len(s) : i < Len(s) => i + 1 \in 1 .. Len(s)
    BY <1>2
  <2> QED BY <1>2, <1>3, <2>1, <2>2 DEF Orderly, OtherSteps
<1> QED BY <1>1, <1>3, <1>4 DEF Motors

\* The jobs that a context is given
LEMMA Joined ==
  ASSUME NEW a \in Seq(JobSteps), NEW p \in Seq(OtherSteps), NEW n \in Nat, Len(a) = n
  PROVE  /\ a \o p \in Seq(JobSteps) /\ Len(a \o p) = n + Len(p)
         /\ \A i \in 1 .. n : (a \o p)[i] = a[i]
         /\ \A i \in n + 1 .. n + Len(p) : (a \o p)[i] \in OtherSteps /\ (a \o p)[i] \notin MotorSteps
<1>1. p \in Seq(JobSteps) /\ Len(p) \in Nat
  <2>1. \A i \in 1 .. Len(p) : p[i] \in JobSteps
    BY DEF JobSteps
  <2>2. p = [i \in 1 .. Len(p) |-> p[i]] /\ Len(p) \in Nat
    OBVIOUS
  <2> QED BY <2>1, <2>2
<1>2. /\ a \o p \in Seq(JobSteps) /\ Len(a \o p) = n + Len(p)
      /\ \A i \in 1 .. n + Len(p) : (a \o p)[i] = IF i <= n THEN a[i] ELSE p[i - n]
  BY <1>1, ConcatProperties
<1>3. \A i \in 1 .. n : (a \o p)[i] = a[i]
  BY <1>1, <1>2
<1>4. ASSUME NEW i \in n + 1 .. n + Len(p)
      PROVE  (a \o p)[i] \in OtherSteps /\ (a \o p)[i] \notin MotorSteps
  <2>1. i - n \in 1 .. Len(p) /\ ~(i <= n) /\ i \in 1 .. n + Len(p)
    BY <1>1
  <2>2. (a \o p)[i] = p[i - n]
    BY <1>2, <2>1
  <2>3. p[i - n] \in OtherSteps
    BY <2>1
  <2> QED BY <2>2, <2>3 DEF OtherSteps, MotorSteps, Inner
<1> QED BY <1>2, <1>3, <1>4

LEMMA MoveJob ==
  ASSUME NEW p \in Seq(OtherSteps)
  PROVE  /\ Orderly(moveSteps \o p) /\ moveSteps \o p # <<>> /\ Head(moveSteps \o p) = "isMoving"
         /\ Uses(moveSteps \o p)
<1>1. PICK j : j = moveSteps \o p
  OBVIOUS
<1>2. PICK m \in Nat : m = Len(p)
  OBVIOUS
<1>3. moveSteps \in Seq(JobSteps) /\ Len(moveSteps) = 5
  BY DEF moveSteps, JobSteps, MotorSteps, Inner
<1>4. /\ j \in Seq(JobSteps) /\ Len(j) = 5 + m
      /\ \A i \in 1 .. 5 : j[i] = moveSteps[i]
      /\ \A i \in 6 .. 5 + m : j[i] \in OtherSteps /\ j[i] \notin MotorSteps
  <2>1. 5 \in Nat /\ 5 + 1 = 6
    OBVIOUS
  <2> QED BY <1>1, <1>2, <1>3, <2>1, Joined
<1>5. j[1] = "isMoving" /\ j[2] = "mark" /\ j[3] = "spin" /\ j[4] = "schedule" /\ j[5] = "assign"
  BY <1>4 DEF moveSteps
<1>6. Orderly(j)
  <2>1. ASSUME NEW i \in 1 .. Len(j)
        PROVE  /\ j[i] = "isMoving" => i < Len(j) /\ j[i + 1] = "mark"
               /\ j[i] = "mark"     => i < Len(j) /\ j[i + 1] = "spin"
               /\ j[i] = "spin"     => i < Len(j) /\ j[i + 1] = "schedule"
               /\ j[i] = "schedule" => i < Len(j) /\ j[i + 1] = "assign"
               /\ j[i] = "halt"     => i < Len(j) /\ j[i + 1] = "remove"
               /\ j[i] = "remove"   => i < Len(j) /\ j[i + 1] = "forget"
               /\ j[i] \in OtherSteps /\ i < Len(j) => j[i + 1] \notin Inner
               /\ j[i] \in {"assign", "forget"} => \A k \in i + 1 .. Len(j) : j[k] \notin MotorSteps
    <3>1. CASE i \in 6 .. 5 + m
      <4>1. j[i] \in OtherSteps /\ j[i] \notin MotorSteps
        BY <1>4, <3>1
      <4>2. i < Len(j) => i + 1 \in 6 .. 5 + m
        BY <1>4, <3>1
      <4>3. i < Len(j) => j[i + 1] \notin Inner
        BY <1>4, <4>2 DEF MotorSteps
      <4> QED BY <4>1, <4>3 DEF MotorSteps, Inner
    <3>2. CASE i \in 1 .. 5
      <4>1. i = 1 \/ i = 2 \/ i = 3 \/ i = 4 \/ i = 5
        BY <3>2
      <4> QED BY <1>4, <1>5, <4>1 DEF OtherSteps
    <3> QED BY <1>4, <3>1, <3>2
  <2> QED BY <1>4, <2>1 DEF Orderly
<1>7. j # <<>> /\ Head(j) = "isMoving"
  BY <1>4, <1>5
<1>8. Uses(j)
  <2>1. 1 \in 1 .. Len(j) /\ j[1] \in {"isMoving", "halt"}
    BY <1>4, <1>5
  <2> QED BY <2>1 DEF Uses
<1> QED BY <1>1, <1>6, <1>7, <1>8

LEMMA GuessJob ==
  ASSUME NEW p \in Seq(OtherSteps)
  PROVE  /\ Orderly(<<"guess">> \o moveSteps \o p) /\ <<"guess">> \o moveSteps \o p # <<>>
         /\ Head(<<"guess">> \o moveSteps \o p) = "guess" /\ Uses(<<"guess">> \o moveSteps \o p)
<1>1. PICK a : a = <<"guess">> \o moveSteps
  OBVIOUS
<1>2. PICK j : j = a \o p
  OBVIOUS
<1>3. PICK m \in Nat : m = Len(p)
  OBVIOUS
<1>4. /\ a \in Seq(JobSteps) /\ Len(a) = 6
      /\ a[1] = "guess" /\ a[2] = "isMoving" /\ a[3] = "mark" /\ a[4] = "spin"
      /\ a[5] = "schedule" /\ a[6] = "assign"
  <2>1. <<"guess">> \in Seq(JobSteps) /\ moveSteps \in Seq(JobSteps)
        /\ Len(<<"guess">>) = 1 /\ Len(moveSteps) = 5
    BY DEF moveSteps, JobSteps, MotorSteps, Inner, OtherSteps
  <2>2. /\ a \in Seq(JobSteps) /\ Len(a) = 1 + 5
        /\ \A i \in 1 .. 1 + 5 : a[i] = IF i <= 1 THEN <<"guess">>[i] ELSE moveSteps[i - 1]
    <3>1. PICK g \in Seq(JobSteps) : g = <<"guess">>
      BY <2>1
    <3>2. PICK s \in Seq(JobSteps) : s = moveSteps
      BY <2>1
    <3>3. /\ g \o s \in Seq(JobSteps) /\ Len(g \o s) = Len(g) + Len(s)
          /\ \A i \in 1 .. Len(g) + Len(s) : (g \o s)[i] = IF i <= Len(g) THEN g[i] ELSE s[i - Len(g)]
      BY ConcatProperties
    <3>4. Len(g) = 1 /\ Len(s) = 5 /\ a = g \o s
      BY <1>1, <2>1, <3>1, <3>2
    <3>5. \A i \in 1 .. 1 + 5 : a[i] = IF i <= 1 THEN g[i] ELSE s[i - 1]
      BY <3>3, <3>4
    <3> QED BY <3>1, <3>2, <3>3, <3>4, <3>5
  <2>3. 1 + 5 = 6 /\ 2 - 1 = 1 /\ 3 - 1 = 2 /\ 4 - 1 = 3 /\ 5 - 1 = 4 /\ 6 - 1 = 5
        /\ moveSteps[1] = "isMoving" /\ moveSteps[2] = "mark" /\ moveSteps[3] = "spin"
        /\ moveSteps[4] = "schedule" /\ moveSteps[5] = "assign"
    BY DEF moveSteps
  <2>4. a[1] = "guess"
    BY <2>2
  <2>5. /\ a[2] = moveSteps[2 - 1] /\ a[3] = moveSteps[3 - 1] /\ a[4] = moveSteps[4 - 1]
        /\ a[5] = moveSteps[5 - 1] /\ a[6] = moveSteps[6 - 1]
    BY <2>2
  <2> QED BY <2>2, <2>3, <2>4, <2>5
<1>5. /\ j \in Seq(JobSteps) /\ Len(j) = 6 + m
      /\ \A i \in 1 .. 6 : j[i] = a[i]
      /\ \A i \in 7 .. 6 + m : j[i] \in OtherSteps /\ j[i] \notin MotorSteps
  <2>1. 6 \in Nat /\ 6 + 1 = 7
    OBVIOUS
  <2> QED BY <1>2, <1>3, <1>4, <2>1, Joined
<1>6. j[1] = "guess" /\ j[2] = "isMoving" /\ j[3] = "mark" /\ j[4] = "spin" /\ j[5] = "schedule"
      /\ j[6] = "assign"
  BY <1>4, <1>5
<1>7. Orderly(j)
  <2>1. ASSUME NEW i \in 1 .. Len(j)
        PROVE  /\ j[i] = "isMoving" => i < Len(j) /\ j[i + 1] = "mark"
               /\ j[i] = "mark"     => i < Len(j) /\ j[i + 1] = "spin"
               /\ j[i] = "spin"     => i < Len(j) /\ j[i + 1] = "schedule"
               /\ j[i] = "schedule" => i < Len(j) /\ j[i + 1] = "assign"
               /\ j[i] = "halt"     => i < Len(j) /\ j[i + 1] = "remove"
               /\ j[i] = "remove"   => i < Len(j) /\ j[i + 1] = "forget"
               /\ j[i] \in OtherSteps /\ i < Len(j) => j[i + 1] \notin Inner
               /\ j[i] \in {"assign", "forget"} => \A k \in i + 1 .. Len(j) : j[k] \notin MotorSteps
    <3>1. CASE i \in 7 .. 6 + m
      <4>1. j[i] \in OtherSteps /\ j[i] \notin MotorSteps
        BY <1>5, <3>1
      <4>2. i < Len(j) => i + 1 \in 7 .. 6 + m
        BY <1>5, <3>1
      <4>3. i < Len(j) => j[i + 1] \notin Inner
        BY <1>5, <4>2 DEF MotorSteps
      <4> QED BY <4>1, <4>3 DEF MotorSteps, Inner
    <3>2. CASE i \in 1 .. 6
      <4>1. i = 1 \/ i = 2 \/ i = 3 \/ i = 4 \/ i = 5 \/ i = 6
        BY <3>2
      <4> QED BY <1>5, <1>6, <4>1 DEF OtherSteps, Inner
    <3> QED BY <1>5, <3>1, <3>2
  <2> QED BY <1>5, <2>1 DEF Orderly
<1>8. j # <<>> /\ Head(j) = "guess"
  BY <1>5, <1>6
<1>9. Uses(j)
  <2>1. 2 \in 1 .. Len(j) /\ j[2] \in {"isMoving", "halt"}
    BY <1>5, <1>6
  <2> QED BY <2>1 DEF Uses
<1> QED BY <1>1, <1>2, <1>7, <1>8, <1>9

LEMMA StopJob ==
  ASSUME NEW p \in Seq(OtherSteps)
  PROVE  /\ Orderly(stopMove \o p) /\ stopMove \o p # <<>> /\ Head(stopMove \o p) = "halt"
         /\ Uses(stopMove \o p)
<1>1. PICK j : j = stopMove \o p
  OBVIOUS
<1>2. PICK m \in Nat : m = Len(p)
  OBVIOUS
<1>3. stopMove \in Seq(JobSteps) /\ Len(stopMove) = 3
  BY DEF stopMove, JobSteps, MotorSteps, Inner
<1>4. /\ j \in Seq(JobSteps) /\ Len(j) = 3 + m
      /\ \A i \in 1 .. 3 : j[i] = stopMove[i]
      /\ \A i \in 4 .. 3 + m : j[i] \in OtherSteps /\ j[i] \notin MotorSteps
  <2>1. 3 \in Nat /\ 3 + 1 = 4
    OBVIOUS
  <2> QED BY <1>1, <1>2, <1>3, <2>1, Joined
<1>5. j[1] = "halt" /\ j[2] = "remove" /\ j[3] = "forget"
  BY <1>4 DEF stopMove
<1>6. Orderly(j)
  <2>1. ASSUME NEW i \in 1 .. Len(j)
        PROVE  /\ j[i] = "isMoving" => i < Len(j) /\ j[i + 1] = "mark"
               /\ j[i] = "mark"     => i < Len(j) /\ j[i + 1] = "spin"
               /\ j[i] = "spin"     => i < Len(j) /\ j[i + 1] = "schedule"
               /\ j[i] = "schedule" => i < Len(j) /\ j[i + 1] = "assign"
               /\ j[i] = "halt"     => i < Len(j) /\ j[i + 1] = "remove"
               /\ j[i] = "remove"   => i < Len(j) /\ j[i + 1] = "forget"
               /\ j[i] \in OtherSteps /\ i < Len(j) => j[i + 1] \notin Inner
               /\ j[i] \in {"assign", "forget"} => \A k \in i + 1 .. Len(j) : j[k] \notin MotorSteps
    <3>1. CASE i \in 4 .. 3 + m
      <4>1. j[i] \in OtherSteps /\ j[i] \notin MotorSteps
        BY <1>4, <3>1
      <4>2. i < Len(j) => i + 1 \in 4 .. 3 + m
        BY <1>4, <3>1
      <4>3. i < Len(j) => j[i + 1] \notin Inner
        BY <1>4, <4>2 DEF MotorSteps
      <4> QED BY <4>1, <4>3 DEF MotorSteps, Inner
    <3>2. CASE i \in 1 .. 3
      <4>1. i = 1 \/ i = 2 \/ i = 3
        BY <3>2
      <4> QED BY <1>4, <1>5, <4>1 DEF OtherSteps
    <3> QED BY <1>4, <3>1, <3>2
  <2> QED BY <1>4, <2>1 DEF Orderly
<1>7. j # <<>> /\ Head(j) = "halt"
  BY <1>4, <1>5
<1>8. Uses(j)
  <2>1. 1 \in 1 .. Len(j) /\ j[1] \in {"isMoving", "halt"}
    BY <1>4, <1>5
  <2> QED BY <2>1 DEF Uses
<1> QED BY <1>1, <1>6, <1>7, <1>8

\* A job without motor functions
LEMMA PlainJob ==
  ASSUME NEW p \in Seq(OtherSteps)
  PROVE  Orderly(p) /\ ~Motors(p) /\ (p # <<>> => Head(p) \notin Inner)
<1>1. \A i \in 1 .. Len(p) : p[i] \in OtherSteps /\ p[i] \in JobSteps /\ p[i] \notin MotorSteps /\ p[i] \notin Inner
  BY DEF JobSteps, OtherSteps, MotorSteps, Inner
<1>2. Len(p) \in Nat /\ p \in Seq(JobSteps)
  <2>1. p = [i \in 1 .. Len(p) |-> p[i]] /\ Len(p) \in Nat
    OBVIOUS
  <2> QED BY <1>1, <2>1
<1>3. \A i \in 1 .. Len(p) : i < Len(p) => i + 1 \in 1 .. Len(p)
  BY <1>2
<1>4. Orderly(p)
  BY <1>1, <1>2, <1>3 DEF Orderly, OtherSteps
<1>5. p # <<>> => Head(p) \notin Inner
  <2>1. p # <<>> => 1 \in 1 .. Len(p) /\ Head(p) = p[1]
    BY <1>2
  <2> QED BY <1>1, <2>1
<1> QED BY <1>1, <1>4, <1>5 DEF Motors

----------------------------------------------------------------------------
\* Contexts
LEMMA JobGiven ==
  ASSUME NEW todo, AllOrderly(todo), NEW c \in MotionContexts, NEW k, Orderly(k)
  PROVE  /\ AllOrderly([todo EXCEPT ![c] = k]) /\ [todo EXCEPT ![c] = k][c] = k
         /\ \A d \in MotionContexts : d # c => [todo EXCEPT ![c] = k][d] = todo[d]
<1>1. k \in Seq(JobSteps)
  BY DEF Orderly
<1>2. PICK w : w = [todo EXCEPT ![c] = k]
  OBVIOUS
<1>3. /\ w \in [MotionContexts -> Seq(JobSteps)] /\ w[c] = k
      /\ \A d \in MotionContexts : d # c => w[d] = todo[d]
  BY <1>1, <1>2 DEF AllOrderly
<1>4. AllOrderly(w)
  BY <1>3 DEF AllOrderly
<1> QED BY <1>2, <1>3, <1>4

\* A context at a motor function keeps the others out of theirs.
LEMMA AtMotorStep ==
  ASSUME NEW todo, AllOrderly(todo), NEW c \in MotionContexts, NEW s \in MotorSteps, AtStep(todo, c, s)
  PROVE  Motors(todo[c])
BY TailIsOrderly DEF AtStep, AllOrderly

LEMMA StagedAt ==
  ASSUME NEW todo, AllOrderly(todo), Apart(todo), NEW c \in MotionContexts, NEW s \in Inner,
         AtStep(todo, c, s), NEW on, NEW runs, NEW cur, NEW stops, NEW own,
         Stage(s, on, runs, cur, stops, own[c])
  PROVE  Staged(todo, on, runs, cur, stops, own)
<1>1. Motors(todo[c])
  BY AtMotorStep DEF MotorSteps
<1>2. ASSUME NEW d \in MotionContexts, NEW t \in Inner, AtStep(todo, d, t)
      PROVE  d = c /\ t = s
  <2>1. Motors(todo[d])
    BY <1>2, AtMotorStep DEF MotorSteps
  <2>2. d = c
    BY <1>1, <2>1 DEF Apart
  <2> QED BY <1>2, <2>2 DEF AtStep
<1>3. Midst(todo)
  BY DEF Midst
<1> HIDE DEF Inner
<1> QED BY <1>2, <1>3 DEF Staged

LEMMA StagedOff ==
  ASSUME NEW todo, Apart(todo), ~Midst(todo), NEW on, NEW runs, NEW cur, NEW stops, NEW own,
         Timed(on, runs, cur, stops)
  PROVE  Staged(todo, on, runs, cur, stops, own)
BY DEF Staged, Midst

\* Before a motor function, none is being run.
LEMMA NotInMidst ==
  ASSUME NEW todo, AllOrderly(todo), Apart(todo), NEW c \in MotionContexts, Motors(todo[c]),
         Head(todo[c]) \notin Inner
  PROVE  ~Midst(todo)
<1> SUFFICES ASSUME NEW d \in MotionContexts, NEW t \in Inner, AtStep(todo, d, t)
             PROVE  FALSE
  BY DEF Midst
<1>1. Motors(todo[d])
  BY AtMotorStep DEF MotorSteps
<1>2. d = c
  BY <1>1 DEF Apart
<1> QED BY <1>2 DEF AtStep

LEMMA StaysApart ==
  ASSUME NEW todo, AllOrderly(todo), Apart(todo), NEW c \in MotionContexts, NEW k, Orderly(k),
         Motors(k) => Motors(todo[c])
  PROVE  Apart([todo EXCEPT ![c] = k])
<1>1. PICK w : w = [todo EXCEPT ![c] = k]
  OBVIOUS
<1>2. w[c] = k /\ \A d \in MotionContexts : d # c => w[d] = todo[d]
  BY <1>1, JobGiven
<1>3. Apart(w)
  BY <1>2 DEF Apart
<1> QED BY <1>1, <1>3

\* A step that is not one of a motor function, and leads to none's midst
LEMMA OtherStep ==
  ASSUME NEW todo, AllOrderly(todo), NEW c \in MotionContexts, NEW k, Orderly(k),
         Motors(k) => Motors(todo[c]), k # <<>> => Head(k) \notin Inner,
         todo[c] # <<>> => Head(todo[c]) \notin Inner,
         NEW on, NEW runs, NEW cur, NEW stops, NEW own, Staged(todo, on, runs, cur, stops, own)
  PROVE  Staged([todo EXCEPT ![c] = k], on, runs, cur, stops, own)
<1>1. PICK w : w = [todo EXCEPT ![c] = k]
  OBVIOUS
<1>2. w[c] = k /\ \A d \in MotionContexts : d # c => w[d] = todo[d]
  BY <1>1, JobGiven
<1>3. Apart(w)
  BY <1>1, StaysApart DEF Staged
<1>4. \A d \in MotionContexts : \A s \in Inner : AtStep(w, d, s) <=> AtStep(todo, d, s)
  BY <1>2 DEF AtStep
<1>5. Midst(w) <=> Midst(todo)
  BY <1>4 DEF Midst
<1>6. Staged(w, on, runs, cur, stops, own)
  BY <1>3, <1>4, <1>5 DEF Staged
<1> QED BY <1>1, <1>6

\* A step of a motor function that is not its last one
LEMMA StepInMotor ==
  ASSUME NEW todo, AllOrderly(todo), NEW c \in MotionContexts, todo[c] # <<>>,
         Head(todo[c]) \in MotorSteps, Tail(todo[c]) # <<>>, Head(Tail(todo[c])) \in Inner,
         Apart(todo), NEW on, NEW runs, NEW cur, NEW stops, NEW own,
         Stage(Head(Tail(todo[c])), on, runs, cur, stops, own[c])
  PROVE  Staged([todo EXCEPT ![c] = Tail(todo[c])], on, runs, cur, stops, own)
<1>1. PICK k : k = Tail(todo[c])
  OBVIOUS
<1>2. Orderly(k) /\ (Motors(k) => Motors(todo[c]))
  BY <1>1, TailIsOrderly DEF AllOrderly
<1>3. PICK w : w = [todo EXCEPT ![c] = k]
  OBVIOUS
<1>4. AllOrderly(w) /\ w[c] = k
  <2>1. AllOrderly([todo EXCEPT ![c] = k]) /\ [todo EXCEPT ![c] = k][c] = k
    BY <1>2, JobGiven
  <2> QED BY <1>3, <2>1
<1>5. Apart(w)
  BY <1>2, <1>3, StaysApart
<1>6. PICK s \in Inner : s = Head(k)
  BY <1>1
<1>7. AtStep(w, c, s)
  BY <1>1, <1>4, <1>6 DEF AtStep
<1>8. Stage(s, on, runs, cur, stops, own[c])
  BY <1>1, <1>6
<1> HIDE DEF Inner
<1>9. Staged(w, on, runs, cur, stops, own)
  BY <1>4, <1>5, <1>7, <1>8, StagedAt
<1> QED BY <1>1, <1>3, <1>9

\* The last step of one, or one that leaves it out
LEMMA StepOutOfMotor ==
  ASSUME NEW todo, AllOrderly(todo), NEW c \in MotionContexts, NEW k, Orderly(k), ~Motors(k),
         Motors(todo[c]), Apart(todo), NEW on, NEW runs, NEW cur, NEW stops, NEW own,
         Timed(on, runs, cur, stops)
  PROVE  Staged([todo EXCEPT ![c] = k], on, runs, cur, stops, own)
<1>1. PICK w : w = [todo EXCEPT ![c] = k]
  OBVIOUS
<1>2. AllOrderly(w) /\ w[c] = k /\ \A d \in MotionContexts : d # c => w[d] = todo[d]
  <2>1. /\ AllOrderly([todo EXCEPT ![c] = k]) /\ [todo EXCEPT ![c] = k][c] = k
        /\ \A d \in MotionContexts : d # c => [todo EXCEPT ![c] = k][d] = todo[d]
    BY JobGiven
  <2> QED BY <1>1, <2>1
<1>3. \A d \in MotionContexts : ~Motors(w[d])
  BY <1>2 DEF Apart
<1>4. Apart(w)
  BY <1>3 DEF Apart
<1>5. ~Midst(w)
  <2> SUFFICES ASSUME NEW d \in MotionContexts, NEW t \in Inner, AtStep(w, d, t)
               PROVE  FALSE
    BY DEF Midst
  <2>1. Motors(w[d])
    BY <1>2, AtMotorStep DEF MotorSteps
  <2> QED BY <1>3, <2>1
<1>6. Staged(w, on, runs, cur, stops, own)
  BY <1>4, <1>5, StagedOff
<1> QED BY <1>1, <1>6

\* A job that is given while no other context has one
LEMMA LoneJob ==
  ASSUME NEW todo, AllOrderly(todo), \A d \in MotionContexts : todo[d] = <<>>,
         NEW c \in MotionContexts, NEW k, Orderly(k), k # <<>>,
         NEW on, NEW runs, NEW cur, NEW stops, NEW own,
         IF Head(k) \in Inner THEN Stage(Head(k), on, runs, cur, stops, own[c])
         ELSE Timed(on, runs, cur, stops)
  PROVE  Staged([todo EXCEPT ![c] = k], on, runs, cur, stops, own)
<1>1. PICK w : w = [todo EXCEPT ![c] = k]
  OBVIOUS
<1>2. AllOrderly(w) /\ w[c] = k /\ \A d \in MotionContexts : d # c => w[d] = <<>>
  <2>1. /\ AllOrderly([todo EXCEPT ![c] = k]) /\ [todo EXCEPT ![c] = k][c] = k
        /\ \A d \in MotionContexts : d # c => [todo EXCEPT ![c] = k][d] = todo[d]
    BY JobGiven
  <2> QED BY <1>1, <2>1
<1>3. ~Motors(<<>>)
  BY DEF Motors
<1>4. Apart(w)
  BY <1>2, <1>3 DEF Apart
<1>5. CASE Head(k) \in Inner
  <2>1. PICK s \in Inner : s = Head(k)
    BY <1>5
  <2>2. AtStep(w, c, s) /\ Stage(s, on, runs, cur, stops, own[c])
    BY <1>2, <1>5, <2>1 DEF AtStep
  <2> HIDE DEF Inner
  <2>3. Staged(w, on, runs, cur, stops, own)
    BY <1>2, <1>4, <2>2, StagedAt
  <2> QED BY <1>1, <2>3
<1>6. CASE Head(k) \notin Inner
  <2>1. ~Midst(w)
    BY <1>2, <1>6 DEF Midst, AtStep
  <2>2. Staged(w, on, runs, cur, stops, own)
    BY <1>4, <1>6, <2>1, StagedOff
  <2> QED BY <1>1, <2>2
<1> QED BY <1>5, <1>6

----------------------------------------------------------------------------
\* The scheduled tasks
LEMMA StopsScheduled ==
  ASSUME NEW h \in Free
  PROVE  /\ Stops(Scheduled(h, "stopMove")) = Stops(tasks) \cup {h}
         /\ \A f \in {"lowStop", "checkLegs"} : Stops(Scheduled(h, f)) = Stops(tasks)
<1>1. h \notin DOMAIN tasks
  BY DEF Free
<1>2. ASSUME NEW f
      PROVE  /\ DOMAIN Scheduled(h, f) = DOMAIN tasks \cup {h} /\ Scheduled(h, f)[h] = f
             /\ \A g \in DOMAIN tasks : Scheduled(h, f)[g] = tasks[g]
  BY <1>1 DEF Scheduled
<1>3. Stops(Scheduled(h, "stopMove")) = Stops(tasks) \cup {h}
  BY <1>2 DEF Stops
<1>4. ASSUME NEW f \in {"lowStop", "checkLegs"}
      PROVE  Stops(Scheduled(h, f)) = Stops(tasks)
  BY <1>1, <1>2 DEF Stops
<1> QED BY <1>3, <1>4

LEMMA StopsUnscheduled ==
  ASSUME NEW h
  PROVE  Stops(Unscheduled(h)) = Stops(tasks) \ {h}
BY DEF Stops, Unscheduled

LEMMA LowestIsFree ==
  ASSUME Free # {}, NEW h \in Lowest
  PROVE  h \in Free
BY DEF Lowest

----------------------------------------------------------------------------
\* Jobs that contexts are given
LEMMA StartOther ==
  ASSUME MotionInv, NEW c \in MotionContexts, NEW p \in Seq(OtherSteps), Starts(c, p),
         UNCHANGED motors, Stops(tasks') = Stops(tasks)
  PROVE  MotionInv'
<1>1. /\ AllOrderly(jobs) /\ DOMAIN handle = MotionContexts /\ crossed \in BOOLEAN
      /\ ~crossed => Staged(jobs, moving, spinning, current, Stops(tasks), handle)
  BY DEF MotionInv
<1>2. moving' = moving /\ spinning' = spinning /\ current' = current /\ handle' = handle
  BY DEF motors
<1>3. jobs[c] = <<>> /\ jobs' = [jobs EXCEPT ![c] = p] /\ crossed' \in BOOLEAN /\ (~crossed' => ~crossed)
  BY <1>1 DEF Starts
<1>4. Orderly(p) /\ ~Motors(p) /\ (p # <<>> => Head(p) \notin Inner)
  BY PlainJob
<1>5. AllOrderly([jobs EXCEPT ![c] = p])
  BY <1>1, <1>4, JobGiven
<1>6. ASSUME ~crossed'
      PROVE  Staged([jobs EXCEPT ![c] = p], moving, spinning, current, Stops(tasks), handle)
  <2>1. Staged(jobs, moving, spinning, current, Stops(tasks), handle)
    BY <1>1, <1>3, <1>6
  <2> HIDE DEF Inner
  <2> QED BY <1>1, <1>3, <1>4, <2>1, OtherStep
<1> QED BY <1>1, <1>2, <1>3, <1>5, <1>6 DEF MotionInv

LEMMA StartMotor ==
  ASSUME MotionInv, NEW c \in MotionContexts, NEW k, Orderly(k), k # <<>>, Uses(k), Starts(c, k),
         UNCHANGED motors,
         IF Head(k) = "halt" THEN Stops(tasks') \subseteq Stops(tasks)
         ELSE Head(k) \notin Inner /\ Stops(tasks') = Stops(tasks)
  PROVE  MotionInv'
<1>1. /\ AllOrderly(jobs) /\ DOMAIN handle = MotionContexts /\ crossed \in BOOLEAN
      /\ ~crossed => Staged(jobs, moving, spinning, current, Stops(tasks), handle)
  BY DEF MotionInv
<1>2. moving' = moving /\ spinning' = spinning /\ current' = current /\ handle' = handle
  BY DEF motors
<1>3. jobs[c] = <<>> /\ jobs' = [jobs EXCEPT ![c] = k] /\ crossed' = (crossed \/ (Uses(k) /\ Busily))
  BY DEF Starts
<1>4. crossed' \in BOOLEAN /\ (~crossed' => ~crossed /\ ~Busily)
  BY <1>1, <1>3
<1>5. AllOrderly([jobs EXCEPT ![c] = k])
  BY <1>1, JobGiven
<1>6. ASSUME ~crossed'
      PROVE  Staged([jobs EXCEPT ![c] = k], moving, spinning, current, Stops(tasks'), handle)
  <2>1. Staged(jobs, moving, spinning, current, Stops(tasks), handle)
    BY <1>1, <1>4, <1>6
  <2>2. \A d \in MotionContexts : jobs[d] = <<>>
    BY <1>4, <1>6 DEF Busily
  <2>3. Timed(moving, spinning, current, Stops(tasks))
    BY <2>1, <2>2 DEF Staged, Midst, AtStep
  <2>4. PICK stops : stops = Stops(tasks')
    OBVIOUS
  <2>5. IF Head(k) \in Inner THEN Stage(Head(k), moving, spinning, current, stops, handle[c])
        ELSE Timed(moving, spinning, current, stops)
    <3>1. CASE Head(k) = "halt"
      BY <2>3, <2>4, <3>1 DEF Stage, Timed, Inner
    <3>2. CASE Head(k) # "halt"
      BY <2>3, <2>4, <3>2
    <3> QED BY <3>1, <3>2
  <2> HIDE DEF Inner
  <2>6. Staged([jobs EXCEPT ![c] = k], moving, spinning, current, stops, handle)
    BY <1>1, <2>2, <2>5, LoneJob
  <2> QED BY <2>4, <2>6
<1> QED BY <1>1, <1>2, <1>3, <1>4, <1>5, <1>6 DEF MotionInv

\* A sequence of steps is one of those that are no motor function's.
LEMMA OtherJobs ==
  /\ <<>> \in Seq(OtherSteps) /\ <<"restart", "lowStop">> \in Seq(OtherSteps)
  /\ <<"restart", "fixed">> \in Seq(OtherSteps) /\ <<"again">> \in Seq(OtherSteps)
  /\ <<"lowStop", "count">> \in Seq(OtherSteps) /\ <<"write">> \in Seq(OtherSteps)
  /\ <<"restore", "lowStop", "count">> \in Seq(OtherSteps) /\ <<"fixed">> \in Seq(OtherSteps)
  /\ <<"fixed", "lowStop", "count">> \in Seq(OtherSteps)
BY DEF OtherSteps

\* The functions as they are called alone
LEMMA MotorFunctions ==
  /\ Orderly(moveSteps) /\ moveSteps # <<>> /\ Head(moveSteps) = "isMoving" /\ Uses(moveSteps)
  /\ Orderly(stopMove) /\ stopMove # <<>> /\ Head(stopMove) = "halt" /\ Uses(stopMove)
<1>1. moveSteps \in Seq(JobSteps) /\ stopMove \in Seq(JobSteps)
  BY DEF moveSteps, stopMove, JobSteps, MotorSteps, Inner
<1>2. moveSteps \o <<>> = moveSteps /\ stopMove \o <<>> = stopMove
  BY <1>1, ConcatEmptySeq
<1>3. <<>> \in Seq(OtherSteps)
  BY OtherJobs
<1>4. /\ Orderly(moveSteps \o <<>>) /\ moveSteps \o <<>> # <<>> /\ Head(moveSteps \o <<>>) = "isMoving"
      /\ Uses(moveSteps \o <<>>)
  BY <1>3, MoveJob
<1>5. /\ Orderly(stopMove \o <<>>) /\ stopMove \o <<>> # <<>> /\ Head(stopMove \o <<>>) = "halt"
      /\ Uses(stopMove \o <<>>)
  BY <1>3, StopJob
<1> QED BY <1>2, <1>4, <1>5

LEMMA CallKeeps ==
  ASSUME MotionInv, NEW c \in MotionContexts, Call(c)
  PROVE  MotionInv'
<1>1. UNCHANGED motors /\ tasks' = tasks
  BY DEF Call
<1>2. Starts(c, moveSteps) \/ Starts(c, stopMove) \/ Starts(c, <<"write">>)
  BY DEF Call
<1>3. CASE Starts(c, moveSteps)
  <2>1. Head(moveSteps) # "halt" /\ Head(moveSteps) \notin Inner
    BY MotorFunctions DEF Inner
  <2> HIDE DEF Inner
  <2> QED BY <1>1, <1>3, <2>1, MotorFunctions, StartMotor
<1>4. CASE Starts(c, stopMove)
  BY <1>1, <1>4, MotorFunctions, StartMotor
<1>5. CASE Starts(c, <<"write">>)
  BY <1>1, <1>5, OtherJobs, StartOther
<1> QED BY <1>2, <1>3, <1>4, <1>5

LEMMA EdgesKeep ==
  ASSUME MotionInv, FallingEdge \/ RisingEdge
  PROVE  MotionInv'
<1>1. UNCHANGED motors /\ tasks' = tasks /\ "isr" \in MotionContexts
  BY DEF FallingEdge, RisingEdge, MotionContexts, MotionRank
<1>2. CASE FallingEdge
  <2>1. PICK k : k = moveSteps \o <<"restart", "lowStop">>
    OBVIOUS
  <2>2. Orderly(k) /\ k # <<>> /\ Head(k) = "isMoving" /\ Uses(k) /\ Starts("isr", k)
    BY <1>2, <2>1, OtherJobs, MoveJob DEF FallingEdge
  <2>3. Head(k) # "halt" /\ Head(k) \notin Inner
    BY <2>2 DEF Inner
  <2> HIDE DEF Inner
  <2> QED BY <1>1, <2>2, <2>3, StartMotor
<1>3. CASE RisingEdge
  <2>1. PICK k : k = stopMove \o <<"restart", "fixed">>
    OBVIOUS
  <2>2. Orderly(k) /\ k # <<>> /\ Head(k) = "halt" /\ Uses(k) /\ Starts("isr", k)
    BY <1>3, <2>1, OtherJobs, StopJob DEF RisingEdge
  <2> QED BY <1>1, <2>2, StartMotor
<1> QED BY <1>2, <1>3

LEMMA RunTaskKeeps ==
  ASSUME MotionInv, RunTask
  PROVE  MotionInv'
<1>1. UNCHANGED motors /\ "task" \in MotionContexts
  BY DEF RunTask, MotionContexts, MotionRank
<1>2. PICK h \in DOMAIN tasks :
        /\ \/ tasks[h] = "stopMove" /\ Starts("task", stopMove)
           \/ tasks[h] = "lowStop" /\ Starts("task", stopMove \o <<"again">>)
           \/ tasks[h] = "checkLegs" /\ \E job \in checkLegsTask : Starts("task", job)
        /\ tasks' = Unscheduled(h)
  BY DEF RunTask
<1>3. Stops(tasks') = Stops(tasks) \ {h}
  BY <1>2, StopsUnscheduled
<1>4. CASE tasks[h] = "stopMove" /\ Starts("task", stopMove)
  BY <1>1, <1>3, <1>4, MotorFunctions, StartMotor
<1>5. CASE tasks[h] = "lowStop" /\ Starts("task", stopMove \o <<"again">>)
  <2>1. PICK k : k = stopMove \o <<"again">>
    OBVIOUS
  <2>2. Orderly(k) /\ k # <<>> /\ Head(k) = "halt" /\ Uses(k) /\ Starts("task", k)
    BY <1>5, <2>1, OtherJobs, StopJob
  <2> QED BY <1>1, <1>3, <2>2, StartMotor
<1>6. CASE tasks[h] = "checkLegs" /\ \E job \in checkLegsTask : Starts("task", job)
  <2>1. Stops(tasks') = Stops(tasks)
    BY <1>3, <1>6 DEF Stops
  <2>2. PICK job \in checkLegsTask : Starts("task", job)
    BY <1>6
  <2>3. \/ job \in {<<>>, <<"fixed">>, <<"fixed", "lowStop", "count">>}
        \/ job = moveSteps \o <<"lowStop", "count">>
        \/ job = <<"guess">> \o moveSteps \o <<"restore", "lowStop", "count">>
    BY <2>2 DEF checkLegsTask
  <2>4. CASE job \in {<<>>, <<"fixed">>, <<"fixed", "lowStop", "count">>}
    <3>1. job \in Seq(OtherSteps)
      BY <2>4, OtherJobs
    <3> QED BY <1>1, <2>1, <2>2, <3>1, StartOther
  <2>5. CASE job = moveSteps \o <<"lowStop", "count">>
    <3>1. Orderly(job) /\ job # <<>> /\ Head(job) = "isMoving" /\ Uses(job)
      BY <2>5, OtherJobs, MoveJob
    <3>2. Head(job) # "halt" /\ Head(job) \notin Inner
      BY <3>1 DEF Inner
    <3> HIDE DEF Inner
    <3> QED BY <1>1, <2>1, <2>2, <3>1, <3>2, StartMotor
  <2>6. CASE job = <<"guess">> \o moveSteps \o <<"restore", "lowStop", "count">>
    <3>1. Orderly(job) /\ job # <<>> /\ Head(job) = "guess" /\ Uses(job)
      BY <2>6, OtherJobs, GuessJob
    <3>2. Head(job) # "halt" /\ Head(job) \notin Inner
      BY <3>1 DEF Inner
    <3> HIDE DEF Inner
    <3> QED BY <1>1, <2>1, <2>2, <3>1, <3>2, StartMotor
  <2> QED BY <2>3, <2>4, <2>5, <2>6
<1> QED BY <1>2, <1>4, <1>5, <1>6

----------------------------------------------------------------------------
\* The steps of a context
LEMMA OtherStepKeeps ==
  ASSUME MotionInv, NEW c \in MotionContexts, NEW s \in OtherSteps, At(c, s), On(c),
         UNCHANGED motors, Stops(tasks') = Stops(tasks), crossed' \in BOOLEAN, ~crossed' => ~crossed
  PROVE  MotionInv'
<1>1. /\ AllOrderly(jobs) /\ DOMAIN handle = MotionContexts
      /\ ~crossed => Staged(jobs, moving, spinning, current, Stops(tasks), handle)
  BY DEF MotionInv
<1>2. moving' = moving /\ spinning' = spinning /\ current' = current /\ handle' = handle
  BY DEF motors
<1>3. jobs[c] # <<>> /\ Head(jobs[c]) = s /\ Orderly(jobs[c])
  BY <1>1 DEF At, AllOrderly
<1>4. PICK k : k = Tail(jobs[c])
  OBVIOUS
<1>5. jobs' = [jobs EXCEPT ![c] = k]
  BY <1>4 DEF On, Goes
<1>6. Orderly(k) /\ (Motors(k) => Motors(jobs[c]))
  BY <1>3, <1>4, TailIsOrderly
<1>7. (k # <<>> => Head(k) \notin Inner) /\ Head(jobs[c]) \notin Inner
  <2>1. Head(jobs[c]) \in OtherSteps
    BY <1>3
  <2>2. k # <<>> => Head(k) \notin Inner
    <3> HIDE DEF OtherSteps, Inner
    <3> QED BY <1>3, <1>4, <2>1, NextStepIs
  <2>3. s \notin Inner
    BY DEF OtherSteps, Inner
  <2> QED BY <1>3, <2>2, <2>3
<1>8. AllOrderly([jobs EXCEPT ![c] = k])
  BY <1>1, <1>6, JobGiven
<1>9. ASSUME ~crossed'
      PROVE  Staged([jobs EXCEPT ![c] = k], moving, spinning, current, Stops(tasks), handle)
  <2>1. Staged(jobs, moving, spinning, current, Stops(tasks), handle)
    BY <1>1, <1>9
  <2> HIDE DEF Inner
  <2> QED BY <1>1, <1>6, <1>7, <2>1, OtherStep
<1> QED BY <1>1, <1>2, <1>5, <1>8, <1>9 DEF MotionInv

\* A step of a motor function leaves the context in its midst or out of it.
LEMMA MotorStepKeeps ==
  ASSUME MotionInv, NEW c \in MotionContexts, NEW s \in MotorSteps, At(c, s),
         NEW k, Orderly(k), Goes(c, k), DOMAIN handle' = MotionContexts, crossed' \in BOOLEAN,
         ~crossed' => /\ ~crossed
                      /\ \/ /\ k = Tail(jobs[c]) /\ k # <<>> /\ Head(k) \in Inner
                            /\ Stage(Head(k), moving', spinning', current', Stops(tasks'), handle'[c])
                         \/ ~Motors(k) /\ Timed(moving', spinning', current', Stops(tasks'))
  PROVE  MotionInv'
<1>1. /\ AllOrderly(jobs)
      /\ ~crossed => Staged(jobs, moving, spinning, current, Stops(tasks), handle)
  BY DEF MotionInv
<1>2. jobs[c] # <<>> /\ Head(jobs[c]) = s /\ AtStep(jobs, c, s)
  BY DEF At, AtStep
<1>3. Motors(jobs[c])
  BY <1>1, <1>2, AtMotorStep
<1>4. jobs' = [jobs EXCEPT ![c] = k]
  BY DEF Goes
<1>5. AllOrderly([jobs EXCEPT ![c] = k])
  BY <1>1, JobGiven
<1>6. PICK on, runs, cur, stops, own :
        /\ on = moving' /\ runs = spinning' /\ cur = current' /\ stops = Stops(tasks') /\ own = handle'
  OBVIOUS
<1>7. ASSUME ~crossed'
      PROVE  Staged([jobs EXCEPT ![c] = k], on, runs, cur, stops, own)
  <2>1. Apart(jobs)
    BY <1>1, <1>7 DEF Staged
  <2>2. \/ /\ k = Tail(jobs[c]) /\ k # <<>> /\ Head(k) \in Inner
           /\ Stage(Head(k), on, runs, cur, stops, own[c])
        \/ ~Motors(k) /\ Timed(on, runs, cur, stops)
    BY <1>6, <1>7
  <2>3. CASE /\ k = Tail(jobs[c]) /\ k # <<>> /\ Head(k) \in Inner
             /\ Stage(Head(k), on, runs, cur, stops, own[c])
    <3> HIDE DEF Inner, MotorSteps
    <3>1. /\ Tail(jobs[c]) # <<>> /\ Head(Tail(jobs[c])) \in Inner /\ Head(jobs[c]) \in MotorSteps
          /\ Stage(Head(Tail(jobs[c])), on, runs, cur, stops, own[c])
      BY <1>2, <2>3
    <3>2. Staged([jobs EXCEPT ![c] = Tail(jobs[c])], on, runs, cur, stops, own)
      BY <1>1, <1>2, <2>1, <3>1, StepInMotor
    <3> QED BY <2>3, <3>2
  <2>4. CASE ~Motors(k) /\ Timed(on, runs, cur, stops)
    BY <1>1, <1>3, <2>1, <2>4, StepOutOfMotor
  <2> QED BY <2>2, <2>3, <2>4
<1> QED BY <1>1, <1>4, <1>5, <1>6, <1>7 DEF MotionInv

\* What a context at a step of a motor function may rely on
LEMMA AtItsStage ==
  ASSUME MotionInv, NEW c \in MotionContexts, NEW s, At(c, s)
  PROVE  /\ crossed \in BOOLEAN /\ DOMAIN handle = MotionContexts
         /\ Orderly(jobs[c]) /\ jobs[c] # <<>> /\ Head(jobs[c]) = s /\ Orderly(Tail(jobs[c]))
         /\ s \in Inner /\ ~crossed =>
              Stage(s, moving, spinning, current, Stops(tasks), handle[c])
         /\ s = "isMoving" /\ ~crossed => Timed(moving, spinning, current, Stops(tasks))
<1>1. /\ AllOrderly(jobs) /\ DOMAIN handle = MotionContexts /\ crossed \in BOOLEAN
      /\ ~crossed => Staged(jobs, moving, spinning, current, Stops(tasks), handle)
  BY DEF MotionInv
<1>2. jobs[c] # <<>> /\ Head(jobs[c]) = s /\ Orderly(jobs[c]) /\ AtStep(jobs, c, s)
  BY <1>1 DEF At, AllOrderly, AtStep
<1>3. Orderly(Tail(jobs[c]))
  BY <1>2, TailIsOrderly
<1>4. ASSUME s = "isMoving", ~crossed
      PROVE  Timed(moving, spinning, current, Stops(tasks))
  <2>1. Staged(jobs, moving, spinning, current, Stops(tasks), handle)
    BY <1>1, <1>4
  <2>2. s \in MotorSteps /\ s \notin Inner
    BY <1>4 DEF MotorSteps, Inner
  <2> HIDE DEF MotorSteps, Inner
  <2>3. Motors(jobs[c])
    BY <1>1, <1>2, <2>2, AtMotorStep
  <2>4. Apart(jobs)
    BY <2>1 DEF Staged
  <2>5. ~Midst(jobs)
    BY <1>1, <1>2, <2>2, <2>3, <2>4, NotInMidst
  <2> QED BY <2>1, <2>5 DEF Staged
<1> HIDE DEF Inner
<1>5. s \in Inner /\ ~crossed => Stage(s, moving, spinning, current, Stops(tasks), handle[c])
  BY <1>1, <1>2 DEF Staged
<1> QED BY <1>1, <1>2, <1>3, <1>4, <1>5

LEMMA IsMovingKeeps ==
  ASSUME MotionInv, NEW c \in MotionContexts, IsMoving(c)
  PROVE  MotionInv'
<1>1. /\ moving' = moving /\ spinning' = spinning /\ current' = current /\ handle' = handle
      /\ tasks' = tasks /\ crossed' = crossed /\ At(c, "isMoving")
  BY DEF IsMoving, motors
<1>2. /\ crossed \in BOOLEAN /\ DOMAIN handle = MotionContexts
      /\ Orderly(jobs[c]) /\ jobs[c] # <<>> /\ Head(jobs[c]) = "isMoving" /\ Orderly(Tail(jobs[c]))
      /\ ~crossed => Timed(moving, spinning, current, Stops(tasks))
  BY <1>1, AtItsStage
<1>3. "isMoving" \in MotorSteps
  BY DEF MotorSteps
<1>4. CASE moving
  <2>1. PICK k : k = SubSeq(jobs[c], Len(moveSteps) + 1, Len(jobs[c]))
    OBVIOUS
  <2>2. Orderly(k) /\ ~Motors(k)
    BY <1>2, <2>1, SkippedIsOrderly
  <2>3. Goes(c, k)
    BY <1>4, <2>1 DEF IsMoving
  <2> QED BY <1>1, <1>2, <1>3, <2>2, <2>3, MotorStepKeeps
<1>5. CASE ~moving
  <2>1. PICK k : k = Tail(jobs[c])
    OBVIOUS
  <2>2. Orderly(k) /\ k # <<>> /\ Head(k) = "mark"
    BY <1>2, <2>1, NextStepIs
  <2>3. Goes(c, k)
    BY <1>5, <2>1 DEF IsMoving, On
  <2>4. Head(k) \in Inner
    BY <2>2 DEF Inner
  <2>5. ~crossed => Stage("mark", moving, spinning, current, Stops(tasks), handle[c])
    BY <1>2, <1>5 DEF Stage, Timed
  <2>6. ~crossed' => Stage(Head(k), moving', spinning', current', Stops(tasks'), handle'[c])
    BY <1>1, <2>2, <2>5
  <2> HIDE DEF Inner
  <2> QED BY <1>1, <1>2, <1>3, <2>1, <2>2, <2>3, <2>4, <2>6, MotorStepKeeps
<1> QED BY <1>4, <1>5

\* A step of a motor function that another one follows
LEMMA InnerStepKeeps ==
  ASSUME MotionInv, NEW c \in MotionContexts, NEW s \in Inner, NEW t \in Inner, At(c, s), On(c),
         Tail(jobs[c]) # <<>>, Head(Tail(jobs[c])) = t,
         DOMAIN handle' = MotionContexts, crossed' \in BOOLEAN, ~crossed' => ~crossed,
         ~crossed' => Stage(t, moving', spinning', current', Stops(tasks'), handle'[c])
  PROVE  MotionInv'
<1>1. PICK k : k = Tail(jobs[c])
  OBVIOUS
<1>2. Orderly(k) /\ k # <<>> /\ Head(k) = t /\ Goes(c, k)
  BY <1>1, AtItsStage DEF On
<1>3. s \in MotorSteps
  BY DEF MotorSteps
<1>4. Head(k) \in Inner /\
      (~crossed' => Stage(Head(k), moving', spinning', current', Stops(tasks'), handle'[c]))
  BY <1>2
<1> HIDE DEF Inner, MotorSteps
<1> QED BY <1>1, <1>2, <1>3, <1>4, MotorStepKeeps

LEMMA MotorStepsKeep ==
  ASSUME MotionInv, NEW c \in MotionContexts,
         Mark(c) \/ Spin(c) \/ Schedule(c) \/ Assign(c) \/ Halt(c) \/ Remove(c) \/ Forget(c)
  PROVE  MotionInv'
<1>1. /\ "mark" \in Inner /\ "spin" \in Inner /\ "schedule" \in Inner /\ "assign" \in Inner
      /\ "halt" \in Inner /\ "remove" \in Inner /\ "forget" \in Inner
      /\ "assign" \in MotorSteps /\ "forget" \in MotorSteps
  BY DEF Inner, MotorSteps
<1>2. crossed \in BOOLEAN /\ DOMAIN handle = MotionContexts
  BY DEF MotionInv
<1> HIDE DEF Inner, MotorSteps
<1>3. CASE Mark(c)
  <2>1. /\ At(c, "mark") /\ On(c) /\ moving' = TRUE /\ spinning' = spinning /\ current' = current
        /\ handle' = handle /\ tasks' = tasks /\ crossed' = crossed
    BY <1>3 DEF Mark
  <2>2. /\ Tail(jobs[c]) # <<>> /\ Head(Tail(jobs[c])) = "spin"
        /\ ~crossed => Stage("mark", moving, spinning, current, Stops(tasks), handle[c])
    BY <1>1, <2>1, AtItsStage, NextStepIs
  <2>3. ~crossed' => Stage("spin", moving', spinning', current', Stops(tasks'), handle'[c])
    BY <2>1, <2>2 DEF Stage
  <2> QED BY <1>1, <1>2, <2>1, <2>2, <2>3, InnerStepKeeps
<1>4. CASE Spin(c)
  <2>1. /\ At(c, "spin") /\ On(c) /\ moving' = moving /\ spinning' = TRUE /\ current' = current
        /\ handle' = handle /\ tasks' = tasks /\ crossed' = crossed
    BY <1>4 DEF Spin
  <2>2. /\ Tail(jobs[c]) # <<>> /\ Head(Tail(jobs[c])) = "schedule"
        /\ ~crossed => Stage("spin", moving, spinning, current, Stops(tasks), handle[c])
    BY <1>1, <2>1, AtItsStage, NextStepIs
  <2>3. ~crossed' => Stage("schedule", moving', spinning', current', Stops(tasks'), handle'[c])
    BY <2>1, <2>2 DEF Stage
  <2> QED BY <1>1, <1>2, <2>1, <2>2, <2>3, InnerStepKeeps
<1>5. CASE Schedule(c)
  <2>1. /\ At(c, "schedule") /\ On(c) /\ moving' = moving /\ spinning' = spinning /\ current' = current
    BY <1>5 DEF Schedule
  <2>2. /\ Tail(jobs[c]) # <<>> /\ Head(Tail(jobs[c])) = "assign"
        /\ ~crossed => Stage("schedule", moving, spinning, current, Stops(tasks), handle[c])
    BY <1>1, <2>1, AtItsStage, NextStepIs
  <2>3. CASE Free = {}
    <3>1. crossed' = TRUE /\ handle' = handle
      BY <1>5, <2>3 DEF Schedule
    <3> QED BY <1>1, <1>2, <2>1, <2>2, <3>1, InnerStepKeeps
  <2>4. CASE Free # {}
    <3>1. PICK h \in Lowest : /\ tasks' = Scheduled(h, "stopMove") /\ crossed' = crossed
                              /\ handle' = [handle EXCEPT ![c] = h]
      BY <1>5, <2>4 DEF Schedule
    <3>2. Stops(tasks') = Stops(tasks) \cup {h}
      BY <2>4, <3>1, LowestIsFree, StopsScheduled
    <3>3. handle'[c] = h /\ DOMAIN handle' = MotionContexts
      BY <1>2, <3>1
    <3>4. ~crossed' => Stage("assign", moving', spinning', current', Stops(tasks'), handle'[c])
      BY <2>1, <2>2, <3>1, <3>2, <3>3 DEF Stage
    <3> QED BY <1>1, <1>2, <2>1, <2>2, <3>1, <3>3, <3>4, InnerStepKeeps
  <2> QED BY <2>3, <2>4
<1>6. CASE Assign(c)
  <2>1. /\ At(c, "assign") /\ On(c) /\ moving' = moving /\ spinning' = spinning /\ current' = handle[c]
        /\ handle' = [handle EXCEPT ![c] = NoTask] /\ tasks' = tasks /\ crossed' = crossed
    BY <1>6 DEF Assign
  <2>2. PICK k : k = Tail(jobs[c])
    OBVIOUS
  <2>3. /\ Orderly(k) /\ ~Motors(k) /\ Goes(c, k)
        /\ ~crossed => Stage("assign", moving, spinning, current, Stops(tasks), handle[c])
    BY <1>1, <2>1, <2>2, AtItsStage, NextStepIs DEF On
  <2>4. ~crossed' => Timed(moving', spinning', current', Stops(tasks'))
    BY <2>1, <2>3 DEF Stage, Timed
  <2>5. DOMAIN handle' = MotionContexts
    BY <1>2, <2>1
  <2> QED BY <1>1, <1>2, <2>1, <2>3, <2>4, <2>5, MotorStepKeeps
<1>7. CASE Halt(c)
  <2>1. /\ At(c, "halt") /\ On(c) /\ moving' = FALSE /\ spinning' = FALSE /\ current' = current
        /\ handle' = handle /\ tasks' = tasks /\ crossed' = crossed
    BY <1>7 DEF Halt
  <2>2. /\ Tail(jobs[c]) # <<>> /\ Head(Tail(jobs[c])) = "remove"
        /\ ~crossed => Stage("halt", moving, spinning, current, Stops(tasks), handle[c])
    BY <1>1, <2>1, AtItsStage, NextStepIs
  <2>3. ~crossed' => Stage("remove", moving', spinning', current', Stops(tasks'), handle'[c])
    BY <2>1, <2>2 DEF Stage
  <2> QED BY <1>1, <1>2, <2>1, <2>2, <2>3, InnerStepKeeps
<1>8. CASE Remove(c)
  <2>1. /\ At(c, "remove") /\ On(c) /\ moving' = moving /\ spinning' = spinning /\ current' = current
        /\ handle' = handle /\ tasks' = Unscheduled(current) /\ crossed' = crossed
    BY <1>8 DEF Remove, motors
  <2>2. /\ Tail(jobs[c]) # <<>> /\ Head(Tail(jobs[c])) = "forget"
        /\ ~crossed => Stage("remove", moving, spinning, current, Stops(tasks), handle[c])
    BY <1>1, <2>1, AtItsStage, NextStepIs
  <2>3. Stops(tasks') = Stops(tasks) \ {current}
    BY <2>1, StopsUnscheduled
  <2>4. ~crossed' => Stage("forget", moving', spinning', current', Stops(tasks'), handle'[c])
    BY <2>1, <2>2, <2>3 DEF Stage
  <2> QED BY <1>1, <1>2, <2>1, <2>2, <2>4, InnerStepKeeps
<1>9. CASE Forget(c)
  <2>1. /\ At(c, "forget") /\ On(c) /\ moving' = moving /\ spinning' = spinning
        /\ handle' = handle /\ tasks' = tasks /\ crossed' = crossed
    BY <1>9 DEF Forget
  <2>2. PICK k : k = Tail(jobs[c])
    OBVIOUS
  <2>3. /\ Orderly(k) /\ ~Motors(k) /\ Goes(c, k)
        /\ ~crossed => Stage("forget", moving, spinning, current, Stops(tasks), handle[c])
    BY <1>1, <2>1, <2>2, AtItsStage, NextStepIs DEF On
  <2>4. ~crossed' => Timed(moving', spinning', current', Stops(tasks'))
    BY <2>1, <2>3 DEF Stage, Timed
  <2> QED BY <1>1, <1>2, <2>1, <2>3, <2>4, MotorStepKeeps
<1> QED BY <1>3, <1>4, <1>5, <1>6, <1>7, <1>8, <1>9

LEMMA LaterKeeps ==
  ASSUME MotionInv, NEW c \in MotionContexts, NEW s \in OtherSteps, NEW f \in {"lowStop", "checkLegs"},
         Later(c, s, f)
  PROVE  MotionInv'
<1>1. At(c, s) /\ On(c) /\ UNCHANGED motors /\ crossed \in BOOLEAN
  BY DEF Later, MotionInv
<1>2. \/ tasks' = tasks /\ crossed' = crossed
      \/ tasks' = tasks /\ crossed' = TRUE
      \/ Free # {} /\ \E h \in Lowest : tasks' = Scheduled(h, f) /\ crossed' = crossed
  BY DEF Later
<1>3. Stops(tasks') = Stops(tasks)
  <2>1. ASSUME Free # {}, NEW h \in Lowest, tasks' = Scheduled(h, f)
        PROVE  Stops(tasks') = Stops(tasks)
    BY <2>1, LowestIsFree, StopsScheduled
  <2> QED BY <1>2, <2>1
<1>4. crossed' \in BOOLEAN /\ (~crossed' => ~crossed)
  BY <1>1, <1>2
<1> HIDE DEF OtherSteps
<1> QED BY <1>1, <1>3, <1>4, OtherStepKeeps

LEMMA SettingsKeep ==
  ASSUME MotionInv, NEW c \in MotionContexts,
         Guess(c) \/ RestoreAdjust(c) \/ WriteSettings(c) \/ Count(c)
  PROVE  MotionInv'
<1>1. UNCHANGED motors /\ tasks' = tasks /\ crossed' = crossed /\ On(c) /\ crossed \in BOOLEAN
  BY DEF Guess, RestoreAdjust, WriteSettings, Count, MotionInv
<1>2. PICK s \in OtherSteps : At(c, s)
  BY DEF Guess, RestoreAdjust, WriteSettings, Count, OtherSteps
<1> HIDE DEF OtherSteps
<1> QED BY <1>1, <1>2, OtherStepKeeps

LEMMA MotionInvHolds == MotionSpec => []MotionInv
<1>1. MotionInit => MotionInv
  <2> SUFFICES ASSUME MotionInit PROVE MotionInv
    OBVIOUS
  <2>1. /\ jobs = [c \in MotionContexts |-> <<>>] /\ handle = [c \in MotionContexts |-> NoTask]
        /\ moving = FALSE /\ spinning = FALSE /\ crossed = FALSE /\ tasks = [h \in {} |-> "none"]
    BY DEF MotionInit
  <2>2. Orderly(<<>>) /\ <<>> \in Seq(JobSteps)
    <3>1. PICK p \in Seq(OtherSteps) : p = <<>>
      BY OtherJobs
    <3>2. Orderly(p)
      BY PlainJob
    <3> QED BY <3>1, <3>2 DEF Orderly
  <2>3. AllOrderly(jobs)
    BY <2>1, <2>2 DEF AllOrderly
  <2>4. Apart(jobs) /\ ~Midst(jobs)
    BY <2>1 DEF Apart, Midst, AtStep, Motors
  <2>5. Timed(moving, spinning, current, Stops(tasks))
    BY <2>1 DEF Timed, Stops
  <2>6. Staged(jobs, moving, spinning, current, Stops(tasks), handle)
    BY <2>4, <2>5, StagedOff
  <2> QED BY <2>1, <2>3, <2>6 DEF MotionInv
<1>2. MotionInv /\ [MotionNext]_motionVars => MotionInv'
  <2> SUFFICES ASSUME MotionInv, [MotionNext]_motionVars PROVE MotionInv'
    OBVIOUS
  <2>1. CASE \E c \in MotionContexts : Call(c)
    BY <2>1, CallKeeps
  <2>2. CASE FallingEdge \/ RisingEdge
    BY <2>2, EdgesKeep
  <2>3. CASE RunTask
    BY <2>3, RunTaskKeeps
  <2>4. ASSUME NEW c \in MotionContexts, MotionStep(c)
        PROVE  MotionInv'
    <3>1. CASE IsMoving(c)
      BY <3>1, IsMovingKeeps
    <3>2. CASE Mark(c) \/ Spin(c) \/ Schedule(c) \/ Assign(c) \/ Halt(c) \/ Remove(c) \/ Forget(c)
      BY <3>2, MotorStepsKeep
    <3>3. CASE Guess(c) \/ RestoreAdjust(c) \/ WriteSettings(c) \/ Count(c)
      BY <3>3, SettingsKeep
    <3>4. CASE Later(c, "lowStop", "lowStop") \/ Later(c, "again", "checkLegs")
      <4>1. "lowStop" \in OtherSteps /\ "again" \in OtherSteps
        BY DEF OtherSteps
      <4> HIDE DEF OtherSteps
      <4> QED BY <3>4, <4>1, LaterKeeps
    <3> QED BY <2>4, <3>1, <3>2, <3>3, <3>4 DEF MotionStep
  <2>5. CASE UNCHANGED motionVars
    <3>1. /\ jobs' = jobs /\ moving' = moving /\ spinning' = spinning /\ current' = current
          /\ handle' = handle /\ tasks' = tasks /\ crossed' = crossed
      BY <2>5 DEF motionVars, motors
    <3> QED BY <3>1 DEF MotionInv
  <2> QED BY <2>1, <2>2, <2>3, <2>4, <2>5 DEF MotionNext, MotionCode
<1> QED BY <1>1, <1>2, PTL DEF MotionSpec

\* Every context and every task, with whatever program and however many slots: a
\* droplet whose motors run has the one task scheduled that stops them, unless a
\* motor function was called in the midst of another one, or no slot was free.
THEOREM MovementsAreTimed == MotionSpec => []MovesAreTimed
<1>1. MotionInv => MovesAreTimed
  BY DEF MotionInv, MovesAreTimed, Staged
<1> QED BY <1>1, MotionInvHolds, PTL

-----------------------------------------------------------------------------
(* The low power fix                                                       *)

\* What goes on with the fix, or ends it: the steps of a job, the scheduled tasks
FixSteps == {"lowStop", "again", "fixed"}
Looks(j) == \E i \in 1 .. Len(j) : j[i] \in FixSteps
FixTasks(t) == {h \in DOMAIN t : t[h] \in {"lowStop", "checkLegs"}}

\* The handles of these tasks are not those that the motor functions keep.
Kept(fixes, cur, own) ==
  fixes \subseteq TaskSlots /\ cur \notin fixes /\ \A c \in MotionContexts : own[c] \notin fixes
KeptInv == Kept(FixTasks(tasks), current, handle)

\* Unless a motor function was called in the midst of another one, or no slot was
\* free: while unpoweredFixActive is set, there is a task or a step to come that
\* goes on with the fix or ends it; else capFallingEdgeISR would start no other.
FixGoesOn ==
  ~crossed /\ fixing => FixTasks(tasks) # {} \/ \E c \in MotionContexts : Looks(jobs[c])

FixInv == MotionInv /\ KeptInv /\ FixGoesOn /\ fixing \in BOOLEAN

LEMMA FixGoesOnIf ==
  ASSUME FixGoesOn, ~crossed' /\ fixing' => ~crossed /\ fixing,
         FixTasks(tasks) \subseteq FixTasks(tasks'),
         \A c \in MotionContexts : Looks(jobs[c]) => Looks(jobs'[c])
  PROVE  FixGoesOn'
BY DEF FixGoesOn

LEMMA TailLooks ==
  ASSUME NEW j, Orderly(j), j # <<>>, Head(j) \notin FixSteps, Looks(j)
  PROVE  Looks(Tail(j))
<1>1. PICK n \in Nat \ {0} : n = Len(j)
  BY TailIsOrderly
<1>2. PICK t : t = Tail(j)
  OBVIOUS
<1>3. Head(j) = j[1] /\ Len(t) = n - 1 /\ \A i \in 1 .. n - 1 : t[i] = j[i + 1]
  BY <1>1, <1>2, TailIsOrderly
<1>4. PICK i \in 1 .. n : j[i] \in FixSteps
  BY <1>1 DEF Looks
<1>5. i # 1
  BY <1>3, <1>4
<1>6. i - 1 \in 1 .. n - 1 /\ i - 1 + 1 = i
  BY <1>5
<1>7. t[i - 1] \in FixSteps
  BY <1>3, <1>4, <1>6
<1> QED BY <1>2, <1>3, <1>6, <1>7 DEF Looks

LEMMA SkippedLooks ==
  ASSUME NEW j, Orderly(j), j # <<>>, Head(j) = "isMoving", Looks(j)
  PROVE  Looks(SubSeq(j, Len(moveSteps) + 1, Len(j)))
<1>1. PICK s : s = SubSeq(j, Len(moveSteps) + 1, Len(j))
  OBVIOUS
<1>2. PICK n : n = Len(j)
  OBVIOUS
<1>3. /\ Len(s) = n - 5 /\ n \in Nat /\ 5 <= n /\ \A i \in 1 .. n - 5 : s[i] = j[i + 5]
      /\ \A i \in 1 .. 5 : j[i] \in MotorSteps
  BY <1>1, <1>2, Skipped
<1>4. PICK i \in 1 .. n : j[i] \in FixSteps
  BY <1>2 DEF Looks
<1>5. j[i] \notin MotorSteps
  BY <1>4 DEF FixSteps, MotorSteps, Inner
<1>6. i \notin 1 .. 5
  BY <1>3, <1>5
<1>7. i - 5 \in 1 .. n - 5 /\ i - 5 + 5 = i
  BY <1>3, <1>6
<1>8. s[i - 5] \in FixSteps
  BY <1>3, <1>4, <1>7
<1> QED BY <1>1, <1>3, <1>7, <1>8 DEF Looks

LEMMA JoinedLooks ==
  ASSUME NEW S, NEW a \in Seq(S), NEW p \in Seq(S), Looks(p)
  PROVE  Looks(a \o p)
<1>1. PICK m \in Nat, n \in Nat : m = Len(a) /\ n = Len(p)
  OBVIOUS
<1>2. /\ Len(a \o p) = m + n
      /\ \A i \in 1 .. m + n : (a \o p)[i] = IF i <= m THEN a[i] ELSE p[i - m]
  BY <1>1, ConcatProperties
<1>3. PICK i \in 1 .. n : p[i] \in FixSteps
  BY <1>1 DEF Looks
<1>4. i + m \in 1 .. m + n /\ ~(i + m <= m) /\ i + m - m = i
  BY <1>3
<1>5. (a \o p)[i + m] \in FixSteps
  BY <1>2, <1>3, <1>4
<1> QED BY <1>2, <1>4, <1>5 DEF Looks

\* What a context is given, or goes on with
LEMMA GoesLooks ==
  ASSUME AllOrderly(jobs), NEW c \in MotionContexts, NEW k, jobs' = [jobs EXCEPT ![c] = k],
         Looks(jobs[c]) => Looks(k)
  PROVE  \A d \in MotionContexts : Looks(jobs[d]) => Looks(jobs'[d])
<1>1. DOMAIN jobs = MotionContexts
  BY DEF AllOrderly
<1>2. \A d \in MotionContexts : jobs'[d] = IF d = c THEN k ELSE jobs[d]
  BY <1>1
<1> QED BY <1>2

LEMMA OnLooks ==
  ASSUME AllOrderly(jobs), NEW c \in MotionContexts, NEW s, s \notin FixSteps, At(c, s), On(c)
  PROVE  \A d \in MotionContexts : Looks(jobs[d]) => Looks(jobs'[d])
<1>1. Orderly(jobs[c]) /\ jobs[c] # <<>> /\ Head(jobs[c]) = s
  BY DEF AllOrderly, At
<1>2. jobs' = [jobs EXCEPT ![c] = Tail(jobs[c])]
  BY DEF On, Goes
<1>3. Looks(jobs[c]) => Looks(Tail(jobs[c]))
  BY <1>1, TailLooks
<1> QED BY <1>2, <1>3, GoesLooks

LEMMA StartLooks ==
  ASSUME AllOrderly(jobs), NEW c \in MotionContexts, NEW k, Starts(c, k)
  PROVE  /\ \A d \in MotionContexts : Looks(jobs[d]) => Looks(jobs'[d])
         /\ Looks(k) => \E d \in MotionContexts : Looks(jobs'[d])
         /\ ~crossed' => ~crossed
<1>1. jobs[c] = <<>> /\ jobs' = [jobs EXCEPT ![c] = k] /\ (~crossed' => ~crossed)
  BY DEF Starts
<1>2. ~Looks(jobs[c])
  BY <1>1 DEF Looks
<1>3. \A d \in MotionContexts : Looks(jobs[d]) => Looks(jobs'[d])
  BY <1>1, <1>2, GoesLooks
<1>4. jobs'[c] = k
  BY <1>1 DEF AllOrderly
<1> QED BY <1>1, <1>3, <1>4

LEMMA StepJobs ==
  /\ Looks(<<"restart", "lowStop">>) /\ Looks(<<"restart", "fixed">>) /\ Looks(<<"again">>)
  /\ Looks(<<"fixed">>) /\ Looks(<<"fixed", "lowStop", "count">>) /\ Looks(<<"lowStop", "count">>)
  /\ Looks(<<"restore", "lowStop", "count">>)
<1>1. ASSUME NEW j, NEW i \in 1 .. Len(j), j[i] \in FixSteps PROVE Looks(j)
  BY <1>1 DEF Looks
<1>2. Looks(<<"restart", "lowStop">>)
  <2>1. PICK j : j = <<"restart", "lowStop">>
    OBVIOUS
  <2>2. 2 \in 1 .. Len(j) /\ j[2] \in FixSteps
    BY <2>1 DEF FixSteps
  <2> QED BY <1>1, <2>1, <2>2
<1>3. Looks(<<"restart", "fixed">>)
  <2>1. PICK j : j = <<"restart", "fixed">>
    OBVIOUS
  <2>2. 2 \in 1 .. Len(j) /\ j[2] \in FixSteps
    BY <2>1 DEF FixSteps
  <2> QED BY <1>1, <2>1, <2>2
<1>4. Looks(<<"again">>) /\ Looks(<<"fixed">>)
  <2>1. ASSUME NEW j, j = <<"again">> \/ j = <<"fixed">> PROVE Looks(j)
    <3>1. 1 \in 1 .. Len(j) /\ j[1] \in FixSteps
      BY <2>1 DEF FixSteps
    <3> QED BY <1>1, <3>1
  <2> QED BY <2>1
<1>5. Looks(<<"fixed", "lowStop", "count">>) /\ Looks(<<"restore", "lowStop", "count">>)
  <2>1. ASSUME NEW j, j = <<"fixed", "lowStop", "count">> \/ j = <<"restore", "lowStop", "count">>
        PROVE  Looks(j)
    <3>1. 2 \in 1 .. Len(j) /\ j[2] \in FixSteps
      BY <2>1 DEF FixSteps
    <3> QED BY <1>1, <3>1
  <2> QED BY <2>1
<1>6. Looks(<<"lowStop", "count">>)
  <2>1. PICK j : j = <<"lowStop", "count">>
    OBVIOUS
  <2>2. 1 \in 1 .. Len(j) /\ j[1] \in FixSteps
    BY <2>1 DEF FixSteps
  <2> QED BY <1>1, <2>1, <2>2
<1> QED BY <1>2, <1>3, <1>4, <1>5, <1>6

\* The jobs of the fix
LEMMA FixJobs ==
  /\ Looks(moveSteps \o <<"restart", "lowStop">>)
  /\ Looks(stopMove \o <<"restart", "fixed">>) /\ Looks(stopMove \o <<"again">>)
  /\ Looks(moveSteps \o <<"lowStop", "count">>)
  /\ Looks(<<"guess">> \o moveSteps \o <<"restore", "lowStop", "count">>)
<1>1. /\ moveSteps \in Seq(JobSteps) /\ stopMove \in Seq(JobSteps)
      /\ <<"guess">> \in Seq(JobSteps)
  BY DEF moveSteps, stopMove, JobSteps, MotorSteps, Inner, OtherSteps
<1>2. <<"guess">> \o moveSteps \in Seq(JobSteps)
  BY <1>1, ConcatProperties
<1>3. /\ <<"restart", "lowStop">> \in Seq(JobSteps) /\ <<"restart", "fixed">> \in Seq(JobSteps)
      /\ <<"again">> \in Seq(JobSteps) /\ <<"lowStop", "count">> \in Seq(JobSteps)
      /\ <<"restore", "lowStop", "count">> \in Seq(JobSteps)
  BY DEF JobSteps, OtherSteps
<1>4. ASSUME NEW a \in Seq(JobSteps), NEW p \in Seq(JobSteps), Looks(p) PROVE Looks(a \o p)
  BY <1>4, JoinedLooks
<1>5. Looks(moveSteps \o <<"restart", "lowStop">>)
  BY <1>1, <1>3, <1>4, StepJobs
<1>6. Looks(stopMove \o <<"restart", "fixed">>)
  BY <1>1, <1>3, <1>4, StepJobs
<1>7. Looks(stopMove \o <<"again">>)
  BY <1>1, <1>3, <1>4, StepJobs
<1>8. Looks(moveSteps \o <<"lowStop", "count">>)
  BY <1>1, <1>3, <1>4, StepJobs
<1>9. Looks((<<"guess">> \o moveSteps) \o <<"restore", "lowStop", "count">>)
  BY <1>2, <1>3, <1>4, StepJobs
<1> QED BY <1>5, <1>6, <1>7, <1>8, <1>9

LEMMA FixesScheduled ==
  ASSUME NEW h \in Free
  PROVE  /\ FixTasks(Scheduled(h, "stopMove")) = FixTasks(tasks)
         /\ \A f \in {"lowStop", "checkLegs"} : FixTasks(Scheduled(h, f)) = FixTasks(tasks) \cup {h}
<1>1. h \notin DOMAIN tasks
  BY DEF Free
<1>2. ASSUME NEW f
      PROVE  /\ DOMAIN Scheduled(h, f) = DOMAIN tasks \cup {h} /\ Scheduled(h, f)[h] = f
             /\ \A g \in DOMAIN tasks : Scheduled(h, f)[g] = tasks[g]
  BY <1>1 DEF Scheduled
<1>3. FixTasks(Scheduled(h, "stopMove")) = FixTasks(tasks)
  BY <1>1, <1>2 DEF FixTasks
<1>4. ASSUME NEW f \in {"lowStop", "checkLegs"}
      PROVE  FixTasks(Scheduled(h, f)) = FixTasks(tasks) \cup {h}
  BY <1>2 DEF FixTasks
<1> QED BY <1>3, <1>4

LEMMA FixesUnscheduled ==
  ASSUME NEW h
  PROVE  FixTasks(Unscheduled(h)) = FixTasks(tasks) \ {h}
BY DEF FixTasks, Unscheduled

LEMMA KeptIf ==
  ASSUME KeptInv, FixTasks(tasks') \subseteq FixTasks(tasks), UNCHANGED motors
  PROVE  KeptInv'
BY DEF KeptInv, Kept, motors

----------------------------------------------------------------------------
\* The steps of the fix
LEMMA CallFixes ==
  ASSUME FixInv, NEW c \in MotionContexts, Call(c)
  PROVE  KeptInv' /\ FixGoesOn' /\ fixing' \in BOOLEAN
<1>1. UNCHANGED motors /\ tasks' = tasks /\ fixing' = fixing /\ \E job : Starts(c, job)
  BY DEF Call, fix
<1>2. AllOrderly(jobs) /\ KeptInv /\ FixGoesOn /\ fixing \in BOOLEAN
  BY DEF FixInv, MotionInv
<1>3. KeptInv'
  BY <1>1, <1>2, KeptIf
<1>4. /\ \A d \in MotionContexts : Looks(jobs[d]) => Looks(jobs'[d])
      /\ ~crossed' => ~crossed
  BY <1>1, <1>2, StartLooks
<1> QED BY <1>1, <1>2, <1>3, <1>4, FixGoesOnIf

LEMMA EdgesFix ==
  ASSUME FixInv, FallingEdge \/ RisingEdge
  PROVE  KeptInv' /\ FixGoesOn' /\ fixing' \in BOOLEAN
<1>1. /\ UNCHANGED motors /\ tasks' = tasks /\ "isr" \in MotionContexts
      /\ AllOrderly(jobs) /\ KeptInv /\ fixing \in BOOLEAN
  BY DEF FallingEdge, RisingEdge, MotionContexts, MotionRank, FixInv, MotionInv
<1>2. fixing' \in BOOLEAN
  BY <1>1 DEF FallingEdge, RisingEdge, fix
<1>3. PICK k : Starts("isr", k) /\ Looks(k)
  BY FixJobs DEF FallingEdge, RisingEdge
<1>4. \E d \in MotionContexts : Looks(jobs'[d])
  BY <1>1, <1>3, StartLooks
<1>5. KeptInv'
  BY <1>1, KeptIf
<1> QED BY <1>2, <1>4, <1>5 DEF FixGoesOn

LEMMA RunTaskFixes ==
  ASSUME FixInv, RunTask
  PROVE  KeptInv' /\ FixGoesOn' /\ fixing' \in BOOLEAN
<1>1. /\ UNCHANGED motors /\ fixing' = fixing /\ "task" \in MotionContexts
      /\ AllOrderly(jobs) /\ KeptInv /\ FixGoesOn /\ fixing \in BOOLEAN
  BY DEF RunTask, MotionContexts, MotionRank, FixInv, MotionInv, fix
<1>2. PICK h \in DOMAIN tasks :
        /\ \/ tasks[h] = "stopMove" /\ Starts("task", stopMove)
           \/ tasks[h] = "lowStop" /\ Starts("task", stopMove \o <<"again">>)
           \/ tasks[h] = "checkLegs" /\ \E job \in checkLegsTask : Starts("task", job)
        /\ tasks' = Unscheduled(h)
  BY DEF RunTask
<1>3. FixTasks(tasks') = FixTasks(tasks) \ {h}
  BY <1>2, FixesUnscheduled
<1>4. KeptInv'
  BY <1>1, <1>3, KeptIf
<1>5. ASSUME NEW k, Starts("task", k), Looks(k)
      PROVE  FixGoesOn'
  <2>1. \E d \in MotionContexts : Looks(jobs'[d])
    BY <1>1, <1>5, StartLooks
  <2> QED BY <2>1 DEF FixGoesOn
<1>6. CASE tasks[h] = "stopMove" /\ Starts("task", stopMove)
  <2>1. h \notin FixTasks(tasks)
    BY <1>6 DEF FixTasks
  <2>2. FixTasks(tasks) \subseteq FixTasks(tasks')
    BY <1>3, <2>1
  <2>3. /\ \A d \in MotionContexts : Looks(jobs[d]) => Looks(jobs'[d])
        /\ ~crossed' => ~crossed
    BY <1>1, <1>6, StartLooks
  <2>4. FixGoesOn'
    BY <1>1, <2>2, <2>3, FixGoesOnIf
  <2> QED BY <1>1, <1>4, <2>4
<1>7. CASE tasks[h] = "lowStop" /\ Starts("task", stopMove \o <<"again">>)
  <2>1. FixGoesOn'
    BY <1>5, <1>7, FixJobs
  <2> QED BY <1>1, <1>4, <2>1
<1>8. CASE tasks[h] = "checkLegs" /\ \E job \in checkLegsTask : Starts("task", job)
  <2>1. PICK job \in checkLegsTask : Starts("task", job)
    BY <1>8
  <2>2. \/ fixing = FALSE
        \/ job \in {<<"fixed">>, <<"fixed", "lowStop", "count">>}
        \/ job = moveSteps \o <<"lowStop", "count">>
        \/ job = <<"guess">> \o moveSteps \o <<"restore", "lowStop", "count">>
    BY <1>1, <2>1 DEF checkLegsTask
  <2>3. fixing = FALSE \/ Looks(job)
    BY <2>2, StepJobs, FixJobs
  <2>4. CASE fixing = FALSE
    BY <1>1, <1>4, <2>4 DEF FixGoesOn
  <2>5. CASE Looks(job)
    <3>1. FixGoesOn'
      BY <1>5, <2>1, <2>5
    <3> QED BY <1>1, <1>4, <3>1
  <2> QED BY <2>3, <2>4, <2>5
<1> QED BY <1>2, <1>6, <1>7, <1>8

LEMMA IsMovingFixes ==
  ASSUME FixInv, NEW c \in MotionContexts, IsMoving(c)
  PROVE  KeptInv' /\ FixGoesOn' /\ fixing' \in BOOLEAN
<1>1. /\ UNCHANGED motors /\ tasks' = tasks /\ fixing' = fixing /\ crossed' = crossed
      /\ At(c, "isMoving") /\ "isMoving" \notin FixSteps
      /\ AllOrderly(jobs) /\ KeptInv /\ FixGoesOn /\ fixing \in BOOLEAN
  BY DEF IsMoving, fix, FixInv, MotionInv, FixSteps
<1>2. Orderly(jobs[c]) /\ jobs[c] # <<>> /\ Head(jobs[c]) = "isMoving"
  BY <1>1 DEF At, AllOrderly
<1>3. KeptInv'
  BY <1>1, KeptIf
<1>4. \A d \in MotionContexts : Looks(jobs[d]) => Looks(jobs'[d])
  <2>1. CASE moving
    <3>1. PICK k : k = SubSeq(jobs[c], Len(moveSteps) + 1, Len(jobs[c]))
      OBVIOUS
    <3>2. Looks(jobs[c]) => Looks(k)
      BY <1>2, <3>1, SkippedLooks
    <3>3. jobs' = [jobs EXCEPT ![c] = k]
      BY <2>1, <3>1 DEF IsMoving, Goes
    <3> QED BY <1>1, <3>2, <3>3, GoesLooks
  <2>2. CASE ~moving
    <3>1. On(c)
      BY <2>2 DEF IsMoving
    <3> QED BY <1>1, <3>1, OnLooks
  <2> QED BY <2>1, <2>2
<1> QED BY <1>1, <1>3, <1>4, FixGoesOnIf

\* The steps of a motor function take none of the fix's tasks away.
LEMMA MotorStepFixes ==
  ASSUME FixInv, NEW c \in MotionContexts, NEW s \in MotorSteps, At(c, s), On(c), fixing' = fixing,
         ~crossed' => ~crossed, FixTasks(tasks') = FixTasks(tasks),
         Kept(FixTasks(tasks), current', handle')
  PROVE  KeptInv' /\ FixGoesOn' /\ fixing' \in BOOLEAN
<1>1. AllOrderly(jobs) /\ FixGoesOn /\ fixing \in BOOLEAN /\ s \notin FixSteps
  BY DEF FixInv, MotionInv, MotorSteps, Inner, FixSteps
<1>2. \A d \in MotionContexts : Looks(jobs[d]) => Looks(jobs'[d])
  BY <1>1, OnLooks
<1>3. FixGoesOn'
  BY <1>1, <1>2, FixGoesOnIf
<1> QED BY <1>1, <1>3 DEF KeptInv

LEMMA MotorStepsFix ==
  ASSUME FixInv, NEW c \in MotionContexts,
         Mark(c) \/ Spin(c) \/ Schedule(c) \/ Assign(c) \/ Halt(c) \/ Remove(c) \/ Forget(c)
  PROVE  KeptInv' /\ FixGoesOn' /\ fixing' \in BOOLEAN
<1>1. /\ Kept(FixTasks(tasks), current, handle) /\ DOMAIN handle = MotionContexts
      /\ crossed \in BOOLEAN /\ FixTasks(tasks) \subseteq TaskSlots
  BY DEF FixInv, KeptInv, Kept, MotionInv
<1>2. /\ "mark" \in MotorSteps /\ "spin" \in MotorSteps /\ "schedule" \in MotorSteps
      /\ "assign" \in MotorSteps /\ "halt" \in MotorSteps /\ "remove" \in MotorSteps
      /\ "forget" \in MotorSteps
  BY DEF Inner, MotorSteps
<1>3. NoTask \notin FixTasks(tasks)
  BY <1>1, MotionAssumption
<1>4. fixing' = fixing
  BY DEF Mark, Spin, Schedule, Assign, Halt, Remove, Forget, fix
<1> HIDE DEF Inner, MotorSteps
<1>5. CASE Mark(c)
  BY <1>1, <1>2, <1>4, <1>5, MotorStepFixes DEF Mark
<1>6. CASE Spin(c)
  BY <1>1, <1>2, <1>4, <1>6, MotorStepFixes DEF Spin
<1>7. CASE Schedule(c)
  <2>1. At(c, "schedule") /\ On(c) /\ current' = current
    BY <1>7 DEF Schedule
  <2>2. CASE Free = {}
    <3>1. crossed' = TRUE /\ handle' = handle /\ tasks' = tasks
      BY <1>7, <2>2 DEF Schedule
    <3> QED BY <1>1, <1>2, <1>4, <2>1, <3>1, MotorStepFixes
  <2>3. CASE Free # {}
    <3>1. PICK h \in Lowest : /\ tasks' = Scheduled(h, "stopMove") /\ crossed' = crossed
                              /\ handle' = [handle EXCEPT ![c] = h]
      BY <1>7, <2>3 DEF Schedule
    <3>2. h \in Free
      BY <2>3, LowestIsFree
    <3>3. FixTasks(tasks') = FixTasks(tasks)
      BY <3>1, <3>2, FixesScheduled
    <3>4. h \notin FixTasks(tasks)
      BY <3>2 DEF Free, FixTasks
    <3>5. Kept(FixTasks(tasks), current', handle')
      BY <1>1, <2>1, <3>1, <3>4 DEF Kept
    <3> QED BY <1>2, <1>4, <2>1, <3>1, <3>3, <3>5, MotorStepFixes
  <2> QED BY <2>2, <2>3
<1>8. CASE Assign(c)
  <2>1. /\ At(c, "assign") /\ On(c) /\ current' = handle[c] /\ tasks' = tasks /\ crossed' = crossed
        /\ handle' = [handle EXCEPT ![c] = NoTask]
    BY <1>8 DEF Assign
  <2>2. Kept(FixTasks(tasks), current', handle')
    BY <1>1, <1>3, <2>1 DEF Kept
  <2> QED BY <1>2, <1>4, <2>1, <2>2, MotorStepFixes
<1>9. CASE Halt(c)
  BY <1>1, <1>2, <1>4, <1>9, MotorStepFixes DEF Halt
<1>10. CASE Remove(c)
  <2>1. /\ At(c, "remove") /\ On(c) /\ tasks' = Unscheduled(current) /\ current' = current
        /\ handle' = handle /\ crossed' = crossed
    BY <1>10 DEF Remove, motors
  <2>2. FixTasks(tasks') = FixTasks(tasks)
    BY <1>1, <2>1, FixesUnscheduled DEF Kept
  <2> QED BY <1>1, <1>2, <1>4, <2>1, <2>2, MotorStepFixes
<1>11. CASE Forget(c)
  <2>1. /\ At(c, "forget") /\ On(c) /\ current' = NoTask /\ tasks' = tasks /\ crossed' = crossed
        /\ handle' = handle
    BY <1>11 DEF Forget
  <2>2. Kept(FixTasks(tasks), current', handle')
    BY <1>1, <1>3, <2>1 DEF Kept
  <2> QED BY <1>2, <1>4, <2>1, <2>2, MotorStepFixes
<1> QED BY <1>5, <1>6, <1>7, <1>8, <1>9, <1>10, <1>11

LEMMA LaterFixes ==
  ASSUME FixInv, NEW c \in MotionContexts, NEW s, NEW f \in {"lowStop", "checkLegs"}, Later(c, s, f)
  PROVE  KeptInv' /\ FixGoesOn' /\ fixing' \in BOOLEAN
<1>1. /\ UNCHANGED motors /\ fixing' = fixing /\ crossed \in BOOLEAN
      /\ KeptInv /\ fixing \in BOOLEAN
  BY DEF Later, fix, FixInv, MotionInv
<1>2. CASE f = "checkLegs" /\ ~fixing
  <2>1. tasks' = tasks
    BY <1>2 DEF Later
  <2>2. KeptInv'
    BY <1>1, <2>1, KeptIf
  <2> QED BY <1>1, <1>2, <2>2 DEF FixGoesOn
<1>3. CASE ~(f = "checkLegs" /\ ~fixing) /\ Free = {}
  <2>1. tasks' = tasks /\ crossed' = TRUE
    BY <1>3 DEF Later
  <2>2. KeptInv'
    BY <1>1, <2>1, KeptIf
  <2> QED BY <1>1, <2>1, <2>2 DEF FixGoesOn
<1>4. CASE ~(f = "checkLegs" /\ ~fixing) /\ Free # {}
  <2>1. PICK h \in Lowest : tasks' = Scheduled(h, f)
    BY <1>4 DEF Later
  <2>2. h \in Free
    BY <1>4, LowestIsFree
  <2>3. FixTasks(tasks') = FixTasks(tasks) \cup {h}
    BY <2>1, <2>2, FixesScheduled
  <2>4. h \in TaskSlots /\ h # current /\ \A d \in MotionContexts : h # handle[d]
    BY <2>2 DEF Free
  <2>5. current' = current /\ handle' = handle
    BY <1>1 DEF motors
  <2>6. KeptInv'
    BY <1>1, <2>3, <2>4, <2>5 DEF KeptInv, Kept
  <2>7. FixGoesOn'
    BY <2>3 DEF FixGoesOn
  <2> QED BY <1>1, <2>6, <2>7
<1> QED BY <1>2, <1>3, <1>4

LEMMA SettingsFix ==
  ASSUME FixInv, NEW c \in MotionContexts,
         Guess(c) \/ RestoreAdjust(c) \/ WriteSettings(c) \/ Count(c)
  PROVE  KeptInv' /\ FixGoesOn' /\ fixing' \in BOOLEAN
<1>1. /\ UNCHANGED motors /\ tasks' = tasks /\ crossed' = crossed /\ On(c) /\ KeptInv
      /\ AllOrderly(jobs) /\ FixGoesOn /\ fixing \in BOOLEAN
  BY DEF Guess, RestoreAdjust, WriteSettings, Count, FixInv, MotionInv
<1>2. KeptInv'
  BY <1>1, KeptIf
<1>3. \/ fixing' = FALSE
      \/ fixing' = fixing /\ \E s \in {"guess", "restore", "write", "count", "restart"} : At(c, s)
  BY DEF Guess, RestoreAdjust, WriteSettings, Count, fix
<1>4. CASE fixing' = FALSE
  BY <1>2, <1>4 DEF FixGoesOn
<1>5. ASSUME fixing' = fixing, NEW s \in {"guess", "restore", "write", "count", "restart"}, At(c, s)
      PROVE  FixGoesOn'
  <2>1. s \notin FixSteps
    BY <1>5 DEF FixSteps
  <2>2. \A d \in MotionContexts : Looks(jobs[d]) => Looks(jobs'[d])
    BY <1>1, <1>5, <2>1, OnLooks
  <2> QED BY <1>1, <1>5, <2>2, FixGoesOnIf
<1> QED BY <1>1, <1>2, <1>3, <1>4, <1>5

\* However many slots there are, whatever the legs read and whenever the capacitor's
\* voltage changes: a fix that is active has a task or a step to come that goes on
\* with it or ends it, unless a motor function was called in the midst of another
\* one, or no slot was free.
THEOREM FixesGoOn == MotionSpec => []FixGoesOn
<1>1. MotionInit => KeptInv /\ FixGoesOn /\ fixing \in BOOLEAN
  <2> SUFFICES ASSUME MotionInit PROVE KeptInv /\ FixGoesOn /\ fixing \in BOOLEAN
    OBVIOUS
  <2>1. fixing = FALSE /\ tasks = [h \in {} |-> "none"]
    BY DEF MotionInit
  <2>2. FixTasks(tasks) = {}
    BY <2>1 DEF FixTasks
  <2> QED BY <2>1, <2>2 DEF KeptInv, Kept, FixGoesOn
<1>2. MotionInv /\ (KeptInv /\ FixGoesOn /\ fixing \in BOOLEAN) /\ [MotionNext]_motionVars
        => (KeptInv /\ FixGoesOn /\ fixing \in BOOLEAN)'
  <2> SUFFICES ASSUME FixInv, [MotionNext]_motionVars
               PROVE  KeptInv' /\ FixGoesOn' /\ fixing' \in BOOLEAN
    BY DEF FixInv
  <2>1. CASE \E c \in MotionContexts : Call(c)
    BY <2>1, CallFixes
  <2>2. CASE FallingEdge \/ RisingEdge
    BY <2>2, EdgesFix
  <2>3. CASE RunTask
    BY <2>3, RunTaskFixes
  <2>4. ASSUME NEW c \in MotionContexts, MotionStep(c)
        PROVE  KeptInv' /\ FixGoesOn' /\ fixing' \in BOOLEAN
    <3>1. CASE IsMoving(c)
      BY <3>1, IsMovingFixes
    <3>2. CASE Mark(c) \/ Spin(c) \/ Schedule(c) \/ Assign(c) \/ Halt(c) \/ Remove(c) \/ Forget(c)
      BY <3>2, MotorStepsFix
    <3>3. CASE Guess(c) \/ RestoreAdjust(c) \/ WriteSettings(c) \/ Count(c)
      BY <3>3, SettingsFix
    <3>4. CASE Later(c, "lowStop", "lowStop") \/ Later(c, "again", "checkLegs")
      BY <3>4, LaterFixes
    <3> QED BY <2>4, <3>1, <3>2, <3>3, <3>4 DEF MotionStep
  <2>5. CASE UNCHANGED motionVars
    <3>1. /\ jobs' = jobs /\ current' = current /\ handle' = handle /\ tasks' = tasks
          /\ crossed' = crossed /\ fixing' = fixing
      BY <2>5 DEF motionVars, motors, fix
    <3> QED BY <3>1 DEF FixInv, KeptInv, FixGoesOn
  <2> QED BY <2>1, <2>2, <2>3, <2>4, <2>5 DEF MotionNext, MotionCode
<1> QED BY <1>1, <1>2, MotionInvHolds, PTL DEF MotionSpec
=============================================================================
