------------------------------- MODULE Clock -------------------------------
(***************************************************************************)
(* The clock of a droplet: the counter RTC.CNT, its overflow interrupt,    *)
(* which counts rtc_epoch (droplet_code/src/scheduler.c), getTime (src/    *)
(* droplet_base_asm.S), and updateRTC (src/firefly_sync.c), which moves    *)
(* the clock to the nearest multiple of the firefly period each time the   *)
(* timer of the fireflies overflows.                                       *)
(***************************************************************************)
EXTENDS Integers

CONSTANTS
  EpochTicks,  \* RTC.PER + 1, which is 2^16
  PeriodMs,    \* FFSYNC_FULL_PERIOD_MS
  MaxElapsed,  \* bound on the time
  MaxUpdates   \* bound on the overflows of the firefly timer

ClockAssumption ==
  /\ PeriodMs \in Nat \ {0} /\ EpochTicks \in Nat /\ PeriodMs < EpochTicks
  /\ MaxElapsed \in Nat /\ MaxUpdates \in Nat
ASSUME ClockAssumption

Readers == {"main", "task"}

VARIABLES
  rtcCnt,     \* RTC.CNT
  rtc_epoch,
  ovfPending, \* the overflow interrupt is pending
  elapsed,    \* the milliseconds counted, with the corrections made so far
  reader,     \* per context: "open", or "closed" after the cli of getTime
  update,     \* updateRTC: [at, read], what it read from getTime
  slipped,    \* the counter ran over during updateRTC
  updates

clockVars == <<rtcCnt, rtc_epoch, ovfPending, elapsed, reader, update, slipped, updates>>

ClockInit ==
  /\ rtcCnt = 0 /\ rtc_epoch = 0 /\ ovfPending = FALSE /\ elapsed = 0
  /\ reader = [c \in Readers |-> "open"]
  /\ update = [at |-> "idle", read |-> 0] /\ slipped = FALSE /\ updates = 0

\* What getTime reads: the counter and the epoch, whether or not an overflow
\* is pending.
getTime == rtc_epoch * EpochTicks + rtcCnt

\* Interrupts are enabled; interrupts of the high level are not nested.
Open == update.at = "idle" /\ \A c \in Readers : reader[c] = "open"

\* A millisecond passes.  A context keeps interrupts disabled for less than
\* an epoch.
ClockTick ==
  /\ elapsed < MaxElapsed /\ elapsed' = elapsed + 1
  /\ rtcCnt' = (rtcCnt + 1) % EpochTicks
  /\ ovfPending' = (ovfPending \/ rtcCnt' = 0) /\ (rtcCnt' = 0 => ~ovfPending)
  /\ slipped' = (slipped \/ (update.at = "read" /\ rtcCnt' = 0))
  /\ UNCHANGED <<rtc_epoch, reader, update, updates>>

\* RTC_OVF_vect; Scheduler has what it does to the alarm.
CountEpoch ==
  /\ Open /\ ovfPending /\ ovfPending' = FALSE
  /\ rtc_epoch' = rtc_epoch + 1
  /\ UNCHANGED <<rtcCnt, elapsed, reader, update, slipped, updates>>

\* getTime disables interrupts ...
GetTimeCloses(c) ==
  /\ Open /\ reader' = [reader EXCEPT ![c] = "closed"]
  /\ UNCHANGED <<rtcCnt, rtc_epoch, ovfPending, elapsed, update, slipped, updates>>

\* ... and reads.
GetTimeReads(c) ==
  /\ reader[c] = "closed" /\ reader' = [reader EXCEPT ![c] = "open"]
  /\ UNCHANGED <<rtcCnt, rtc_epoch, ovfPending, elapsed, update, slipped, updates>>

----------------------------------------------------------------------------
(* updateRTC, in the high level interrupt of the firefly timer.            *)

UpdateReads ==
  /\ Open /\ updates < MaxUpdates /\ updates' = updates + 1
  /\ update' = [at |-> "read", read |-> getTime]
  /\ UNCHANGED <<rtcCnt, rtc_epoch, ovfPending, elapsed, reader, slipped>>

Remainder == update.read % PeriodMs

\* mutant: the change is always downwards
ChangeDown == -Remainder

\* The change to the nearest multiple of the period.
Change == IF Remainder > PeriodMs \div 2 THEN PeriodMs - Remainder ELSE -Remainder

\* mutant: an epoch that is reached exactly is not counted
CarryLate ==
  LET cnt == update.read % EpochTicks
  IN  IF Remainder > PeriodMs \div 2
      THEN IF EpochTicks - Change < cnt THEN 1 ELSE 0
      ELSE IF cnt < Remainder THEN -1 ELSE 0

\* The epochs that the counter moves by.
Carry ==
  LET cnt == update.read % EpochTicks
  IN  IF Remainder > PeriodMs \div 2
      THEN IF (EpochTicks - 1) - Change < cnt THEN 1 ELSE 0
      ELSE IF cnt < Remainder THEN -1 ELSE 0

\* When the registers are in step again, the counter is written: what it
\* counted in the meantime is lost.
UpdateWrites ==
  /\ update.at = "read" /\ update' = [at |-> "idle", read |-> 0]
  /\ rtc_epoch' = rtc_epoch + Carry
  /\ rtcCnt' = (update.read + Change) % EpochTicks
  /\ elapsed' = update.read + Change + (IF ovfPending THEN EpochTicks ELSE 0)
  /\ UNCHANGED <<ovfPending, reader, slipped, updates>>

ClockNext ==
  \/ ClockTick \/ CountEpoch \/ UpdateReads \/ UpdateWrites
  \/ \E c \in Readers : GetTimeCloses(c) \/ GetTimeReads(c)

ClockSpec == ClockInit /\ [][ClockNext]_clockVars

----------------------------------------------------------------------------
\* No epoch is lost or counted twice: the epoch, the counter and a pending
\* overflow make the time, through every correction, unless the counter runs
\* over while updateRTC is between its reading and its writing.
EpochsRight ==
  ~slipped => elapsed = getTime + (IF ovfPending THEN EpochTicks ELSE 0)

\* A correction aligns the clock with the period, and moves it by no more
\* than half of it.
UpdateAligns ==
  [][UpdateWrites /\ ~ovfPending /\ ~slipped =>
       /\ elapsed' % PeriodMs = 0
       /\ elapsed' - update.read \in -(PeriodMs \div 2) .. PeriodMs \div 2]_clockVars

=============================================================================
