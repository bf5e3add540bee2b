--------------------------- MODULE IrComm_proofs ----------------------------
(***************************************************************************)
(* Every byte that is sent or received over infra-red has its channel, and *)
(* commands are run in the order in which they came.                       *)
(***************************************************************************)
EXTENDS IrComm, NaturalFacts

\* The least channel is one of them.
LEMMA LeastIsIn ==
  ASSUME NEW T \in SUBSET Nat, T # {}
  PROVE  Min(T) \in T
<1>1. \E m \in T : \A r \in T : m <= r
  BY LeastNatural
<1> QED BY <1>1 DEF Min

\* A send under way has channels of its call left to do.
Job(j) ==
  \/ j = NoJob
  \/ /\ j = [at |-> j.at, call |-> j.call, todo |-> j.todo, crc |-> j.crc]
     /\ j.at \in Stages /\ j.call \in Calls
     /\ j.todo \in SUBSET j.call.dirs /\ j.todo # {}

\* The sends that are under way, and the bytes in the USARTs.
JobsSound ==
  /\ job = [c \in Contexts |-> job[c]] /\ \A c \in Contexts : Job(job[c])
  /\ line \in [Dirs -> Nat]

\* A call names channels.
LEMMA CallsSound ==
  ASSUME NEW k \in Calls
  PROVE  k.dirs \in SUBSET Dirs /\ k.dirs # {} /\ k.ctx \in Contexts /\ Dirs \in SUBSET Nat
BY IrCommAssumption

\* The channel that a send is at is one that it has still to do, and it goes
\* on with the others of the loop or with all channels of the call.
LEMMA OnwardIs ==
  ASSUME JobsSound, NEW c \in Contexts, job[c] # NoJob, NEW stage \in Stages
  PROVE  /\ Dir(c) \in job[c].todo /\ Dir(c) \in job[c].call.dirs /\ job[c].call.dirs \in SUBSET Dirs
         /\ Onward(c, stage) = [e \in Contexts |-> Onward(c, stage)[e]]
         /\ \A e \in Contexts \ {c} : Onward(c, stage)[e] = job[e]
         /\ \A e \in Contexts : Job(Onward(c, stage)[e])
         /\ Onward(c, stage)[c] # NoJob /\ Onward(c, stage)[c].call = job[c].call
         /\ \/ /\ Onward(c, stage)[c].at = job[c].at
               /\ Onward(c, stage)[c].todo = job[c].todo \ {Dir(c)}
            \/ /\ Onward(c, stage)[c].at = stage /\ Onward(c, stage)[c].todo = job[c].call.dirs
               /\ job[c].todo = {Dir(c)}
<1>1. PICK j : j = job[c]
  OBVIOUS
<1>2. /\ j = [at |-> j.at, call |-> j.call, todo |-> j.todo, crc |-> j.crc]
      /\ j.at \in Stages /\ j.call \in Calls
      /\ j.todo \in SUBSET j.call.dirs /\ j.todo # {}
  BY <1>1 DEF JobsSound, Job
<1>3. j.call.dirs \in SUBSET Dirs /\ j.call.dirs # {} /\ Dirs \in SUBSET Nat
  BY <1>2, CallsSound
<1>4. PICK m \in j.todo : m = Min(j.todo)
  <2>1. Min(j.todo) \in j.todo
    BY <1>2, <1>3, LeastIsIn
  <2> QED BY <2>1
<1>5. Dir(c) = m
  BY <1>1, <1>4 DEF Dir
<1>6. CASE j.todo \ {m} # {}
  <2>1. Onward(c, stage) = [job EXCEPT ![c].todo = j.todo \ {m}]
    BY <1>1, <1>5, <1>6 DEF Onward
  <2>2. PICK x : x = [at |-> j.at, call |-> j.call, todo |-> j.todo \ {m}, crc |-> j.crc]
    OBVIOUS
  <2>3. Onward(c, stage) = [e \in Contexts |-> IF e = c THEN x ELSE job[e]]
    BY <1>1, <1>2, <2>1, <2>2 DEF JobsSound
  <2>4. x # NoJob /\ Job(x) /\ x.at = j.at /\ x.call = j.call /\ x.todo = j.todo \ {m}
    BY <1>2, <1>6, <2>2 DEF NoJob, Job, Stages
  <2> QED BY <1>1, <1>2, <1>3, <1>4, <1>5, <2>3, <2>4 DEF JobsSound
<1>7. CASE j.todo \ {m} = {}
  <2>1. Onward(c, stage) = [job EXCEPT ![c].at = stage, ![c].todo = j.call.dirs]
    BY <1>1, <1>5, <1>7 DEF Onward
  <2>2. PICK x : x = [at |-> stage, call |-> j.call, todo |-> j.call.dirs, crc |-> j.crc]
    OBVIOUS
  <2>3. Onward(c, stage) = [e \in Contexts |-> IF e = c THEN x ELSE job[e]]
    BY <1>1, <1>2, <2>1, <2>2 DEF JobsSound
  <2>4. x # NoJob /\ Job(x) /\ x.at = stage /\ x.call = j.call /\ x.todo = j.call.dirs
    BY <1>2, <1>3, <2>2 DEF NoJob, Job, Stages
  <2>5. j.todo = {m}
    BY <1>4, <1>7
  <2> QED BY <1>1, <1>2, <1>3, <1>4, <1>5, <2>3, <2>4, <2>5 DEF JobsSound
<1> QED BY <1>6, <1>7

\* The sends under way are sound and the channels accounted for.
ChannelInv == JobsSound /\ ChannelsAccounted

\* At first all receivers are on and no carrier is.
LEMMA ChannelsBegin == Init => ChannelInv
BY DEF Init, ChannelInv, JobsSound, Job, ChannelsAccounted

\* A send that begins will enable the interrupts of the channels it claims.
LEMMA SendBegins ==
  ASSUME ChannelInv, NEW k \in Calls, all_ir_sends(k) \/ all_hp_ir_cmds(k)
  PROVE  ChannelInv'
<1>1. PICK stage \in {"claim", "crc"} :
        job' = [job EXCEPT ![k.ctx] = [at |-> stage, call |-> k, todo |-> k.dirs, crc |-> None]]
  BY DEF all_ir_sends, all_hp_ir_cmds
<1>2. PICK x : x = [at |-> stage, call |-> k, todo |-> k.dirs, crc |-> None]
  OBVIOUS
<1>3. job' = [e \in Contexts |-> IF e = k.ctx THEN x ELSE job[e]] /\ k.ctx \in Contexts
  BY <1>1, <1>2, CallsSound DEF ChannelInv, JobsSound
<1>4. x # NoJob /\ Job(x) /\ x.at = stage /\ x.call = k /\ x.todo = k.dirs /\ stage \in Stages
  BY <1>2, CallsSound DEF NoJob, Job, Stages
<1>5. /\ job[k.ctx] = NoJob /\ rxen' \in {rxen, rxen \ k.dirs}
      /\ UNCHANGED <<dre, carrier, line, txc>>
  BY DEF all_ir_sends, all_hp_ir_cmds, Starting, hw
<1>6. rxen' = rxen \/ stage = "crc"
  <2>1. CASE all_ir_sends(k)
    BY <2>1 DEF all_ir_sends, hw
  <2>2. CASE all_hp_ir_cmds(k)
    <3>1. job'[k.ctx].at = "crc"
      BY <1>3, <2>2 DEF all_hp_ir_cmds, ChannelInv, JobsSound
    <3> QED BY <1>3, <1>4, <3>1
  <2> QED BY <2>1, <2>2
<1>7. JobsSound'
  BY <1>3, <1>4, <1>5 DEF ChannelInv, JobsSound
<1>8. \A d \in Dirs : /\ ToEnable(d, {"mark", "enable"}) => ToEnable(d, {"mark", "enable"})'
                      /\ ToEnable(d, Stages) => ToEnable(d, Stages)'
                      /\ d \in k.dirs => ToEnable(d, Stages)'
  <2>1. \A e \in Contexts : job[e] # NoJob => job'[e] = job[e]
    BY <1>3, <1>5
  <2>2. job'[k.ctx] = x
    BY <1>3
  <2> QED BY <1>3, <1>4, <2>1, <2>2 DEF ToEnable
<1> QED BY <1>5, <1>7, <1>8 DEF ChannelInv, ChannelsAccounted

\* A send that goes on is still to enable the interrupts of its channels,
\* until it has.
LEMMA SendGoesOn ==
  ASSUME ChannelInv, NEW c \in Contexts, Claim(c) \/ Crc(c) \/ Mark(c) \/ Enable(c)
  PROVE  ChannelInv'
<1>1. job[c] # NoJob /\ JobsSound /\ Job(job[c])
  BY DEF Claim, Crc, Mark, Enable, At, NoJob, ChannelInv, JobsSound
<1>2. line' = line /\ txc' = txc
  BY DEF Claim, Crc, Mark, Enable, hw
<1>3. CASE Claim(c)
  <2>1. job' = Onward(c, "crc") /\ job[c].at = "claim" /\ "crc" \in Stages
    BY <1>3 DEF Claim, At, Stages
  <2>2. rxen' = rxen \ {Dir(c)} /\ UNCHANGED <<dre, carrier>>
    BY <1>3 DEF Claim
  <2>3. JobsSound'
    BY <1>1, <1>2, <2>1, OnwardIs DEF JobsSound
  <2>4. \A d \in Dirs : /\ ToEnable(d, {"mark", "enable"}) => ToEnable(d, {"mark", "enable"})'
                        /\ ToEnable(d, Stages) => ToEnable(d, Stages)'
                        /\ d = Dir(c) => ToEnable(d, Stages)'
    BY <1>1, <2>1, OnwardIs DEF ToEnable, Stages
  <2> QED BY <1>2, <2>2, <2>3, <2>4 DEF ChannelInv, ChannelsAccounted
<1>4. CASE Crc(c)
  <2> DEFINE x == [job[c] EXCEPT !.at = "mark", !.todo = job[c].call.dirs,
                       !.crc = Kept(CrcOf(ch[Dir(c)].flags, job[c].call.len, ch[Dir(c)].target, job[c].call.data))]
  <2>1. job' = [e \in Contexts |-> IF e = c THEN x ELSE job[e]] /\ job[c].at = "crc"
    BY <1>1, <1>4 DEF Crc, At, JobsSound
  <2>2. x # NoJob /\ Job(x) /\ x.at = "mark" /\ x.call = job[c].call
    <3>1. PICK j, q : /\ j = job[c]
                      /\ q = Kept(CrcOf(ch[Dir(c)].flags, job[c].call.len, ch[Dir(c)].target, job[c].call.data))
      OBVIOUS
    <3>2. x = [at |-> "mark", call |-> j.call, todo |-> j.call.dirs, crc |-> q]
      <4>1. x = [j EXCEPT !.at = "mark", !.todo = j.call.dirs, !.crc = q]
        BY <3>1
      <4>2. j = [at |-> j.at, call |-> j.call, todo |-> j.todo, crc |-> j.crc]
        BY <1>1, <3>1 DEF Job
      <4> HIDE DEF x
      <4> QED BY <4>1, <4>2
    <3>3. j.call \in Calls
      BY <1>1, <3>1 DEF Job
    <3> QED BY <3>1, <3>2, <3>3, CallsSound DEF Job, NoJob, Stages
  <2> HIDE DEF x
  <2>3. JobsSound'
    BY <1>1, <1>2, <2>1, <2>2 DEF JobsSound
  <2>4. \A d \in Dirs : /\ ToEnable(d, {"mark", "enable"}) => ToEnable(d, {"mark", "enable"})'
                        /\ ToEnable(d, Stages) => ToEnable(d, Stages)'
    <3>1. job'[c] = x /\ \A e \in Contexts \ {c} : job'[e] = job[e]
      BY <2>1
    <3> QED BY <2>1, <2>2, <3>1 DEF ToEnable, Stages
  <2>5. UNCHANGED <<rxen, dre, carrier>>
    BY <1>4 DEF Crc, hw
  <2> QED BY <1>2, <2>3, <2>4, <2>5 DEF ChannelInv, ChannelsAccounted
<1>5. CASE Mark(c)
  <2>1. job' = Onward(c, "enable") /\ job[c].at = "mark" /\ "enable" \in Stages
    BY <1>5 DEF Mark, At, Stages
  <2>2. carrier' = carrier \cup {Dir(c)} /\ UNCHANGED <<dre, rxen>>
    BY <1>5 DEF Mark
  <2>3. JobsSound'
    BY <1>1, <1>2, <2>1, OnwardIs DEF JobsSound
  <2>4. \A d \in Dirs : /\ ToEnable(d, {"mark", "enable"}) => ToEnable(d, {"mark", "enable"})'
                        /\ ToEnable(d, Stages) => ToEnable(d, Stages)'
                        /\ d = Dir(c) => ToEnable(d, {"mark", "enable"})'
    BY <1>1, <2>1, OnwardIs DEF ToEnable, Stages
  <2> QED BY <1>2, <2>2, <2>3, <2>4 DEF ChannelInv, ChannelsAccounted
<1>6. CASE Enable(c)
  <2>1. job[c].at = "enable" /\ "enable" \in Stages
    BY <1>6 DEF Enable, At, Stages
  <2>2. dre' = dre \cup {Dir(c)} /\ UNCHANGED <<rxen, carrier>>
    BY <1>6 DEF Enable
  <2>3. CASE job[c].todo = {Dir(c)}
    <3>1. job' = [e \in Contexts |-> IF e = c THEN NoJob ELSE job[e]]
      BY <1>1, <1>6, <2>3 DEF Enable, JobsSound
    <3>2. JobsSound'
      BY <1>1, <1>2, <3>1 DEF JobsSound, Job
    <3>3. \A d \in Dirs \ {Dir(c)} : /\ ToEnable(d, {"mark", "enable"}) => ToEnable(d, {"mark", "enable"})'
                                     /\ ToEnable(d, Stages) => ToEnable(d, Stages)'
      BY <2>1, <2>3, <3>1 DEF ToEnable
    <3> QED BY <1>2, <2>2, <3>2, <3>3 DEF ChannelInv, ChannelsAccounted
  <2>4. CASE job[c].todo # {Dir(c)}
    <3>1. job' = Onward(c, "enable")
      BY <1>6, <2>4 DEF Enable
    <3>2. JobsSound'
      BY <1>1, <1>2, <2>1, <3>1, OnwardIs DEF JobsSound
    <3>3. \A d \in Dirs \ {Dir(c)} : /\ ToEnable(d, {"mark", "enable"}) => ToEnable(d, {"mark", "enable"})'
                                     /\ ToEnable(d, Stages) => ToEnable(d, Stages)'
      BY <1>1, <2>1, <2>4, <3>1, OnwardIs DEF ToEnable
    <3> QED BY <1>2, <2>2, <3>2, <3>3 DEF ChannelInv, ChannelsAccounted
  <2> QED BY <2>3, <2>4
<1> QED BY <1>3, <1>4, <1>5, <1>6

\* The interrupts of a channel hand on what ends its transmission.
LEMMA InterruptHandsOn ==
  ASSUME ChannelInv, NEW d \in Dirs,
         irTransmit(d) \/ ByteOut(d) \/ irTransmitComplete(d) \/ Quiet(d) \/ receivedIrCmd(d)
  PROVE  ChannelInv'
<1>1. job' = job /\ line \in [Dirs -> Nat] /\ JobsSound
  BY DEF ChannelInv, JobsSound, irTransmit, ByteOut, irTransmitComplete, Quiet, receivedIrCmd
<1>2. \A e \in Dirs : /\ ToEnable(e, {"mark", "enable"}) <=> ToEnable(e, {"mark", "enable"})'
                      /\ ToEnable(e, Stages) <=> ToEnable(e, Stages)'
  BY <1>1 DEF ToEnable
<1>3. CASE irTransmit(d)
  <2>1. /\ line' = [line EXCEPT ![d] = @ + 1] /\ UNCHANGED <<carrier, txc>>
        /\ UNCHANGED <<rxen, dre>> \/ (rxen' = rxen \cup {d} /\ dre' = dre \ {d})
    BY <1>3 DEF irTransmit, clearIrBuffer
  <2>2. line' \in [Dirs -> Nat] /\ line'[d] > 0 /\ \A e \in Dirs \ {d} : line'[e] = line[e]
    BY <1>1, <2>1
  <2> QED BY <1>1, <1>2, <2>1, <2>2 DEF ChannelInv, ChannelsAccounted, JobsSound
<1>4. CASE ByteOut(d)
  <2>1. /\ line[d] > 0 /\ line' = [line EXCEPT ![d] = @ - 1] /\ UNCHANGED <<carrier, rxen, dre>>
        /\ txc' = IF line[d] = 1 THEN txc \cup {d} ELSE txc
    BY <1>4 DEF ByteOut
  <2>2. line' \in [Dirs -> Nat] /\ (line'[d] > 0 \/ d \in txc') /\ \A e \in Dirs \ {d} : line'[e] = line[e]
    BY <1>1, <2>1
  <2>3. txc \subseteq txc'
    BY <2>1
  <2> QED BY <1>1, <1>2, <2>1, <2>2, <2>3 DEF ChannelInv, ChannelsAccounted, JobsSound
<1>5. CASE irTransmitComplete(d)
  <2>1. /\ txc' = txc \ {d} /\ rxen' = rxen \cup {d} /\ carrier' = carrier \ {d} /\ UNCHANGED <<dre, line>>
    BY <1>5 DEF irTransmitComplete
  <2> QED BY <1>1, <1>2, <2>1 DEF ChannelInv, ChannelsAccounted, JobsSound
<1>6. CASE Quiet(d) \/ receivedIrCmd(d)
  <2>1. UNCHANGED <<carrier, dre, line, txc>> /\ rxen \subseteq rxen'
    BY <1>6 DEF Quiet, receivedIrCmd, clearIrBuffer
  <2> QED BY <1>1, <1>2, <2>1 DEF ChannelInv, ChannelsAccounted, JobsSound
<1> QED BY <1>3, <1>4, <1>5, <1>6

\* Every step of a send and of an interrupt hands a channel on or frees it.
LEMMA ChannelStep == ASSUME ChannelInv, [Next]_vars PROVE ChannelInv'
<1>1. CASE UNCHANGED vars \/ CopyCmd \/ HandleCmd \/ FreeCmd
  <2>1. UNCHANGED <<job, line, rxen, dre, carrier, txc>>
    BY <1>1 DEF vars, hw, CopyCmd, HandleCmd, FreeCmd
  <2> QED BY <2>1 DEF ChannelInv, ChannelsAccounted, JobsSound, ToEnable
<1>2. CASE Next /\ ~(CopyCmd \/ HandleCmd \/ FreeCmd)
  BY <1>2, SendBegins, SendGoesOn, InterruptHandsOn DEF Next
<1> QED BY <1>1, <1>2

\* A carrier that is on has a byte or an interrupt to come that turns it off, and
\* a receiver that is off has a send under way that turns it on, for every set of
\* channels, contexts and calls.
THEOREM ChannelsAreAccounted == Spec => []ChannelsAccounted
<1>1. ChannelInv => ChannelsAccounted
  BY DEF ChannelInv
<1> QED BY <1>1, ChannelsBegin, ChannelStep, PTL DEF Spec

\* What is in the slot while the wrapper is at each of its points.
SlotInv ==
  /\ handled \in Seq(Nat) /\ cmdBuffer \in Nat /\ localCopy \in Nat
  /\ budget = [calls |-> budget.calls, sends |-> budget.sends, cmds |-> budget.cmds, wall |-> budget.wall]
  /\ budget.cmds \in Nat
  /\ \/ wrapper = "none" /\ ~cmdFlag /\ accepted = handled
     \/ wrapper = "queued" /\ cmdFlag /\ accepted = Append(handled, cmdBuffer)
     \/ wrapper = "copied" /\ cmdFlag /\ accepted = Append(handled, cmdBuffer) /\ localCopy = cmdBuffer
     \/ wrapper = "handled" /\ cmdFlag /\ accepted = handled

\* Commands are handled once, in order, with the text they came with; one at most
\* waits in the slot, and while its flag is set the task that gives it back is due.
CommandsInOrder ==
  /\ IsPrefix(handled, accepted) /\ Len(accepted) <= Len(handled) + 1
  /\ ~cmdFlag => handled = accepted
  /\ cmdFlag => wrapper # "none"

\* At first no command was accepted.
LEMMA SlotBegins == Init => SlotInv
<1> SUFFICES ASSUME Init PROVE SlotInv
  OBVIOUS
<1>1. budget \in [calls : SUBSET Calls, sends : Nat, cmds : Nat, wall : SUBSET Dirs]
  BY IrCommAssumption DEF Init
<1>2. handled \in Seq(Nat) /\ cmdBuffer \in Nat /\ localCopy \in Nat
  BY DEF Init
<1> QED BY <1>1, <1>2, Zenon DEF Init, SlotInv

\* The interrupt fills the slot only when it is empty, and the task empties it.
LEMMA SlotStep == ASSUME SlotInv, [Next]_vars PROVE SlotInv'
<1> DEFINE Fields(b) == b = [calls |-> b.calls, sends |-> b.sends, cmds |-> b.cmds, wall |-> b.wall]
<1>1. CASE UNCHANGED cmds /\ UNCHANGED budget
  BY <1>1 DEF cmds, SlotInv
<1>2. ASSUME NEW k \in Calls, all_ir_sends(k) \/ all_hp_ir_cmds(k)
      PROVE  SlotInv'
  <2>1. UNCHANGED cmds /\ budget' = [budget EXCEPT !.sends = @ - 1]
    BY <1>2 DEF all_ir_sends, all_hp_ir_cmds
  <2>2. Fields(budget') /\ budget'.cmds = budget.cmds
    BY <2>1 DEF SlotInv
  <2> QED BY <2>1, <2>2 DEF SlotInv, cmds
<1>3. ASSUME NEW d \in Dirs, receivedIrCmd(d)
      PROVE  SlotInv'
  <2>1. budget.cmds > 0 /\ budget' = [budget EXCEPT !.cmds = @ - 1] /\ UNCHANGED <<localCopy, handled>>
    BY <1>3 DEF receivedIrCmd
  <2>2. Fields(budget') /\ budget'.cmds \in Nat
    BY <2>1 DEF SlotInv
  <2>3. CASE cmdFlag
    <3>1. UNCHANGED <<wrapper, cmdFlag, cmdBuffer, accepted>>
      BY <1>3, <2>3, Zenon DEF receivedIrCmd
    <3> QED BY <2>1, <2>2, <3>1 DEF SlotInv
  <2>4. CASE ~cmdFlag
    <3>1. cmdFlag' /\ wrapper' = "queued" /\ cmdBuffer' = budget.cmds /\ accepted' = Append(accepted, budget.cmds)
      BY <1>3, <2>4, Zenon DEF receivedIrCmd
    <3>2. accepted = handled
      BY <2>4, Zenon DEF SlotInv
    <3> QED BY <2>1, <2>2, <3>1, <3>2 DEF SlotInv
  <2> QED BY <2>3, <2>4
<1>4. CASE CopyCmd
  <2>1. wrapper = "queued" /\ wrapper' = "copied" /\ localCopy' = cmdBuffer
        /\ UNCHANGED <<budget, cmdFlag, cmdBuffer, accepted, handled>>
    BY <1>4 DEF CopyCmd
  <2> QED BY <2>1 DEF SlotInv
<1>5. CASE HandleCmd
  <2>1. wrapper = "copied" /\ wrapper' = "handled" /\ handled' = Append(handled, localCopy)
        /\ UNCHANGED <<budget, cmdFlag, cmdBuffer, localCopy, accepted>>
    BY <1>5 DEF HandleCmd
  <2> QED BY <2>1 DEF SlotInv
<1>6. CASE FreeCmd
  <2>1. wrapper = "handled" /\ wrapper' = "none" /\ ~cmdFlag'
        /\ UNCHANGED <<budget, cmdBuffer, localCopy, accepted, handled>>
    BY <1>6, Zenon DEF FreeCmd
  <2> QED BY <2>1 DEF SlotInv
<1>7. ASSUME NEW c \in Contexts, Claim(c) \/ Crc(c) \/ Mark(c) \/ Enable(c)
      PROVE  UNCHANGED cmds /\ UNCHANGED budget
  BY <1>7 DEF Claim, Crc, Mark, Enable
<1>8. ASSUME NEW d \in Dirs, irTransmit(d) \/ ByteOut(d) \/ irTransmitComplete(d) \/ Quiet(d)
      PROVE  UNCHANGED cmds /\ UNCHANGED budget
  BY <1>8 DEF irTransmit, ByteOut, irTransmitComplete, Quiet, cmds
<1>9. CASE UNCHANGED vars
  BY <1>1, <1>9 DEF vars
<1> QED BY <1>1, <1>2, <1>3, <1>4, <1>5, <1>6, <1>7, <1>8, <1>9 DEF Next

\* Every command that is accepted is handled once, in order, with the text it came
\* with, and the flag is not left behind: the safety half of CommandsServed, whose other half is liveness.
THEOREM CommandsAreInOrder == Spec => []CommandsInOrder
<1>1. SlotInv => CommandsInOrder
  <2> SUFFICES ASSUME SlotInv PROVE CommandsInOrder
    OBVIOUS
  <2>1. PICK h \in Seq(Nat), b \in Nat : h = handled /\ b = cmdBuffer
    BY DEF SlotInv
  <2>2. cmdFlag => wrapper # "none"
    BY DEF SlotInv
  <2>3. CASE accepted = h
    BY <2>1, <2>2, <2>3 DEF CommandsInOrder, IsPrefix
  <2>4. CASE accepted = Append(h, b) /\ cmdFlag
    <3>1. Len(Append(h, b)) = Len(h) + 1 /\ SubSeq(h, 1, Len(h)) = SubSeq(Append(h, b), 1, Len(h))
      BY <2>1
    <3> QED BY <2>1, <2>2, <2>4, <3>1 DEF CommandsInOrder, IsPrefix
  <2> QED BY <2>1, <2>3, <2>4 DEF SlotInv
<1> QED BY <1>1, SlotBegins, SlotStep, PTL DEF Spec
=============================================================================
