------------------------------- MODULE IrComm -------------------------------
(***************************************************************************)
(* The infrared channels of a droplet: sending and the command slot of     *)
(* droplet_code/src/ir_comm.c.                                             *)
(*                                                                         *)
(* A channel is half duplex: one struct, ir_rxtx[dir], serves reception    *)
(* and transmission.  Sends are called by the main program and by tasks,   *)
(* which preempt it, and interrupts carry them out byte by byte.  Nothing  *)
(* but `status` keeps these contexts apart, and a received command resets  *)
(* the struct of all channels, the sending ones too.                       *)
(*                                                                         *)
(* Frames of neighbours are modelled as a whole (what becomes of messages  *)
(* is in MsgQueue, of timed commands in Rnb and Firefly); single bytes are *)
(* received here only as the echo of the droplet's own.                    *)
(***************************************************************************)
EXTENDS Naturals, Sequences, SequencesExt, FiniteSets, FiniteSetsExt

CONSTANTS
  Dirs,       \* the channels (0 .. 5)
  Calls,      \* the sends: [ctx, hp, dirs, len, target, cmd, data]
  Budgets,    \* bounds on a behaviour: [calls, sends, cmds, wall], which sends
              \* are made, how many are carried out, how many commands are
              \* received, and which channels hear their own bytes
  Header,     \* the fields of the header, one per byte
  TrackData,  \* whether to record the values of fields and the bytes on the air
  None, Elapsed, Junk  \* values of fields: cleared, a time span, a mixture

HeaderLen == Len(Header)
Contexts  == {"main", "task"}

ASSUME IrCommAssumption ==
  /\ Dirs \subseteq Nat /\ IsFiniteSet(Dirs)
  /\ \A k \in Calls : /\ k.ctx \in Contexts /\ k.hp \in BOOLEAN /\ k.cmd \in BOOLEAN
                      /\ k.dirs \in (SUBSET Dirs) \ {{}} /\ k.len \in Nat
  /\ Header \in Seq({"sender", "crc", "len", "target"}) /\ Header # <<>>
  /\ Budgets \subseteq [calls : SUBSET Calls, sends : Nat, cmds : Nat, wall : SUBSET Dirs] 
  /\ TrackData \in BOOLEAN

VARIABLES
  ch,       \* ir_rxtx: [flags, pos, len, target, sender, crc, data]
  rxen,     \* channels whose receiver is on (USART_RXEN)
  dre,      \* channels whose data-register-empty interrupt is on
  carrier,  \* channels whose carrier wave is on
  line,     \* per channel, the bytes in the USART: data and shift register
  txc,      \* channels with a transmit-complete interrupt pending
  fresh,    \* channels whose last_byte is less than IR_MSG_TIMEOUT old; kept
            \* for those that hear themselves, which alone depend on it here
  job,      \* per context, the send it is carrying out
  budget,   \* what the behaviour may still contain
  wrapper,  \* handleCmdWrapper: "none", "queued", "copied" or "handled"
  cmdFlag,  \* processingCmdFlag
  cmdBuffer, localCopy,  \* a command, in the slot and on the wrapper's stack
  accepted, handled,     \* the commands that were accepted and handled
  air       \* per channel, the bytes sent since it was last quiet

hw   == <<rxen, dre, carrier, line, txc, fresh>>
cmds == <<wrapper, cmdFlag, cmdBuffer, localCopy, accepted, handled>>
vars == <<ch, hw, job, budget, cmds, air>>

Cleared == [flags |-> {}, pos |-> 0, len |-> 0, target |-> None,
            sender |-> None, crc |-> None, data |-> None]
NoJob   == [at |-> "idle"]
Kept(v) == IF TrackData THEN v ELSE None

\* irCommInit
Init ==
  /\ ch = [d \in Dirs |-> Cleared] /\ rxen = Dirs
  /\ dre = {} /\ carrier = {} /\ line = [d \in Dirs |-> 0] /\ txc = {} /\ fresh = {}
  /\ job = [c \in Contexts |-> NoJob]
  /\ wrapper = "none" /\ cmdFlag = FALSE /\ cmdBuffer = 0 /\ localCopy = 0
  /\ accepted = <<>> /\ handled = <<>>
  /\ budget \in Budgets /\ air = [d \in Dirs |-> <<>>]

----------------------------------------------------------------------------
(* Sending, in the main program and in tasks, one channel after the other. *)

\* A task that has started runs to its end before the main program goes on.
TaskBusy    == job["task"] # NoJob \/ wrapper \in {"copied", "handled"}
Running(c)  == c = "task" \/ ~TaskBusy
Starting(k) ==
  /\ k \in budget.calls /\ budget.sends > 0
  /\ job[k.ctx] = NoJob /\ ~TaskBusy

\* irIsBusy: the bits for a timed command, and for a transmission
TimedOn(dirs)        == \E d \in dirs : {"timed", "command"} \subseteq ch[d].flags
TransmittingOn(dirs) == \E d \in dirs : "transmitting" \in ch[d].flags

\* A call that irIsBusy refuses returns 0 and changes nothing.
all_ir_sends(k) ==
  /\ ~k.hp /\ Starting(k) /\ ~TimedOn(k.dirs) /\ ~TransmittingOn(k.dirs)
  /\ job' = [job EXCEPT ![k.ctx] = [at |-> "claim", call |-> k, todo |-> k.dirs, crc |-> None]]
  /\ budget' = [budget EXCEPT !.sends = @ - 1]
  /\ UNCHANGED <<ch, hw, cmds, air>>

Claimed(d, k, flags) == [ch[d] EXCEPT !.flags = flags, !.target = Kept(k.target)]

\* all_hp_ir_cmds checks and claims in one atomic block.  All its callers in
\* the repository ask for a timed command, so `timed` is always assigned.
all_hp_ir_cmds(k) ==
  /\ k.hp /\ Starting(k) /\ ~TimedOn(k.dirs)
  /\ ch' = [d \in Dirs |-> IF d \in k.dirs THEN Claimed(d, k, {"busy", "command", "timed"})
                                            ELSE ch[d]]
  /\ rxen' = rxen \ k.dirs
  /\ job' = [job EXCEPT ![k.ctx] = [at |-> "crc", call |-> k, todo |-> k.dirs, crc |-> None]]
  /\ budget' = [budget EXCEPT !.sends = @ - 1]
  /\ UNCHANGED <<dre, carrier, line, txc, fresh, cmds, air>>

\* The next channel of the loop that context c is in; after the last one
\* the loop that follows starts over with all channels of the call.
Dir(c)         == Min(job[c].todo)
At(c, stage)   == job[c].at = stage /\ Running(c)

Onward(c, stage) ==
  LET rest == job[c].todo \ {Dir(c)}
  IN  IF rest # {} THEN [job EXCEPT ![c].todo = rest]
      ELSE [job EXCEPT ![c].at = stage, ![c].todo = job[c].call.dirs]

Claim(c) ==
  /\ At(c, "claim")
  /\ LET k == job[c].call
         flags == {"busy"} \cup (IF k.cmd THEN {"command"} ELSE {})
     IN  ch' = [ch EXCEPT ![Dir(c)] = Claimed(Dir(c), k, flags)]
  /\ rxen' = rxen \ {Dir(c)}
  /\ job' = Onward(c, "crc")
  /\ UNCHANGED <<dre, carrier, line, txc, fresh, budget, cmds, air>>

\* send_msg: the checksum, over flags and target of the first channel as they
\* are now.  Different arguments are taken to have different checksums.
CrcOf(flags, len, target, data) ==
  [bits |-> flags \cap {"command", "timed"}, len |-> len,
   target |-> IF "timed" \in flags THEN None ELSE target, data |-> data]

Crc(c) ==
  /\ At(c, "crc")
  /\ LET k == job[c].call  r == ch[Dir(c)]
     IN  job' = [job EXCEPT ![c].at = "mark", ![c].todo = k.dirs,
                            ![c].crc = Kept(CrcOf(r.flags, k.len, r.target, k.data))]
  /\ UNCHANGED <<ch, hw, budget, cmds, air>>

Mark(c) ==
  /\ At(c, "mark")
  /\ ch' = [ch EXCEPT ![Dir(c)] =
              [@ EXCEPT !.flags = @ \cup {"transmitting"}, !.pos = 0, !.len = job[c].call.len,
                        !.sender = Kept("own"), !.crc = job[c].crc,
                        !.data = Kept(job[c].call.data)]]
  /\ carrier' = carrier \cup {Dir(c)}
  /\ job' = Onward(c, "enable")
  /\ UNCHANGED <<rxen, dre, line, txc, fresh, budget, cmds, air>>

\* mutant: a channel that was reset in between is passed over
EnableMarked(c) ==
  /\ At(c, "enable")
  /\ dre' = IF "transmitting" \in ch[Dir(c)].flags THEN dre \cup {Dir(c)} ELSE dre
  /\ fresh' = fresh \ {Dir(c)}
  /\ job' = IF job[c].todo = {Dir(c)} THEN [job EXCEPT ![c] = NoJob] ELSE Onward(c, "enable")
  /\ UNCHANGED <<ch, rxen, carrier, line, txc, budget, cmds, air>>

Enable(c) ==
  /\ At(c, "enable")
  /\ dre' = dre \cup {Dir(c)} /\ fresh' = fresh \ {Dir(c)}
  /\ job' = IF job[c].todo = {Dir(c)} THEN [job EXCEPT ![c] = NoJob] ELSE Onward(c, "enable")
  /\ UNCHANGED <<ch, rxen, carrier, line, txc, budget, cmds, air>>

----------------------------------------------------------------------------
(* The interrupts of a channel, and the USART.                             *)

\* clearIrBuffer leaves the interrupt and the carrier as they are.
clearIrBuffer(dirs) ==
  /\ ch' = [d \in Dirs |-> IF d \in dirs THEN Cleared ELSE ch[d]]
  /\ rxen' = rxen \cup dirs

Field(r) == IF r.pos < HeaderLen THEN Header[r.pos + 1] ELSE "data"

Byte(r) ==
  IF Field(r) = "len" THEN <<"len", [len |-> r.len, bits |-> r.flags \cap {"command", "timed"}]>>
                      ELSE <<Field(r), r[Field(r)]>>

\* Just before its first byte the target of a timed command is replaced by
\* the time that has passed.
Stamped(r) ==
  IF Field(r) = "target" /\ (r.pos = 0 \/ Header[r.pos] # "target") /\ "timed" \in r.flags
  THEN [r EXCEPT !.target = Kept(Elapsed)] ELSE r

irTransmit(d) ==
  /\ d \in dre /\ line[d] < 2
  /\ LET r == Stamped(ch[d])
     IN  /\ air' = IF TrackData THEN [air EXCEPT ![d] = Append(@, Byte(r))] ELSE air
         /\ \/ /\ r.pos + 1 >= r.len + HeaderLen
               /\ clearIrBuffer({d}) /\ dre' = dre \ {d}
            \/ /\ r.pos + 1 < r.len + HeaderLen
               /\ ch' = [ch EXCEPT ![d] = [r EXCEPT !.pos = @ + 1]]
               /\ UNCHANGED <<rxen, dre>>
  /\ line' = [line EXCEPT ![d] = @ + 1]
  /\ UNCHANGED <<carrier, txc, fresh, job, budget, cmds>>

\* irReceive for a byte of the droplet's own, which an open receiver hears:
\* the struct's position counts received and transmitted bytes alike.  What
\* such a mixture completes has the droplet's ID or a wrong checksum.  Of
\* its flags irIsBusy asks only whether both are set.
Echo(d, bits, len) ==
  LET s == IF d \in fresh THEN ch[d] ELSE Cleared
      r == IF Field(s) = "len" THEN [s EXCEPT !.flags = @ \cup bits, !.len = len]
                               ELSE [s EXCEPT ![Field(s)] = Kept(Junk)]
  IN  IF r.pos + 1 >= r.len + HeaderLen THEN Cleared ELSE [r EXCEPT !.pos = @ + 1]

ByteOut(d) ==
  /\ line[d] > 0 /\ line' = [line EXCEPT ![d] = @ - 1]
  /\ txc' = IF line[d] = 1 THEN txc \cup {d} ELSE txc
  /\ IF d \in rxen \cap budget.wall
     THEN /\ \E bits \in {{}, {"command", "timed"}}, len \in {k.len : k \in Calls} :
                ch' = [ch EXCEPT ![d] = Echo(d, bits, len)]
          /\ fresh' = fresh \cup {d}
     ELSE UNCHANGED <<ch, fresh>>
  /\ UNCHANGED <<rxen, dre, carrier, job, budget, cmds, air>>

\* mutant: the carrier is turned off only for a frame that is still marked
CompleteMarked(d) ==
  /\ d \in txc /\ txc' = txc \ {d}
  /\ ch' = [ch EXCEPT ![d] = Cleared] /\ rxen' = rxen \cup {d}
  /\ carrier' = IF "transmitting" \in ch[d].flags THEN carrier \ {d} ELSE carrier
  /\ UNCHANGED <<dre, line, fresh, job, budget, cmds, air>>

\* The interrupt comes when the last byte is out, however long after
\* irTransmit has given the channel back.
irTransmitComplete(d) ==
  /\ d \in txc /\ txc' = txc \ {d}
  /\ ch' = [ch EXCEPT ![d] = [@ EXCEPT !.flags = {}, !.len = 0, !.pos = 0,
                                       !.target = None, !.sender = None]]
  /\ rxen' = rxen \cup {d} /\ carrier' = carrier \ {d}
  /\ UNCHANGED <<dre, line, fresh, job, budget, cmds, air>>

\* IR_MSG_TIMEOUT passes without a byte, here and at the neighbours.
Quiet(d) ==
  /\ line[d] = 0 /\ (d \in fresh \/ air[d] # <<>>)
  /\ fresh' = fresh \ {d} /\ air' = [air EXCEPT ![d] = <<>>]
  /\ UNCHANGED <<ch, rxen, dre, carrier, line, txc, job, budget, cmds>>

----------------------------------------------------------------------------
(* The command slot.                                                       *)

\* receivedIrCmd, when a neighbour's command is complete on channel d: the
\* first takes the slot and resets all channels, others are dropped.  A
\* command is known by its number; the task table has room (scheduleTask).
receivedIrCmd(d) ==
  /\ d \in rxen \ dre /\ line[d] = 0 /\ budget.cmds > 0
  /\ budget' = [budget EXCEPT !.cmds = @ - 1]
  /\ \/ /\ ~cmdFlag /\ cmdFlag' = TRUE /\ wrapper' = "queued"
        /\ cmdBuffer' = budget.cmds /\ accepted' = Append(accepted, budget.cmds)
        /\ clearIrBuffer(Dirs)
     \/ cmdFlag /\ clearIrBuffer({d}) /\ UNCHANGED <<wrapper, cmdFlag, cmdBuffer, accepted>>
  /\ fresh' = fresh \cup ({d} \cap budget.wall)
  /\ UNCHANGED <<dre, carrier, line, txc, job, localCopy, handled, air>>

\* mutant: the slot is free once its text is copied
CopyAndFree ==
  /\ wrapper = "queued" /\ job["task"] = NoJob
  /\ wrapper' = "copied" /\ localCopy' = cmdBuffer /\ cmdFlag' = FALSE
  /\ UNCHANGED <<ch, hw, job, budget, cmdBuffer, accepted, handled, air>>

\* handleCmdWrapper, a task
CopyCmd ==
  /\ wrapper = "queued" /\ job["task"] = NoJob
  /\ wrapper' = "copied" /\ localCopy' = cmdBuffer
  /\ UNCHANGED <<ch, hw, job, budget, cmdFlag, cmdBuffer, accepted, handled, air>>

HandleCmd ==
  /\ wrapper = "copied" /\ wrapper' = "handled"
  /\ handled' = Append(handled, localCopy)
  /\ UNCHANGED <<ch, hw, job, budget, cmdFlag, cmdBuffer, localCopy, accepted, air>>

FreeCmd ==
  /\ wrapper = "handled" /\ wrapper' = "none" /\ cmdFlag' = FALSE
  /\ UNCHANGED <<ch, hw, job, budget, cmdBuffer, localCopy, accepted, handled, air>>

----------------------------------------------------------------------------
Next ==
  \/ \E k \in Calls : all_ir_sends(k)
  \/ \E k \in Calls : all_hp_ir_cmds(k)
  \/ \E c \in Contexts : Claim(c)
  \/ \E c \in Contexts : Crc(c)
  \/ \E c \in Contexts : Mark(c)
  \/ \E c \in Contexts : Enable(c)
  \/ \E d \in Dirs : irTransmit(d)
  \/ \E d \in Dirs : ByteOut(d)
  \/ \E d \in Dirs : irTransmitComplete(d)
  \/ \E d \in Dirs : Quiet(d)
  \/ \E d \in Dirs : receivedIrCmd(d)
  \/ CopyCmd \/ HandleCmd \/ FreeCmd

\* The hardware sends what it has, interrupts are served, code that runs goes
\* on, and a queued task is started.
Fairness ==
  /\ WF_vars(\/ \E c \in Contexts : Claim(c) \/ Crc(c) \/ Mark(c) \/ Enable(c)
             \/ CopyCmd \/ HandleCmd \/ FreeCmd)
  /\ \A d \in Dirs : WF_vars(irTransmit(d) \/ ByteOut(d) \/ irTransmitComplete(d))

Spec     == Init /\ [][Next]_vars
FairSpec == Spec /\ Fairness

----------------------------------------------------------------------------
Stages == {"claim", "crc", "mark", "enable"}

\* Some send will still enable the interrupt of channel d.
ToEnable(d, stages) ==
  \E c \in Contexts : /\ job[c] # NoJob /\ job[c].at \in stages /\ d \in job[c].call.dirs
                      /\ job[c].at = "enable" => d \in job[c].todo

\* No carrier is left on and no receiver left off: whatever sends, commands
\* and late interrupts do to a channel in between, a carrier that is on has a
\* byte or an interrupt to come that ends it, and a receiver that is off has
\* a send under way that turns it on.
ChannelsAccounted ==
  \A d \in Dirs :
    /\ d \in carrier => d \in dre \/ line[d] > 0 \/ d \in txc \/ ToEnable(d, {"mark", "enable"})
    /\ d \notin rxen => d \in dre \/ ToEnable(d, Stages)

\* Every channel that does not hear itself becomes free again: its carrier
\* goes off and its receiver on, so that waitForTransmission returns and
\* frames can be heard.  (A channel that does may complete its own echo again
\* and again, each time before the interrupt has sent all bytes.)
ChannelsReturn ==
  \A d \in Dirs : d \notin budget.wall /\ (d \in carrier \/ d \notin rxen) ~> (d \notin carrier /\ d \in rxen)

\* The slot: every command that is accepted is handled, once, in order, with
\* the text it came with, although it is received in an interrupt and handled
\* in a task that interrupts the main program.
CommandsServed == []IsPrefix(handled, accepted) /\ (cmdFlag ~> ~cmdFlag)

\* What neighbours take for a frame of this droplet: complete, with a checksum
\* that fits.
Value(s, f)  == s[CHOOSE i \in 1 .. Len(s) : s[i][1] = f][2]
TextOf(s)      == IF Value(s, "len").len = 0 THEN None ELSE Value(s, "data")
Complete(s)  == /\ Len(s) >= HeaderLen /\ \A i \in 1 .. HeaderLen : s[i][1] = Header[i]
                /\ Len(s) = HeaderLen + Value(s, "len").len
                /\ \A i \in HeaderLen + 1 .. Len(s) : s[i][1] = "data"
                /\ \A i, j \in 1 .. Len(s) : s[i][1] = s[j][1] => s[i] = s[j]
Fits(s)      == /\ Value(s, "sender") = "own"
                /\ LET bl == Value(s, "len")
                   IN  Value(s, "crc") = CrcOf(bl.bits, bl.len, Value(s, "target"), TextOf(s))

\* "The ID of the Droplet the message is targeted to. Only that Droplet will get
\* this message" (DropletAPI.md:51): a frame with the text of a targeted send
\* names its target, which a timed command, that every neighbour obeys, does not.
OnlyTargetGets ==
  \A d \in Dirs : Complete(air[d]) /\ Fits(air[d]) =>
    \A k \in Calls : k.target # None /\ k.len > 0 /\ TextOf(air[d]) = k.data
      => "timed" \notin Value(air[d], "len").bits /\ Value(air[d], "target") = k.target
=============================================================================
