--------------------------- MODULE MouseKeyboard ---------------------------
(***************************************************************************)
(* The mouse and keyboard program on one droplet: mouseKeyboard.c with its *)
(* event log, button_press_queue.c.                                        *)
(*                                                                         *)
(* A droplet is a key, or a mouse, by where it lies.  The microphone's     *)
(* interrupt logs a press; messages log the presses of others.  With every *)
(* slot of the frame the main loop asks the log for an event of the slot   *)
(* that ended, and prints it when the droplet is wired to the host or else *)
(* sends it.  All of it but the interrupt and the retries, which are       *)
(* tasks, runs in the main loop; the serial commands are an interrupt too. *)
(*                                                                         *)
(* The positions that checkPosition samples may give any button.  How a    *)
(* mouse tells its moves in the slot before the last (prepMouseMoveMsg,    *)
(* sendMouseMoveMsg and its retry), colours, blinking and the frame of     *)
(* unassigned droplets, but for its start, are left out.                   *)
(***************************************************************************)
EXTENDS Integers, Sequences

CONSTANTS
  Me, Others,
  Multipress,  \* MIN_MULTIPRESS_DELAY
  SlotLength,  \* MK_SLOT_LENGTH
  Slots,       \* MK_SLOTS_PER_FRAME
  LogSize,     \* NUM_LOGGED_EVENTS
  PressTries,  \* 6: after so many a message is given up
  LongestTurn, \* the longest a turn of the main loop takes
  KeyStarts    \* how a behaviour starts, and bounds on it, as start

FrameLength == SlotLength * Slots
NoSlot      == -1                      \* 0xFFFF in loopID
Word        == 65536                   \* of unsigned int, which has 16 bits

Buttons == {"unknown", "key", "shift", "left", "right", "caps_on", "caps_off", "move"}

\* A turn of the loop takes less than a frame, of three seconds.
KeyAssumption ==
  /\ Me \notin Others
  /\ {Multipress, SlotLength, Slots, LogSize, LongestTurn} \subseteq Nat \ {0} /\ PressTries \in Nat
  /\ FrameLength < Word /\ LongestTurn <= FrameLength
  /\ KeyStarts \subseteq [button : Buttons \ {"move"}, settled : BOOLEAN, at : Nat, ticks : Nat,
                          presses : Nat, messages : Nat, commands : Nat, roles : Nat]
  /\ \A s \in KeyStarts : s.settled => s.button # "unknown"
ASSUME KeyAssumption

VARIABLES
  now,       \* getTime
  lastTurn,  \* when the main loop last ran
  frameStart, loopID, prevLoopID,
  myButton,  \* "key", "shift", "left", "right" or "unknown"
  lastKeypress,
  eventLog,  \* places with an event [time, src, button] or NoEvent
  isShifted, isWired, periodicBroadcast,
  sleepTask, \* wireSleepTask: "none", "armed", or "run" when its task has run
  armed,     \* how many wireSleep tasks are scheduled
  waiting,   \* messages to send again, [evt, tries]
  followed,  \* the events the loop took from the log, in order
  added,     \* the last press that addEvent said it added
  crowded,   \* another event for the same turn is in the log with it or came after,
             \* or came when none in the log was older than it
  start      \* [button, settled, at, ticks, presses, messages, commands, roles]: the
             \* button, that it was known and no command has given another, the
             \* time, and how many there are still to be

keyVars == <<now, lastTurn, frameStart, loopID, prevLoopID, myButton, lastKeypress, eventLog,
             isShifted, isWired, periodicBroadcast, sleepTask, armed, waiting, followed,
             added, crowded, start>>
frameVars == <<lastTurn, frameStart, loopID, prevLoopID, waiting, followed>>
wireVars  == <<isWired, sleepTask, armed>>

NoEvent == [time |-> -1, src |-> "nobody", button |-> "unknown"]

\* init: the droplet may know its place, and so its button, or be told later
KeyInit ==
  /\ start \in KeyStarts
  /\ now = start.at /\ lastTurn = now /\ frameStart = now
  /\ loopID = NoSlot /\ prevLoopID = 0 /\ myButton = start.button /\ lastKeypress = 0
  /\ eventLog = [i \in 1 .. LogSize |-> NoEvent]
  /\ isShifted = FALSE /\ isWired = FALSE /\ periodicBroadcast = FALSE
  /\ sleepTask = "none" /\ armed = 0 /\ waiting = {} /\ followed = <<>>
  /\ added = NoEvent /\ crowded = FALSE

Role == CASE myButton = "unknown"         -> "unknown"
          [] myButton \in {"left", "right"} -> "mouse"
          [] OTHER                          -> "keyboard"

Spend(what) == /\ start[what] > 0
               /\ start' = [start EXCEPT ![what] = @ - 1]

-----------------------------------------------------------------------------
(* The event log *)

sameEvent(a, b) == /\ a.time % Multipress = b.time % Multipress
                   /\ a.src = b.src /\ a.button = b.button

\* addEvent: unless it is logged, into the first free place or over the oldest
LogWith(log, evt) ==
  LET free   == {i \in 1 .. LogSize : log[i] = NoEvent}
      oldest == {i \in 1 .. LogSize : \A j \in 1 .. LogSize : log[i].time <= log[j].time}
      first(S) == CHOOSE i \in S : \A j \in S : i <= j
      last(S)  == CHOOSE i \in S : \A j \in S : j <= i
  IN [log EXCEPT ![IF free # {} THEN first(free) ELSE last(oldest)] = evt]

Logged(log, evt)   == \E i \in 1 .. LogSize : log[i] # NoEvent /\ sameEvent(evt, log[i])
addEvent(log, evt) == IF Logged(log, evt) THEN log ELSE LogWith(log, evt)

\* checkForEvent: the first event after minTime and not after maxTime
checkForEvent(minTime, maxTime) ==
  LET found == {i \in 1 .. LogSize : minTime < eventLog[i].time /\ eventLog[i].time <= maxTime}
  IN IF found = {} THEN NoEvent
     ELSE eventLog[CHOOSE i \in found : \A j \in found : i <= j]

-----------------------------------------------------------------------------
(* The loop *)

\* The frame of this turn, one further when the last is over
FrameOver == now - frameStart > FrameLength
Frame     == IF FrameOver THEN frameStart + FrameLength ELSE frameStart
Slot      == (now - Frame) \div SlotLength

\* MK_SLOT_LENGTH * slot, a product of unsigned ints
Offset(slot) == (SlotLength * slot) % Word

\* the slot a key asks for, were it the one that began
WindowOpen(slot) == <<slot, slot + 1>>

\* two slots, lest one is missed
WindowWide(slot) == <<slot - 2, slot>>

\* The slots a key asks for: the one that ended.  With the first slot of a frame,
\* loopID - 1 is 65535: it asks for none.
Window(slot) == <<slot - 1, slot>>

\* prepButtonPressMsg and its first sendButtonPressMsg, which finds the channels
\* free, or busy and schedules itself
Send(evt) == waiting' \in {waiting, waiting \cup {[evt |-> evt, tries |-> 1]}}

FollowUp(evt) ==
  IF evt.button \in {"unknown", "move"}
  THEN UNCHANGED <<waiting, followed, isShifted>>
  ELSE LET mine  == evt.src = Me
           shift == Role = "keyboard" /\ mine /\ myButton = "shift"
       IN /\ isShifted' = IF shift THEN ~isShifted ELSE isShifted
          /\ followed' = IF mine \/ (Role = "keyboard" /\ (isWired \/ evt.button = "shift"))
                         THEN Append(followed, evt) ELSE followed
          /\ IF followed' = followed \/ isWired
             THEN UNCHANGED waiting
             ELSE Send(IF shift
                       THEN [evt EXCEPT !.button = IF isShifted' THEN "caps_on" ELSE "caps_off"]
                       ELSE evt)

\* One turn of loop, for a key or a mouse.  A mouse that broadcasts, or reports
\* how it moved, in this slot asks for the events later, by prevLoopID.
Loop ==
  /\ Role # "unknown" /\ lastTurn < now
  /\ lastTurn' = now /\ frameStart' = Frame /\ loopID' = Slot
  /\ LET asks  == Role = "keyboard"
                  \/ (~(Slot = 0 /\ periodicBroadcast) /\ Slot # Slots - 2)
         slots == IF Role = "keyboard" THEN Window(Slot) ELSE <<prevLoopID, Slot>>
     IN IF loopID = Slot \/ ~asks
        THEN UNCHANGED <<waiting, followed, isShifted, prevLoopID>>
        ELSE /\ FollowUp(checkForEvent(Frame + Offset(slots[1]), Frame + Offset(slots[2])))
             /\ prevLoopID' = IF Role = "mouse" THEN Slot ELSE prevLoopID
  /\ UNCHANGED <<now, myButton, lastKeypress, eventLog, periodicBroadcast, wireVars, added,
                 crowded, start>>

\* roleUnknownLoop, at the end of its frame: checkPosition finds a button
CheckPosition(button) ==
  /\ Role = "unknown" /\ myButton' = button /\ lastTurn' = now
  /\ UNCHANGED <<now, frameStart, loopID, prevLoopID, lastKeypress, eventLog, isShifted,
                 periodicBroadcast, wireVars, waiting, followed, added, crowded, start>>

\* sendButtonPressMsg as a task; freeing the message when it went out or when it
\* was tried too often
SendAgain(m) ==
  /\ \/ waiting' = waiting \ {m}
     \/ /\ m.tries <= PressTries
        /\ waiting' = (waiting \ {m}) \cup {[m EXCEPT !.tries = @ + 1]}
  /\ UNCHANGED <<now, lastTurn, frameStart, loopID, prevLoopID, myButton, lastKeypress,
                 eventLog, isShifted, periodicBroadcast, wireVars, followed, added, crowded, start>>

-----------------------------------------------------------------------------
(* Presses and messages *)

Quiet == 10 * Multipress               \* 1500 ms after the start nothing is a press

\* The slot whose end is the time for which the loop asks for an event of time t
SlotOf(t)   == (t - start.at - 1) \div SlotLength
SlotEnd(t)  == start.at + (SlotOf(t) + 1) * SlotLength

\* Event evt may be found instead of the last press, or overwrite it.
Crowds(evt) ==
  /\ ~Logged(eventLog, evt)
  /\ \/ SlotOf(evt.time) = SlotOf(added.time)
     \/ \A i \in 1 .. LogSize : eventLog[i].time >= added.time

\* userMicInterrupt
Press ==
  LET evt == [time |-> now, src |-> Me, button |-> myButton]
  IN /\ Spend("presses")
     /\ Role # "unknown" /\ now >= Quiet /\ now - lastKeypress >= Multipress
     /\ lastKeypress' = now
     /\ periodicBroadcast' = (periodicBroadcast \/ myButton = "left")
     /\ eventLog' = addEvent(eventLog, evt)
     /\ IF Logged(eventLog, evt) THEN UNCHANGED <<added, crowded>>
        ELSE /\ added' = evt
             /\ crowded' = \E i \in 1 .. LogSize : SlotOf(eventLog[i].time) = SlotOf(now)
     /\ UNCHANGED <<now, frameVars, myButton, isShifted, wireVars>>

\* The time a message is logged with: this multipress interval, the sender's phase
Stamp(phase) == (now \div Multipress) * Multipress + phase

\* handleButtonPressMsg
HandleButtonPressMsg(src, button, phase) ==
  LET evt == [time |-> Stamp(phase), src |-> src, button |-> button]
  IN /\ Spend("messages")
     /\ eventLog' = addEvent(eventLog, evt)
     /\ isShifted' = IF Logged(eventLog, evt) THEN isShifted
                     ELSE button = "caps_on" \/ (isShifted /\ button # "caps_off")
     /\ crowded' = (crowded \/ Crowds(evt))
     /\ UNCHANGED <<now, frameVars, myButton, lastKeypress, periodicBroadcast, wireVars, added>>

\* handleMouseMoveMsg; idOrDelta holds the move, one for all of them here
HandleMouseMoveMsg(phase) ==
  LET evt == [time |-> Stamp(phase), src |-> "delta", button |-> "move"]
  IN /\ Spend("messages")
     /\ eventLog' = addEvent(eventLog, evt) /\ crowded' = (crowded \/ Crowds(evt))
     /\ UNCHANGED <<now, frameVars, myButton, lastKeypress, isShifted, periodicBroadcast,
                    wireVars, added>>

-----------------------------------------------------------------------------
(* Commands: userHandleCommand, in the interrupt of the serial line *)

\* The wireSleep tasks after WAKE removed its former one and scheduled another
WakeAnew == IF sleepTask = "armed" THEN armed ELSE armed + 1

\* The handle of a task that has run is passed to removeTask all the same, which then
\* removes whichever task has its slot by now: the retry of a message, or none of these.
Wake ==
  /\ Spend("commands")
  /\ sleepTask' = "armed" /\ armed' = WakeAnew /\ isWired' = TRUE
  /\ \/ UNCHANGED waiting
     \/ sleepTask = "run" /\ \E m \in waiting : waiting' = waiting \ {m}
  /\ UNCHANGED <<now, lastTurn, frameStart, loopID, prevLoopID, followed, myButton, lastKeypress,
                 eventLog, isShifted, periodicBroadcast, added, crowded>>

\* wireSleep, a task
WireSleep ==
  /\ armed > 0 /\ armed' = armed - 1
  /\ isWired' = FALSE /\ sleepTask' = IF armed = 1 THEN "run" ELSE sleepTask
  /\ UNCHANGED <<now, frameVars, myButton, lastKeypress, eventLog, isShifted,
                 periodicBroadcast, added, crowded, start>>

\* press, of a printable character
PressCommand ==
  LET evt == [time |-> now, src |-> Me, button |-> "key"]
  IN /\ Spend("commands")
     /\ eventLog' = addEvent(eventLog, evt) /\ crowded' = (crowded \/ Crowds(evt))
     /\ UNCHANGED <<now, frameVars, myButton, lastKeypress, isShifted, periodicBroadcast,
                    wireVars, added>>

\* set_role
SetRole(button) ==
  /\ start.roles > 0
  /\ start' = [start EXCEPT !.roles = @ - 1, !.settled = FALSE]
  /\ myButton' = button
  /\ UNCHANGED <<now, frameVars, lastKeypress, eventLog, isShifted, periodicBroadcast,
                 wireVars, added, crowded>>

Tick ==
  /\ Spend("ticks")
  /\ now - lastTurn < LongestTurn /\ now' = now + 1
  /\ UNCHANGED <<frameVars, myButton, lastKeypress, eventLog, isShifted, periodicBroadcast,
                 wireVars, added, crowded>>

Phases == 0 .. Multipress - 1

KeyNext ==
  \/ Tick
  \/ Loop
  \/ \E b \in {"key", "left"} : CheckPosition(b)
  \/ \E m \in waiting : SendAgain(m)
  \/ Press
  \/ \E o \in Others, b \in {"key", "caps_on"}, p \in Phases : HandleButtonPressMsg(o, b, p)
  \/ \E p \in Phases : HandleMouseMoveMsg(p)
  \/ Wake
  \/ WireSleep
  \/ PressCommand
  \/ \E b \in {"key", "right"} : SetRole(b)

KeySpec == KeyInit /\ [][KeyNext]_keyVars

-----------------------------------------------------------------------------
(* Correctness *)

\* The button was known from the start, and no command has changed it.
Settled == start.settled

Once == \A i, j \in DOMAIN followed : followed[i] = followed[j] => i = j

\* No event is taken from the log twice: the windows that the turns of the loop
\* ask for are disjoint, over the frames too, and whichever slots a mouse skips.
FollowedOnce == Settled => Once

\* addEvent "Returns '1' if an event was added (meaning that the Droplet should
\* follow up)" (button_press_queue.c:40): the loop of a key follows up a press in
\* the slot after it, when the press was not on the tick between two slots, not in
\* the last slot of a frame, which is never asked for (mouseKeyboard.c:129), and
\* no other event was found or logged in its place.
PressFollowed ==
  (/\ Settled /\ Role = "keyboard" /\ added # NoEvent /\ ~crowded
   /\ lastTurn >= SlotEnd(added.time)
   /\ (added.time - start.at) % SlotLength # 0
   /\ (SlotOf(added.time) + 1) % Slots # 0)
     => \E k \in DOMAIN followed : followed[k] = added

=============================================================================
