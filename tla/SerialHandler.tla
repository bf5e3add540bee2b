--------------------------- MODULE SerialHandler ---------------------------
(***************************************************************************)
(* The commands of droplet_code/src/serial_handler.c.                      *)
(*                                                                         *)
(* A command that comes over infrared is handled in a task, one that comes *)
(* over the serial line in the interrupt of its last character, which may  *)
(* interrupt the task.  A handler takes its arguments one at a time from   *)
(* strtok, which keeps its place in one variable for all, and carries out  *)
(* what it has the arguments for.                                          *)
(***************************************************************************)
EXTENDS Integers, Sequences

CONSTANTS
  SerialCommands, \* the commands that are given: [word, args]
  MaxCommandsGiven

\* The arguments of set_led begin with the components that it sets.
HandlerAssumption ==
  /\ MaxCommandsGiven \in Nat
  /\ \A k \in SerialCommands :
       /\ k.args = [i \in 1 .. Len(k.args) |-> k.args[i]]
       /\ k.word = "set_led" => k.args # <<>> /\ k.args[1] \in Seq({"r", "g"})
ASSUME HandlerAssumption

Handlers == {"task", "isr"}
Motors3  == 1 .. 3
Hues     == {"r", "g"}

VARIABLES
  light,      \* the colour of the LED, by its components; Busy in a motor command
  adjusts,    \* motorAdjusts of a direction
  kilostep,   \* mmPerKilostep of a direction
  walking,    \* the direction of movement, or -1
  later,      \* what has been scheduled: setAllirPowers, broadcastRnbData, sendID
  shouted,    \* the last message or command broadcast
  strtok,     \* whose arguments strtok is in, and those that are left
  handling,   \* per context, [word, args, got, light]; args as given
  written,    \* the settings in the EEPROM
  wanted,     \* the settings and the light, had each command been one step
  mixed,      \* a command interrupted another one, or lacked arguments
  given

handlerVars == <<light, adjusts, kilostep, walking, later, shouted, strtok, handling, written,
                 wanted, mixed, given>>

Idle_SH == [word |-> "none", args |-> <<>>, got |-> <<>>, light |-> 0]
Busy_SH == [h \in Hues |-> -1]

HandlerInit ==
  /\ light = [h \in Hues |-> 0] /\ adjusts = [m \in Motors3 |-> 0] /\ kilostep = 0
  /\ walking = -1 /\ later = {} /\ shouted = <<>>
  /\ strtok = [owner |-> "none", left |-> <<>>]
  /\ handling = [c \in Handlers |-> Idle_SH]
  /\ written = adjusts /\ wanted = [light |-> light, adjusts |-> adjusts, kilostep |-> 0]
  /\ mixed = FALSE /\ given = 0

----------------------------------------------------------------------------
\* The tokens a handler takes.
Tokens(k) == CASE k.word \in {"move_steps", "walk", "set_dist_per_step"} -> 2
               [] k.word = "set_ir" -> 1
               [] k.word \in {"set_motors", "adj_motors"} -> 4
               [] k.word = "set_led" -> 1 + Len(k.args[1])
               [] OTHER -> 0

\* handle_adjust_motors: the sign is the direction of the motor, and the
\* magnitude is adjusted.
Adjusted(old, v) == IF old >= 0 THEN old + v ELSE old - v

\* The commands that scheduleTask is left to: setAllirPowers, broadcastRnbData
\* and sendID.
Deferred(k) ==
  CASE k.word = "set_ir" -> {<<"setAllirPowers", k.args[1]>>}
    [] k.word = "rnb_b" -> {<<"broadcastRnbData", 0>>}
    [] k.word = "broadcast_id" -> {<<"sendID", 0>>}
    [] OTHER -> {}

\* What is broadcast at once: a command, a message, or the default message.
Shout(k) ==
  CASE k.word \in {"cmd", "tgt_cmd", "tgt", "msg_tst"} -> <<k.word, k.args>>
    [] k.word = "msg" -> <<"msg", IF k.args = <<>> THEN <<"Unique New York.">> ELSE k.args>>
    [] OTHER -> shouted

Motor(k) == k.word \in {"set_motors", "adj_motors"}
Missing(k) == Len(k.args) < Tokens(k)
Allowed == {k \in SerialCommands : Missing(k) => Motor(k)}

LastOf(s, x) == CHOOSE i \in DOMAIN s : s[i] = x /\ \A j \in DOMAIN s : j > i => s[j] # x

\* What the documented command does, in one step.
Applied(w, k) ==
  CASE k.word = "set_motors" -> [w EXCEPT !.adjusts = [m \in Motors3 |-> k.args[m + 1]]]
    [] k.word = "adj_motors" -> [w EXCEPT !.adjusts = [m \in Motors3 |-> Adjusted(w.adjusts[m], k.args[m + 1])]]
    [] k.word = "set_dist_per_step" -> [w EXCEPT !.kilostep = k.args[2]]
    [] k.word = "set_led" ->
         [w EXCEPT !.light = [h \in Hues |->
            IF \E i \in DOMAIN k.args[1] : k.args[1][i] = h
            THEN k.args[1 + LastOf(k.args[1], h)] ELSE w.light[h]]]
    [] OTHER -> w

\* handleSerialCommand calls the handler.  Those without arguments are done at
\* once; the motor commands turn the light blue first.
Handle(c, k) ==
  /\ k \in Allowed /\ given < MaxCommandsGiven /\ given' = given + 1
  /\ handling[c] = Idle_SH /\ (c = "task" => handling["isr"] = Idle_SH)
  /\ mixed' = (mixed \/ Missing(k) \/ \E d \in Handlers : handling[d] # Idle_SH)
  /\ wanted' = IF Missing(k) THEN wanted ELSE Applied(wanted, k)
  /\ handling' = [handling EXCEPT ![c] =
       IF Tokens(k) = 0 THEN @ ELSE [word |-> k.word, args |-> k.args, got |-> <<>>, light |-> light]]
  /\ light' = IF Motor(k) THEN Busy_SH ELSE light
  /\ walking' = IF k.word = "stop_walk" THEN -1 ELSE walking
  /\ later' = IF Tokens(k) = 0 THEN later \union Deferred(k) ELSE later
  /\ shouted' = Shout(k)
  /\ written' = IF k.word = "write_motor_settings" THEN adjusts ELSE written
  /\ UNCHANGED <<adjusts, kilostep, strtok>>

\* strtok with the arguments of c, or with NULL
Place(c) ==
  IF handling[c].got = <<>> THEN [owner |-> c, left |-> handling[c].args] ELSE strtok

\* mutant: the light stays blue
EndDark(c, before) == UNCHANGED light

\* The light is as it was when the handler began.
EndLit(c, before) == light' = before

\* A handler that has all its arguments
Finish(c, got) ==
  LET w == handling[c].word
      k == [word |-> w, args |-> got]
  IN  /\ IF Motor(k) THEN EndLit(c, handling[c].light) ELSE UNCHANGED light
      /\ walking' = IF walking = -1 /\ (w = "walk" \/ (w = "move_steps" /\ got[2] > 0))
                    THEN got[1] ELSE walking
      /\ kilostep' = IF w = "set_dist_per_step" THEN got[2] ELSE kilostep
      /\ later' = later \union Deferred(k)

\* set_motors and adj_motors store each value when they have it.
Store(k, i, v) ==
  IF i = 1 THEN adjusts
  ELSE [adjusts EXCEPT ![i - 1] = IF k.word = "set_motors" THEN v ELSE Adjusted(@, v)]

\* The handler of c takes its next argument.  set_led sets a component each
\* time; a motor command that finds no argument returns, and so do the others
\* (what they do with NULL is undefined, and happens only to mixed commands).
Token(c) ==
  LET k     == handling[c]
      place == Place(c)
      none  == place.left = <<>>
      got   == Append(k.got, Head(place.left))
      done  == Len(got) = Tokens(k)
  IN  /\ k # Idle_SH /\ (c = "task" => handling["isr"] = Idle_SH)
      /\ strtok' = IF none THEN place ELSE [place EXCEPT !.left = Tail(@)]
      /\ mixed' = (mixed \/ place.owner # c)
      /\ handling' = [handling EXCEPT ![c] = IF none \/ done THEN Idle_SH ELSE [k EXCEPT !.got = got]]
      /\ adjusts' = IF Motor(k) /\ ~none THEN Store(k, Len(got), Head(place.left)) ELSE adjusts
      /\ IF none THEN UNCHANGED <<light, walking, kilostep, later>>
         ELSE IF k.word = "set_led"
         THEN /\ light' = IF Len(got) = 1 THEN light
                          ELSE [light EXCEPT ![k.args[1][Len(got) - 1]] = Head(place.left)]
              /\ UNCHANGED <<walking, kilostep, later>>
         ELSE IF done THEN Finish(c, got)
         ELSE UNCHANGED <<light, walking, kilostep, later>>
      /\ UNCHANGED <<shouted, written, wanted, given>>

HandlerNext == \E c \in Handlers : Token(c) \/ \E k \in SerialCommands : Handle(c, k)

HandlerSpec == HandlerInit /\ [][HandlerNext]_handlerVars

----------------------------------------------------------------------------
\* As long as no command interrupts another one, each command that has its
\* arguments changes the settings and the light as one step would, and a
\* motor command gives the light back.
CommandsWhole ==
  ~mixed /\ (\A c \in Handlers : handling[c] = Idle_SH) =>
    wanted = [light |-> light, adjusts |-> adjusts, kilostep |-> kilostep]
=============================================================================
