--------------------------- MODULE Serial_proofs ----------------------------
(***************************************************************************)
(* What is typed at the serial line, the commands that it makes, and the   *)
(* settings that they store.                                               *)
(***************************************************************************)
EXTENDS SerialLine, SerialHandler, EepromStore, NaturalFacts

-----------------------------------------------------------------------------
(* The line being typed                                                    *)

\* What a cell of the buffer holds.
Contents == Characters \union {Nul}

\* The buffer ends at a cell that is never written with a character.
LineInv ==
  /\ buffer \in [0 .. BufferSize -> Contents] /\ buffer[BufferSize] = Nul
  /\ index \in 0 .. BufferSize /\ screen \in Seq(Characters)
  /\ screen = Typed(index)

\* The rest of the last line ends at the first cell that reads as 0.
LEMMA RestEnds ==
  ASSUME LineAssumption, LineInv
  PROVE  RestEnd \in index .. BufferSize /\ \A i \in index .. RestEnd - 1 : buffer[i] # Nul
<1> DEFINE P(i, m) == m \in i .. BufferSize /\ buffer[m] = Nul /\ \A j \in i .. m - 1 : buffer[j] # Nul
<1>1. BufferSize \in Nat /\ buffer[BufferSize] = Nul /\ index \in 0 .. BufferSize
  BY DEF LineAssumption, LineInv
<1>2. ASSUME NEW i \in 0 .. BufferSize
      PROVE  \E m \in 0 .. BufferSize : P(i, m)
  <2> DEFINE T == {j \in i .. BufferSize : buffer[j] = Nul}
  <2>1. T \in SUBSET Nat /\ T # {}
    BY <1>1
  <2>2. PICK m \in T : \A r \in T : m <= r
    BY <2>1, LeastNatural
  <2> QED BY <1>1, <2>2
<1>3. ASSUME NEW i \in 0 .. BufferSize, NEW m, NEW n, P(i, m), P(i, n)
      PROVE  m = n
  <2>1. ~(m < n) /\ ~(n < m)
    BY <1>1, <1>3
  <2> QED BY <1>1, <1>3, <2>1
<1> DEFINE end == CHOOSE f : f = [i \in 0 .. BufferSize |-> IF buffer[i] = Nul THEN i ELSE f[i + 1]]
<1>4. end = [i \in 0 .. BufferSize |-> IF buffer[i] = Nul THEN i ELSE end[i + 1]]
  <2>1. PICK g : /\ g = [i \in 0 .. BufferSize |-> g[i]]
                 /\ \A i \in 0 .. BufferSize : P(i, g[i])
    <3> DEFINE h == [i \in 0 .. BufferSize |-> CHOOSE m \in 0 .. BufferSize : P(i, m)]
    <3>1. \A i \in 0 .. BufferSize : P(i, h[i])
      BY <1>2
    <3>2. h \in [0 .. BufferSize -> 0 .. BufferSize]
      BY <1>2
    <3> HIDE DEF P, h
    <3>3. h = [i \in 0 .. BufferSize |-> h[i]]
      BY <3>2
    <3> QED BY <3>1, <3>3
  <2> HIDE DEF P
  <2>3. ASSUME NEW i \in 0 .. BufferSize, buffer[i] = Nul
        PROVE  g[i] = i
    <3>1. P(i, i)
      BY <1>1, <2>3 DEF P
    <3> QED BY <1>3, <2>1, <3>1
  <2>4. ASSUME NEW i \in 0 .. BufferSize, buffer[i] # Nul
        PROVE  g[i] = g[i + 1]
    <3>1. i + 1 \in 0 .. BufferSize
      BY <1>1, <2>4 DEF P
    <3>2. P(i + 1, g[i + 1])
      BY <2>1, <3>1
    <3>3. P(i, g[i + 1])
      BY <1>1, <2>4, <3>2 DEF P
    <3>4. P(i, g[i])
      BY <2>1
    <3> QED BY <1>3, <3>3, <3>4
  <2>5. g = [i \in 0 .. BufferSize |-> IF buffer[i] = Nul THEN i ELSE g[i + 1]]
    BY <2>1, <2>3, <2>4
  <2> QED BY <2>5
<1>5. RestEnd = end[index]
  BY DEF RestEnd
<1> HIDE DEF end
<1>6. \A i \in 0 .. BufferSize : P(i, end[i])
  <2> DEFINE T == {BufferSize - i : i \in {j \in 0 .. BufferSize : ~P(j, end[j])}}
  <2> SUFFICES ASSUME T # {} PROVE FALSE
    OBVIOUS
  <2>1. T \in SUBSET Nat
    BY <1>1
  <2>2. PICK t \in T : \A r \in T : t <= r
    BY <2>1, LeastNatural
  <2>3. PICK i \in 0 .. BufferSize : t = BufferSize - i /\ ~P(i, end[i])
    BY <2>2
  <2>4. buffer[i] # Nul
    <3>1. buffer[i] = Nul => end[i] = i
      BY <1>4
    <3> QED BY <1>1, <2>3, <3>1
  <2>5. end[i] = end[i + 1] /\ i + 1 \in 0 .. BufferSize
    <3>1. i # BufferSize
      BY <1>1, <2>4
    <3>2. end[i] = IF buffer[i] = Nul THEN i ELSE end[i + 1]
      BY <1>4
    <3> QED BY <1>1, <2>4, <3>1, <3>2
  <2>6. P(i + 1, end[i + 1])
    <3>1. ~(t <= BufferSize - (i + 1))
      BY <1>1, <2>3
    <3>2. BufferSize - (i + 1) \notin T
      BY <2>2, <3>1
    <3> QED BY <2>5, <3>2
  <2>7. P(i, end[i])
    BY <1>1, <2>4, <2>5, <2>6
  <2> QED BY <2>3, <2>7
<1>7. P(index, end[index])
  BY <1>1, <1>6
<1> QED BY <1>5, <1>7

\* At first nothing is typed.
LEMMA LineBegins == LineAssumption /\ LineInit => LineInv
<1> SUFFICES ASSUME LineAssumption, LineInit PROVE LineInv
  OBVIOUS
<1>1. Typed(0) = <<>>
  BY DEF Typed
<1> QED BY <1>1 DEF LineAssumption, LineInit, LineInv, Contents

\* What is typed, as far as n, is a sequence of what the buffer has.
LEMMA TypedIs ==
  ASSUME NEW n \in Nat
  PROVE  /\ Len(Typed(n)) = n /\ DOMAIN Typed(n) = 1 .. n
         /\ \A i \in 1 .. n : Typed(n)[i] = buffer[i - 1]
BY DEF Typed

\* A character is put behind the others, or refused by a full line.
LEMMA CharacterTyped ==
  ASSUME LineAssumption, LineInv, NEW key \in Characters, Insert(key)
  PROVE  LineInv'
<1>1. key # Nul /\ BufferSize \in Nat
  BY DEF LineAssumption, Characters, Nul, Blank
<1>2. CASE index = BufferSize
  <2>1. Typed(0)' = <<>>
    BY DEF Typed
  <2> QED BY <1>1, <1>2, <2>1 DEF Insert, LineInv
<1>3. CASE index # BufferSize
  <2>1. buffer' = [buffer EXCEPT ![index] = key] /\ index' = index + 1 /\ screen' = Append(screen, key)
    BY <1>3 DEF Insert
  <2>2. Append(Typed(index), key) = [i \in 1 .. index + 1 |-> buffer'[i - 1]]
    <3>1. Typed(index) \in Seq(Characters) /\ Len(Typed(index)) = index /\ index \in 0 .. BufferSize - 1
      BY <1>1, <1>3, TypedIs DEF LineInv
    <3>2. \A i \in 1 .. index : Typed(index)[i] = buffer[i - 1]
      BY <3>1, TypedIs
    <3>3. Append(Typed(index), key) = [i \in 1 .. index + 1 |-> IF i = index + 1 THEN key ELSE Typed(index)[i]]
      <4> DEFINE s == Append(Typed(index), key)
      <4> HIDE DEF Typed
      <4>1. s \in Seq(Characters) /\ Len(s) = index + 1
        BY <3>1
      <4>2. \A i \in 1 .. index + 1 : s[i] = IF i = index + 1 THEN key ELSE Typed(index)[i]
        BY <3>1
      <4>3. s = [i \in 1 .. Len(s) |-> s[i]]
        <5>1. PICK t \in Seq(Characters) : t = s
          BY <4>1
        <5>2. t = [i \in 1 .. Len(t) |-> t[i]]
          OBVIOUS
        <5> QED BY <5>1, <5>2
      <4> HIDE DEF s
      <4>4. s = [i \in 1 .. index + 1 |-> IF i = index + 1 THEN key ELSE Typed(index)[i]]
        BY <4>1, <4>2, <4>3
      <4> QED BY <4>4 DEF s
    <3>4. \A i \in 1 .. index : buffer'[i - 1] = buffer[i - 1]
      BY <2>1, <3>1 DEF LineInv
    <3>5. buffer'[index] = key
      BY <2>1, <3>1 DEF LineInv
    <3> QED BY <3>1, <3>2, <3>3, <3>4, <3>5
  <2>3. screen' = Typed(index)'
    BY <2>1, <2>2 DEF Typed, LineInv
  <2>4. screen' \in Seq(Characters)
    BY <2>1 DEF LineInv
  <2> QED BY <1>1, <1>3, <2>1, <2>3, <2>4 DEF LineInv, Contents
<1> QED BY <1>2, <1>3

\* A backspace takes the last character, or nothing of an empty line.
LEMMA BackSpaced ==
  ASSUME LineAssumption, LineInv, index' = IF index > 0 THEN index - 1 ELSE index,
         screen' = SubSeq(screen, 1, Len(screen) - 1), buffer' = buffer
  PROVE  LineInv'
<1>1. Len(screen) = index /\ index \in 0 .. BufferSize /\ BufferSize \in Nat
  BY TypedIs DEF LineInv, LineAssumption
<1>2. index' \in 0 .. BufferSize /\ Len(screen') = index' /\ screen' \in Seq(Characters)
  BY <1>1 DEF LineInv
<1>3. screen' = [i \in 1 .. index' |-> buffer[i - 1]]
  <2>1. \A i \in 1 .. index' : screen'[i] = screen[i]
    BY <1>1, <1>2 DEF LineInv
  <2>2. \A i \in 1 .. index' : screen[i] = buffer[i - 1]
    BY <1>1, <1>2, TypedIs DEF LineInv
  <2>3. screen' = [i \in 1 .. index' |-> screen'[i]]
    BY <1>2
  <2> QED BY <2>1, <2>2, <2>3
<1> QED BY <1>2, <1>3 DEF LineInv, Typed

\* The arrow takes the rest of the line, which it also shows.
LEMMA ArrowTaken ==
  ASSUME LineAssumption, LineInv, Arrow
  PROVE  LineInv'
<1> DEFINE n == RestEnd
           rest == [i \in 1 .. n - index |-> buffer[index + i - 1]]
<1>1. n \in index .. BufferSize /\ (\A i \in index .. n - 1 : buffer[i] # Nul) /\ index \in 0 .. BufferSize
      /\ BufferSize \in Nat
  BY RestEnds DEF LineInv, LineAssumption
<1>2. screen' = screen \o rest /\ index' = n /\ buffer' = buffer
  BY DEF Arrow
<1> HIDE DEF n
<1>3. rest \in Seq(Characters) /\ Len(rest) = n - index
  <2>1. n - index \in Nat /\ \A i \in 1 .. n - index : index + i - 1 \in index .. n - 1 /\ index + i - 1 \in 0 .. BufferSize
    BY <1>1
  <2>2. \A i \in 1 .. n - index : rest[i] \in Characters
    BY <1>1, <2>1 DEF LineInv, Contents
  <2> QED BY <2>1, <2>2
<1>4. screen \in Seq(Characters) /\ Len(screen) = index /\ \A i \in 1 .. index : screen[i] = buffer[i - 1]
  BY <1>1, TypedIs DEF LineInv
<1>5. screen \o rest = [i \in 1 .. n |-> buffer[i - 1]]
  <2> DEFINE s == screen \o rest
  <2>1. s \in Seq(Characters) /\ Len(s) = n
    BY <1>1, <1>3, <1>4
  <2>2. \A i \in 1 .. n : s[i] = buffer[i - 1]
    <3> SUFFICES ASSUME NEW i \in 1 .. n PROVE s[i] = buffer[i - 1]
      OBVIOUS
    <3>1. CASE i <= index
      BY <1>1, <1>3, <1>4, <3>1
    <3>2. CASE ~(i <= index)
      <4>1. i - index \in 1 .. n - index
        BY <1>1, <3>2
      <4>2. s[i] = rest[i - index]
        <5> HIDE DEF rest
        <5> QED BY <1>1, <1>3, <1>4, <3>2, <4>1
      <4>3. rest[i - index] = buffer[index + (i - index) - 1]
        BY <4>1
      <4>4. index + (i - index) - 1 = i - 1
        BY <1>1, <4>1
      <4> QED BY <4>2, <4>3, <4>4
    <3> QED BY <3>1, <3>2
  <2>3. s = [i \in 1 .. Len(s) |-> s[i]]
    <3>1. PICK t \in Seq(Characters) : t = s
      BY <2>1
    <3>2. t = [i \in 1 .. Len(t) |-> t[i]]
      OBVIOUS
    <3> QED BY <3>1, <3>2
  <2> HIDE DEF s
  <2>4. s = [i \in 1 .. n |-> buffer[i - 1]]
    BY <2>1, <2>2, <2>3
  <2> QED BY <2>4 DEF s
<1>6. screen \o rest \in Seq(Characters)
  BY <1>3, <1>4
<1> QED BY <1>1, <1>2, <1>5, <1>6 DEF LineInv, Typed

\* Every key keeps the buffer and the screen alike.
LEMMA LineStep ==
  ASSUME LineAssumption, LineInv, [LineNext]_lineVars
  PROVE  LineInv'
<1>1. ASSUME UNCHANGED <<buffer, index, screen>>
      PROVE  LineInv'
  BY <1>1 DEF LineInv, Typed
<1>2. CASE Enter
  <2>1. Typed(0)' = <<>>
    BY DEF Typed
  <2> QED BY <1>2, <2>1 DEF Enter, LineInv, LineAssumption, Contents
<1>3. ASSUME NEW key \in Keys, Receive(key)
      PROVE  LineInv'
  <2>1. key = "enter" \/ key = "backspace" \/ key = "escape" \/ key \in Characters
    BY DEF Keys
  <2>2. CASE escaped_arrow
    <3>1. Arrow \/ UNCHANGED <<buffer, index, screen>>
      BY <1>3, <2>2, Zenon DEF Receive, Same
    <3> QED BY <1>1, <3>1, ArrowTaken
  <2>3. CASE ~escaped_arrow /\ escaped
    BY <1>1, <1>3, <2>3 DEF Receive, Same
  <2>4. CASE ~escaped_arrow /\ ~escaped
    <3> DEFINE Back == /\ index' = IF index > 0 THEN index - 1 ELSE index
                       /\ screen' = SubSeq(screen, 1, Len(screen) - 1)
                       /\ UNCHANGED <<buffer, command>>
    <3>1. \/ Enter \/ Back \/ UNCHANGED <<buffer, index, screen>> \/ (key \in Characters /\ Insert(key))
      BY <1>3, <2>1, <2>4 DEF Receive, Same, LineAssumption, Characters, Blank
    <3> QED BY <1>1, <1>2, <3>1, CharacterTyped, BackSpaced
  <2> QED BY <2>2, <2>3, <2>4
<1>4. CASE UNCHANGED lineVars
  BY <1>1, <1>4 DEF lineVars
<1> QED BY <1>3, <1>4 DEF LineNext

\* What the terminal shows is what handle_serial_input has in its buffer, for
\* every length of the buffer, through backspaces, full lines and the arrow key.
THEOREM ScreenTellsBuffer == LineSpec => []ScreenAgrees
<1>1. LineInv => ScreenAgrees
  BY LineAssumption DEF LineInv, ScreenAgrees, LineAssumption
<1> QED BY <1>1, LineAssumption, LineBegins, LineStep, PTL DEF LineSpec

-----------------------------------------------------------------------------
(* The commands                                                            *)

\* What is left of the arguments when n of them are taken.
Left(args, n) == SubSeq(args, n + 1, Len(args))

\* The settings and the light that the command will leave that a context is in.
LightAfter(k) ==
  IF Motor(k) THEN k.light
  ELSE IF k.word = "set_led"
  THEN [h \in Hues |-> IF \E i \in DOMAIN k.args[1] : i >= Len(k.got) /\ k.args[1][i] = h
                       THEN k.args[1 + LastOf(k.args[1], h)] ELSE light[h]]
  ELSE light

AdjustsAfter(k) ==
  IF k.word = "set_motors"
  THEN [m \in Motors3 |-> IF m < Len(k.got) THEN adjusts[m] ELSE k.args[m + 1]]
  ELSE IF k.word = "adj_motors"
  THEN [m \in Motors3 |-> IF m < Len(k.got) THEN adjusts[m] ELSE Adjusted(adjusts[m], k.args[m + 1])]
  ELSE adjusts

KilostepAfter(k) == IF k.word = "set_dist_per_step" THEN k.args[2] ELSE kilostep

\* A context in the middle of a command: it has taken its first arguments, and
\* strtok has the others.
Underway(c) ==
  LET k == handling[c]
  IN  /\ k = [word |-> k.word, args |-> k.args, got |-> k.got, light |-> k.light]
      /\ k.word \in {"move_steps", "walk", "set_dist_per_step", "set_ir", "set_motors", "adj_motors", "set_led"}
      /\ \E S : k.args \in Seq(S) /\ k.got \in Seq(S)
      /\ k.word = "set_led" => k.args[1] \in Seq(Hues)
      /\ k.light = [h \in Hues |-> k.light[h]]
      /\ Len(k.got) < Tokens(k) /\ Tokens(k) <= Len(k.args)
      /\ \A i \in 1 .. Len(k.got) : k.got[i] = k.args[i]
      /\ k.got # <<>> => strtok = [owner |-> c, left |-> Left(k.args, Len(k.got))]
      /\ wanted = [light |-> LightAfter(k), adjusts |-> AdjustsAfter(k), kilostep |-> KilostepAfter(k)]

\* While commands do not interrupt one another, at most one is underway, and it
\* will leave what was wanted.
HandlerInv ==
  /\ handling = [c \in Handlers |-> handling[c]]
  /\ ~mixed => light = [h \in Hues |-> light[h]] /\ adjusts = [m \in Motors3 |-> adjusts[m]]
  /\ ~mixed =>
       \/ /\ \A c \in Handlers : handling[c] = Idle_SH
          /\ wanted = [light |-> light, adjusts |-> adjusts, kilostep |-> kilostep]
       \/ \E c \in Handlers : Underway(c) /\ \A d \in Handlers \ {c} : handling[d] = Idle_SH

\* Sequences of the same elements are the same.
LEMMA SameSequence ==
  ASSUME NEW S, NEW s \in Seq(S), NEW t \in Seq(S), Len(s) = Len(t),
         \A i \in 1 .. Len(s) : s[i] = t[i]
  PROVE  s = t
OBVIOUS

\* strtok gives the next argument.
LEMMA TakeNext ==
  ASSUME NEW S, NEW args \in Seq(S), NEW n \in 0 .. Len(args) - 1
  PROVE  /\ Left(args, n) # <<>> /\ Head(Left(args, n)) = args[n + 1]
         /\ Tail(Left(args, n)) = Left(args, n + 1)
         /\ Left(args, 0) = args
<1>1. Left(args, n) \in Seq(S) /\ Len(Left(args, n)) = Len(args) - n
  BY DEF Left
<1>2. Left(args, n + 1) \in Seq(S) /\ Len(Left(args, n + 1)) = Len(args) - n - 1
  BY DEF Left
<1>3. \A i \in 1 .. Len(args) - n : Left(args, n)[i] = args[n + i]
  BY DEF Left
<1>4. \A i \in 1 .. Len(args) - n - 1 : Left(args, n + 1)[i] = args[n + 1 + i]
  BY DEF Left
<1>5. Left(args, n) # <<>> /\ Head(Left(args, n)) = args[n + 1]
  BY <1>1, <1>3
<1>6. Tail(Left(args, n)) = Left(args, n + 1)
  <2>1. Tail(Left(args, n)) \in Seq(S) /\ Len(Tail(Left(args, n))) = Len(args) - n - 1
    BY <1>1
  <2>2. \A i \in 1 .. Len(args) - n - 1 : Tail(Left(args, n))[i] = Left(args, n)[i + 1]
    BY <1>1
  <2>3. \A i \in 1 .. Len(args) - n - 1 : Tail(Left(args, n))[i] = Left(args, n + 1)[i]
    <3> SUFFICES ASSUME NEW i \in 1 .. Len(args) - n - 1
                 PROVE  Tail(Left(args, n))[i] = Left(args, n + 1)[i]
      OBVIOUS
    <3>1. Left(args, n)[i + 1] = args[n + (i + 1)] /\ n + (i + 1) = n + 1 + i
      BY <1>3
    <3> HIDE DEF Left
    <3> QED BY <1>4, <2>2, <3>1
  <2> HIDE DEF Left
  <2> QED BY <1>2, <2>1, <2>3, SameSequence
<1>7. Left(args, 0) = args
  <2>1. Left(args, 0) \in Seq(S) /\ Len(Left(args, 0)) = Len(args)
    BY DEF Left
  <2>2. \A i \in 1 .. Len(args) : Left(args, 0)[i] = args[i]
    BY DEF Left
  <2> HIDE DEF Left
  <2> QED BY <2>1, <2>2, SameSequence
<1> QED BY <1>5, <1>6, <1>7

\* A function on 1 .. n is a sequence of its values.
LEMMA SequenceOf ==
  ASSUME NEW s, NEW n \in Nat, s = [i \in 1 .. n |-> s[i]]
  PROVE  Len(s) = n /\ s \in Seq({s[i] : i \in 1 .. n})
OBVIOUS

\* LastOf(s, x) is the last place of x.
LEMMA LastOfIs ==
  ASSUME NEW S, NEW s \in Seq(S), NEW i \in DOMAIN s
  PROVE  /\ LastOf(s, s[i]) \in DOMAIN s /\ s[LastOf(s, s[i])] = s[i]
         /\ \A j \in DOMAIN s : j > LastOf(s, s[i]) => s[j] # s[i]
<1> DEFINE T == {Len(s) - j : j \in {m \in DOMAIN s : s[m] = s[i]}}
<1>1. T \in SUBSET Nat /\ T # {}
  OBVIOUS
<1>2. PICK t \in T : \A r \in T : t <= r
  BY <1>1, LeastNatural
<1>3. PICK m \in DOMAIN s : s[m] = s[i] /\ t = Len(s) - m
  BY <1>2
<1>4. \A j \in DOMAIN s : j > m => s[j] # s[i]
  <2> SUFFICES ASSUME NEW j \in DOMAIN s, j > m, s[j] = s[i] PROVE FALSE
    OBVIOUS
  <2>1. Len(s) - j \in T
    OBVIOUS
  <2>2. ~(t <= Len(s) - j)
    BY <1>3
  <2> QED BY <1>2, <2>1, <2>2
<1> QED BY <1>3, <1>4 DEF LastOf

\* The component of h in the light, when the hues from n on are still to be set.
IsComponent(s, n, h, args, was) ==
  IF \E i \in DOMAIN s : i >= n /\ s[i] = h THEN args[1 + LastOf(s, h)] ELSE was

\* A component of the light is set: it is what the last of the arguments for
\* it says, unless one is still to come.
LEMMA ComponentIsSet ==
  ASSUME NEW s \in Seq(Hues), NEW n \in 1 .. Len(s), NEW args, NEW old, old = [h \in Hues |-> old[h]],
         NEW new, new = [old EXCEPT ![s[n]] = args[n + 1]], NEW h \in Hues
  PROVE  IsComponent(s, n, h, args, old[h]) = IsComponent(s, n + 1, h, args, new[h])
<1>1. DOMAIN s = 1 .. Len(s) /\ Len(s) \in Nat
  OBVIOUS
<1>2. CASE \E i \in DOMAIN s : i >= n + 1 /\ s[i] = h
  BY <1>1, <1>2 DEF IsComponent
<1>3. CASE ~(\E i \in DOMAIN s : i >= n + 1 /\ s[i] = h) /\ s[n] = h
  <2>1. n \in DOMAIN s /\ new[h] = args[n + 1]
    BY <1>1, <1>3
  <2>2. LastOf(s, h) \in DOMAIN s /\ s[LastOf(s, h)] = h /\ \A j \in DOMAIN s : j > LastOf(s, h) => s[j] # h
    BY <1>3, <2>1, LastOfIs
  <2>3. LastOf(s, h) = n
    BY <1>1, <1>3, <2>1, <2>2
  <2> QED BY <1>1, <1>3, <2>1, <2>3 DEF IsComponent
<1>4. CASE ~(\E i \in DOMAIN s : i >= n + 1 /\ s[i] = h) /\ s[n] # h
  <2>1. ~(\E i \in DOMAIN s : i >= n /\ s[i] = h)
    BY <1>1, <1>4
  <2>2. new[h] = old[h]
    BY <1>4
  <2> QED BY <1>4, <2>1, <2>2 DEF IsComponent
<1> QED BY <1>2, <1>3, <1>4

\* At first no command is underway.
LEMMA HandlerBegins == HandlerAssumption /\ HandlerInit => HandlerInv
BY DEF HandlerInit, HandlerInv

\* What a command does to the light and the settings, one after the other.
LEMMA AppliedIs ==
  ASSUME NEW k, NEW l, NEW a, NEW q
  PROVE  Applied([light |-> l, adjusts |-> a, kilostep |-> q], k) =
           [light |-> IF k.word = "set_led"
                      THEN [h \in Hues |-> IF \E i \in DOMAIN k.args[1] : k.args[1][i] = h
                                           THEN k.args[1 + LastOf(k.args[1], h)] ELSE l[h]]
                      ELSE l,
            adjusts |-> IF k.word = "set_motors" THEN [m \in Motors3 |-> k.args[m + 1]]
                        ELSE IF k.word = "adj_motors" THEN [m \in Motors3 |-> Adjusted(a[m], k.args[m + 1])]
                        ELSE a,
            kilostep |-> IF k.word = "set_dist_per_step" THEN k.args[2] ELSE q]
<1> DEFINE w == [light |-> l, adjusts |-> a, kilostep |-> q]
           led == [h \in Hues |-> IF \E i \in DOMAIN k.args[1] : k.args[1][i] = h
                                  THEN k.args[1 + LastOf(k.args[1], h)] ELSE l[h]]
           set == [m \in Motors3 |-> k.args[m + 1]]
           adj == [m \in Motors3 |-> Adjusted(a[m], k.args[m + 1])]
           mm == k.args[2]
<1>1. /\ [w EXCEPT !.light = led] = [light |-> led, adjusts |-> a, kilostep |-> q]
      /\ [w EXCEPT !.adjusts = set] = [light |-> l, adjusts |-> set, kilostep |-> q]
      /\ [w EXCEPT !.adjusts = adj] = [light |-> l, adjusts |-> adj, kilostep |-> q]
      /\ [w EXCEPT !.kilostep = mm] = [light |-> l, adjusts |-> a, kilostep |-> mm]
  <2> HIDE DEF led, set, adj, mm
  <2> QED OBVIOUS
<1>2. Applied(w, k) =
        CASE k.word = "set_motors" -> [w EXCEPT !.adjusts = set]
          [] k.word = "adj_motors" -> [w EXCEPT !.adjusts = adj]
          [] k.word = "set_dist_per_step" -> [w EXCEPT !.kilostep = mm]
          [] k.word = "set_led" -> [w EXCEPT !.light = led]
          [] OTHER -> w
  BY DEF Applied
<1>3. Applied(w, k) =
        [light |-> IF k.word = "set_led" THEN led ELSE l,
         adjusts |-> IF k.word = "set_motors" THEN set ELSE IF k.word = "adj_motors" THEN adj ELSE a,
         kilostep |-> IF k.word = "set_dist_per_step" THEN mm ELSE q]
  <2> HIDE DEF led, set, adj, mm
  <2>1. Applied(w, k) =
          IF k.word = "set_motors" THEN [light |-> l, adjusts |-> set, kilostep |-> q]
          ELSE IF k.word = "adj_motors" THEN [light |-> l, adjusts |-> adj, kilostep |-> q]
          ELSE IF k.word = "set_dist_per_step" THEN [light |-> l, adjusts |-> a, kilostep |-> mm]
          ELSE IF k.word = "set_led" THEN [light |-> led, adjusts |-> a, kilostep |-> q]
          ELSE w
    <3> HIDE DEF w
    <3> QED BY <1>1, <1>2
  <2> QED BY <2>1
<1> QED BY <1>3

\* A command begins.
LEMMA CommandBegins ==
  ASSUME HandlerAssumption, HandlerInv, NEW c \in Handlers, NEW k \in SerialCommands, Handle(c, k)
  PROVE  HandlerInv'
<1>1. /\ k.args = [i \in 1 .. Len(k.args) |-> k.args[i]] /\ Len(k.args) \in Nat
      /\ k.word = "set_led" => k.args # <<>> /\ k.args[1] \in Seq(Hues)
  BY DEF HandlerAssumption, Hues
<1>2. /\ light' = IF Motor(k) THEN Busy_SH ELSE light
      /\ handling[c] = Idle_SH /\ UNCHANGED <<adjusts, kilostep, strtok>>
      /\ k \in Allowed
  BY DEF Handle
<1>3. ~mixed' => /\ ~mixed /\ ~Missing(k) /\ \A d \in Handlers : handling[d] = Idle_SH
                 /\ wanted' = Applied(wanted, k)
  BY Zenon DEF Handle
<1>4. ~mixed' => light' = [h \in Hues |-> light'[h]] /\ adjusts' = [m \in Motors3 |-> adjusts'[m]]
  BY <1>2, <1>3 DEF HandlerInv, Busy_SH
<1> DEFINE x == IF Tokens(k) = 0 THEN Idle_SH
                ELSE [word |-> k.word, args |-> k.args, got |-> <<>>, light |-> light]
<1>5. handling' = [handling EXCEPT ![c] = x]
  BY <1>2 DEF Handle
<1>6. handling' = [d \in Handlers |-> handling'[d]] /\ handling'[c] = x
      /\ \A d \in Handlers \ {c} : handling'[d] = handling[d]
  BY <1>5 DEF HandlerInv
<1>7. ASSUME ~mixed'
      PROVE  \/ /\ \A d \in Handlers : handling'[d] = Idle_SH
                /\ wanted' = [light |-> light', adjusts |-> adjusts', kilostep |-> kilostep']
             \/ Underway(c)' /\ \A d \in Handlers \ {c} : handling'[d] = Idle_SH
  <2>1. wanted = [light |-> light, adjusts |-> adjusts, kilostep |-> kilostep]
    <3>1. \A d \in Handlers : ~Underway(d)
      BY <1>3, <1>7 DEF Underway, Idle_SH
    <3> QED BY <1>3, <1>7, <3>1 DEF HandlerInv
  <2>2. CASE Tokens(k) = 0
    <3>1. k.word \notin {"set_motors", "adj_motors", "set_dist_per_step", "set_led"}
      BY <1>1, <2>2 DEF Tokens
    <3>2. Applied(wanted, k) = wanted
      BY <3>1 DEF Applied
    <3>3. light' = light /\ adjusts' = adjusts /\ kilostep' = kilostep
      BY <1>2, <3>1 DEF Motor
    <3> QED BY <1>3, <1>6, <1>7, <2>1, <2>2, <3>2, <3>3
  <2>3. CASE Tokens(k) # 0
    <3>1. PICK u : u = [word |-> k.word, args |-> k.args, got |-> <<>>, light |-> light]
      OBVIOUS
    <3>2. u.word = k.word /\ u.args = k.args /\ u.got = <<>> /\ u.light = light /\ Len(u.got) = 0
      BY <3>1
    <3>3. handling'[c] = u
      BY <1>6, <2>3, <3>1
    <3>4. k.word \in {"move_steps", "walk", "set_dist_per_step", "set_ir", "set_motors", "adj_motors", "set_led"}
      BY <2>3 DEF Tokens
    <3>5. Tokens(u) = Tokens(k) /\ Tokens(k) \in Nat /\ Tokens(k) > 0 /\ Tokens(k) <= Len(k.args)
      <4>1. Tokens(u) = Tokens(k)
        BY <3>2 DEF Tokens
      <4>2. Tokens(k) \in Nat /\ Tokens(k) > 0
        BY <1>1, <3>4 DEF Tokens
      <4>3. ~(Len(k.args) < Tokens(k))
        BY <1>3, <1>7 DEF Missing
      <4> QED BY <1>1, <4>1, <4>2, <4>3
    <3>6. k.args \in Seq({k.args[i] : i \in 1 .. Len(k.args)})
      BY <1>1, SequenceOf
    <3>7. wanted' = [light |-> LightAfter(u)', adjusts |-> AdjustsAfter(u)', kilostep |-> KilostepAfter(u)']
      <4>1. wanted' = Applied(wanted, k)
        BY <1>3, <1>7
      <4>2. wanted' = [light |-> IF k.word = "set_led"
                      THEN [h \in Hues |-> IF \E i \in DOMAIN k.args[1] : k.args[1][i] = h
                                           THEN k.args[1 + LastOf(k.args[1], h)] ELSE light[h]]
                      ELSE light,
                     adjusts |-> IF k.word = "set_motors" THEN [m \in Motors3 |-> k.args[m + 1]]
                        ELSE IF k.word = "adj_motors" THEN [m \in Motors3 |-> Adjusted(adjusts[m], k.args[m + 1])]
                        ELSE adjusts,
                     kilostep |-> IF k.word = "set_dist_per_step" THEN k.args[2] ELSE kilostep]
        BY <2>1, <4>1, AppliedIs
      <4>3. KilostepAfter(u)' = IF k.word = "set_dist_per_step" THEN k.args[2] ELSE kilostep
        BY <1>2, <3>2 DEF KilostepAfter
      <4>4. AdjustsAfter(u)' = IF k.word = "set_motors" THEN [m \in Motors3 |-> k.args[m + 1]]
                        ELSE IF k.word = "adj_motors" THEN [m \in Motors3 |-> Adjusted(adjusts[m], k.args[m + 1])]
                        ELSE adjusts
        BY <1>2, <3>2 DEF AdjustsAfter, Motors3
      <4>5. LightAfter(u)' = IF k.word = "set_led"
                      THEN [h \in Hues |-> IF \E i \in DOMAIN k.args[1] : k.args[1][i] = h
                                           THEN k.args[1 + LastOf(k.args[1], h)] ELSE light[h]]
                      ELSE light
        <5>1. Motor(u) <=> Motor(k)
          BY <3>2 DEF Motor
        <5>2. CASE Motor(k)
          BY <3>2, <5>1, <5>2 DEF LightAfter, Motor
        <5>3. CASE ~Motor(k) /\ k.word # "set_led"
          BY <1>2, <3>2, <5>1, <5>3 DEF LightAfter
        <5>4. CASE ~Motor(k) /\ k.word = "set_led"
          <6>1. \A i \in DOMAIN k.args[1] : i >= 0
            BY <1>1, <5>4
          <6>2. LightAfter(u)' = [h \in Hues |-> IF \E i \in DOMAIN k.args[1] : i >= 0 /\ k.args[1][i] = h
                                           THEN k.args[1 + LastOf(k.args[1], h)] ELSE light[h]]
            BY <1>2, <3>2, <5>1, <5>4 DEF LightAfter
          <6> QED BY <5>4, <6>1, <6>2
        <5> QED BY <5>2, <5>3, <5>4
      <4> QED BY <4>2, <4>3, <4>4, <4>5
    <3>8. Underway(c)'
      <4> DEFINE S == {k.args[i] : i \in 1 .. Len(k.args)}
      <4>1. u.args \in Seq(S) /\ u.got \in Seq(S)
        BY <3>2, <3>6
      <4>2. u.word = "set_led" => u.args[1] \in Seq(Hues)
        BY <1>1, <3>2
      <4>3. Len(u.got) < Tokens(u) /\ Tokens(u) <= Len(u.args)
        BY <3>2, <3>5
      <4> HIDE DEF S
      <4>4. \E R : u.args \in Seq(R) /\ u.got \in Seq(R)
        BY <4>1
      <4>5. \A i \in 1 .. Len(u.got) : u.got[i] = u.args[i]
        BY <3>2
      <4>6. u = [word |-> u.word, args |-> u.args, got |-> u.got, light |-> u.light]
        BY <3>1
      <4>7. u.light = [h \in Hues |-> u.light[h]]
        BY <1>3, <1>7, <3>2 DEF HandlerInv
      <4> QED BY <3>2, <3>3, <3>4, <3>7, <4>2, <4>6, <4>7, <4>3, <4>4, <4>5, Zenon DEF Underway
    <3> QED BY <1>3, <1>6, <1>7, <3>8
  <2> QED BY <2>2, <2>3
<1> QED BY <1>4, <1>6, <1>7 DEF HandlerInv

\* A command that has taken its last argument is done, and another one is one
\* argument further.
LEMMA ArgumentTaken ==
  ASSUME HandlerAssumption, HandlerInv, NEW c \in Handlers, Token(c)
  PROVE  HandlerInv'
<1>1. handling' = [d \in Handlers |-> handling'[d]] /\ handling[c] # Idle_SH
      /\ \A d \in Handlers \ {c} : handling'[d] = handling[d]
  BY DEF Token, HandlerInv
<1>2. ~mixed' => ~mixed /\ Place(c).owner = c
  BY Zenon DEF Token
<1> SUFFICES ASSUME ~mixed, Place(c).owner = c
             PROVE  /\ light' = [h \in Hues |-> light'[h]] /\ adjusts' = [m \in Motors3 |-> adjusts'[m]]
                    /\ \/ /\ handling'[c] = Idle_SH
                          /\ wanted' = [light |-> light', adjusts |-> adjusts', kilostep |-> kilostep']
                       \/ Underway(c)'
  <2>1. ~mixed => \A d \in Handlers \ {c} : handling[d] = Idle_SH
    BY <1>1 DEF HandlerInv
  <2> QED BY <1>1, <1>2, <2>1 DEF HandlerInv
<1>3. Underway(c) /\ light = [h \in Hues |-> light[h]] /\ adjusts = [m \in Motors3 |-> adjusts[m]]
  BY <1>1 DEF HandlerInv
<1>4. PICK u : u = handling[c]
  OBVIOUS
<1>5. PICK S : u.args \in Seq(S) /\ u.got \in Seq(S)
  BY <1>3, <1>4 DEF Underway
<1>6. PICK n \in Nat : n = Len(u.got)
  BY <1>5
<1>7. /\ n < Tokens(u) /\ Tokens(u) <= Len(u.args) /\ n \in 0 .. Len(u.args) - 1
      /\ u.word \in {"move_steps", "walk", "set_dist_per_step", "set_ir", "set_motors", "adj_motors", "set_led"}
      /\ u.word = "set_led" => u.args[1] \in Seq(Hues)
      /\ \A i \in 1 .. n : u.got[i] = u.args[i]
      /\ wanted = [light |-> LightAfter(u), adjusts |-> AdjustsAfter(u), kilostep |-> KilostepAfter(u)]
      /\ Tokens(u) \in Int
  <2>1. Tokens(u) \in Int
    BY <1>3, <1>4 DEF Underway, Tokens
  <2> QED BY <1>3, <1>4, <1>5, <1>6, <2>1 DEF Underway
<1>8. Place(c) = [owner |-> c, left |-> Left(u.args, n)]
  <2>1. CASE u.got = <<>>
    <3>1. n = 0 /\ Left(u.args, 0) = u.args
      BY <1>5, <1>6, <1>7, <2>1, TakeNext
    <3> QED BY <1>4, <2>1, <3>1 DEF Place
  <2>2. CASE u.got # <<>>
    BY <1>3, <1>4, <1>6, <2>2 DEF Place, Underway
  <2> QED BY <2>1, <2>2
<1>9. PICK v : v = u.args[n + 1]
  OBVIOUS
<1>10. Place(c).left # <<>> /\ Head(Place(c).left) = v /\ Tail(Place(c).left) = Left(u.args, n + 1)
  BY <1>5, <1>7, <1>8, <1>9, TakeNext
<1>11. PICK got \in Seq(S) : /\ got = Append(u.got, v) /\ Len(got) = n + 1
                             /\ \A i \in 1 .. n + 1 : got[i] = u.args[i]
  <2>1. v \in S
    BY <1>5, <1>7, <1>9
  <2>2. Append(u.got, v) \in Seq(S) /\ Len(Append(u.got, v)) = n + 1
    BY <1>5, <1>6, <2>1
  <2>3. \A i \in 1 .. n : Append(u.got, v)[i] = u.got[i]
    BY <1>5, <1>6, <2>1
  <2>4. Append(u.got, v)[n + 1] = v
    BY <1>5, <1>6, <2>1
  <2>5. \A i \in 1 .. n + 1 : Append(u.got, v)[i] = u.args[i]
    BY <1>6, <1>7, <1>9, <2>3, <2>4
  <2> QED BY <2>2, <2>5
<1> DEFINE done == n + 1 = Tokens(u)
<1>12. /\ handling' = [handling EXCEPT ![c] = IF done THEN Idle_SH ELSE [u EXCEPT !.got = got]]
       /\ adjusts' = IF Motor(u) THEN Store(u, n + 1, v) ELSE adjusts
       /\ wanted' = wanted
  BY <1>4, <1>10, <1>11 DEF Token
<1>13. strtok' = [owner |-> c, left |-> Left(u.args, n + 1)]
  <2>1. strtok' = [Place(c) EXCEPT !.left = Tail(@)]
    BY <1>10 DEF Token
  <2> QED BY <1>8, <1>10, <2>1
<1>14. IF u.word = "set_led"
       THEN /\ light' = IF n + 1 = 1 THEN light ELSE [light EXCEPT ![u.args[1][n + 1 - 1]] = v]
            /\ kilostep' = kilostep
       ELSE IF done THEN Finish(c, got)
       ELSE light' = light /\ kilostep' = kilostep
  BY <1>4, <1>10, <1>11 DEF Token
\* The adjustments are those that the command sets from here on.
<1>15. /\ adjusts' = [m \in Motors3 |-> adjusts'[m]]
       /\ \A m \in Motors3 : adjusts'[m] = IF Motor(u) /\ m = n
                                           THEN IF u.word = "set_motors" THEN v ELSE Adjusted(adjusts[m], v)
                                           ELSE adjusts[m]
  <2>1. CASE ~Motor(u)
    BY <1>3, <1>12, <2>1
  <2>2. CASE Motor(u) /\ n = 0
    BY <1>3, <1>12, <2>2 DEF Store, Motors3
  <2>3. CASE Motor(u) /\ n # 0
    <3>1. adjusts' = [adjusts EXCEPT ![n] = IF u.word = "set_motors" THEN v ELSE Adjusted(adjusts[n], v)]
      <4>1. n + 1 # 1 /\ n + 1 - 1 = n
        BY <2>3
      <4>2. adjusts' = Store(u, n + 1, v)
        BY <1>12, <2>3
      <4>3. Store(u, n + 1, v) = [adjusts EXCEPT ![n + 1 - 1] = IF u.word = "set_motors" THEN v
                                                                ELSE Adjusted(adjusts[n + 1 - 1], v)]
        BY <4>1 DEF Store
      <4> QED BY <4>1, <4>2, <4>3
    <3> QED BY <1>3, <2>3, <3>1 DEF Motors3
  <2> QED BY <2>1, <2>2, <2>3
\* So are the components of the light.
<1>16. u.word = "set_led" =>
         /\ light' = [h \in Hues |-> light'[h]]
         /\ \A h \in Hues :
              (IF \E i \in DOMAIN u.args[1] : i >= n /\ u.args[1][i] = h
               THEN u.args[1 + LastOf(u.args[1], h)] ELSE light[h])
                = (IF \E i \in DOMAIN u.args[1] : i >= n + 1 /\ u.args[1][i] = h
                   THEN u.args[1 + LastOf(u.args[1], h)] ELSE light'[h])
  <2> SUFFICES ASSUME u.word = "set_led"
               PROVE  /\ light' = [h \in Hues |-> light'[h]]
                      /\ \A h \in Hues :
                           (IF \E i \in DOMAIN u.args[1] : i >= n /\ u.args[1][i] = h
                            THEN u.args[1 + LastOf(u.args[1], h)] ELSE light[h])
                             = (IF \E i \in DOMAIN u.args[1] : i >= n + 1 /\ u.args[1][i] = h
                                THEN u.args[1 + LastOf(u.args[1], h)] ELSE light'[h])
    OBVIOUS
  <2>1. PICK s \in Seq(Hues) : s = u.args[1]
    BY <1>7
  <2>2. Tokens(u) = 1 + Len(s)
    BY <2>1 DEF Tokens
  <2>3. CASE n = 0
    <3>1. light' = light /\ \A i \in DOMAIN s : i >= 0 /\ i >= 0 + 1
      BY <1>14, <2>1, <2>3
    <3> QED BY <1>3, <2>1, <2>3, <3>1
  <2>4. CASE n # 0
    <3>1. n \in 1 .. Len(s)
      BY <1>7, <2>1, <2>2, <2>4
    <3>2. light' = [light EXCEPT ![s[n]] = u.args[n + 1]]
      <4>1. n + 1 # 1 /\ n + 1 - 1 = n
        BY <3>1
      <4> QED BY <1>9, <1>14, <2>1, <4>1
    <3>3. light' = [h \in Hues |-> light'[h]]
      BY <1>3, <3>2
    <3>4. PICK old, new : old = light /\ new = light'
      OBVIOUS
    <3>5. old = [h \in Hues |-> old[h]] /\ new = [old EXCEPT ![s[n]] = u.args[n + 1]]
      BY <1>3, <3>2, <3>4
    <3>6. \A h \in Hues :
            (IF \E i \in DOMAIN s : i >= n /\ s[i] = h THEN u.args[1 + LastOf(s, h)] ELSE old[h])
              = (IF \E i \in DOMAIN s : i >= n + 1 /\ s[i] = h THEN u.args[1 + LastOf(s, h)] ELSE new[h])
      <4> SUFFICES ASSUME NEW h \in Hues
                   PROVE  (IF \E i \in DOMAIN s : i >= n /\ s[i] = h THEN u.args[1 + LastOf(s, h)] ELSE old[h])
                            = (IF \E i \in DOMAIN s : i >= n + 1 /\ s[i] = h
                               THEN u.args[1 + LastOf(s, h)] ELSE new[h])
        OBVIOUS
      <4>1. PICK args : args = u.args
        OBVIOUS
      <4>2. new = [old EXCEPT ![s[n]] = args[n + 1]]
        BY <3>5, <4>1
      <4>3. IsComponent(s, n, h, args, old[h]) = IsComponent(s, n + 1, h, args, new[h])
        BY <3>1, <3>5, <4>2, ComponentIsSet
      <4> QED BY <4>1, <4>3 DEF IsComponent
    <3> QED BY <2>1, <3>3, <3>4, <3>6
  <2> QED BY <2>3, <2>4
<1>17. CASE done
  <2>1. handling'[c] = Idle_SH
    BY <1>12, <1>17 DEF HandlerInv
  <2>2. AdjustsAfter(u) = adjusts'
    <3>1. Motor(u) => n = 3
      BY <1>17, <1>7 DEF Motor, Tokens
    <3>2. CASE ~Motor(u)
      BY <1>3, <1>12, <3>2 DEF AdjustsAfter, Motor
    <3>3. CASE Motor(u)
      <4>1. v = u.args[3 + 1] /\ Len(u.got) = 3 /\ n = 3
        BY <1>6, <1>9, <3>1, <3>3
      <4>2. u.word = "set_motors" \/ u.word = "adj_motors"
        BY <3>3 DEF Motor
      <4>3. \A m \in Motors3 : m < 3 \/ m = 3
        BY DEF Motors3
      <4> HIDE DEF Motors3
      <4> QED BY <1>15, <3>3, <4>1, <4>2, <4>3 DEF AdjustsAfter
    <3> QED BY <3>2, <3>3
  <2>3. KilostepAfter(u) = kilostep'
    <3>1. CASE u.word = "set_led"
      BY <1>14, <3>1 DEF KilostepAfter
    <3>2. CASE u.word = "set_dist_per_step"
      <4>1. n + 1 = 2
        BY <1>17, <3>2 DEF Tokens
      <4>2. got[2] = u.args[2]
        BY <1>11, <4>1
      <4>3. Finish(c, got)
        BY <1>14, <1>17, <3>2
      <4> QED BY <1>4, <3>2, <4>2, <4>3 DEF KilostepAfter, Finish
    <3>3. CASE u.word # "set_led" /\ u.word # "set_dist_per_step"
      BY <1>4, <1>14, <1>17, <3>3 DEF KilostepAfter, Finish
    <3> QED BY <3>1, <3>2, <3>3
  <2>4. LightAfter(u) = light' /\ light' = [h \in Hues |-> light'[h]]
    <3>1. CASE Motor(u)
      <4>1. Finish(c, got) /\ Motor([word |-> u.word, args |-> got])
        BY <1>14, <1>17, <3>1 DEF Motor
      <4>2. light' = u.light
        BY <1>4, <4>1 DEF Finish, EndLit
      <4>3. u.light = [h \in Hues |-> u.light[h]]
        BY <1>3, <1>4 DEF Underway
      <4> QED BY <3>1, <4>2, <4>3 DEF LightAfter
    <3>2. CASE u.word = "set_led"
      <4>1. PICK s \in Seq(Hues) : s = u.args[1]
        BY <1>7, <3>2
      <4>2. n = Len(s) /\ \A i \in DOMAIN s : ~(i >= n + 1)
        BY <1>17, <3>2, <4>1 DEF Tokens
      <4>3. LightAfter(u) = [h \in Hues |-> IF \E i \in DOMAIN s : i >= n /\ s[i] = h
                                            THEN u.args[1 + LastOf(s, h)] ELSE light[h]]
        BY <1>6, <3>2, <4>1 DEF LightAfter, Motor
      <4>4. \A h \in Hues : (IF \E i \in DOMAIN s : i >= n /\ s[i] = h
                             THEN u.args[1 + LastOf(s, h)] ELSE light[h]) = light'[h]
        BY <1>16, <3>2, <4>1, <4>2
      <4> QED BY <1>16, <3>2, <4>3, <4>4
    <3>3. CASE ~Motor(u) /\ u.word # "set_led"
      <4>1. Finish(c, got) /\ ~Motor([word |-> u.word, args |-> got])
        BY <1>14, <1>17, <3>3 DEF Motor
      <4>2. light' = light
        BY <1>4, <4>1 DEF Finish
      <4> QED BY <1>3, <3>3, <4>2 DEF LightAfter
    <3> QED BY <3>1, <3>2, <3>3
  <2> QED BY <1>7, <1>12, <1>15, <2>1, <2>2, <2>3, <2>4
<1>18. CASE ~done
  <2>1. PICK x : x = [u EXCEPT !.got = got]
    OBVIOUS
  <2>2. x = [word |-> u.word, args |-> u.args, got |-> got, light |-> u.light]
    <3>1. u = [word |-> u.word, args |-> u.args, got |-> u.got, light |-> u.light]
      BY <1>3, <1>4 DEF Underway
    <3> QED BY <2>1, <3>1
  <2>3. x.word = u.word /\ x.args = u.args /\ x.got = got /\ x.light = u.light /\ Len(x.got) = n + 1
        /\ x.got # <<>>
    BY <1>11, <2>2
  <2>4. handling'[c] = x
    BY <1>12, <1>18, <2>1 DEF HandlerInv
  <2>5. light' = [h \in Hues |-> light'[h]] /\ LightAfter(x)' = LightAfter(u)
    <3>1. CASE u.word = "set_led"
      <4>1. PICK s \in Seq(Hues) : s = u.args[1]
        BY <1>7, <3>1
      <4>2. LightAfter(u) = [h \in Hues |-> IF \E i \in DOMAIN s : i >= n /\ s[i] = h
                                            THEN u.args[1 + LastOf(s, h)] ELSE light[h]]
        BY <1>6, <3>1, <4>1 DEF LightAfter, Motor
      <4>3. LightAfter(x)' = [h \in Hues |-> IF \E i \in DOMAIN s : i >= n + 1 /\ s[i] = h
                                            THEN u.args[1 + LastOf(s, h)] ELSE light'[h]]
        BY <2>3, <3>1, <4>1 DEF LightAfter, Motor
      <4>4. \A h \in Hues : (IF \E i \in DOMAIN s : i >= n /\ s[i] = h
                             THEN u.args[1 + LastOf(s, h)] ELSE light[h])
                           = (IF \E i \in DOMAIN s : i >= n + 1 /\ s[i] = h
                              THEN u.args[1 + LastOf(s, h)] ELSE light'[h])
        BY <1>16, <3>1, <4>1
      <4> QED BY <1>16, <3>1, <4>2, <4>3, <4>4
    <3>2. CASE u.word # "set_led"
      <4>1. light' = light
        BY <1>14, <1>18, <3>2
      <4> QED BY <1>3, <2>3, <3>2, <4>1 DEF LightAfter, Motor
    <3> QED BY <3>1, <3>2
  <2>6. KilostepAfter(x)' = KilostepAfter(u)
    BY <1>14, <1>18, <2>3 DEF KilostepAfter
  <2>7. AdjustsAfter(x)' = AdjustsAfter(u)
    <3>1. CASE ~Motor(u)
      BY <1>12, <2>3, <3>1 DEF AdjustsAfter, Motor
    <3>2. CASE Motor(u)
      <4>1. u.word = "set_motors" \/ u.word = "adj_motors"
        BY <3>2 DEF Motor
      <4>2. \A m \in Motors3 : /\ m < n => m < n + 1 /\ m # n
                               /\ m = n => m < n + 1 /\ ~(m < n)
                               /\ ~(m < n) /\ m # n => ~(m < n + 1)
        BY DEF Motors3
      <4>3. v = u.args[n + 1] /\ Len(u.got) = n
        BY <1>6, <1>9
      <4> HIDE DEF Motors3
      <4>4. CASE u.word = "set_motors"
        <5>1. AdjustsAfter(u) = [m \in Motors3 |-> IF m < n THEN adjusts[m] ELSE u.args[m + 1]]
          BY <4>3, <4>4 DEF AdjustsAfter
        <5>2. AdjustsAfter(x)' = [m \in Motors3 |-> IF m < n + 1 THEN adjusts'[m] ELSE u.args[m + 1]]
          BY <2>3, <4>4 DEF AdjustsAfter
        <5>3. \A m \in Motors3 : (IF m < n THEN adjusts[m] ELSE u.args[m + 1])
                                  = (IF m < n + 1 THEN adjusts'[m] ELSE u.args[m + 1])
          BY <1>15, <3>2, <4>2, <4>3, <4>4
        <5> QED BY <5>1, <5>2, <5>3
      <4>5. CASE u.word = "adj_motors"
        <5>1. AdjustsAfter(u) = [m \in Motors3 |-> IF m < n THEN adjusts[m] ELSE Adjusted(adjusts[m], u.args[m + 1])]
          BY <4>3, <4>5 DEF AdjustsAfter
        <5>2. AdjustsAfter(x)' = [m \in Motors3 |-> IF m < n + 1 THEN adjusts'[m]
                                                    ELSE Adjusted(adjusts'[m], u.args[m + 1])]
          BY <2>3, <4>5 DEF AdjustsAfter
        <5>3. \A m \in Motors3 : (IF m < n THEN adjusts[m] ELSE Adjusted(adjusts[m], u.args[m + 1]))
                                  = (IF m < n + 1 THEN adjusts'[m] ELSE Adjusted(adjusts'[m], u.args[m + 1]))
          BY <1>15, <3>2, <4>2, <4>3, <4>5
        <5> QED BY <5>1, <5>2, <5>3
      <4> QED BY <4>1, <4>4, <4>5
    <3> QED BY <3>1, <3>2
  <2>8. wanted' = [light |-> LightAfter(x)', adjusts |-> AdjustsAfter(x)', kilostep |-> KilostepAfter(x)']
    BY <1>7, <1>12, <2>5, <2>6, <2>7
  <2>9. Underway(c)'
    <3>1. x.args \in Seq(S) /\ x.got \in Seq(S)
      BY <1>5, <2>3
    <3>2. \E R : x.args \in Seq(R) /\ x.got \in Seq(R)
      BY <3>1
    <3>3. Tokens(x) = Tokens(u)
      BY <2>3 DEF Tokens
    <3>4. Len(x.got) < Tokens(x) /\ Tokens(x) <= Len(x.args)
      BY <1>7, <1>18, <2>3, <3>3
    <3>5. x.light = [h \in Hues |-> x.light[h]]
      BY <1>3, <1>4, <2>3 DEF Underway
    <3>6. x = [word |-> x.word, args |-> x.args, got |-> x.got, light |-> x.light]
      BY <2>2
    <3>7. \A i \in 1 .. Len(x.got) : x.got[i] = x.args[i]
      BY <1>11, <2>3
    <3>8. strtok' = [owner |-> c, left |-> Left(x.args, Len(x.got))]
      BY <1>13, <2>3
    <3>9. /\ x.word \in {"move_steps", "walk", "set_dist_per_step", "set_ir", "set_motors", "adj_motors", "set_led"}
          /\ x.word = "set_led" => x.args[1] \in Seq(Hues)
      BY <1>7, <2>3
    <3> QED BY <2>4, <2>8, <3>2, <3>4, <3>5, <3>6, <3>7, <3>8, <3>9, Zenon DEF Underway
  <2> QED BY <1>15, <2>5, <2>9
<1> QED BY <1>17, <1>18

\* Every step preserves the invariant.
LEMMA HandlerStep ==
  ASSUME HandlerAssumption, HandlerInv, [HandlerNext]_handlerVars
  PROVE  HandlerInv'
<1>1. CASE UNCHANGED handlerVars
  <2>1. \A c \in Handlers : Underway(c) <=> Underway(c)'
    <3> SUFFICES ASSUME NEW c \in Handlers PROVE Underway(c) <=> Underway(c)'
      OBVIOUS
    <3>1. LightAfter(handling[c])' = LightAfter(handling[c])
      BY <1>1 DEF handlerVars, LightAfter
    <3>2. AdjustsAfter(handling[c])' = AdjustsAfter(handling[c])
      BY <1>1 DEF handlerVars, AdjustsAfter
    <3>3. KilostepAfter(handling[c])' = KilostepAfter(handling[c])
      BY <1>1 DEF handlerVars, KilostepAfter
    <3> QED BY <1>1, <3>1, <3>2, <3>3, Zenon DEF handlerVars, Underway
  <2>2. handling' = handling /\ light' = light /\ adjusts' = adjusts /\ kilostep' = kilostep
        /\ wanted' = wanted /\ (mixed' <=> mixed)
    BY <1>1, Zenon DEF handlerVars
  <2> QED BY <2>1, <2>2, Zenon DEF HandlerInv
<1>2. CASE HandlerNext
  <2>1. PICK c \in Handlers : Token(c) \/ \E k \in SerialCommands : Handle(c, k)
    BY <1>2 DEF HandlerNext
  <2> QED BY <2>1, CommandBegins, ArgumentTaken
<1> QED BY <1>1, <1>2

\* Unless one command interrupts another one, and strtok then loses its place, each
\* command that has its arguments leaves the settings and the light as one step
\* would, token by token as it reads them, for any values and any two contexts.
THEOREM CommandsAreWhole == HandlerSpec => []CommandsWhole
<1>1. HandlerInv => CommandsWhole
  <2>1. \A c \in Handlers : Underway(c) => handling[c] # Idle_SH
    BY DEF Underway, Idle_SH
  <2> QED BY <2>1 DEF HandlerInv, CommandsWhole
<1> QED BY <1>1, HandlerBegins, HandlerStep, HandlerAssumption, PTL DEF HandlerSpec

-----------------------------------------------------------------------------
(* The EEPROM                                                              *)

\* A setting has as many negative values as others.
LEMMA Halves ==
  ASSUME StoreAssumption
  PROVE  Half \in Nat /\ 2 * Half = ByteBase * ByteBase /\ ByteBase \in Nat \ {0, 1}
<1>1. ByteBase \in Nat \ {0, 1} /\ ByteBase % 2 = 0
  BY DEF StoreAssumption
<1>2. PICK h \in Nat : ByteBase = 2 * h
  <2>1. ByteBase = 2 * (ByteBase \div 2) /\ ByteBase \div 2 \in Nat
    BY <1>1
  <2> QED BY <2>1
<1>3. ByteBase * ByteBase = 2 * (h * ByteBase)
  BY <1>1, <1>2
<1>4. h * ByteBase \in Nat
  BY <1>1, <1>2
<1>5. (ByteBase * ByteBase) \div 2 = h * ByteBase
  BY <1>3, <1>4
<1> QED BY <1>1, <1>3, <1>4, <1>5 DEF Half

\* The two bytes of a signed number, and the number that they make.
LEMMA BytesMakeSetting ==
  ASSUME StoreAssumption, NEW v \in Values16
  PROVE  /\ High(v) \in Bytes /\ Low(v) \in Bytes
         /\ LET u == High(v) * ByteBase + Low(v) IN v = IF u >= Half THEN u - 2 * Half ELSE u
<1> DEFINE B == ByteBase
           q == v \div B
<1>1. B \in Nat \ {0, 1} /\ Half \in Nat /\ 2 * Half = B * B /\ v \in Int /\ -Half <= v /\ v <= Half - 1
  BY Halves DEF Values16
<1>2. q \in Int /\ Low(v) \in 0 .. B - 1 /\ v = (B * q) + Low(v)
  BY <1>1, DivMod DEF Low
<1>3. High(v) = q % B
  BY DEF High
<1> HIDE DEF q
<1>4. CASE v >= 0
  <2>1. q >= 0
    <3>1. SUFFICES ASSUME q <= -1 PROVE FALSE
      BY <1>2
    <3>2. B * q <= -B
      BY <1>1, <1>2, <3>1
    <3> QED BY <1>1, <1>2, <1>4, <3>2
  <2>2. q <= B - 1
    <3>1. SUFFICES ASSUME q >= B PROVE FALSE
      BY <1>1, <1>2
    <3>2. B * q >= B * B
      BY <1>1, <1>2, <3>1
    <3> QED BY <1>1, <1>2, <3>2
  <2>3. High(v) = q
    <3>1. q % B = q
      BY <1>1, <1>2, <2>1, <2>2
    <3> QED BY <1>3, <3>1
  <2>4. High(v) * B + Low(v) = v
    BY <1>1, <1>2, <2>3
  <2> QED BY <1>1, <1>2, <1>4, <2>1, <2>2, <2>3, <2>4 DEF Bytes
<1>5. CASE v < 0
  <2>1. q <= -1
    <3>1. SUFFICES ASSUME q >= 0 PROVE FALSE
      BY <1>2
    <3>2. B * q >= 0
      BY <1>1, <1>2, <3>1
    <3> QED BY <1>1, <1>2, <1>5, <3>2
  <2>2. q >= -B
    <3>1. SUFFICES ASSUME q <= -B - 1 PROVE FALSE
      BY <1>1, <1>2
    <3>2. B * q <= B * (-B - 1)
      BY <1>1, <1>2, <3>1
    <3>3. B * (-B - 1) = -(B * B) - B
      BY <1>1
    <3> QED BY <1>1, <1>2, <3>2, <3>3
  <2>3. High(v) = q + B
    <3>1. q = (-1) * B + (q + B)
      BY <1>1, <1>2
    <3>2. q + B \in 0 .. B - 1 /\ -1 \in Int
      BY <1>1, <1>2, <2>1, <2>2
    <3> QED BY <1>1, <1>3, <3>1, <3>2, RemainderIs
  <2>4. High(v) * B + Low(v) = v + B * B
    <3>1. (q + B) * B = B * q + B * B
      BY <1>1, <1>2
    <3> QED BY <1>1, <1>2, <2>3, <3>1
  <2> QED BY <1>1, <1>2, <1>5, <2>1, <2>2, <2>3, <2>4 DEF Bytes
<1> QED BY <1>1, <1>4, <1>5

\* Any two bytes make a number of two bytes.
LEMMA SettingInRange ==
  ASSUME StoreAssumption, NEW i \in 0 .. NumSettings - 1, NEW mem \in [Addresses -> Bytes]
  PROVE  Setting(mem, i) \in Values16
<1> DEFINE B == ByteBase
<1>1. B \in Nat \ {0, 1} /\ Half \in Nat /\ 2 * Half = B * B
  BY Halves
<1>2. 2 * i \in Addresses /\ 2 * i + 1 \in Addresses
  BY DEF Addresses, StoreAssumption
<1>3. PICK h \in 0 .. B - 1, l \in 0 .. B - 1 : h = mem[2 * i] /\ l = mem[2 * i + 1]
  BY <1>2 DEF Bytes
<1>4. h * B + l \in 0 .. B * B - 1
  <2>1. h * B >= 0 /\ h * B \in Int
    BY <1>1
  <2>2. h * B <= (B - 1) * B
    BY <1>1
  <2>3. (B - 1) * B = B * B - B
    BY <1>1
  <2>4. B * B \in Int
    BY <1>1
  <2> QED BY <1>1, <2>1, <2>2, <2>3, <2>4
<1> QED BY <1>1, <1>3, <1>4 DEF Setting, Values16

\* Where a write of the settings is.
WriteStages == {"idle", "flush", "address", "data", "execute"}

\* The bytes before k are those of the settings.
RightBelow(k) == \A a \in Addresses : a < k => eeprom[a] = ByteOf(ram[a \div 2], a)

\* The byte that c has come to has been taken from the settings.
ByteTaken(c) == writer[c].at \in {"address", "data", "execute"}
              \/ (writer[c].at = "flush" /\ writer[c].k % 2 = 1)

\* The controller is as the context that runs has left it, or as a write within
\* the task has left it: it has then nothing loaded, and loads nothing.
AsLeft(c) ==
  LET w == writer[c]
      within == c = "task" /\ (w.clean => settled)
  IN  /\ w.at = "address" => page = NoBytes /\ (nvm.cmd = "load" \/ within)
      /\ w.at = "data" => page = NoBytes /\ IF nvm.cmd = "load" THEN nvm.addr = w.k ELSE within
      /\ w.at = "execute" =>
           IF page = NoBytes THEN within
           ELSE nvm.addr = w.k /\ page = [o \in {w.k % PageSize} |-> ByteOf(w.temp, w.k)]

\* The types of the EEPROM, of the settings, and of the writes under way.
StoreTypeOK ==
  /\ eeprom \in [Addresses -> Bytes] /\ DOMAIN had = Addresses
  /\ ram \in [0 .. NumSettings - 1 -> Values16]
  /\ writer \in [Writers -> [at : WriteStages, k : Addresses, temp : Int, clean : BOOLEAN]]
  /\ settled \in BOOLEAN

\* The context whose steps are next
Running == IF writer["isr"].at # "idle" THEN "isr" ELSE "task"

\* Every byte is one that the settings have had there; what a write has done of
\* settings that did not change since is right; and the page buffer has nothing
\* but the byte that the running context loaded.
StoreInv ==
  /\ StoreTypeOK
  /\ BytesInPlace
  /\ \A a \in Addresses : ByteOf(ram[a \div 2], a) \in had[a]
  /\ \A c \in Writers : writer[c].at = "idle" => writer[c] = NoWriter
  /\ \A c \in Writers : ByteTaken(c) => \A a \in Addresses :
       a \div 2 = writer[c].k \div 2 => ByteOf(writer[c].temp, a) \in had[a]
  /\ \A c \in Writers : ByteTaken(c) /\ writer[c].clean => writer[c].temp = ram[writer[c].k \div 2]
  /\ \A c \in Writers : writer[c].clean => RightBelow(writer[c].k)
  /\ writer["isr"].at # "idle" => writer["isr"].clean
  /\ settled => RightBelow(2 * NumSettings)
  /\ AsLeft(Running)

\* An erased EEPROM is read as -1 in every setting.
LEMMA StoreBegins == StoreAssumption /\ StoreInit => StoreInv
<1> SUFFICES ASSUME StoreAssumption, StoreInit PROVE StoreInv
  OBVIOUS
<1>1. ByteBase \in Nat \ {0, 1} /\ ByteBase - 1 \in Bytes /\ 0 \in Addresses
  BY DEF StoreAssumption, Bytes, Addresses
<1>2. eeprom \in [Addresses -> Bytes]
  BY <1>1 DEF StoreInit
<1>3. \A i \in 0 .. NumSettings - 1 : Setting(eeprom, i) = -1 /\ -1 \in Values16
  <2> SUFFICES ASSUME NEW i \in 0 .. NumSettings - 1
               PROVE  Setting(eeprom, i) = -1 /\ -1 \in Values16
    OBVIOUS
  <2>1. Setting(eeprom, i) \in Values16
    BY <1>2, SettingInRange
  <2>2. 2 * i \in Addresses /\ 2 * i + 1 \in Addresses
    BY DEF Addresses, StoreAssumption
  <2>3. eeprom[2 * i] = ByteBase - 1 /\ eeprom[2 * i + 1] = ByteBase - 1
    BY <2>2 DEF StoreInit
  <2>4. (ByteBase - 1) * ByteBase + (ByteBase - 1) = 2 * Half - 1 /\ Half \in Nat
    <3>1. (ByteBase - 1) * ByteBase = ByteBase * ByteBase - ByteBase
      BY <1>1
    <3>2. ByteBase * ByteBase \in Nat
      BY <1>1
    <3> QED BY <1>1, <3>1, <3>2, Halves
  <2>5. Half >= 1
    BY <1>1, <2>4
  <2> QED BY <2>1, <2>3, <2>4, <2>5 DEF Setting
<1>4. ram = [i \in 0 .. NumSettings - 1 |-> -1] /\ ram \in [0 .. NumSettings - 1 -> Values16]
  BY <1>3 DEF StoreInit, Settings
<1>5. High(-1) = ByteBase - 1 /\ Low(-1) = ByteBase - 1
  <2>1. -1 = (-1) * ByteBase + (ByteBase - 1) /\ ByteBase - 1 \in 0 .. ByteBase - 1 /\ -1 \in Int
    BY <1>1
  <2>2. (-1) % ByteBase = ByteBase - 1 /\ (-1) \div ByteBase = -1
    BY <1>1, <2>1, RemainderIs
  <2> QED BY <2>2 DEF High, Low
<1>6. \A a \in Addresses : a \div 2 \in 0 .. NumSettings - 1
  BY DEF Addresses, StoreAssumption
<1>7. \A a \in Addresses : ByteOf(ram[a \div 2], a) = ByteBase - 1
  BY <1>4, <1>5, <1>6 DEF ByteOf
<1>8. writer = [c \in Writers |-> NoWriter] /\ ~settled
  BY DEF StoreInit
<1>9. StoreTypeOK
  <2>1. NoWriter \in [at : WriteStages, k : Addresses, temp : Int, clean : BOOLEAN]
    BY <1>1 DEF NoWriter, WriteStages
  <2> QED BY <1>2, <1>4, <2>1 DEF StoreTypeOK, StoreInit
<1>10. \A c \in Writers : writer[c] = NoWriter /\ ~ByteTaken(c) /\ ~writer[c].clean
  BY <1>8 DEF ByteTaken, NoWriter
<1>11. AsLeft(Running)
  BY <1>8 DEF AsLeft, Running, NoWriter, Writers
<1> QED BY <1>7, <1>8, <1>9, <1>10, <1>11 DEF StoreInv, BytesInPlace, StoreInit, NoWriter, Writers

\* What is loaded is written to its place.
LEMMA WrittenIs ==
  ASSUME StoreAssumption, NEW mem \in [Addresses -> Bytes], NEW k \in Addresses, NEW b,
         NEW addr
  PROVE  /\ PageWritten(mem, addr, NoBytes) = mem
         /\ PageWritten(mem, k, [o \in {k % PageSize} |-> b]) = [mem EXCEPT ![k] = b]
<1>1. PageWritten(mem, addr, NoBytes) = mem
  BY DEF PageWritten, NoBytes
<1>2. \A a \in Addresses : a \div PageSize = k \div PageSize /\ a % PageSize = k % PageSize => a = k
  <2>1. PageSize \in Nat \ {0} /\ \A a \in Addresses : a \in Int
    BY DEF StoreAssumption, Addresses
  <2>2. \A a \in Addresses : a = (PageSize * (a \div PageSize)) + (a % PageSize)
    BY <2>1, DivMod
  <2> QED BY <2>2
<1>3. \A o \in {k % PageSize} : [p \in {k % PageSize} |-> b][o] = b
  OBVIOUS
<1> QED BY <1>1, <1>2, <1>3 DEF PageWritten

\* The writes under way.
Fields == [at : WriteStages, k : Addresses, temp : Int, clean : BOOLEAN]

\* A step of a write that leaves the memory, the settings and what is settled.
LEMMA WriteGoesOn ==
  ASSUME StoreAssumption, StoreInv, NEW c \in Writers, Writing(c, writer[c].at),
         writer[c].at # "idle", NEW at \in WriteStages \ {"idle"}, NEW temp \in Int,
         writer' = [writer EXCEPT ![c] = [at |-> at, k |-> writer[c].k, temp |-> temp, clean |-> writer[c].clean]],
         UNCHANGED <<eeprom, ram, settled, had>>,
         ByteTaken(c)' => (temp = writer[c].temp /\ ByteTaken(c)) \/ temp = ram[writer[c].k \div 2],
         AsLeft(c)'
  PROVE  StoreInv'
<1> DEFINE w == writer[c]
           x == [at |-> at, k |-> w.k, temp |-> temp, clean |-> w.clean]
<1>1. writer \in [Writers -> Fields] /\ w \in Fields /\ x \in Fields
  BY DEF StoreInv, StoreTypeOK, Fields
<1>2. writer'[c] = x /\ \A d \in Writers \ {c} : writer'[d] = writer[d]
  BY <1>1
<1>3. writer' \in [Writers -> Fields]
  BY <1>1
<1>4. StoreTypeOK'
  BY <1>3 DEF StoreTypeOK, StoreInv, Fields
<1>5. BytesInPlace' /\ \A a \in Addresses : ByteOf(ram'[a \div 2], a) \in had'[a]
  BY DEF StoreInv, BytesInPlace
<1>6. \A d \in Writers : writer'[d].at = "idle" => writer'[d] = NoWriter
  BY <1>2 DEF StoreInv
<1>7. \A d \in Writers \ {c} : ByteTaken(d)' <=> ByteTaken(d)
  BY <1>2 DEF ByteTaken
<1>8. \A d \in Writers : ByteTaken(d)' => \A a \in Addresses :
        a \div 2 = writer'[d].k \div 2 => ByteOf(writer'[d].temp, a) \in had'[a]
  <2>1. ByteTaken(c)' => \A a \in Addresses : a \div 2 = w.k \div 2 => ByteOf(temp, a) \in had[a]
    BY DEF StoreInv
  <2> QED BY <1>2, <1>7, <2>1 DEF StoreInv
<1>9. \A d \in Writers : ByteTaken(d)' /\ writer'[d].clean => writer'[d].temp = ram'[writer'[d].k \div 2]
  <2>1. ByteTaken(c)' /\ w.clean => temp = ram[w.k \div 2]
    BY DEF StoreInv
  <2> QED BY <1>2, <1>7, <2>1 DEF StoreInv
<1>10. \A d \in Writers : writer'[d].clean => RightBelow(writer[d].k)'
  BY <1>2 DEF StoreInv, RightBelow
<1>11. writer'["isr"].at # "idle" => writer'["isr"].clean
  BY <1>2 DEF StoreInv, Writers
<1>12. settled' => RightBelow(2 * NumSettings)'
  BY DEF StoreInv, RightBelow
<1>13. AsLeft(Running)'
  <2>1. Running' = c
    BY <1>2 DEF Running, Writing, NoWriter, Writers
  <2> QED BY <2>1
<1> QED BY <1>4, <1>5, <1>6, <1>8, <1>9, <1>10, <1>11, <1>12, <1>13 DEF StoreInv

\* A write is known by its fields.
LEMMA Alike ==
  ASSUME NEW x \in Fields, NEW y \in Fields, x.at = y.at, x.k = y.k, x.temp = y.temp, x.clean = y.clean
  PROVE  x = y
BY DEF Fields

\* A writer that changes some of its fields.
LEMMA FieldsChange ==
  ASSUME NEW w \in Fields, NEW at \in WriteStages, NEW k \in Addresses, NEW temp \in Int
  PROVE  /\ [w EXCEPT !.at = at] = [at |-> at, k |-> w.k, temp |-> w.temp, clean |-> w.clean]
         /\ [w EXCEPT !.at = at, !.temp = temp] = [at |-> at, k |-> w.k, temp |-> temp, clean |-> w.clean]
         /\ [w EXCEPT !.at = at, !.k = k] = [at |-> at, k |-> k, temp |-> w.temp, clean |-> w.clean]
<1>1. [w EXCEPT !.at = at] = [at |-> at, k |-> w.k, temp |-> w.temp, clean |-> w.clean]
  <2>1. [w EXCEPT !.at = at] \in Fields
    BY DEF Fields
  <2>2. [at |-> at, k |-> w.k, temp |-> w.temp, clean |-> w.clean] \in Fields
    BY DEF Fields
  <2>3. [w EXCEPT !.at = at].at = at /\ [w EXCEPT !.at = at].k = w.k /\ [w EXCEPT !.at = at].temp = w.temp
    BY DEF Fields
  <2>4. [w EXCEPT !.at = at].clean = w.clean
    BY DEF Fields
  <2> QED BY <2>1, <2>2, <2>3, <2>4, Alike
<1>2. [w EXCEPT !.at = at, !.temp = temp] = [at |-> at, k |-> w.k, temp |-> temp, clean |-> w.clean]
  <2>1. [w EXCEPT !.at = at, !.temp = temp] \in Fields
    BY DEF Fields
  <2>2. [at |-> at, k |-> w.k, temp |-> temp, clean |-> w.clean] \in Fields
    BY DEF Fields
  <2>3. [w EXCEPT !.at = at, !.temp = temp].at = at /\ [w EXCEPT !.at = at, !.temp = temp].k = w.k
        /\ [w EXCEPT !.at = at, !.temp = temp].temp = temp
    BY DEF Fields
  <2>4. [w EXCEPT !.at = at, !.temp = temp].clean = w.clean
    BY DEF Fields
  <2> QED BY <2>1, <2>2, <2>3, <2>4, Alike
<1>3. [w EXCEPT !.at = at, !.k = k] = [at |-> at, k |-> k, temp |-> w.temp, clean |-> w.clean]
  <2>1. [w EXCEPT !.at = at, !.k = k] \in Fields
    BY DEF Fields
  <2>2. [at |-> at, k |-> k, temp |-> w.temp, clean |-> w.clean] \in Fields
    BY DEF Fields
  <2>3. [w EXCEPT !.at = at, !.k = k].at = at /\ [w EXCEPT !.at = at, !.k = k].k = k
        /\ [w EXCEPT !.at = at, !.k = k].temp = w.temp
    BY DEF Fields
  <2>4. [w EXCEPT !.at = at, !.k = k].clean = w.clean
    BY DEF Fields
  <2> QED BY <2>1, <2>2, <2>3, <2>4, Alike
<1> QED BY <1>1, <1>2, <1>3

\* The steps before a byte is written keep the invariant.
LEMMA StepsOfBytes ==
  ASSUME StoreAssumption, StoreInv, NEW c \in Writers, Flush(c) \/ SetAddress(c) \/ SetData(c)
  PROVE  StoreInv'
<1> DEFINE w == writer[c]
<1>1. writer \in [Writers -> Fields] /\ w \in Fields /\ w.at \in WriteStages /\ w.k \in Addresses /\ w.temp \in Int
  BY DEF StoreInv, StoreTypeOK, Fields
<1>2. AsLeft(c) /\ w.at # "idle"
  <2>1. w.at # "idle" /\ (c = "task" => writer["isr"].at = "idle")
    BY DEF Flush, SetAddress, SetData, Writing, NoWriter
  <2>2. Running = c
    BY <2>1 DEF Running, Writers
  <2> QED BY <2>1, <2>2 DEF StoreInv
<1>3. CASE Flush(c)
  <2> DEFINE temp == IF w.k % 2 = 0 THEN ram[w.k \div 2] ELSE w.temp
  <2>1. temp \in Int
    <3>1. w.k \div 2 \in 0 .. NumSettings - 1
      BY <1>1 DEF Addresses, StoreAssumption
    <3>2. ram[w.k \div 2] \in Int
      BY <3>1, Halves DEF StoreInv, StoreTypeOK, Values16
    <3> QED BY <1>1, <3>2
  <2>2. writer' = [writer EXCEPT ![c] = [at |-> "address", k |-> w.k, temp |-> temp, clean |-> w.clean]]
    <3>1. writer' = [writer EXCEPT ![c] = [w EXCEPT !.at = "address", !.temp = temp]]
      BY <1>1, <1>3 DEF Flush
    <3> HIDE DEF temp
    <3>2. PICK u \in Fields, t \in Int : u = w /\ t = temp
      BY <1>1, <2>1
    <3>3. [u EXCEPT !.at = "address", !.temp = t] = [at |-> "address", k |-> u.k, temp |-> t, clean |-> u.clean]
      <4>1. "address" \in WriteStages
        BY DEF WriteStages
      <4> QED BY <1>1, <4>1, FieldsChange
    <3> QED BY <3>1, <3>2, <3>3
  <2> HIDE DEF temp
  <2>3. writer'[c] = [at |-> "address", k |-> w.k, temp |-> temp, clean |-> w.clean]
    BY <1>1, <2>2
  <2>4. AsLeft(c)'
    BY <1>3, <2>3 DEF Flush, Flushed, AsLeft, StoreInv, StoreTypeOK
  <2>5. w.k % 2 # 0 => ByteTaken(c) /\ temp = w.temp
    <3>1. w.at = "flush" /\ w.k \in Nat
      BY <1>1, <1>3 DEF Flush, Writing, Addresses
    <3> QED BY <3>1 DEF ByteTaken, temp
  <2>6. ByteTaken(c)' => (temp = w.temp /\ ByteTaken(c)) \/ temp = ram[w.k \div 2]
    BY <2>5 DEF temp
  <2>7. Writing(c, w.at) /\ UNCHANGED <<eeprom, ram, settled, had>>
    BY <1>3 DEF Flush, Writing
  <2>8. "address" \in WriteStages \ {"idle"}
    BY DEF WriteStages
  <2> QED BY <1>2, <2>1, <2>2, <2>4, <2>6, <2>7, <2>8, WriteGoesOn
<1>4. CASE SetAddress(c)
  <2>1. writer' = [writer EXCEPT ![c] = [at |-> "data", k |-> w.k, temp |-> w.temp, clean |-> w.clean]]
    <3>1. writer' = [writer EXCEPT ![c] = [w EXCEPT !.at = "data"]]
      BY <1>1, <1>4 DEF SetAddress, Next_W
    <3> QED BY <1>1, <3>1, FieldsChange DEF WriteStages
  <2>2. writer'[c] = [at |-> "data", k |-> w.k, temp |-> w.temp, clean |-> w.clean]
    BY <1>1, <2>1
  <2>3. ByteTaken(c) /\ Writing(c, w.at) /\ UNCHANGED <<eeprom, ram, settled, had, page>> /\ w.at = "address"
    BY <1>4 DEF SetAddress, Writing, ByteTaken
  <2>4. AsLeft(c)'
    <3>1. nvm'.cmd = nvm.cmd /\ nvm'.addr = w.k
      BY <1>4 DEF SetAddress
    <3> QED BY <1>2, <2>2, <2>3, <3>1 DEF AsLeft
  <2>5. "data" \in WriteStages \ {"idle"}
    BY DEF WriteStages
  <2> QED BY <1>1, <1>2, <2>1, <2>3, <2>4, <2>5, WriteGoesOn
<1>5. CASE SetData(c)
  <2>1. writer' = [writer EXCEPT ![c] = [at |-> "execute", k |-> w.k, temp |-> w.temp, clean |-> w.clean]]
    <3>1. writer' = [writer EXCEPT ![c] = [w EXCEPT !.at = "execute"]]
      BY <1>1, <1>5 DEF SetData, Next_W
    <3> QED BY <1>1, <3>1, FieldsChange DEF WriteStages
  <2>2. writer'[c] = [at |-> "execute", k |-> w.k, temp |-> w.temp, clean |-> w.clean]
    BY <1>1, <2>1
  <2>3. ByteTaken(c) /\ Writing(c, w.at) /\ UNCHANGED <<eeprom, ram, settled, had, nvm>> /\ w.at = "data"
    BY <1>5 DEF SetData, Writing, ByteTaken
  <2>4. AsLeft(c)'
    <3>1. CASE nvm.cmd = "load"
      <4>1. page = NoBytes /\ nvm.addr = w.k
        BY <1>2, <2>3, <3>1 DEF AsLeft
      <4>2. page' = [o \in {w.k % PageSize} |-> ByteOf(w.temp, w.k)]
        BY <1>5, <3>1, <4>1 DEF SetData, NoBytes
      <4>3. page' # NoBytes
        <5>1. w.k % PageSize \in DOMAIN page'
          BY <4>2
        <5> QED BY <5>1 DEF NoBytes
      <4> QED BY <2>2, <2>3, <4>1, <4>2, <4>3 DEF AsLeft
    <3>2. CASE nvm.cmd # "load"
      <4>1. page' = page /\ page = NoBytes
        BY <1>2, <1>5, <2>3, <3>2 DEF AsLeft, SetData
      <4> QED BY <1>2, <2>2, <2>3, <3>2, <4>1 DEF AsLeft
    <3> QED BY <3>1, <3>2
  <2>5. "execute" \in WriteStages \ {"idle"}
    BY DEF WriteStages
  <2> QED BY <1>1, <1>2, <2>1, <2>3, <2>4, <2>5, WriteGoesOn
<1> QED BY <1>3, <1>4, <1>5

\* Writing a byte keeps the invariant: it goes to its own place, or, when an
\* interrupt has emptied the page buffer within the write, nowhere.
LEMMA ByteIsWritten ==
  ASSUME StoreAssumption, StoreInv, NEW c \in Writers, Execute(c)
  PROVE  StoreInv'
<1> DEFINE w == writer[c]
           last == w.k = 2 * NumSettings - 1
           x == IF last THEN NoWriter ELSE [at |-> "flush", k |-> w.k + 1, temp |-> w.temp, clean |-> w.clean]
<1>1. writer \in [Writers -> Fields] /\ w \in Fields /\ w.k \in Addresses /\ w.temp \in Int /\ NumSettings \in Nat \ {0}
  BY DEF StoreInv, StoreTypeOK, Fields, StoreAssumption
<1>2. w.at = "execute" /\ ByteTaken(c) /\ AsLeft(c) /\ (c = "task" => writer["isr"] = NoWriter)
  <2>1. w.at = "execute" /\ (c = "task" => writer["isr"] = NoWriter)
    BY DEF Execute, Writing
  <2>2. Running = c
    BY <2>1 DEF Running, Writers, NoWriter
  <2> QED BY <2>1, <2>2 DEF StoreInv, ByteTaken
<1>3. /\ writer' = [writer EXCEPT ![c] = x]
      /\ settled' = (w.clean /\ (settled \/ last))
      /\ page' = NoBytes /\ nvm'.cmd = "erase-write" /\ UNCHANGED <<ram, had>>
  <2>1. ~last => NextByte(w) = [at |-> "flush", k |-> w.k + 1, temp |-> w.temp, clean |-> w.clean]
    <3>1. ~last => w.k + 1 \in Addresses
      BY <1>1 DEF Addresses
    <3> QED BY <1>1, <3>1, FieldsChange DEF NextByte, WriteStages
  <2>2. writer' = [writer EXCEPT ![c] = IF last THEN NoWriter ELSE NextByte(w)]
    BY DEF Execute
  <2>3. x = IF last THEN NoWriter ELSE NextByte(w)
    BY <2>1
  <2>4. settled' = (w.clean /\ (settled \/ last))
    BY Zenon DEF Execute
  <2>5. page' = NoBytes /\ nvm'.cmd = "erase-write" /\ UNCHANGED <<ram, had>>
    BY DEF Execute, StoreInv
  <2> HIDE DEF x, last
  <2> QED BY <2>2, <2>3, <2>4, <2>5
<1>4. x \in Fields
  BY <1>1 DEF Fields, NoWriter, Addresses, WriteStages
<1>5. writer'[c] = x /\ \A d \in Writers \ {c} : writer'[d] = writer[d]
  BY <1>1, <1>3
<1>6. x.clean => w.clean /\ x.k = w.k + 1
  BY DEF NoWriter
<1>7. x.at = "idle" => x = NoWriter /\ last
  OBVIOUS
<1>8. x.at \in {"idle", "flush"} /\ (x.at = "flush" => x.k = w.k + 1 /\ x.temp = w.temp /\ x.clean = w.clean)
  BY DEF NoWriter
<1> HIDE DEF x
<1>9. \A a \in Addresses : a \div 2 = w.k \div 2 => ByteOf(w.temp, a) \in had[a]
  BY <1>2 DEF StoreInv
<1>10. w.clean => w.temp = ram[w.k \div 2] /\ RightBelow(w.k)
  BY <1>2 DEF StoreInv
<1>11. \/ eeprom' = [eeprom EXCEPT ![w.k] = ByteOf(w.temp, w.k)]
       \/ eeprom' = eeprom /\ c = "task" /\ (w.clean => settled)
  <2>1. eeprom' = PageWritten(eeprom, nvm.addr, page) /\ eeprom \in [Addresses -> Bytes]
    BY DEF Execute, StoreInv, StoreTypeOK
  <2>2. CASE page = NoBytes
    <3>1. PICK addr : addr = nvm.addr
      OBVIOUS
    <3>2. PageWritten(eeprom, addr, NoBytes) = eeprom
      BY <1>1, <2>1, WrittenIs
    <3>3. eeprom' = eeprom
      BY <2>1, <2>2, <3>1, <3>2
    <3>4. c = "task" /\ (w.clean => settled)
      BY <1>2, <2>2 DEF AsLeft
    <3> QED BY <3>3, <3>4
  <2>3. CASE page # NoBytes
    <3>1. nvm.addr = w.k /\ page = [o \in {w.k % PageSize} |-> ByteOf(w.temp, w.k)]
      BY <1>2, <2>3 DEF AsLeft
    <3>2. PICK k \in Addresses : k = w.k
      BY <1>1
    <3>5. PICK b : b = ByteOf(w.temp, w.k)
      OBVIOUS
    <3>3. PageWritten(eeprom, k, [o \in {k % PageSize} |-> b]) = [eeprom EXCEPT ![k] = b]
      BY <2>1, WrittenIs
    <3>4. eeprom' = [eeprom EXCEPT ![w.k] = ByteOf(w.temp, w.k)]
      BY <2>1, <3>1, <3>2, <3>3, <3>5
    <3> QED BY <3>4
  <2> QED BY <2>2, <2>3
<1>12. ByteOf(w.temp, w.k) \in Bytes
  <2>1. ByteBase \in Nat \ {0}
    BY DEF StoreAssumption
  <2>2. w.temp % ByteBase \in Bytes /\ w.temp \div ByteBase \in Int
    BY <1>1, <2>1, DivMod DEF Bytes
  <2>3. (w.temp \div ByteBase) % ByteBase \in Bytes
    BY <2>1, <2>2, DivMod DEF Bytes
  <2> QED BY <2>2, <2>3 DEF ByteOf, High, Low
<1>13. StoreTypeOK'
  <2>1. eeprom' \in [Addresses -> Bytes]
    BY <1>1, <1>11, <1>12 DEF StoreInv, StoreTypeOK
  <2>2. writer' \in [Writers -> Fields]
    BY <1>1, <1>3, <1>4
  <2>3. settled' \in BOOLEAN
    BY <1>3, Zenon
  <2> QED BY <1>3, <2>1, <2>2, <2>3 DEF StoreInv, StoreTypeOK, Fields
<1>14. BytesInPlace'
  BY <1>1, <1>3, <1>9, <1>11 DEF StoreInv, StoreTypeOK, BytesInPlace
\* What is clean writes the byte that belongs there.
<1>15. w.clean => \A a \in Addresses : eeprom'[a] = eeprom[a] \/ eeprom'[a] = ByteOf(ram[a \div 2], a)
  BY <1>1, <1>10, <1>11 DEF StoreInv, StoreTypeOK
<1>16. w.clean => \A a \in Addresses : a < w.k + 1 => eeprom'[a] = ByteOf(ram[a \div 2], a)
  <2> SUFFICES ASSUME w.clean, NEW a \in Addresses, a < w.k + 1
               PROVE  eeprom'[a] = ByteOf(ram[a \div 2], a)
    OBVIOUS
  <2>1. CASE a < w.k
    BY <1>10, <1>15, <2>1 DEF RightBelow
  <2>2. CASE a = w.k
    <3>1. CASE eeprom' = [eeprom EXCEPT ![w.k] = ByteOf(w.temp, w.k)]
      BY <1>1, <1>10, <2>2, <3>1 DEF StoreInv, StoreTypeOK
    <3>2. CASE eeprom' = eeprom /\ settled
      <4>1. a < 2 * NumSettings
        BY <1>1 DEF Addresses
      <4> QED BY <3>2, <4>1 DEF StoreInv, RightBelow
    <3> QED BY <1>11, <3>1, <3>2
  <2> QED BY <1>1, <2>1, <2>2 DEF Addresses
<1>17. \A d \in Writers : writer'[d].clean => \A a \in Addresses : a < writer'[d].k => eeprom'[a] = ByteOf(ram[a \div 2], a)
  <2>1. x.clean => \A a \in Addresses : a < x.k => eeprom'[a] = ByteOf(ram[a \div 2], a)
    BY <1>6, <1>16
  <2>2. ASSUME NEW d \in Writers \ {c}, writer[d].clean
        PROVE  \A a \in Addresses : a < writer[d].k => eeprom'[a] = ByteOf(ram[a \div 2], a)
    <3>1. c = "isr"
      BY <1>2, <2>2 DEF Writers, NoWriter
    <3>2. w.clean
      BY <1>2, <3>1 DEF StoreInv
    <3> QED BY <1>15, <2>2, <3>2 DEF StoreInv, RightBelow
  <2> QED BY <1>5, <2>1, <2>2
<1>18. settled' => \A a \in Addresses : a < 2 * NumSettings => eeprom'[a] = ByteOf(ram[a \div 2], a)
  <2> SUFFICES ASSUME w.clean, settled \/ last, NEW a \in Addresses, a < 2 * NumSettings
               PROVE  eeprom'[a] = ByteOf(ram[a \div 2], a)
    BY <1>3
  <2>1. CASE settled
    BY <1>15, <2>1 DEF StoreInv, RightBelow
  <2>2. CASE last
    <3>1. a < w.k + 1
      BY <1>1, <2>2 DEF Addresses
    <3> QED BY <1>16, <3>1
  <2> QED BY <2>1, <2>2
<1>19. \A d \in Writers : ByteTaken(d)' => \A a \in Addresses :
         a \div 2 = writer'[d].k \div 2 => ByteOf(writer'[d].temp, a) \in had'[a]
  <2>1. ASSUME ByteTaken(c)'
        PROVE  x.temp = w.temp /\ x.k \div 2 = w.k \div 2
    <3>1. x.at = "flush" /\ x.k % 2 = 1
      BY <1>5, <1>8, <2>1 DEF ByteTaken
    <3> QED BY <1>1, <1>8, <3>1 DEF Addresses
  <2>2. \A d \in Writers \ {c} : ByteTaken(d)' => ByteTaken(d)
    BY <1>5 DEF ByteTaken
  <2> QED BY <1>3, <1>5, <1>9, <2>1, <2>2 DEF StoreInv
<1>20. \A d \in Writers : ByteTaken(d)' /\ writer'[d].clean => writer'[d].temp = ram'[writer'[d].k \div 2]
  <2>1. ASSUME ByteTaken(c)'
        PROVE  x.temp = w.temp /\ x.k \div 2 = w.k \div 2
    <3>1. x.at = "flush" /\ x.k % 2 = 1
      BY <1>5, <1>8, <2>1 DEF ByteTaken
    <3> QED BY <1>1, <1>8, <3>1 DEF Addresses
  <2>2. \A d \in Writers \ {c} : ByteTaken(d)' => ByteTaken(d)
    BY <1>5 DEF ByteTaken
  <2> QED BY <1>3, <1>5, <1>6, <1>10, <2>1, <2>2 DEF StoreInv
<1>21. writer'["isr"].at # "idle" => writer'["isr"].clean
  BY <1>2, <1>5, <1>8 DEF StoreInv, Writers
<1>22. \A d \in Writers : writer'[d].at = "idle" => writer'[d] = NoWriter
  BY <1>5, <1>7 DEF StoreInv
<1>23. AsLeft(Running)'
  <2>1. CASE c = "task"
    <3>1. Running' = "task"
      BY <1>2, <1>5, <2>1 DEF Running, Writers, NoWriter
    <3> QED BY <1>5, <1>8, <2>1, <3>1 DEF AsLeft
  <2>2. CASE c = "isr" /\ x.at = "flush"
    <3>1. Running' = "isr"
      BY <1>5, <2>2 DEF Running
    <3> QED BY <1>5, <2>2, <3>1 DEF AsLeft
  <2>3. CASE c = "isr" /\ x.at = "idle"
    <3>1. Running' = "task"
      BY <1>5, <2>3 DEF Running
    <3>2. settled'
      BY <1>2, <1>3, <1>7, <2>3 DEF StoreInv
    <3> QED BY <1>3, <3>1, <3>2 DEF AsLeft
  <2> QED BY <1>8, <2>1, <2>2, <2>3 DEF Writers
<1>24. \A a \in Addresses : ByteOf(ram'[a \div 2], a) \in had'[a]
  BY <1>3 DEF StoreInv
<1>25. \A d \in Writers : writer'[d].clean => RightBelow(writer[d].k)'
  BY <1>3, <1>17 DEF RightBelow
<1>26. settled' => RightBelow(2 * NumSettings)'
  BY <1>3, <1>18 DEF RightBelow
<1> QED BY <1>13, <1>14, <1>19, <1>20, <1>21, <1>22, <1>23, <1>24, <1>25, <1>26 DEF StoreInv

\* A setting that changes makes every write under way one of old settings.
LEMMA SettingsChange ==
  ASSUME StoreAssumption, StoreInv, SetValue
  PROVE  StoreInv'
<1>1. PICK i \in 0 .. NumSettings - 1, v \in Values16 : ram' = [ram EXCEPT ![i] = v]
  BY DEF SetValue
<1>2. /\ writer["isr"] = NoWriter /\ had' = [a \in Addresses |-> had[a] \union {ByteOf(ram'[a \div 2], a)}]
      /\ writer' = [c \in Writers |-> [writer[c] EXCEPT !.clean = FALSE]] /\ ~settled'
      /\ UNCHANGED <<eeprom, page, nvm>>
  BY DEF SetValue, Remembered
<1>3. ram' \in [0 .. NumSettings - 1 -> Values16]
  BY <1>1 DEF StoreInv, StoreTypeOK
<1>4. writer \in [Writers -> Fields]
  BY DEF StoreInv, StoreTypeOK, Fields
<1>5. \A c \in Writers : /\ writer'[c] \in Fields /\ ~writer'[c].clean
                         /\ writer'[c].at = writer[c].at /\ writer'[c].k = writer[c].k
                         /\ writer'[c].temp = writer[c].temp
  BY <1>2, <1>4 DEF Fields
<1>6. writer' \in [Writers -> Fields]
  BY <1>2, <1>5
<1>7. StoreTypeOK'
  <2>1. settled' \in BOOLEAN
    BY Zenon DEF SetValue
  <2> QED BY <1>2, <1>3, <1>6, <2>1 DEF StoreInv, StoreTypeOK, Fields
<1>8. \A c \in Writers : writer'[c].at = "idle" => writer'[c] = NoWriter
  <2> SUFFICES ASSUME NEW c \in Writers, writer'[c].at = "idle"
               PROVE  writer'[c] = NoWriter
    OBVIOUS
  <2>1. writer[c] = NoWriter
    BY <1>5 DEF StoreInv
  <2>2. writer'[c] = [NoWriter EXCEPT !.clean = FALSE]
    BY <1>2, <2>1
  <2> QED BY <2>2 DEF NoWriter
<1>9. BytesInPlace' /\ \A a \in Addresses : ByteOf(ram'[a \div 2], a) \in had'[a]
  BY <1>2 DEF StoreInv, BytesInPlace
<1>10. \A c \in Writers : ByteTaken(c)' => \A a \in Addresses :
         a \div 2 = writer'[c].k \div 2 => ByteOf(writer'[c].temp, a) \in had'[a]
  BY <1>2, <1>5 DEF StoreInv, ByteTaken
<1>11. AsLeft(Running)'
  <2>1. writer'["isr"].at = "idle"
    BY <1>2, <1>5 DEF NoWriter, Writers
  <2>2. Running' = "task" /\ Running = "task"
    BY <1>2, <2>1 DEF Running, NoWriter
  <2>3. AsLeft("task")
    BY <2>2 DEF StoreInv
  <2> QED BY <1>2, <1>5, <2>2, <2>3 DEF AsLeft, Writers
<1>12. writer'["isr"].at = "idle"
  BY <1>2, <1>5 DEF NoWriter, Writers
<1> QED BY <1>2, <1>5, <1>7, <1>8, <1>9, <1>10, <1>11, <1>12 DEF StoreInv

\* A write begins, in the task or within it.
LEMMA WriteBegins ==
  ASSUME StoreAssumption, StoreInv, NEW c \in Writers, BeginWrite(c)
  PROVE  StoreInv'
<1> DEFINE x == [at |-> "flush", k |-> 0, temp |-> 0, clean |-> TRUE]
<1>1. /\ writer' = [writer EXCEPT ![c] = x] /\ writer[c].at = "idle" /\ (c = "task" => writer["isr"] = NoWriter)
      /\ UNCHANGED <<eeprom, page, nvm, ram, settled, had>>
  <2>2. Writing(c, "idle") /\ UNCHANGED <<eeprom, page, nvm, ram, settled, had>>
    BY DEF BeginWrite
  <2>3. writer' = [writer EXCEPT ![c] = x]
    BY DEF BeginWrite
  <2> QED BY <2>2, <2>3 DEF Writing
<1>2. writer \in [Writers -> Fields] /\ x \in Fields
  BY DEF StoreInv, StoreTypeOK, Fields, WriteStages, Addresses, StoreAssumption
<1>3. writer' \in [Writers -> Fields] /\ writer'[c] = x /\ \A d \in Writers \ {c} : writer'[d] = writer[d]
  BY <1>1, <1>2
<1>4. StoreTypeOK'
  BY <1>1, <1>3 DEF StoreInv, StoreTypeOK, Fields
<1>5. ~ByteTaken(c)' /\ \A d \in Writers \ {c} : ByteTaken(d)' <=> ByteTaken(d)
  BY <1>3 DEF ByteTaken
<1>6. \A d \in Writers : ByteTaken(d)' => \A a \in Addresses :
        a \div 2 = writer'[d].k \div 2 => ByteOf(writer'[d].temp, a) \in had'[a]
  BY <1>1, <1>3, <1>5 DEF StoreInv
<1>7. \A d \in Writers : ByteTaken(d)' /\ writer'[d].clean => writer'[d].temp = ram'[writer'[d].k \div 2]
  BY <1>1, <1>3, <1>5 DEF StoreInv
<1>8. \A d \in Writers : writer'[d].clean => RightBelow(writer[d].k)'
  <2>1. \A a \in Addresses : ~(a < 0)
    BY DEF Addresses, StoreAssumption
  <2> QED BY <1>1, <1>3, <2>1 DEF StoreInv, RightBelow
<1>9. BytesInPlace' /\ \A a \in Addresses : ByteOf(ram'[a \div 2], a) \in had'[a]
  BY <1>1 DEF StoreInv, BytesInPlace
<1>10. settled' => RightBelow(2 * NumSettings)'
  BY <1>1 DEF StoreInv, RightBelow
<1>11. AsLeft(Running)'
  <2>1. Running' = c
    BY <1>1, <1>3 DEF Running, Writers, NoWriter
  <2>2. AsLeft(c)'
    BY <1>3 DEF AsLeft
  <2> QED BY <2>1, <2>2
<1>12. \A d \in Writers : writer'[d].at = "idle" => writer'[d] = NoWriter
  BY <1>3 DEF StoreInv
<1>13. writer'["isr"].at # "idle" => writer'["isr"].clean
  BY <1>3 DEF StoreInv, Writers
<1> QED BY <1>4, <1>6, <1>7, <1>8, <1>9, <1>10, <1>11, <1>12, <1>13 DEF StoreInv

\* After the power was cut the settings are read from what was written.
LEMMA PowerComesBack ==
  ASSUME StoreAssumption, StoreInv, PowerCut
  PROVE  StoreInv'
<1>1. /\ writer' = [c \in Writers |-> NoWriter] /\ ~settled' /\ eeprom' = eeprom
      /\ ram' = [i \in 0 .. NumSettings - 1 |-> Setting(eeprom, i)]
      /\ had' = [a \in Addresses |-> had[a] \union {ByteOf(ram'[a \div 2], a)}]
  BY DEF PowerCut, Settings, Remembered
<1>2. ram' \in [0 .. NumSettings - 1 -> Values16]
  BY <1>1, SettingInRange DEF StoreInv, StoreTypeOK
<1>3. NoWriter \in Fields
  BY DEF NoWriter, Fields, WriteStages, Addresses, StoreAssumption
<1>4. StoreTypeOK'
  <2>1. settled' \in BOOLEAN
    BY Zenon DEF PowerCut
  <2> QED BY <1>1, <1>2, <1>3, <2>1 DEF StoreInv, StoreTypeOK, Fields
<1>5. \A c \in Writers : writer'[c] = NoWriter /\ ~ByteTaken(c)' /\ ~writer'[c].clean
  BY <1>1 DEF ByteTaken, NoWriter
<1>6. BytesInPlace' /\ \A a \in Addresses : ByteOf(ram'[a \div 2], a) \in had'[a]
  BY <1>1 DEF StoreInv, BytesInPlace
<1>7. AsLeft(Running)'
  BY <1>1 DEF AsLeft, Running, NoWriter, Writers
<1> QED BY <1>1, <1>4, <1>5, <1>6, <1>7 DEF StoreInv, NoWriter, Writers

\* Every step keeps the invariant.
LEMMA StoreIsKept ==
  ASSUME StoreAssumption, StoreInv, [StoreNext]_storeVars
  PROVE  StoreInv'
<1>1. CASE UNCHANGED storeVars
  BY <1>1 DEF storeVars, StoreInv, StoreTypeOK, BytesInPlace, ByteTaken, RightBelow, AsLeft, Running
<1>2. CASE SetValue
  BY <1>2, SettingsChange
<1>3. CASE PowerCut
  BY <1>3, PowerComesBack
<1>4. ASSUME NEW c \in Writers, BeginWrite(c) \/ WriteStep(c)
      PROVE  StoreInv'
  BY <1>4, WriteBegins, StepsOfBytes, ByteIsWritten DEF WriteStep
<1> QED BY <1>1, <1>2, <1>3, <1>4 DEF StoreNext

\* StoreInv is an invariant, for every number of settings, size of a page and
\* base of a byte.
LEMMA StoreAlways == StoreSpec => []StoreInv
BY StoreAssumption, StoreBegins, StoreIsKept, PTL DEF StoreSpec

\* Whatever write interrupts which, and whenever the power goes, no byte of the
\* EEPROM gets to the place of another.
THEOREM BytesStayInPlace == StoreSpec => []BytesInPlace
<1>1. StoreInv => BytesInPlace
  BY DEF StoreInv
<1> QED BY <1>1, StoreAlways, PTL

\* Once a write of settings that did not change has ended, load_motor_settings
\* would read them back, negative ones too, also when an interrupt wrote them
\* within it.
THEOREM SettledIsStored == StoreSpec => []StoredIsRam
<1>1. StoreInv => StoredIsRam
  <2> SUFFICES ASSUME StoreInv, settled PROVE Settings(eeprom) = ram
    BY DEF StoredIsRam
  <2>1. ASSUME NEW i \in 0 .. NumSettings - 1
        PROVE  Setting(eeprom, i) = ram[i]
    <3>1. 2 * i \in Addresses /\ 2 * i + 1 \in Addresses /\ 2 * i < 2 * NumSettings /\ 2 * i + 1 < 2 * NumSettings
      BY StoreAssumption DEF Addresses, StoreAssumption
    <3>2. (2 * i) \div 2 = i /\ (2 * i + 1) \div 2 = i /\ (2 * i) % 2 = 0 /\ (2 * i + 1) % 2 = 1
      OBVIOUS
    <3>3. eeprom[2 * i] = High(ram[i]) /\ eeprom[2 * i + 1] = Low(ram[i])
      BY <3>1, <3>2 DEF StoreInv, RightBelow, ByteOf
    <3>4. ram[i] \in Values16
      BY DEF StoreInv, StoreTypeOK
    <3> QED BY <3>3, <3>4, StoreAssumption, BytesMakeSetting DEF Setting
  <2> QED BY <2>1 DEF Settings, StoreInv, StoreTypeOK
<1> QED BY <1>1, StoreAlways, PTL

-----------------------------------------------------------------------------
(* Blocks                                                                  *)

\* EEPROM_write_block, before its loop; what is loaded with one byte more; and
\* one turn of the loop, with the n-th byte of len
BlockFirst(mem, addr) ==
  [mem |-> mem, loaded |-> NoBytes, byte |-> addr % PageSize, page |-> addr - (addr % PageSize)]

LoadedMore(b, v) ==
  [o \in DOMAIN b.loaded \union {b.byte} |-> IF o = b.byte THEN v ELSE b.loaded[o]]

BlockTurn(b, v, last) ==
  IF last \/ b.byte + 1 >= PageSize
  THEN [mem |-> PageWritten(b.mem, b.page, LoadedMore(b, v)), loaded |-> NoBytes,
        byte |-> 0, page |-> b.page + PageSize]
  ELSE [b EXCEPT !.loaded = LoadedMore(b, v), !.byte = @ + 1]

\* A memory with values of V in the middle of a block
Blocks(V) == [mem : [Addresses -> V], loaded : UNION {[D -> V] : D \in SUBSET Int},
              byte : Int, page : Int]

\* The memory after the first n bytes of src were written from addr on
WrittenTo(mem, addr, src, n) ==
  [a \in Addresses |-> IF addr <= a /\ a < addr + n THEN src[a - addr + 1] ELSE mem[a]]

\* After n bytes: pages that are over are written, the rest of them is loaded.
InBlock(b, mem, addr, src, n) ==
  /\ b.byte \in 0 .. PageSize - 1 /\ b.page + b.byte = addr + n
  /\ b.page \in Int /\ \E q \in Int : b.page = q * PageSize
  /\ DOMAIN b.loaded = {o \in 0 .. b.byte - 1 : addr <= b.page + o}
  /\ \A o \in DOMAIN b.loaded : b.loaded[o] = src[b.page + o - addr + 1]
  /\ DOMAIN b.mem = Addresses
  /\ \A a \in Addresses : b.mem[a] = IF addr <= a /\ a < b.page THEN src[a - addr + 1] ELSE mem[a]

\* A block of values of V that ends within the memory
BlockCase(V, mem, addr, len, src) ==
  /\ mem \in [Addresses -> V] /\ addr \in Addresses
  /\ len \in 1 .. 2 * NumSettings - addr /\ src \in [1 .. len -> V]

\* A turn of the loop keeps the block a block.
LEMMA BlockTurnType ==
  ASSUME NEW V, NEW b \in Blocks(V), NEW v \in V, NEW last \in BOOLEAN
  PROVE  BlockTurn(b, v, last) \in Blocks(V)
<1>1. b.mem \in [Addresses -> V] /\ b.byte \in Int /\ b.page \in Int
  BY DEF Blocks
<1>2. PICK D \in SUBSET Int : b.loaded \in [D -> V]
  BY DEF Blocks
<1>3. PICK E : E = D \union {b.byte}
  OBVIOUS
<1>4. E \in SUBSET Int
  BY <1>1, <1>3
<1>5. LoadedMore(b, v) \in [E -> V]
  BY <1>2, <1>3 DEF LoadedMore
<1>6. LoadedMore(b, v) \in UNION {[F -> V] : F \in SUBSET Int}
  BY <1>4, <1>5
<1>7. NoBytes \in UNION {[F -> V] : F \in SUBSET Int}
  <2>1. NoBytes \in [{} -> V] /\ {} \in SUBSET Int
    BY DEF NoBytes
  <2> QED BY <2>1
<1>8. PageWritten(b.mem, b.page, LoadedMore(b, v)) \in [Addresses -> V]
  <2>1. PICK loaded : loaded = LoadedMore(b, v)
    OBVIOUS
  <2>2. loaded \in [E -> V]
    BY <1>5, <2>1
  <2>3. PICK m : m = PageWritten(b.mem, b.page, loaded)
    OBVIOUS
  <2>4. m \in [Addresses -> V]
    BY <1>1, <2>2, <2>3 DEF PageWritten
  <2> QED BY <2>1, <2>3, <2>4
<1>9. b.page + PageSize \in Int /\ b.byte + 1 \in Int /\ 0 \in Int
  BY <1>1, StoreAssumption DEF StoreAssumption
<1>10. CASE last \/ b.byte + 1 >= PageSize
  BY <1>7, <1>8, <1>9, <1>10 DEF BlockTurn, Blocks
<1>11. CASE ~(last \/ b.byte + 1 >= PageSize)
  <2>1. BlockTurn(b, v, last) = [b EXCEPT !.loaded = LoadedMore(b, v), !.byte = b.byte + 1]
    BY <1>11 DEF BlockTurn
  <2>2. PICK c : c = [b EXCEPT !.loaded = LoadedMore(b, v)]
    OBVIOUS
  <2>3. c \in Blocks(V) /\ c.byte = b.byte
    BY <1>6, <2>2 DEF Blocks
  <2>4. [c EXCEPT !.byte = b.byte + 1] \in Blocks(V)
    BY <1>9, <2>3 DEF Blocks
  <2>5. BlockTurn(b, v, last) = [c EXCEPT !.byte = b.byte + 1]
    BY <2>1, <2>2 DEF Blocks
  <2> QED BY <2>4, <2>5
<1> QED BY <1>10, <1>11

\* The recursion that EEPROM_write_block is has a value for every turn.
LEMMA BlockTurns ==
  ASSUME NEW V, NEW mem, NEW addr, NEW len, NEW src, BlockCase(V, mem, addr, len, src)
  PROVE  \E f : /\ f \in [0 .. len -> Blocks(V)]
                /\ f[0] = BlockFirst(mem, addr)
                /\ \A n \in 1 .. len : f[n] = BlockTurn(f[n - 1], src[n], n = len)
                /\ BlockWritten(mem, addr, src, len) = f[len].mem
<1> mem \in [Addresses -> V] /\ src \in [1 .. len -> V]
  BY DEF BlockCase
<1>1. len \in Nat /\ addr \in Int /\ PageSize \in Nat \ {0}
  BY StoreAssumption DEF StoreAssumption, Addresses, BlockCase
<1>2. BlockFirst(mem, addr) \in Blocks(V)
  <2>1. NoBytes \in [{} -> V] /\ {} \in SUBSET Int
    BY DEF NoBytes
  <2>2. NoBytes \in UNION {[F -> V] : F \in SUBSET Int}
    BY <2>1
  <2>3. addr % PageSize \in Int /\ addr - (addr % PageSize) \in Int
    BY <1>1, DivMod
  <2> QED BY <2>2, <2>3 DEF BlockFirst, Blocks
<1>3. PICK g : g = [n \in 1 .. len |-> [b \in Blocks(V) |-> BlockTurn(b, src[n], n = len)]]
  OBVIOUS
<1>4. g \in StepsUpTo(len, Blocks(V))
  <2>1. \A n \in 1 .. len : \A b \in Blocks(V) : BlockTurn(b, src[n], n = len) \in Blocks(V)
    BY BlockTurnType
  <2>2. \A n \in 1 .. len : g[n] \in [Blocks(V) -> Blocks(V)]
    BY <1>3, <2>1
  <2> QED BY <1>3, <2>2 DEF StepsUpTo
<1>5. PICK h : Follows(h, BlockFirst(mem, addr), g, len, Blocks(V))
  BY <1>1, <1>2, <1>4, RecursionUpTo
<1>6. /\ h \in [0 .. len -> Blocks(V)] /\ h[0] = BlockFirst(mem, addr)
      /\ \A n \in 1 .. len : h[n] = BlockTurn(h[n - 1], src[n], n = len)
  <2>1. ASSUME NEW n \in 1 .. len PROVE h[n] = BlockTurn(h[n - 1], src[n], n = len)
    <3>1. n - 1 \in 0 .. len
      BY <1>1
    <3>2. h[n - 1] \in Blocks(V) /\ h[n] = g[n][h[n - 1]]
      BY <1>5, <3>1 DEF Follows
    <3> QED BY <1>3, <3>2
  <2> QED BY <1>5, <2>1 DEF Follows
<1> DEFINE turn(f) == [n \in 0 .. len |-> IF n = 0 THEN BlockFirst(mem, addr)
                                          ELSE BlockTurn(f[n - 1], src[n], n = len)]
           after == CHOOSE f : f = turn(f)
<1>7. h = turn(h)
  BY <1>6
<1>8. after = turn(after)
  BY <1>7
<1>9. BlockWritten(mem, addr, src, len) = after[len].mem
  BY DEF BlockWritten, BlockFirst, BlockTurn, LoadedMore
<1>10. /\ after[0] = BlockFirst(mem, addr)
       /\ \A n \in 1 .. len : after[n] = BlockTurn(after[n - 1], src[n], n = len)
  <2> HIDE DEF after
  <2> QED BY <1>1, <1>8
<1> HIDE DEF after, turn
<1>11. \A n \in 0 .. len : after[n] = h[n]
  <2> DEFINE T == {n \in 0 .. len : after[n] = h[n]}
  <2>1. 0 \in T
    BY <1>1, <1>6, <1>10
  <2>2. ASSUME NEW n \in 0 .. len - 1, n \in T PROVE n + 1 \in T
    <3>1. n + 1 \in 1 .. len /\ n + 1 - 1 = n
      BY <1>1
    <3>2. /\ after[n + 1] = BlockTurn(after[n], src[n + 1], n + 1 = len)
          /\ h[n + 1] = BlockTurn(h[n], src[n + 1], n + 1 = len)
      BY <1>6, <1>10, <3>1
    <3> QED BY <2>2, <3>1, <3>2
  <2> HIDE DEF T
  <2>3. 0 .. len \subseteq T
    BY <1>1, <2>1, <2>2, InductionUpTo
  <2> QED BY <2>3 DEF T
<1>12. BlockWritten(mem, addr, src, len) = h[len].mem
  BY <1>1, <1>9, <1>11
<1> QED BY <1>6, <1>12

\* A page that is written from what is loaded is right up to the byte loaded last.
LEMMA PageIsRight ==
  ASSUME NEW mem, NEW addr \in Addresses, NEW src, NEW n \in Nat,
         NEW b, InBlock(b, mem, addr, src, n)
  PROVE  /\ LoadedMore(b, src[n + 1]) =
              [o \in {p \in 0 .. b.byte : addr <= b.page + p} |-> src[b.page + o - addr + 1]]
         /\ PageWritten(b.mem, b.page, LoadedMore(b, src[n + 1])) =
              WrittenTo(mem, addr, src, n + 1)
<1>1. PICK q \in Int : b.page = q * PageSize
  BY DEF InBlock
<1>2. /\ PageSize \in Nat \ {0} /\ addr \in Int /\ b.page \in Int /\ b.byte \in 0 .. PageSize - 1
      /\ b.page + b.byte = addr + n
  BY StoreAssumption DEF StoreAssumption, InBlock, Addresses
<1>3. DOMAIN b.loaded \union {b.byte} = {o \in 0 .. b.byte : addr <= b.page + o}
  BY <1>2 DEF InBlock
<1>4. PICK loaded : loaded = LoadedMore(b, src[n + 1])
  OBVIOUS
<1>5. loaded = [o \in {p \in 0 .. b.byte : addr <= b.page + p} |-> src[b.page + o - addr + 1]]
  <2>1. ASSUME NEW o \in DOMAIN b.loaded \union {b.byte}
        PROVE  (IF o = b.byte THEN src[n + 1] ELSE b.loaded[o]) = src[b.page + o - addr + 1]
    <3>1. CASE o = b.byte
      <4>1. b.page + o - addr + 1 = n + 1
        BY <1>2, <3>1
      <4> QED BY <3>1, <4>1
    <3>2. CASE o # b.byte
      BY <2>1, <3>2 DEF InBlock
    <3> QED BY <3>1, <3>2
  <2>2. loaded = [o \in DOMAIN b.loaded \union {b.byte} |-> src[b.page + o - addr + 1]]
    BY <1>4, <2>1 DEF LoadedMore
  <2> QED BY <1>3, <2>2
<1>6. \A a \in Addresses :
        /\ a \div PageSize = b.page \div PageSize <=> b.page <= a /\ a < b.page + PageSize
        /\ a \div PageSize = b.page \div PageSize => a % PageSize = a - b.page
  <2> SUFFICES ASSUME NEW a \in Addresses
               PROVE  /\ a \div PageSize = b.page \div PageSize <=> b.page <= a /\ a < b.page + PageSize
                      /\ a \div PageSize = b.page \div PageSize => a % PageSize = a - b.page
    OBVIOUS
  <2>1. a \in Int
    BY DEF Addresses
  <2>2. b.page \div PageSize = q
    <3>1. (q * PageSize + 0) \div PageSize = q
      BY <1>2, RemainderIs
    <3>2. q * PageSize + 0 = b.page
      BY <1>1, <1>2
    <3> QED BY <3>1, <3>2
  <2>3. PICK d : d = a \div PageSize
    OBVIOUS
  <2>4. PICK r : r = a % PageSize
    OBVIOUS
  <2>5. d \in Int /\ r \in 0 .. PageSize - 1 /\ a = (PageSize * d) + r
    BY <1>2, <2>1, <2>3, <2>4, DivMod
  <2>6. ASSUME d = q PROVE a = b.page + r
    BY <1>1, <1>2, <2>5, <2>6
  <2>7. ASSUME b.page <= a, a < b.page + PageSize PROVE d = q
    <3>1. PICK s : s = a - b.page
      OBVIOUS
    <3>2. s \in 0 .. PageSize - 1
      BY <1>2, <2>1, <2>7, <3>1
    <3>3. (q * PageSize + s) \div PageSize = q
      BY <1>2, <3>2, RemainderIs
    <3>4. q * PageSize + s = a
      BY <1>1, <1>2, <2>1, <3>1
    <3> QED BY <2>3, <3>3, <3>4
  <2>8. d = q => b.page <= a /\ a < b.page + PageSize /\ r = a - b.page
    BY <1>2, <2>1, <2>5, <2>6
  <2> QED BY <2>2, <2>3, <2>4, <2>7, <2>8
<1>7. ASSUME NEW a \in Addresses
      PROVE  (IF a \div PageSize = b.page \div PageSize /\ a % PageSize \in DOMAIN loaded
              THEN loaded[a % PageSize] ELSE b.mem[a]) =
               IF addr <= a /\ a < addr + (n + 1) THEN src[a - addr + 1] ELSE mem[a]
  <2>1. a \in Int
    BY DEF Addresses
  <2>2. b.mem[a] = IF addr <= a /\ a < b.page THEN src[a - addr + 1] ELSE mem[a]
    BY DEF InBlock
  <2>3. CASE a \div PageSize = b.page \div PageSize /\ a % PageSize \in DOMAIN loaded
    <3>1. a % PageSize = a - b.page
      BY <1>6, <2>3
    <3>2. a - b.page \in 0 .. b.byte /\ addr <= b.page + (a - b.page)
      BY <1>5, <2>3, <3>1
    <3>3. loaded[a % PageSize] = src[b.page + (a - b.page) - addr + 1]
      BY <1>5, <2>3, <3>1
    <3>4. b.page + (a - b.page) - addr + 1 = a - addr + 1 /\ addr <= a /\ a < addr + (n + 1)
      BY <1>2, <2>1, <3>2
    <3> QED BY <2>3, <3>3, <3>4
  <2>4. CASE ~(a \div PageSize = b.page \div PageSize /\ a % PageSize \in DOMAIN loaded)
    <3>1. ASSUME addr <= a, a < addr + (n + 1), ~(a < b.page) PROVE FALSE
      <4>1. b.page <= a /\ a < b.page + PageSize /\ a - b.page \in 0 .. b.byte
        BY <1>2, <2>1, <3>1
      <4>2. a \div PageSize = b.page \div PageSize /\ a % PageSize = a - b.page
        BY <1>6, <4>1
      <4>3. addr <= b.page + (a - b.page)
        BY <1>2, <2>1, <3>1
      <4>4. a - b.page \in DOMAIN loaded
        BY <1>5, <4>1, <4>3
      <4> QED BY <2>4, <4>2, <4>4
    <3>2. a < b.page => a < addr + (n + 1)
      BY <1>2, <2>1
    <3> QED BY <2>2, <2>4, <3>1, <3>2
  <2> QED BY <2>3, <2>4
<1>8. PageWritten(b.mem, b.page, loaded) = WrittenTo(mem, addr, src, n + 1)
  <2>1. DOMAIN b.mem = Addresses
    BY DEF InBlock
  <2> QED BY <1>7, <2>1 DEF PageWritten, WrittenTo
<1> QED BY <1>4, <1>5, <1>8

\* A block is written from its first byte to its last, whatever pages it crosses.
LEMMA BlockIsWritten ==
  ASSUME NEW V, NEW mem, NEW addr, NEW len, NEW src, BlockCase(V, mem, addr, len, src)
  PROVE  BlockWritten(mem, addr, src, len) = WrittenTo(mem, addr, src, len)
<1>1. PICK f : /\ f \in [0 .. len -> Blocks(V)]
               /\ f[0] = BlockFirst(mem, addr)
               /\ \A n \in 1 .. len : f[n] = BlockTurn(f[n - 1], src[n], n = len)
               /\ BlockWritten(mem, addr, src, len) = f[len].mem
  BY BlockTurns
<1>2. len \in Nat \ {0} /\ addr \in Int /\ addr \in Addresses /\ PageSize \in Nat \ {0}
  BY StoreAssumption DEF StoreAssumption, Addresses, BlockCase
<1>10. mem \in [Addresses -> V]
  BY DEF BlockCase
<1> DEFINE T == {n \in 0 .. len - 1 : InBlock(f[n], mem, addr, src, n)}
<1>3. 0 \in T
  <2>1. PICK r : r = addr % PageSize
    OBVIOUS
  <2>2. r \in 0 .. PageSize - 1 /\ addr = (PageSize * (addr \div PageSize)) + r /\ addr \div PageSize \in Int
    BY <1>2, <2>1, DivMod
  <2>3. PICK q \in Int : addr = (PageSize * q) + r
    BY <2>2
  <2>4. addr - r \in Int /\ addr - r = q * PageSize /\ addr - r + r = addr + 0
    BY <1>2, <2>2, <2>3
  <2>5. f[0].mem = mem /\ f[0].loaded = NoBytes /\ f[0].byte = r /\ f[0].page = addr - r
    BY <1>1, <2>1 DEF BlockFirst
  <2>6. DOMAIN f[0].loaded = {} /\ \A o \in 0 .. r - 1 : ~(addr <= addr - r + o)
    BY <1>2, <2>2, <2>5 DEF NoBytes
  <2>7. DOMAIN mem = Addresses /\ \A a \in Addresses : ~(addr <= a /\ a < addr - r)
    BY <1>2, <1>10, <2>2 DEF Addresses
  <2>8. InBlock(f[0], mem, addr, src, 0)
    BY <2>2, <2>4, <2>5, <2>6, <2>7 DEF InBlock
  <2> QED BY <1>2, <2>8
<1>4. ASSUME NEW n \in 0 .. len - 2, n \in T PROVE n + 1 \in T
  <2>1. PICK b : b = f[n]
    OBVIOUS
  <2>2. PICK c : c = f[n + 1]
    OBVIOUS
  <2>3. /\ n \in Nat /\ n + 1 \in 1 .. len /\ n + 1 - 1 = n /\ n + 1 # len /\ n \in 0 .. len
        /\ n + 1 \in 0 .. len - 1
    BY <1>2
  <2>4. b \in Blocks(V) /\ InBlock(b, mem, addr, src, n)
    BY <1>1, <1>4, <2>1, <2>3
  <2>5. c = BlockTurn(b, src[n + 1], n + 1 = len)
    BY <1>1, <2>1, <2>2, <2>3
  <2>6. /\ LoadedMore(b, src[n + 1]) =
             [o \in {p \in 0 .. b.byte : addr <= b.page + p} |-> src[b.page + o - addr + 1]]
        /\ PageWritten(b.mem, b.page, LoadedMore(b, src[n + 1])) = WrittenTo(mem, addr, src, n + 1)
    BY <1>2, <2>3, <2>4, PageIsRight
  <2>7. /\ b.byte \in 0 .. PageSize - 1 /\ b.page \in Int /\ b.page + b.byte = addr + n
        /\ DOMAIN b.mem = Addresses
    BY <2>4 DEF InBlock
  <2>8. PICK q \in Int : b.page = q * PageSize
    BY <2>4 DEF InBlock
  <2>9. CASE b.byte + 1 >= PageSize
    <3>1. /\ c.mem = WrittenTo(mem, addr, src, n + 1) /\ c.loaded = NoBytes
          /\ c.byte = 0 /\ c.page = b.page + PageSize
      BY <2>5, <2>6, <2>9 DEF BlockTurn
    <3>2. c.page = addr + (n + 1) /\ c.page \in Int /\ c.page + 0 = addr + (n + 1)
      <4>1. PICK y : y = b.byte
        OBVIOUS
      <4>2. PICK p : p = b.page
        OBVIOUS
      <4>3. y \in 0 .. PageSize - 1 /\ p \in Int /\ p + y = addr + n /\ y + 1 >= PageSize
        BY <2>7, <2>9, <4>1, <4>2
      <4>4. p + PageSize = addr + (n + 1) /\ p + PageSize \in Int
        BY <1>2, <2>3, <4>3
      <4> QED BY <3>1, <4>2, <4>4
    <3>3. c.page = (q + 1) * PageSize /\ q + 1 \in Int
      BY <1>2, <2>8, <3>1
    <3>4. DOMAIN c.loaded = {} /\ 0 .. c.byte - 1 = {} /\ c.byte \in 0 .. PageSize - 1
      BY <1>2, <3>1 DEF NoBytes
    <3>5. /\ DOMAIN c.mem = Addresses
          /\ \A a \in Addresses : c.mem[a] = IF addr <= a /\ a < c.page THEN src[a - addr + 1] ELSE mem[a]
      BY <3>1, <3>2 DEF WrittenTo
    <3>6. InBlock(c, mem, addr, src, n + 1)
      BY <3>1, <3>2, <3>3, <3>4, <3>5 DEF InBlock
    <3> QED BY <2>2, <2>3, <3>6
  <2>10. CASE ~(b.byte + 1 >= PageSize)
    <3>1. c = [b EXCEPT !.loaded = LoadedMore(b, src[n + 1]), !.byte = b.byte + 1]
      BY <2>3, <2>5, <2>10 DEF BlockTurn
    <3>2. /\ c.mem = b.mem /\ c.page = b.page /\ c.byte = b.byte + 1
          /\ c.loaded = LoadedMore(b, src[n + 1])
      BY <2>4, <3>1 DEF Blocks
    <3>3. c.byte \in 0 .. PageSize - 1 /\ c.page + c.byte = addr + (n + 1) /\ c.byte - 1 = b.byte
      <4>1. PICK y : y = b.byte
        OBVIOUS
      <4>2. PICK p : p = b.page
        OBVIOUS
      <4>3. y \in 0 .. PageSize - 1 /\ p \in Int /\ p + y = addr + n /\ ~(y + 1 >= PageSize)
        BY <2>7, <2>10, <4>1, <4>2
      <4>4. y + 1 \in 0 .. PageSize - 1 /\ y + 1 - 1 = y
        BY <1>2, <4>3
      <4>5. p + (y + 1) = addr + (n + 1)
        BY <1>2, <2>3, <4>3
      <4>6. c.byte = y + 1 /\ c.page = p
        BY <3>2, <4>1, <4>2
      <4> QED BY <1>2, <2>3, <4>1, <4>3, <4>4, <4>5, <4>6
    <3>4. /\ DOMAIN c.loaded = {o \in 0 .. c.byte - 1 : addr <= c.page + o}
          /\ \A o \in DOMAIN c.loaded : c.loaded[o] = src[c.page + o - addr + 1]
      BY <2>6, <3>2, <3>3
    <3>5. \A a \in Addresses : c.mem[a] = IF addr <= a /\ a < c.page THEN src[a - addr + 1] ELSE mem[a]
      BY <2>4, <3>2 DEF InBlock
    <3>6. InBlock(c, mem, addr, src, n + 1)
      BY <2>7, <2>8, <3>2, <3>3, <3>4, <3>5 DEF InBlock
    <3> QED BY <2>2, <2>3, <3>6
  <2> QED BY <2>9, <2>10
<1> HIDE DEF T
<1>5. 0 .. len - 1 \subseteq T
  <2>1. len - 1 \in Nat /\ len - 1 - 1 = len - 2
    BY <1>2
  <2> QED BY <1>3, <1>4, <2>1, InductionUpTo
<1>6. InBlock(f[len - 1], mem, addr, src, len - 1) /\ len - 1 \in Nat /\ len - 1 + 1 = len
  BY <1>2, <1>5 DEF T
<1>7. f[len] = BlockTurn(f[len - 1], src[len], TRUE)
  <2>1. len \in 1 .. len
    BY <1>2
  <2> QED BY <1>1, <2>1
<1>8. f[len].mem = PageWritten(f[len - 1].mem, f[len - 1].page, LoadedMore(f[len - 1], src[len]))
  BY <1>7 DEF BlockTurn
<1>9. f[len].mem = WrittenTo(mem, addr, src, len)
  <2>1. PICK n : n = len - 1
    OBVIOUS
  <2>2. PICK b : b = f[n]
    OBVIOUS
  <2>3. InBlock(b, mem, addr, src, n) /\ n \in Nat
    BY <1>6, <2>1, <2>2
  <2>4. n + 1 = len
    BY <1>6, <2>1
  <2>5. /\ LoadedMore(b, src[n + 1]) =
             [o \in {p \in 0 .. b.byte : addr <= b.page + p} |-> src[b.page + o - addr + 1]]
        /\ PageWritten(b.mem, b.page, LoadedMore(b, src[n + 1])) = WrittenTo(mem, addr, src, n + 1)
    BY <1>2, <2>3, PageIsRight
  <2> QED BY <1>8, <2>1, <2>2, <2>4, <2>5
<1> QED BY <1>1, <1>9

\* EEPROM_write_block writes a block where it belongs, and nothing else, whatever
\* is in the memory, wherever the block begins, and however many pages it crosses.
THEOREM BlocksAreRight == StoreSpec => []BlocksRight
<1>1. StoreInv => BlocksRight
  <2> SUFFICES ASSUME StoreInv, NEW addr \in Addresses, NEW len \in 1 .. 2 * NumSettings - addr,
                      NEW src, src = [n \in 1 .. len |-> (n + eeprom[addr]) % ByteBase],
                      NEW new, new = BlockWritten(eeprom, addr, src, len)
               PROVE  /\ BlockRead(new, addr, len) = src
                      /\ \A a \in Addresses \ (addr .. addr + len - 1) : new[a] = eeprom[a]
    BY DEF BlocksRight
  <2>1. addr \in Int /\ len \in Int /\ addr + len <= 2 * NumSettings /\ 0 <= addr
    BY StoreAssumption DEF StoreAssumption, Addresses
  <2>2. eeprom \in [Addresses -> Bytes]
    BY DEF StoreInv, StoreTypeOK
  <2>3. src \in [1 .. len -> Bytes]
    <3>1. eeprom[addr] \in Int
      BY <2>2 DEF Bytes
    <3>2. \A n \in 1 .. len : (n + eeprom[addr]) % ByteBase \in Bytes
      <4> SUFFICES ASSUME NEW n \in 1 .. len PROVE (n + eeprom[addr]) % ByteBase \in Bytes
        OBVIOUS
      <4>1. PICK m : m = n + eeprom[addr]
        OBVIOUS
      <4>2. m \in Int
        BY <3>1, <4>1
      <4>3. m % ByteBase \in 0 .. ByteBase - 1
        BY <4>2, StoreAssumption, DivMod DEF StoreAssumption
      <4> QED BY <4>1, <4>3 DEF Bytes
    <3> QED BY <3>2
  <2>4. new = WrittenTo(eeprom, addr, src, len)
    <3>1. BlockCase(Bytes, eeprom, addr, len, src)
      BY <2>2, <2>3 DEF BlockCase
    <3> QED BY <3>1, BlockIsWritten
  <2>5. ASSUME NEW n \in 1 .. len PROVE new[addr + n - 1] = src[n]
    <3>1. PICK a : a = addr + n - 1
      OBVIOUS
    <3>2. a \in Addresses /\ addr <= a /\ a < addr + len /\ a - addr + 1 = n
      BY <2>1, <3>1, StoreAssumption DEF Addresses, StoreAssumption
    <3>3. new[a] = src[a - addr + 1]
      BY <2>4, <3>2 DEF WrittenTo
    <3> QED BY <3>1, <3>2, <3>3
  <2>6. BlockRead(new, addr, len) = src
    BY <2>3, <2>5 DEF BlockRead
  <2>7. ASSUME NEW a \in Addresses \ (addr .. addr + len - 1) PROVE new[a] = eeprom[a]
    <3>1. ~(addr <= a /\ a < addr + len)
      BY <2>1, <2>7 DEF Addresses
    <3> QED BY <2>4, <3>1 DEF WrittenTo
  <2> QED BY <2>6, <2>7
<1> QED BY <1>1, StoreAlways, PTL
=============================================================================
