----------------------------- MODULE SerialLine -----------------------------
(***************************************************************************)
(* The line editor of the serial port: handle_serial_input and             *)
(* handle_up_arrow of droplet_code/src/pc_comm.c, and the way a line is    *)
(* cut into a command and its arguments (get_command_word_and_args of      *)
(* src/serial_handler.c).                                                  *)
(*                                                                         *)
(* The buffer is kept from one line to the next: the arrow that points up  *)
(* takes what it still has behind the characters typed so far.             *)
(***************************************************************************)
EXTENDS Naturals, Sequences

CONSTANTS
  BufferSize,  \* SRL_BUFFER_SIZE
  Letters      \* characters besides the blank, "[" and "A", which end an arrow key

Nul == "nul"
Blank == " "
Characters == Letters \union {Blank, "[", "A"}
Keys == Characters \union {"enter", "backspace", "escape"}

LineAssumption ==
  /\ BufferSize \in Nat \ {0}
  /\ Letters \intersect {Nul, "enter", "backspace", "escape"} = {}
ASSUME LineAssumption

VARIABLES
  buffer,   \* serial_in_buffer, and the cell behind it, which reads as 0
  index,    \* serial_in_index
  escaped, escaped_arrow,
  screen,   \* the line as the terminal shows it
  command   \* the last command: the line typed, its word and its arguments

lineVars == <<buffer, index, escaped, escaped_arrow, screen, command>>

LineInit ==
  /\ buffer = [i \in 0 .. BufferSize |-> Nul] /\ index = 0
  /\ escaped = FALSE /\ escaped_arrow = FALSE /\ screen = <<>>
  /\ command = [line |-> <<>>, word |-> <<>>, args |-> <<>>]

----------------------------------------------------------------------------

\* get_command_word_and_args, one character after the other
Split(text) ==
  LET cut[i \in 0 .. Len(text)] ==
        IF i = 0 THEN [word |-> <<>>, args |-> <<>>, inWord |-> TRUE]
        ELSE IF text[i] = Blank /\ cut[i - 1].inWord THEN [cut[i - 1] EXCEPT !.inWord = FALSE]
        ELSE IF cut[i - 1].inWord THEN [cut[i - 1] EXCEPT !.word = Append(@, text[i])]
        ELSE [cut[i - 1] EXCEPT !.args = Append(@, text[i])]
  IN  cut[Len(text)]

Typed(n) == [i \in 1 .. n |-> buffer[i - 1]]

\* An ordinary character; a line that is full is dropped.
Insert(key) ==
  IF index = BufferSize
  THEN index' = 0 /\ screen' = <<>> /\ UNCHANGED buffer
  ELSE /\ buffer' = [buffer EXCEPT ![index] = key]
       /\ index' = index + 1 /\ screen' = Append(screen, key)

\* The line ends.  An empty one is no command.
Enter ==
  /\ buffer' = [buffer EXCEPT ![index] = Nul]
  /\ index' = 0 /\ screen' = <<>>
  /\ IF index = 0 THEN UNCHANGED command
     ELSE LET cut == Split(Typed(index))
          IN  command' = [line |-> screen, word |-> cut.word, args |-> cut.args]

\* The cell behind the rest of the last line
RestEnd == LET end[i \in 0 .. BufferSize] == IF buffer[i] = Nul THEN i ELSE end[i + 1]
           IN  end[index]

\* mutant: the rest is shown and not taken
ArrowShows ==
  /\ screen' = screen \o [i \in 1 .. RestEnd - index |-> buffer[index + i - 1]]
  /\ UNCHANGED <<buffer, index>>

\* handle_up_arrow
Arrow ==
  /\ screen' = screen \o [i \in 1 .. RestEnd - index |-> buffer[index + i - 1]]
  /\ index' = RestEnd /\ UNCHANGED buffer

Same == UNCHANGED <<buffer, index, screen>>

\* handle_serial_input
Receive(key) ==
  IF escaped_arrow
  THEN /\ IF key = "A" THEN Arrow ELSE Same
       /\ escaped_arrow' = FALSE /\ UNCHANGED <<escaped, command>>
  ELSE IF escaped
  THEN escaped_arrow' = (key = "[") /\ escaped' = FALSE /\ Same /\ UNCHANGED command
  ELSE /\ CASE key = "enter" -> Enter
            [] key = "backspace" -> /\ index' = IF index > 0 THEN index - 1 ELSE index
                                    /\ screen' = SubSeq(screen, 1, Len(screen) - 1)
                                    /\ UNCHANGED <<buffer, command>>
            [] key = "escape" -> Same /\ UNCHANGED command
            [] OTHER -> Insert(key) /\ UNCHANGED command
       /\ escaped' = (key = "escape") /\ UNCHANGED escaped_arrow

LineNext == \E key \in Keys : Receive(key)

LineSpec == LineInit /\ [][LineNext]_lineVars

----------------------------------------------------------------------------
\* What the terminal shows is what the buffer holds, through backspaces, full
\* lines and lines that are taken up again.
ScreenAgrees == screen = Typed(index) /\ index <= BufferSize

=============================================================================
