----------------------------- MODULE MC_Programs ----------------------------
(***************************************************************************)
(* Instances of the programs that droplets run, and of localization.  A    *)
(* droplet runs one program, which `program` names from the start; the     *)
(* state of the others stays as it was at first.                           *)
(***************************************************************************)
EXTENDS ChemSim, PongBall, PongBots, MouseKeyboard, ShortPath,
        TaskAlloc, Localization, TLC

CONSTANTS c1, c2, h1, h2, b1, b2, b3, b4, b5, w1, w2, w3, n1, n2, Programs

VARIABLE program

\* Chemistry: methylene in the making; two carbons and a hydrogen; acetylene, for
\* which the lists of atoms are too short, in a row; and a carbon in the middle,
\* whose list of neighbours is.
All(S) == {{d, e} : d \in S, e \in S}
MCChemBudgets == {[pairs |-> All({c1, h1, h2}), slots |-> 4, scrubs |-> 1],
                  [pairs |-> All({c1, c2, h1}), slots |-> 4, scrubs |-> 1],
                  [pairs |-> {{h1, c1}, {c1, c2}, {c2, h2}}, slots |-> 5, scrubs |-> 1],
                  [pairs |-> {{h1, c1}, {c1, c2}, {c1, h2}}, slots |-> 4, scrubs |-> 1]}

\* Pong: two edges close together, or four of which two are the same; a droplet that
\* knows the ball by itself, or by the others.
MCWalls       == {<<3, -3>>, <<-4, 8, 8, -4>>}
MCReported    == {0, 1}
MCPongBudgets == {[commands |-> 1, turns |-> 4, messages |-> 1, sends |-> 2],
                  [commands |-> 1, turns |-> 1, messages |-> 3, sends |-> 3]}

\* Five neighbours, of which one moves, for a table of three
SeenAt(b, d, a) == [id |-> b, dist |-> d, bearing |-> a]
MCSightings == {SeenAt(b1, 1, 0), SeenAt(b1, 4, 130), SeenAt(b2, 2, 130), SeenAt(b3, 3, -90),
                SeenAt(b4, 2, -180), SeenAt(b5, 3, 60), SeenAt(b5, 3, 180)}

\* Buttons: a key pressed three times, a key that hears another press, a mouse
\* that follows two presses, wired keys, a droplet that learns its place late, and
\* a press that two messages may overwrite in the log
Board(b, t, p, m, c, r) == [button |-> b, settled |-> b # "unknown", at |-> 20, ticks |-> t,
                            presses |-> p, messages |-> m, commands |-> c, roles |-> r]
MCKeyStarts == {Board("key", 16, 3, 0, 0, 0), Board("shift", 14, 1, 1, 0, 0),
                Board("left", 14, 2, 0, 0, 0), Board("key", 10, 1, 0, 2, 0),
                Board("key", 10, 1, 0, 0, 1), Board("unknown", 14, 1, 1, 0, 0),
                Board("key", 9, 1, 2, 0, 0)}

\* Paths: three droplets in reach of each other; a message lost, or two goals
MCAdjacent    == {{w1, w2}, {w2, w3}, {w1, w3}}
MCPathBudgets == {[greens |-> {w1}, reds |-> {w3}, losses |-> 1],
                  [greens |-> {w1}, reds |-> {w2, w3}, losses |-> 0]}

-----------------------------------------------------------------------------
\* Of the programs that do not run, one initial state is enough.
Init ==
  /\ program \in Programs
  /\ ChemInit /\ (program # "chem" => chemBudget = CHOOSE b \in ChemBudgets : TRUE)
  /\ PongInit /\ (program # "ball" => pongBudget = CHOOSE b \in PongBudgets : TRUE)
  /\ BotsInit
  /\ KeyInit /\ (program # "keys" => start = CHOOSE s \in KeyStarts : TRUE)
  /\ AllocInit /\ (program # "alloc" => ~saidYes)
  /\ PathInit /\ (program # "path" => pathBudget = CHOOSE b \in PathBudgets : TRUE)
  /\ LocInit /\ (program # "loc" => ~located)

\* The state of all but one of the programs
NotChem == <<pongVars, botsVars, keyVars, pathVars, allocVars, locVars, program>>
NotBall == <<chemVars, botsVars, keyVars, pathVars, allocVars, locVars, program>>
NotBots == <<chemVars, pongVars, keyVars, pathVars, allocVars, locVars, program>>
NotKeys == <<chemVars, pongVars, botsVars, pathVars, allocVars, locVars, program>>
NotPath == <<chemVars, pongVars, botsVars, keyVars, allocVars, locVars, program>>
NotAlloc == <<chemVars, pongVars, botsVars, keyVars, pathVars, locVars, program>>
NotLoc  == <<chemVars, pongVars, botsVars, keyVars, pathVars, allocVars, program>>

Next ==
  \/ program = "chem" /\ ChemNext /\ UNCHANGED NotChem
  \/ program = "ball" /\ PongBallNext /\ UNCHANGED NotBall
  \/ program = "bots" /\ BotsNext /\ UNCHANGED NotBots
  \/ program = "keys" /\ KeyNext /\ UNCHANGED NotKeys
  \/ program = "path" /\ PathNext /\ UNCHANGED NotPath
  \/ program = "alloc" /\ AllocNext /\ UNCHANGED NotAlloc
  \/ program = "loc" /\ LocNext /\ UNCHANGED NotLoc

vars == <<chemVars, NotChem>>
Spec == Init /\ [][Next]_vars
=============================================================================
