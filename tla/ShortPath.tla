----------------------------- MODULE ShortPath -----------------------------
(***************************************************************************)
(* The shortest path program: droplet_programs/short_path.c.               *)
(*                                                                         *)
(* A droplet under a green light starts to ask its neighbours, who ask     *)
(* theirs, each remembering who asked it first.  A droplet under a red     *)
(* light is the goal: it tells whoever asked it, who lights up and tells   *)
(* whoever asked it, until the path is lit.  What is said may be lost, or  *)
(* heard late, when the speaker is in another state; a telling is repeated *)
(* until somebody acknowledges it.                                         *)
(*                                                                         *)
(* Everything runs in the main loop.  rand_byte makes every saying a       *)
(* choice.  Colours, delays and the growing power of the emitters, and     *)
(* add_group_member, which is not called, are left out.                    *)
(***************************************************************************)
EXTENDS Integers, FiniteSets

CONSTANTS
  Walkers,     \* the droplets
  Nobody,      \* 0 in who_asked_me
  Adjacent,    \* the sets of two droplets that hear each other
  QueryLimit,  \* 5: a droplet stops asking after one query more
  PathBudgets  \* bounds on a behaviour, as pathBudget

PathAssumption ==
  /\ IsFiniteSet(Walkers) /\ Nobody \notin Walkers /\ QueryLimit \in Nat
  /\ \A pair \in Adjacent : pair \subseteq Walkers /\ Cardinality(pair) = 2
ASSUME PathAssumption

VARIABLES
  state,       \* "idle", "frontier", "wait", "light_on" or "final"
  asker,       \* who_asked_me
  answerer,    \* who_asnwered
  gotAck,
  numSent,
  acking,      \* droplets between the acknowledgements and the change of state
  pathInbox,   \* per droplet, what its queue holds: [from, what]
  pathBudget   \* [greens, reds, losses]: who may see which light, how much is lost

pathVars == <<state, asker, answerer, gotAck, numSent, acking, pathInbox, pathBudget>>

\* init
PathInit ==
  /\ state = [d \in Walkers |-> "idle"]
  /\ asker = [d \in Walkers |-> Nobody] /\ answerer = [d \in Walkers |-> Nobody]
  /\ gotAck = [d \in Walkers |-> FALSE] /\ numSent = [d \in Walkers |-> 0]
  /\ acking = {} /\ pathInbox = [d \in Walkers |-> {}]
  /\ pathBudget \in PathBudgets

\* What ir_send does, and ir_targeted_send to one of them
Say(d, what, listeners) ==
  pathInbox' = [e \in Walkers |-> IF e \in listeners /\ {d, e} \in Adjacent
                                  THEN pathInbox[e] \cup {[from |-> d, what |-> what]}
                                  ELSE pathInbox[e]]

Become(d, s) == /\ state' = [state EXCEPT ![d] = s]
                /\ numSent' = IF s \in {"frontier", "light_on", "final"}
                              THEN [numSent EXCEPT ![d] = 0] ELSE numSent

-----------------------------------------------------------------------------
(* loop; a droplet that acknowledges is inside handle_msg *)

\* The light is red above
SeeRed(d) ==
  /\ d \in pathBudget.reds \ acking /\ state[d] # "final"
  /\ Become(d, "final")
  /\ UNCHANGED <<asker, answerer, gotAck, acking, pathInbox, pathBudget>>

\* The light is green above
SeeGreen(d) ==
  /\ d \in pathBudget.greens /\ state[d] = "idle"
  /\ Become(d, "frontier")
  /\ UNCHANGED <<asker, answerer, gotAck, acking, pathInbox, pathBudget>>

\* send_query, and the last of them
Query(d) ==
  /\ d \notin acking /\ state[d] = "frontier"
  /\ Say(d, "F?", Walkers)
  /\ IF numSent[d] = QueryLimit
     THEN Become(d, "wait")
     ELSE numSent' = [numSent EXCEPT ![d] = @ + 1] /\ UNCHANGED state
  /\ UNCHANGED <<asker, answerer, gotAck, acking, pathBudget>>

\* who may tell, were it before the answer is complete
TellsEarly(d) == state[d] \in {"final", "light_on", "wait"}

Tells(d) == state[d] \in {"final", "light_on"}

\* Found: to whoever asked, until an acknowledgement comes
Found(d) ==
  /\ Tells(d) /\ asker[d] # Nobody /\ ~gotAck[d]
  /\ Say(d, "F!", {asker[d]})
  /\ UNCHANGED <<state, asker, answerer, gotAck, numSent, acking, pathBudget>>

-----------------------------------------------------------------------------
(* handle_msg *)

Heard(d, m) == pathInbox' = [pathInbox EXCEPT ![d] = @ \ {m}]

\* who may take a query, were they all to
AnyAsked(d) == state[d] \in {"idle", "final", "frontier", "wait"}

\* Who takes a query to heart: an idle droplet, and the goal, which forgets who
\* asked it before
Asked(d) == state[d] \in {"idle", "final"}

HearQuery(d, m) ==
  /\ d \notin acking /\ m \in pathInbox[d] /\ m.what = "F?" /\ Asked(d)
  /\ asker' = [asker EXCEPT ![d] = m.from]
  /\ IF state[d] = "idle" THEN Become(d, "frontier") ELSE UNCHANGED <<state, numSent>>
  /\ Heard(d, m)
  /\ UNCHANGED <<answerer, gotAck, acking, pathBudget>>

HearAck(d, m) ==
  /\ m \in pathInbox[d] /\ m.what = "ACK" /\ state[d] \in {"final", "light_on"}
  /\ gotAck' = [gotAck EXCEPT ![d] = TRUE]
  /\ Heard(d, m)
  /\ UNCHANGED <<state, asker, answerer, numSent, acking, pathBudget>>

Expecting(d) == state[d] \in {"frontier", "wait"}

AckTo(d, m) == m.from

\* An answer is acknowledged five times over 200 ms ...
HearFound(d, m) ==
  /\ d \notin acking /\ m \in pathInbox[d] /\ m.what = "F!" /\ Expecting(d)
  /\ answerer' = [answerer EXCEPT ![d] = m.from]
  /\ pathInbox' = [pathInbox EXCEPT ![d] = @ \ {m},
                                    ![AckTo(d, m)] = @ \cup {[from |-> d, what |-> "ACK"]}]
  /\ acking' = acking \cup {d}
  /\ UNCHANGED <<state, asker, gotAck, numSent, pathBudget>>

\* ... before the droplet lights up
LightUp(d) ==
  /\ d \in acking /\ acking' = acking \ {d}
  /\ Become(d, "light_on")
  /\ UNCHANGED <<asker, answerer, gotAck, pathInbox, pathBudget>>

\* any other message
Ignore(d, m) ==
  /\ d \notin acking /\ m \in pathInbox[d]
  /\ CASE m.what = "F?"  -> ~Asked(d)
       [] m.what = "ACK" -> state[d] \notin {"final", "light_on"}
       [] m.what = "F!"  -> ~Expecting(d)
  /\ Heard(d, m)
  /\ UNCHANGED <<state, asker, answerer, gotAck, numSent, acking, pathBudget>>

Lose(d, m) ==
  /\ m \in pathInbox[d] /\ Heard(d, m)
  /\ pathBudget.losses > 0 /\ pathBudget' = [pathBudget EXCEPT !.losses = @ - 1]
  /\ UNCHANGED <<state, asker, answerer, gotAck, numSent, acking>>

PathNext ==
  \/ \E d \in Walkers : SeeRed(d)
  \/ \E d \in Walkers : SeeGreen(d)
  \/ \E d \in Walkers : Query(d)
  \/ \E d \in Walkers : Found(d)
  \/ \E d \in Walkers : LightUp(d)
  \/ \E d \in Walkers : \E m \in pathInbox[d] : HearQuery(d, m)
  \/ \E d \in Walkers : \E m \in pathInbox[d] : HearAck(d, m)
  \/ \E d \in Walkers : \E m \in pathInbox[d] : HearFound(d, m)
  \/ \E d \in Walkers : \E m \in pathInbox[d] : Ignore(d, m)
  \/ \E d \in Walkers : \E m \in pathInbox[d] : Lose(d, m)

PathSpec == PathInit /\ [][PathNext]_pathVars

-----------------------------------------------------------------------------
(* Correctness *)

\* d and all that the pointers lead to from it
Trail(next, d) ==
  LET reach[n \in 0 .. Cardinality(Walkers)] ==
        IF n = 0 THEN {d} ELSE reach[n - 1] \cup ({next[e] : e \in reach[n - 1]} \ {Nobody})
  IN reach[Cardinality(Walkers)]

\* A lit droplet is on a path to the goal: the answers, one after the other,
\* lead to a droplet that saw red, however the queries, answers and repetitions
\* of several droplets were lost, late or crossed.
LitLeadsToGoal ==
  \A d \in Walkers : state[d] = "light_on" => \E e \in Trail(answerer, d) : state[e] = "final"

\* The askers lead back to where the search began, and not around in a circle,
\* unless by way of a goal, which forgets the asker it had.
AskersLeadBack ==
  \A d \in Walkers : asker[d] # Nobody /\ d \in Trail(asker, asker[d])
                       => \E e \in Trail(asker, d) : state[e] = "final"

=============================================================================
