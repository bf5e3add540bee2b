------------------------------ MODULE Mailbox ------------------------------
(***************************************************************************)
(* What the queue of incoming messages promises the program: a frame that  *)
(* was heard, on however many channels, waits once and is handled once, and *)
(* frames are handled in the order in which they were first heard.         *)
(***************************************************************************)
EXTENDS Integers

CONSTANTS Frames, None

VARIABLE heard   \* when the first waiting copy of each frame was heard

Waiting == {f \in Frames : heard[f] # None}

Init == heard = [f \in Frames |-> None]

Hear(f) ==
  /\ f \notin Waiting
  /\ \E t \in {heard'[f]} \ {None} :
       /\ \A g \in Waiting : heard[g] <= t
       /\ heard' = [heard EXCEPT ![f] = t]

Handle(f) ==
  /\ f \in Waiting
  /\ \A g \in Waiting : heard[f] <= heard[g]
  /\ heard' = [heard EXCEPT ![f] = None]

Next == \E f \in Frames : Hear(f) \/ Handle(f)

Spec == Init /\ [][Next]_heard
=============================================================================
