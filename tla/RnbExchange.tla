---------------------------- MODULE RnbExchange ----------------------------
(***************************************************************************)
(* What range and bearing promises: a droplet is in one exchange at a time,*)
(* its own broadcast or the measurement of another droplet, an exchange    *)
(* with a droplet ends with at most one report, and the program takes the  *)
(* reports in their order.                                                 *)
(***************************************************************************)
EXTENDS Sequences

CONSTANTS Droplets, Self, None

VARIABLES partner, reports

vars == <<partner, reports>>

Init == partner = None /\ reports = <<>>

Start ==
  /\ partner = None
  /\ partner' \in Droplets \union {Self}
  /\ UNCHANGED reports

Report ==
  /\ partner \in Droplets
  /\ reports' = Append(reports, partner)
  /\ partner' = None

End == partner # None /\ partner' = None /\ UNCHANGED reports

Take == reports # <<>> /\ reports' = Tail(reports) /\ UNCHANGED partner

Next == Start \/ Report \/ End \/ Take

Spec == Init /\ [][Next]_vars
=============================================================================
