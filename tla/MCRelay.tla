------------------------------ MODULE MCRelay ------------------------------
(* Relay with the loads its run explores. *)
EXTENDS Relay

Quiet == [down |-> 0, up |-> 0, refuses |-> 0, slow |-> 0, cuts |-> 0]
\* One end speaks; both do; the opening fails; a connection breaks.
TalkLoads ==
  {[Quiet EXCEPT !.down = 2], [Quiet EXCEPT !.up = 2], [Quiet EXCEPT !.down = 1, !.up = 1],
   [Quiet EXCEPT !.refuses = 1, !.slow = 1], [Quiet EXCEPT !.down = 1, !.up = 2, !.cuts = 1]}
=============================================================================
