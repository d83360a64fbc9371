------------------------------ MODULE MCLinks ------------------------------
(* Links with the loads its run explores. *)
EXTENDS Links

Calm == [breaks |-> 0, twins |-> 0, stalls |-> 0, removals |-> {}, cleanups |-> {}, stops |-> 0]
\* Two forwards given one port, a machine that stalls, a forward that breaks and a
\* cleanup that finds it, a worker removed under a request, a stop.
TroubleLoads ==
  {[Calm EXCEPT !.twins = 1, !.stalls = 1], [Calm EXCEPT !.breaks = 1, !.cleanups = Busy],
   [Calm EXCEPT !.removals = Busy], [Calm EXCEPT !.stops = 1]}
=============================================================================
