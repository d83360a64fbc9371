--------------------------- MODULE MCWorkerFleet ---------------------------
(* Scenarios for model checking WorkerFleet. *)
EXTENDS WorkerFleet

Calm == [faults |-> 0, deaths |-> 0, crashes |-> 0, drains |-> 0,
         removes |-> 0, sweeps |-> 0, grows |-> 0, places |-> 0]

\* A failing call and a dying VM; a failing call and the end of the process;
\* a request of a user while passes go on.
TroubleLoads ==
  {[Calm EXCEPT !.faults = 1, !.deaths = 1],
   [Calm EXCEPT !.faults = 1, !.crashes = 1],
   [Calm EXCEPT !.removes = 1],
   [Calm EXCEPT !.drains = 1],
   [Calm EXCEPT !.places = 1],
   [Calm EXCEPT !.sweeps = 1],
   [Calm EXCEPT !.grows = 1]}

=============================================================================
