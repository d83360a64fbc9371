---------------------------- MODULE MCPlacement ----------------------------
(* Scenarios and symmetry for model checking Placement. *)
EXTENDS Placement, TLC

Symmetry == Permutations(Sandboxes)

Load(creates, faults, deaths, crashes, removals, passes) ==
  [creates |-> creates, faults |-> faults, deaths |-> deaths, crashes |-> crashes,
   removals |-> removals, passes |-> passes]

\* Two creates for one slot and a call that fails; one create and two troubles out of
\* a failing call, a dying worker, a removal, a pass and the end of the process.
TroubleLoads  == {Load(2, 1, 0, 0, 0, 0), Load(1, 1, 0, 0, 0, 1), Load(1, 0, 1, 0, 0, 1),
                  Load(1, 1, 0, 1, 0, 0), Load(1, 0, 1, 1, 0, 0), Load(1, 1, 0, 0, 1, 0),
                  Load(1, 0, 0, 1, 1, 0)}
\* Endless passes and a failing call, or the end of the process.
EndlessLoads  == {Load(1, 1, 0, 0, 0, NoBound), Load(1, 0, 0, 1, 0, NoBound)}
QuietLoads    == {Load(1, 0, 0, 0, 0, 0)}

=============================================================================
