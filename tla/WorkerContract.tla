--------------------------- MODULE WorkerContract ---------------------------
(***************************************************************************)
(* What the control plane may take for granted about a worker: what the    *)
(* worker says of each sandbox, and how far its create request has come.   *)
(* A sandbox is asked for once.  WorkerService implements this.  Placement *)
(* sees a worker the same way from outside: Admit and Reject are its       *)
(* WorkerAdmit, Boot its WorkerBoot, Answer its WorkerAnswer, End its      *)
(* WorkerEnds and Deleted, Fail its WorkerDies, TmTerminateVM; it leaves   *)
(* the daemon's restarts out (Return), and there a boot that fails answers *)
(* in the same step.                                                       *)
(***************************************************************************)
EXTENDS Naturals, FiniteSets

CONSTANTS Sandboxes, Room
VARIABLES
  up,     \* the worker can be reached
  view,   \* what it says of a sandbox: ABSENT, CREATING, RUNNING, OVER
  call    \* none, working, saving; the answer: done (it runs), ended (it does not any
          \* more), error, rejected; lost (there will be none)

cvars == <<up, view, call>>

Live == {"CREATING", "RUNNING"}
Running == {s \in Sandboxes : view[s] \in Live}
\* The sandbox has once been taken on, and nobody works on its request.
Settled == {"done", "ended", "error", "lost"}

Begin ==
  /\ up \in BOOLEAN
  /\ view = [s \in Sandboxes |-> "ABSENT"] /\ call = [s \in Sandboxes |-> "none"]

Move(s, v, c) == /\ view' = [view EXCEPT ![s] = v] /\ call' = [call EXCEPT ![s] = c]
                 /\ UNCHANGED up

\* Taken on only where there is room; a warm slot runs at once.
Admit(s) ==
  /\ up /\ call[s] = "none" /\ view[s] = "ABSENT" /\ Cardinality(Running) < Room
  /\ Move(s, "CREATING", "working") \/ Move(s, "RUNNING", "saving")
Reject(s) == up /\ call[s] = "none" /\ Move(s, view[s], "rejected")

\* The boot is over: it runs, or it was deleted meanwhile, or nothing is left of it.
Boot(s) ==
  /\ up /\ call[s] = "working"
  /\ \/ view[s] = "CREATING" /\ Move(s, "RUNNING", "saving")
     \/ view[s] = "OVER" /\ Move(s, "OVER", "saving")
     \/ Move(s, "ABSENT", "saving")
Answer(s) ==
  /\ up /\ call[s] = "saving"
  /\ Move(s, view[s], CASE view[s] = "ABSENT" -> "error"
                        [] view[s] = "RUNNING" -> "done"
                        [] OTHER -> "ended")

\* A delete, the deadline, an exit: what is over stays over as long as the worker is up.
End(s) == up /\ view[s] \in Live /\ Move(s, "OVER", call[s])

\* The worker stops or is gone: nobody answers what is under way.
Fail ==
  /\ up /\ up' = FALSE /\ view' = [s \in Sandboxes |-> "ABSENT"]
  /\ call' \in [Sandboxes -> {"none", "lost", "rejected"} \cup Settled]
  /\ \A s \in Sandboxes : call'[s] # call[s] => call'[s] = "lost" /\ call[s] \in {"none", "working", "saving"}
\* It is back, with what it finds of the sandboxes it once took on.
Return ==
  /\ ~up /\ up' = TRUE /\ UNCHANGED call
  /\ view' \in [Sandboxes -> {"ABSENT", "RUNNING", "OVER"}]
  /\ \A s \in Sandboxes : view'[s] # "ABSENT" => call[s] \in Settled

Step == \/ \E s \in Sandboxes : Admit(s) \/ Reject(s) \/ Boot(s) \/ Answer(s) \/ End(s)
        \/ Fail \/ Return
Promise == Begin /\ [][Step]_cvars
=============================================================================
