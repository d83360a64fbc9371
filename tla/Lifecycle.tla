------------------------------ MODULE Lifecycle ------------------------------
(***************************************************************************)
(* The two state machines every part of SandboxPilot shares: the life of a *)
(* sandbox and the life of a worker VM (schemas/common.py).  Only states   *)
(* and transitions live here; who takes which transition, and from which   *)
(* copy of a record, is the business of the modules that use them.         *)
(***************************************************************************)

SandboxStates ==
  {"PENDING", "WAITING_FOR_CAPACITY", "PROVISIONING_WORKER", "CREATING",
   "RUNNING", "STOPPING", "STOPPED", "FAILED", "LOST", "EXPIRED"}

TerminalSandbox == {"STOPPED", "FAILED", "LOST", "EXPIRED"}

\* SandboxState.is_active: everything that is not terminal.
ActiveSandbox == SandboxStates \ TerminalSandbox

\* control/service.py: states in which a create is still looking for a worker.
Unplaced == {"PENDING", "WAITING_FOR_CAPACITY", "PROVISIONING_WORKER", "CREATING"}

SandboxNext ==
  [st \in SandboxStates |->
     CASE st = "PENDING" ->
            {"WAITING_FOR_CAPACITY", "PROVISIONING_WORKER", "CREATING", "STOPPED", "FAILED"}
       [] st = "WAITING_FOR_CAPACITY" ->
            {"PROVISIONING_WORKER", "CREATING", "STOPPED", "FAILED"}
       [] st = "PROVISIONING_WORKER" ->
            {"WAITING_FOR_CAPACITY", "CREATING", "STOPPED", "FAILED"}
       [] st = "CREATING" ->
            {"RUNNING", "FAILED", "LOST", "STOPPING", "WAITING_FOR_CAPACITY"}
       [] st = "RUNNING"  -> {"STOPPING", "STOPPED", "LOST", "EXPIRED", "FAILED"}
       [] st = "STOPPING" -> {"STOPPED", "EXPIRED", "LOST", "FAILED"}
       [] OTHER -> {}]

\* assert_sandbox_transition: staying in a state is always allowed.
SandboxMayBecome(from, to) == from = to \/ to \in SandboxNext[from]

WorkerStates ==
  {"PROVISIONING", "BOOTSTRAPPING", "CONNECTING", "HEALTHY", "DRAINING",
   "UNHEALTHY", "TERMINATING", "TERMINATED", "LOST"}

TerminalWorker == {"TERMINATED", "LOST"}

\* WorkerState.is_pending
PendingWorker == {"PROVISIONING", "BOOTSTRAPPING", "CONNECTING"}

\* WorkerState.counts_toward_max
CountedWorker == WorkerStates \ TerminalWorker

=============================================================================
