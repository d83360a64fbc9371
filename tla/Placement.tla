------------------------------ MODULE Placement ------------------------------
(***************************************************************************)
(* How the control plane (control/service.py) gives sandboxes to workers   *)
(* and takes them back.  Every coroutine is a task with a program counter; *)
(* an action runs from the completion of one await to the start of the     *)
(* next.  A task works on its own in-memory copy of a record and an upsert *)
(* replaces the whole row, so what a task writes is what it read some      *)
(* awaits ago: that is the heart of this module.                           *)
(*                                                                         *)
(* Resources are abstracted to unit slots: a worker offers Slots of them   *)
(* and a sandbox takes one.  The worker daemon is reduced to its inventory *)
(* and to the create requests it is serving; WorkerService models it.      *)
(* Tasks: one placement per sandbox (_place_and_start), the Stoppers       *)
(* (_stop_sandbox), one reconcile pass, one termination per worker.        *)
(***************************************************************************)
EXTENDS Lifecycle, Naturals, FiniteSets

CONSTANTS
  Sandboxes,      \* sandbox ids
  Workers,        \* worker ids, provisioned or not yet
  Stoppers,       \* concurrent kill / expiry calls
  NoWorker,       \* worker_id is None
  NoTask,         \* the pool lock is free
  Slots,          \* sandboxes one worker can hold
  MaxWorkers,     \* pool.max_workers
  Provisioned,    \* workers that are up when the control plane starts
  Loads,          \* bounds: how often each kind of trouble may happen, one record a scenario
  Ends            \* ways a sandbox ends on its worker by itself: EXPIRED, STOPPED, LOST

NoBound == 99
\* creates: requests for a sandbox; faults: failed calls to reachable workers; deaths:
\* worker VMs that disappear; crashes: control plane crashes and shutdowns; removals:
\* workers removed, scaled down or pools taken down; passes: reconcile passes (NoBound:
\* unbounded).
Budgets == [creates : Nat, faults : Nat, deaths : Nat, crashes : Nat, removals : Nat, passes : Nat]

ASSUME ConstantsAssumption ==
  /\ NoWorker \notin Workers
  /\ NoTask \notin Sandboxes
  /\ Slots \in Nat \ {0}
  /\ Provisioned \subseteq Workers
  /\ MaxWorkers \in Nat
  /\ IsFiniteSet(Sandboxes)
  /\ Ends \subseteq {"EXPIRED", "STOPPED", "LOST"}
  /\ Loads \subseteq Budgets

VARIABLES
  db,        \* sandboxes table: state and worker_id of every row
  wdb,       \* workers table: state of every row
  pending,   \* ledger: creates the worker has not acknowledged
  acked,     \* ledger: local_allocated, acknowledged since the last snapshot
  snap,      \* ledger: slots in use according to the last snapshot
  lock,      \* pool lock: the placement holding it
  pc,        \* placement: where it is
  mem,       \* placement: its in-memory record
  host,      \* placement: the worker it is talking to (local variable `worker`)
  excl,      \* placement: workers it no longer tries
  stop,      \* stop tasks
  rc,        \* the reconcile task
  tm,        \* termination tasks, one per worker
  inv,       \* worker daemon: its record of every sandbox
  rpc,       \* worker daemon: the create request of every sandbox
  alive,     \* worker VM is up
  cp,        \* control plane process
  budget     \* how much of each bound is left

dbVars    == <<db, wdb>>
ledger    == <<pending, acked, snap>>
placeVars == <<lock, pc, mem, host, excl>>
taskVars  == <<stop, rc, tm>>
hostVars  == <<inv, rpc, alive>>
vars == <<db, wdb, pending, acked, snap, lock, pc, mem, host, excl, stop, rc, tm,
          inv, rpc, alive, cp, budget>>

-----------------------------------------------------------------------------
(* Records *)

NoRow   == [state |-> "NONE", worker |-> NoWorker]
Row(st, w) == [state |-> st, worker |-> w]
Rows    == [state : SandboxStates \cup {"NONE"}, worker : Workers \cup {NoWorker}]

\* A worker's own view of a sandbox; ABSENT: it holds no record of it.
Views   == {"ABSENT", "CREATING", "RUNNING", "STOPPED", "EXPIRED", "LOST"}
Live    == {"CREATING", "RUNNING"}
\* A create request as the worker sees it, up to the answer it gives.
Calls   == {"none", "sent", "working", "saving", "done", "ended", "discarded",
            "changed", "error"}
\* Answers whose view is not RUNNING: it ended before the answer left, or it was
\* deleted while it booted.
NotRunning == {"ended", "discarded"}

PlacePCs == {"idle", "loop", "commit", "calling", "refresh", "unavailable", "mark",
             "requeue", "discard", "badview", "running", "touch", "failing", "failed", "cancelled", "cancelsave",
             "finish", "done"}
StopPCs  == {"idle", "mark", "worker", "delete", "count", "touch", "finish"}
RcPCs    == {"idle", "next", "apply", "failed", "list", "ours", "sync", "orphans", "delete", "touch"}
TmPCs    == {"idle", "forget", "list", "losing", "provider", "gone"}

IdleStop == [pc |-> "idle", sb |-> NoTask, rec |-> NoRow, final |-> "STOPPED", seen |-> "NONE"]
IdleRc   == [pc |-> "idle", w |-> NoWorker, todo |-> {}, seen |-> [w \in Workers |-> "NONE"],
             used |-> 0, remote |-> [s \in Sandboxes |-> "ABSENT"], ours |-> {}, left |-> {},
             sb |-> NoTask]
IdleTm   == [pc |-> "idle", lost |-> FALSE, left |-> {}]

Terminal(s) == db[s].state \in TerminalSandbox
Active(s)   == db[s].state \in ActiveSandbox

\* db.sandboxes.list(worker_id=w, active_only=True)
ActiveOn(w) == {s \in Sandboxes : Active(s) /\ db[s].worker = w}

Spend(kind) == /\ budget[kind] > 0
               /\ budget' = [budget EXCEPT ![kind] = @ - 1]

-----------------------------------------------------------------------------
(* The capacity ledger (scheduler/capacity.py) and the scheduler.          *)
(* A worker without a snapshot offers nothing: snap = Slots.               *)

\* Mutant: a reservation counts only once the worker has acknowledged it.
MutUsed(w) == snap[w] + Cardinality(acked[w])
Used(w) == snap[w] + Cardinality(pending[w]) + Cardinality(acked[w])

\* CapacityManager.snapshot: what the worker has admitted and not released.
Admitted(w) == Cardinality({s \in Sandboxes : inv[w][s] \in Live})

Update(w, used) == /\ snap'  = [snap EXCEPT ![w] = used]
                   /\ acked' = [acked EXCEPT ![w] = {}]
Reserve(w, s) == pending' = [pending EXCEPT ![w] = @ \cup {s}]
Confirm(w, s) == /\ pending' = [pending EXCEPT ![w] = @ \ {s}]
                 /\ acked' = [acked EXCEPT ![w] = IF s \in pending[w] THEN @ \cup {s} ELSE @]
\* Mutant: release gives back only what was acknowledged.
MutRelease(w, s) == /\ UNCHANGED pending
                    /\ acked' = [acked EXCEPT ![w] = @ \ {s}]
Release(w, s) == /\ pending' = [pending EXCEPT ![w] = @ \ {s}]
                 /\ acked' = [acked EXCEPT ![w] = @ \ {s}]
Forget(w) == /\ pending' = [pending EXCEPT ![w] = {}]
             /\ acked' = [acked EXCEPT ![w] = {}]
             /\ snap' = [snap EXCEPT ![w] = Slots]

\* Mutant: the scheduler ignores `exclude`.
MutCandidates(s) == {w \in Workers : wdb[w] = "HEALTHY"}
Candidates(s) == {w \in Workers : wdb[w] = "HEALTHY" /\ w \notin excl[s]}
Fitting(s) == {w \in Candidates(s) : Used(w) < Slots}
\* Best fit: the fullest worker that still has room.
BestFit(s) == {w \in Fitting(s) : \A v \in Fitting(s) : Used(v) <= Used(w)}

Counted    == {w \in Workers : wdb[w] \in CountedWorker}
Booting    == {w \in Workers : wdb[w] \in PendingWorker}
DecideScaleUp == Booting = {} /\ Cardinality(Counted) < MaxWorkers

-----------------------------------------------------------------------------
(* Placement: create_sandbox and _place_and_start *)

Up == cp # "down"
Goto(s, label) == pc' = [pc EXCEPT ![s] = label]
\* The task returns or raises; its locals go with it.
End(s) ==
  /\ Goto(s, "done")
  /\ mem' = [mem EXCEPT ![s] = NoRow]
  /\ host' = [host EXCEPT ![s] = NoWorker]
  /\ excl' = [excl EXCEPT ![s] = {}]

\* create_sandbox: insert the row, start the placement task.
Create(s) ==
  /\ cp = "up" /\ db[s] = NoRow /\ pc[s] = "idle"   \* a fresh id
  /\ Spend("creates")
  /\ db' = [db EXCEPT ![s] = Row("PENDING", NoWorker)]
  /\ mem' = [mem EXCEPT ![s] = Row("PENDING", NoWorker)]
  /\ Goto(s, "loop")
  /\ UNCHANGED <<wdb, ledger, lock, host, excl, taskVars, hostVars, cp>>

\* The locked block: read the row and the workers, decide.  The reads are one
\* step: nothing a kill or the reconciler does between them matters here.
AtLoop(s) == Up /\ pc[s] = "loop" /\ lock = NoTask
Decide(s, row) ==
  /\ mem' = [mem EXCEPT ![s] = row]
  /\ host' = [host EXCEPT ![s] = row.worker]
  /\ Goto(s, "commit")
  /\ lock' = s
  /\ UNCHANGED <<db, excl, taskVars, hostVars, cp, budget>>

PlaceGiveUp(s) ==
  /\ AtLoop(s) /\ Terminal(s)
  /\ End(s)
  /\ UNCHANGED <<dbVars, ledger, lock, taskVars, hostVars, cp, budget>>

PlaceReserve(s) ==
  /\ AtLoop(s) /\ ~Terminal(s)
  /\ \E w \in BestFit(s) : Reserve(w, s) /\ Decide(s, Row("CREATING", w))
  /\ UNCHANGED <<wdb, acked, snap>>

\* _start_provisioning inserts the worker row before it returns.
PlaceScaleUp(s) ==
  /\ AtLoop(s) /\ ~Terminal(s) /\ Fitting(s) = {} /\ DecideScaleUp
  /\ \E w \in Workers : /\ wdb[w] = "NONE"
                        /\ wdb' = [wdb EXCEPT ![w] = "PROVISIONING"]
  /\ Decide(s, Row("PROVISIONING_WORKER", NoWorker))
  /\ UNCHANGED ledger

PlaceWait(s) ==
  LET st == IF Booting # {} THEN "PROVISIONING_WORKER" ELSE "WAITING_FOR_CAPACITY"
  IN /\ AtLoop(s) /\ ~Terminal(s) /\ Fitting(s) = {} /\ ~DecideScaleUp
     /\ mem[s].state # st
     /\ Decide(s, Row(st, NoWorker))
     /\ UNCHANGED <<wdb, ledger>>

\* The upsert that ends the locked block; a placed sandbox is then sent to its worker.
PlaceCommit(s) ==
  LET w == host[s]
      placed == mem[s].state = "CREATING"
  IN /\ Up /\ pc[s] = "commit"
     /\ db' = [db EXCEPT ![s] = mem[s]]
     /\ lock' = NoTask
     /\ Goto(s, IF placed THEN "calling" ELSE "loop")
     /\ rpc' = IF placed /\ alive[w] THEN [rpc EXCEPT ![w][s] = "sent"] ELSE rpc
     /\ UNCHANGED <<wdb, ledger, mem, host, excl, taskVars, inv, alive, cp, budget>>

\* view.state = "RUNNING"
\* Mutant: any answer of the worker is good enough.
MutUsable(w, s) == rpc[w][s] \in {"done"} \cup NotRunning
Usable(w, s) == rpc[w][s] = "done"

\* The worker answered; read the row again before believing the answer.
PlaceRecheck(s) ==
  LET w == host[s]
  IN /\ Up /\ pc[s] = "calling" /\ rpc[w][s] \in {"done"} \cup NotRunning
     /\ \/ /\ db[s].state # "CREATING"
           /\ Release(w, s)
           /\ Goto(s, "discard")
           /\ mem' = [mem EXCEPT ![s] = db[s]]
        \/ /\ db[s].state = "CREATING" /\ ~Usable(w, s)
           /\ Release(w, s)
           /\ Goto(s, "badview")
           /\ UNCHANGED mem
        \/ /\ db[s].state = "CREATING" /\ Usable(w, s)
           /\ Confirm(w, s)
           /\ Goto(s, "running")
           /\ mem' = [mem EXCEPT ![s].state = "RUNNING"]
     /\ UNCHANGED <<dbVars, snap, lock, host, excl, taskVars, hostVars, cp, budget>>

PlaceRunning(s) ==
  /\ Up /\ pc[s] = "running"
  /\ db' = [db EXCEPT ![s] = mem[s]]
  /\ Goto(s, "touch")
  /\ UNCHANGED <<wdb, ledger, lock, mem, host, excl, taskVars, hostVars, cp, budget>>

\* worker.idle_since = None; upsert(worker): the copy the scheduler chose, when
\* it was HEALTHY, replaces whatever the row holds now.
PlaceTouch(s) ==
  /\ Up /\ pc[s] = "touch"
  /\ wdb' = [wdb EXCEPT ![host[s]] = "HEALTHY"]
  /\ End(s)
  /\ UNCHANGED <<db, ledger, lock, taskVars, hostVars, cp, budget>>

\* A call to a worker fails when its VM is gone, or by a fault of the network.
CallFails(w) == \/ ~alive[w] /\ UNCHANGED budget
                \/ alive[w] /\ Spend("faults")
\* delete_sandbox on the worker: idempotent, ends what is live.
Deleted(w, s) == inv' = [inv EXCEPT ![w][s] = IF @ \in Live THEN "STOPPED" ELSE @]
\* A best-effort delete, its errors suppressed.
TryDelete(w, s) == \/ alive[w] /\ Deleted(w, s) /\ UNCHANGED budget
                   \/ CallFails(w) /\ UNCHANGED inv

\* The row changed during the create: the container must not survive it.
PlaceDiscard(s) ==
  /\ Up /\ pc[s] = "discard"
  /\ TryDelete(host[s], s)
  /\ IF mem[s].state \in TerminalSandbox
     THEN End(s)
     ELSE /\ Goto(s, "finish")
          /\ mem' = [mem EXCEPT ![s].state = "STOPPED"]
          /\ UNCHANGED <<host, excl>>
  /\ UNCHANGED <<dbVars, ledger, lock, taskVars, rpc, alive, cp>>

PlaceBadView(s) ==
  /\ Up /\ pc[s] = "badview"
  /\ TryDelete(host[s], s)
  /\ Goto(s, "finish")
  /\ mem' = [mem EXCEPT ![s].state = "FAILED"]
  /\ UNCHANGED <<dbVars, ledger, lock, host, excl, taskVars, rpc, alive, cp>>

\* CapacityChangedError: give the reservation back, never try this worker again.
PlaceChanged(s) ==
  /\ Up /\ pc[s] = "calling" /\ rpc[host[s]][s] = "changed"
  /\ Release(host[s], s)
  /\ excl' = [excl EXCEPT ![s] = @ \cup {host[s]}]
  /\ Goto(s, "refresh")
  /\ UNCHANGED <<dbVars, snap, lock, mem, host, taskVars, hostVars, cp, budget>>

\* Mutants: the record keeps the worker it was sent to; the record stays CREATING.
MutRequeueWorker(s) ==
  /\ mem' = [mem EXCEPT ![s].state = "WAITING_FOR_CAPACITY"]
  /\ host' = [host EXCEPT ![s] = NoWorker]
  /\ Goto(s, "requeue")
MutRequeueState(s) ==
  /\ mem' = [mem EXCEPT ![s].worker = NoWorker]
  /\ host' = [host EXCEPT ![s] = NoWorker]
  /\ Goto(s, "requeue")
Requeue(s) ==
  /\ mem' = [mem EXCEPT ![s] = Row("WAITING_FOR_CAPACITY", NoWorker)]
  /\ host' = [host EXCEPT ![s] = NoWorker]
  /\ Goto(s, "requeue")

\* ... refresh the ledger from the worker's health if it answers: a call without a
\* timeout (see Prompt).
PlaceRefresh(s) ==
  LET w == host[s]
  IN /\ Up /\ pc[s] = "refresh"
     /\ \/ alive[w] /\ Update(w, Admitted(w)) /\ UNCHANGED budget
        \/ CallFails(w) /\ UNCHANGED <<snap, acked>>
     /\ Requeue(s)
     /\ UNCHANGED <<dbVars, pending, lock, excl, taskVars, hostVars, cp>>

\* WorkerUnavailableError: the request may never have arrived, may still be
\* running, or its answer was lost.
PlaceUnavailable(s) ==
  LET w == host[s]
  IN /\ Up /\ pc[s] = "calling"
     /\ CallFails(w)
     /\ \/ UNCHANGED rpc
        \/ rpc[w][s] = "sent" /\ rpc' = [rpc EXCEPT ![w][s] = "none"]
     /\ Release(w, s)
     /\ excl' = [excl EXCEPT ![s] = @ \cup {w}]
     /\ Goto(s, "unavailable")
     /\ UNCHANGED <<dbVars, snap, lock, mem, host, taskVars, inv, alive, cp>>

PlaceReadWorker(s) ==
  /\ Up /\ pc[s] = "unavailable"
  /\ IF wdb[host[s]] = "HEALTHY"
     THEN Goto(s, "mark") /\ UNCHANGED <<mem, host>>
     ELSE Requeue(s)
  /\ UNCHANGED <<dbVars, ledger, lock, excl, taskVars, hostVars, cp, budget>>

PlaceMark(s) ==
  /\ Up /\ pc[s] = "mark"
  /\ wdb' = [wdb EXCEPT ![host[s]] = "UNHEALTHY"]
  /\ Requeue(s)
  /\ UNCHANGED <<db, ledger, lock, excl, taskVars, hostVars, cp, budget>>

PlaceRequeue(s) ==
  /\ Up /\ pc[s] = "requeue"
  /\ db' = [db EXCEPT ![s] = mem[s]]
  /\ Goto(s, "loop")
  /\ UNCHANGED <<wdb, ledger, lock, mem, host, excl, taskVars, hostVars, cp, budget>>

\* Any other error of the worker: the create fails.
PlaceError(s) ==
  /\ Up /\ pc[s] = "calling" /\ rpc[host[s]][s] = "error"
  /\ Release(host[s], s)
  /\ mem' = [mem EXCEPT ![s].state = "FAILED"]
  /\ Goto(s, "finish")
  /\ UNCHANGED <<dbVars, snap, lock, host, excl, taskVars, hostVars, cp, budget>>

\* CreateTimeoutError, raised only at the top of the loop, where no worker is held.
PlaceTimeout(s) ==
  /\ Up /\ pc[s] = "loop"
  /\ Goto(s, "failing")
  /\ UNCHANGED <<dbVars, ledger, lock, mem, host, excl, taskVars, hostVars, cp, budget>>

\* CancelledError at any await while the control plane shuts down.  A task is
\* cancelled once; in the handler of a timeout it leaves the row as it is.
PlaceCancel(s) ==
  LET w == mem[s].worker
  IN /\ cp = "stopping" /\ pc[s] \notin {"idle", "cancelled", "cancelsave", "done"}
     /\ lock' = IF lock = s THEN NoTask ELSE lock
     /\ IF pc[s] \in {"failing", "failed"}
        THEN End(s) /\ UNCHANGED <<pending, acked>>
        ELSE /\ IF w # NoWorker THEN Release(w, s) ELSE UNCHANGED <<pending, acked>>
             /\ Goto(s, "cancelled")
             /\ UNCHANGED <<mem, host, excl>>
     /\ UNCHANGED <<dbVars, snap, taskVars, hostVars, cp, budget>>

\* Mutant: a create that timed out or was cancelled leaves the row as it is.
MutPlaceFail(s) ==
  /\ Up /\ pc[s] \in {"failing", "cancelled"} /\ End(s)
  /\ UNCHANGED <<dbVars, ledger, lock, taskVars, hostVars, cp, budget>>
\* _fail_unless_terminal
PlaceFail(s) ==
  /\ Up /\ pc[s] \in {"failing", "cancelled"}
  /\ IF Terminal(s)
     THEN End(s)
     ELSE /\ Goto(s, IF pc[s] = "failing" THEN "failed" ELSE "cancelsave")
          /\ mem' = [mem EXCEPT ![s] = [db[s] EXCEPT !.state = "FAILED"]]
          /\ UNCHANGED <<host, excl>>
  /\ UNCHANGED <<dbVars, ledger, lock, taskVars, hostVars, cp, budget>>

PlaceFinish(s) ==
  /\ Up /\ pc[s] \in {"finish", "failed", "cancelsave"}
  /\ db' = [db EXCEPT ![s] = mem[s]]
  /\ End(s)
  /\ UNCHANGED <<wdb, ledger, lock, taskVars, hostVars, cp, budget>>

Placing(s) ==
  \/ PlaceGiveUp(s) \/ PlaceReserve(s) \/ PlaceScaleUp(s) \/ PlaceWait(s) \/ PlaceCommit(s)
  \/ PlaceRecheck(s) \/ PlaceRunning(s) \/ PlaceTouch(s) \/ PlaceDiscard(s) \/ PlaceBadView(s)
  \/ PlaceChanged(s) \/ PlaceRefresh(s) \/ PlaceUnavailable(s) \/ PlaceReadWorker(s)
  \/ PlaceMark(s) \/ PlaceRequeue(s) \/ PlaceError(s) \/ PlaceTimeout(s) \/ PlaceCancel(s)
  \/ PlaceFail(s) \/ PlaceFinish(s)

-----------------------------------------------------------------------------
(* _stop_sandbox: kill_sandbox, and _reconcile_expirations with EXPIRED *)

Stopping(k, label) == Up /\ stop[k].pc = label

\* Read the row.  Terminal: nothing to do.  Not placed (or already STOPPING):
\* straight to STOPPED.  Otherwise STOPPING first.
StopBegin(k, s, final) ==
  /\ cp = "up" /\ stop[k].pc = "idle" /\ Active(s)
  /\ final = "EXPIRED" => db[s].state = "RUNNING"
  /\ stop' = [stop EXCEPT ![k] =
       IF db[s].state \in {"RUNNING", "CREATING"}
       THEN [pc |-> "mark", sb |-> s, rec |-> [db[s] EXCEPT !.state = "STOPPING"],
             final |-> final, seen |-> "NONE"]
       ELSE [pc |-> "finish", sb |-> s, rec |-> [db[s] EXCEPT !.state = "STOPPED"],
             final |-> "STOPPED", seen |-> "NONE"]]
  /\ UNCHANGED <<dbVars, ledger, placeVars, rc, tm, hostVars, cp, budget>>

StopMark(k) ==
  /\ Stopping(k, "mark")
  /\ db' = [db EXCEPT ![stop[k].sb] = stop[k].rec]
  /\ stop' = [stop EXCEPT ![k].pc = "worker"]
  /\ UNCHANGED <<wdb, ledger, placeVars, rc, tm, hostVars, cp, budget>>

StopEnds(k, st) == stop' = [stop EXCEPT ![k].pc = "finish", ![k].rec.state = st,
                                        ![k].final = "STOPPED", ![k].seen = "NONE"]

\* db.workers.get: a copy that a later upsert writes back.
StopReadWorker(k) ==
  LET w == stop[k].rec.worker
  IN /\ Stopping(k, "worker")
     /\ IF w = NoWorker \/ wdb[w] \in TerminalWorker
        THEN StopEnds(k, stop[k].final)
        ELSE stop' = [stop EXCEPT ![k].pc = "delete", ![k].seen = wdb[w]]
     /\ UNCHANGED <<dbVars, ledger, placeVars, rc, tm, hostVars, cp, budget>>

\* The worker deleted it, or did not know it.
StopDelete(k) ==
  LET s == stop[k].sb
      w == stop[k].rec.worker
  IN /\ Stopping(k, "delete") /\ alive[w]
     /\ Deleted(w, s)
     /\ Release(w, s)
     /\ stop' = [stop EXCEPT ![k].pc = "count"]
     /\ UNCHANGED <<dbVars, snap, placeVars, rc, tm, rpc, alive, cp, budget>>

\* WorkerUnavailableError; the delete may have been carried out all the same.
StopUnreachable(k) ==
  LET s == stop[k].sb
      w == stop[k].rec.worker
  IN /\ Stopping(k, "delete")
     /\ CallFails(w)
     /\ UNCHANGED inv \/ (alive[w] /\ Deleted(w, s))
     /\ Release(w, s)
     /\ StopEnds(k, "LOST")
     /\ UNCHANGED <<dbVars, snap, placeVars, rc, tm, rpc, alive, cp>>

\* Any other error escapes the call and leaves the row STOPPING.
StopRaises(k) ==
  /\ Stopping(k, "delete") /\ alive[stop[k].rec.worker] /\ Spend("faults")
  /\ stop' = [stop EXCEPT ![k] = IdleStop]
  /\ UNCHANGED <<dbVars, ledger, placeVars, rc, tm, hostVars, cp>>

StopCount(k) ==
  /\ Stopping(k, "count")
  /\ IF Cardinality(ActiveOn(stop[k].rec.worker)) <= 1
     THEN stop' = [stop EXCEPT ![k].pc = "touch"]
     ELSE StopEnds(k, stop[k].final)
  /\ UNCHANGED <<dbVars, ledger, placeVars, rc, tm, hostVars, cp, budget>>

\* worker.idle_since = now; upsert(worker) with the copy read before the delete.
StopTouch(k) ==
  /\ Stopping(k, "touch")
  /\ wdb' = [wdb EXCEPT ![stop[k].rec.worker] = stop[k].seen]
  /\ StopEnds(k, stop[k].final)
  /\ UNCHANGED <<db, ledger, placeVars, rc, tm, hostVars, cp, budget>>

StopFinish(k) ==
  /\ Stopping(k, "finish")
  /\ db' = [db EXCEPT ![stop[k].sb] = stop[k].rec]
  /\ stop' = [stop EXCEPT ![k] = IdleStop]
  /\ UNCHANGED <<wdb, ledger, placeVars, rc, tm, hostVars, cp, budget>>

StopStep(k) ==
  \/ StopMark(k) \/ StopReadWorker(k) \/ StopDelete(k) \/ StopUnreachable(k)
  \/ StopRaises(k) \/ StopCount(k) \/ StopTouch(k) \/ StopFinish(k)

-----------------------------------------------------------------------------
(* Termination of a worker: _terminate_worker and _mark_worker_lost *)

\* remove_worker --force, pool_down, cleanup and scale-down; cancelled
\* provisioning is ProvisionFails.
TmBegin(w) ==
  /\ cp = "up" /\ tm[w].pc = "idle" /\ wdb[w] \in CountedWorker \ {"PROVISIONING"}
  /\ Spend("removals")
  /\ wdb' = [wdb EXCEPT ![w] = "TERMINATING"]
  /\ tm' = [tm EXCEPT ![w] = [IdleTm EXCEPT !.pc = "forget"]]
  /\ UNCHANGED <<db, ledger, placeVars, stop, rc, hostVars, cp>>

TmForget(w) ==
  /\ Up /\ tm[w].pc = "forget"
  /\ Forget(w)
  /\ tm' = [tm EXCEPT ![w].pc = "list"]
  /\ UNCHANGED <<dbVars, placeVars, stop, rc, hostVars, cp, budget>>

TmList(w) ==
  /\ Up /\ tm[w].pc = "list"
  /\ tm' = [tm EXCEPT ![w].pc = "losing", ![w].left = ActiveOn(w)]
  /\ UNCHANGED <<dbVars, ledger, placeVars, stop, rc, hostVars, cp, budget>>

TmLose(w) ==
  /\ Up /\ tm[w].pc = "losing"
  /\ \E s \in tm[w].left :
       /\ db' = [db EXCEPT ![s] = Row("LOST", w)]
       /\ tm' = [tm EXCEPT ![w].left = @ \ {s}]
  /\ UNCHANGED <<wdb, ledger, placeVars, stop, rc, hostVars, cp, budget>>

TmTerminateVM(w) ==
  /\ Up /\ tm[w].pc = "losing" /\ tm[w].left = {}
  /\ tm' = [tm EXCEPT ![w].pc = "gone"]
  /\ IF tm[w].lost THEN UNCHANGED <<inv, alive>>
     ELSE /\ alive' = [alive EXCEPT ![w] = FALSE]
          /\ inv' = [inv EXCEPT ![w] = [s \in Sandboxes |-> "ABSENT"]]
  /\ UNCHANGED <<dbVars, ledger, placeVars, stop, rc, rpc, cp, budget>>

\* The provider failed: the row stays TERMINATING and reconcile retries.
TmProviderFails(w) ==
  /\ Up /\ tm[w].pc = "losing" /\ tm[w].left = {} /\ ~tm[w].lost
  /\ Spend("faults")
  /\ wdb' = [wdb EXCEPT ![w] = "TERMINATING"]
  /\ tm' = [tm EXCEPT ![w] = IdleTm]
  /\ UNCHANGED <<db, ledger, placeVars, stop, rc, hostVars, cp>>

TmGone(w) ==
  /\ Up /\ tm[w].pc = "gone"
  /\ wdb' = [wdb EXCEPT ![w] = IF tm[w].lost THEN "LOST" ELSE "TERMINATED"]
  /\ tm' = [tm EXCEPT ![w] = IdleTm]
  /\ UNCHANGED <<db, ledger, placeVars, stop, rc, hostVars, cp, budget>>

TmStep(w) == TmForget(w) \/ TmList(w) \/ TmLose(w) \/ TmTerminateVM(w)
             \/ TmProviderFails(w) \/ TmGone(w)

\* _provision and _connect_worker, reduced to their outcome.
ProvisionDone(w) ==
  /\ Up /\ wdb[w] = "PROVISIONING"
  /\ wdb' = [wdb EXCEPT ![w] = "HEALTHY"]
  /\ alive' = [alive EXCEPT ![w] = TRUE]
  /\ Update(w, 0)
  /\ UNCHANGED <<db, pending, placeVars, taskVars, inv, rpc, cp, budget>>

ProvisionFails(w) ==
  /\ Up /\ wdb[w] = "PROVISIONING"
  /\ Spend("faults")
  /\ wdb' = [wdb EXCEPT ![w] = "TERMINATED"]
  /\ UNCHANGED <<db, ledger, placeVars, taskVars, hostVars, cp>>

-----------------------------------------------------------------------------
(* One pass of reconcile: _check_worker and _reconcile_inventory.          *)
(* The pass works on the worker rows it listed at its start.               *)

RcAt(label) == Up /\ rc.pc = label

RcBegin ==
  /\ cp = "up" /\ rc.pc = "idle"
  /\ IF budget.passes = NoBound THEN UNCHANGED budget ELSE Spend("passes")
  /\ rc' = [IdleRc EXCEPT !.pc = "next",
       !.seen = [w \in Workers |-> IF wdb[w] \in CountedWorker THEN wdb[w] ELSE "NONE"],
       !.todo = {w \in Workers : wdb[w] \in CountedWorker}]
  /\ UNCHANGED <<dbVars, ledger, placeVars, stop, tm, hostVars, cp>>

RcNextWorker == rc' = [IdleRc EXCEPT !.pc = "next", !.seen = [rc.seen EXCEPT ![rc.w] = "NONE"],
                                     !.todo = rc.todo \ {rc.w}]

\* A provisioning task owns its worker; a TERMINATING one is retried.
RcSkip(w) ==
  /\ RcAt("next") /\ w \in rc.todo
  /\ \/ rc.seen[w] = "PROVISIONING" /\ UNCHANGED tm
     \/ /\ rc.seen[w] = "TERMINATING"
        /\ tm' = IF tm[w].pc = "idle" THEN [tm EXCEPT ![w] = [IdleTm EXCEPT !.pc = "forget"]] ELSE tm
  /\ rc' = [rc EXCEPT !.todo = @ \ {w}, !.seen[w] = "NONE"]
  /\ UNCHANGED <<dbVars, ledger, placeVars, stop, hostVars, cp, budget>>

\* The health answer is a snapshot of the worker at the time it was given.
RcHealth(w) ==
  /\ RcAt("next") /\ w \in rc.todo /\ rc.seen[w] \notin {"PROVISIONING", "TERMINATING"}
  /\ \/ /\ alive[w] /\ UNCHANGED budget
        /\ rc' = [rc EXCEPT !.pc = "apply", !.w = w, !.used = Admitted(w)]
     \/ /\ CallFails(w)
        /\ rc' = [rc EXCEPT !.pc = "failed", !.w = w]
  /\ UNCHANGED <<dbVars, ledger, placeVars, stop, tm, hostVars, cp>>

\* Unreachable: UNHEALTHY, and LOST once it has failed often enough and the
\* provider says the VM is gone.
RcFailed ==
  LET w == rc.w
      seen == IF rc.seen[w] = "HEALTHY" THEN "UNHEALTHY" ELSE rc.seen[w]
  IN /\ RcAt("failed")
     /\ wdb' = [wdb EXCEPT ![w] = seen]
     /\ tm' \in {tm} \cup (IF ~alive[w] /\ tm[w].pc = "idle"
                           THEN {[tm EXCEPT ![w] = [IdleTm EXCEPT !.pc = "forget", !.lost = TRUE]]}
                           ELSE {})
     /\ RcNextWorker
     /\ UNCHANGED <<db, ledger, placeVars, stop, hostVars, cp, budget>>

RcApply ==
  /\ RcAt("apply")
  /\ Update(rc.w, rc.used)
  /\ wdb' = [wdb EXCEPT ![rc.w] = "HEALTHY"]
  /\ rc' = [rc EXCEPT !.pc = "list", !.used = 0]
  /\ UNCHANGED <<db, pending, placeVars, stop, tm, hostVars, cp, budget>>

RcList ==
  /\ RcAt("list")
  /\ \/ /\ alive[rc.w] /\ UNCHANGED budget
        /\ rc' = [rc EXCEPT !.pc = "ours", !.remote = inv[rc.w]]
     \/ CallFails(rc.w) /\ RcNextWorker
  /\ UNCHANGED <<dbVars, ledger, placeVars, stop, tm, hostVars, cp>>

\* Our rows are listed after the worker's answer.
RcOurs ==
  /\ RcAt("ours")
  /\ rc' = [rc EXCEPT !.pc = "sync", !.ours = ActiveOn(rc.w),
              !.left = {s \in ActiveOn(rc.w) : db[s].state = "RUNNING" /\ rc.remote[s] \notin Live}]
  /\ UNCHANGED <<dbVars, ledger, placeVars, stop, tm, hostVars, cp, budget>>

\* Mutant: the worker's word is copied into the row.
MutVerdicts(view) == {view}
\* STOPPED without an exit code counts as FAILED.
Verdicts(view) == CASE view = "STOPPED" -> {"STOPPED", "FAILED"}
                    [] view = "EXPIRED" -> {"EXPIRED"}
                    [] OTHER -> {"LOST"}

RcSync ==
  /\ RcAt("sync")
  /\ \E s \in rc.left :
       /\ \E st \in Verdicts(rc.remote[s]) : db' = [db EXCEPT ![s] = Row(st, rc.w)]
       /\ Release(rc.w, s)
       /\ rc' = [rc EXCEPT !.left = @ \ {s}]
  /\ UNCHANGED <<wdb, snap, placeVars, stop, tm, hostVars, cp, budget>>

RcSynced ==
  /\ RcAt("sync") /\ rc.left = {}
  /\ rc' = [rc EXCEPT !.pc = "orphans",
              !.left = {s \in Sandboxes \ rc.ours : rc.remote[s] \in Live}]
  /\ UNCHANGED <<dbVars, ledger, placeVars, stop, tm, hostVars, cp, budget>>

\* Mutant: only re-placed sandboxes are orphans.
MutIsOrphan(s, w) == db[s].worker # w
IsOrphan(s, w) == ~Active(s) \/ db[s].worker # w

\* A live sandbox we did not list: its row is read again before it is removed.
RcOrphan ==
  /\ RcAt("orphans")
  /\ \E s \in rc.left :
       rc' = IF IsOrphan(s, rc.w)
             THEN [rc EXCEPT !.pc = "delete", !.sb = s]
             ELSE [rc EXCEPT !.left = @ \ {s}]
  /\ UNCHANGED <<dbVars, ledger, placeVars, stop, tm, hostVars, cp, budget>>

RcDelete ==
  /\ RcAt("delete")
  /\ TryDelete(rc.w, rc.sb)
  /\ rc' = [rc EXCEPT !.pc = "orphans", !.sb = NoTask, !.left = @ \ {rc.sb}]
  /\ UNCHANGED <<dbVars, ledger, placeVars, stop, tm, rpc, alive, cp>>

\* Idle since now, if nothing runs there and it was not idle already.
RcIdle ==
  /\ RcAt("orphans") /\ rc.left = {}
  /\ \/ ActiveOn(rc.w) = {} /\ rc' = [rc EXCEPT !.pc = "touch"]
     \/ RcNextWorker
  /\ UNCHANGED <<dbVars, ledger, placeVars, stop, tm, hostVars, cp, budget>>

RcTouch ==
  /\ RcAt("touch")
  /\ wdb' = [wdb EXCEPT ![rc.w] = "HEALTHY"]
  /\ RcNextWorker
  /\ UNCHANGED <<db, ledger, placeVars, stop, tm, hostVars, cp, budget>>

RcEnd ==
  /\ RcAt("next") /\ rc.todo = {}
  /\ rc' = IdleRc
  /\ UNCHANGED <<dbVars, ledger, placeVars, stop, tm, hostVars, cp, budget>>

RcStep ==
  \/ \E w \in Workers : RcSkip(w) \/ RcHealth(w)
  \/ RcFailed \/ RcApply \/ RcList \/ RcOurs \/ RcSync \/ RcSynced
  \/ RcOrphan \/ RcDelete \/ RcIdle \/ RcTouch \/ RcEnd

-----------------------------------------------------------------------------
(* The worker daemons and their VMs *)

\* Admission: a cold start, a warm slot, or CapacityChangedError.
WorkerAdmit(w, s) ==
  /\ alive[w] /\ rpc[w][s] = "sent"
  /\ \/ /\ Admitted(w) < Slots
        /\ \/ /\ rpc' = [rpc EXCEPT ![w][s] = "working"]
              /\ inv' = [inv EXCEPT ![w][s] = "CREATING"]
           \/ /\ rpc' = [rpc EXCEPT ![w][s] = "saving"]
              /\ inv' = [inv EXCEPT ![w][s] = "RUNNING"]
        /\ UNCHANGED budget
     \/ /\ Admitted(w) = Slots \/ budget.faults > 0
        /\ IF Admitted(w) = Slots THEN UNCHANGED budget ELSE Spend("faults")  \* disk pressure
        /\ rpc' = [rpc EXCEPT ![w][s] = "changed"]
        /\ UNCHANGED inv
  /\ UNCHANGED <<dbVars, ledger, placeVars, taskVars, alive, cp>>

\* The container boots, fails to, or was deleted meanwhile: then it is discarded.
WorkerBoot(w, s) ==
  /\ alive[w] /\ rpc[w][s] = "working"
  /\ \/ /\ inv[w][s] = "CREATING"
        /\ inv' = [inv EXCEPT ![w][s] = "RUNNING"]
        /\ rpc' = [rpc EXCEPT ![w][s] = "saving"]
        /\ UNCHANGED budget
     \/ /\ inv[w][s] = "CREATING" /\ Spend("faults")
        /\ inv' = [inv EXCEPT ![w][s] = "ABSENT"]
        /\ rpc' = [rpc EXCEPT ![w][s] = "error"]
     \/ /\ inv[w][s] # "CREATING"
        /\ \/ rpc' = [rpc EXCEPT ![w][s] = "discarded"] /\ UNCHANGED inv
           \/ /\ rpc' = [rpc EXCEPT ![w][s] = "error"]
              /\ inv' = [inv EXCEPT ![w][s] = "ABSENT"]
        /\ UNCHANGED budget
  /\ UNCHANGED <<dbVars, ledger, placeVars, taskVars, alive, cp>>

WorkerAnswer(w, s) ==
  /\ alive[w] /\ rpc[w][s] = "saving"
  /\ rpc' = [rpc EXCEPT ![w][s] = IF inv[w][s] = "RUNNING" THEN "done" ELSE "ended"]
  /\ UNCHANGED <<dbVars, ledger, placeVars, taskVars, inv, alive, cp, budget>>

\* The reaper expires it, or the container exits or disappears.
WorkerEnds(w, s, how) ==
  /\ alive[w]
  /\ IF how = "EXPIRED" THEN inv[w][s] \in Live ELSE inv[w][s] = "RUNNING"
  /\ inv' = [inv EXCEPT ![w][s] = how]
  /\ UNCHANGED <<dbVars, ledger, placeVars, taskVars, rpc, alive, cp, budget>>

\* Preempted or removed behind our back.
WorkerDies(w) ==
  /\ alive[w] /\ Spend("deaths")
  /\ alive' = [alive EXCEPT ![w] = FALSE]
  /\ inv' = [inv EXCEPT ![w] = [s \in Sandboxes |-> "ABSENT"]]
  /\ UNCHANGED <<dbVars, ledger, placeVars, taskVars, rpc, cp>>

WorkerServes(w) == \E s \in Sandboxes : WorkerAdmit(w, s) \/ WorkerBoot(w, s) \/ WorkerAnswer(w, s)

-----------------------------------------------------------------------------
(* Stopping, crashing and restarting the control plane *)

\* Everything that lives in memory is gone.
Forgotten ==
  /\ cp' = "down"
  /\ lock' = NoTask
  /\ pc' = [s \in Sandboxes |-> IF pc[s] = "idle" THEN "idle" ELSE "done"]
  /\ mem' = [s \in Sandboxes |-> NoRow]
  /\ host' = [s \in Sandboxes |-> NoWorker]
  /\ excl' = [s \in Sandboxes |-> {}]
  /\ stop' = [k \in Stoppers |-> IdleStop]
  /\ rc' = IdleRc
  /\ tm' = [w \in Workers |-> IdleTm]
  /\ pending' = [w \in Workers |-> {}]
  /\ acked' = [w \in Workers |-> {}]
  /\ snap' = [w \in Workers |-> Slots]
  /\ UNCHANGED <<dbVars, hostVars>>

Crash == cp = "up" /\ Spend("crashes") /\ Forgotten

Shutdown ==
  /\ cp = "up" /\ Spend("crashes")
  /\ cp' = "stopping"
  /\ UNCHANGED <<dbVars, ledger, placeVars, taskVars, hostVars>>

\* stop() awaits the cancelled placements; the rest is cut off.
Exit ==
  /\ cp = "stopping" /\ \A s \in Sandboxes : pc[s] \in {"idle", "done"}
  /\ Forgotten /\ UNCHANGED budget

\* Creates whose task is gone and that no worker can know about.
\* Mutant: creates waiting for capacity are forgotten.
MutInterrupted == {"PENDING", "PROVISIONING_WORKER"}
Interrupted == Unplaced \ {"CREATING"}

\* _recover_after_restart for one row, when the workers in `reach` answer.
Recovered(s, reach) ==
  LET row == db[s]
      keep == row.worker \in reach /\ wdb[row.worker] \notin TerminalWorker
              /\ inv[row.worker][s] = "RUNNING"
  IN CASE row.state \in Interrupted -> [row EXCEPT !.state = "FAILED"]
       [] row.state = "CREATING" -> [row EXCEPT !.state = IF keep THEN "RUNNING" ELSE "FAILED"]
       [] OTHER -> row

\* Booting workers go on if the provider has them (ups), else they are terminated.
Restart ==
  /\ cp = "down"
  /\ \E ups \in SUBSET Booting :
       /\ wdb' = [w \in Workers |-> IF w \notin Booting THEN wdb[w]
                                    ELSE IF w \in ups THEN "CONNECTING" ELSE "TERMINATED"]
       /\ alive' = [w \in Workers |-> w \in ups \/ (w \notin Booting /\ alive[w])]
  /\ \/ UNCHANGED budget /\ db' = [s \in Sandboxes |-> Recovered(s, {w \in Workers : alive[w]})]
     \/ Spend("faults") /\ db' = [s \in Sandboxes |-> Recovered(s, {})]
  /\ cp' = "up"
  /\ UNCHANGED <<ledger, placeVars, taskVars, inv, rpc>>

-----------------------------------------------------------------------------

Init ==
  /\ db = [s \in Sandboxes |-> NoRow]
  /\ wdb = [w \in Workers |-> IF w \in Provisioned THEN "HEALTHY" ELSE "NONE"]
  /\ pending = [w \in Workers |-> {}]
  /\ acked = [w \in Workers |-> {}]
  /\ snap = [w \in Workers |-> IF w \in Provisioned THEN 0 ELSE Slots]
  /\ lock = NoTask
  /\ pc = [s \in Sandboxes |-> "idle"]
  /\ mem = [s \in Sandboxes |-> NoRow]
  /\ host = [s \in Sandboxes |-> NoWorker]
  /\ excl = [s \in Sandboxes |-> {}]
  /\ stop = [k \in Stoppers |-> IdleStop]
  /\ rc = IdleRc
  /\ tm = [w \in Workers |-> IdleTm]
  /\ inv = [w \in Workers |-> [s \in Sandboxes |-> "ABSENT"]]
  /\ rpc = [w \in Workers |-> [s \in Sandboxes |-> "none"]]
  /\ alive = [w \in Workers |-> w \in Provisioned]
  /\ cp = "up"
  /\ budget \in Loads

Next ==
  \/ \E s \in Sandboxes : Create(s) \/ Placing(s)
  \/ \E k \in Stoppers : \/ \E s \in Sandboxes, final \in {"STOPPED", "EXPIRED"} : StopBegin(k, s, final)
                         \/ StopStep(k)
  \/ \E w \in Workers : TmBegin(w) \/ TmStep(w) \/ ProvisionDone(w) \/ ProvisionFails(w)
  \/ RcBegin \/ RcStep
  \/ \E w \in Workers : WorkerServes(w) \/ WorkerDies(w)
  \/ \E w \in Workers, s \in Sandboxes, how \in Ends : WorkerEnds(w, s, how)
  \/ Crash \/ Shutdown \/ Exit \/ Restart

Spec == Init /\ [][Next]_vars

\* The health call of a refresh has timeout=None: it ends when it is answered, broken
\* off or cancelled, and a worker that stalls does none of these.
Prompt(s) == Placing(s) /\ (pc[s] = "refresh" => cp = "stopping" \/ ~alive[host[s]])

\* Fairness: the event loop runs every ready task, calls that have a timeout end, a
\* waiting create reaches its deadline, the reconcile loop never stops, a reachable
\* worker serves creates and the operator restarts the control plane.  Users, faults
\* and the refresh after a rejection owe nothing.
Fairness ==
  /\ \A s \in Sandboxes : WF_vars(Prompt(s)) /\ SF_vars(PlaceTimeout(s))
  /\ \A k \in Stoppers : WF_vars(StopStep(k))
  /\ \A w \in Workers : WF_vars(TmStep(w)) /\ WF_vars(WorkerServes(w))
                        /\ WF_vars(ProvisionDone(w) \/ ProvisionFails(w))
  /\ WF_vars(RcBegin \/ RcStep)
  /\ WF_vars(Exit \/ Restart)

FairSpec == Spec /\ Fairness

-----------------------------------------------------------------------------
(* Properties *)

TablesOK ==
  /\ db \in [Sandboxes -> Rows]
  /\ wdb \in [Workers -> WorkerStates \cup {"NONE"}]
LedgerOK ==
  /\ pending \in [Workers -> SUBSET Sandboxes]
  /\ acked \in [Workers -> SUBSET Sandboxes]
  /\ snap \in [Workers -> Nat]
PlaceOK ==
  /\ lock \in Sandboxes \cup {NoTask}
  /\ pc \in [Sandboxes -> PlacePCs]
  /\ mem \in [Sandboxes -> Rows]
  /\ host \in [Sandboxes -> Workers \cup {NoWorker}]
  /\ excl \in [Sandboxes -> SUBSET Workers]
StopTasks == [pc : StopPCs, sb : Sandboxes \cup {NoTask}, rec : Rows,
              final : {"STOPPED", "EXPIRED"}, seen : WorkerStates \cup {"NONE"}]
RcTasks == [pc : RcPCs, w : Workers \cup {NoWorker}, todo : SUBSET Workers,
            seen : [Workers -> WorkerStates \cup {"NONE"}], used : Nat,
            remote : [Sandboxes -> Views], ours : SUBSET Sandboxes,
            left : SUBSET Sandboxes, sb : Sandboxes \cup {NoTask}]
TmTasks == [pc : TmPCs, lost : BOOLEAN, left : SUBSET Sandboxes]
TasksOK ==
  /\ stop \in [Stoppers -> StopTasks]
  /\ rc \in RcTasks
  /\ tm \in [Workers -> TmTasks]
HostsOK ==
  /\ inv \in [Workers -> [Sandboxes -> Views]]
  /\ rpc \in [Workers -> [Sandboxes -> Calls]]
  /\ alive \in [Workers -> BOOLEAN]
ControlOK ==
  /\ cp \in {"up", "stopping", "down"}
  /\ budget \in Budgets

\* Every table, ledger, task and daemon is well formed; in particular a row's
\* state is one the lifecycle knows, whatever a worker answered, and no counter
\* leaves its range (schemas/common.py).
TypeOK == TablesOK /\ LedgerOK /\ PlaceOK /\ TasksOK /\ HostsOK /\ ControlOK

\* No ledger reservation outlives its create: whatever way a placement ends
\* (running, rejected, unreachable, failed, killed, timed out, cancelled), a
\* pending entry belongs to a placement that is talking to exactly that worker
\* (_place_and_start releases or confirms on every path, capacity.py pending).
ReservationOwned ==
  \A w \in Workers : \A s \in pending[w] : pc[s] \in {"commit", "calling"} /\ host[s] = w

\* Two creates never count the same free slot: what the ledger itself handed
\* out since the last snapshot never exceeds the worker (capacity.py: "two
\* concurrent creations never both count the same free capacity").
LedgerNeverOverbooks ==
  \A w \in Workers : Cardinality(pending[w] \cup acked[w]) <= Slots

\* A row that says a create is under way has a task driving it: no kill, lost
\* worker, restart or timeout leaves a create waiting for nobody.
UnplacedIsDriven ==
  \A s \in Sandboxes : cp = "up" /\ db[s].state \in Unplaced => pc[s] \notin {"idle", "done"}

\* A worker can always be given up: every active row that names it may become
\* LOST.  Were one of them still waiting for capacity, the transition would be
\* refused, StateError would leave _terminate_worker or _mark_worker_lost half
\* way, and the VM would never be terminated (assert_sandbox_transition).
LoseIsLegal ==
  \A s \in Sandboxes :
    Active(s) /\ db[s].worker # NoWorker => SandboxMayBecome(db[s].state, "LOST")

\* No transition a placement makes on its own record is refused, whatever the
\* order of rejections, re-placements, kills, cancellations and shutdowns
\* ("discard" reads the row again, a failure is applied to the row as it is now): a
\* StateError would end the task with the row as it is (_set_sandbox_state,
\* assert_sandbox_transition).
PlacementTransitionsLegal ==
  [][\A s \in Sandboxes :
       LET from == IF pc[s] \in {"failing", "cancelled"} THEN db[s] ELSE mem[s]
       IN mem[s] # NoRow /\ mem'[s] # NoRow /\ mem'[s] # mem[s] /\ pc'[s] # "discard"
            => SandboxMayBecome(from.state, mem'[s].state)]_<<mem, pc>>

\* A sandbox is RUNNING in the database only on a worker that started it:
\* re-placement, stale copies and restarts never attach it to another one.
RunningWasStarted ==
  \A s \in Sandboxes :
    db[s].state = "RUNNING" => /\ db[s].worker \in Workers
                               /\ rpc[db[s].worker][s] \in {"saving", "done", "ended"}

\* A sandbox is sent to a worker at most once in its life (the excluded set of
\* _place_and_start, one task per row, no task after a restart).
SentOnce ==
  \A s \in Sandboxes : pc[s] = "commit" /\ mem[s].state = "CREATING" => rpc[host[s]][s] = "none"

\* docs/pools.md: "A create waits up to `create_timeout` in total".  Every create comes to
\* an end, placed or in a terminal state, through failed calls, kills, crashes and
\* restarts, as long as no worker keeps it in the refresh that follows a rejection for
\* ever: without that condition it fails (_place_and_start looks at the deadline at the
\* top of its loop only, and the refresh has no timeout).
CreateSettles ==
  \A s \in Sandboxes : []<>(pc[s] # "refresh") =>
    db[s].state \in Unplaced ~> db[s].state \notin Unplaced \cup {"NONE"}

Orphan(s, w) == /\ inv[w][s] \in Live /\ wdb[w] \in {"HEALTHY", "UNHEALTHY", "CONNECTING"}
                /\ Terminal(s) \/ db[s].worker # w
\* A container whose row is over, or names another worker, is removed by the
\* reconciler, as long as its worker's row is still looked at.
OrphansRemoved ==
  \A s \in Sandboxes, w \in Workers : Orphan(s, w) ~> ~Orphan(s, w)

\* What is over stays over in the table: no task writes its older copy of the row over
\* the end a kill or a lost worker has written (tests/integration/test_api.py: "it must
\* not resurrect the record").
TerminalIsFinal ==
  [][\A s \in Sandboxes : Terminal(s) => db'[s].state = db[s].state]_db
=============================================================================
