---------------------------- MODULE WorkerFleet ----------------------------
(***************************************************************************)
(* The fleet of worker VMs as the control plane drives it: provisioning    *)
(* tasks, the reconcile pass, drain / remove / pool up / pool down,        *)
(* clean-up, and what a stop or a crash leaves for the next start          *)
(* (control/service.py, scheduler/scaler.py, providers/skypilot).          *)
(*                                                                         *)
(* Every actor works on its own copy of a worker's row, read before it     *)
(* awaits a VM or the cloud, and writes the WHOLE copy back: the copies    *)
(* are part of the state.  Sandboxes appear only as "w is busy".           *)
(***************************************************************************)
EXTENDS Lifecycle, Naturals, FiniteSets, SequencesExt

CONSTANTS Workers,     \* worker ids, one per VM ever provisioned
          MinWorkers, MaxWorkers,    \* pool.min_workers, pool.max_workers
          FailLimit,   \* reconcile.health_failures_before_lost
          Loads        \* budgets of trouble and of user requests

\* The columns of a workers row that a decision reads: state, draining,
\* terminate_when_empty, consecutive_failures (up to FailLimit).
None == [st |-> "none", dr |-> FALSE, twe |-> FALSE, fails |-> 0]

Loops == {"pass", "user"}
Actors == Loops \cup Workers   \* the task that provisions w is w

Troubles == {"faults", "deaths", "crashes", "drains", "removes", "sweeps", "grows", "places"}
ASSUME FleetAssumption ==
  /\ Workers \cap (Loops \cup {"none"}) = {} /\ IsFiniteSet(Workers)
  /\ {MinWorkers, MaxWorkers, FailLimit} \subseteq Nat
  /\ Loads \subseteq [Troubles -> Nat]

VARIABLES
  row,     \* the workers table
  vm,      \* the cloud: "none", "launching", "up" or "gone"
  vmdr,    \* VMs whose own worker service was told to drain
  running, \* workers whose worker.provision operation is RUNNING
  busy,    \* workers with an active sandbox or a reservation
  at,      \* per actor: the step it is about to take, one of
           \*   launch, connect, finish, fail, cancel     (_provision)
           \*   visit, status, replace, count, shrink     (reconcile)
           \*   all, grow                                 (user requests)
           \*   down (_terminate_worker), off, recover (stop and start), idle
  cp,      \* per actor: the copy of a row it works on
  wk,      \* "pass" and "user": the worker in hand and where to go after it
  list,    \* "pass" and "user": the copies their loop still has to visit
  need,    \* "pass" and "user": workers still to be provisioned
  budget

cloud == <<vm, vmdr>>
loop == <<wk, list, need>>
vars == <<row, cloud, running, busy, at, cp, loop, budget>>

Idle == [w |-> "none", then |-> "idle"]

Init ==
  /\ row = [w \in Workers |-> None]
  /\ vm = [w \in Workers |-> "none"]
  /\ vmdr = {} /\ running = {} /\ busy = {}
  /\ at = [a \in Actors |-> "idle"]
  /\ cp = [a \in Actors |-> None]
  /\ wk = [a \in Loops |-> Idle]
  /\ list = [a \in Loops |-> {}]
  /\ need = [a \in Loops |-> 0]
  /\ budget \in Loads

Spend(kind) ==
  /\ budget[kind] > 0
  /\ budget' = [budget EXCEPT ![kind] = @ - 1]

-----------------------------------------------------------------------------
(* Rows and tasks *)

\* _WORKER_TRANSITIONS
WorkerNext ==
  [st \in WorkerStates |->
     CASE st = "PROVISIONING" ->
            {"BOOTSTRAPPING", "CONNECTING", "TERMINATING", "LOST", "UNHEALTHY"}
       [] st = "BOOTSTRAPPING" ->
            {"CONNECTING", "TERMINATING", "LOST", "UNHEALTHY"}
       [] st = "CONNECTING" -> {"HEALTHY", "UNHEALTHY", "TERMINATING", "LOST"}
       [] st = "HEALTHY" ->
            {"DRAINING", "UNHEALTHY", "TERMINATING", "LOST", "CONNECTING"}
       [] st = "DRAINING" -> {"HEALTHY", "UNHEALTHY", "TERMINATING", "LOST"}
       [] st = "UNHEALTHY" ->
            {"HEALTHY", "DRAINING", "CONNECTING", "TERMINATING", "LOST"}
       [] st = "TERMINATING" -> {"TERMINATED", "LOST"}
       [] st = "LOST" -> {"TERMINATING", "TERMINATED"}
       [] OTHER -> {}]

\* assert_worker_transition
MayBecome(from, to) == from = to \/ to \in WorkerNext[from]

\* What the list query returns: the rows that are not terminal.
Listed == {w \in Workers : row[w].st \in CountedWorker}

\* self._provisioning: the workers whose provisioning task is alive.
Provisioning == {w \in Workers : at[w] # "idle"}

\* start() ends with _recover_after_restart; requests come after it.
Serving == at["pass"] # "off" /\ "recover" \notin {at["pass"], wk["pass"].then}

\* Ids a new worker can take: new ones, and those of workers that are over
\* and of which no VM, task, loop or copy is left (bounds the ids).
Fresh ==
  {w \in Workers :
     \/ row[w] = None
     \/ /\ row[w].st \in TerminalWorker /\ vm[w] \in {"none", "gone"}
        /\ at[w] = "idle" /\ w \notin running \cup busy
        /\ \A a \in Loops : wk[a].w # w /\ \A e \in list[a] : e[1] # w}

\* A bound: the last ids are kept for the reconcile pass.
KeptIds == 1

\* What the worker's answer to a health call makes of its row.
TargetState(w, rec) ==
  IF w \in vmdr \/ rec.dr THEN "DRAINING" ELSE "HEALTHY"

Put(w, rec) == row' = [row EXCEPT ![w] = rec]

Goto(a, step) == at' = [at EXCEPT ![a] = step]

\* _start_provisioning: the task is registered before the row is written.
\* The ids are handed out in order, as no decision tells them apart.
StartProvisioning ==
  LET w == CHOOSE x \in Fresh : TRUE
      rec == [None EXCEPT !.st = "PROVISIONING"]
  IN /\ Fresh # {}
     /\ Put(w, rec)
     /\ vm' = [vm EXCEPT ![w] = "none"]
     /\ running' = running \cup {w}
     /\ Goto(w, "launch")
     /\ cp' = [cp EXCEPT ![w] = rec]
     /\ UNCHANGED vmdr

-----------------------------------------------------------------------------
(* _terminate_worker, on the copy the caller holds: mark the row, lose its *)
(* sandboxes, take the VM down, settle.                                    *)

Marked(rec) == [rec EXCEPT !.st = "TERMINATING"]

\* Loop a starts to terminate w, and goes on with `then` afterwards.
Terminate(a, w, rec, then) ==
  IF rec.st \in TerminalWorker
  THEN Goto(a, then) /\ UNCHANGED <<row, busy, cp, wk>>
  ELSE /\ Put(w, Marked(rec))
       /\ busy' = busy \ {w}
       /\ cp' = [cp EXCEPT ![a] = Marked(rec)]
       /\ wk' = [wk EXCEPT ![a] = [w |-> w, then |-> then]]
       /\ Goto(a, "down")

\* The end of a termination by actor a: the row as given, on to the next.
Settle(a, rec) ==
  LET w == IF a \in Workers THEN a ELSE wk[a].w
      next == IF a \in Workers THEN "idle" ELSE wk[a].then
  IN /\ at[a] = "down"
     /\ Put(w, rec)
     /\ cp' = [cp EXCEPT ![a] = None]
     /\ Goto(a, next)
     /\ wk' = IF a \in Workers THEN wk ELSE [wk EXCEPT ![a] = Idle]
     /\ UNCHANGED <<running, busy, list, need>>

\* provider.terminate_worker answered, or the cluster does not exist.
DownOk(a) ==
  LET w == IF a \in Workers THEN a ELSE wk[a].w IN
  /\ Settle(a, [cp[a] EXCEPT !.st = "TERMINATED"])
  /\ vm' = [vm EXCEPT ![w] = IF @ = "none" THEN "none" ELSE "gone"]
  /\ vmdr' = vmdr \ {w}
  /\ UNCHANGED budget

\* It failed: the row stays TERMINATING, for reconcile to retry.
\* Mutants: pretend it is gone; put the old state back.
MutFailedDown(rec) == [rec EXCEPT !.st = "TERMINATED"]
MutRestored(rec) == [rec EXCEPT !.st = "HEALTHY"]
AfterFailedDown(rec) == rec

DownFails(a) ==
  /\ Spend("faults")
  /\ Settle(a, AfterFailedDown(cp[a]))
  /\ UNCHANGED cloud

-----------------------------------------------------------------------------
(* _provision *)

\* provider.provision_worker: `sky launch` starts in a thread of its own.
Launch(w) ==
  /\ at[w] = "launch" /\ vm[w] = "none"
  /\ vm' = [vm EXCEPT ![w] = "launching"]
  /\ UNCHANGED <<row, vmdr, running, busy, at, cp, loop, budget>>

\* The cloud brings the VM up, whoever still waits for it.
VmComesUp(w) ==
  /\ vm[w] = "launching"
  /\ vm' = [vm EXCEPT ![w] = "up"]
  /\ UNCHANGED <<row, vmdr, running, busy, at, cp, loop, budget>>

\* Bootstrapped: CONNECTING is written.
Provisioned(w) ==
  /\ at[w] = "launch" /\ vm[w] = "up"
  /\ cp' = [cp EXCEPT ![w].st = "CONNECTING"]
  /\ Put(w, cp'[w])
  /\ Goto(w, "connect")
  /\ UNCHANGED <<cloud, running, busy, loop, budget>>

\* _connect_worker: the answer decides the state, and the table refuses
\* DRAINING to a worker that is still CONNECTING.
Connected(w) ==
  LET to == TargetState(w, cp[w]) IN
  /\ at[w] = "connect" /\ vm[w] = "up"
  /\ IF MayBecome(cp[w].st, to)
     THEN /\ cp' = [cp EXCEPT ![w].st = to]
          /\ Put(w, cp'[w])
          /\ Goto(w, "finish")
     ELSE Goto(w, "fail") /\ UNCHANGED <<row, cp>>
  /\ UNCHANGED <<cloud, running, busy, loop, budget>>

\* The second write of the same record, and the operation succeeds.
Finish(w) ==
  /\ at[w] = "finish"
  /\ Put(w, cp[w])
  /\ running' = running \ {w}
  /\ Goto(w, "idle")
  /\ cp' = [cp EXCEPT ![w] = None]
  /\ UNCHANGED <<cloud, busy, loop, budget>>

\* A provider error, a failed bootstrap, a timeout, twelve refused
\* connections; without a VM there is nothing else that can happen.
ProvisionFails(w) ==
  /\ at[w] \in {"launch", "connect"}
  /\ IF vm[w] = "gone" THEN UNCHANGED budget ELSE Spend("faults")
  /\ Goto(w, "fail")
  /\ UNCHANGED <<row, cloud, running, busy, cp, loop>>

\* The except branches: the operation has failed or is cancelled, then the
\* task removes its own worker.
Abandon(w) ==
  /\ at[w] \in {"fail", "cancel"}
  /\ running' = running \ {w}
  /\ Put(w, Marked(cp[w]))
  /\ busy' = busy \ {w}
  /\ cp' = [cp EXCEPT ![w] = Marked(@)]
  /\ Goto(w, "down")
  /\ UNCHANGED <<cloud, loop, budget>>

\* task.cancel(): an except branch that is already running is cut short.
Cancelled(w) ==
  IF at[w] \in {"idle", "fail", "cancel", "down"} THEN "idle" ELSE "cancel"

-----------------------------------------------------------------------------
(* reconcile *)

Copies(ws) == {<<w, row[w]>> : w \in ws}

\* The pass reads all rows once, before it visits any of them.
PassBegins ==
  /\ at["pass"] = "idle"
  /\ list' = [list EXCEPT !["pass"] = Copies(Listed)]
  /\ Goto("pass", "visit")
  /\ UNCHANGED <<row, cloud, running, busy, cp, wk, need, budget>>

\* The loop's next worker, with its listed copy.
Take(a, e) ==
  /\ e \in list[a]
  /\ list' = [list EXCEPT ![a] = @ \ {e}]

\* A worker listed while provisioning that no task drives any more: the row
\* is read again, and terminated if it is still pending.
\* Mutant: trusts the listed copy.
MutVisitOrphan(w, rec) == Terminate("pass", w, rec, "visit")
VisitOrphan(w, rec) ==
  IF row[w].st \in PendingWorker
  THEN Terminate("pass", w, row[w], "visit")
  ELSE UNCHANGED <<row, busy, at, cp, wk>>

Visit ==
  /\ at["pass"] = "visit"
  /\ \E e \in list["pass"] :
       LET w == e[1]
           rec == e[2]
       IN /\ Take("pass", e)
          /\ \/ /\ w \in Provisioning
                /\ UNCHANGED <<row, busy, at, cp, wk>>
             \/ /\ w \notin Provisioning
                /\ rec.st \in {"PROVISIONING", "BOOTSTRAPPING"}
                /\ VisitOrphan(w, rec)
             \/ /\ w \notin Provisioning
                /\ rec.st = "TERMINATING"
                /\ Terminate("pass", w, rec, "visit")
  /\ UNCHANGED <<cloud, running, need, budget>>

\* _check_worker is called for the others.
Checks(e) ==
  /\ at["pass"] = "visit"
  /\ Take("pass", e)
  /\ e[1] \notin Provisioning
  /\ e[2].st \notin {"PROVISIONING", "BOOTSTRAPPING", "TERMINATING"}

\* The worker answered.  A transition the table refuses is an exception
\* that ends the whole pass.
HealthOk(e) ==
  LET to == TargetState(e[1], e[2]) IN
  /\ Checks(e) /\ vm[e[1]] = "up"
  /\ IF MayBecome(e[2].st, to)
     THEN /\ Put(e[1], [e[2] EXCEPT !.st = to, !.fails = 0])
          /\ UNCHANGED at
     ELSE Goto("pass", "idle") /\ UNCHANGED row
  /\ UNCHANGED <<cloud, running, busy, cp, wk, need, budget>>

\* It answered with another protocol version.
HealthWrongVersion(e) ==
  /\ Checks(e) /\ vm[e[1]] = "up"
  /\ Spend("faults")
  /\ Put(e[1], [e[2] EXCEPT !.st = "UNHEALTHY", !.fails = 0])
  /\ UNCHANGED <<cloud, running, busy, at, cp, wk, need>>

\* It did not answer: one more failure, and at the limit ask the provider.
Failures(n) == IF n < FailLimit THEN n + 1 ELSE FailLimit

HealthFails(e) ==
  LET rec == [e[2] EXCEPT !.fails = Failures(@),
                !.st = IF @ \in {"HEALTHY", "DRAINING"} THEN "UNHEALTHY" ELSE @]
  IN /\ Checks(e)
     /\ IF vm[e[1]] = "up" THEN Spend("faults") ELSE UNCHANGED budget
     /\ Put(e[1], rec)
     /\ IF rec.fails = FailLimit
        THEN /\ cp' = [cp EXCEPT !["pass"] = rec]
             /\ wk' = [wk EXCEPT !["pass"] = [w |-> e[1], then |-> "visit"]]
             /\ Goto("pass", "status")
        ELSE UNCHANGED <<at, cp, wk>>
     /\ UNCHANGED <<cloud, running, busy, need>>

\* provider.get_worker_status.  A cluster that is missing or stopped is
\* LOST (_mark_worker_lost), and taken down to be sure.
\* Mutant: a cluster that once existed is never missing.
MutMissing(w) == vm[w] = "none"
Missing(w) == vm[w] \in {"none", "gone"}

Status ==
  LET w == wk["pass"].w IN
  /\ at["pass"] = "status"
  /\ \/ /\ Missing(w)
        /\ Put(w, [cp["pass"] EXCEPT !.st = "LOST"])
        /\ busy' = busy \ {w}
        /\ UNCHANGED budget
     \/ ~ Missing(w) /\ UNCHANGED <<row, busy, budget>>
     \/ Spend("faults") /\ UNCHANGED <<row, busy>>
  /\ cp' = [cp EXCEPT !["pass"] = None]
  /\ wk' = [wk EXCEPT !["pass"] = Idle]
  /\ Goto("pass", "visit")
  /\ UNCHANGED <<cloud, running, list, need>>

\* replacements_needed over a list of rows.
\* Mutant: counts workers that are over, too.
MutReplacements ==
  LET n == Cardinality({w \in Workers : row[w] # None /\ ~ row[w].twe})
  IN IF n < MinWorkers THEN MinWorkers - n ELSE 0
Replacements ==
  LET active == {w \in Listed : row[w].st # "TERMINATING" /\ ~ row[w].twe}
      n == Cardinality(active)
  IN IF n < MinWorkers THEN MinWorkers - n ELSE 0

\* _reconcile_pool reads the rows again; scale-down has no use for the ones
\* that are being terminated.
PoolListed ==
  /\ at["pass"] = "visit" /\ list["pass"] = {}
  /\ list' = [list EXCEPT !["pass"] =
                Copies({w \in Listed : row[w].st # "TERMINATING"})]
  /\ need' = [need EXCEPT !["pass"] = Replacements]
  /\ Goto("pass", "replace")
  /\ UNCHANGED <<row, cloud, running, busy, cp, wk, budget>>

\* Loop a provisions one worker after the other.
StartOne(a, from, to) ==
  /\ at[a] = from
  /\ IF need[a] = 0
     THEN Goto(a, to) /\ UNCHANGED <<row, cloud, running, cp, need>>
     ELSE /\ a = "pass" \/ Cardinality(Fresh) > KeptIds
          /\ StartProvisioning
          /\ need' = [need EXCEPT ![a] = @ - 1]
  /\ UNCHANGED <<busy, wk, list, budget>>

Replace == StartOne("pass", "replace", "count")

\* workers_to_scale_down: `idle` are the workers whose idle time is over (not
\* one that became healthy a moment ago: its task is still alive); the
\* candidates are taken in order, honouring min_workers.
Candidates(copies, idle) ==
  {e \in copies : /\ e[2].st \in {"HEALTHY", "DRAINING", "UNHEALTHY"}
                  /\ e[1] \notin busy
                  /\ e[2].twe \/ e[1] \in idle}

ScaleDown(copies, order) ==
  LET healthy == {e \in copies :
                    e[2].st \in {"HEALTHY", "DRAINING"} \cup PendingWorker}
      Pick(acc, e) ==
        IF e[2].twe \/ Cardinality(healthy) - Cardinality(acc) - 1 >= MinWorkers
        THEN acc \cup {e} ELSE acc
  IN FoldLeft(Pick, {}, order)

Count ==
  /\ at["pass"] = "count"
  /\ \E idle \in SUBSET ({e[1] : e \in list["pass"]} \ Provisioning) :
       \E chosen \in SUBSET Candidates(list["pass"], idle) :
         /\ \E order \in SetToSeqs(Candidates(list["pass"], idle)) :
              chosen = ScaleDown(list["pass"], order)
         /\ list' = [list EXCEPT !["pass"] = chosen]
  /\ Goto("pass", "shrink")
  /\ UNCHANGED <<row, cloud, running, busy, cp, wk, need, budget>>

Shrink ==
  /\ at["pass"] = "shrink"
  /\ \/ /\ list["pass"] = {}
        /\ Goto("pass", "idle")
        /\ UNCHANGED <<row, busy, cp, wk, list>>
     \/ \E e \in list["pass"] :
          /\ Take("pass", e)
          /\ Terminate("pass", e[1], e[2], "shrink")
  /\ UNCHANGED <<cloud, running, need, budget>>

-----------------------------------------------------------------------------
(* User requests *)

\* drain_worker: the row first, then the worker itself if it can be reached.
Drain(w, twe) ==
  /\ Serving /\ row[w] # None
  /\ Spend("drains")
  /\ Put(w, [row[w] EXCEPT !.dr = TRUE, !.twe = twe,
               !.st = IF @ = "HEALTHY" THEN "DRAINING" ELSE @])
  /\ vmdr' = IF vm[w] = "up" THEN vmdr \cup {w} ELSE vmdr
  /\ UNCHANGED <<vm, running, busy, at, cp, loop>>

\* remove_worker: a busy worker only by force, which kills what it runs.
RemoveWorker(w) ==
  /\ Serving /\ at["user"] = "idle" /\ row[w] # None
  /\ Spend("removes")
  /\ Terminate("user", w, row[w], "idle")
  /\ UNCHANGED <<cloud, running, list, need>>

\* fail_stale_running: what is left of the running operations.
\* Mutant: nothing settles them.
MutStillRunning == running
StillRunning == {}

\* pool_down --force, and cleanup --workers, which also fails the operations
\* that still run.
Sweep(cleanup) ==
  /\ Serving /\ at["user"] = "idle"
  /\ Spend("sweeps")
  /\ running' = IF cleanup THEN StillRunning ELSE running
  /\ busy' = {}
  /\ list' = [list EXCEPT !["user"] = Copies(Listed)]
  /\ Goto("user", "all")
  /\ UNCHANGED <<row, cloud, cp, wk, need>>

\* Each listed worker: its task is cancelled, or it is terminated.
SweepOne ==
  /\ at["user"] = "all"
  /\ \/ /\ list["user"] = {}
        /\ Goto("user", "idle")
        /\ UNCHANGED <<row, busy, cp, wk, list>>
     \/ \E e \in list["user"] :
          /\ Take("user", e)
          /\ \/ /\ e[1] \in Provisioning
                /\ Goto(e[1], Cancelled(e[1]))
                /\ UNCHANGED <<row, busy, cp, wk>>
             \/ /\ e[1] \notin Provisioning
                /\ Terminate("user", e[1], e[2], "all")
  /\ UNCHANGED <<cloud, running, need, budget>>

\* pool_up --workers n: the rows are counted once.
PoolUp(target) ==
  LET n == Cardinality(Listed) IN
  /\ Serving /\ at["user"] = "idle"
  /\ Spend("grows")
  /\ need' = [need EXCEPT !["user"] = IF n < target THEN target - n ELSE 0]
  /\ Goto("user", "grow")
  /\ UNCHANGED <<row, cloud, running, busy, cp, wk, list>>

Grow == StartOne("user", "grow", "idle")

-----------------------------------------------------------------------------
(* The placement side, see Placement *)

\* A create found no room: decide_scale_up, under the pool lock.
ScaleUp ==
  /\ Serving
  /\ \A w \in Listed : row[w].st \notin PendingWorker
  /\ Cardinality(Listed) < MaxWorkers
  /\ Spend("grows")
  /\ Cardinality(Fresh) > KeptIds
  /\ StartProvisioning
  /\ UNCHANGED <<busy, loop>>

\* A sandbox is placed on a healthy worker, or the last one leaves it.
Assign(w) ==
  /\ Serving /\ row[w].st = "HEALTHY" /\ ~ row[w].dr
  /\ Spend("places")
  /\ busy' = busy \cup {w}
  /\ UNCHANGED <<row, cloud, running, at, cp, loop>>

Leave(w) ==
  /\ w \in busy
  /\ busy' = busy \ {w}
  /\ UNCHANGED <<row, cloud, running, at, cp, loop, budget>>

-----------------------------------------------------------------------------
(* The world, crashes and restarts *)

VmDies(w) ==
  /\ vm[w] = "up"
  /\ Spend("deaths")
  /\ vm' = [vm EXCEPT ![w] = "gone"]
  /\ vmdr' = vmdr \ {w}
  /\ UNCHANGED <<row, running, busy, at, cp, loop>>

\* The loops end with the process.
LoopsEnd ==
  /\ wk' = [a \in Loops |-> Idle]
  /\ list' = [a \in Loops |-> {}]
  /\ need' = [a \in Loops |-> 0]

\* The process dies, and every task and every copy with it.
Crash ==
  /\ at["pass"] # "off"
  /\ Spend("crashes")
  /\ at' = [a \in Actors |-> IF a = "pass" THEN "off" ELSE "idle"]
  /\ cp' = [a \in Actors |-> None]
  /\ LoopsEnd
  /\ UNCHANGED <<row, cloud, running, busy>>

\* stop(): the background loop is cancelled, then every provisioning task,
\* and stop waits for what the tasks still do about it.
Stop ==
  /\ Serving
  /\ Spend("crashes")
  /\ at' = [a \in Actors |-> CASE a = "pass" -> "off"
                                [] a = "user" -> "idle"
                                [] OTHER -> Cancelled(a)]
  /\ cp' = [a \in Actors |-> IF at'[a] = "cancel" THEN cp[a] ELSE None]
  /\ LoopsEnd
  /\ UNCHANGED <<row, cloud, running, busy>>

\* start(): operations that were running have failed; the workers that were
\* pending are looked at one by one (_recover_after_restart).
Start ==
  /\ at["pass"] = "off" /\ Provisioning = {}
  /\ running' = StillRunning
  /\ list' = [list EXCEPT !["pass"] =
                Copies({w \in Listed : row[w].st \in PendingWorker})]
  /\ Goto("pass", "recover")
  /\ UNCHANGED <<row, cloud, busy, cp, wk, need, budget>>

\* A VM that made it is kept, for the reconcile loop to connect to.
Recover ==
  /\ at["pass"] = "recover"
  /\ \/ /\ list["pass"] = {}
        /\ Goto("pass", "idle")
        /\ UNCHANGED <<row, busy, cp, wk, list, budget>>
     \/ \E e \in list["pass"] :
          /\ Take("pass", e)
          /\ \/ /\ vm[e[1]] = "up"
                /\ Put(e[1], [e[2] EXCEPT !.st = "CONNECTING"])
                /\ UNCHANGED <<busy, at, cp, wk, budget>>
             \/ /\ IF vm[e[1]] = "up" THEN Spend("faults") ELSE UNCHANGED budget
                /\ Terminate("pass", e[1], e[2], "recover")
  /\ UNCHANGED <<cloud, running, need>>

-----------------------------------------------------------------------------
TaskStep(w) ==
  \/ Launch(w) \/ Provisioned(w) \/ Connected(w) \/ Finish(w) \/ Abandon(w)
  \/ DownOk(w)
  \/ vm[w] = "gone" /\ ProvisionFails(w)

PassStep ==
  \/ PassBegins \/ Visit \/ PoolListed \/ Replace \/ Count \/ Shrink
  \/ \E e \in list["pass"] : HealthOk(e) \/ (vm[e[1]] # "up" /\ HealthFails(e))
  \/ Status \/ DownOk("pass") \/ Start \/ Recover

UserStep == SweepOne \/ Grow \/ DownOk("user")

Request ==
  \/ \E w \in Workers : RemoveWorker(w) \/ \E twe \in BOOLEAN : Drain(w, twe)
  \/ \E cleanup \in BOOLEAN : Sweep(cleanup)
  \/ \E n \in 1 .. MaxWorkers : PoolUp(n)

Trouble ==
  \/ \E w \in Workers : ProvisionFails(w) \/ VmDies(w)
  \/ \E a \in Actors : DownFails(a)
  \/ \E e \in list["pass"] : HealthFails(e) \/ HealthWrongVersion(e)
  \/ Crash \/ Stop

Next ==
  \/ PassStep \/ UserStep \/ Request \/ Trouble \/ ScaleUp
  \/ \E w \in Workers : TaskStep(w) \/ VmComesUp(w) \/ Assign(w) \/ Leave(w)

Spec == Init /\ [][Next]_vars

\* asyncio runs every ready task, the provider answers, and the background
\* loop starts pass after pass.
FairSpec ==
  /\ Spec
  /\ WF_vars(PassStep) /\ WF_vars(UserStep)
  /\ \A w \in Workers : WF_vars(TaskStep(w)) /\ WF_vars(VmComesUp(w))

-----------------------------------------------------------------------------
(* Properties *)

Owned(w) == w \in Provisioning
Over(w) == row[w].st \in TerminalWorker

\* No VM bills unseen: whatever failed, timed out, was cancelled or died half-way,
\* a VM that is up has a row reconcile will visit, or a task that will settle it
\* (_terminate_worker leaves TERMINATING what the provider could not remove).
VmTracked == \A w \in Workers : vm[w] = "up" => Owned(w) \/ row[w].st \in CountedWorker

\* A worker that serves is not taken for an orphan: when the pass terminates one
\* it had not listed as TERMINATING, no task drives it and it has not come up
\* since it was listed (reconcile reads the row again).
OrphansOnly ==
  [][\A e \in list["pass"] \ list'["pass"] :
       (at["pass"] = "visit" /\ at'["pass"] = "down" /\ e[2].st # "TERMINATING") =>
         ~ Owned(e[1]) /\ row[e[1]].st \notin {"HEALTHY", "DRAINING", "UNHEALTHY"}]_vars

\* What nobody drives does not stay: a worker left provisioning without a task is
\* removed or adopted, and one left TERMINATING by a failed removal is retried
\* until it is over.
OrphanEnds ==
  \A w \in Workers :
    /\ (row[w].st \in PendingWorker /\ ~ Owned(w)) ~> (row[w].st \notin PendingWorker)
    /\ row[w].st = "TERMINATING" ~> Over(w)

\* A worker whose VM is gone is noticed, also when the row was written back by a
\* pass that still held an old copy of it.
DeadIsNoticed ==
  \A w \in Workers : (vm[w] = "gone" /\ row[w].st \in CountedWorker) ~> Over(w)

Warm == {w \in Listed : row[w].st # "TERMINATING" /\ ~ row[w].twe}
\* min_workers is restored for good once nothing more goes wrong (reconciler
\* replaces lost workers, scale-down honours the minimum).
MinRestored == <>[](Cardinality(Warm) >= MinWorkers)

\* Every worker.provision operation ends, also across cancellations and restarts.
OperationEnds == \A w \in Workers : w \in running ~> w \notin running
=============================================================================
