# A TLA+ model of SandboxPilot

SandboxPilot rents virtual machines from clouds ("workers"), packs sandboxes
(gVisor containers) onto them and gives them back when they are idle. A control
plane, one asyncio process with an SQLite database, decides where a sandbox runs
and repairs what went wrong; a daemon on every worker owns its containers and is
the final authority on its capacity; an SDK starts the control plane when it is
needed and talks HTTP to it, and through it, over SSH tunnels, to the workers.

What is hard in it is concurrency: many coroutines, few of which hold a lock over
an await, each working on its own copy of a record and writing the whole record
back some awaits later, while workers time out, die, and finish calls nobody
waits for.

Source paths below are relative to `src/sandboxpilot/`. PROJECT.json maps every
definition to the lines it models and lists the hazards, each at its line, with
the properties that would catch it.

## Inventory

| Component | State | Operations | What is hard | Module |
|---|---|---|---|---|
| Lifecycles (`schemas/common.py`) | sandbox and worker states | transition tables, checked by the writer against its own copy | a legal transition of a stale copy is an illegal one of the row | `Lifecycle`, `WorkerFleet` |
| Placement, kill, expiry (`control/service.py` 738-1018) | sandbox rows, in-memory record, excluded workers, pool lock | create, decide, call the worker, re-check, requeue, time out, cancel; stop | kills and lost workers between any two awaits | `Placement` |
| Ledger, scheduler (`scheduler/`) | per worker: snapshot, pending, acknowledged | update, reserve, confirm, release, forget; best fit | a snapshot older than the reservations it replaces | `Placement` |
| Reconcile (1190-1373) | rows listed at the start of the pass | health, inventory, orphans, min workers, scale-down | works on rows that moved on | `Placement`, `WorkerFleet` |
| Fleet (389-666, 1375-1425), scaler, provider | worker rows, provisioning tasks, operations, VMs | provision, connect, drain, remove, pool up and down, cleanup | failed provider calls, cancelled tasks, restarts | `WorkerFleet` |
| Tunnels, clients (`control/tunnels.py`, `worker_client.py`) | ssh processes, ports, client cache | ensure, close, close all, requests | ports given twice, closes without the lock, stalled peers | `Links` |
| Worker service, capacity (`worker/service.py`, `capacity.py`) | records, reservations, warm slots, state file | create, delete, adopt, evict, reap, refresh, rebuild | delete during boot, swapped reservations, restart | `WorkerService`, `WorkerContract` |
| Runtime (`worker/runtime/docker_gvisor.py`) | containers, the id mapping | create, start, adopt, inspect, remove, exec, tar, docker cp | errors that read as absence, threads nobody waits for | `WorkerService`, `Commands`, `Transfers` |
| Commands (`worker/commands.py`) | runs, bounded output, event history | start, drive, finish, kill, time out, subscribe, trim | three parties set the final state | `Commands`, `CommandPromise` |
| Files, commands, pages over HTTP (`api/routes`, `worker/app.py`, `utils/tarstream.py`, `sdk/asyncio.py`) | two connections, spool file, queues | upload, download, run, stream, proxy | a cut after the answer has begun | `Transfers` |
| WebSockets (`utils/proxy.py`, `control/proxy_tokens.py`) | two relays in a row | forward, close | the end of one direction cancels the other | `Relay` |
| Daemon, database, idempotency (`control/daemon.py`, `state/`, `sdk/_http.py`) | pid file, port, schema, rows, keys | find or start a daemon, migrate, recover, create with a key, stop | two daemons, crashes between two writes | `Sessions` |
| CLI, configuration, firewall, bootstrap, fakes, benchmarks | | | | none |

## Modules

An action runs from the end of one await to the start of the next; what happens
in between without an await is one step, locks included when no await happens
under them. Trouble comes from a budget: a load record (`Loads`, chosen in `Init`)
or `Max...` constants say how often a call may fail, a VM die, a process crash. The
MC modules list the loads. A load names what may happen in one behaviour; several
loads in one run share nothing but the code.

**`Lifecycle`**: states, predicates, the sandbox transition table.

**`Placement`** (`MCPlacement`): sandboxes in the control plane. `db`, `wdb` are the
tables; `pending`, `acked`, `snap` the ledger; `pc`, `mem`, `host`, `excl` one placement
per sandbox with the record it holds; `lock` the pool lock. `Place...` are the
branches of `_place_and_start`, `Stop...` a call of `_stop_sandbox`, `Tm...` giving a
worker up, `Rc...` a reconcile pass with what it has listed. `inv`, `rpc`, `alive` are
the workers as the control plane can know them: a request may be lost before it
arrives, be served after the caller gave up, or lose its answer. `Crash`, `Shutdown`,
`Restart` are the process. Resources are unit slots, so the fullest worker with room
is the best fit; provisioning is its outcome (see `WorkerFleet`); terminations that
reconcile starts run beside the pass and expiry is a stop call at any time: both
allow more orders than the code. `_notify_capacity` only shortens a two-second
wait, so waiting may end at any time. The call at 865, in which a create asks the worker
that rejected it for its capacity, has no timeout: `PlaceRefresh` may happen, but need
not while the worker's machine is there (`Prompt`).

**`WorkerFleet`** (`MCWorkerFleet`): VMs as the control plane drives them. `row` is
the table, `vm` the cloud, `running` the operations; `at`, `cp`, `wk`, `list`, `need`
are the actors (one provisioning task per worker, the pass, one user request), each
with the copy of the row it will write back. Sandboxes appear as "w is busy". Assumed:
`sky down` cancels a launch in flight, and the idle TTL is longer than a database
write. Worker ids are reused once nothing refers to them, so passes may go on for
ever. Requests come after start's recovery, which start awaits.

**`Links`** (`MCLinks`): `ssh` the processes and their ports, `tunnels`, `lock`,
`ending` the tunnel manager, `clients` the client cache, `task` the calls under way. A
port is open when any ssh listens on it, whosever it is; a request that
comes out at another worker is refused by the token check there (`Executes`), which the
caller takes for silence. A reconcile check is a health call and, if that succeeds, the
inventory; any other request is a call with a timeout or one without, among these the
refresh of a create. `cleanup` closes what it saw dead and forgets the client afterwards,
in two steps. `Nth` bounds the ssh processes a worker has at one time; an id is used again
when its process has ended (`Unused`).

**`WorkerService`**: `rec` the records, `res` the reservations, `warm`, `job` the create
requests, `del` deletes and the reaper, `poll` a refresh, `setter` an expiry update,
`boot` the warm loop, `saver`/`payload`/`saved` the state file and its lock, `ctr` the
containers by label, `names` the runtime's mapping. One resource dimension, a big
sandbox takes two units. `promised` is what the caller was last told.

**`WorkerContract`** is what the control plane may take for granted about a worker, in
70 lines: what the worker says of each sandbox (`view`) and how far its create has
come (`call`). A sandbox is taken on once and only where there is room; the answer
says how it then is; what is over stays over; a failure leaves requests unanswered,
and what a restart finds was taken on before. `WorkerService!Contract` is the
refinement mapping, `KeepsContract` the property. `Placement` sees its workers the
same way from outside: `Admit`, `Reject`, `Boot`, `Answer` are its `WorkerAdmit`,
`WorkerBoot`, `WorkerAnswer`, `End` its `WorkerEnds` and `Deleted`, `Fail` its
`WorkerDies`; it has no `Return`, since a worker there does not restart, and lets a
failing boot answer in the same step. This correspondence is by reading; what is
checked and proved is the step from `WorkerService` to the contract.

**`Commands`**: one command: `proc` and `thread` in Docker, `queue` between thread and
loop, `out` the bounded output, `events` the history, `drive`, `pump`, `kill`, `sub` the
tasks. **`CommandPromise`** is what it promises, in 40 lines: numbered events of
which the last is the end, one outcome, a memory of the latest events, readers
that go forward and arrive. `Commands!Of` is the refinement mapping, `KeepsPromise`
the property that the command manager implements it, liveness of readers included.

**`Transfers`** (`MCTransfers`): one call from the SDK through control plane and worker
into the sandbox: `http` the two connections with what is in flight on them, `sdk`,
`control`, `worker` the three stages, and below them tar, the docker cp thread with
its bounded queue, mkdir, the spool file and the extraction. The worker runs `mkdir -p`
before it reads the body (`worker/service.py:772-776`) and unpacks only what it has
spooled to the end, so an upload that fails may leave the directory behind.

**`Relay`** (`MCRelay`): a browser, two relays and a program: frames on three
connections, the pumps of each relay with the frame a task holds between its two
awaits, who has closed what, and `quit`: the ends that have left, and "cut" once a
connection broke.

**`Sessions`** (`MCSessions`): callers that probe, read the pid file, spawn, wait,
send and repeat; daemons that write the pid file, open and migrate the database,
recover, bind, drain and exit; `sandboxpilot daemon stop`; requests with one
idempotency key. Placement is one write here; `NewIds` bounds the sandboxes ever made.
`pid_alive` asks `os.kill(pid, 0)`, which a process passes that has ended but that its parent,
the process of the SDK, has not waited for (`spawn_detached` never does), and any program
that was given the pid later. A daemon that ends may become such a "ghost", a stale pid
in the file too (`Reused`), and it may go away at any time (`Reaped`).
The signal handler is taken to be installed when the pid file is written, and the
deadline of `_settle_existing` may pass at any time.

## Runs

Twelve runs; a `pass` run explores all loads of its cfg.

| Run | Instance | What it shows |
|---|---|---|
| `place_trouble` | 2 sandboxes, 2 worker ids with 1 slot, a kill; seven loads: two creates and a failing call, or one create and two troubles out of failing call, death, crash or shutdown, removal, pass | a reservation ends with its create (`ReservationOwned`), no slot is promised twice (`LedgerNeverOverbooks`), no worker is sent a sandbox twice (`SentOnce`); `TypeOK`; a RUNNING row names a worker that started it (`RunningWasStarted`); a waiting row has a task (`UnplacedIsDriven`); a worker can be given up at any time (`LoseIsLegal`); no transition a placement asks for is refused (`PlacementTransitionsLegal`) |
| `place_live` | 1 sandbox, 1 worker to provision, a kill, a fault or the end of the process, endless passes | every create ends, unless a worker keeps it in the call after its rejection (`CreateSettles`), every orphan container is removed (`OrphansRemoved`) |
| `worker_admission` | 2 sandboxes, one of them big, 2 units, 1 warm slot, 1 delete, a fault or a drain; time stands still, so the reaper, which removes as a delete does, stays for `worker_live` | reservations and records agree at every await (`CapacityMatchesRecords`), no over-commitment (`WithinCapacity`), no container nobody answers for (`NoStrayContainer`), the worker implements `WorkerContract`, so that the dead stay dead (`KeepsContract`) |
| `worker_live` | 1 sandbox, 1 slot, two troubles out of failed removals or writes, exits, crashes | what was acknowledged survives a restart (`PromiseKept`); creates are answered, expired and vanished sandboxes noticed (`CreateAnswered`, `ExpiredIsReaped`, `VanishedIsNoticed`) |
| `commands` | 2 kills, 1 subscriber, a timeout, a fault, history of 2 events | `ResultComplete`, the refinement `KeepsPromise`, `KillEnds`, `TimeoutEnds` |
| `fleet` | 3 worker ids, minimum 1, maximum 2, 2 failures to LOST; seven loads | no VM bills unseen (`VmTracked`), only orphans are taken for orphans (`OrphansOnly`), what nobody drives ends (`OrphanEnds`), the dead are noticed (`DeadIsNoticed`), the minimum is restored (`MinRestored`), operations end (`OperationEnds`) |
| `links` | 2 workers, 2 ports, the checker and 1 user; four loads | no ssh process is forgotten (`SshOwned`), a stalled worker does not hold the loop (`ChecksGoOn`), a worker that is up is reached again (`Reconnects`), a worker that was removed keeps no forward, late requests or not (`GoneIsLetGo`) |
| `sessions` | 2 callers, 3 processes, 2 rows; six loads | one key, one sandbox (`SameSandbox`), a retry finds it (`KeyIsFound`), callers are served in the end, unless the pid file names a ghost for ever (`Served`) |
| `transfers` | one call of each kind, 2 blocks, queue of 1; cuts, failures, limits | success means everything arrived (`SuccessIsWhole`), every stage ends (`Concluded`) |
| `relay` | up to 2 frames each way, a cut, a refusal | frames arrive in order, none missing in between, and a listener that finds the connection closed has them all (`Delivered`); nothing stays open (`RelayEnds`), so the last frames before a close do arrive |
| `place_killed_stays` | 1 sandbox, 1 worker, 1 kill, no trouble | violated: a killed sandbox comes back |
| `sessions_ghost` | 1 caller, 2 processes, a crash of the daemon | violated: `StartsIfNeeded`, a caller that keeps asking gets a daemon started |

Why the bounds are enough. Two creates and one slot give contention; a third can
only wait behind the second. One sandbox and two worker ids give re-placement,
since an excluded worker is never tried again. One crash is enough for recovery:
what a second one could interrupt is the recovery of rows, which the first
restart of a load with a crash in it already starts from. In `worker_admission` a
big request, a small one and a slot over two units give each of claim, refusal,
eviction and failed adoption; in `commands` two kills give a kill of a command that
is being killed, and a history of two events forgets one. Two blocks and a queue of
one let every stage be behind the next. Deadlock is checked in `fleet`, where passes
never stop; the other systems may come to rest.

`place_killed_stays` states what `tests/integration/test_api.py:237` says: "The
placement loop must notice and stop; it must not resurrect the record." The kill does
not take the pool lock; when it completes between the loop's read of the row (817) and
its upsert (830, 835, 844) the stale record replaces STOPPED, and the sandbox is
started. The same happens at 868 and 879.

`sessions_ghost` states what `docs/sdk.md:12` says: "if nothing answers on a loopback URL,
`sandboxpilot daemon run` is spawned and awaited". A daemon that is killed leaves its pid
file; if the process that spawned it goes on, it stays a zombie of that process and
`pid_alive` (`control/daemon.py:55-62`) holds it for a daemon that is starting. Every call
then waits 20 seconds and fails, until the spawner ends (or starts another subprocess,
which makes Python collect the first) or somebody removes the pid file. `Served` promises
an answer under the condition that the file names such a ghost no more, again and again.

## What else the models showed

Each of these is a behaviour of the code that a property failed on while the
models were built. The passing runs leave the combination out, or state the
property so that it excludes it, and the hazard list names the line.

* After a rejection `_place_and_start` calls `health()` (865), which passes `timeout=None`
  (`control/worker_client.py:103-104`) and so switches the client's default off. A worker
  that accepts the connection and does not answer holds the create there for ever: the
  deadline is read only at 810 (`docs/pools.md:87`: "A create waits up to `create_timeout`
  in total"). `Fairness` therefore demands nothing of `PlaceRefresh` as long as the worker's
  machine is there; without its condition `CreateSettles` fails.
* A crash after STOPPING is written (`control/service.py:990`) leaves the row STOPPING:
  recovery looks at creates, reconcile at RUNNING rows. It counts as active and keeps
  its worker from being scaled down.
* A reconcile pass that listed a worker while it was HEALTHY writes that copy over
  TERMINATING (1272); if the provider call failed nobody retries and the worker is
  used again. The same write loses the flags of a drain, so a drained worker may
  never be terminated (`docs/pools.md:91`: "terminates it once empty"). `fleet` does not
  combine removals and sweeps with faults or crashes.
* While a drained worker still runs a sandbox, `replacements_needed` does not count it
  and `workers_to_scale_down` does: the pass provisions a replacement and scales it
  down again, over and over (`docs/pools.md:90-93`).
* A crash between a migration's script and the INSERT that records it (`state/db.py:97`)
  leaves a database on which the script fails for ever. `sessions` lets daemons crash
  only on a migrated database.
* A kill whose command does not end within ten seconds cancels the drive task
  (`worker/commands.py:284`); the CancelledError escapes `suppress(Exception)` and aborts
  the delete that asked for it (`docs/sdk.md:42`: "idempotent"). If the reaper asked, its
  loop ends for good (`worker/service.py:703` catches only Exception) and nothing expires
  until the daemon restarts. `ExpiredIsReaped` and `VanishedIsNoticed` assume that this is
  not met: the worker model's deletes kill commands that end in time.
* A delete that arrives while a warm slot is being adopted finds no record, answers
  "deleted", and the create then succeeds (`worker/service.py:551`).
* A removal Docker refuses (682) leaves a container without a record until a restart;
  `NoStrayContainer` and `PromiseKept` exclude failed removals and writes.
* A tar that fails after it has produced output is not noticed (`docker_gvisor.py:893`):
  a directory may be downloaded in part. An item that `offer` (912-923) has queued just
  as its wait ran out is queued twice. `SuccessIsWhole` excludes both. The wait for
  `mkdir` may be over before it has run, which ends the upload with an error.
* `remove_worker` (`control/service.py:450`) looks neither at the task that provisions the
  worker nor for a VM to come: the provider finds no cluster, the row becomes
  TERMINATED, and the launch goes on. If the process ends before the task has
  finished, a VM runs that no row tracks. `fleet` lets removals and crashes happen in
  different loads.
* With both ends of a WebSocket sending, the end of one direction may lose frames of
  the other (`utils/proxy.py:147`); `CloseIsTheEnd` speaks of an end that only listens.

## Fairness

Weak fairness of every task that can go on: asyncio runs every ready task, threads
and Docker answer, the provider answers, a process manager restarts a dead daemon, the
reconcile loop catches every error and its calls have timeouts. So have the calls of a
placement but one, the refresh after a rejection, which gets no fairness while the
worker is there (`Prompt`). The reaper loop catches every Exception; the CancelledError
that would end it is assumed away, see above. Nobody has to reap a ghost. Strong fairness only where the code gives
it: `PlaceTimeout` (a deadline that has passed is noticed the next time the loop
comes round), `GiveUp` (so is the deadline of who waits for a ghost), `EnsureBegin` (asyncio.Lock is first come first served), and the reaper's
choice of a sandbox (each round goes through all). Users, kills, faults, deaths,
cuts and crashes owe nothing.

## Proofs

Theorems stand in modules of their own, each after the module it is about:
`PlacementProofs`, `WorkerProofs`, `CommandsProofs`, `SessionsProofs`, `LinksProofs`,
`FleetProofs`, `TransfersProofs`, `RelayProofs`. Every invariant and every action
property of the passing runs is a theorem (`VmTracked` and `SuccessIsWhole` for the
loads named below), and both refinements are proved as far as they are safety. The
theorems hold for every value of the constants their module's ASSUME admits: any
numbers of sandboxes, workers, tasks, slots, callers, frames, any limits, any loads.
Each argument is an inductive invariant whose conjuncts are named; TLC checked the
invariant on an instance before it was proved, for `Relay` (3.6 million states) and
`WorkerFleet` (2 workers, every load of up to three troubles but removal with crash,
5.7 million) on larger ones than the runs.

**Placement** (`ConstantsAssumption`: the sets are finite where their size is compared,
the bounds are numbers, an id is not the absence of one).

* `TypeCorrect`, `ReservationsOwned`. `ReservationOwned` alone is not inductive: a step
  that sends a create must know that the reservation it made is for the worker it
  talks to. `Inv` adds that a placement past its decision knows its worker
  (`TalksToWorker`), that up to the worker's answer the record and the local variable
  agree and name a worker exactly when the record is CREATING (`RecordNamesHost`; a
  cancellation releases by the record, every other path by the variable), and that
  a pass asking a worker knows which (`PassHasWorker`).
* `NeverOverbooks`. Only `PlaceReserve` adds to the ledger, and only where a slot is
  free (`ReserveKeeps`); every other step takes out (`NextLedger`, `ShrinkKeeps`).
* `CreatesAreDriven`. `Driven` adds to `UnplacedIsDriven` that once a create is with a
  worker nobody else writes a waiting state into its row (`PlacedRow`) and that a stop
  call writes only STOPPING or an end (`StopWrites`).
* `WorkersCanBeGivenUp`. `Assigned`: a record that is looking for a worker names none,
  in the table and in every copy a task holds.
* `PlacementsTransit`: no StateError out of a placement. `Copies` says at each point
  which state the placement's own copy has, that a begun placement has a row, and
  that a stop call carries STOPPING or an end; with `Driven` every step of
  `_place_and_start` finds the state it leaves.
* `NeverSentTwice`. `Tried`: a worker that was ever sent the sandbox is in `excl`, or is
  the one being talked to, or the placement is over; restarts keep this because what
  they restart has not been sent, and fail the rest.
* `RunsWhereStarted`. `RunsWhatItStarted`, `CopyStarted`: a worker runs a container only
  for a create it worked through, and RUNNING is written only after a worker's
  answer or when recovery has seen the container.

**WorkerService** (`WorkerAssumption`: sandboxes, slots and tasks have distinct ids,
finitely many). `CapInv` is `TypeOK`, what goes with each point of a create (`Stages`),
with a delete or refresh under way (`UnderWay`), with a slot (`SlotsReserved`), what a
crash leaves (`Down`) and what a label's container may be (`OneContainer`). It gives
`NoCapacityLeak` and the action property `NoRevival`; with the arithmetic of
reservations over finite sets, `NeverOvercommits`. `NoStrays` adds `StrayInv`: a slot is
held by one sandbox at most, over memory, file and runtime together
(`SlotHeldOnce`), the record names the container the runtime would find (`Ats`), a poll
is about a sandbox that is over (`PollOver`) and, unless Docker refused something,
what exists is found and what is over does not run (`Found`). `PromisesKept` adds
`FileInv`: who writes the state file holds its lock, and writes what the record said
when it took it (`Writers`); file, payload and record are at least as good as the
promise (`PromisedOf`).

`WorkerKeepsContract` proves the refinement of `WorkerContract`, all of which is
safety: initial states map to initial states, and each action of the service to one of
the contract or to a stutter, crashes and restarts included (the run has none; TLC
also checked the contract on the instance of `worker_live`, which has them). Besides
`CapInv` it needs that a create which is adopting a slot has been found room
(`AdoptFits`: the sandbox becomes RUNNING for the caller only awaits later, when the
capacity must still hold), and that nothing of a record is left once it is gone
(`Blank`).

**Commands**. `CompleteResult` and `StaysWithinPromise` follow from `CommandInv`: how
the task and the kills end (`Ending`, `Waiting`), what the queue between thread and
loop holds (`Queued`), the output as head and tail of what was taken (`Kept`), the
events numbered without gaps (`Numbered`), a reader's batch a piece of them
(`Readers`). `Counted` says that written equals taken plus queued by the existence of
a prefix-sum function over the queue, which needs no induction over the sequence.
`StaysWithinPromise` is the safety half of the refinement: initial states map to
initial states of `CommandPromise`, and every step to a step or a stutter
(`SafePromise`). The other half, that readers arrive, is liveness and stays with TLC.

**Sessions**. `OneKeyOneSandbox`, `LoserFindsWinner` from `KeyInv`: one row with the key
(`OneRow`), a request works on a row that is there and one that lost the race knows of
one (`ReqInv`), who was given a sandbox was given one of the table (`Given`). The
lemma behind it is what a step may do to the table (`RowsChange`): nothing, an insert
into an empty one, or a removal while no request runs (housekeeping removes what is at
least a day old).

**Links** (`LinksAssumption`). `NoSshLost` from `LinkInv`: the worker's lock makes
ensure the only one that registers a tunnel, close only takes it away (`Steady`), and
when ensure registers a new process the old one has ended or is being ended, whether
close popped it in between or not.

**WorkerFleet** (`FleetAssumption`).

* `NoVmUnseen`: a VM that is up has a row reconcile visits or a task that settles it.
  `Tracked` extends this to a VM that is still being launched. It is kept because an id
  is not given away while a row, task, loop or copy speaks of it (`Known`), no
  copy that is written back says that a worker is over before it has been taken
  down (`TaskCopies`, `Listing`, `Holding`), who serves has had a VM (`Existed`), nothing
  runs beside start's recovery (`Alone`), and a loop that takes a worker down or asks
  about it has seen that no task drives it, or that its VM exists (`Undriven`).
  One path remains: a user removes a worker whose VM does not exist yet. Its row
  ends, its task goes on and brings the VM up. `Remembered` says that then no
  sweep has the task on its list and the process does not end, so the task settles
  it; the theorem is therefore about loads in which removal and the end of the
  process do not meet (`Apart`). Without that it is false, see above.
* `OnlyOrphansEnd`, for every load: only a visit takes a listed worker down
  (`FromVisit`), and it has read the row again.

**Transfers**. `SuccessComplete`. The stages of a call follow each other (`Order`), and an
upload goes once through its own (`Uploads`). To this comes what is under way: what the SDK has, what is in flight to it,
in flight to the control plane, in the worker's queue and still to come from tar or
docker cp are consecutive pieces of one payload (`Arrive`, `Middle`, `Feeding`,
`Pulling`; a `Piece` is given by positions, so no induction over sequences is needed),
a connection ends in "eof" only where the pieces make the whole, and the worker says
that an upload is done when tar has read all of it (`Written`). The SDK's second try
starts afresh (`Repeating`). The hypothesis `Clean` leaves out a directory whose tar
fails midway, where the claim is false (see above); that docker cp may offer an item
twice is in the property itself.

**Relay**. `FramesAreDelivered` is `FramesStayInOrder` and `CloseComesLast`, both from
`RelayInvariant`. `RelayInv` looks at a direction from the listener back to the
speaker: three links, two tasks, each with what it holds. As long as nobody on the way
has stopped, what the link holds follows what has arrived, what the task holds follows
that, and so on to the last frame sent (`FlowOf`); behind somebody who has stopped
nothing is claimed. For the close, whoever stopped although nothing went wrong had
nothing more to pass on (`MayEnd`, `Through`), and an end that only listens gives no
relay a reason to stop (`Calm`): of a relay's two tasks the one that reads the
speaker's side ends first, and what it cancels has nothing to carry. `Opening` is the
order of the handshakes, `Tasks` that only a running task holds a frame.

Only model-checked: everything under fairness, since the prover handles neither
liveness nor ENABLED. These are `CreateSettles`, `OrphansRemoved`, `CreateAnswered`,
`ExpiredIsReaped`, `VanishedIsNoticed`, `KillEnds`, `TimeoutEnds`, `OrphanEnds`,
`DeadIsNoticed`, `MinRestored`, `OperationEnds`, `ChecksGoOn`, `Reconnects`, `GoneIsLetGo`, `Served`,
`Concluded`, `RelayEnds`, and the liveness half of `KeepsPromise`.

## Not modelled

CLI, configuration, templates, schemas, metrics and logging hold no state of their
own; the firewall and the bootstrap are lists of commands run once; the fake runtime
and provider are test doubles. SkyPilot, Docker, gVisor, SSH, SQLite, httpx and
starlette are external: they appear by the outcomes the code distinguishes.
`set_timeout` of the control plane, pool and image rows, the two-dimensional fit with
its tie-breaks, and the signature of proxy tokens are left out. In `Transfers` a
missing path asked for as an archive ends in an abort rather than a status; the
worker's limit counts the bytes of the archive, and the control plane lets the first
chunk pass unchecked, as the code does.

## What could follow

A restart of the worker daemon in `Placement`, and then its `inv` and `rpc` as an
instance of `WorkerContract` for each worker; `Scheduling` with the two-dimensional
fit and its tie-breaks against a reference definition; `set_timeout` as an action of
`Placement`.
