-------------------------------- MODULE Links --------------------------------
(***************************************************************************)
(* How a call of the control plane reaches a worker: one ssh port-forward    *)
(* per worker (SSHTunnelManager), one HTTP client per worker                 *)
(* (ControlPlane._clients), and the worker's token, which decides whether a  *)
(* request that came out of some tunnel is executed.  ensure() holds the     *)
(* worker's lock over its awaits; close() and is_alive() take no lock.  A    *)
(* port is open when some ssh listens on it, whosever it is.                 *)
(***************************************************************************)
EXTENDS Naturals, FiniteSets, Functions

CONSTANTS
  Workers, Ports,
  Checker,      \* the reconcile loop, one worker after the other
  Callers,      \* requests of users
  Busy,         \* the workers users have sandboxes on
  Uses,         \* the calls of WorkerClient that users' requests come to
  Nth,          \* bound: ssh processes of one worker at the same time
  NoPort, NoTask, NoSsh,
  Loads         \* what happens to the system, one of these

Tasks == Callers \union {Checker}
Ssh == Workers \X Nth

ASSUME LinksAssumption ==
  /\ Checker \notin Callers /\ NoTask \notin Tasks \union Workers /\ NoPort \notin Ports /\ NoSsh \notin Ssh
  /\ Busy \subseteq Workers /\ IsFiniteSet(Ports) /\ IsFiniteSet(Nth)
  /\ Loads \subseteq [breaks : Nat, twins : Nat, stalls : Nat, removals : SUBSET Workers, cleanups : SUBSET Workers, stops : Nat]

VARIABLES
  vm,        \* the worker's machine: up, stalled (it accepts and does not answer), gone
  row,       \* the worker's record: active, closing, closed, terminal
  saved,     \* tunnel_port of the record
  ssh,       \* the processes of each worker: the port, starting | listening | dead
  tunnels,   \* SSHTunnelManager._tunnels
  ending,    \* processes someone has called _terminate for
  lock,      \* SSHTunnelManager._locks
  clients,   \* ControlPlane._clients: the port in the client's base_url
  task,
  round,     \* workers the pass of reconcile has still to check
  stale,     \* cleanup of each worker: it has seen the tunnel dead, it has closed it
  heard,     \* the worker answered the last health check
  stop,      \* ControlPlane.stop
  left       \* of the load: forwards that break or do not come up, ports handed out twice,
             \* machines that stall, workers to be removed, tunnels cleanup may find dead, stops

linkVars == <<ssh, tunnels, ending, lock, saved>>
envVars == <<vm, row, stale, stop>>
vars == <<linkVars, envVars, clients, task, round, heard, left>>

Take(what) == left[what] > 0 /\ left' = [left EXCEPT ![what] = @ - 1]
NoFault == UNCHANGED left

Dead == [port |-> NoPort, st |-> "dead"]
Alive(i) == i # NoSsh /\ ssh[i].st # "dead"
Owner(i) == i[1]
\* port_open: a connection to the port is accepted.
PortOpen(p) == \E i \in Ssh : ssh[i].st = "listening" /\ ssh[i].port = p
Listener(p) == CHOOSE i \in Ssh : ssh[i].st = "listening" /\ ssh[i].port = p
Unused(w) == {i \in {w} \X Nth : ~Alive(i)}

\* The calls of WorkerClient that are made with timeout=None.  Mutant: none has a timeout.
\* "refresh" is the health call of a create whose worker has rejected it
\* (_place_and_start); reconcile's own, "health", is given a timeout.
MutEndless == {"health", "refresh", "run", "result", "stream", "upload", "download"}
Endless == {"refresh", "run", "result", "stream", "upload", "download"}
Timed == {"health", "drain", "images", "pull", "list", "create", "get", "delete", "expire"}
ASSUME UsesAssumption == Uses \subseteq Timed \cup Endless

-----------------------------------------------------------------------------
(* ssh -N -L port:worker, ExitOnForwardFailure, ServerAliveInterval *)

SshBinds(i) ==
  /\ ssh[i].st = "starting" /\ vm[Owner(i)] # "gone" /\ i \notin ending
  /\ ssh' = [ssh EXCEPT ![i] = IF PortOpen(@.port) THEN Dead ELSE [@ EXCEPT !.st = "listening"]]
  /\ UNCHANGED <<tunnels, ending, lock, saved, envVars, clients, task, round, heard, left>>

\* The connection breaks for good once the machine is gone.  Mutant: nobody notices.
MutNotices(i) == FALSE
Notices(i) == Alive(i) /\ vm[Owner(i)] = "gone"
SshDies(i) ==
  /\ \/ Notices(i) /\ NoFault
     \/ Alive(i) /\ Take("breaks")
  /\ ssh' = [ssh EXCEPT ![i] = Dead] /\ ending' = ending \ {i}
  /\ UNCHANGED <<tunnels, lock, saved, envVars, clients, task, round, heard>>

\* _terminate: SIGTERM, and SIGKILL after five seconds.
SshTerminated(i) ==
  /\ i \in ending /\ ending' = ending \ {i} /\ ssh' = [ssh EXCEPT ![i] = Dead]
  /\ UNCHANGED <<tunnels, lock, saved, envVars, clients, task, round, heard, left>>

Ends(is) == ending' = ending \union {i \in is : Alive(i)}

-----------------------------------------------------------------------------
(* ensure *)

Idle == [pc |-> "idle", does |-> "health", w |-> NoTask, port |-> NoPort, mine |-> NoSsh, base |-> NoPort]
Over(t) == task' = [task EXCEPT ![t] = Idle]
Goto(t, pc) == task' = [task EXCEPT ![t].pc = pc]
\* Mutant: ensure takes no lock.
MutLockFree(w) == TRUE
LockFree(w) == lock[w] = NoTask
Unlock(w) == lock' = [lock EXCEPT ![w] = NoTask]

\* A request for a worker, with a copy of its record.
Begin(t, w, m) ==
  task' = [task EXCEPT ![t].pc = "ensure", ![t].does = m, ![t].w = w, ![t].port = saved[w]]
\* A pass of reconcile goes through the workers that were not terminal when it began.
Check ==
  LET due == IF round = {} THEN {w \in Workers : row[w] # "terminal"} ELSE round
      w == CHOOSE x \in due : TRUE
  IN
  /\ task[Checker].pc = "idle" /\ stop = "no" /\ due # {}
  /\ round' = due \ {w} /\ Begin(Checker, w, "health")
  /\ UNCHANGED <<linkVars, envVars, clients, heard, left>>
\* _running: the worker of the sandbox is not terminal.
Call(t, w, m) ==
  /\ task[t].pc = "idle" /\ stop = "no" /\ row[w] # "terminal" /\ Begin(t, w, m)
  /\ UNCHANGED <<linkVars, envVars, clients, round, heard, left>>

EnsureBegin(t) ==
  LET w == task[t].w
      e == tunnels[w]
  IN
  /\ task[t].pc = "ensure" /\ LockFree(w)
  /\ lock' = [lock EXCEPT ![w] = t]
  /\ task' = [task EXCEPT ![t] = IF Alive(e) THEN [@ EXCEPT !.pc = "probe", !.mine = e, !.base = ssh[e].port]
                                 ELSE [@ EXCEPT !.pc = "choose"]]
  /\ UNCHANGED <<ssh, tunnels, ending, saved, envVars, clients, round, heard, left>>

\* The base URL is known: the client that has it is used, a client with another one is
\* closed, which suspends (_client).
Return(t, port) ==
  LET w == task[t].w IN
  /\ Unlock(w)
  /\ task' = [task EXCEPT ![t] = [@ EXCEPT !.pc = IF clients[w] \in {NoPort, port} THEN "send" ELSE "renew",
                                          !.base = port, !.mine = NoSsh,
                                          !.port = IF task[t].pc = "wait" THEN port ELSE task[t].port]]
  /\ clients' = IF clients[w] = NoPort THEN [clients EXCEPT ![w] = port] ELSE clients
NoReturn == UNCHANGED <<lock, clients>>

EnsureProbe(t) ==
  /\ task[t].pc = "probe"
  /\ IF PortOpen(task[t].base) THEN Return(t, task[t].base) /\ UNCHANGED ending
     ELSE Goto(t, "choose") /\ Ends({task[t].mine}) /\ NoReturn
  /\ UNCHANGED <<ssh, tunnels, saved, envVars, round, heard, left>>

\* Mutant: the last port is taken again without a look.
MutReuses(last) == last # NoPort
Reuses(last) == last # NoPort /\ ~PortOpen(last)
\* Once the old process has ended: the port of the last tunnel if nobody listens on it,
\* else one the system finds free, which another ensure may have been given as well.
EnsureChoose(t) ==
  LET last == task[t].port
      taken == {task[u].base : u \in {v \in Tasks : task[v].pc = "spawn"}}
                 \union {ssh[i].port : i \in {j \in Ssh : Alive(j)}}
  IN
  /\ task[t].pc = "choose" /\ ~Alive(task[t].mine)
  /\ \E p \in IF Reuses(last) THEN {last} ELSE {q \in Ports : ~PortOpen(q)} :
       /\ IF ~Reuses(last) /\ p \in taken THEN Take("twins") ELSE NoFault
       /\ task' = [task EXCEPT ![t].pc = "spawn", ![t].base = p, ![t].mine = NoSsh]
  /\ UNCHANGED <<linkVars, envVars, clients, round, heard>>

EnsureSpawn(t) ==
  LET w == task[t].w
      i == CHOOSE j \in Unused(w) : TRUE
  IN
  /\ task[t].pc = "spawn" /\ Unused(w) # {}
  /\ ssh' = [ssh EXCEPT ![i] = [port |-> task[t].base, st |-> "starting"]]
  /\ tunnels' = [tunnels EXCEPT ![w] = i]
  /\ task' = [task EXCEPT ![t].pc = "wait", ![t].mine = i]
  /\ UNCHANGED <<ending, lock, saved, envVars, clients, round, heard, left>>

\* Until the port opens, the process ends or the deadline passes.
EnsureWait(t) ==
  LET i == task[t].mine IN
  /\ task[t].pc = "wait"
  /\ \/ Alive(i) /\ PortOpen(task[t].base) /\ Return(t, task[t].base) /\ NoFault /\ UNCHANGED ending
     \/ ~Alive(i) /\ Goto(t, "giveup") /\ NoFault /\ NoReturn /\ UNCHANGED ending
     \/ /\ ssh[i].st = "starting" /\ Goto(t, "giveup") /\ Ends({i}) /\ NoReturn
        /\ IF vm[task[t].w] = "gone" THEN NoFault ELSE Take("breaks")
  /\ UNCHANGED <<ssh, tunnels, saved, envVars, round, heard>>

\* Nothing to reach the worker through: WorkerUnavailableError.
EnsureGiveUp(t) ==
  LET w == task[t].w IN
  /\ task[t].pc = "giveup" /\ ~Alive(task[t].mine)
  /\ tunnels' = [tunnels EXCEPT ![w] = NoSsh] /\ Unlock(w) /\ Over(t)
  /\ heard' = IF t = Checker THEN [heard EXCEPT ![w] = FALSE] ELSE heard
  /\ UNCHANGED <<ssh, ending, saved, envVars, clients, round, left>>

-----------------------------------------------------------------------------
(* The client and the request *)

RenewClient(t) ==
  /\ task[t].pc = "renew" /\ clients' = [clients EXCEPT ![task[t].w] = task[t].base] /\ Goto(t, "send")
  /\ UNCHANGED <<linkVars, envVars, round, heard, left>>

\* auth: the worker behind the listener executes only what carries its own token.
Executes(w, by) == w = by
\* The handlers of the worker's app run once auth has let the request pass.
Handles(w, by) == vm[by] = "up" /\ Executes(w, by)
\* A stalled machine answers nobody: calls with a timeout give up, the others wait.
\* _check_worker then saves its copy of the record, tunnel_port included, and goes on
\* to _reconcile_inventory with the same client.
Send(t) ==
  LET w == task[t].w
      m == task[t].does
      by == IF PortOpen(task[t].base) THEN {Owner(Listener(task[t].base))} ELSE {}
      ok == {x \in by : Handles(w, x)}
  IN
  /\ task[t].pc = "send"
  /\ ~(m \in Endless /\ \E x \in by : vm[x] = "stalled")
  /\ IF m = "health" THEN /\ heard' = [heard EXCEPT ![w] = ok # {}]
                           /\ saved' = [saved EXCEPT ![w] = task[t].port]
     ELSE UNCHANGED <<heard, saved>>
  /\ IF m = "health" /\ ok # {} THEN task' = [task EXCEPT ![t].does = "list"] ELSE Over(t)
  /\ UNCHANGED <<ssh, tunnels, ending, lock, envVars, clients, round, left>>

\* stop() cancels the task at an await: locks are released, tunnels stay registered.
Cancel(t) ==
  /\ stop = "cancel" /\ task[t].pc # "idle" /\ Over(t)
  /\ lock' = [w \in Workers |-> IF lock[w] = t THEN NoTask ELSE lock[w]]
  /\ UNCHANGED <<ssh, tunnels, ending, saved, envVars, clients, round, heard, left>>

-----------------------------------------------------------------------------
(* close, cleanup, stop; the machines *)

Pop(ws) == /\ tunnels' = [w \in Workers |-> IF w \in ws THEN NoSsh ELSE tunnels[w]]
           /\ Ends({tunnels[w] : w \in ws})

\* _terminate_worker, _mark_worker_lost: the record, the tunnel, the client, the machine.
RemoveBegin(w) ==
  /\ w \in left.removals /\ left' = [left EXCEPT !.removals = @ \ {w}] /\ row[w] = "active" /\ stop = "no"
  /\ row' = [row EXCEPT ![w] = "closing"]
  /\ UNCHANGED <<linkVars, vm, stale, stop, clients, task, round, heard>>
RemoveClose(w) ==
  /\ row[w] = "closing" /\ row' = [row EXCEPT ![w] = "closed"] /\ Pop({w})
  /\ UNCHANGED <<ssh, lock, saved, vm, stale, stop, clients, task, round, heard, left>>
RemoveEnd(w) ==
  /\ row[w] = "closed" /\ row' = [row EXCEPT ![w] = "terminal"]
  /\ vm' = [vm EXCEPT ![w] = "gone"] /\ clients' = [clients EXCEPT ![w] = NoPort]
  /\ UNCHANGED <<linkVars, stale, stop, task, round, heard, left>>

\* cleanup: is_alive suspends in port_open; what it saw dead is closed.
CleanLook(w) ==
  /\ w \in left.cleanups /\ left' = [left EXCEPT !.cleanups = @ \ {w}] /\ stop = "no"
  /\ clients[w] # NoPort /\ ~(Alive(tunnels[w]) /\ PortOpen(ssh[tunnels[w]].port))
  /\ stale[w] = "no" /\ stale' = [stale EXCEPT ![w] = "dead"]
  /\ UNCHANGED <<linkVars, vm, row, stop, clients, task, round, heard>>
CleanClose(w) ==
  /\ stale[w] = "dead" /\ stale' = [stale EXCEPT ![w] = "closed"] /\ Pop({w})
  /\ UNCHANGED <<ssh, lock, saved, vm, row, stop, clients, task, round, heard, left>>
\* close waits for the process; the client goes afterwards, whosever it is by then.
CleanForget(w) ==
  /\ stale[w] = "closed" /\ stale' = [stale EXCEPT ![w] = "no"] /\ clients' = [clients EXCEPT ![w] = NoPort]
  /\ UNCHANGED <<linkVars, vm, row, stop, task, round, heard, left>>

StopBegin ==
  /\ stop = "no" /\ stop' = "cancel" /\ Take("stops")
  /\ UNCHANGED <<linkVars, vm, row, stale, clients, task, round, heard>>
\* Clients are closed, then close_all.
StopClose ==
  /\ stop = "cancel" /\ \A t \in Tasks : task[t].pc = "idle"
  /\ stop' = "close" /\ Pop(Workers) /\ clients' = [w \in Workers |-> NoPort]
  /\ UNCHANGED <<ssh, lock, saved, vm, row, stale, task, round, heard, left>>
StopDone ==
  /\ stop = "close" /\ ending = {} /\ stop' = "done"
  /\ UNCHANGED <<linkVars, vm, row, stale, clients, task, round, heard, left>>

VmStalls(w) ==
  /\ vm[w] = "up" /\ vm' = [vm EXCEPT ![w] = "stalled"] /\ Take("stalls")
  /\ UNCHANGED <<linkVars, row, stale, stop, clients, task, round, heard>>

-----------------------------------------------------------------------------

Init ==
  /\ vm = [w \in Workers |-> "up"] /\ row = [w \in Workers |-> "active"]
  /\ saved = [w \in Workers |-> NoPort] /\ ssh = [i \in Ssh |-> Dead]
  /\ tunnels = [w \in Workers |-> NoSsh] /\ ending = {}
  /\ lock = [w \in Workers |-> NoTask] /\ clients = [w \in Workers |-> NoPort]
  /\ task = [t \in Tasks |-> Idle] /\ round = {}
  /\ stale = [w \in Workers |-> "no"] /\ heard = [w \in Workers |-> FALSE] /\ stop = "no"
  /\ left \in Loads

Step(t) ==
  \/ EnsureBegin(t) \/ EnsureProbe(t) \/ EnsureChoose(t) \/ EnsureSpawn(t)
  \/ EnsureWait(t) \/ EnsureGiveUp(t) \/ RenewClient(t) \/ Send(t)
CloseStep(w) == RemoveClose(w) \/ RemoveEnd(w) \/ CleanClose(w) \/ CleanForget(w)

Next ==
  \/ \E i \in Ssh : SshBinds(i) \/ SshDies(i) \/ SshTerminated(i)
  \/ Check \/ \E t \in Callers, w \in Busy, m \in Uses : Call(t, w, m)
  \/ \E t \in Tasks : Step(t) \/ Cancel(t)
  \/ \E w \in Workers : RemoveBegin(w) \/ CloseStep(w) \/ CleanLook(w) \/ VmStalls(w)
  \/ StopBegin \/ StopClose \/ StopDone

Spec == Init /\ [][Next]_vars

\* Tasks that can go on do and asyncio.Lock is first come first served; the reconcile
\* loop comes round to every worker; ssh binds, notices a dead peer and obeys signals;
\* users and faults owe nothing.
Fairness ==
  /\ \A t \in Tasks : WF_vars(Step(t)) /\ SF_vars(EnsureBegin(t)) /\ WF_vars(Cancel(t))
  /\ WF_vars(Check) /\ \A w \in Workers : WF_vars(CloseStep(w))
  /\ \A i \in Ssh : WF_vars(SshBinds(i)) /\ WF_vars(SshTerminated(i)) /\ WF_vars(Notices(i) /\ SshDies(i))
  /\ WF_vars(StopClose) /\ WF_vars(StopDone)
FairSpec == Spec /\ Fairness

-----------------------------------------------------------------------------
(* Properties *)

\* No ssh process is lost: each is the registered tunnel of its worker or being
\* ended, whatever ensure, close, cleanup and cancellation do to each other, and
\* none is left when the control plane has stopped (ensure, close, close_all).
SshOwned ==
  /\ \A i \in Ssh : Alive(i) => tunnels[Owner(i)] = i \/ i \in ending
  /\ stop = "done" => \A i \in Ssh : ~Alive(i)

\* The reconcile loop is never held up by a worker: not by one that accepts and does
\* not answer, nor by its lock (the timeout of WorkerClient, ensure's deadline).
ChecksGoOn == task[Checker].pc # "idle" ~> task[Checker].pc = "idle"

\* A worker that is there is heard again after every break: dead forwards, ports
\* taken over, tunnels closed under a request.
Reconnects ==
  \A w \in Workers : []<>(heard[w] \/ row[w] # "active" \/ vm[w] # "up" \/ stop # "no")

\* A worker that has been removed keeps no forward: the termination closes the tunnel
\* before the machine goes, so a request or a check under way may register another one
\* that nobody closes any more; it ends by itself once the machine does not answer
\* (_terminate_worker, ensure, ServerAliveInterval).
GoneIsLetGo ==
  \A w \in Workers : [](row[w] = "terminal" => <>[](\A i \in Ssh : Owner(i) = w => ~Alive(i)))
=============================================================================
