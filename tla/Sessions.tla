------------------------------ MODULE Sessions ------------------------------
(***************************************************************************)
(* From Sandbox.create() to a sandbox: callers that find or start the local  *)
(* control plane (sdk/_http.py, control/daemon.py), daemons that open the    *)
(* shared database, recover it and then bind the port, and requests that     *)
(* carry one idempotency key (ControlPlane.create_sandbox).  Each call of a  *)
(* caller uses a new SDK client; a call that failed may be repeated with the *)
(* same key.  Placement itself is Placement.tla: here it is one write.       *)
(***************************************************************************)
EXTENDS Naturals, FiniteSets

CONSTANTS
  Callers, Daemons, Sandboxes,
  None,
  Loads         \* what happens to the system, one of these

ASSUME SessionsAssumption ==
  /\ None \notin Daemons \union Sandboxes /\ IsFiniteSet(Sandboxes)
  /\ Loads \subseteq [fresh : BOOLEAN, crashes : SUBSET STRING, stops : SUBSET STRING, slow : SUBSET STRING,
                      weeks : Nat, fails : Nat, late : SUBSET STRING, reuses : Nat]

VARIABLES
  caller,    \* where its call is, the daemon it waits for, the sandbox it was given
  daemon,    \* where each process is; ghost: it is over and its pid still names a process
  asked,     \* daemons that were sent SIGTERM
  pidFile, listener,
  schema,    \* of the database: none, tables (created, not recorded), ready
  row,       \* sandboxes table; every row carries the key
  keyMap,    \* idempotency_keys
  req,       \* the request handler of each caller's call
  cli,       \* sandboxpilot daemon stop
  left       \* of the load: whether the database is new, where a daemon may crash, be
             \* stopped, be too slow for the stop or for who waits for it; weeks that
             \* pass, creates that fail, pids that are given to another program

dbVars == <<schema, row, keyMap>>
procVars == <<daemon, asked, pidFile, listener>>
vars == <<caller, procVars, dbVars, req, cli, left>>

Take(what) == left[what] > 0 /\ left' = [left EXCEPT ![what] = @ - 1]
Unplaced == {"PENDING", "CREATING"}
Terminal == {"FAILED", "STOPPED"}
\* os.kill(pid, 0): a ghost passes for alive.
PidAlive(d) == d # None /\ daemon[d] # "dead"
Ended == {"dead", "ghost"}
Healthy == listener # None
Rows == {s \in Sandboxes : row[s] \notin {"none", "deleted"}}

-----------------------------------------------------------------------------
(* The caller: resolve_connection, ensure_running, POST /v1/sandboxes *)

Go(c, pc) == caller' = [caller EXCEPT ![c] = [pc |-> pc, pid |-> None, got |-> None]]
AwaitPid(c, d) == caller' = [caller EXCEPT ![c] = [pc |-> "wait", pid |-> d, got |-> None]]
CallerOnly == UNCHANGED <<procVars, dbVars, req, cli>>

Probe(c) ==
  /\ caller[c].pc = "probe" /\ Go(c, IF Healthy THEN "send" ELSE "pid")
  /\ CallerOnly /\ UNCHANGED left

\* Mutant: whatever the pid file names is taken for a daemon that is starting.
MutStarting(p) == p # None
Starting(p) == p # None /\ PidAlive(p)
\* A process that is over and that nobody refers to gives its name to the next.
Fresh == {d \in Daemons : daemon[d] \in Ended /\ pidFile # d /\ cli.pid # d /\ \A c \in Callers : caller[c].pid # d}
\* read_pid, and spawn_detached if it names nobody alive.  The new process is in "boot"
\* until it runs, so that others may read the pid file between the two.
ReadPid(c) ==
  /\ caller[c].pc = "pid"
  /\ IF Starting(pidFile) THEN AwaitPid(c, pidFile) /\ UNCHANGED daemon
     ELSE LET d == CHOOSE x \in Fresh : TRUE IN
          Fresh # {} /\ AwaitPid(c, d) /\ daemon' = [daemon EXCEPT ![d] = "boot"]
  /\ UNCHANGED <<asked, pidFile, listener, dbVars, req, cli, left>>

\* Look for health, then for the process: the two looks are apart.
Await(c) ==
  /\ \/ caller[c].pc = "wait" /\ Healthy /\ Go(c, "send")
     \/ caller[c].pc = "wait" /\ ~Healthy /\ caller' = [caller EXCEPT ![c].pc = "alive"]
     \/ caller[c].pc = "alive" /\ PidAlive(caller[c].pid) /\ caller' = [caller EXCEPT ![c].pc = "wait"]
     \/ caller[c].pc = "alive" /\ ~PidAlive(caller[c].pid) /\ Go(c, "error")
  /\ CallerOnly /\ UNCHANGED left
AwaitTimeout(c) ==
  /\ caller[c].pc = "wait" /\ ~Healthy /\ daemon[caller[c].pid] \in left.late
  /\ left' = [left EXCEPT !.late = {}] /\ Go(c, "error") /\ CallerOnly
\* Who waits for a ghost waits until the deadline.
GiveUp(c) ==
  /\ caller[c].pc = "wait" /\ ~Healthy /\ daemon[caller[c].pid] = "ghost"
  /\ Go(c, "error") /\ CallerOnly /\ UNCHANGED left

Send(c) ==
  /\ caller[c].pc = "send"
  /\ IF Healthy THEN /\ Go(c, "sent")
                     /\ req' = [req EXCEPT ![c] = [pc |-> "look", at |-> listener, sb |-> None, lost |-> FALSE]]
     ELSE Go(c, "error") /\ UNCHANGED req
  /\ UNCHANGED <<procVars, dbVars, cli, left>>

\* The call failed; the caller repeats it.
Retry(c) ==
  /\ caller[c].pc = "error" /\ Go(c, "probe")
  /\ CallerOnly /\ UNCHANGED left

-----------------------------------------------------------------------------
(* create_sandbox with an idempotency key *)

NoReq == [pc |-> "none", at |-> None, sb |-> None, lost |-> FALSE]
Answer(c, s) == /\ caller' = [caller EXCEPT ![c] = [pc |-> "done", pid |-> None, got |-> s]]
                /\ req' = [req EXCEPT ![c] = NoReq]
Fail(c, how) == /\ caller' = [caller EXCEPT ![c].pc = how]
                /\ req' = [req EXCEPT ![c] = NoReq]
ReqTo(c, pc) == req' = [req EXCEPT ![c].pc = pc]
ReqOnly == UNCHANGED <<procVars, cli>>

\* Mutant: only the mapping is looked up.
MutKeyRow == {}
KeyRow == Rows
\* _existing_for_key: the row the mapping names, else the row with the key.  The last of its
\* reads decides: rows with the key are not removed while a request runs.
Existing == IF keyMap \in Rows THEN {keyMap} ELSE KeyRow
ExistingForKey(c) ==
  /\ req[c].pc = "look"
  /\ \/ /\ Existing # {} /\ UNCHANGED caller
        /\ req' = [req EXCEPT ![c].pc = "settle", ![c].sb = CHOOSE s \in Existing : TRUE]
     \/ Existing = {} /\ ~req[c].lost /\ ReqTo(c, "insert") /\ UNCHANGED caller
     \/ Existing = {} /\ req[c].lost /\ Fail(c, "raised")
  /\ ReqOnly /\ UNCHANGED <<dbVars, left>>

\* resolve_pool, build_spec, fits_empty_worker: the request is refused as it stands.
Refused(c) ==
  /\ req[c].pc = "insert" /\ Take("fails") /\ Fail(c, "error")
  /\ ReqOnly /\ UNCHANGED dbVars

\* The unique index on the key.  Mutant: there is none.
MutConflicts == FALSE
Conflicts == Rows # {}
\* Ids that no row has had: their number is a bound.
NewIds == {s \in Sandboxes : row[s] = "none"}
Insert(c) ==
  LET s == CHOOSE x \in NewIds : TRUE IN
  /\ req[c].pc = "insert"
  /\ IF Conflicts THEN req' = [req EXCEPT ![c].pc = "look", ![c].lost = TRUE] /\ UNCHANGED row
     ELSE /\ NewIds # {} /\ row' = [row EXCEPT ![s] = "PENDING"]
          /\ req' = [req EXCEPT ![c].pc = "put", ![c].sb = s]
  /\ ReqOnly /\ UNCHANGED <<caller, schema, keyMap, left>>

\* ON CONFLICT DO NOTHING.
PutKey(c) ==
  /\ req[c].pc = "put" /\ ReqTo(c, "place") /\ keyMap' = IF keyMap = None THEN req[c].sb ELSE keyMap
  /\ ReqOnly /\ UNCHANGED <<caller, schema, row, left>>

\* _place_and_start: a row somebody has ended is handed out as it is.
Place(c) ==
  /\ req[c].pc = "place"
  /\ IF row[req[c].sb] \in Terminal THEN Answer(c, req[c].sb) /\ UNCHANGED row
     ELSE row' = [row EXCEPT ![req[c].sb] = "CREATING"] /\ ReqTo(c, "start") /\ UNCHANGED caller
  /\ ReqOnly /\ UNCHANGED <<schema, keyMap, left>>
\* The state is written over whatever the row says by then.
Started(c) ==
  LET s == req[c].sb IN
  /\ req[c].pc = "start"
  /\ \/ row' = [row EXCEPT ![s] = "RUNNING"] /\ Answer(c, s) /\ UNCHANGED left
     \/ Take("fails") /\ row' = [row EXCEPT ![s] = "FAILED"] /\ Fail(c, "error")
  /\ ReqOnly /\ UNCHANGED <<schema, keyMap>>

\* _settle_existing, _wait_until_placed: the winner's row has settled, or the deadline has
\* passed and the caller is given it unplaced.
Settle(c) ==
  /\ req[c].pc = "settle" /\ Answer(c, req[c].sb)
  /\ ReqOnly /\ UNCHANGED <<dbVars, left>>

ReqStep(c) == ExistingForKey(c) \/ Refused(c) \/ Insert(c) \/ PutKey(c) \/ Place(c) \/ Started(c) \/ Settle(c)

\* _housekeeping, a day or a week later: no request is that old.
Housekeeping ==
  /\ Take("weeks") /\ listener # None /\ \A c \in Callers : req[c].pc = "none"
  /\ keyMap' = None
  /\ \/ row' = [s \in Sandboxes |-> IF row[s] \in Terminal THEN "deleted" ELSE row[s]]
     \/ UNCHANGED row
  /\ UNCHANGED <<caller, procVars, schema, req, cli>>

-----------------------------------------------------------------------------
(* The daemon: serve, Database.open, ControlPlane.start, then the socket *)

Dmn(d, pc) == daemon' = [daemon EXCEPT ![d] = pc]
\* Whoever spawned the process does not wait for it (spawn_detached): if it is still there,
\* the process stays in the table as a zombie.
Over(d) == \E pc \in Ended : Dmn(d, pc)
DmnOnly == UNCHANGED <<caller, req, cli>>
Leaves == UNCHANGED <<asked, pidFile, listener>>

WritePid(d) ==
  /\ daemon[d] = "boot" /\ Dmn(d, "open") /\ pidFile' = d
  /\ DmnOnly /\ UNCHANGED <<asked, listener, dbVars, left>>

\* _migrate: which versions are recorded; the script in a transaction of its own, which
\* fails if the tables are there; the record.
OpenDb(d) ==
  /\ daemon[d] = "open" /\ Dmn(d, IF schema = "ready" THEN "recover" ELSE "script")
  /\ DmnOnly /\ Leaves /\ UNCHANGED <<dbVars, left>>
RunScript(d) ==
  /\ daemon[d] = "script"
  /\ IF schema = "none" THEN Dmn(d, "record") /\ schema' = "tables" ELSE Dmn(d, "exit") /\ UNCHANGED schema
  /\ DmnOnly /\ Leaves /\ UNCHANGED <<row, keyMap, left>>
RecordVersion(d) ==
  /\ daemon[d] = "record" /\ Dmn(d, "recover") /\ schema' = "ready"
  /\ DmnOnly /\ Leaves /\ UNCHANGED <<row, keyMap, left>>

\* _recover_after_restart: what is not placed is failed, whoever is placing it; the
\* worker is asked about what is CREATING.
Recover(d) ==
  /\ daemon[d] = "recover" /\ Dmn(d, "bind")
  /\ \E kept \in BOOLEAN :
       row' = [s \in Sandboxes |-> IF row[s] = "PENDING" THEN "FAILED"
                                   ELSE IF row[s] = "CREATING" THEN IF kept THEN "RUNNING" ELSE "FAILED"
                                   ELSE row[s]]
  /\ DmnOnly /\ Leaves /\ UNCHANGED <<schema, keyMap, left>>

\* uvicorn binds after the application has started; the port has one owner.
Bind(d) ==
  /\ daemon[d] = "bind"
  /\ IF listener = None /\ d \notin asked THEN Dmn(d, "serve") /\ listener' = d
     ELSE Dmn(d, "exit") /\ UNCHANGED listener
  /\ DmnOnly /\ UNCHANGED <<asked, pidFile, dbVars, left>>

\* SIGTERM: the socket is closed, requests in flight are waited for.
Drain(d) ==
  /\ daemon[d] = "serve" /\ d \in asked /\ Dmn(d, "drain") /\ listener' = None
  /\ DmnOnly /\ UNCHANGED <<asked, pidFile, dbVars, left>>
Drained(d) ==
  /\ daemon[d] = "drain" /\ \A c \in Callers : req[c].at # d
  /\ Dmn(d, "exit") /\ DmnOnly /\ Leaves /\ UNCHANGED <<dbVars, left>>

\* serve's finally: the pid file is removed if it is ours.
Exit(d) ==
  /\ daemon[d] = "exit" /\ Over(d) /\ asked' = asked \ {d}
  /\ pidFile' = IF pidFile = d THEN None ELSE pidFile
  /\ DmnOnly /\ UNCHANGED <<listener, dbVars, left>>

\* The process ends at once: its requests get no answer, the pid file stays.
Dies(d) ==
  /\ Over(d) /\ asked' = asked \ {d}
  /\ listener' = IF listener = d THEN None ELSE listener
  /\ caller' = [c \in Callers |-> IF req[c].at = d THEN [caller[c] EXCEPT !.pc = "error"] ELSE caller[c]]
  /\ req' = [c \in Callers |-> IF req[c].at = d THEN NoReq ELSE req[c]]
Crash(d) ==
  /\ daemon[d] \in left.crashes /\ left' = [left EXCEPT !.crashes = {}] /\ Dies(d)
  /\ UNCHANGED <<pidFile, dbVars, cli>>

\* The spawner ends or starts another process, or the program that was given the pid ends.
Reaped(d) ==
  /\ daemon[d] = "ghost" /\ Dmn(d, "dead")
  /\ DmnOnly /\ Leaves /\ UNCHANGED <<dbVars, left>>
\* The pid in the file, of a process long over, is given to another program.
Reused(d) ==
  /\ daemon[d] = "dead" /\ pidFile = d /\ Take("reuses") /\ Dmn(d, "ghost")
  /\ DmnOnly /\ Leaves /\ UNCHANGED dbVars

DaemonStep(d) ==
  \/ WritePid(d) \/ OpenDb(d) \/ RunScript(d) \/ RecordVersion(d) \/ Recover(d) \/ Bind(d)
  \/ Drain(d) \/ Drained(d) \/ Exit(d)

-----------------------------------------------------------------------------
(* sandboxpilot daemon stop *)

StopBegin ==
  /\ cli.pc = "idle" /\ left' = [left EXCEPT !.stops = {}]
  /\ IF PidAlive(pidFile) THEN /\ daemon[pidFile] \in left.stops /\ UNCHANGED pidFile
                               /\ cli' = [pc |-> "wait", pid |-> pidFile]
                               /\ asked' = IF daemon[pidFile] = "ghost" THEN asked ELSE asked \union {pidFile}
     ELSE "dead" \in left.stops /\ cli' = [pc |-> "over", pid |-> None] /\ pidFile' = None /\ UNCHANGED asked
  /\ UNCHANGED <<caller, daemon, listener, dbVars, req>>
\* SIGKILL after ten seconds.
StopKill ==
  /\ cli.pc = "wait" /\ daemon[cli.pid] \in left.slow /\ Dies(cli.pid)
  /\ UNCHANGED <<pidFile, dbVars, cli, left>>
\* The process is over, or seems to go on beyond the ten seconds.  The pid file is removed,
\* whoever's it is by now.
StopEnd ==
  /\ cli.pc = "wait" /\ daemon[cli.pid] \in Ended /\ cli' = [pc |-> "over", pid |-> None] /\ pidFile' = None
  /\ UNCHANGED <<caller, daemon, asked, listener, dbVars, req, left>>

-----------------------------------------------------------------------------

Init ==
  /\ caller = [c \in Callers |-> [pc |-> "probe", pid |-> None, got |-> None]]
  /\ daemon = [d \in Daemons |-> "dead"] /\ asked = {} /\ pidFile = None /\ listener = None
  /\ row = [s \in Sandboxes |-> "none"] /\ keyMap = None
  /\ req = [c \in Callers |-> NoReq] /\ cli = [pc |-> "idle", pid |-> None]
  /\ left \in Loads /\ schema = IF left.fresh THEN "none" ELSE "ready"

CallerStep(c) == Probe(c) \/ ReadPid(c) \/ Await(c) \/ Send(c) \/ Retry(c)

Next ==
  \/ \E c \in Callers : CallerStep(c) \/ AwaitTimeout(c) \/ GiveUp(c) \/ ReqStep(c)
  \/ \E d \in Daemons : DaemonStep(d) \/ Crash(d) \/ Reaped(d) \/ Reused(d)
  \/ Housekeeping \/ StopBegin \/ StopKill \/ StopEnd

Spec == Init /\ [][Next]_vars

\* Processes run, a caller polls until its deadline and repeats a call that failed; crashes,
\* stops and the deadline of a slow start owe nothing, and nobody has to reap a ghost.
Fairness ==
  /\ \A c \in Callers : WF_vars(CallerStep(c) \/ ReqStep(c)) /\ SF_vars(GiveUp(c))
  /\ \A d \in Daemons : WF_vars(DaemonStep(d))
  /\ WF_vars(StopEnd)
FairSpec == Spec /\ Fairness

-----------------------------------------------------------------------------
(* Properties *)

\* docs/sdk.md: "repeats with the same key return the same sandbox".  Callers that race,
\* that repeat a call whose answer a crash has swallowed, or that ask two daemons are
\* given one sandbox, as long as the first has not ended and been deleted.
SameSandbox ==
  \A c, e \in Callers : caller[c].got # None /\ caller[e].got # None =>
    caller[c].got = caller[e].got \/ "deleted" \in {row[caller[c].got], row[caller[e].got]}

\* Whoever loses the race for the key, or comes after a crash between the row and its
\* mapping, or after the mapping has expired, finds the sandbox (create_sandbox,
\* _existing_for_key): IntegrityError never reaches a caller.
KeyIsFound == \A c \in Callers : caller[c].pc # "raised"

\* A caller that repeats its call is answered in the end: two daemons racing for the port,
\* a crash, a stop, a slow start or a stale pid file leave nobody waiting for a control
\* plane that does not come, provided that the pid file does not name a ghost for ever.
\* The code does not see to that: StartsIfNeeded fails.
Haunted == pidFile # None /\ daemon[pidFile] = "ghost"
Served == []<>~Haunted => \A c \in Callers : caller[c].pc = "probe" ~> caller[c].pc = "done"

\* docs/sdk.md: "if nothing answers on a loopback URL, `sandboxpilot daemon run` is spawned
\* and awaited".  A caller that repeats its call while no control plane is there gets one
\* started (ensure_running, pid_alive).
StartsIfNeeded ==
  \A c \in Callers : caller[c].pc = "probe" /\ ~Healthy ~> \E d \in Daemons : daemon[d] \notin Ended
=============================================================================
