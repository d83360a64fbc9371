------------------------------ MODULE Commands ------------------------------
(***************************************************************************)
(* One command of a sandbox on its worker: the task that drives it, the     *)
(* thread that reads its output, kill requests (a user's, or kill_all of a  *)
(* delete), streaming subscribers (worker/commands.py), over a Docker exec  *)
(* (DockerExecHandle).  finish() and emit() do not suspend: their condition *)
(* is never held over an await.  A timeout is a step that may happen        *)
(* whenever its wait goes on; text is counted in bytes.                     *)
(***************************************************************************)
EXTENDS Naturals, Sequences, SequencesExt

CONSTANTS
  Killers,      \* kill requests
  Subs,         \* streaming subscribers
  HasTimeout,   \* request.timeout is set
  Limit,        \* max_output_bytes
  History,      \* event_history_bytes
  ChunkSizes,   \* what the process writes at once
  MaxBytes,     \* bound: what the process writes
  MaxFaults     \* bound: Docker calls that fail

ASSUME CommandsAssumption ==
  /\ HasTimeout \in BOOLEAN /\ ChunkSizes \subseteq Nat \ {0}
  /\ {Limit, History, MaxBytes, MaxFaults} \subseteq Nat

VARIABLES
  proc,      \* the exec in Docker
  thread,    \* exec_start and the loop over its stream
  queue,     \* DockerExecHandle._queue
  written,   \* bytes the thread has read
  status, done, code,
  out,       \* run.stdout
  events, seqno,
  drive,     \* the task of _drive: where it is, timed_out, whether it ended cancelled
  pump,      \* the task of pump()
  kill,      \* kill requests
  sub,       \* subscribers
  known,     \* still in CommandManager._runs
  faults

runVars == <<status, done, code, events, seqno>>
dockVars == <<proc, thread, queue, written>>
vars == <<dockVars, runVars, out, drive, pump, kill, sub, known, faults>>

Fault == faults > 0 /\ faults' = faults - 1
NoFault == UNCHANGED faults
Least(a, b) == IF a < b THEN a ELSE b

-----------------------------------------------------------------------------
(* BoundedOutput and the event history *)

Head_ == Limit \div 2
Write(o, n) ==
  LET take == Least(n, Head_ - o.head)
  IN [head |-> o.head + take, tail |-> Least(o.tail + n - take, Limit - Head_), total |-> o.total + n]

Text(es) == FoldSeq(LAMBDA e, sum : e.len + sum, 0, es)
\* The oldest events go until the text fits; the newest always stays.
Trimmed(es) == LET Fits(i) == i = Len(es) \/ Text(SubSeq(es, i, Len(es))) <= History
               IN SubSeq(es, Min({i \in 1..Len(es) : Fits(i)}), Len(es))
Push(type, len) == /\ events' = Trimmed(Append(events, [seq |-> seqno, type |-> type, len |-> len]))
                   /\ seqno' = seqno + 1
\* notify_all.
Woken(sb) == [s \in Subs |-> IF sb[s].pc = "wait" THEN [sb[s] EXCEPT !.pc = "look"] ELSE sb[s]]

Finish(st, c) == /\ status' = st /\ code' = c /\ done' = TRUE
                 /\ Push("end", IF st = "EXITED" THEN 0 ELSE 1)
                 /\ sub' = Woken(sub)
NotFinished == UNCHANGED <<runVars, sub>>

-----------------------------------------------------------------------------
(* Docker: the exec, the thread that reads it *)

ThreadStart ==
  /\ thread = "starting"
  /\ \/ proc' = "running" /\ thread' = "reading" /\ NoFault /\ UNCHANGED queue
     \/ Fault /\ thread' = "over" /\ queue' = Append(queue, [type |-> "fail", n |-> 0]) /\ UNCHANGED proc
  /\ UNCHANGED <<written, runVars, out, drive, pump, kill, sub, known>>

ProcWrites ==
  /\ proc = "running" /\ thread = "reading"
  /\ \E n \in ChunkSizes :
       written + n <= MaxBytes /\ written' = written + n /\ queue' = Append(queue, [type |-> "out", n |-> n])
  /\ UNCHANGED <<proc, thread, runVars, out, drive, pump, kill, sub, known, faults>>

ProcExits ==
  /\ proc = "running" /\ proc' = "exited"
  /\ UNCHANGED <<thread, queue, written, runVars, out, drive, pump, kill, sub, known, faults>>

ThreadEnd ==
  /\ thread = "reading" /\ thread' = "over"
  /\ \/ proc = "exited" /\ NoFault /\ queue' = Append(queue, [type |-> "end", n |-> 0])
     \/ Fault /\ queue' = Append(queue, [type |-> "fail", n |-> 0])
  /\ UNCHANGED <<proc, written, runVars, out, drive, pump, kill, sub, known>>

\* DockerExecHandle.kill: look first, then run the kill script in the sandbox.  An
\* exec that has not started yet is left alone; errors are suppressed by all callers.
Kills(seen) == \/ seen # "running" /\ NoFault /\ UNCHANGED proc
               \/ seen = "running" /\ NoFault /\ proc' = "exited"
               \/ seen = "running" /\ Fault /\ UNCHANGED proc

-----------------------------------------------------------------------------
(* _drive and pump *)

Drive(pc) == drive' = [drive EXCEPT !.pc = pc]
DriveEnds == drive' = [drive EXCEPT !.pc = "over"]

\* start(): the run is registered, the task is created.
Start ==
  /\ drive.pc = "idle" /\ Drive("exec") /\ known' = TRUE
  /\ UNCHANGED <<dockVars, runVars, out, pump, kill, sub, faults>>

\* handle_factory, then the pump task, which starts the thread.
Exec ==
  /\ drive.pc = "exec"
  /\ \/ /\ proc' = "created" /\ thread' = "starting" /\ pump' = "running"
        /\ status' = "RUNNING" /\ Drive("pump") /\ NoFault
        /\ UNCHANGED <<done, code, events, seqno, sub>>
     \/ /\ Fault /\ Finish("FAILED", 0) /\ DriveEnds
        /\ UNCHANGED <<proc, thread, pump>>
  /\ UNCHANGED <<queue, written, out, kill, known>>

Pump ==
  /\ pump = "running" /\ queue # <<>> /\ queue' = Tail(queue)
  /\ \/ /\ Head(queue).type = "out"
        /\ out' = Write(out, Head(queue).n) /\ Push("out", Head(queue).n) /\ sub' = Woken(sub)
        /\ UNCHANGED <<pump, status, done, code>>
     \/ /\ Head(queue).type = "end" /\ pump' = "done" /\ UNCHANGED out /\ NotFinished
     \/ /\ Head(queue).type = "fail" /\ pump' = "failed" /\ UNCHANGED out /\ NotFinished
  /\ UNCHANGED <<proc, thread, written, drive, kill, known, faults>>

\* Mutant: the end of the process is taken for the end of its output.
MutStreamed == pump = "done" \/ (proc = "exited" /\ pump = "running")
Streamed == pump = "done"
DriveStreamed ==
  /\ drive.pc = "pump"
  /\ \/ Streamed /\ Drive("wait") /\ NotFinished
     \/ pump = "failed" /\ Finish("FAILED", 0) /\ DriveEnds
  /\ UNCHANGED <<dockVars, out, pump, kill, known, faults>>

DriveTimeout ==
  /\ HasTimeout /\ drive.pc = "pump" /\ pump = "running"
  /\ drive' = [drive EXCEPT !.pc = "tlook", !.late = TRUE]
  /\ UNCHANGED <<dockVars, runVars, out, pump, kill, sub, known, faults>>

\* handle.kill() of the timeout (t) or of the cancellation (c): inspect, then kill.
DriveLook ==
  /\ drive.pc \in {"tlook", "clook"}
  /\ drive' = [drive EXCEPT !.pc = IF @ = "tlook" THEN "tkill" ELSE "ckill", !.saw = proc]
  /\ UNCHANGED <<dockVars, runVars, out, pump, kill, sub, known, faults>>

DriveKill ==
  /\ drive.pc \in {"tkill", "ckill"} /\ Kills(drive.saw)
  /\ \/ /\ drive.pc = "tkill" /\ NotFinished /\ UNCHANGED pump
        /\ drive' = [drive EXCEPT !.pc = "drain", !.saw = "none"]
     \/ /\ drive.pc = "ckill"
        /\ pump' = "cancelled" /\ Finish("KILLED", 137)
        /\ drive' = [drive EXCEPT !.pc = "over", !.cancelled = TRUE, !.saw = "none"]
  /\ UNCHANGED <<thread, queue, written, out, kill, known>>

\* What is left of the output, for five seconds.
DriveDrained ==
  /\ drive.pc = "drain" /\ Drive("wait")
  /\ pump' = IF pump = "running" THEN "cancelled" ELSE pump
  /\ UNCHANGED <<dockVars, runVars, out, kill, sub, known, faults>>

\* handle.wait(), for ten seconds.  Mutant: for as long as it takes.
MutGivesUp == FALSE
GivesUp == proc = "running"
DriveWaited ==
  LET killed == drive.late \/ status = "KILLED"
      st == IF drive.late THEN "TIMED_OUT" ELSE IF status = "KILLED" THEN "KILLED" ELSE "EXITED"
  IN
  /\ drive.pc = "wait"
  /\ \/ proc # "running" /\ Finish(st, IF killed THEN 137 ELSE 0)
     \/ GivesUp /\ Finish(st, IF killed THEN 137 ELSE 255)
  /\ DriveEnds
  /\ UNCHANGED <<dockVars, out, pump, kill, known, faults>>

\* The task is cancelled by a kill that waited for it in vain.
Cancelled ==
  \/ /\ drive.pc \in {"exec", "wait"}
     /\ drive' = [drive EXCEPT !.pc = "over", !.cancelled = TRUE] /\ UNCHANGED pump
  \/ /\ drive.pc \in {"pump", "tlook", "tkill"} /\ Drive("clook") /\ UNCHANGED pump
  \/ /\ drive.pc \in {"clook", "ckill"} /\ pump' = "cancelled"
     /\ drive' = [drive EXCEPT !.pc = "over", !.cancelled = TRUE]
  \/ /\ drive.pc = "drain" /\ Drive("wait")     \* swallowed
     /\ pump' = IF pump = "running" THEN "cancelled" ELSE pump

-----------------------------------------------------------------------------
(* kill *)

Kill(k, pc) == kill' = [kill EXCEPT ![k].pc = pc]

KillBegin(k) ==
  /\ kill[k].pc = "idle" /\ known
  /\ IF done THEN Kill(k, "answered") /\ UNCHANGED status
     ELSE /\ status' = "KILLED"
          /\ Kill(k, IF drive.pc = "exec" THEN "join" ELSE "look")   \* is there a handle?
  /\ UNCHANGED <<dockVars, done, code, events, seqno, out, drive, pump, sub, known, faults>>

KillLook(k) ==
  /\ kill[k].pc = "look"
  /\ kill' = [kill EXCEPT ![k] = [pc |-> "kill", saw |-> proc]]
  /\ UNCHANGED <<dockVars, runVars, out, drive, pump, sub, known, faults>>

KillKill(k) ==
  /\ kill[k].pc = "kill" /\ Kills(kill[k].saw)
  /\ kill' = [kill EXCEPT ![k] = [pc |-> IF drive.pc = "over" THEN "final" ELSE "join", saw |-> "none"]]
  /\ UNCHANGED <<thread, queue, written, runVars, out, drive, pump, sub, known>>

\* wait_for(run.task, 10) times out: it cancels the task and waits for its end.
KillTimeout(k) ==
  /\ kill[k].pc = "join" /\ drive.pc # "over"
  /\ Kill(k, "cancelling") /\ Cancelled
  /\ UNCHANGED <<dockVars, runVars, out, sub, known, faults>>

\* The task has ended.  If another kill cancelled it, CancelledError is raised
\* here, which no suppress() on the way catches: the request is aborted.
KillJoined(k) ==
  /\ kill[k].pc \in {"join", "cancelling"} /\ drive.pc = "over"
  /\ Kill(k, IF kill[k].pc = "join" /\ drive.cancelled THEN "aborted" ELSE "final")
  /\ UNCHANGED <<dockVars, runVars, out, drive, pump, sub, known, faults>>

\* Mutant: nobody looks whether the run has been finished.
MutUnfinished == TRUE
\* Mutant: the kill leaves it to the task to finish the run.
MutTrusting == FALSE
Unfinished == ~done
KillFinal(k) ==
  /\ kill[k].pc = "final" /\ Kill(k, "answered")
  /\ IF Unfinished THEN Finish("KILLED", 137) ELSE NotFinished
  /\ UNCHANGED <<dockVars, out, drive, pump, known, faults>>

KillStep(k) == KillLook(k) \/ KillKill(k) \/ KillTimeout(k) \/ KillJoined(k) \/ KillFinal(k)

\* _trim: enough later commands have finished.
Trim ==
  /\ known /\ done /\ known' = FALSE
  /\ UNCHANGED <<dockVars, runVars, out, drive, pump, kill, sub, faults>>

-----------------------------------------------------------------------------
(* subscribe *)

SubBegin(s) ==
  /\ sub[s].pc = "idle" /\ known
  /\ sub' = [sub EXCEPT ![s].pc = "look"]
  /\ UNCHANGED <<dockVars, runVars, out, drive, pump, kill, known, faults>>

\* The history is in the order of its numbers: those from next on are its end.
Pending(s) == LET new == {i \in 1..Len(events) : events[i].seq >= sub[s].next}
              IN IF new = {} THEN <<>> ELSE SubSeq(events, Min(new), Len(events))
SubLook(s) ==
  /\ sub[s].pc = "look"
  /\ sub' = [sub EXCEPT ![s].batch = Pending(s),
                        ![s].pc = IF Pending(s) # <<>> THEN "yield" ELSE IF done THEN "over" ELSE "wait"]
  /\ UNCHANGED <<dockVars, runVars, out, drive, pump, kill, known, faults>>

SubYield(s) ==
  LET e == Head(sub[s].batch) IN
  /\ sub[s].pc = "yield"
  /\ sub' = [sub EXCEPT ![s] = [next |-> e.seq + 1, batch |-> Tail(@.batch),
                                pc |-> IF e.type = "end" THEN "over"
                                       ELSE IF Tail(@.batch) = <<>> THEN "look" ELSE "yield"]]
  /\ UNCHANGED <<dockVars, runVars, out, drive, pump, kill, known, faults>>

-----------------------------------------------------------------------------

Init ==
  /\ proc = "none" /\ thread = "none" /\ queue = <<>> /\ written = 0
  /\ status = "STARTING" /\ done = FALSE /\ code = 0
  /\ out = [head |-> 0, tail |-> 0, total |-> 0]
  /\ events = <<>> /\ seqno = 0
  /\ drive = [pc |-> "idle", late |-> FALSE, cancelled |-> FALSE, saw |-> "none"] /\ pump = "none"
  /\ kill = [k \in Killers |-> [pc |-> "idle", saw |-> "none"]]
  /\ sub = [s \in Subs |-> [pc |-> "idle", next |-> 0, batch |-> <<>>]]
  /\ known = FALSE /\ faults = MaxFaults

DriveStep == Exec \/ DriveStreamed \/ DriveTimeout \/ DriveLook \/ DriveKill \/ DriveDrained \/ DriveWaited

Next ==
  \/ ThreadStart \/ ProcWrites \/ ProcExits \/ ThreadEnd
  \/ Start \/ DriveStep \/ Pump \/ Trim
  \/ \E k \in Killers : KillBegin(k) \/ KillStep(k)
  \/ \E s \in Subs : SubBegin(s) \/ SubLook(s) \/ SubYield(s)

Spec == Init /\ [][Next]_vars

\* The event loop runs every ready task, the thread and Docker answer, the client
\* reads; a process owes nobody its end.
Fairness ==
  /\ WF_vars(DriveStep) /\ WF_vars(Pump) /\ WF_vars(ThreadStart) /\ WF_vars(ThreadEnd)
  /\ \A k \in Killers : WF_vars(KillStep(k))
  /\ \A s \in Subs : WF_vars(SubLook(s) \/ SubYield(s))
FairSpec == Spec /\ Fairness

-----------------------------------------------------------------------------
(* Properties *)

\* What a caller is given as the result of a command that exited by itself holds
\* all the process wrote, and as much of it as the limit allows (pump before
\* wait, BoundedOutput).
ResultComplete ==
  /\ out.head + out.tail = Least(out.total, Limit)
  /\ done /\ status = "EXITED" => out.total = written

Of == INSTANCE CommandPromise WITH
  outcome <- IF done THEN <<status, code>> ELSE <<>>,
  emitted <- seqno,
  oldest <- IF events = <<>> THEN 0 ELSE Head(events).seq,
  reader <- [s \in Subs |-> [on |-> sub[s].pc # "idle", next |-> sub[s].next]]

\* Exit, kill, timeout and failure race, and subscribers come and read meanwhile: the
\* command keeps the promise of CommandPromise.  It has one outcome, whoever sets it first,
\* and no event after its end (finish, kill, _drive); a subscriber gets the events in order,
\* misses only those the history has dropped, and comes to the end: the last wake-up is
\* never missed and the end event never dropped (emit, _push, subscribe).
KeepsPromise == Of!Promise

\* A kill ends the command in every race, also when it came before the exec
\* started, when Docker failed, or when the task was cancelled by another kill.
KillEnds == \A k \in Killers : kill[k].pc # "idle" ~> done

\* A command with a timeout ends, even if its process cannot be killed.
TimeoutEnds == HasTimeout /\ drive.pc # "idle" ~> done
=============================================================================
