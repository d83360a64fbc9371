---------------------------- MODULE WorkerService ----------------------------
(***************************************************************************)
(* The daemon on one worker VM (worker/service.py, worker/capacity.py) over *)
(* Docker (worker/runtime/docker_gvisor.py).  An action runs from the end   *)
(* of one await to the start of the next.  The locks around the reservation *)
(* table and the warm dict are never held over an await, so what they cover *)
(* is part of one action; the state-file lock and the per-sandbox lock are  *)
(* held over awaits and are modelled.                                       *)
(*                                                                          *)
(* Resources are one dimension: a sandbox in Big needs two units, any other *)
(* container one.  A container is named by its label, which never changes:  *)
(* an adopted warm slot keeps the label of the slot, and `names` (the       *)
(* runtime's _containers) says whose it is.  A sandbox is created at most   *)
(* once on a worker (Placement!SentOnce).                                   *)
(***************************************************************************)
EXTENDS Naturals, FiniteSets

CONSTANTS
  Sandboxes, Slots,   \* sandbox ids; ids for warm slots, reused once forgotten
  Big,                \* sandboxes that need two units
  Fit,                \* sandboxes whose spec is compatible with a warm slot
  Units,              \* allocatable resources
  WarmSlots,          \* config.warm_slots
  Deleters,           \* concurrent delete calls
  Reaper, Poll, Setter, NoTask,
  None,               \* no container, no slot
  MaxNow,             \* bound: the clock; sandboxes are created to expire at 1
  MaxFaults,          \* bound: images, containers or adoptions that fail
  MaxLeaks,           \* bound: removals, inspections or state-file writes that fail
  MaxDrains,          \* bound: turns of draining or disk pressure, on or off
  MaxExits,           \* bound: containers that exit or disappear by themselves
  MaxCrashes,         \* bound: crashes and restarts of the daemon
  MaxTroubles         \* bound: all of these together

Ids == Sandboxes \cup Slots
Tasks == Sandboxes \cup Deleters \cup {Reaper, Poll, Setter}

ASSUME WorkerAssumption ==
  /\ Sandboxes \cap Slots = {} /\ IsFiniteSet(Ids)
  /\ Big \subseteq Sandboxes /\ Fit \subseteq Sandboxes
  /\ None \notin Ids /\ NoTask \notin Tasks
  /\ Sandboxes \cap Deleters = {} /\ {Reaper, Poll, Setter} \cap (Sandboxes \cup Deleters) = {}
  /\ Reaper # Poll /\ Reaper # Setter /\ Poll # Setter
  /\ {Units, WarmSlots, MaxNow, MaxFaults, MaxLeaks, MaxDrains, MaxExits, MaxCrashes,
      MaxTroubles} \subseteq Nat

VARIABLES
  rec,       \* self.sandboxes: state, deadline and container of every sandbox
  res,       \* CapacityManager._reservations
  warm,      \* self.warm
  draining,  \* capacity.draining or disk_pressure
  job,       \* create requests, one per sandbox
  del,       \* delete calls and the reaper's deletions
  poll,      \* _refresh, from the reaper loop or a GET
  setter,    \* set_expiration
  boot,      \* the warm loop
  saver, payload, saved,  \* state-file lock, what its holder writes, the file
  ctr,       \* Docker: the containers, by label
  names,     \* runtime._containers: id to label
  now, up,
  promised,  \* history: the deadline the caller was told, 0 when it was told none
  budget

taskVars == <<job, del, poll, setter, boot>>
fileVars == <<saver, payload, saved>>
dockVars == <<ctr, names>>
vars == <<rec, res, warm, draining, taskVars, fileVars, dockVars, now, up, promised, budget>>

Live == {"CREATING", "RUNNING"}
Over == {"STOPPED", "FAILED", "LOST", "EXPIRED"}
NoRec == [state |-> "ABSENT", exp |-> 0, at |-> None]
NoSave == [exp |-> 0, at |-> None]
IdleDel == [pc |-> "idle", sb |-> None]
IdlePoll == [pc |-> "idle", sb |-> None, saw |-> "running"]

Spend(kind) == /\ budget[kind] > 0 /\ budget.any > 0
               /\ budget' = [budget EXCEPT ![kind] = @ - 1, !["any"] = @ - 1]
Free == UNCHANGED budget

-----------------------------------------------------------------------------
(* Capacity *)

Size(id) == IF id \in Big THEN 2 ELSE 1
Total(held) == Cardinality(held) + Cardinality(held \cap Big)
Held(r) == {id \in Ids : r[id] # "none"}

\* Mutant: only committed reservations count.
MutFits(r, id) == Total({i \in Ids : r[i] = "committed"}) + Size(id) <= Units
Fits(r, id) == Total(Held(r)) + Size(id) <= Units
Admits(r, id) == ~draining /\ Fits(r, id)

-----------------------------------------------------------------------------
(* The runtime: one step each, with the outcomes the service tells apart *)

\* _container_id: the mapping first, then a search by label.
\* Mutant: only the mapping.
MutContainerOf(id) == names[id]
ContainerOf(id) == IF names[id] # None THEN names[id]
                   ELSE IF ctr[id] # "none" THEN id ELSE None
Docker(id) == IF ContainerOf(id) = None THEN "none" ELSE ctr[ContainerOf(id)]

\* runtime.create, runtime.start and runtime.adopt, when they succeed.
RuntimeCreate(id) == /\ ctr' = [ctr EXCEPT ![id] = "created"]
                     /\ names' = [names EXCEPT ![id] = id]
RuntimeStart(id) == ctr' = [ctr EXCEPT ![id] = "running"]
RuntimeAdopt(w, s) == names' = [names EXCEPT ![w] = None, ![s] = w]

\* runtime.remove; its error is always suppressed, the mapping goes either way.
Removed(id) == /\ names' = [names EXCEPT ![id] = None]
               /\ \/ /\ ctr' = [l \in Ids |-> IF l = ContainerOf(id) THEN "none" ELSE ctr[l]]
                     /\ Free
                  \/ Docker(id) # "none" /\ Spend("leaks") /\ UNCHANGED ctr

-----------------------------------------------------------------------------
(* _save_state: the payload is taken under the lock, a thread writes it *)

LiveRecords == [s \in Sandboxes |-> IF rec[s].state \in Live
                                    THEN [exp |-> rec[s].exp, at |-> rec[s].at] ELSE NoSave]
TakeState(t) == saver = NoTask /\ saver' = t /\ payload' = LiveRecords /\ UNCHANGED saved
\* Mutant: a failed write keeps the lock.
MutPutState(t) == /\ saver = t /\ UNCHANGED payload
                  /\ \/ saved' = payload /\ saver' = NoTask /\ Free
                     \/ Spend("leaks") /\ UNCHANGED <<saved, saver>>
PutState(t) == /\ saver = t /\ saver' = NoTask /\ UNCHANGED payload
               /\ \/ saved' = payload /\ Free
                  \/ Spend("leaks") /\ UNCHANGED saved

-----------------------------------------------------------------------------
(* create_sandbox *)

Job(s, pc, slot) == job' = [job EXCEPT ![s] = [pc |-> pc, slot |-> slot]]
At(s, pc) == up /\ job[s].pc = pc

\* Reserve, or evict a warm slot and come back, or reject: no await in between.
ColdPath(s, r, wm) ==
  \/ /\ Admits(r, s)
     /\ res' = [r EXCEPT ![s] = "pending"] /\ warm' = wm
     /\ rec' = [rec EXCEPT ![s] = [state |-> "CREATING", exp |-> 1, at |-> None]]
     /\ Job(s, "image", None)
  \/ /\ ~Admits(r, s)
     /\ \E w \in wm : /\ warm' = wm \ {w} /\ res' = [r EXCEPT ![w] = "none"]
                      /\ Job(s, "evict", w)
     /\ UNCHANGED rec
  \/ /\ ~Admits(r, s) /\ wm = {}
     /\ res' = r /\ warm' = wm /\ Job(s, "rejected", None) /\ UNCHANGED rec

\* A compatible slot swaps its reservation for the request's, unless that does not fit.
ClaimWarm(s, w) ==
  LET freed == [res EXCEPT ![w] = "none"] IN
  /\ s \in Fit
  /\ IF Fits(freed, s)
     THEN /\ res' = [freed EXCEPT ![s] = "pending"] /\ warm' = warm \ {w}
          /\ Job(s, "adopt", w) /\ UNCHANGED rec
     ELSE ColdPath(s, res, warm)

\* _create up to its first await.
CreateBegin(s) ==
  /\ At(s, "idle")
  /\ \/ /\ draining /\ Job(s, "rejected", None) /\ UNCHANGED <<rec, res, warm>>
     \/ /\ ~draining /\ (s \notin Fit \/ warm = {})
        /\ ColdPath(s, res, warm)
     \/ ~draining /\ \E w \in warm : ClaimWarm(s, w)
  /\ UNCHANGED <<draining, del, poll, setter, boot, fileVars, dockVars, now, up, promised, budget>>

\* runtime.adopt: rename, update the limits, take over the mapping ...
CreateAdopt(s) ==
  LET w == job[s].slot IN
  /\ At(s, "adopt")
  /\ \/ /\ Docker(w) # "none" /\ Free
        /\ RuntimeAdopt(w, s)
        /\ Job(s, "adopted", w) /\ UNCHANGED res
     \/ /\ IF Docker(w) = "none" THEN Free ELSE Spend("faults")
        /\ res' = [res EXCEPT ![s] = "none"]
        /\ Job(s, "unslot", w) /\ UNCHANGED names
  /\ UNCHANGED <<rec, warm, draining, del, poll, setter, boot, fileVars, ctr, now, up, promised>>

\* ... and inspect it; only now is there a record.
CreateAdopted(s) ==
  LET w == job[s].slot IN
  /\ At(s, "adopted")
  /\ \/ /\ ctr[w] # "none" /\ Free
        /\ rec' = [rec EXCEPT ![s] = [state |-> "RUNNING", exp |-> 1, at |-> w]]
        /\ res' = [res EXCEPT ![s] = "committed"]
        /\ Job(s, "save", w)
     \/ /\ IF ctr[w] = "none" THEN Free ELSE Spend("faults")
        /\ res' = [res EXCEPT ![s] = "none"]
        /\ Job(s, "unslot", w) /\ UNCHANGED rec
  /\ UNCHANGED <<warm, draining, del, poll, setter, boot, fileVars, dockVars, now, up, promised>>

\* The slot of a failed adoption, or an evicted one, is removed: try again cold.
CreateUnslot(s) ==
  /\ up /\ job[s].pc \in {"unslot", "evict"}
  /\ Removed(job[s].slot)
  /\ ColdPath(s, res, warm)
  /\ UNCHANGED <<draining, del, poll, setter, boot, fileVars, now, up, promised>>

\* Any exception while booting.
BootFailed(s) ==
  /\ rec' = [rec EXCEPT ![s].state = "FAILED"]
  /\ res' = [res EXCEPT ![s] = "none"]
  /\ Job(s, "failed", None)

\* The image is not there and may not, or cannot, be pulled.
EnsureImageFails(s) ==
  /\ At(s, "image") /\ Spend("faults") /\ BootFailed(s)
  /\ UNCHANGED <<warm, draining, del, poll, setter, boot, fileVars, dockVars, now, up, promised>>
\* ensure_image and runtime.create.
CreateContainer(s) ==
  /\ At(s, "image")
  /\ \/ /\ RuntimeCreate(s)
        /\ rec' = [rec EXCEPT ![s].at = s]
        /\ Job(s, "start", None) /\ UNCHANGED res /\ Free
     \/ Spend("faults") /\ BootFailed(s) /\ UNCHANGED dockVars
  /\ UNCHANGED <<warm, draining, del, poll, setter, boot, fileVars, now, up, promised>>

CreateStart(s) ==
  /\ At(s, "start")
  /\ \/ /\ Docker(s) = "created" /\ Free
        /\ RuntimeStart(s)
        /\ Job(s, "verify", None) /\ UNCHANGED <<rec, res>>
     \/ /\ IF Docker(s) = "created" THEN Spend("faults") ELSE Free
        /\ BootFailed(s) /\ UNCHANGED ctr
  /\ UNCHANGED <<warm, draining, del, poll, setter, boot, fileVars, names, now, up, promised>>

\* _verify_ready, then a last look at the record: was it deleted meanwhile?
\* Mutant: nobody looks.
MutBootedState(s) == "CREATING"
BootedState(s) == rec[s].state
CreateVerify(s) ==
  /\ At(s, "verify")
  /\ \/ /\ Docker(s) = "running" /\ BootedState(s) = "CREATING" /\ Free
        /\ rec' = [rec EXCEPT ![s].state = "RUNNING"]
        /\ res' = [res EXCEPT ![s] = IF @ = "none" THEN @ ELSE "committed"]
        /\ Job(s, "save", None)
     \/ /\ Docker(s) = "running" /\ BootedState(s) # "CREATING" /\ Free
        /\ res' = [res EXCEPT ![s] = "none"]
        /\ Job(s, "discard", None) /\ UNCHANGED rec
     \/ /\ IF Docker(s) = "running" THEN Spend("faults") ELSE Free
        /\ BootFailed(s)
  /\ UNCHANGED <<warm, draining, del, poll, setter, boot, fileVars, dockVars, now, up, promised>>

CreateCleanup(s) ==
  /\ up /\ job[s].pc \in {"failed", "discard"}
  /\ Removed(s)
  /\ rec' = [rec EXCEPT ![s] = IF job[s].pc = "failed" THEN NoRec ELSE @]
  /\ Job(s, "save", None)
  /\ UNCHANGED <<res, warm, draining, del, poll, setter, boot, fileVars, now, up, promised>>

CreateSave(s) ==
  /\ At(s, "save") /\ TakeState(s)
  /\ Job(s, "saving", job[s].slot)
  /\ UNCHANGED <<rec, res, warm, draining, del, poll, setter, boot, dockVars, now, up, promised, budget>>

\* What the caller is told: an exception popped the record; else view(record), which may
\* have ended while the file was written.
Answer(s) == CASE rec[s].state = "ABSENT" -> "error"
               [] rec[s].state = "RUNNING" -> "done"
               [] OTHER -> "ended"
Answers == {"done", "ended", "error", "rejected"}
CreateAnswer(s) ==
  /\ At(s, "saving") /\ PutState(s)
  /\ Job(s, Answer(s), None)
  /\ promised' = [promised EXCEPT ![s] = IF rec[s].state = "RUNNING" /\ Docker(s) = "running"
                                             THEN 1 ELSE 0]
  /\ UNCHANGED <<rec, res, warm, draining, del, poll, setter, boot, dockVars, now, up>>

CreateStep(s) ==
  \/ CreateAdopt(s) \/ CreateAdopted(s) \/ CreateUnslot(s)
  \/ EnsureImageFails(s) \/ CreateContainer(s)
  \/ CreateStart(s) \/ CreateVerify(s) \/ CreateCleanup(s) \/ CreateSave(s) \/ CreateAnswer(s)

-----------------------------------------------------------------------------
(* delete_sandbox and reap_expired *)

Del(d, pc, s) == del' = [del EXCEPT ![d] = [pc |-> pc, sb |-> s]]
Locked(s) == \E d \in Deleters \cup {Reaper} : del[d].pc \notin {"idle", "stray"} /\ del[d].sb = s

\* Mutant: off by one.
MutDue(s) == rec[s].state \in Live /\ rec[s].exp < now
Due(s) == rec[s].state \in Live /\ rec[s].exp <= now

\* Under the sandbox's lock, which a sandbox without a record does not need; a record that
\* is over is left alone.
DeleteBegin(d, s) ==
  /\ up /\ del[d].pc = "idle" /\ (rec[s].state = "ABSENT" \/ ~Locked(s))
  /\ IF d = Reaper THEN Due(s)
     ELSE rec[s].state \notin Over /\ job[s].pc # "idle"
  /\ IF rec[s].state = "ABSENT"
     THEN Del(d, "stray", s) /\ UNCHANGED <<rec, promised>>
     ELSE /\ rec' = [rec EXCEPT ![s].state = "STOPPING"]
          /\ Del(d, "remove", s)
          /\ promised' = [promised EXCEPT ![s] = 0]
  /\ UNCHANGED <<res, warm, draining, job, poll, setter, boot, fileVars, dockVars, now, up, budget>>

\* No record: remove a stray container of that name, answer "deleted".
DeleteStray(d) ==
  /\ up /\ del[d].pc = "stray"
  /\ Removed(del[d].sb)
  /\ Del(d, "idle", None)
  /\ promised' = [promised EXCEPT ![del[d].sb] = 0]
  /\ UNCHANGED <<rec, res, warm, draining, job, poll, setter, boot, fileVars, now, up>>

\* commands.kill_all, runtime.stop, runtime.remove, then the final state.
\* Mutant: the reservation is not given back.
MutDeleteRemove(d) ==
  LET s == del[d].sb IN
  /\ up /\ del[d].pc = "remove"
  /\ Removed(s)
  /\ rec' = [rec EXCEPT ![s] = IF @ = NoRec THEN @
                               ELSE [@ EXCEPT !.state = IF d = Reaper THEN "EXPIRED" ELSE "STOPPED"]]
  /\ Del(d, "save", s)
  /\ UNCHANGED <<res, warm, draining, job, poll, setter, boot, fileVars, now, up, promised>>
DeleteRemove(d) ==
  LET s == del[d].sb IN
  /\ up /\ del[d].pc = "remove"
  /\ Removed(s)
  /\ rec' = [rec EXCEPT ![s] = IF @ = NoRec THEN @   \* popped by a create that failed
                               ELSE [@ EXCEPT !.state = IF d = Reaper THEN "EXPIRED" ELSE "STOPPED"]]
  /\ res' = [res EXCEPT ![s] = "none"]
  /\ Del(d, "save", s)
  /\ UNCHANGED <<warm, draining, job, poll, setter, boot, fileVars, now, up, promised>>

DeleteSave(d) ==
  /\ up /\ del[d].pc = "save" /\ TakeState(d)
  /\ Del(d, "saving", del[d].sb)
  /\ UNCHANGED <<rec, res, warm, draining, job, poll, setter, boot, dockVars, now, up, promised, budget>>

DeleteAnswer(d) ==
  /\ up /\ del[d].pc = "saving" /\ PutState(d)
  /\ Del(d, "idle", None)
  /\ UNCHANGED <<rec, res, warm, draining, job, poll, setter, boot, dockVars, now, up, promised>>

DeleteStep(d) == DeleteStray(d) \/ DeleteRemove(d) \/ DeleteSave(d) \/ DeleteAnswer(d)

-----------------------------------------------------------------------------
(* _refresh and set_expiration *)

PollBegin(s) ==
  /\ up /\ poll.pc = "idle" /\ rec[s].state = "RUNNING"
  /\ poll' = [pc |-> "inspect", sb |-> s, saw |-> "running"]
  /\ UNCHANGED <<rec, res, warm, draining, job, del, setter, boot, fileVars, dockVars, now, up, promised, budget>>

\* runtime.inspect, in a thread: any error reads as "does not exist".
PollInspect ==
  LET s == poll.sb IN
  /\ up /\ poll.pc = "inspect"
  /\ \/ Free /\ poll' = [poll EXCEPT !.pc = "apply", !.saw = Docker(s)]
        /\ names' = [names EXCEPT ![s] = IF Docker(s) = "none" THEN None ELSE ContainerOf(s)]
     \/ /\ Docker(s) # "none" /\ Spend("leaks")
        /\ poll' = [poll EXCEPT !.pc = "apply", !.saw = "none"]
        /\ names' = [names EXCEPT ![s] = None]
  /\ UNCHANGED <<rec, res, warm, draining, job, del, setter, boot, fileVars, ctr, now, up, promised>>

\* Mutant: a container that is gone altogether is overlooked.
MutEnded(s) == poll.saw = "exited" /\ rec[s].state = "RUNNING"
Ended(s) == poll.saw = "none" \/ (poll.saw = "exited" /\ rec[s].state = "RUNNING")

PollApply ==
  LET s == poll.sb
      end == IF poll.saw = "none" THEN "LOST" ELSE "STOPPED"
  IN
  /\ up /\ poll.pc = "apply"
  /\ IF Ended(s)
     THEN /\ rec' = [rec EXCEPT ![s].state = end]
          /\ res' = [res EXCEPT ![s] = "none"]
          /\ promised' = [promised EXCEPT ![s] = 0]
          /\ poll' = [poll EXCEPT !.pc = "save"]
     ELSE poll' = IdlePoll /\ UNCHANGED <<rec, res, promised>>
  /\ UNCHANGED <<warm, draining, job, del, setter, boot, fileVars, dockVars, now, up, budget>>

PollSave ==
  /\ up /\ poll.pc = "save" /\ TakeState(Poll)
  /\ poll' = [poll EXCEPT !.pc = "saving"]
  /\ UNCHANGED <<rec, res, warm, draining, job, del, setter, boot, dockVars, now, up, promised, budget>>

PollSaved ==
  /\ up /\ poll.pc = "saving" /\ PutState(Poll)
  /\ poll' = IF poll.saw = "exited" THEN [poll EXCEPT !.pc = "remove"] ELSE IdlePoll
  /\ UNCHANGED <<rec, res, warm, draining, job, del, setter, boot, dockVars, now, up, promised>>

PollRemove ==
  /\ up /\ poll.pc = "remove" /\ Removed(poll.sb)
  /\ poll' = IdlePoll
  /\ UNCHANGED <<rec, res, warm, draining, job, del, setter, boot, fileVars, now, up, promised>>

PollStep == PollInspect \/ PollApply \/ PollSave \/ PollSaved \/ PollRemove

Known(s) == rec[s].state # "ABSENT"
SetBegin(s) ==
  /\ up /\ setter.pc = "idle" /\ Known(s) /\ rec[s].exp < 2 /\ MaxNow > 1
  /\ rec' = [rec EXCEPT ![s].exp = 2]
  /\ setter' = [pc |-> "save", sb |-> s]
  /\ UNCHANGED <<res, warm, draining, job, del, poll, boot, fileVars, dockVars, now, up, promised, budget>>

SetSave ==
  /\ up /\ setter.pc = "save" /\ TakeState(Setter)
  /\ setter' = [setter EXCEPT !.pc = "saving"]
  /\ UNCHANGED <<rec, res, warm, draining, job, del, poll, boot, dockVars, now, up, promised, budget>>

SetAnswer ==
  LET s == setter.sb IN
  /\ up /\ setter.pc = "saving" /\ PutState(Setter)
  /\ setter' = IdleDel
  /\ promised' = [promised EXCEPT ![s] = IF @ = 0 THEN 0 ELSE 2]
  /\ UNCHANGED <<rec, res, warm, draining, job, del, poll, boot, dockVars, now, up>>

-----------------------------------------------------------------------------
(* The warm loop: _wants_warm_slot and _boot_warm *)

\* An id nothing remembers stands for a new one.
Fresh(w) == /\ ctr[w] = "none" /\ w \notin warm /\ \A id \in Ids : names[id] # w
            /\ \A s \in Sandboxes : job[s].slot # w /\ rec[s].at # w /\ saved[s].at # w /\ payload[s].at # w

WarmBegin(w) ==
  /\ up /\ boot.pc = "idle" /\ Fresh(w)
  /\ Cardinality(warm) < WarmSlots /\ Admits(res, w)
  /\ res' = [res EXCEPT ![w] = "pending"]
  /\ boot' = [pc |-> "image", sb |-> w]
  /\ UNCHANGED <<rec, warm, draining, job, del, poll, setter, fileVars, dockVars, now, up, promised, budget>>

WarmFailed == /\ res' = [res EXCEPT ![boot.sb] = "none"]
              /\ boot' = [boot EXCEPT !.pc = "remove"]

\* ensure_image, runtime.create and runtime.start.
WarmContainer ==
  LET w == boot.sb IN
  /\ up /\ boot.pc = "image"
  /\ \/ /\ Free /\ ctr' = [ctr EXCEPT ![w] = "running"] /\ names' = [names EXCEPT ![w] = w]
        /\ boot' = [boot EXCEPT !.pc = "verify"] /\ UNCHANGED res
     \/ Spend("faults") /\ WarmFailed /\ UNCHANGED dockVars
  /\ UNCHANGED <<rec, warm, draining, job, del, poll, setter, fileVars, now, up, promised>>

WarmReady ==
  LET w == boot.sb IN
  /\ up /\ boot.pc = "verify"
  /\ \/ /\ Docker(w) = "running" /\ Free
        /\ res' = [res EXCEPT ![w] = "committed"]
        /\ warm' = warm \cup {w} /\ boot' = IdleDel
     \/ /\ IF Docker(w) = "running" THEN Spend("faults") ELSE Free
        /\ WarmFailed /\ UNCHANGED warm
  /\ UNCHANGED <<rec, draining, job, del, poll, setter, fileVars, dockVars, now, up, promised>>

WarmRemove ==
  /\ up /\ boot.pc = "remove" /\ Removed(boot.sb)
  /\ boot' = IdleDel
  /\ UNCHANGED <<rec, res, warm, draining, job, del, poll, setter, fileVars, now, up, promised>>

WarmStep == WarmContainer \/ WarmReady \/ WarmRemove

-----------------------------------------------------------------------------
(* The environment, a crash, and start() with reconcile() *)

SetDraining ==
  /\ up /\ Spend("drains") /\ draining' = ~draining
  /\ UNCHANGED <<rec, res, warm, taskVars, fileVars, dockVars, now, up, promised>>

Tick ==
  /\ now < MaxNow /\ now' = now + 1
  /\ UNCHANGED <<rec, res, warm, draining, taskVars, fileVars, dockVars, up, promised, budget>>

\* A container exits (out of memory, its command ends) or is removed by hand.
ContainerEnds(l) ==
  /\ ctr[l] = "running" /\ Spend("exits")
  /\ \E how \in {"exited", "none"} : ctr' = [ctr EXCEPT ![l] = how]
  /\ promised' = [s \in Sandboxes |-> IF ContainerOf(s) = l \/ saved[s].at = l THEN 0 ELSE promised[s]]
  /\ UNCHANGED <<rec, res, warm, draining, taskVars, fileVars, names, now, up>>

Crash ==
  /\ up /\ Spend("crashes") /\ up' = FALSE
  /\ rec' = [s \in Sandboxes |-> NoRec] /\ res' = [id \in Ids |-> "none"]
  /\ warm' = {} /\ names' = [id \in Ids |-> None] /\ draining' = FALSE
  /\ job' = [s \in Sandboxes |-> [pc |-> IF job[s].pc \in Answers \cup {"idle"} THEN job[s].pc ELSE "lost",
                                 slot |-> None]]
  /\ del' = [d \in Deleters \cup {Reaper} |-> IdleDel]
  /\ poll' = IdlePoll /\ setter' = IdleDel /\ boot' = IdleDel
  /\ saver' = NoTask /\ payload' = [s \in Sandboxes |-> NoSave]
  /\ UNCHANGED <<saved, ctr, now, promised>>

\* Whose container is it?  The state file (runtime.remember) wins over the label.
Claims(l) == {s \in Sandboxes : saved[s].at = l}
\* Mutant: the label wins.
MutOwner(l) == l
Owner(l) == IF Claims(l) # {} THEN CHOOSE s \in Claims(l) : TRUE ELSE l
Restart ==
  LET present  == {l \in Ids : ctr[l] # "none"}
      leftover == {l \in present : Owner(l) \in Slots \/ ctr[l] # "running"}
      Mine(s)  == {l \in present : Owner(l) = s}
  IN
  /\ ~up /\ up' = TRUE
  /\ \E stuck \in SUBSET leftover :   \* remove() failed, the error is suppressed
       /\ IF stuck = {} THEN Free ELSE Spend("leaks")
       /\ ctr' = [l \in Ids |-> IF l \in leftover \ stuck THEN "none" ELSE ctr[l]]
  /\ rec' = [s \in Sandboxes |->
               IF Mine(s) = {} THEN NoRec
               ELSE LET l == CHOOSE l \in Mine(s) : TRUE IN
                    [state |-> IF ctr[l] = "running" THEN "RUNNING" ELSE "STOPPED",
                     exp |-> IF saved[s] = NoSave THEN 1 ELSE saved[s].exp, at |-> l]]
  /\ names' = [id \in Ids |-> IF \E l \in present \ leftover : Owner(l) = id
                              THEN CHOOSE l \in present \ leftover : Owner(l) = id ELSE None]
  /\ res' = [id \in Ids |-> IF \E l \in present \ leftover : Owner(l) = id THEN "committed" ELSE "none"]
  /\ saved' = [s \in Sandboxes |-> IF rec'[s].state = "RUNNING"
                                   THEN [exp |-> rec'[s].exp, at |-> rec'[s].at] ELSE NoSave]
  /\ UNCHANGED <<warm, draining, taskVars, saver, payload, now, promised>>

-----------------------------------------------------------------------------

Init ==
  /\ rec = [s \in Sandboxes |-> NoRec] /\ res = [id \in Ids |-> "none"]
  /\ warm = {} /\ draining = FALSE
  /\ job = [s \in Sandboxes |-> [pc |-> "idle", slot |-> None]]
  /\ del = [d \in Deleters \cup {Reaper} |-> IdleDel]
  /\ poll = IdlePoll /\ setter = IdleDel /\ boot = IdleDel
  /\ saver = NoTask /\ payload = [s \in Sandboxes |-> NoSave] /\ saved = [s \in Sandboxes |-> NoSave]
  /\ ctr = [id \in Ids |-> "none"] /\ names = [id \in Ids |-> None]
  /\ now = 0 /\ up = TRUE
  /\ promised = [s \in Sandboxes |-> 0]
  /\ budget = [faults |-> MaxFaults, leaks |-> MaxLeaks, drains |-> MaxDrains,
               exits |-> MaxExits, crashes |-> MaxCrashes, any |-> MaxTroubles]

Next ==
  \/ \E s \in Sandboxes : CreateBegin(s) \/ CreateStep(s) \/ PollBegin(s) \/ SetBegin(s)
  \/ \E d \in Deleters \cup {Reaper} : DeleteStep(d) \/ \E s \in Sandboxes : DeleteBegin(d, s)
  \/ PollStep \/ SetSave \/ SetAnswer
  \/ WarmStep \/ \E w \in Slots : WarmBegin(w)
  \/ SetDraining \/ Tick \/ \E l \in Ids : ContainerEnds(l)
  \/ Crash \/ Restart

Spec == Init /\ [][Next]_vars

\* The event loop runs every ready task, the reaper loop and the supervisor never stop.  One
\* thing would end the reaper loop for good, and is assumed not to happen: the CancelledError
\* of a command's task, which kill() and kill_all() suppress no more than the loop does.
Fairness ==
  /\ \A s \in Sandboxes : WF_vars(CreateStep(s)) /\ SF_vars(DeleteBegin(Reaper, s))
                          /\ SF_vars(PollBegin(s))
  /\ \A d \in Deleters \cup {Reaper} : WF_vars(DeleteStep(d))
  /\ WF_vars(PollStep) /\ WF_vars(SetSave \/ SetAnswer) /\ WF_vars(WarmStep) /\ WF_vars(Restart)
FairSpec == Spec /\ Fairness

-----------------------------------------------------------------------------
(* Properties *)

\* What is reserved and what exists agree at every await, whichever of create,
\* delete, reaper, refresh and warm loop ran last: a reservation belongs to a
\* sandbox that is not over or to a create that is adopting, a running sandbox
\* is counted, a slot is counted while it is warm or booting (no capacity leaks).
CapacityMatchesRecords ==
  up => /\ \A s \in Sandboxes :
             /\ res[s] # "none" => \/ rec[s].state \in Live \cup {"STOPPING"}
                                   \/ job[s].pc \in {"adopt", "adopted"}
             /\ rec[s].state = "RUNNING" => res[s] = "committed"
        /\ \A w \in Slots : res[w] # "none" <=> w \in warm \/ (boot.sb = w /\ boot.pc # "remove")

\* The worker never admits more than it has, through all swaps of a slot's
\* reservation for a request's, evictions and failed adoptions (try_reserve,
\* adopt), as long as it has not restarted.
WithinCapacity == budget.crashes = MaxCrashes => Total(Held(res)) <= Units

Answered(l) ==
  \/ l \in warm \/ boot.sb = l
  \/ \E s \in Sandboxes : \/ job[s].slot = l
                          \/ rec[s].at = l /\ rec[s].state \in {"RUNNING", "STOPPING"}
  \/ l \in Sandboxes /\ job[l].pc \in {"verify", "discard", "failed"}
\* No container runs that nobody answers for: it belongs to a record that is not
\* over, to a create or boot that will look at it again, or to a slot that is
\* warm or being removed (unless Docker failed to remove it).
NoStrayContainer ==
  up /\ budget.leaks = MaxLeaks => \A l \in Ids : ctr[l] = "running" => Answered(l)

\* What is over stays over: no late step of a create, adoption or refresh makes a
\* deleted or expired sandbox live again while the daemon runs (a part of KeepsContract).
OverStaysOver ==
  [][\A s \in Sandboxes : up /\ up' /\ rec[s].state \in Over => rec'[s].state \notin Live]_<<rec, up>>

\* What the caller was promised survives a restart: a sandbox that was answered as
\* running, and not ended since, is running, with at least the deadline last
\* acknowledged (state file, adopted slots, _load_state, set_expiration), unless a
\* write of the state file failed.
PromiseKept ==
  up /\ budget.leaks = MaxLeaks =>
    \A s \in Sandboxes : promised[s] # 0 =>
      /\ rec[s].state = "RUNNING" /\ rec[s].exp >= promised[s]
      /\ rec[s].at # None /\ ctr[rec[s].at] = "running"

\* What the control plane sees of a sandbox and of its create request.
Shown(st) == CASE st \in {"ABSENT", "CREATING", "RUNNING"} -> st
               [] OTHER -> "OVER"
Stage(pc) == CASE pc \in {"idle", "adopt", "adopted", "unslot", "evict"} -> "none"
               [] pc \in {"image", "start", "verify", "failed", "discard"} -> "working"
               [] pc \in {"save", "saving"} -> "saving"
               [] OTHER -> pc
Contract == INSTANCE WorkerContract WITH
  Room <- Units,
  view <- [s \in Sandboxes |-> Shown(rec[s].state)],
  call <- [s \in Sandboxes |-> Stage(job[s].pc)]

\* Admission, boots, warm slots, deletes, the reaper, polls, failures and restarts of the
\* daemon amount to no more than WorkerContract allows: what the control plane may rely on.
KeepsContract == Contract!Promise

\* Every create is answered: nobody waits for ever on the state-file lock, an
\* eviction or a boot (at most as many evictions as there are slots to evict), unless
\* the daemon ends under it.
CreateAnswered ==
  \A s \in Sandboxes : job[s].pc # "idle" ~> job[s].pc \in Answers \cup {"lost"}

Overdue(s) == up /\ rec[s].state \in Live /\ rec[s].exp <= now
\* A sandbox past its deadline does not stay live (reaper loop), restarts included.
ExpiredIsReaped == \A s \in Sandboxes : Overdue(s) ~> ~Overdue(s)

Vanished(s) == up /\ rec[s].state = "RUNNING" /\ Docker(s) \in {"none", "exited"}
\* A sandbox whose container has gone does not stay RUNNING (_poll_running).
VanishedIsNoticed == \A s \in Sandboxes : Vanished(s) ~> ~Vanished(s)
=============================================================================
