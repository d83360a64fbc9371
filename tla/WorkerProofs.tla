---------------------------- MODULE WorkerProofs ----------------------------
(***************************************************************************)
(* What TLAPS proves about WorkerService, for every set of sandboxes and    *)
(* warm slots, every size of the worker and every bound on the troubles:    *)
(* capacity, what stays over, the contract with the control plane, stray    *)
(* containers, and what the caller was promised.                            *)
(***************************************************************************)
EXTENDS WorkerService, FiniteSetTheorems, TLAPS

-----------------------------------------------------------------------------
(* Types *)

States == {"ABSENT", "CREATING", "RUNNING", "STOPPING"} \cup Over
DeleteTasks == Deleters \cup {Reaper}
Records == [state : States, exp : Nat, at : Ids \cup {None}]
Saves == [exp : Nat, at : Ids \cup {None}]
SlotPCs == {"adopt", "adopted", "unslot", "evict"}
EarlyPCs == {"idle", "rejected"} \cup SlotPCs
BootPCs == {"image", "start", "verify"}
LatePCs == {"save", "saving", "done", "ended", "error", "lost"}
\* Nobody works on the request: it has not come, or it was answered, or it never will be.
RestPCs == {"idle", "rejected", "done", "ended", "error", "lost"}
JobPCs == EarlyPCs \cup BootPCs \cup LatePCs \cup {"failed", "discard"}
Jobs == [pc : JobPCs, slot : Slots \cup {None}]
DelPCs == {"idle", "stray", "remove", "save", "saving"}
Dels == [pc : DelPCs, sb : Sandboxes \cup {None}]
PollPCs == {"idle", "inspect", "apply", "save", "saving", "remove"}
Docked == {"none", "created", "running", "exited"}
Polls == [pc : PollPCs, sb : Sandboxes \cup {None}, saw : Docked]
Setters == [pc : {"idle", "save", "saving"}, sb : Sandboxes \cup {None}]
Boots == [pc : {"idle", "image", "verify", "remove"}, sb : Slots \cup {None}]
Budgets == [faults : Nat, leaks : Nat, drains : Nat, exits : Nat, crashes : Nat, any : Nat]

TablesOK == /\ rec \in [Sandboxes -> Records] /\ res \in [Ids -> {"none", "pending", "committed"}]
            /\ warm \in SUBSET Slots /\ draining \in BOOLEAN
JobsOK == /\ job \in [Sandboxes -> Jobs]
          /\ \A s \in Sandboxes : job[s].pc \in SlotPCs => job[s].slot \in Slots
DelsOK == /\ del \in [DeleteTasks -> Dels]
          /\ \A d \in DeleteTasks : del[d].pc # "idle" => del[d].sb \in Sandboxes
OthersOK == /\ poll \in Polls /\ (poll.pc # "idle" => poll.sb \in Sandboxes)
            /\ setter \in Setters /\ (setter.pc # "idle" => setter.sb \in Sandboxes)
            /\ boot \in Boots /\ (boot.pc = "idle" <=> boot.sb = None)
FilesOK == /\ saver \in Tasks \cup {NoTask}
           /\ payload \in [Sandboxes -> Saves] /\ saved \in [Sandboxes -> Saves]
DockOK == ctr \in [Ids -> Docked] /\ names \in [Ids -> Ids \cup {None}]
WorldOK == /\ now \in Nat /\ up \in BOOLEAN /\ promised \in [Sandboxes -> Nat]
           /\ budget \in Budgets
TypeOK == TablesOK /\ JobsOK /\ DelsOK /\ OthersOK /\ FilesOK /\ DockOK /\ WorldOK

-----------------------------------------------------------------------------
(* The inductive invariant *)

\* How far a create has come says what its record and its reservation can be.
StageOf(s) ==
  /\ job[s].pc \in EarlyPCs => rec[s] = NoRec
  /\ job[s].pc \in {"idle", "rejected", "unslot", "evict", "failed", "discard"} => res[s] = "none"
  /\ job[s].pc \in BootPCs => rec[s].state \in {"CREATING", "STOPPING", "STOPPED", "EXPIRED"}
  /\ job[s].pc \in {"adopt", "adopted"} => res[s] = "pending"
  /\ job[s].pc = "failed" => rec[s].state \in Over
  /\ job[s].pc = "discard" => rec[s].state \in Over \cup {"STOPPING"}
  /\ rec[s].state = "CREATING" => job[s].pc \in BootPCs /\ res[s] = "pending"
  /\ rec[s].state = "RUNNING" => job[s].pc \in LatePCs /\ res[s] = "committed"
  /\ res[s] # "none" => rec[s].state \in Live \cup {"STOPPING"} \/ job[s].pc \in {"adopt", "adopted"}
Stages == \A s \in Sandboxes : StageOf(s)

\* A delete or a poll under way is about a sandbox that has, or had, a record.
UnderWay ==
  /\ \A d \in DeleteTasks : del[d].pc = "remove" =>
       job[del[d].sb].pc \notin EarlyPCs /\ rec[del[d].sb].state \notin Live
  /\ poll.pc # "idle" => job[poll.sb].pc \in LatePCs /\ rec[poll.sb].state \notin {"ABSENT", "CREATING"}

\* A slot is reserved while it is warm or booting, and it is never both.
SlotsReserved ==
  /\ boot.sb \notin warm
  /\ \A w \in Slots : res[w] # "none" <=> w \in warm \/ (boot.sb = w /\ boot.pc # "remove")

\* A crash forgets everything but the containers and the file.
Down ==
  ~up => /\ \A s \in Sandboxes : rec[s] = NoRec /\ job[s].pc \in RestPCs /\ job[s].slot = None
         /\ \A id \in Ids : res[id] = "none" /\ names[id] = None
         /\ warm = {} /\ boot = IdleDel /\ poll = IdlePoll /\ setter = IdleDel
         /\ \A d \in DeleteTasks : del[d] = IdleDel
         /\ saver = NoTask /\ payload = [s \in Sandboxes |-> NoSave]

\* A sandbox has one container: the one with its label, or the slot it adopted.
OneContainer ==
  \A s \in Sandboxes :
    /\ {rec[s].at, payload[s].at, saved[s].at, names[s]} \subseteq Slots \cup {s, None}
    /\ job[s].pc \in EarlyPCs \cup {"image"} =>
         ctr[s] = "none" /\ rec[s].at = None /\ payload[s].at = None /\ saved[s].at = None
    /\ ctr[s] # "none" => {rec[s].at, payload[s].at, saved[s].at, names[s]} \subseteq {s, None}
    /\ job[s].pc = "start" => names[s] \in {s, None}

CapInv == TypeOK /\ Stages /\ UnderWay /\ SlotsReserved /\ Down /\ OneContainer

-----------------------------------------------------------------------------
(* Types are kept *)

Kinds == {"faults", "leaks", "drains", "exits", "crashes"}

\* Spending keeps the budget a budget, and no kind of trouble is ever paid back.
LEMMA SpendOK ==
  ASSUME budget \in Budgets, (\E kind \in Kinds : Spend(kind)) \/ Free
  PROVE  /\ budget' \in Budgets
         /\ \A k \in Kinds : budget'[k] <= budget[k]
BY DEF Spend, Free, Budgets, Kinds

\* The values that stand for nothing have their types.
LEMMA IdleOK ==
  /\ NoRec \in Records /\ NoSave \in Saves
  /\ IdleDel \in Dels /\ IdleDel \in Setters /\ IdleDel \in Boots /\ IdlePoll \in Polls
BY DEF NoRec, NoSave, IdleDel, IdlePoll, Records, Saves, States, Dels, DelPCs, Setters, Boots,
       Polls, PollPCs, Docked

\* The container of an id is a container, and removing it takes away no other.
LEMMA RemovedOK ==
  ASSUME DockOK, budget \in Budgets, NEW id \in Ids, Removed(id)
  PROVE  /\ DockOK' /\ budget' \in Budgets
         /\ \A k \in Kinds : budget'[k] <= budget[k]
<1>1. DockOK'
  BY DEF DockOK, Removed, Docked
<1>2. (\E kind \in Kinds : Spend(kind)) \/ Free
  BY DEF Removed, Kinds
<1> QED BY <1>1, <1>2, SpendOK

\* One job goes on.
LEMMA JobOK ==
  ASSUME JobsOK, NEW s \in Sandboxes, NEW pc \in JobPCs, NEW slot \in Slots \cup {None},
         pc \in SlotPCs => slot \in Slots, Job(s, pc, slot)
  PROVE  JobsOK'
BY DEF JobsOK, Jobs, Job

\* One delete goes on.
LEMMA DelOK ==
  ASSUME DelsOK, NEW d \in DeleteTasks, NEW pc \in DelPCs, NEW s \in Sandboxes \cup {None},
         pc # "idle" => s \in Sandboxes, Del(d, pc, s)
  PROVE  DelsOK'
BY DEF DelsOK, Dels, Del

\* What is written to the state file is a state file.
LEMMA TakeOK ==
  ASSUME FilesOK, TablesOK, NEW t \in Tasks, TakeState(t)
  PROVE  FilesOK'
BY IdleOK DEF FilesOK, TablesOK, TakeState, LiveRecords, Records, Saves

\* A write leaves a state file, and pays only for a failed write.
LEMMA PutOK ==
  ASSUME FilesOK, budget \in Budgets, NEW t \in Tasks, PutState(t)
  PROVE  /\ FilesOK' /\ budget' \in Budgets
         /\ \A k \in Kinds : budget'[k] <= budget[k]
<1>1. (\E kind \in Kinds : Spend(kind)) \/ Free
  BY DEF PutState, Kinds
<1> QED BY <1>1, SpendOK DEF FilesOK, PutState

\* The cold path reserves for the request, or gives up a warm slot, or rejects.
LEMMA ColdOK ==
  ASSUME TablesOK, JobsOK, NEW s \in Sandboxes, ColdPath(s, res, warm), UNCHANGED draining
  PROVE  TablesOK' /\ JobsOK'
<1> USE DEF TablesOK, JobsOK, Job, Jobs, JobPCs, EarlyPCs, SlotPCs, BootPCs
<1>1. CASE /\ res' = [res EXCEPT ![s] = "pending"] /\ warm' = warm
           /\ rec' = [rec EXCEPT ![s] = [state |-> "CREATING", exp |-> 1, at |-> None]]
           /\ Job(s, "image", None)
  BY <1>1 DEF Records, States, Over
<1>2. CASE \E w \in warm : warm' = warm \ {w} /\ res' = [res EXCEPT ![w] = "none"]
                           /\ Job(s, "evict", w) /\ UNCHANGED rec
  BY <1>2 DEF Ids
<1>3. CASE res' = res /\ warm' = warm /\ Job(s, "rejected", None) /\ UNCHANGED rec
  BY <1>3
<1> QED BY <1>1, <1>2, <1>3 DEF ColdPath

\* CreateBegin keeps the types.
LEMMA TCreateBegin ==
  ASSUME TypeOK, NEW s \in Sandboxes, CreateBegin(s)
  PROVE  TypeOK'
<1> USE DEF TypeOK
<1>1. TablesOK' /\ JobsOK'
  <2>1. CASE ColdPath(s, res, warm)
    BY <2>1, ColdOK DEF CreateBegin
  <2>2. CASE Job(s, "rejected", None) /\ UNCHANGED <<rec, res, warm>>
    BY <2>2 DEF CreateBegin, TablesOK, JobsOK, Job, Jobs, JobPCs, EarlyPCs, SlotPCs
  <2>3. CASE \E w \in warm : /\ res' = [[res EXCEPT ![w] = "none"] EXCEPT ![s] = "pending"]
                             /\ warm' = warm \ {w} /\ Job(s, "adopt", w) /\ UNCHANGED rec
    <3>1. PICK w \in warm : /\ res' = [[res EXCEPT ![w] = "none"] EXCEPT ![s] = "pending"]
                            /\ warm' = warm \ {w} /\ Job(s, "adopt", w) /\ UNCHANGED rec
      BY <2>3
    <3>2. w \in Slots
      BY DEF TablesOK
    <3>3. TablesOK'
      BY <3>1, <3>2 DEF CreateBegin, TablesOK
    <3>4. JobsOK'
      BY <3>1, <3>2 DEF JobsOK, Job, Jobs, JobPCs, EarlyPCs, SlotPCs
    <3> QED BY <3>3, <3>4
  <2> QED BY <2>1, <2>2, <2>3 DEF CreateBegin, ClaimWarm
<1> QED BY <1>1 DEF DelsOK, OthersOK, FilesOK, DockOK, WorldOK, CreateBegin, fileVars, dockVars

\* Restart keeps the types.
LEMMA TRestart ==
  ASSUME TypeOK, Restart
  PROVE  TypeOK'
<1> USE DEF TypeOK
<1> DEFINE present == {l \in Ids : ctr[l] # "none"}
           leftover == {l \in present : Owner(l) \in Slots \/ ctr[l] # "running"}
           Mine(s) == {l \in present : Owner(l) = s}
<1>1. rec' \in [Sandboxes -> Records]
  <2> SUFFICES ASSUME NEW s \in Sandboxes PROVE rec'[s] \in Records
    BY DEF Restart
  <2>1. CASE Mine(s) = {}
    BY <2>1, IdleOK DEF Restart
  <2>2. CASE Mine(s) # {}
    <3> DEFINE l == CHOOSE l \in Mine(s) : TRUE
    <3>1. l \in Ids
      BY <2>2
    <3>2. rec'[s] = [state |-> IF ctr[l] = "running" THEN "RUNNING" ELSE "STOPPED",
                     exp |-> IF saved[s] = NoSave THEN 1 ELSE saved[s].exp, at |-> l]
      BY <2>2 DEF Restart
    <3>3. saved[s].exp \in Nat
      BY DEF FilesOK, Saves
    <3> HIDE DEF l
    <3> QED BY <3>1, <3>2, <3>3 DEF Records, States, Over
  <2> QED BY <2>1, <2>2
<1>2. TablesOK'
  BY <1>1 DEF TablesOK, Restart
<1>3. saved' \in [Sandboxes -> Saves]
  BY <1>1, IdleOK DEF Restart, Records, Saves
<1>4. FilesOK'
  BY <1>3 DEF FilesOK, Restart
<1>5. ctr' \in [Ids -> Docked]
  BY DEF DockOK, Restart, Docked
<1>6. names' \in [Ids -> Ids \cup {None}]
  <2> SUFFICES ASSUME NEW id \in Ids PROVE names'[id] \in Ids \cup {None}
    BY DEF Restart
  <2>1. CASE \E l \in present \ leftover : Owner(l) = id
    <3>1. (CHOOSE l \in present \ leftover : Owner(l) = id) \in Ids
      BY <2>1
    <3> QED BY <2>1, <3>1 DEF Restart
  <2> QED BY <2>1 DEF Restart
<1>7. WorldOK'
  BY SpendOK DEF WorldOK, Restart, Kinds
<1> QED BY <1>2, <1>4, <1>5, <1>6, <1>7 DEF JobsOK, DelsOK, OthersOK, DockOK, Restart, taskVars

\* CreateAdopt keeps the types.
LEMMA TCreateAdopt ==
  ASSUME TypeOK, NEW s \in Sandboxes, CreateAdopt(s)
  PROVE  TypeOK'
<1> USE DEF TypeOK
<1>1. TablesOK'
  BY DEF TablesOK, CreateAdopt, Job, At
<1>2. JobsOK'
  BY DEF JobsOK, CreateAdopt, Job, At, Jobs, JobPCs, EarlyPCs, SlotPCs
<1>3. DockOK'
  BY DEF DockOK, CreateAdopt, Job, At, RuntimeAdopt, JobsOK, SlotPCs, Ids
<1>4. WorldOK'
  BY SpendOK DEF WorldOK, CreateAdopt, Job, At, Kinds
<1> QED BY <1>1, <1>2, <1>3, <1>4 DEF DelsOK, OthersOK, FilesOK, CreateAdopt, taskVars, fileVars, dockVars

\* CreateAdopted keeps the types.
LEMMA TCreateAdopted ==
  ASSUME TypeOK, NEW s \in Sandboxes, CreateAdopted(s)
  PROVE  TypeOK'
<1> USE DEF TypeOK
<1>1. TablesOK'
  BY DEF TablesOK, CreateAdopted, Job, At, JobsOK, SlotPCs, Ids, Records, States, Over
<1>2. JobsOK'
  BY DEF JobsOK, CreateAdopted, Job, At, Jobs, JobPCs, EarlyPCs, SlotPCs, LatePCs
<1>3. WorldOK'
  BY SpendOK DEF WorldOK, CreateAdopted, Job, At, Kinds
<1> QED BY <1>1, <1>2, <1>3 DEF DelsOK, OthersOK, FilesOK, DockOK, CreateAdopted, taskVars, fileVars, dockVars

\* CreateUnslot keeps the types.
LEMMA TCreateUnslot ==
  ASSUME TypeOK, NEW s \in Sandboxes, CreateUnslot(s)
  PROVE  TypeOK'
<1> USE DEF TypeOK
<1>1. TablesOK'
  BY ColdOK DEF TablesOK, CreateUnslot, JobsOK
<1>2. JobsOK'
  BY ColdOK DEF JobsOK, CreateUnslot, TablesOK
<1>3. DockOK'
  BY RemovedOK DEF DockOK, CreateUnslot, JobsOK, SlotPCs, Ids, WorldOK
<1>4. WorldOK'
  BY RemovedOK DEF WorldOK, CreateUnslot, JobsOK, SlotPCs, Ids, DockOK
<1> QED BY <1>1, <1>2, <1>3, <1>4 DEF DelsOK, OthersOK, FilesOK, CreateUnslot, taskVars, fileVars, dockVars

\* EnsureImageFails keeps the types.
LEMMA TEnsureImageFails ==
  ASSUME TypeOK, NEW s \in Sandboxes, EnsureImageFails(s)
  PROVE  TypeOK'
<1> USE DEF TypeOK
<1>1. TablesOK'
  BY DEF TablesOK, EnsureImageFails, Job, At, BootFailed, Records, States, Over
<1>2. JobsOK'
  BY DEF JobsOK, EnsureImageFails, Job, At, BootFailed, Jobs, JobPCs, SlotPCs
<1>3. WorldOK'
  BY SpendOK DEF WorldOK, EnsureImageFails, Job, At, BootFailed, Kinds
<1> QED BY <1>1, <1>2, <1>3 DEF DelsOK, OthersOK, FilesOK, DockOK, EnsureImageFails, taskVars, fileVars,
                                dockVars

\* CreateContainer keeps the types.
LEMMA TCreateContainer ==
  ASSUME TypeOK, NEW s \in Sandboxes, CreateContainer(s)
  PROVE  TypeOK'
<1> USE DEF TypeOK
<1>1. TablesOK'
  BY DEF TablesOK, CreateContainer, Job, At, BootFailed, Records, States, Over, Ids
<1>2. JobsOK'
  BY DEF JobsOK, CreateContainer, Job, At, BootFailed, Jobs, JobPCs, BootPCs, SlotPCs
<1>3. DockOK'
  BY DEF DockOK, CreateContainer, Job, At, BootFailed, RuntimeCreate, Ids, Docked, dockVars
<1>4. WorldOK'
  BY SpendOK DEF WorldOK, CreateContainer, Job, At, BootFailed, Kinds
<1> QED BY <1>1, <1>2, <1>3, <1>4 DEF DelsOK, OthersOK, FilesOK, CreateContainer, taskVars, fileVars, dockVars

\* CreateStart keeps the types.
LEMMA TCreateStart ==
  ASSUME TypeOK, NEW s \in Sandboxes, CreateStart(s)
  PROVE  TypeOK'
<1> USE DEF TypeOK
<1>1. TablesOK'
  BY DEF TablesOK, CreateStart, Job, At, BootFailed, Records, States, Over
<1>2. JobsOK'
  BY DEF JobsOK, CreateStart, Job, At, BootFailed, Jobs, JobPCs, BootPCs, SlotPCs
<1>3. DockOK'
  BY DEF DockOK, CreateStart, Job, At, BootFailed, RuntimeStart, Docked
<1>4. WorldOK'
  BY SpendOK DEF WorldOK, CreateStart, Job, At, BootFailed, Kinds
<1> QED BY <1>1, <1>2, <1>3, <1>4 DEF DelsOK, OthersOK, FilesOK, CreateStart, taskVars, fileVars, dockVars

\* CreateVerify keeps the types.
LEMMA TCreateVerify ==
  ASSUME TypeOK, NEW s \in Sandboxes, CreateVerify(s)
  PROVE  TypeOK'
<1> USE DEF TypeOK
<1>1. TablesOK'
  BY DEF TablesOK, CreateVerify, Job, At, BootFailed, Records, States, Over
<1>2. JobsOK'
  BY DEF JobsOK, CreateVerify, Job, At, BootFailed, Jobs, JobPCs, LatePCs, SlotPCs
<1>3. WorldOK'
  BY SpendOK DEF WorldOK, CreateVerify, Job, At, BootFailed, Kinds
<1> QED BY <1>1, <1>2, <1>3 DEF DelsOK, OthersOK, FilesOK, DockOK, CreateVerify, taskVars, fileVars, dockVars

\* CreateCleanup keeps the types.
LEMMA TCreateCleanup ==
  ASSUME TypeOK, NEW s \in Sandboxes, CreateCleanup(s)
  PROVE  TypeOK'
<1> USE DEF TypeOK
<1>1. TablesOK'
  BY IdleOK DEF TablesOK, CreateCleanup, Job
<1>2. JobsOK'
  BY DEF JobsOK, CreateCleanup, Job, Jobs, JobPCs, LatePCs, SlotPCs
<1>3. DockOK'
  BY RemovedOK DEF DockOK, CreateCleanup, Job, Ids, WorldOK
<1>4. WorldOK'
  BY RemovedOK DEF WorldOK, CreateCleanup, Job, Ids, DockOK
<1> QED BY <1>1, <1>2, <1>3, <1>4 DEF DelsOK, OthersOK, FilesOK, CreateCleanup, taskVars, fileVars, dockVars

\* CreateSave keeps the types.
LEMMA TCreateSave ==
  ASSUME TypeOK, NEW s \in Sandboxes, CreateSave(s)
  PROVE  TypeOK'
<1> USE DEF TypeOK
<1>1. JobsOK'
  BY DEF JobsOK, CreateSave, At, Job, Jobs, JobPCs, LatePCs, SlotPCs
<1>2. FilesOK'
  BY TakeOK DEF FilesOK, CreateSave, At, Tasks, TablesOK
<1> QED BY <1>1, <1>2 DEF TablesOK, DelsOK, OthersOK, DockOK, WorldOK, CreateSave, taskVars, fileVars, dockVars

\* CreateAnswer keeps the types.
LEMMA TCreateAnswer ==
  ASSUME TypeOK, NEW s \in Sandboxes, CreateAnswer(s)
  PROVE  TypeOK'
<1> USE DEF TypeOK
<1>1. JobsOK'
  BY DEF JobsOK, CreateAnswer, Answer, At, Job, Jobs, JobPCs, LatePCs, SlotPCs
<1>2. FilesOK'
  BY PutOK DEF FilesOK, CreateAnswer, At, Tasks, WorldOK
<1>3. WorldOK'
  BY PutOK DEF WorldOK, CreateAnswer, At, Tasks
<1> QED BY <1>1, <1>2, <1>3 DEF TablesOK, DelsOK, OthersOK, DockOK, CreateAnswer, taskVars, fileVars, dockVars

\* DeleteBegin keeps the types.
LEMMA TDeleteBegin ==
  ASSUME TypeOK, NEW d \in DeleteTasks, NEW s \in Sandboxes, DeleteBegin(d, s)
  PROVE  TypeOK'
<1> USE DEF TypeOK
<1>1. TablesOK'
  BY DEF TablesOK, DeleteBegin, Records, States, Over
<1>2. DelsOK'
  BY DelOK DEF DelsOK, DeleteBegin, DelPCs
<1>3. WorldOK'
  BY DEF WorldOK, DeleteBegin
<1> QED BY <1>1, <1>2, <1>3 DEF JobsOK, OthersOK, FilesOK, DockOK, DeleteBegin, taskVars, fileVars, dockVars

\* DeleteStray keeps the types.
LEMMA TDeleteStray ==
  ASSUME TypeOK, NEW d \in DeleteTasks, DeleteStray(d)
  PROVE  TypeOK'
<1> USE DEF TypeOK
<1>1. DelsOK'
  BY DelOK DEF DelsOK, DeleteStray, DelPCs
<1>2. DockOK'
  BY RemovedOK DEF DockOK, DeleteStray, DelsOK, Ids, WorldOK
<1>3. WorldOK'
  BY RemovedOK DEF WorldOK, DeleteStray, DelsOK, Ids, DockOK
<1> QED BY <1>1, <1>2, <1>3 DEF TablesOK, JobsOK, OthersOK, FilesOK, DeleteStray, taskVars, fileVars, dockVars

\* DeleteRemove keeps the types.
LEMMA TDeleteRemove ==
  ASSUME TypeOK, NEW d \in DeleteTasks, DeleteRemove(d)
  PROVE  TypeOK'
<1> USE DEF TypeOK
<1>1. TablesOK'
  BY ZenonT(60) DEF TablesOK, DeleteRemove, Records, States, Over
<1>2. DelsOK'
  BY DelOK DEF DelsOK, DeleteRemove, DelPCs
<1>3. DockOK'
  BY RemovedOK DEF DockOK, DeleteRemove, DelsOK, Ids, WorldOK
<1>4. WorldOK'
  BY RemovedOK DEF WorldOK, DeleteRemove, DelsOK, Ids, DockOK
<1> QED BY <1>1, <1>2, <1>3, <1>4 DEF JobsOK, OthersOK, FilesOK, DeleteRemove, taskVars, fileVars, dockVars

\* DeleteSave keeps the types.
LEMMA TDeleteSave ==
  ASSUME TypeOK, NEW d \in DeleteTasks, DeleteSave(d)
  PROVE  TypeOK'
<1> USE DEF TypeOK
<1>1. DelsOK'
  BY DelOK DEF DelsOK, DeleteSave, DelPCs
<1>2. FilesOK'
  BY TakeOK DEF FilesOK, DeleteSave, Tasks, DeleteTasks, TablesOK
<1> QED BY <1>1, <1>2 DEF TablesOK, JobsOK, OthersOK, DockOK, WorldOK, DeleteSave, taskVars, fileVars, dockVars

\* DeleteAnswer keeps the types.
LEMMA TDeleteAnswer ==
  ASSUME TypeOK, NEW d \in DeleteTasks, DeleteAnswer(d)
  PROVE  TypeOK'
<1> USE DEF TypeOK
<1>1. DelsOK'
  BY DelOK DEF DelsOK, DeleteAnswer, DelPCs
<1>2. FilesOK'
  BY PutOK DEF FilesOK, DeleteAnswer, Tasks, DeleteTasks, WorldOK
<1>3. WorldOK'
  BY PutOK DEF WorldOK, DeleteAnswer, Tasks, DeleteTasks
<1> QED BY <1>1, <1>2, <1>3 DEF TablesOK, JobsOK, OthersOK, DockOK, DeleteAnswer, taskVars, fileVars, dockVars

\* PollBegin keeps the types.
LEMMA TPollBegin ==
  ASSUME TypeOK, NEW s \in Sandboxes, PollBegin(s)
  PROVE  TypeOK'
<1> USE DEF TypeOK
<1>1. OthersOK'
  BY DEF OthersOK, PollBegin, Polls, PollPCs, Docked
<1> QED BY <1>1 DEF TablesOK, JobsOK, DelsOK, FilesOK, DockOK, WorldOK, PollBegin, taskVars, fileVars, dockVars

\* PollInspect keeps the types.
LEMMA TPollInspect ==
  ASSUME TypeOK, PollInspect
  PROVE  TypeOK'
<1> USE DEF TypeOK
<1>1. OthersOK'
  BY DEF OthersOK, PollInspect, Polls, PollPCs, Docked, Docker, ContainerOf, DockOK, Ids
<1>2. DockOK'
  BY DEF DockOK, PollInspect, OthersOK, Docker, ContainerOf, Ids
<1>3. WorldOK'
  BY SpendOK DEF WorldOK, PollInspect, Kinds
<1> QED BY <1>1, <1>2, <1>3 DEF TablesOK, JobsOK, DelsOK, FilesOK, PollInspect, taskVars, fileVars, dockVars

\* PollApply keeps the types.
LEMMA TPollApply ==
  ASSUME TypeOK, PollApply
  PROVE  TypeOK'
<1> USE DEF TypeOK
<1>1. TablesOK'
  BY DEF TablesOK, PollApply, OthersOK, Records, States, Over
<1>2. OthersOK'
  BY IdleOK DEF OthersOK, PollApply, IdlePoll, Polls, PollPCs
<1>3. WorldOK'
  BY DEF WorldOK, PollApply
<1> QED BY <1>1, <1>2, <1>3 DEF JobsOK, DelsOK, FilesOK, DockOK, PollApply, taskVars, fileVars, dockVars

\* PollSave keeps the types.
LEMMA TPollSave ==
  ASSUME TypeOK, PollSave
  PROVE  TypeOK'
<1> USE DEF TypeOK
<1>1. OthersOK'
  BY DEF OthersOK, PollSave, Polls, PollPCs
<1>2. FilesOK'
  BY TakeOK DEF FilesOK, PollSave, Tasks, TablesOK
<1> QED BY <1>1, <1>2 DEF TablesOK, JobsOK, DelsOK, DockOK, WorldOK, PollSave, taskVars, fileVars, dockVars

\* PollSaved keeps the types.
LEMMA TPollSaved ==
  ASSUME TypeOK, PollSaved
  PROVE  TypeOK'
<1> USE DEF TypeOK
<1>1. OthersOK'
  BY IdleOK DEF OthersOK, PollSaved, IdlePoll, Polls, PollPCs
<1>2. FilesOK'
  BY PutOK DEF FilesOK, PollSaved, Tasks, WorldOK
<1>3. WorldOK'
  BY PutOK DEF WorldOK, PollSaved, Tasks
<1> QED BY <1>1, <1>2, <1>3 DEF TablesOK, JobsOK, DelsOK, DockOK, PollSaved, taskVars, fileVars, dockVars

\* PollRemove keeps the types.
LEMMA TPollRemove ==
  ASSUME TypeOK, PollRemove
  PROVE  TypeOK'
<1> USE DEF TypeOK
<1>1. OthersOK'
  BY IdleOK DEF OthersOK, PollRemove, IdlePoll
<1>2. DockOK'
  BY RemovedOK DEF DockOK, PollRemove, OthersOK, Ids, WorldOK
<1>3. WorldOK'
  BY RemovedOK DEF WorldOK, PollRemove, OthersOK, Ids, DockOK
<1> QED BY <1>1, <1>2, <1>3 DEF TablesOK, JobsOK, DelsOK, FilesOK, PollRemove, taskVars, fileVars, dockVars

\* SetBegin keeps the types.
LEMMA TSetBegin ==
  ASSUME TypeOK, NEW s \in Sandboxes, SetBegin(s)
  PROVE  TypeOK'
<1> USE DEF TypeOK
<1>1. TablesOK'
  BY DEF TablesOK, SetBegin, Records, States, Over
<1>2. OthersOK'
  BY DEF OthersOK, SetBegin, Setters
<1> QED BY <1>1, <1>2 DEF JobsOK, DelsOK, FilesOK, DockOK, WorldOK, SetBegin, taskVars, fileVars, dockVars

\* SetSave keeps the types.
LEMMA TSetSave ==
  ASSUME TypeOK, SetSave
  PROVE  TypeOK'
<1> USE DEF TypeOK
<1>1. OthersOK'
  BY DEF OthersOK, SetSave, Setters
<1>2. FilesOK'
  BY TakeOK DEF FilesOK, SetSave, Tasks, TablesOK
<1> QED BY <1>1, <1>2 DEF TablesOK, JobsOK, DelsOK, DockOK, WorldOK, SetSave, taskVars, fileVars, dockVars

\* SetAnswer keeps the types.
LEMMA TSetAnswer ==
  ASSUME TypeOK, SetAnswer
  PROVE  TypeOK'
<1> USE DEF TypeOK
<1>1. OthersOK'
  BY IdleOK DEF OthersOK, SetAnswer, IdleDel
<1>2. FilesOK'
  BY PutOK DEF FilesOK, SetAnswer, Tasks, WorldOK
<1>3. WorldOK'
  BY PutOK DEF WorldOK, SetAnswer, Tasks
<1> QED BY <1>1, <1>2, <1>3 DEF TablesOK, JobsOK, DelsOK, DockOK, SetAnswer, taskVars, fileVars, dockVars

\* WarmBegin keeps the types.
LEMMA TWarmBegin ==
  ASSUME TypeOK, NEW w \in Slots, WarmBegin(w)
  PROVE  TypeOK'
<1> USE DEF TypeOK
<1>1. TablesOK'
  BY DEF TablesOK, WarmBegin
<1>2. OthersOK'
  BY WorkerAssumption DEF OthersOK, WarmBegin, Boots, Ids
<1> QED BY <1>1, <1>2 DEF JobsOK, DelsOK, FilesOK, DockOK, WorldOK, WarmBegin, taskVars, fileVars, dockVars

\* WarmContainer keeps the types.
LEMMA TWarmContainer ==
  ASSUME TypeOK, WarmContainer
  PROVE  TypeOK'
<1> USE DEF TypeOK
<1>1. TablesOK'
  BY DEF TablesOK, WarmContainer, WarmFailed
<1>2. OthersOK'
  BY DEF OthersOK, WarmContainer, WarmFailed, Boots
<1>3. DockOK'
  BY DEF DockOK, WarmContainer, WarmFailed, OthersOK, Boots, Docked, Ids, dockVars
<1>4. WorldOK'
  BY SpendOK DEF WorldOK, WarmContainer, WarmFailed, Kinds
<1> QED BY <1>1, <1>2, <1>3, <1>4 DEF JobsOK, DelsOK, FilesOK, WarmContainer, taskVars, fileVars, dockVars

\* WarmReady keeps the types.
LEMMA TWarmReady ==
  ASSUME TypeOK, WarmReady
  PROVE  TypeOK'
<1> USE DEF TypeOK
<1>1. TablesOK'
  BY DEF TablesOK, WarmReady, WarmFailed, OthersOK, Boots
<1>2. OthersOK'
  BY IdleOK DEF OthersOK, WarmReady, WarmFailed, Boots, IdleDel
<1>3. WorldOK'
  BY SpendOK DEF WorldOK, WarmReady, WarmFailed, Kinds
<1> QED BY <1>1, <1>2, <1>3 DEF JobsOK, DelsOK, FilesOK, DockOK, WarmReady, taskVars, fileVars, dockVars

\* WarmRemove keeps the types.
LEMMA TWarmRemove ==
  ASSUME TypeOK, WarmRemove
  PROVE  TypeOK'
<1> USE DEF TypeOK
<1>1. OthersOK'
  BY IdleOK DEF OthersOK, WarmRemove, IdleDel
<1>2. DockOK'
  BY RemovedOK DEF DockOK, WarmRemove, OthersOK, Boots, Ids, WorldOK
<1>3. WorldOK'
  BY RemovedOK DEF WorldOK, WarmRemove, OthersOK, Boots, Ids, DockOK
<1> QED BY <1>1, <1>2, <1>3 DEF TablesOK, JobsOK, DelsOK, FilesOK, WarmRemove, taskVars, fileVars, dockVars

\* SetDraining keeps the types.
LEMMA TSetDraining ==
  ASSUME TypeOK, SetDraining
  PROVE  TypeOK'
<1> USE DEF TypeOK
<1>1. TablesOK'
  BY DEF TablesOK, SetDraining
<1>2. WorldOK'
  BY SpendOK DEF WorldOK, SetDraining, Kinds
<1> QED BY <1>1, <1>2 DEF JobsOK, DelsOK, OthersOK, FilesOK, DockOK, SetDraining, taskVars, fileVars, dockVars

\* Tick keeps the types.
LEMMA TTick ==
  ASSUME TypeOK, Tick
  PROVE  TypeOK'
<1> USE DEF TypeOK
<1>1. WorldOK'
  BY DEF WorldOK, Tick
<1> QED BY <1>1 DEF TablesOK, JobsOK, DelsOK, OthersOK, FilesOK, DockOK, Tick, taskVars, fileVars, dockVars

\* ContainerEnds keeps the types.
LEMMA TContainerEnds ==
  ASSUME TypeOK, NEW l \in Ids, ContainerEnds(l)
  PROVE  TypeOK'
<1> USE DEF TypeOK
<1>1. DockOK'
  BY DEF DockOK, ContainerEnds, Docked
<1>2. WorldOK'
  BY SpendOK DEF WorldOK, ContainerEnds, Kinds
<1> QED BY <1>1, <1>2 DEF TablesOK, JobsOK, DelsOK, OthersOK, FilesOK, ContainerEnds, taskVars, fileVars,
                          dockVars

\* Crash keeps the types.
LEMMA TCrash ==
  ASSUME TypeOK, Crash
  PROVE  TypeOK'
<1> USE DEF TypeOK
<1>1. TablesOK'
  BY IdleOK DEF TablesOK, Crash
<1>2. JobsOK'
  BY DEF JobsOK, Crash, Answers, Jobs, JobPCs, EarlyPCs, LatePCs, SlotPCs
<1>3. DelsOK'
  BY IdleOK DEF DelsOK, Crash, DeleteTasks, IdleDel
<1>4. OthersOK'
  BY IdleOK DEF OthersOK, Crash, IdlePoll, IdleDel
<1>5. FilesOK'
  BY IdleOK DEF FilesOK, Crash, NoSave
<1>6. DockOK'
  BY DEF DockOK, Crash
<1>7. WorldOK'
  BY SpendOK DEF WorldOK, Crash, Kinds
<1> QED BY <1>1, <1>2, <1>3, <1>4, <1>5, <1>6, <1>7 DEF Crash, taskVars, fileVars, dockVars

-----------------------------------------------------------------------------
(* The other parts are kept *)

\* A step that leaves all sandboxes but one alone.
OnlyOf(s) == \A t \in Sandboxes \ {s} : rec'[t] = rec[t] /\ job'[t] = job[t] /\ res'[t] = res[t]

\* When only one create moves, only its own stage is in question.
LEMMA StagesFrom ==
  ASSUME Stages, NEW s \in Sandboxes, OnlyOf(s), StageOf(s)'
  PROVE  Stages'
BY DEF Stages, StageOf, OnlyOf

\* A create changes records, jobs and sandbox reservations of its own sandbox only.
LEMMA CreateOnly ==
  ASSUME TypeOK, NEW s \in Sandboxes, CreateBegin(s) \/ CreateStep(s)
  PROVE  OnlyOf(s)
<1> USE WorkerAssumption DEF TypeOK, TablesOK, JobsOK, OnlyOf, Job, Ids
<1>0. CASE ColdPath(s, res, warm)
  BY <1>0 DEF ColdPath
<1>1. CASE CreateBegin(s)
  <2>1. ASSUME NEW w \in warm, ClaimWarm(s, w) PROVE OnlyOf(s)
    BY <2>1, <1>0 DEF ClaimWarm
  <2> QED BY <1>0, <1>1, <2>1 DEF CreateBegin
<1>2. CASE CreateAdopt(s)
  BY <1>2 DEF CreateAdopt
<1>3. CASE CreateAdopted(s)
  BY <1>3 DEF CreateAdopted
<1>4. CASE CreateUnslot(s)
  BY <1>0, <1>4 DEF CreateUnslot
<1>5. CASE EnsureImageFails(s)
  BY <1>5 DEF EnsureImageFails, BootFailed
<1>6. CASE CreateContainer(s)
  BY <1>6 DEF CreateContainer, BootFailed
<1>7. CASE CreateStart(s)
  BY <1>7 DEF CreateStart, BootFailed
<1>8. CASE CreateVerify(s)
  BY <1>8 DEF CreateVerify, BootFailed
<1>9. CASE CreateCleanup(s)
  BY <1>9 DEF CreateCleanup
<1>10. CASE CreateSave(s)
  BY <1>10 DEF CreateSave
<1>11. CASE CreateAnswer(s)
  BY <1>11 DEF CreateAnswer
<1> QED BY <1>1, <1>2, <1>3, <1>4, <1>5, <1>6, <1>7, <1>8, <1>9, <1>10, <1>11 DEF CreateStep

\* The cold path leaves its create in a stage.
LEMMA ColdStage ==
  ASSUME TypeOK, NEW s \in Sandboxes, StageOf(s), job[s].pc \in {"idle", "unslot", "evict"},
         ColdPath(s, res, warm)
  PROVE  StageOf(s)'
<1> USE WorkerAssumption DEF TypeOK, TablesOK, JobsOK, Job, Ids, StageOf, EarlyPCs, SlotPCs, BootPCs,
                             LatePCs, Live, Over, NoRec
<1>1. CASE /\ res' = [res EXCEPT ![s] = "pending"] /\ warm' = warm
           /\ rec' = [rec EXCEPT ![s] = [state |-> "CREATING", exp |-> 1, at |-> None]]
           /\ Job(s, "image", None)
  BY <1>1
<1>2. CASE \E w \in warm : warm' = warm \ {w} /\ res' = [res EXCEPT ![w] = "none"]
                           /\ Job(s, "evict", w) /\ UNCHANGED rec
  BY <1>2
<1>3. CASE res' = res /\ warm' = warm /\ Job(s, "rejected", None) /\ UNCHANGED rec
  BY <1>3
<1> QED BY <1>1, <1>2, <1>3 DEF ColdPath

\* Every step of a create leaves it in a stage.
LEMMA CreateStages ==
  ASSUME TypeOK, Stages, NEW s \in Sandboxes, CreateBegin(s) \/ CreateStep(s)
  PROVE  Stages'
<1> SUFFICES StageOf(s)'
  BY CreateOnly, StagesFrom
<1>a. StageOf(s)
  BY DEF Stages
<1>1. CASE CreateBegin(s)
  <2>1. CASE ColdPath(s, res, warm)
    BY <2>1, <1>1, <1>a, ColdStage DEF CreateBegin, At
  <2>2. CASE Job(s, "rejected", None) /\ UNCHANGED <<rec, res, warm>>
    BY <2>2, <1>1, <1>a DEF CreateBegin, TypeOK, JobsOK, At, StageOf, Job, EarlyPCs, SlotPCs, BootPCs,
                            LatePCs, NoRec, Live
  <2>3. CASE \E w \in warm : /\ res' = [[res EXCEPT ![w] = "none"] EXCEPT ![s] = "pending"]
                             /\ warm' = warm \ {w} /\ Job(s, "adopt", w) /\ UNCHANGED rec
    <3>1. res'[s] = "pending" /\ job'[s].pc = "adopt" /\ rec'[s] = rec[s] /\ rec[s] = NoRec
      BY <2>3, <1>1, <1>a DEF CreateBegin, TypeOK, TablesOK, JobsOK, Ids, Job, At, StageOf, EarlyPCs
    <3> QED BY <3>1 DEF StageOf, EarlyPCs, SlotPCs, BootPCs, LatePCs, NoRec, Live
  <2> QED BY <1>1, <2>1, <2>2, <2>3 DEF CreateBegin, ClaimWarm
<1> USE <1>a DEF TypeOK, TablesOK, JobsOK, Job, Ids, StageOf, EarlyPCs, SlotPCs, BootPCs, LatePCs, Live,
                 Over, NoRec, At
<1>2. CASE CreateAdopt(s)
  BY <1>2 DEF CreateAdopt
<1>3. CASE CreateAdopted(s)
  BY <1>3 DEF CreateAdopted
<1>4. CASE CreateUnslot(s)
  BY <1>4, ColdStage DEF CreateUnslot
<1>5. CASE EnsureImageFails(s)
  BY <1>5 DEF EnsureImageFails, BootFailed, Records
<1>6. CASE CreateContainer(s)
  BY <1>6 DEF CreateContainer, BootFailed, Records
<1>7. CASE CreateStart(s)
  BY <1>7 DEF CreateStart, BootFailed, Records
<1>8. CASE CreateVerify(s)
  BY <1>8 DEF CreateVerify, BootFailed, Records, BootedState
<1>9. CASE CreateCleanup(s)
  BY <1>9 DEF CreateCleanup
<1>10. CASE CreateSave(s)
  BY <1>10 DEF CreateSave
<1>11. CASE CreateAnswer(s)
  BY <1>11 DEF CreateAnswer, Answer
<1> QED BY <1>1, <1>2, <1>3, <1>4, <1>5, <1>6, <1>7, <1>8, <1>9, <1>10, <1>11 DEF CreateStep

\* A delete, a poll or a new deadline ends, or keeps, the record of its own sandbox.
LEMMA OtherStages ==
  ASSUME TypeOK, Stages, UnderWay, NEW s \in Sandboxes,
         \/ \E d \in DeleteTasks : DeleteBegin(d, s) \/ (DeleteRemove(d) /\ s = del[d].sb)
         \/ PollApply /\ s = poll.sb
         \/ SetBegin(s)
  PROVE  Stages'
<1> USE DEF TypeOK, TablesOK, JobsOK, DelsOK, OthersOK
<1>a. StageOf(s) /\ s \in Ids /\ rec[s] \in Records
  BY DEF Stages, Ids
<1>1. OnlyOf(s)
  <2> USE <1>a DEF OnlyOf, Ids
  <2>1. ASSUME NEW d \in DeleteTasks, DeleteBegin(d, s) PROVE OnlyOf(s)
    BY <2>1 DEF DeleteBegin
  <2>2. ASSUME NEW d \in DeleteTasks, DeleteRemove(d), s = del[d].sb PROVE OnlyOf(s)
    BY <2>2 DEF DeleteRemove
  <2>3. CASE PollApply /\ s = poll.sb
    BY <2>3 DEF PollApply
  <2>4. CASE SetBegin(s)
    BY <2>4 DEF SetBegin
  <2> QED BY <2>1, <2>2, <2>3, <2>4
<1> USE DEF StageOf, EarlyPCs, SlotPCs, BootPCs, LatePCs, Live, Over, NoRec, Records
<1>2. ASSUME NEW d \in DeleteTasks, DeleteBegin(d, s) PROVE StageOf(s)'
  BY <1>2, <1>a DEF DeleteBegin, Due
<1>3. ASSUME NEW d \in DeleteTasks, DeleteRemove(d), s = del[d].sb PROVE StageOf(s)'
  <2>1. job[s].pc \notin EarlyPCs /\ rec[s].state \notin Live
    BY <1>3 DEF UnderWay, DeleteRemove
  <2>2. (rec'[s] = NoRec /\ rec[s] = NoRec) \/ rec'[s].state \in {"STOPPED", "EXPIRED"}
    BY <1>3, <1>a DEF DeleteRemove
  <2> QED BY <1>3, <1>a, <2>1, <2>2 DEF DeleteRemove
<1>4. ASSUME PollApply, s = poll.sb PROVE StageOf(s)'
  <2>1. job[s].pc \in LatePCs /\ rec[s].state \notin {"ABSENT", "CREATING"}
    BY <1>4 DEF UnderWay, PollApply
  <2>2. \/ UNCHANGED <<rec, res>>
        \/ rec'[s].state \in {"LOST", "STOPPED"} /\ res'[s] = "none"
    BY <1>4, <1>a DEF PollApply
  <2> QED BY <1>4, <1>a, <2>1, <2>2 DEF PollApply
<1>5. ASSUME SetBegin(s) PROVE StageOf(s)'
  BY <1>5, <1>a DEF SetBegin, Known
<1> QED BY <1>1, <1>2, <1>3, <1>4, <1>5, StagesFrom

\* Past its beginnings, a create does not make a record live that is not.
LEMMA CreateRevivesNone ==
  ASSUME TypeOK, NEW s \in Sandboxes, CreateBegin(s) \/ CreateStep(s),
         rec[s].state \notin Live, job[s].pc \notin EarlyPCs
  PROVE  rec'[s].state \notin Live
BY DEF CreateBegin, CreateStep, CreateAdopt, CreateAdopted, CreateUnslot, EnsureImageFails,
       CreateContainer, CreateStart, CreateVerify, CreateCleanup, CreateSave, CreateAnswer,
       BootFailed, BootedState, NoRec, Job, At, TypeOK, TablesOK, Records, JobsOK, EarlyPCs, SlotPCs, Live

\* What a create is about keeps its delete and its poll sensible.
LEMMA CreateUnderWay ==
  ASSUME TypeOK, Stages, UnderWay, NEW s \in Sandboxes, CreateBegin(s) \/ CreateStep(s)
  PROVE  UnderWay'
<1>1. UNCHANGED <<del, poll>>
  BY DEF CreateBegin, CreateStep, CreateAdopt, CreateAdopted, CreateUnslot, EnsureImageFails,
         CreateContainer, CreateStart, CreateVerify, CreateCleanup, CreateSave, CreateAnswer
<1>2. OnlyOf(s)
  BY CreateOnly
<1>3. job[s].pc \notin EarlyPCs => job'[s].pc \notin EarlyPCs
  BY DEF CreateBegin, CreateStep, CreateAdopt, CreateAdopted, CreateUnslot, EnsureImageFails,
         CreateContainer, CreateStart, CreateVerify, CreateCleanup, CreateSave, CreateAnswer,
         Answer, BootFailed, Job, At, TypeOK, JobsOK, EarlyPCs, SlotPCs
<1>4. job[s].pc \in LatePCs => job'[s].pc \in LatePCs /\ rec'[s] = rec[s]
  BY DEF CreateBegin, CreateStep, CreateAdopt, CreateAdopted, CreateUnslot, EnsureImageFails,
         CreateContainer, CreateStart, CreateVerify, CreateCleanup, CreateSave, CreateAnswer,
         Answer, BootFailed, Job, At, TypeOK, JobsOK, LatePCs
<1>5. rec[s].state \notin Live /\ job[s].pc \notin EarlyPCs => rec'[s].state \notin Live
  BY CreateRevivesNone
<1> QED BY <1>1, <1>2, <1>3, <1>4, <1>5 DEF UnderWay, OnlyOf, TypeOK, DelsOK, OthersOK

\* Deletes and polls of any sandbox.
LEMMA OtherUnderWay ==
  ASSUME TypeOK, Stages, UnderWay, NEW s \in Sandboxes,
         \/ \E d \in DeleteTasks : DeleteBegin(d, s) \/ DeleteStep(d)
         \/ PollBegin(s) \/ PollStep \/ SetBegin(s)
  PROVE  UnderWay'
<1> USE DEF TypeOK, TablesOK, JobsOK, DelsOK, OthersOK, UnderWay
<1>a. \A t \in Sandboxes : StageOf(t)
  BY DEF Stages
<1>1. ASSUME NEW d \in DeleteTasks, DeleteBegin(d, s) PROVE UnderWay'
  <2>1. rec[s].state # "ABSENT" => job[s].pc \notin EarlyPCs
    BY <1>a DEF StageOf, NoRec
  <2>2. UNCHANGED <<job, poll>>
    BY <1>1 DEF DeleteBegin
  <2>3. \A t \in Sandboxes : rec'[t] = rec[t] \/ rec'[t].state = "STOPPING"
    BY <1>1 DEF DeleteBegin, Records
  <2>4. \A e \in DeleteTasks \ {d} : del'[e] = del[e]
    BY <1>1 DEF DeleteBegin, Del
  <2>5. del'[d].pc = "remove" => /\ del'[d].sb = s /\ rec[s].state # "ABSENT"
                                 /\ rec'[s].state = "STOPPING"
    BY <1>1 DEF DeleteBegin, Del, Records
  <2> QED BY <2>1, <2>2, <2>3, <2>4, <2>5 DEF Live
<1>2. ASSUME NEW d \in DeleteTasks, DeleteStep(d) PROVE UnderWay'
  <2>1. UNCHANGED <<job, poll>>
    BY <1>2 DEF DeleteStep, DeleteStray, DeleteRemove, DeleteSave, DeleteAnswer
  <2>2. \A t \in Sandboxes : rec'[t] = rec[t] \/ rec'[t].state \in {"STOPPED", "EXPIRED"}
    BY <1>2 DEF DeleteStep, DeleteStray, DeleteRemove, DeleteSave, DeleteAnswer, Records
  <2>3. \A e \in DeleteTasks \ {d} : del'[e] = del[e]
    BY <1>2 DEF DeleteStep, DeleteStray, DeleteRemove, DeleteSave, DeleteAnswer, Del
  <2>4. del'[d].pc # "remove"
    BY <1>2 DEF DeleteStep, DeleteStray, DeleteRemove, DeleteSave, DeleteAnswer, Del
  <2> QED BY <2>1, <2>2, <2>3, <2>4 DEF Live
<1>3. CASE PollBegin(s)
  BY <1>3, <1>a DEF PollBegin, StageOf
<1>4. CASE PollApply
  <2>1. UNCHANGED <<job, del>>
    BY <1>4 DEF PollApply
  <2>2. \A t \in Sandboxes : rec'[t] = rec[t] \/ rec'[t].state \in {"STOPPED", "LOST"}
    BY <1>4 DEF PollApply, Records
  <2>3. poll'.pc = "idle" \/ poll'.sb = poll.sb
    BY <1>4 DEF PollApply, IdlePoll, Polls
  <2> QED BY <1>4, <2>1, <2>2, <2>3 DEF PollApply, Live
<1>5. CASE PollInspect \/ PollSave \/ PollSaved \/ PollRemove
  <2>1. UNCHANGED <<rec, job, del>>
    BY <1>5 DEF PollInspect, PollSave, PollSaved, PollRemove
  <2>2. poll'.pc = "idle" \/ (poll.pc # "idle" /\ poll'.sb = poll.sb)
    <3>1. CASE PollInspect
      BY <3>1 DEF PollInspect, Polls
    <3>2. CASE PollSave \/ PollSaved \/ PollRemove
      BY <3>2 DEF PollSave, PollSaved, PollRemove, IdlePoll, Polls
    <3> QED BY <1>5, <3>1, <3>2
  <2> QED BY <2>1, <2>2
<1>6. CASE SetBegin(s)
  <2>1. UNCHANGED <<job, del, poll>>
    BY <1>6 DEF SetBegin
  <2>2. \A t \in Sandboxes : rec'[t].state = rec[t].state
    BY <1>6 DEF SetBegin, Records
  <2> QED BY <2>1, <2>2
<1> QED BY <1>1, <1>2, <1>3, <1>4, <1>5, <1>6 DEF PollStep

\* Slots: what is warm or booting is reserved, and nothing else.
LEMMA CreateSlots ==
  ASSUME TypeOK, SlotsReserved, NEW s \in Sandboxes, CreateBegin(s) \/ CreateStep(s)
  PROVE  SlotsReserved'
<1> USE WorkerAssumption DEF TypeOK, TablesOK, JobsOK, OthersOK, SlotsReserved, Ids
<1>1. UNCHANGED boot
  BY DEF CreateBegin, CreateStep, CreateAdopt, CreateAdopted, CreateUnslot, EnsureImageFails,
         CreateContainer, CreateStart, CreateVerify, CreateCleanup, CreateSave, CreateAnswer
<1>2. \/ warm' = warm /\ \A w \in Slots : res'[w] = res[w]
      \/ \E v \in warm : warm' = warm \ {v} /\ res'[v] = "none"
                         /\ \A w \in Slots \ {v} : res'[w] = res[w]
  <2>0. CASE ColdPath(s, res, warm)
    BY <2>0 DEF ColdPath
  <2>1. CASE CreateBegin(s)
    <3>1. ASSUME NEW v \in warm, ClaimWarm(s, v), ~ColdPath(s, res, warm)
          PROVE  warm' = warm \ {v} /\ res'[v] = "none" /\ \A w \in Slots \ {v} : res'[w] = res[w]
      BY <3>1 DEF ClaimWarm
    <3> QED BY <2>0, <2>1, <3>1 DEF CreateBegin
  <2>2. CASE CreateUnslot(s)
    BY <2>0, <2>2 DEF CreateUnslot
  <2>3. CASE CreateAdopt(s) \/ CreateAdopted(s) \/ EnsureImageFails(s) \/ CreateContainer(s) \/ CreateStart(s)
             \/ CreateVerify(s)
    BY <2>3 DEF CreateAdopt, CreateAdopted, EnsureImageFails, CreateContainer, CreateStart, CreateVerify,
                BootFailed
  <2>4. CASE CreateCleanup(s) \/ CreateSave(s) \/ CreateAnswer(s)
    BY <2>4 DEF CreateCleanup, CreateSave, CreateAnswer
  <2> QED BY <2>1, <2>2, <2>3, <2>4 DEF CreateStep
<1> QED BY <1>1, <1>2

\* Deletes and polls give back reservations of sandboxes, never of slots.
LEMMA OtherSlots ==
  ASSUME TypeOK, SlotsReserved,
         \/ \E d \in DeleteTasks : DeleteStep(d) \/ \E s \in Sandboxes : DeleteBegin(d, s)
         \/ PollStep \/ SetSave \/ SetAnswer
         \/ \E s \in Sandboxes : PollBegin(s) \/ SetBegin(s)
  PROVE  SlotsReserved'
<1>1. UNCHANGED <<warm, boot>>
  BY DEF DeleteStep, DeleteStray, DeleteRemove, DeleteSave, DeleteAnswer, DeleteBegin,
         PollStep, PollInspect, PollApply, PollSave, PollSaved, PollRemove, SetSave, SetAnswer, PollBegin, SetBegin
<1>2. \A w \in Slots : res'[w] = res[w]
  <2> USE WorkerAssumption DEF TypeOK, TablesOK, DelsOK, OthersOK, Ids
  <2>1. ASSUME NEW d \in DeleteTasks, DeleteRemove(d) PROVE \A w \in Slots : res'[w] = res[w]
    BY <2>1 DEF DeleteRemove
  <2>2. CASE PollApply
    BY <2>2 DEF PollApply
  <2>3. CASE UNCHANGED res
    BY <2>3
  <2> QED BY <2>1, <2>2, <2>3 DEF DeleteStep, DeleteStray, DeleteSave, DeleteAnswer, DeleteBegin,
         PollStep, PollInspect, PollSave, PollSaved, PollRemove, SetSave, SetAnswer, PollBegin, SetBegin
<1> QED BY <1>1, <1>2 DEF SlotsReserved

\* The warm loop.
LEMMA WarmSlotsKept ==
  ASSUME TypeOK, SlotsReserved, WarmStep \/ \E w \in Slots : WarmBegin(w)
  PROVE  SlotsReserved'
<1> USE WorkerAssumption DEF TypeOK, TablesOK, OthersOK, SlotsReserved, Ids, Boots
<1>1. ASSUME NEW w \in Slots, WarmBegin(w) PROVE SlotsReserved'
  BY <1>1 DEF WarmBegin, Fresh
<1>2. CASE WarmContainer
  BY <1>2 DEF WarmContainer, WarmFailed
<1>3. CASE WarmReady
  BY <1>3 DEF WarmReady, WarmFailed, IdleDel
<1>4. CASE WarmRemove
  BY <1>4 DEF WarmRemove, IdleDel
<1> QED BY <1>1, <1>2, <1>3, <1>4 DEF WarmStep

\* Only a restart, a clock tick and the end of a container happen while the daemon is down.
LEMMA OnlyWhenUp ==
  ASSUME Next
  PROVE  (up /\ up') \/ Crash \/ Restart \/ Tick \/ \E l \in Ids : ContainerEnds(l)
<1>1. ASSUME NEW s \in Sandboxes, CreateBegin(s) \/ CreateStep(s) \/ PollBegin(s) \/ SetBegin(s)
      PROVE  up /\ up'
  BY <1>1 DEF CreateBegin, CreateStep, CreateAdopt, CreateAdopted, CreateUnslot, EnsureImageFails,
       CreateContainer, CreateStart, CreateVerify, CreateCleanup, CreateSave, CreateAnswer, At,
       PollBegin, SetBegin
<1>2. ASSUME NEW d \in DeleteTasks, DeleteStep(d) \/ \E s \in Sandboxes : DeleteBegin(d, s)
      PROVE  up /\ up'
  BY <1>2 DEF DeleteStep, DeleteStray, DeleteRemove, DeleteSave, DeleteAnswer, DeleteBegin
<1>3. CASE PollStep \/ SetSave \/ SetAnswer
  BY <1>3 DEF PollStep, PollInspect, PollApply, PollSave, PollSaved, PollRemove, SetSave, SetAnswer
<1>4. CASE WarmStep \/ (\E w \in Slots : WarmBegin(w)) \/ SetDraining
  BY <1>4 DEF WarmStep, WarmContainer, WarmReady, WarmRemove, WarmBegin, SetDraining
<1> QED BY <1>1, <1>2, <1>3, <1>4 DEF Next, DeleteTasks

\* Nothing but a restart moves while the daemon is down.
LEMMA DownKept ==
  ASSUME Down, Next
  PROVE  Down'
<1>1. CASE up /\ up'
  BY <1>1 DEF Down
<1>2. CASE Crash
  BY <1>2 DEF Down, Crash, Answers, RestPCs, NoRec, DeleteTasks
<1>3. CASE Restart
  BY <1>3 DEF Down, Restart
<1>4. CASE Tick \/ \E l \in Ids : ContainerEnds(l)
  BY <1>4 DEF Down, Tick, ContainerEnds, taskVars, fileVars, dockVars
<1> QED BY <1>1, <1>2, <1>3, <1>4, OnlyWhenUp

\* What a removal may do: the container it finds goes, and the mapping.
LEMMA RemovedEffect ==
  ASSUME DockOK, NEW id \in Ids, Removed(id)
  PROVE  /\ \A l \in Ids : ctr'[l] \in {ctr[l], "none"}
         /\ \A i \in Ids : names'[i] \in {names[i], None}
BY DEF DockOK, Removed

\* Containers and what is known of them are kept by all steps that create none,
\* adopt none, write no container into a record and save nothing.
LEMMA ContainersFrom ==
  ASSUME OneContainer,
         \A s \in Sandboxes :
           /\ rec'[s].at \in {rec[s].at, None} /\ names'[s] \in {names[s], s, None}
           /\ payload'[s].at \in {payload[s].at, rec[s].at, None}
           /\ saved'[s].at \in {saved[s].at, payload[s].at}
           /\ ctr'[s] = "none" \/ ctr[s] # "none"
           /\ job'[s].pc \in EarlyPCs \cup {"image"} => job[s].pc \in EarlyPCs \cup {"image"}
           /\ job'[s].pc = "start" => job[s].pc = "start"
  PROVE  OneContainer'
BY DEF OneContainer

\* The state file, as far as containers go.
LEMMA FileEffect ==
  ASSUME TypeOK, NEW t, TakeState(t) \/ PutState(t)
  PROVE  \A s \in Sandboxes : /\ payload'[s].at \in {payload[s].at, rec[s].at, None}
                              /\ saved'[s].at \in {saved[s].at, payload[s].at}
BY DEF TakeState, PutState, LiveRecords, NoSave, TypeOK, TablesOK, FilesOK, Saves

\* A create gives its sandbox one container.
LEMMA CreateContainers ==
  ASSUME CapInv, NEW s \in Sandboxes, CreateBegin(s) \/ CreateStep(s)
  PROVE  OneContainer'
<1> USE WorkerAssumption DEF CapInv, TypeOK, DockOK, FilesOK, Ids
<1>a. StageOf(s) /\ OnlyOf(s) /\ rec[s] \in Records
  BY CreateOnly DEF Stages, TablesOK
<1>b. ASSUME NEW id \in Ids, Removed(id)
      PROVE  \A t \in Sandboxes : /\ names'[t] \in {names[t], t, None}
                                  /\ ctr'[t] = "none" \/ ctr[t] # "none"
  BY <1>b, RemovedEffect
<1>c. ASSUME ColdPath(s, res, warm), job[s].pc \in EarlyPCs
      PROVE  rec'[s].at \in {rec[s].at, None}
  BY <1>a, <1>c DEF ColdPath, TablesOK
<1>1. CASE CreateBegin(s)
  <2>1. rec'[s].at \in {rec[s].at, None}
    <3>1. job[s].pc \in EarlyPCs
      BY <1>1 DEF CreateBegin, At, EarlyPCs
    <3>2. ColdPath(s, res, warm) \/ UNCHANGED rec
      BY <1>1 DEF CreateBegin, ClaimWarm
    <3> QED BY <3>1, <3>2, <1>c
  <2>2. job[s].pc \in EarlyPCs /\ job'[s].pc # "start"
    <3>1. ColdPath(s, res, warm) => job'[s].pc # "start"
      BY DEF ColdPath, Job, JobsOK
    <3>2. \A w \in warm : ClaimWarm(s, w) => job'[s].pc # "start"
      BY <3>1 DEF ClaimWarm, Job, JobsOK
    <3> QED BY <1>1, <3>1, <3>2 DEF CreateBegin, At, EarlyPCs, Job, JobsOK
  <2> QED BY <1>1, <1>a, <2>1, <2>2, ContainersFrom DEF CreateBegin, OnlyOf, fileVars, dockVars
<1>2. CASE CreateUnslot(s)
  <2>1. job[s].pc \in EarlyPCs /\ job[s].slot \in Ids
    BY <1>2 DEF CreateUnslot, EarlyPCs, SlotPCs, JobsOK
  <2>2. rec'[s].at \in {rec[s].at, None}
    BY <1>2, <1>c, <2>1 DEF CreateUnslot
  <2>3. \A t \in Sandboxes : /\ names'[t] \in {names[t], t, None}
                             /\ ctr'[t] = "none" \/ ctr[t] # "none"
    BY <1>2, <1>b, <2>1 DEF CreateUnslot
  <2>4. job'[s].pc # "start"
    BY <1>2 DEF CreateUnslot, ColdPath, Job, JobsOK
  <2>5. \A t \in Sandboxes :
          /\ rec'[t].at \in {rec[t].at, None}
          /\ job'[t].pc \in EarlyPCs \cup {"image"} => job[t].pc \in EarlyPCs \cup {"image"}
          /\ job'[t].pc = "start" => job[t].pc = "start"
    BY <1>a, <2>1, <2>2, <2>4 DEF OnlyOf
  <2>6. UNCHANGED <<payload, saved>>
    BY <1>2 DEF CreateUnslot, fileVars
  <2> QED BY <2>3, <2>5, <2>6, ContainersFrom
<1>3. CASE CreateAdopt(s)
  <2>1. job[s].slot \in Slots
    BY <1>3 DEF CreateAdopt, At, JobsOK, SlotPCs
  <2>2. \A t \in Sandboxes : names'[t] = names[t] \/ (t = s /\ names'[t] = job[s].slot)
    BY <1>3, <2>1 DEF CreateAdopt, RuntimeAdopt
  <2>3. job[s].pc \in EarlyPCs /\ job'[s].pc # "start"
    BY <1>3 DEF CreateAdopt, At, EarlyPCs, SlotPCs, Job, JobsOK
  <2> QED BY <1>3, <1>a, <2>1, <2>2, <2>3 DEF CreateAdopt, OneContainer, OnlyOf, fileVars
<1>4. CASE CreateAdopted(s)
  <2>1. job[s].slot \in Slots /\ job[s].pc \in EarlyPCs /\ job'[s].pc # "start"
    BY <1>4 DEF CreateAdopted, At, JobsOK, Job, SlotPCs, EarlyPCs
  <2>2. \/ UNCHANGED rec
        \/ rec'[s].at = job[s].slot /\ job'[s].pc = "save"
    BY <1>4 DEF CreateAdopted, TablesOK, JobsOK, Job
  <2> QED BY <1>4, <1>a, <2>1, <2>2 DEF CreateAdopted, OneContainer, OnlyOf, fileVars, dockVars, EarlyPCs,
                                        SlotPCs
<1>5. CASE CreateContainer(s)
  <2>1. job[s].pc = "image" /\ job'[s].pc \in {"start", "failed"}
    BY <1>5 DEF CreateContainer, At, BootFailed, Job, JobsOK
  <2>2. rec'[s].at \in {rec[s].at, s}
    BY <1>5, <1>a DEF CreateContainer, BootFailed, TablesOK, Records
  <2>3. /\ \A t \in Sandboxes \ {s} : names'[t] = names[t] /\ ctr'[t] = ctr[t]
        /\ names'[s] = s \/ (names'[s] = names[s] /\ ctr'[s] = ctr[s] /\ job'[s].pc = "failed")
    BY <1>5 DEF CreateContainer, RuntimeCreate, BootFailed, Job, JobsOK, dockVars
  <2> QED BY <1>5, <1>a, <2>1, <2>2, <2>3 DEF CreateContainer, OneContainer, OnlyOf, fileVars, EarlyPCs, SlotPCs
<1>6. CASE EnsureImageFails(s) \/ CreateVerify(s)
  <2>1. rec'[s].at = rec[s].at
    BY <1>6, <1>a DEF EnsureImageFails, CreateVerify, BootFailed, TablesOK, Records
  <2>2. job'[s].pc \notin EarlyPCs \cup {"image", "start"}
    BY <1>6 DEF EnsureImageFails, CreateVerify, BootFailed, Job, JobsOK, EarlyPCs, SlotPCs
  <2> QED BY <1>6, <1>a, <2>1, <2>2, ContainersFrom DEF EnsureImageFails, CreateVerify, OnlyOf, fileVars,
                                                        dockVars
<1>7. CASE CreateStart(s)
  <2>1. rec'[s].at = rec[s].at
    BY <1>7, <1>a DEF CreateStart, BootFailed, TablesOK, Records
  <2>2. job'[s].pc \notin EarlyPCs \cup {"image", "start"}
    BY <1>7 DEF CreateStart, BootFailed, Job, JobsOK, EarlyPCs, SlotPCs
  <2>3. job[s].pc \notin EarlyPCs \cup {"image"}
    BY <1>7 DEF CreateStart, At, EarlyPCs, SlotPCs
  <2>4. \A t \in Sandboxes \ {s} : ctr'[t] = ctr[t]
    BY <1>7 DEF CreateStart, RuntimeStart
  <2>5. ctr[s] # "none" \/ UNCHANGED ctr
    <3>1. Docker(s) = "created" => ctr[s] # "none"
      BY <1>7 DEF CreateStart, At, Docker, ContainerOf, OneContainer
    <3> QED BY <1>7, <3>1 DEF CreateStart
  <2> QED BY <1>7, <1>a, <2>1, <2>2, <2>3, <2>4, <2>5, ContainersFrom DEF CreateStart, OnlyOf, fileVars
<1>8. CASE CreateCleanup(s)
  <2>1. rec'[s].at \in {rec[s].at, None}
    BY <1>8, <1>a DEF CreateCleanup, TablesOK, NoRec
  <2>2. job'[s].pc \notin EarlyPCs \cup {"image", "start"}
    BY <1>8 DEF CreateCleanup, Job, JobsOK, EarlyPCs, SlotPCs
  <2>3. \A t \in Sandboxes : /\ names'[t] \in {names[t], t, None}
                             /\ ctr'[t] = "none" \/ ctr[t] # "none"
    BY <1>8, <1>b DEF CreateCleanup
  <2>4. \A t \in Sandboxes :
          /\ rec'[t].at \in {rec[t].at, None}
          /\ job'[t].pc \in EarlyPCs \cup {"image"} => job[t].pc \in EarlyPCs \cup {"image"}
          /\ job'[t].pc = "start" => job[t].pc = "start"
    BY <1>a, <2>1, <2>2 DEF OnlyOf
  <2>5. UNCHANGED <<payload, saved>>
    BY <1>8 DEF CreateCleanup, fileVars
  <2> QED BY <2>3, <2>4, <2>5, ContainersFrom
<1>9. CASE CreateSave(s) \/ CreateAnswer(s)
  <2>1. job'[s].pc \notin EarlyPCs \cup {"image", "start"}
    BY <1>9 DEF CreateSave, CreateAnswer, Answer, Job, JobsOK, EarlyPCs, SlotPCs
  <2> QED BY <1>9, <1>a, <2>1, FileEffect, ContainersFrom DEF CreateSave, CreateAnswer, OnlyOf, dockVars
<1> QED BY <1>1, <1>2, <1>3, <1>4, <1>5, <1>6, <1>7, <1>8, <1>9 DEF CreateStep

\* The other tasks create no container of a sandbox and adopt none.
LEMMA OtherContainers ==
  ASSUME CapInv,
         \/ \E d \in DeleteTasks : DeleteStep(d) \/ \E s \in Sandboxes : DeleteBegin(d, s)
         \/ PollStep \/ SetSave \/ SetAnswer
         \/ \E s \in Sandboxes : PollBegin(s) \/ SetBegin(s)
         \/ WarmStep \/ \E w \in Slots : WarmBegin(w)
         \/ SetDraining \/ Tick \/ \E l \in Ids : ContainerEnds(l)
  PROVE  OneContainer'
<1> USE WorkerAssumption DEF CapInv, TypeOK, Ids
<1> DEFINE Unmoved(t) == /\ rec'[t].at = rec[t].at /\ job'[t] = job[t]
           Undocked(t) == names'[t] \in {names[t], t, None} /\ (ctr'[t] = "none" \/ ctr[t] # "none")
           Filed(t) == /\ payload'[t].at \in {payload[t].at, rec[t].at, None}
                       /\ saved'[t].at \in {saved[t].at, payload[t].at}
<1> SUFFICES \A t \in Sandboxes : Unmoved(t) /\ Undocked(t) /\ Filed(t)
  BY ContainersFrom
<1>a. ASSUME NEW id \in Ids, Removed(id) PROVE \A t \in Sandboxes : Undocked(t)
  BY <1>a, RemovedEffect
<1>b. ASSUME NEW k, TakeState(k) \/ PutState(k) PROVE \A t \in Sandboxes : Filed(t)
  BY <1>b, FileEffect
<1>c. ASSUME UNCHANGED fileVars PROVE \A t \in Sandboxes : Filed(t)
  BY <1>c DEF fileVars
<1>d. ASSUME UNCHANGED dockVars PROVE \A t \in Sandboxes : Undocked(t)
  BY <1>d DEF dockVars
<1> USE DEF TablesOK, JobsOK, DelsOK, OthersOK, DockOK, Records
<1>1. ASSUME NEW d \in DeleteTasks, NEW s \in Sandboxes, DeleteBegin(d, s)
      PROVE  \A t \in Sandboxes : Unmoved(t) /\ Undocked(t) /\ Filed(t)
  BY <1>1, <1>c, <1>d DEF DeleteBegin
<1>2. ASSUME NEW d \in DeleteTasks, DeleteStep(d)
      PROVE  \A t \in Sandboxes : Unmoved(t) /\ Undocked(t) /\ Filed(t)
  <2>1. CASE DeleteStray(d)
    BY <2>1, <1>a, <1>c DEF DeleteStray
  <2>2. CASE DeleteRemove(d)
    <3>1. \A t \in Sandboxes : Unmoved(t)
      BY <2>2 DEF DeleteRemove
    <3> QED BY <2>2, <3>1, <1>a, <1>c DEF DeleteRemove
  <2>3. CASE DeleteSave(d) \/ DeleteAnswer(d)
    BY <2>3, <1>b, <1>d DEF DeleteSave, DeleteAnswer
  <2> QED BY <1>2, <2>1, <2>2, <2>3 DEF DeleteStep
<1>3. CASE PollStep \/ SetSave \/ SetAnswer
  <2>1. CASE PollInspect
    <3>1. \A t \in Sandboxes : Undocked(t)
      BY <2>1 DEF PollInspect, ContainerOf
    <3> QED BY <2>1, <3>1, <1>c DEF PollInspect
  <2>2. CASE PollApply
    <3>1. \A t \in Sandboxes : Unmoved(t)
      BY <2>2 DEF PollApply
    <3> QED BY <2>2, <3>1, <1>c, <1>d DEF PollApply
  <2>3. CASE PollSave \/ PollSaved \/ SetSave \/ SetAnswer
    BY <2>3, <1>b, <1>d DEF PollSave, PollSaved, SetSave, SetAnswer
  <2>4. CASE PollRemove
    BY <2>4, <1>a, <1>c DEF PollRemove
  <2> QED BY <1>3, <2>1, <2>2, <2>3, <2>4 DEF PollStep
<1>4. ASSUME NEW s \in Sandboxes, PollBegin(s) \/ SetBegin(s)
      PROVE  \A t \in Sandboxes : Unmoved(t) /\ Undocked(t) /\ Filed(t)
  BY <1>4, <1>c, <1>d DEF PollBegin, SetBegin
<1>5. CASE WarmStep \/ \E w \in Slots : WarmBegin(w)
  <2>1. CASE WarmContainer
    <3>1. boot.sb \in Slots
      BY <2>1 DEF WarmContainer, Boots
    <3>2. \A t \in Sandboxes : Undocked(t)
      BY <2>1, <3>1 DEF WarmContainer, dockVars
    <3> QED BY <2>1, <3>2, <1>c DEF WarmContainer
  <2>2. CASE WarmReady \/ \E w \in Slots : WarmBegin(w)
    BY <2>2, <1>c, <1>d DEF WarmReady, WarmBegin
  <2>3. CASE WarmRemove
    <3>1. boot.sb \in Slots
      BY <2>3 DEF WarmRemove, Boots
    <3> QED BY <2>3, <3>1, <1>a, <1>c DEF WarmRemove
  <2> QED BY <1>5, <2>1, <2>2, <2>3 DEF WarmStep
<1>6. CASE SetDraining \/ Tick
  BY <1>6, <1>c, <1>d DEF SetDraining, Tick, taskVars
<1>7. ASSUME NEW l \in Ids, ContainerEnds(l)
      PROVE  \A t \in Sandboxes : Unmoved(t) /\ Undocked(t) /\ Filed(t)
  <2>1. \A t \in Sandboxes : Undocked(t)
    BY <1>7 DEF ContainerEnds
  <2> QED BY <1>7, <2>1, <1>c DEF ContainerEnds, taskVars
<1> QED BY <1>1, <1>2, <1>3, <1>4, <1>5, <1>6, <1>7

-----------------------------------------------------------------------------
(* Crash and restart *)

\* A crash leaves nothing that the invariant speaks of but the containers and the file.
LEMMA CrashKeeps ==
  ASSUME CapInv, Crash
  PROVE  Stages' /\ UnderWay' /\ SlotsReserved' /\ OneContainer'
<1> USE WorkerAssumption DEF CapInv, TypeOK, JobsOK, Jobs, JobPCs, Crash, Answers, Ids
<1>1. Stages'
  BY DEF Stages, StageOf, EarlyPCs, SlotPCs, BootPCs, LatePCs, NoRec, Live, Over
<1>2. UnderWay'
  BY DEF UnderWay, IdleDel, IdlePoll, DeleteTasks
<1>3. SlotsReserved'
  BY DEF SlotsReserved, IdleDel
<1>4. OneContainer'
  BY DEF OneContainer, NoRec, NoSave, EarlyPCs, SlotPCs, JobsOK
<1> QED BY <1>1, <1>2, <1>3, <1>4

\* A container that is given to a sandbox is the only one the sandbox has.
LEMMA OwnedOnce ==
  ASSUME OneContainer, NEW s \in Sandboxes, NEW l \in Ids, ctr[l] # "none", Owner(l) = s
  PROVE  /\ l = s \/ (saved[s].at = l /\ ctr[s] = "none")
         /\ job[s].pc \notin EarlyPCs \cup {"image"}
         /\ \A m \in Ids : ctr[m] # "none" /\ Owner(m) = s => m = l
<1> USE WorkerAssumption DEF Ids
<1>1. ASSUME NEW m \in Ids, Owner(m) = s PROVE m = s \/ saved[s].at = m
  <2>1. CASE Claims(m) # {}
    <3>1. Owner(m) \in Claims(m)
      BY <2>1 DEF Owner
    <3> QED BY <3>1, <1>1 DEF Claims
  <2> QED BY <2>1, <1>1 DEF Owner
<1>2. ctr[s] # "none" => saved[s].at \in {s, None}
  BY DEF OneContainer
<1>3. l = s \/ (saved[s].at = l /\ ctr[s] = "none")
  BY <1>1, <1>2
<1>4. job[s].pc \notin EarlyPCs \cup {"image"}
  BY <1>3 DEF OneContainer
<1> QED BY <1>1, <1>2, <1>3, <1>4

\* A restart adopts what is left: one container for each sandbox, counted once.
LEMMA RestartKeeps ==
  ASSUME CapInv, Restart
  PROVE  Stages' /\ UnderWay' /\ SlotsReserved' /\ OneContainer'
<1> USE WorkerAssumption DEF CapInv, TypeOK, Ids
<1> DEFINE present == {l \in Ids : ctr[l] # "none"}
           leftover == {l \in present : Owner(l) \in Slots \/ ctr[l] # "running"}
           Mine(s) == {l \in present : Owner(l) = s}
<1>a. /\ \A s \in Sandboxes : job[s].pc \in RestPCs
      /\ warm = {} /\ boot = IdleDel /\ poll = IdlePoll /\ \A d \in DeleteTasks : del[d] = IdleDel
      /\ payload = [s \in Sandboxes |-> NoSave]
  BY DEF Restart, Down
<1>b. UNCHANGED <<warm, taskVars, payload>>
  BY DEF Restart
<1>c. ASSUME NEW s \in Sandboxes
      PROVE  \/ /\ rec'[s] = NoRec /\ saved'[s].at = None /\ names'[s] = None /\ res'[s] = "none"
             \/ \E l \in Ids : /\ ctr[l] # "none" /\ Owner(l) = s
                               /\ rec'[s].at = l /\ saved'[s].at \in {l, None}
                               /\ \/ /\ rec'[s].state = "RUNNING" /\ names'[s] = l /\ res'[s] = "committed"
                                  \/ /\ rec'[s].state = "STOPPED" /\ names'[s] = None /\ res'[s] = "none"
  <2>1. CASE Mine(s) = {}
    BY <2>1 DEF Restart, NoRec, NoSave
  <2>2. CASE Mine(s) # {}
    <3> DEFINE l == CHOOSE l \in Mine(s) : TRUE
    <3>1. l \in Ids /\ ctr[l] # "none" /\ Owner(l) = s
      BY <2>2
    <3>2. rec'[s] = [state |-> IF ctr[l] = "running" THEN "RUNNING" ELSE "STOPPED",
                     exp |-> IF saved[s] = NoSave THEN 1 ELSE saved[s].exp, at |-> l]
      BY <2>2 DEF Restart
    <3> HIDE DEF l
    <3>3. rec'[s].at = l /\ rec'[s].state = (IF ctr[l] = "running" THEN "RUNNING" ELSE "STOPPED")
      BY <3>2
    <3>4. saved'[s].at \in {l, None}
      BY <3>3 DEF Restart, NoSave
    <3>5. \A m \in present : Owner(m) = s => m = l
      BY <3>1, OwnedOnce
    <3>6. CASE ctr[l] = "running"
      <4>1. l \in present \ leftover
        BY <3>1, <3>6
      <4>2. names'[s] = CHOOSE m \in present \ leftover : Owner(m) = s
        BY <4>1, <3>1 DEF Restart
      <4>3. names'[s] = l
        BY <4>1, <4>2, <3>1, <3>5
      <4>4. res'[s] = "committed"
        BY <4>1, <3>1 DEF Restart
      <4> QED BY <3>1, <3>3, <3>4, <3>6, <4>3, <4>4
    <3>7. CASE ctr[l] # "running"
      <4>1. ~ \E m \in present \ leftover : Owner(m) = s
        BY <3>5, <3>7
      <4>2. names'[s] = None /\ res'[s] = "none"
        BY <4>1 DEF Restart
      <4> QED BY <3>1, <3>3, <3>4, <3>7, <4>2
    <3> QED BY <3>6, <3>7
  <2> QED BY <2>1, <2>2
<1>d. \A s \in Sandboxes : ctr'[s] # "none" => ctr[s] # "none"
  BY DEF Restart
<1>1. Stages'
  <2> SUFFICES ASSUME NEW s \in Sandboxes PROVE StageOf(s)'
    BY DEF Stages
  <2>1. job'[s].pc = job[s].pc /\ job[s].pc \in RestPCs
    BY <1>a, <1>b DEF taskVars
  <2>2. job[s].pc \in LatePCs \/ rec'[s] = NoRec
    BY <1>c, OwnedOnce, <2>1 DEF EarlyPCs, LatePCs, RestPCs
  <2>3. job[s].pc \in {"idle", "rejected"} => res'[s] = "none"
    BY <1>c, OwnedOnce DEF EarlyPCs
  <2> QED BY <1>c, <2>1, <2>2, <2>3
          DEF StageOf, EarlyPCs, SlotPCs, BootPCs, LatePCs, RestPCs, NoRec, Live, Over
<1>2. UnderWay'
  BY <1>a, <1>b DEF UnderWay, IdleDel, IdlePoll, taskVars
<1>3. SlotsReserved'
  <2>1. \A w \in Slots : res'[w] = "none"
    BY DEF Restart
  <2> QED BY <1>a, <1>b, <2>1 DEF SlotsReserved, IdleDel, taskVars
<1>4. OneContainer'
  <2> SUFFICES ASSUME NEW s \in Sandboxes
               PROVE  /\ {rec'[s].at, payload'[s].at, saved'[s].at, names'[s]} \subseteq Slots \cup {s, None}
                      /\ job'[s].pc \in EarlyPCs \cup {"image"} =>
                           ctr'[s] = "none" /\ rec'[s].at = None /\ payload'[s].at = None /\ saved'[s].at = None
                      /\ ctr'[s] # "none" => {rec'[s].at, payload'[s].at, saved'[s].at, names'[s]} \subseteq {s, None}
                      /\ job'[s].pc = "start" => names'[s] \in {s, None}
    BY DEF OneContainer
  <2>1. job'[s] = job[s] /\ payload'[s].at = None /\ job[s].pc # "start"
    BY <1>a, <1>b DEF taskVars, NoSave, RestPCs
  <2>2. saved[s].at \in Slots \cup {s, None}
    BY DEF OneContainer
  <2>3. job[s].pc \in EarlyPCs \cup {"image"} => ctr[s] = "none"
    BY DEF OneContainer
  <2>4. CASE rec'[s] = NoRec /\ saved'[s].at = None /\ names'[s] = None
    BY <2>1, <2>3, <2>4, <1>d DEF NoRec
  <2>5. CASE \E l \in Ids : /\ ctr[l] # "none" /\ Owner(l) = s
                            /\ rec'[s].at = l /\ saved'[s].at \in {l, None} /\ names'[s] \in {l, None}
    BY <2>1, <2>2, <2>3, <2>5, <1>d, OwnedOnce
  <2> QED BY <2>4, <2>5, <1>c
<1> QED BY <1>1, <1>2, <1>3, <1>4

-----------------------------------------------------------------------------
(* The theorems *)

\* Steps that touch no record, no job and no reservation of a sandbox.
LEMMA QuietStages ==
  ASSUME TypeOK, Stages,
         \/ \E d \in DeleteTasks : DeleteStray(d) \/ DeleteSave(d) \/ DeleteAnswer(d)
         \/ PollInspect \/ PollSave \/ PollSaved \/ PollRemove \/ SetSave \/ SetAnswer
         \/ \E s \in Sandboxes : PollBegin(s)
         \/ WarmStep \/ \E w \in Slots : WarmBegin(w)
         \/ SetDraining \/ Tick \/ \E l \in Ids : ContainerEnds(l)
  PROVE  Stages'
<1>1. UNCHANGED <<rec, job>>
  BY DEF DeleteStray, DeleteSave, DeleteAnswer, PollInspect, PollSave, PollSaved, PollRemove,
         SetSave, SetAnswer, PollBegin, WarmStep, WarmContainer, WarmReady, WarmRemove, WarmBegin,
         SetDraining, Tick, ContainerEnds, taskVars
<1>2. \A s \in Sandboxes : res'[s] = res[s]
  <2> USE WorkerAssumption DEF TypeOK, TablesOK, OthersOK, Boots, Ids
  <2>1. CASE WarmStep \/ \E w \in Slots : WarmBegin(w)
    BY <2>1 DEF WarmStep, WarmContainer, WarmReady, WarmRemove, WarmBegin, WarmFailed
  <2>2. CASE UNCHANGED res
    BY <2>2
  <2> QED BY <2>1, <2>2 DEF DeleteStray, DeleteSave, DeleteAnswer, PollInspect, PollSave, PollSaved,
         PollRemove, SetSave, SetAnswer, PollBegin, SetDraining, Tick, ContainerEnds
<1> QED BY <1>1, <1>2 DEF Stages, StageOf

\* Steps that leave the records and the tasks alone keep what is under way.
LEMMA QuietUnderWay ==
  ASSUME UnderWay, SetSave \/ SetAnswer \/ WarmStep \/ (\E w \in Slots : WarmBegin(w))
                   \/ SetDraining \/ Tick \/ (\E l \in Ids : ContainerEnds(l))
  PROVE  UnderWay'
<1>1. UNCHANGED <<rec, job, del, poll>>
  BY DEF SetSave, SetAnswer, WarmStep, WarmContainer, WarmReady, WarmRemove, WarmBegin,
         SetDraining, Tick, ContainerEnds, taskVars
<1> QED BY <1>1 DEF UnderWay

\* The daemon starts with nothing.
LEMMA CapInit == Init => CapInv
<1> SUFFICES ASSUME Init PROVE CapInv
  OBVIOUS
<1> USE WorkerAssumption, IdleOK DEF Init
<1>1. TypeOK
  <2>1. TablesOK /\ JobsOK
    BY DEF TablesOK, JobsOK, Jobs, JobPCs, EarlyPCs, SlotPCs
  <2>2. DelsOK /\ OthersOK
    BY DEF DelsOK, OthersOK, DeleteTasks, IdleDel, IdlePoll
  <2>3. FilesOK /\ DockOK
    BY DEF FilesOK, DockOK, Docked
  <2>4. WorldOK
    BY DEF WorldOK, Budgets
  <2> QED BY <2>1, <2>2, <2>3, <2>4 DEF TypeOK
<1>2. Stages
  BY DEF Stages, StageOf, EarlyPCs, SlotPCs, BootPCs, LatePCs, NoRec, Live, Over, Ids
<1>3. UnderWay /\ Down
  BY DEF UnderWay, Down, IdleDel, IdlePoll, DeleteTasks
<1>4. SlotsReserved
  BY DEF SlotsReserved, IdleDel, Ids
<1>5. OneContainer
  BY DEF OneContainer, NoRec, NoSave, Ids
<1> QED BY <1>1, <1>2, <1>3, <1>4, <1>5 DEF CapInv

\* Every step keeps the types.
LEMMA TypeNext ==
  ASSUME TypeOK, Next
  PROVE  TypeOK'
<1>1. ASSUME NEW s \in Sandboxes, CreateBegin(s) \/ CreateStep(s) \/ PollBegin(s) \/ SetBegin(s)
      PROVE  TypeOK'
  BY <1>1, TCreateBegin, TCreateAdopt, TCreateAdopted, TCreateUnslot, TEnsureImageFails, TCreateContainer,
     TCreateStart, TCreateVerify, TCreateCleanup, TCreateSave, TCreateAnswer, TPollBegin,
     TSetBegin DEF CreateStep
<1>2. ASSUME NEW d \in DeleteTasks, DeleteStep(d) \/ \E s \in Sandboxes : DeleteBegin(d, s)
      PROVE  TypeOK'
  BY <1>2, TDeleteBegin, TDeleteStray, TDeleteRemove, TDeleteSave, TDeleteAnswer DEF DeleteStep
<1>3. CASE PollStep \/ SetSave \/ SetAnswer
  BY <1>3, TPollInspect, TPollApply, TPollSave, TPollSaved, TPollRemove, TSetSave, TSetAnswer DEF PollStep
<1>4. CASE WarmStep \/ \E w \in Slots : WarmBegin(w)
  BY <1>4, TWarmBegin, TWarmContainer, TWarmReady, TWarmRemove DEF WarmStep
<1>5. CASE SetDraining \/ Tick \/ Crash \/ Restart \/ \E l \in Ids : ContainerEnds(l)
  BY <1>5, TSetDraining, TTick, TContainerEnds, TCrash, TRestart
<1> QED BY <1>1, <1>2, <1>3, <1>4, <1>5 DEF Next, DeleteTasks

\* Every step keeps the invariant.
LEMMA CapNext == CapInv /\ [Next]_vars => CapInv'
<1> SUFFICES ASSUME CapInv, [Next]_vars PROVE CapInv'
  OBVIOUS
<1>0. CASE UNCHANGED vars
  <2>1. /\ UNCHANGED <<rec, res, warm, draining, job, del, poll, setter, boot, saver, payload, saved>>
        /\ UNCHANGED <<ctr, names, now, up, promised, budget>>
    BY <1>0 DEF vars, taskVars, fileVars, dockVars
  <2>2. TypeOK' /\ Stages' /\ UnderWay'
    BY <2>1 DEF CapInv, TypeOK, TablesOK, JobsOK, DelsOK, OthersOK, FilesOK, DockOK, WorldOK,
                Stages, StageOf, UnderWay
  <2>3. SlotsReserved' /\ Down' /\ OneContainer'
    BY <2>1 DEF CapInv, SlotsReserved, Down, OneContainer
  <2> QED BY <2>2, <2>3 DEF CapInv
<1> SUFFICES ASSUME Next PROVE Stages' /\ UnderWay' /\ SlotsReserved' /\ OneContainer'
  BY <1>0, TypeNext, DownKept DEF CapInv
<1> USE DEF CapInv
<1>1. ASSUME NEW s \in Sandboxes, CreateBegin(s) \/ CreateStep(s)
      PROVE  Stages' /\ UnderWay' /\ SlotsReserved' /\ OneContainer'
  BY <1>1, CreateStages, CreateUnderWay, CreateSlots, CreateContainers
<1>2. ASSUME NEW d \in DeleteTasks, DeleteStep(d) \/ \E s \in Sandboxes : DeleteBegin(d, s)
      PROVE  Stages' /\ UnderWay' /\ SlotsReserved' /\ OneContainer'
  <2>1. Stages' /\ UnderWay'
    <3>1. ASSUME NEW s \in Sandboxes, DeleteBegin(d, s) PROVE Stages' /\ UnderWay'
      BY <3>1, OtherStages, OtherUnderWay
    <3>2. CASE DeleteRemove(d)
      <4>1. del[d].sb \in Sandboxes
        BY <3>2 DEF DeleteRemove, TypeOK, DelsOK
      <4> QED BY <3>2, <4>1, OtherStages, OtherUnderWay DEF DeleteStep
    <3>3. CASE DeleteStray(d) \/ DeleteSave(d) \/ DeleteAnswer(d)
      <4>1. del[d].sb \in Sandboxes
        BY <3>3 DEF DeleteStray, DeleteSave, DeleteAnswer, TypeOK, DelsOK
      <4> QED BY <3>3, <4>1, QuietStages, OtherUnderWay DEF DeleteStep
    <3> QED BY <1>2, <3>1, <3>2, <3>3 DEF DeleteStep
  <2> QED BY <1>2, <2>1, OtherSlots, OtherContainers
<1>3. ASSUME NEW s \in Sandboxes, PollBegin(s) \/ SetBegin(s)
      PROVE  Stages' /\ UnderWay' /\ SlotsReserved' /\ OneContainer'
  BY <1>3, QuietStages, OtherStages, OtherUnderWay, OtherSlots, OtherContainers
<1>4. CASE PollStep
  <2>1. poll.sb \in Sandboxes
    BY <1>4 DEF PollStep, PollInspect, PollApply, PollSave, PollSaved, PollRemove, TypeOK, OthersOK
  <2>2. Stages'
    BY <1>4, <2>1, QuietStages, OtherStages DEF PollStep
  <2> QED BY <1>4, <2>1, <2>2, OtherUnderWay, OtherSlots, OtherContainers
<1>5. CASE SetSave \/ SetAnswer
  BY <1>5, QuietStages, QuietUnderWay, OtherSlots, OtherContainers
<1>6. CASE WarmStep \/ \E w \in Slots : WarmBegin(w)
  BY <1>6, QuietStages, QuietUnderWay, WarmSlotsKept, OtherContainers
<1>7. CASE SetDraining \/ Tick \/ \E l \in Ids : ContainerEnds(l)
  <2>1. SlotsReserved'
    BY <1>7 DEF SlotsReserved, SetDraining, Tick, ContainerEnds, taskVars
  <2> QED BY <1>7, <2>1, QuietStages, QuietUnderWay, OtherContainers
<1>8. CASE Crash \/ Restart
  BY <1>8, CrashKeeps, RestartKeeps
<1> QED BY <1>1, <1>2, <1>3, <1>4, <1>5, <1>6, <1>7, <1>8 DEF Next, DeleteTasks

\* What is reserved on a worker and what exists there agree at every await of every
\* task, through crashes and restarts: no capacity leaks, none is given out twice
\* (worker/service.py, worker/capacity.py).
THEOREM NoCapacityLeak == Spec => []CapacityMatchesRecords
<1>1. CapInv => CapacityMatchesRecords
  BY DEF CapInv, CapacityMatchesRecords, Stages, StageOf, SlotsReserved
<1> QED BY <1>1, CapInit, CapNext, PTL DEF Spec

\* No late step of a create, an adoption, a delete or a refresh makes a sandbox that
\* is over live again while the daemon runs.
THEOREM NoRevival == Spec => OverStaysOver
<1>1. CapInv /\ [Next]_vars =>
        [\A s \in Sandboxes : up /\ up' /\ rec[s].state \in Over => rec'[s].state \notin Live]_<<rec, up>>
  <2> SUFFICES ASSUME CapInv, Next, NEW s \in Sandboxes, up, up', rec[s].state \in Over
               PROVE  rec'[s].state \notin Live
    BY DEF vars, Live, Over
  <2>1. job[s].pc \notin EarlyPCs
    BY DEF CapInv, Stages, StageOf, NoRec, Over
  <2>2. ASSUME NEW t \in Sandboxes, CreateBegin(t) \/ CreateStep(t)
        PROVE  rec'[s].state \notin Live
    <3>1. CASE t = s
      BY <2>1, <2>2, <3>1, CreateRevivesNone DEF CapInv, Live, Over
    <3>2. CASE t # s
      BY <2>2, <3>2, CreateOnly DEF CapInv, OnlyOf, Live, Over
    <3> QED BY <3>1, <3>2
  <2>3. ASSUME NEW d \in DeleteTasks, DeleteStep(d) \/ \E t \in Sandboxes : DeleteBegin(d, t)
        PROVE  rec'[s].state \notin Live
    <3>1. rec'[s] = rec[s] \/ rec'[s].state \in {"STOPPING", "STOPPED", "EXPIRED"}
      BY <2>3 DEF CapInv, TypeOK, TablesOK, Records, DeleteStep, DeleteBegin, DeleteStray, DeleteRemove,
                  DeleteSave, DeleteAnswer
    <3> QED BY <3>1 DEF Live, Over
  <2>4. CASE PollStep \/ \E t \in Sandboxes : PollBegin(t) \/ SetBegin(t)
    <3>1. rec'[s].state \in {rec[s].state, "STOPPED", "LOST"}
      BY <2>4 DEF CapInv, TypeOK, TablesOK, Records, PollStep, PollInspect, PollApply, PollSave, PollSaved,
                  PollRemove, PollBegin, SetBegin
    <3> QED BY <3>1 DEF Live, Over
  <2>5. CASE UNCHANGED rec
    BY <2>5 DEF Live, Over
  <2>6. ~Crash /\ ~Restart
    BY DEF Crash, Restart
  <2> QED BY <2>2, <2>3, <2>4, <2>5, <2>6
          DEF Next, DeleteTasks, SetSave, SetAnswer, WarmStep, WarmContainer, WarmReady, WarmRemove, WarmBegin,
              SetDraining, Tick, ContainerEnds
<1> QED BY <1>1, CapInit, CapNext, PTL DEF Spec, OverStaysOver

-----------------------------------------------------------------------------
(* Capacity *)

\* Less is held, less is needed.
LEMMA TotalMonotone ==
  ASSUME NEW H \in SUBSET Ids, NEW G \in SUBSET H
  PROVE  Total(G) \in Nat /\ Total(H) \in Nat /\ Total(G) <= Total(H)
<1>1. IsFiniteSet(H) /\ IsFiniteSet(H \cap Big)
  BY WorkerAssumption, FS_Subset
<1>2. /\ Cardinality(G) <= Cardinality(H) /\ Cardinality(G) \in Nat /\ Cardinality(H) \in Nat
  BY <1>1, FS_Subset, FS_CardinalityType
<1>3. /\ Cardinality(G \cap Big) <= Cardinality(H \cap Big)
      /\ Cardinality(G \cap Big) \in Nat /\ Cardinality(H \cap Big) \in Nat
  BY <1>1, FS_Subset, FS_CardinalityType
<1> QED BY <1>2, <1>3 DEF Total

\* One more reservation needs its size more.
LEMMA TotalAdd ==
  ASSUME NEW H \in SUBSET Ids, NEW id \in Ids
  PROVE  Total(H \cup {id}) <= Total(H) + Size(id)
<1>1. IsFiniteSet(H) /\ IsFiniteSet(H \cap Big)
  BY WorkerAssumption, FS_Subset
<1>a. ASSUME NEW S, IsFiniteSet(S)
      PROVE  /\ Cardinality(S \cup {id}) <= Cardinality(S) + 1
             /\ Cardinality(S \cup {id}) \in Nat /\ Cardinality(S) \in Nat
  <2>1. Cardinality(S) \in Nat
    BY <1>a, FS_CardinalityType
  <2>2. IsFiniteSet(S \cup {id}) /\ Cardinality(S \cup {id}) <= Cardinality(S) + 1
    BY <1>a, <2>1, FS_AddElement
  <2> QED BY <2>1, <2>2, FS_CardinalityType
<1>2. /\ Cardinality(H \cup {id}) <= Cardinality(H) + 1
      /\ Cardinality(H \cup {id}) \in Nat /\ Cardinality(H) \in Nat
  BY <1>1, <1>a
<1>3. CASE id \in Big
  <2>1. (H \cup {id}) \cap Big = (H \cap Big) \cup {id}
    BY <1>3
  <2>2. /\ Cardinality((H \cap Big) \cup {id}) <= Cardinality(H \cap Big) + 1
        /\ Cardinality((H \cap Big) \cup {id}) \in Nat /\ Cardinality(H \cap Big) \in Nat
    BY <1>1, <1>a
  <2> QED BY <1>2, <1>3, <2>1, <2>2 DEF Total, Size
<1>4. CASE id \notin Big
  <2>1. (H \cup {id}) \cap Big = H \cap Big
    BY <1>4
  <2>2. Cardinality(H \cap Big) \in Nat
    BY <1>1, FS_CardinalityType
  <2> QED BY <1>2, <1>4, <2>1, <2>2 DEF Total, Size
<1> QED BY <1>3, <1>4

\* Every step but a restart takes reservations out, or adds one where it fits.
LEMMA HeldStep ==
  ASSUME CapInv, Next
  PROVE  \/ Held(res') \subseteq Held(res) \/ Restart
         \/ \E id \in Ids, r \in [Ids -> {"none", "pending", "committed"}] :
              /\ Held(r) \subseteq Held(res) /\ Fits(r, id) /\ Held(res') \subseteq Held(r) \cup {id}
<1> DEFINE Goal == \/ Held(res') \subseteq Held(res) \/ Restart
                   \/ \E id \in Ids, r \in [Ids -> {"none", "pending", "committed"}] :
                        /\ Held(r) \subseteq Held(res) /\ Fits(r, id) /\ Held(res') \subseteq Held(r) \cup {id}
<1> USE WorkerAssumption DEF CapInv, TypeOK, TablesOK, Held, Ids
<1>1. ASSUME NEW s \in Sandboxes, ColdPath(s, res, warm) PROVE Goal
  <2>1. CASE Admits(res, s) /\ res' = [res EXCEPT ![s] = "pending"]
    BY <2>1 DEF Admits
  <2>2. CASE \E w \in warm : res' = [res EXCEPT ![w] = "none"]
    BY <2>2
  <2>3. CASE res' = res
    BY <2>3
  <2> QED BY <1>1, <2>1, <2>2, <2>3 DEF ColdPath
<1>2. ASSUME NEW s \in Sandboxes, CreateBegin(s) PROVE Goal
  <2>1. ASSUME NEW w \in warm, ClaimWarm(s, w), ~ColdPath(s, res, warm) PROVE Goal
    <3> DEFINE freed == [res EXCEPT ![w] = "none"]
    <3>1. Fits(freed, s) /\ res' = [freed EXCEPT ![s] = "pending"]
      BY <2>1 DEF ClaimWarm
    <3>2. freed \in [Ids -> {"none", "pending", "committed"}] /\ Held(freed) \subseteq Held(res)
      OBVIOUS
    <3>3. Held(res') \subseteq Held(freed) \cup {s}
      BY <3>1, <3>2
    <3> HIDE DEF freed
    <3> QED BY <3>1, <3>2, <3>3
  <2> QED BY <1>1, <1>2, <2>1 DEF CreateBegin
<1>3. ASSUME NEW s \in Sandboxes, CreateStep(s) PROVE Goal
  <2>1. CASE CreateUnslot(s)
    BY <1>1, <2>1 DEF CreateUnslot
  <2>2. CASE CreateAdopt(s) \/ EnsureImageFails(s) \/ CreateContainer(s) \/ CreateStart(s)
    BY <2>2 DEF CreateAdopt, EnsureImageFails, CreateContainer, CreateStart, BootFailed
  <2>3. CASE CreateAdopted(s)
    <3>1. res[s] = "pending"
      BY <2>3 DEF CreateAdopted, At, Stages, StageOf
    <3> QED BY <2>3, <3>1 DEF CreateAdopted
  <2>4. CASE CreateVerify(s)
    BY <2>4 DEF CreateVerify, BootFailed
  <2>5. CASE CreateCleanup(s) \/ CreateSave(s) \/ CreateAnswer(s)
    BY <2>5 DEF CreateCleanup, CreateSave, CreateAnswer
  <2> QED BY <1>3, <2>1, <2>2, <2>3, <2>4, <2>5 DEF CreateStep
<1>4. ASSUME NEW d \in DeleteTasks, DeleteStep(d) PROVE Goal
  BY <1>4 DEF DeleteStep, DeleteStray, DeleteRemove, DeleteSave, DeleteAnswer, DelsOK
<1>5. CASE PollStep
  BY <1>5 DEF PollStep, PollInspect, PollApply, PollSave, PollSaved, PollRemove, OthersOK
<1>6. ASSUME NEW w \in Slots, WarmBegin(w) PROVE Goal
  <2>1. Fits(res, w) /\ res' = [res EXCEPT ![w] = "pending"]
    BY <1>6 DEF WarmBegin, Admits
  <2>2. Held(res') \subseteq Held(res) \cup {w}
    BY <2>1
  <2> QED BY <2>1, <2>2
<1>7. CASE WarmStep
  <2>1. boot.sb \in Slots
    BY <1>7 DEF WarmStep, WarmContainer, WarmReady, WarmRemove, OthersOK, Boots
  <2>2. WarmReady => res[boot.sb] # "none"
    BY <2>1 DEF WarmReady, SlotsReserved
  <2> QED BY <1>7, <2>1, <2>2 DEF WarmStep, WarmContainer, WarmReady, WarmRemove, WarmFailed
<1>8. CASE UNCHANGED res
  BY <1>8
<1>9. CASE Crash
  BY <1>9 DEF Crash
<1> QED BY <1>2, <1>3, <1>4, <1>5, <1>6, <1>7, <1>8, <1>9
        DEF Next, DeleteTasks, DeleteBegin, PollBegin, SetBegin, SetSave, SetAnswer, SetDraining, Tick,
            ContainerEnds

\* Troubles are never paid back.
LEMMA BudgetStep ==
  ASSUME TypeOK, Next
  PROVE  \A k \in Kinds : budget'[k] <= budget[k]
<1> DEFINE Goal == \A k \in Kinds : budget'[k] <= budget[k]
<1> USE DEF TypeOK
<1>a. budget \in Budgets
  BY DEF WorldOK
<1>b. ASSUME NEW kind \in Kinds, Spend(kind) \/ Free PROVE Goal
  BY <1>b, <1>a, SpendOK
<1>c. ASSUME NEW id \in Ids, Removed(id) PROVE Goal
  BY <1>c, <1>a, RemovedOK
<1>d. ASSUME NEW t \in Tasks, PutState(t) PROVE Goal
  BY <1>d, <1>a, PutOK
<1> SUFFICES Goal
  OBVIOUS
<1> HIDE DEF Goal
<1> USE DEF Ids, Tasks, Kinds
<1>1. ASSUME NEW s \in Sandboxes, CreateBegin(s) \/ CreateStep(s) PROVE Goal
  <2>1. CASE CreateUnslot(s)
    <3>1. job[s].slot \in Ids
      BY <2>1 DEF CreateUnslot, JobsOK, SlotPCs
    <3> QED BY <2>1, <3>1, <1>c DEF CreateUnslot
  <2>2. CASE CreateCleanup(s)
    BY <2>2, <1>c DEF CreateCleanup
  <2>3. CASE CreateAnswer(s)
    BY <2>3, <1>d DEF CreateAnswer
  <2>4. CASE Spend("faults") \/ Free
    BY <2>4, <1>b
  <2> QED BY <1>1, <2>1, <2>2, <2>3, <2>4 DEF CreateBegin, CreateStep, CreateAdopt, CreateAdopted,
                                              EnsureImageFails,
         CreateContainer, CreateStart, CreateVerify, CreateSave, Free
<1>2. ASSUME NEW d \in DeleteTasks, DeleteStep(d) \/ \E s \in Sandboxes : DeleteBegin(d, s)
      PROVE  Goal
  <2>1. CASE DeleteStray(d) \/ DeleteRemove(d)
    <3>1. del[d].sb \in Ids
      BY <2>1 DEF DeleteStray, DeleteRemove, DelsOK
    <3> QED BY <2>1, <3>1, <1>c DEF DeleteStray, DeleteRemove
  <2>2. CASE DeleteAnswer(d)
    BY <2>2, <1>d DEF DeleteAnswer, DeleteTasks
  <2>3. CASE Free
    BY <2>3, <1>b
  <2> QED BY <1>2, <2>1, <2>2, <2>3 DEF DeleteStep, DeleteSave, DeleteBegin, Free
<1>3. CASE PollStep
  <2>1. CASE PollRemove
    <3>1. poll.sb \in Ids
      BY <2>1 DEF PollRemove, OthersOK
    <3> QED BY <2>1, <3>1, <1>c DEF PollRemove
  <2>2. CASE PollSaved
    BY <2>2, <1>d DEF PollSaved
  <2>3. CASE PollInspect \/ PollApply \/ PollSave
    <3>1. Spend("leaks") \/ Free
      BY <2>3 DEF PollInspect, PollApply, PollSave, Free
    <3> QED BY <3>1, <1>b
  <2> QED BY <1>3, <2>1, <2>2, <2>3 DEF PollStep
<1>4. CASE SetAnswer
  BY <1>4, <1>d DEF SetAnswer
<1>5. CASE WarmStep
  <2>1. CASE WarmRemove
    <3>1. boot.sb \in Ids
      BY <2>1 DEF WarmRemove, OthersOK, Boots
    <3> QED BY <2>1, <3>1, <1>c DEF WarmRemove
  <2>2. CASE WarmContainer \/ WarmReady
    <3>1. Spend("faults") \/ Free
      BY <2>2 DEF WarmContainer, WarmReady
    <3> QED BY <3>1, <1>b
  <2> QED BY <1>5, <2>1, <2>2 DEF WarmStep
<1>6. CASE \/ \E kind \in Kinds : Spend(kind)
           \/ Free
  BY <1>6, <1>b
<1> QED BY <1>1, <1>2, <1>3, <1>4, <1>5, <1>6
        DEF Next, DeleteTasks, PollBegin, SetBegin, SetSave, WarmBegin, SetDraining, Tick, ContainerEnds,
            Crash, Restart, Free

\* As long as it has not crashed, the daemon is up.
Counted == budget.crashes <= MaxCrashes /\ (budget.crashes = MaxCrashes => up)

\* Every step keeps the count, until the first crash.
LEMMA CountedNext ==
  ASSUME CapInv, Counted, Next
  PROVE  Counted' /\ budget'.crashes <= budget.crashes
<1> USE DEF CapInv, TypeOK
<1>a. budget \in Budgets /\ budget' \in Budgets
  BY TypeNext DEF WorldOK
<1>1. budget'.crashes <= budget.crashes
  BY <1>a, BudgetStep DEF Kinds, Budgets
<1>2. Crash => budget'.crashes < budget.crashes
  <2> SUFFICES ASSUME Spend("crashes") PROVE budget'.crashes < budget.crashes
    BY DEF Crash
  <2> QED BY <1>a DEF Spend, Budgets
<1>3. (up /\ up') \/ up' = up \/ Crash \/ Restart
  BY OnlyWhenUp DEF Tick, ContainerEnds
<1>4. Restart => up'
  BY DEF Restart
<1>5. budget.crashes \in Nat /\ budget'.crashes \in Nat /\ MaxCrashes \in Nat
  BY WorkerAssumption, <1>a DEF Budgets
<1> QED BY <1>1, <1>2, <1>3, <1>4, <1>5 DEF Counted

\* A worker that has not restarted never has more reserved than it has: admission,
\* the swap of a slot's reservation for a request's, eviction and failed adoptions
\* included (try_reserve, _claim_warm, _evict_warm).
THEOREM NeverOvercommits == Spec => []WithinCapacity
<1>1. Init => Counted /\ WithinCapacity
  <2> SUFFICES ASSUME Init PROVE Total(Held(res)) <= Units /\ Counted
    BY DEF WithinCapacity
  <2>1. Held(res) = {}
    BY DEF Init, Held
  <2>2. Total({}) = 0
    BY FS_EmptySet DEF Total
  <2>3. Units \in Nat /\ MaxCrashes \in Nat
    BY WorkerAssumption
  <2>4. budget.crashes = MaxCrashes /\ up
    BY DEF Init
  <2> QED BY <2>1, <2>2, <2>3, <2>4 DEF Counted
<1>2. CapInv /\ Counted /\ WithinCapacity /\ [Next]_vars => Counted' /\ WithinCapacity'
  <2> SUFFICES ASSUME CapInv, Counted, WithinCapacity, [Next]_vars PROVE Counted' /\ WithinCapacity'
    OBVIOUS
  <2>1. CASE UNCHANGED vars
    BY <2>1 DEF vars, Counted, WithinCapacity, Held
  <2>2. CASE Next
    <3>1. Counted' /\ budget'.crashes <= budget.crashes
      BY <2>2, CountedNext
    <3>2. budget.crashes \in Nat /\ MaxCrashes \in Nat /\ Units \in Nat
      BY WorkerAssumption DEF CapInv, TypeOK, WorldOK, Budgets
    <3>3. budget'.crashes \in Nat
      BY <2>2, TypeNext DEF CapInv, TypeOK, WorldOK, Budgets
    <3> SUFFICES ASSUME budget'.crashes = MaxCrashes PROVE Total(Held(res')) <= Units
      BY <3>1 DEF WithinCapacity
    <3>4. budget.crashes = MaxCrashes
      BY <3>1, <3>2, <3>3 DEF Counted
    <3>5. Total(Held(res)) <= Units /\ up
      BY <3>4 DEF WithinCapacity, Counted
    <3>6. ~Restart
      BY <3>5 DEF Restart
    <3>7. CASE Held(res') \subseteq Held(res)
      BY <3>2, <3>5, <3>7, TotalMonotone DEF Held
    <3>8. ASSUME NEW id \in Ids, NEW r, Held(r) \subseteq Held(res), Fits(r, id),
                 Held(res') \subseteq Held(r) \cup {id}
          PROVE  Total(Held(res')) <= Units
      <4>1. Held(r) \in SUBSET Ids /\ Held(r) \cup {id} \in SUBSET Ids
        BY DEF Held
      <4>2. Total(Held(r) \cup {id}) <= Total(Held(r)) + Size(id)
        BY <4>1, TotalAdd
      <4>3. Total(Held(r)) + Size(id) <= Units
        BY <3>8 DEF Fits
      <4>4. /\ Total(Held(res')) <= Total(Held(r) \cup {id})
            /\ Total(Held(res')) \in Nat /\ Total(Held(r) \cup {id}) \in Nat
        BY <3>8, <4>1, TotalMonotone
      <4>5. Total(Held(r)) \in Nat /\ Size(id) \in Nat
        BY <4>1, TotalMonotone DEF Size
      <4> QED BY <3>2, <4>2, <4>3, <4>4, <4>5
    <3> QED BY <2>2, <3>6, <3>7, <3>8, HeldStep
  <2> QED BY <2>1, <2>2
<1> QED BY <1>1, <1>2, CapInit, CapNext, PTL DEF Spec

-----------------------------------------------------------------------------
(* The contract *)

\* Who is adopting a slot has been found room for, and a record that is gone is blank.
AdoptFits == (\E s \in Sandboxes : job[s].pc \in {"adopt", "adopted"}) => Total(Held(res)) <= Units
Blank == \A s \in Sandboxes : rec[s].state = "ABSENT" => rec[s] = NoRec
ContractInv == AdoptFits /\ Blank

\* A step of one create that starts to adopt a slot has been found room for.
LEMMA AdoptStarts ==
  ASSUME CapInv, NEW s \in Sandboxes, CreateBegin(s) \/ CreateStep(s),
         job[s].pc \notin {"adopt", "adopted"}, job'[s].pc \in {"adopt", "adopted"}
  PROVE  Total(Held(res')) <= Units
<1> USE WorkerAssumption DEF CapInv, TypeOK, TablesOK, Ids
<1>a. \A r, wm : ColdPath(s, r, wm) => job'[s].pc \notin {"adopt", "adopted"}
  BY DEF ColdPath, Job, JobsOK
<1>1. CreateBegin(s)
  <2>1. ~CreateStep(s)
    BY <1>a DEF CreateStep, CreateAdopt, CreateAdopted, CreateUnslot, EnsureImageFails,
       CreateContainer, CreateStart, CreateVerify, CreateCleanup, CreateSave, CreateAnswer, Answer,
       BootFailed, Job, At, JobsOK
  <2> QED BY <2>1
<1>2. PICK w \in warm : ClaimWarm(s, w)
  BY <1>1, <1>a DEF CreateBegin, Job, JobsOK
<1> DEFINE freed == [res EXCEPT ![w] = "none"]
<1>3. Fits(freed, s) /\ res' = [freed EXCEPT ![s] = "pending"]
  BY <1>2, <1>a DEF ClaimWarm
<1>4. Held(freed) \in SUBSET Ids /\ s \in Ids /\ Held(res') \subseteq Held(freed) \cup {s}
  BY <1>3 DEF Held
<1> HIDE DEF freed
<1>5. Total(Held(freed)) + Size(s) <= Units
  BY <1>3 DEF Fits
<1>6. Held(freed) \cup {s} \in SUBSET Ids /\ Held(res') \in SUBSET (Held(freed) \cup {s})
  BY <1>4
<1>7. /\ Total(Held(res')) <= Total(Held(freed) \cup {s})
      /\ Total(Held(res')) \in Nat /\ Total(Held(freed) \cup {s}) \in Nat
  BY <1>6, TotalMonotone
<1>8. Total(Held(freed) \cup {s}) <= Total(Held(freed)) + Size(s)
  BY <1>4, TotalAdd
<1>9. Total(Held(freed)) \in Nat /\ Size(s) \in Nat /\ Units \in Nat
  BY <1>4, TotalMonotone DEF Size
<1> QED BY <1>5, <1>7, <1>8, <1>9

\* No step but a create's makes anyone adopt a slot.
LEMMA OthersAdoptNone ==
  ASSUME CapInv, Next, NEW s \in Sandboxes, job'[s].pc \in {"adopt", "adopted"},
         ~(CreateBegin(s) \/ CreateStep(s))
  PROVE  job[s].pc \in {"adopt", "adopted"}
<1> USE DEF CapInv, TypeOK, JobsOK
<1>1. ASSUME NEW t \in Sandboxes, CreateBegin(t) \/ CreateStep(t) PROVE job'[s] = job[s]
  BY <1>1, CreateOnly DEF OnlyOf
<1>2. ~Crash
  BY DEF Crash, Answers
<1>3. CASE UNCHANGED job
  BY <1>3
<1>4. CASE \E d \in DeleteTasks : DeleteStep(d) \/ \E t \in Sandboxes : DeleteBegin(d, t)
  BY <1>4 DEF DeleteStep, DeleteStray, DeleteRemove, DeleteSave, DeleteAnswer, DeleteBegin
<1>5. CASE PollStep
  BY <1>5 DEF PollStep, PollInspect, PollApply, PollSave, PollSaved, PollRemove
<1>6. CASE WarmStep
  BY <1>6 DEF WarmStep, WarmContainer, WarmReady, WarmRemove
<1> QED BY <1>1, <1>2, <1>3, <1>4, <1>5, <1>6
        DEF Next, DeleteTasks, PollBegin, SetBegin, SetSave, SetAnswer, WarmBegin, SetDraining, Tick,
            ContainerEnds, Restart, taskVars

\* Every step keeps the room of those who adopt.
LEMMA AdoptFitsNext ==
  ASSUME CapInv, AdoptFits, Next
  PROVE  AdoptFits'
<1> SUFFICES ASSUME NEW s \in Sandboxes, job'[s].pc \in {"adopt", "adopted"}
             PROVE  Total(Held(res')) <= Units
  BY DEF AdoptFits
<1>1. CASE job[s].pc \notin {"adopt", "adopted"}
  BY <1>1, AdoptStarts, OthersAdoptNone
<1>2. CASE job[s].pc \in {"adopt", "adopted"}
  <2>1. Total(Held(res)) <= Units /\ Units \in Nat
    BY <1>2, WorkerAssumption DEF AdoptFits
  <2>2. ~Restart
    BY <1>2 DEF Restart, CapInv, Down, RestPCs
  <2>3. CASE Held(res') \subseteq Held(res)
    BY <2>1, <2>3, TotalMonotone DEF Held
  <2>4. ASSUME NEW id \in Ids, NEW r, Held(r) \subseteq Held(res), Fits(r, id),
               Held(res') \subseteq Held(r) \cup {id}
        PROVE  Total(Held(res')) <= Units
    <3>1. Held(r) \in SUBSET Ids /\ Held(r) \cup {id} \in SUBSET Ids
      BY DEF Held
    <3>2. Total(Held(r) \cup {id}) <= Total(Held(r)) + Size(id)
      BY <3>1, TotalAdd
    <3>3. Total(Held(r)) + Size(id) <= Units
      BY <2>4 DEF Fits
    <3>4. /\ Total(Held(res')) <= Total(Held(r) \cup {id})
          /\ Total(Held(res')) \in Nat /\ Total(Held(r) \cup {id}) \in Nat
      BY <2>4, <3>1, TotalMonotone
    <3>5. Total(Held(r)) \in Nat /\ Size(id) \in Nat
      BY <3>1, TotalMonotone DEF Size
    <3> QED BY <2>1, <3>2, <3>3, <3>4, <3>5
  <2> QED BY <2>2, <2>3, <2>4, HeldStep
<1> QED BY <1>1, <1>2

\* Every step keeps the absent records blank.
LEMMA BlankNext ==
  ASSUME CapInv, Blank, Next
  PROVE  Blank'
<1> SUFFICES ASSUME NEW s \in Sandboxes, rec'[s].state = "ABSENT" PROVE rec'[s] = NoRec
  BY DEF Blank
<1> USE DEF CapInv, TypeOK, TablesOK, Blank
<1>1. ASSUME NEW t \in Sandboxes, CreateBegin(t) \/ CreateStep(t) PROVE rec'[s] = NoRec
  <2>1. CASE t # s
    BY <1>1, <2>1, CreateOnly DEF OnlyOf
  <2>2. CASE t = s
    <3>a. ASSUME NEW r, NEW wm, ColdPath(s, r, wm) PROVE rec'[s] = NoRec
      BY <3>a DEF ColdPath
    <3>b. ~BootFailed(s)
      BY DEF BootFailed, Records
    <3>c. job[s].pc = "image" => rec[s].state # "ABSENT"
      BY DEF Stages, StageOf, BootPCs
    <3>1. CASE CreateBegin(s)
      BY <3>1, <3>a DEF CreateBegin, ClaimWarm
    <3>2. CASE CreateUnslot(s)
      BY <3>2, <3>a DEF CreateUnslot
    <3>3. CASE CreateContainer(s)
      BY <3>3, <3>b, <3>c DEF CreateContainer, At, Records
    <3>4. CASE CreateAdopt(s) \/ CreateAdopted(s) \/ EnsureImageFails(s) \/ CreateStart(s)
      BY <3>4, <3>b DEF CreateAdopt, CreateAdopted, EnsureImageFails, CreateStart
    <3>5. CASE CreateVerify(s) \/ CreateCleanup(s) \/ CreateSave(s) \/ CreateAnswer(s)
      BY <3>5, <3>b DEF CreateVerify, CreateCleanup, CreateSave, CreateAnswer, Records
    <3> QED BY <1>1, <2>2, <3>1, <3>2, <3>3, <3>4, <3>5 DEF CreateStep
  <2> QED BY <2>1, <2>2
<1>2. ASSUME NEW d \in DeleteTasks, DeleteStep(d) \/ \E t \in Sandboxes : DeleteBegin(d, t)
      PROVE  rec'[s] = NoRec
  BY <1>2 DEF DeleteStep, DeleteStray, DeleteRemove, DeleteSave, DeleteAnswer, DeleteBegin, Records, NoRec
<1>3. CASE PollStep
  BY <1>3 DEF PollStep, PollInspect, PollApply, PollSave, PollSaved, PollRemove, Records
<1>4. ASSUME NEW t \in Sandboxes, SetBegin(t) PROVE rec'[s] = NoRec
  BY <1>4 DEF SetBegin, Known, Records
<1>5. CASE Crash
  BY <1>5 DEF Crash
<1>6. CASE Restart
  <2> DEFINE Mine == {l \in {l \in Ids : ctr[l] # "none"} : Owner(l) = s}
  <2>1. CASE Mine = {}
    BY <1>6, <2>1 DEF Restart
  <2>2. CASE Mine # {}
    <3>1. rec'[s].state \in {"RUNNING", "STOPPED"}
      BY <1>6, <2>2 DEF Restart
    <3> QED BY <3>1
  <2> QED BY <2>1, <2>2
<1>7. CASE UNCHANGED rec
  BY <1>7
<1>8. CASE WarmStep
  BY <1>7, <1>8 DEF WarmStep, WarmContainer, WarmReady, WarmRemove
<1> QED BY <1>1, <1>2, <1>3, <1>4, <1>5, <1>6, <1>7, <1>8
        DEF Next, DeleteTasks, PollBegin, SetSave, SetAnswer, WarmBegin, SetDraining, Tick, ContainerEnds

\* Every step keeps both.
LEMMA ContractInvNext == CapInv /\ ContractInv /\ [Next]_vars => ContractInv'
<1>1. CASE UNCHANGED vars
  BY <1>1 DEF vars, taskVars, ContractInv, AdoptFits, Blank, Held
<1>2. CASE Next
  BY <1>2, AdoptFitsNext, BlankNext DEF ContractInv
<1> QED BY <1>1, <1>2

\* As long as the daemon is up, what happens to one sandbox is a move of the contract.
LEMMA Moves ==
  ASSUME TypeOK, NEW s \in Sandboxes, up' = up,
         \A t \in Sandboxes \ {s} : rec'[t].state = rec[t].state /\ job'[t].pc = job[t].pc
  PROVE  Contract!Move(s, Shown(rec'[s].state), Stage(job'[s].pc))
BY DEF Contract!Move

\* What no one sees is no step.
LEMMA Unseen ==
  ASSUME up' = up, \A t \in Sandboxes : /\ Shown(rec'[t].state) = Shown(rec[t].state)
                                        /\ Stage(job'[t].pc) = Stage(job[t].pc)
  PROVE  UNCHANGED Contract!cvars
BY DEF Contract!cvars

\* The contract counts as the worker does.
LEMMA SameCount == \A S : Contract!Cardinality(S) = Cardinality(S)
BY DEF Contract!Cardinality, Cardinality

\* Where a reservation fits, there is room for one more sandbox.
LEMMA RoomFor ==
  ASSUME CapInv, NEW s \in Sandboxes, rec[s].state \notin Live,
         (res[s] # "none" /\ Total(Held(res)) <= Units) \/ Total(Held(res)) < Units
  PROVE  Cardinality(Contract!Running) < Units
<1> USE WorkerAssumption DEF CapInv, TypeOK, TablesOK, Ids
<1> DEFINE R == Contract!Running
<1>1. R = {t \in Sandboxes : rec[t].state \in Live}
  BY DEF Contract!Running, Contract!Live, Shown, Live
<1>2. R \subseteq Held(res) /\ s \notin R
  BY <1>1 DEF Stages, StageOf, Held, Live
<1> HIDE DEF R
<1>3. IsFiniteSet(Held(res)) /\ Held(res) \in SUBSET Ids
  <2>1. Held(res) \subseteq Ids
    BY DEF Held
  <2> QED BY <2>1, FS_Subset
<1>4. /\ Cardinality(R) <= Cardinality(Held(res))
      /\ IsFiniteSet(R) /\ Cardinality(R) \in Nat /\ Cardinality(Held(res)) \in Nat
  BY <1>2, <1>3, FS_Subset, FS_CardinalityType
<1>5. Cardinality(Held(res)) <= Total(Held(res)) /\ Total(Held(res)) \in Nat /\ Units \in Nat
  <2>1. Cardinality(Held(res) \cap Big) \in Nat
    BY <1>3, FS_Subset, FS_CardinalityType, FS_Intersection
  <2> QED BY <1>4, <2>1 DEF Total
<1>6. Total(Held(res)) < Units => Cardinality(R) < Units
  BY <1>4, <1>5
<1>7. ASSUME res[s] # "none", Total(Held(res)) <= Units PROVE Cardinality(R) < Units
  <2>1. s \in Held(res)
    BY <1>7 DEF Held
  <2>2. R # Held(res)
    BY <1>2, <2>1
  <2>3. Cardinality(R) # Cardinality(Held(res))
    BY <1>2, <1>3, <2>2, FS_Subset
  <2> QED BY <1>4, <1>5, <1>7, <2>3
<1> QED BY <1>6, <1>7 DEF R

\* A step that reserves, evicts or rejects is an admission, nothing, or a rejection.
LEMMA ColdContract ==
  ASSUME CapInv, NEW s \in Sandboxes, job[s].pc \in EarlyPCs \ {"rejected"}, up, up' = up,
         ColdPath(s, res, warm), OnlyOf(s)
  PROVE  [Contract!Step]_(Contract!cvars)
<1> USE DEF CapInv, TypeOK, TablesOK, JobsOK, Job
<1>a. \A t \in Sandboxes \ {s} : rec'[t].state = rec[t].state /\ job'[t].pc = job[t].pc
  BY DEF OnlyOf
<1>b. Contract!Move(s, Shown(rec'[s].state), Stage(job'[s].pc))
  BY <1>a, Moves
<1>c. rec[s].state = "ABSENT" /\ Shown(rec[s].state) = "ABSENT" /\ Stage(job[s].pc) = "none"
  BY DEF Stages, StageOf, NoRec, Shown, Stage, EarlyPCs, SlotPCs
<1>1. CASE Admits(res, s) /\ rec' = [rec EXCEPT ![s] = [state |-> "CREATING", exp |-> 1, at |-> None]]
           /\ job'[s].pc = "image"
  <2>1. Total(Held(res)) < Units
    <3>1. Total(Held(res)) + Size(s) <= Units
      BY <1>1 DEF Admits, Fits
    <3>2. Total(Held(res)) \in Nat /\ Units \in Nat
      BY WorkerAssumption, TotalMonotone DEF Held
    <3> QED BY <3>1, <3>2 DEF Size
  <2>2. Cardinality(Contract!Running) < Units
    BY <1>c, <2>1, RoomFor DEF Live
  <2>3. Shown(rec'[s].state) = "CREATING" /\ Stage(job'[s].pc) = "working"
    BY <1>1 DEF Shown, Stage
  <2>4. Contract!Admit(s)
    BY <1>b, <1>c, <2>2, <2>3, SameCount DEF Contract!Admit
  <2> QED BY <2>4 DEF Contract!Step
<1>2. CASE rec' = rec /\ job'[s].pc = "evict"
  <2>1. Stage(job'[s].pc) = "none"
    BY <1>2 DEF Stage
  <2> QED BY <1>2, <1>a, <1>c, <2>1, Unseen
<1>3. CASE rec' = rec /\ job'[s].pc = "rejected"
  <2>1. Stage(job'[s].pc) = "rejected"
    BY <1>3 DEF Stage
  <2>2. Contract!Reject(s)
    BY <1>3, <1>b, <1>c, <2>1 DEF Contract!Reject
  <2> QED BY <2>2 DEF Contract!Step
<1> QED BY <1>1, <1>2, <1>3 DEF ColdPath

\* A boot that fails ends the sandbox, unless it is over already.
LEMMA BootFailedContract ==
  ASSUME CapInv, NEW s \in Sandboxes, job[s].pc \in BootPCs, up, up' = up, BootFailed(s)
  PROVE  [Contract!Step]_(Contract!cvars)
<1> USE DEF CapInv, TypeOK, TablesOK, JobsOK, Job
<1>a. \A t \in Sandboxes \ {s} : rec'[t].state = rec[t].state /\ job'[t].pc = job[t].pc
  BY DEF BootFailed
<1>b. Contract!Move(s, Shown(rec'[s].state), Stage(job'[s].pc))
  BY <1>a, Moves
<1>c. Shown(rec'[s].state) = "OVER" /\ Stage(job'[s].pc) = Stage(job[s].pc)
  <2>1. rec'[s].state = "FAILED" /\ job'[s].pc = "failed"
    BY DEF BootFailed, Records
  <2> QED BY <2>1 DEF Shown, Stage, BootPCs
<1>d. rec[s].state \in {"CREATING", "STOPPING", "STOPPED", "EXPIRED"}
  BY DEF Stages, StageOf
<1>1. CASE rec[s].state = "CREATING"
  <2>1. Shown(rec[s].state) \in Contract!Live
    BY <1>1 DEF Shown, Contract!Live
  <2>2. Contract!End(s)
    BY <1>b, <1>c, <2>1 DEF Contract!End
  <2> QED BY <2>2 DEF Contract!Step
<1>2. CASE rec[s].state # "CREATING"
  <2>1. Shown(rec[s].state) = "OVER"
    BY <1>d, <1>2 DEF Shown
  <2> QED BY <1>a, <1>c, <2>1, Unseen
<1> QED BY <1>1, <1>2

\* Every step of a create keeps the contract.
LEMMA CreateContract ==
  ASSUME CapInv, ContractInv, NEW s \in Sandboxes, CreateBegin(s) \/ CreateStep(s)
  PROVE  [Contract!Step]_(Contract!cvars)
<1> USE DEF CapInv, TypeOK, TablesOK, JobsOK, Job, At
<1>o. OnlyOf(s)
  BY CreateOnly
<1>a. \A t \in Sandboxes \ {s} : rec'[t].state = rec[t].state /\ job'[t].pc = job[t].pc
  BY <1>o DEF OnlyOf
<1>u. up /\ up' = up
  BY DEF CreateBegin, CreateStep, CreateAdopt, CreateAdopted, CreateUnslot, EnsureImageFails,
       CreateContainer, CreateStart, CreateVerify, CreateCleanup, CreateSave, CreateAnswer
<1>b. Contract!Move(s, Shown(rec'[s].state), Stage(job'[s].pc))
  BY <1>a, <1>u, Moves
<1>c. StageOf(s)
  BY DEF Stages
<1>1. CASE CreateBegin(s)
  <2>1. job[s].pc = "idle"
    BY <1>1 DEF CreateBegin
  <2>2. CASE ColdPath(s, res, warm)
    BY <1>o, <1>u, <2>1, <2>2, ColdContract DEF EarlyPCs
  <2>3. CASE rec' = rec /\ job'[s].pc = "rejected"
    <3>1. Stage(job'[s].pc) = "rejected" /\ Stage(job[s].pc) = "none"
      BY <2>1, <2>3 DEF Stage
    <3>2. Contract!Reject(s)
      BY <1>b, <1>u, <2>3, <3>1 DEF Contract!Reject
    <3> QED BY <3>2 DEF Contract!Step
  <2>4. CASE \E w \in warm : rec' = rec /\ Job(s, "adopt", w)
    <3>1. rec' = rec /\ Stage(job'[s].pc) = Stage(job[s].pc)
      BY <2>1, <2>4 DEF Stage
    <3> QED BY <1>a, <1>u, <3>1, Unseen
  <2>5. CASE \E w \in warm : ClaimWarm(s, w)
    BY <2>2, <2>4, <2>5 DEF ClaimWarm
  <2>6. draining /\ Job(s, "rejected", None) /\ UNCHANGED rec => rec' = rec /\ job'[s].pc = "rejected"
    OBVIOUS
  <2> HIDE DEF Job
  <2> QED BY <1>1, <2>2, <2>3, <2>5, <2>6 DEF CreateBegin
<1>2. CASE CreateAdopt(s)
  <2>1. rec' = rec /\ Stage(job'[s].pc) = Stage(job[s].pc)
    BY <1>2 DEF CreateAdopt, Stage
  <2> QED BY <1>a, <1>u, <2>1, Unseen
<1>3. CASE CreateAdopted(s)
  <2>1. CASE rec'[s].state = "RUNNING" /\ job'[s].pc = "save"
    <3>1. res[s] # "none" /\ rec[s] = NoRec /\ Total(Held(res)) <= Units
      BY <1>3, <1>c DEF CreateAdopted, StageOf, EarlyPCs, SlotPCs, ContractInv, AdoptFits
    <3>2. Cardinality(Contract!Running) < Units
      BY <3>1, RoomFor DEF NoRec, Live
    <3>3. /\ Shown(rec'[s].state) = "RUNNING" /\ Stage(job'[s].pc) = "saving"
          /\ Shown(rec[s].state) = "ABSENT" /\ Stage(job[s].pc) = "none"
      BY <1>3, <2>1, <3>1 DEF Shown, Stage, CreateAdopted, NoRec
    <3>4. Contract!Admit(s)
      BY <1>b, <1>u, <3>2, <3>3, SameCount DEF Contract!Admit
    <3> QED BY <3>4 DEF Contract!Step
  <2>2. CASE rec' = rec /\ job'[s].pc = "unslot"
    <3>1. Stage(job'[s].pc) = Stage(job[s].pc)
      BY <1>3, <2>2 DEF CreateAdopted, Stage
    <3> QED BY <1>a, <1>u, <2>2, <3>1, Unseen
  <2> QED BY <1>3, <2>1, <2>2 DEF CreateAdopted
<1>4. CASE CreateUnslot(s)
  BY <1>4, <1>o, <1>u, ColdContract DEF CreateUnslot, EarlyPCs, SlotPCs
<1>5. CASE BootFailed(s) /\ (EnsureImageFails(s) \/ CreateContainer(s) \/ CreateStart(s) \/ CreateVerify(s))
  <2>1. job[s].pc \in BootPCs
    BY <1>5 DEF EnsureImageFails, CreateContainer, CreateStart, CreateVerify, BootPCs
  <2> QED BY <1>5, <1>u, <2>1, BootFailedContract
<1>6. CASE (CreateContainer(s) \/ CreateStart(s)) /\ ~BootFailed(s)
  <2>1. Stage(job'[s].pc) = Stage(job[s].pc) /\ rec'[s].state = rec[s].state
    BY <1>6 DEF CreateContainer, CreateStart, Stage, Records
  <2> QED BY <1>a, <1>u, <2>1, Unseen
<1>7. CASE CreateVerify(s) /\ ~BootFailed(s)
  <2>1. Stage(job[s].pc) = "working"
    BY <1>7 DEF CreateVerify, Stage
  <2>2. CASE rec[s].state = "CREATING" /\ rec'[s].state = "RUNNING" /\ job'[s].pc = "save"
    <3>1. Shown(rec[s].state) = "CREATING" /\ Shown(rec'[s].state) = "RUNNING" /\ Stage(job'[s].pc) = "saving"
      BY <2>2 DEF Shown, Stage
    <3>2. Contract!Boot(s)
      BY <1>b, <1>u, <2>1, <3>1 DEF Contract!Boot
    <3> QED BY <3>2 DEF Contract!Step
  <2>3. CASE rec' = rec /\ job'[s].pc = "discard"
    <3>1. Stage(job'[s].pc) = "working"
      BY <2>3 DEF Stage
    <3> QED BY <1>a, <1>u, <2>1, <2>3, <3>1, Unseen
  <2> QED BY <1>7, <2>2, <2>3 DEF CreateVerify, BootedState, Records
<1>8. CASE CreateCleanup(s)
  <2>1. /\ Stage(job[s].pc) = "working" /\ Stage(job'[s].pc) = "saving"
        /\ rec'[s] = (IF job[s].pc = "failed" THEN NoRec ELSE rec[s])
    BY <1>8 DEF CreateCleanup, Stage
  <2>2. CASE job[s].pc = "failed"
    <3>1. Shown(rec'[s].state) = "ABSENT"
      BY <2>1, <2>2 DEF NoRec, Shown
    <3>2. Contract!Boot(s)
      BY <1>b, <1>u, <2>1, <3>1 DEF Contract!Boot
    <3> QED BY <3>2 DEF Contract!Step
  <2>3. CASE job[s].pc = "discard"
    <3>1. Shown(rec[s].state) = "OVER" /\ Shown(rec'[s].state) = "OVER"
      BY <1>c, <2>1, <2>3 DEF StageOf, Over, Shown
    <3>2. Contract!Boot(s)
      BY <1>b, <1>u, <2>1, <3>1 DEF Contract!Boot
    <3> QED BY <3>2 DEF Contract!Step
  <2> QED BY <1>8, <2>2, <2>3 DEF CreateCleanup
<1>9. CASE CreateSave(s)
  <2>1. rec' = rec /\ Stage(job'[s].pc) = Stage(job[s].pc)
    BY <1>9 DEF CreateSave, Stage
  <2> QED BY <1>a, <1>u, <2>1, Unseen
<1>10. CASE CreateAnswer(s)
  <2>1. rec' = rec /\ job[s].pc = "saving" /\ job'[s].pc = Answer(s)
    BY <1>10 DEF CreateAnswer
  <2>2. Stage(job[s].pc) = "saving"
    BY <2>1 DEF Stage
  <2>3. Stage(job'[s].pc) = CASE Shown(rec[s].state) = "ABSENT" -> "error"
                              [] Shown(rec[s].state) = "RUNNING" -> "done"
                              [] OTHER -> "ended"
    BY <2>1 DEF Stage, Answer, Shown
  <2>4. Contract!Answer(s)
    BY <1>b, <1>u, <2>1, <2>2, <2>3 DEF Contract!Answer
  <2> QED BY <2>4 DEF Contract!Step
<1> QED BY <1>1, <1>2, <1>3, <1>4, <1>5, <1>6, <1>7, <1>8, <1>9, <1>10 DEF CreateStep, EnsureImageFails

\* What ends a sandbox from outside its create ends it, or it was over.
LEMMA EndsContract ==
  ASSUME CapInv, NEW s \in Sandboxes, up, up' = up, UNCHANGED job,
         \A t \in Sandboxes \ {s} : rec'[t] = rec[t],
         rec[s].state # "ABSENT", rec'[s].state \in Over \cup {"STOPPING"}
  PROVE  [Contract!Step]_(Contract!cvars)
<1>b. Contract!Move(s, Shown(rec'[s].state), Stage(job'[s].pc))
  BY Moves DEF CapInv
<1>c. Shown(rec'[s].state) = "OVER" /\ Stage(job'[s].pc) = Stage(job[s].pc)
  BY DEF Shown, Over
<1>1. CASE rec[s].state \in Live
  <2>1. Shown(rec[s].state) \in Contract!Live
    BY <1>1 DEF Shown, Live, Contract!Live
  <2>2. Contract!End(s)
    BY <1>b, <1>c, <2>1 DEF Contract!End
  <2> QED BY <2>2 DEF Contract!Step
<1>2. CASE rec[s].state \notin Live
  <2>1. Shown(rec[s].state) = "OVER"
    BY <1>2 DEF Shown, Live
  <2> QED BY <1>c, <2>1, Unseen
<1> QED BY <1>1, <1>2

\* A crash is a failure: nobody answers what is under way.
LEMMA CrashContract ==
  ASSUME CapInv, Crash
  PROVE  Contract!Fail
<1> USE DEF CapInv, TypeOK, TablesOK, JobsOK, Jobs
<1>1. up /\ up' = FALSE
  BY DEF Crash
<1>2. \A s \in Sandboxes : Shown(rec'[s].state) = "ABSENT"
  BY DEF Crash, NoRec, Shown
<1>3. \A s \in Sandboxes : job'[s].pc = IF job[s].pc \in Answers \cup {"idle"} THEN job[s].pc ELSE "lost"
  BY DEF Crash
<1>4. \A s \in Sandboxes :
        /\ Stage(job'[s].pc) \in {"none", "lost", "rejected"} \cup Contract!Settled
        /\ Stage(job'[s].pc) # Stage(job[s].pc) =>
             Stage(job'[s].pc) = "lost" /\ Stage(job[s].pc) \in {"none", "working", "saving"}
  BY <1>3 DEF Stage, Answers, Contract!Settled, JobPCs, EarlyPCs, SlotPCs, BootPCs, LatePCs
<1> QED BY <1>1, <1>2, <1>4 DEF Contract!Fail

\* A restart is a return, with what was once taken on.
LEMMA RestartContract ==
  ASSUME CapInv, Restart
  PROVE  Contract!Return
<1>1. ~up /\ up' = TRUE /\ UNCHANGED job
  BY DEF Restart, taskVars
<1>2. ASSUME NEW s \in Sandboxes PROVE rec'[s] = NoRec \/ rec'[s].state \in {"RUNNING", "STOPPED"}
  <2> DEFINE Mine == {l \in {l \in Ids : ctr[l] # "none"} : Owner(l) = s}
  <2>1. CASE Mine = {}
    BY <2>1 DEF Restart
  <2>2. CASE Mine # {}
    BY <2>2 DEF Restart
  <2> QED BY <2>1, <2>2
<1>3. ASSUME NEW s \in Sandboxes
      PROVE  /\ Shown(rec'[s].state) \in {"ABSENT", "RUNNING", "OVER"}
             /\ Shown(rec'[s].state) # "ABSENT" => Stage(job[s].pc) \in Contract!Settled
  <2>1. StageOf(s)'
    BY RestartKeeps DEF Stages
  <2>2. job[s].pc \in RestPCs
    BY <1>1 DEF CapInv, Down
  <2>3. rec'[s] # NoRec => job[s].pc \notin EarlyPCs
    BY <1>1, <2>1 DEF StageOf
  <2> QED BY <1>2, <2>2, <2>3 DEF RestPCs, EarlyPCs, NoRec, Shown, Stage, Contract!Settled
<1> QED BY <1>1, <1>3 DEF Contract!Return

\* Every step of the worker is a step of the contract, or nobody sees it.
LEMMA ContractNext ==
  ASSUME CapInv, ContractInv, [Next]_vars
  PROVE  [Contract!Step]_(Contract!cvars)
<1> USE DEF CapInv, TypeOK
<1>0. CASE UNCHANGED <<rec, job, up>>
  BY <1>0, Unseen
<1>1. ASSUME NEW s \in Sandboxes, CreateBegin(s) \/ CreateStep(s) PROVE [Contract!Step]_(Contract!cvars)
  BY <1>1, CreateContract
<1>2. ASSUME NEW d \in DeleteTasks, NEW s \in Sandboxes, DeleteBegin(d, s) PROVE [Contract!Step]_(Contract!cvars)
  <2>1. UNCHANGED <<rec, job, up>> \/ /\ up /\ up' = up /\ UNCHANGED job /\ rec[s].state # "ABSENT"
                                      /\ rec' = [rec EXCEPT ![s].state = "STOPPING"]
    BY <1>2 DEF DeleteBegin
  <2> QED BY <1>0, <2>1, EndsContract DEF TablesOK, Records
<1>3. ASSUME NEW d \in DeleteTasks, DeleteStep(d) PROVE [Contract!Step]_(Contract!cvars)
  <2>1. CASE DeleteRemove(d)
    <3> DEFINE s == del[d].sb
    <3>1. s \in Sandboxes
      BY <2>1 DEF DeleteRemove, DelsOK
    <3>2. CASE rec[s] = NoRec
      <4>1. rec' = rec
        BY <2>1, <3>2 DEF DeleteRemove, TablesOK
      <4> QED BY <1>0, <2>1, <4>1 DEF DeleteRemove
    <3>3. CASE rec[s] # NoRec
      <4>1. rec[s].state # "ABSENT"
        BY <3>1, <3>3 DEF ContractInv, Blank
      <4>2. /\ up /\ up' = up /\ UNCHANGED job /\ rec'[s].state \in {"EXPIRED", "STOPPED"}
            /\ \A t \in Sandboxes \ {s} : rec'[t] = rec[t]
        BY <2>1, <3>1, <3>3 DEF DeleteRemove, TablesOK, Records
      <4> QED BY <3>1, <4>1, <4>2, EndsContract DEF Over
    <3> QED BY <3>2, <3>3
  <2>2. CASE DeleteStray(d) \/ DeleteSave(d) \/ DeleteAnswer(d)
    BY <1>0, <2>2 DEF DeleteStray, DeleteSave, DeleteAnswer
  <2> QED BY <1>3, <2>1, <2>2 DEF DeleteStep
<1>4. CASE PollStep
  <2>1. CASE PollApply
    <3> DEFINE s == poll.sb
    <3>1. s \in Sandboxes /\ rec[s].state # "ABSENT"
      BY <2>1 DEF PollApply, OthersOK, UnderWay
    <3>2. /\ up /\ up' = up /\ UNCHANGED job
          /\ rec' = rec \/ \E end \in {"LOST", "STOPPED"} : rec' = [rec EXCEPT ![s].state = end]
      BY <2>1 DEF PollApply
    <3>3. CASE rec' = rec
      BY <1>0, <3>2, <3>3
    <3>4. ASSUME NEW end \in {"LOST", "STOPPED"}, rec' = [rec EXCEPT ![s].state = end]
          PROVE  [Contract!Step]_(Contract!cvars)
      <4>1. rec'[s].state \in Over /\ \A t \in Sandboxes \ {s} : rec'[t] = rec[t]
        BY <3>1, <3>4 DEF TablesOK, Records, Over
      <4> QED BY <3>1, <3>2, <4>1, EndsContract
    <3> QED BY <3>2, <3>3, <3>4
  <2>2. CASE PollInspect \/ PollSave \/ PollSaved \/ PollRemove
    BY <1>0, <2>2 DEF PollInspect, PollSave, PollSaved, PollRemove
  <2> QED BY <1>4, <2>1, <2>2 DEF PollStep
<1>5. ASSUME NEW s \in Sandboxes, SetBegin(s) PROVE [Contract!Step]_(Contract!cvars)
  <2>1. up' = up /\ UNCHANGED job /\ \A t \in Sandboxes : rec'[t].state = rec[t].state
    BY <1>5 DEF SetBegin, TablesOK, Records
  <2> QED BY <2>1, Unseen
<1>6. CASE Crash
  BY <1>6, CrashContract DEF Contract!Step
<1>7. CASE Restart
  BY <1>7, RestartContract DEF Contract!Step
<1>8. CASE WarmStep
  BY <1>0, <1>8 DEF WarmStep, WarmContainer, WarmReady, WarmRemove
<1>9. CASE UNCHANGED vars
  BY <1>0, <1>9 DEF vars, taskVars
<1> QED BY <1>0, <1>1, <1>2, <1>3, <1>4, <1>5, <1>6, <1>7, <1>8, <1>9
        DEF Next, DeleteTasks, PollBegin, SetSave, SetAnswer, WarmBegin, SetDraining, Tick, ContainerEnds, taskVars

\* Admission and its eviction and adoption of warm slots, boots, deletes, the reaper, polls,
\* and crashes and restarts of the daemon do nothing that a worker does not do by its
\* contract: a sandbox is taken on once and where there is room, a create is answered as the
\* sandbox then is, what is over stays over, what a restart finds was taken on before.
THEOREM WorkerKeepsContract == Spec => KeepsContract
<1>1. Init => ContractInv /\ Contract!Begin
  <2> SUFFICES ASSUME Init PROVE ContractInv /\ Contract!Begin
    OBVIOUS
  <2>1. ContractInv
    BY DEF Init, ContractInv, AdoptFits, Blank
  <2>2. Contract!Begin
    BY DEF Init, NoRec, Shown, Stage, Contract!Begin
  <2> QED BY <2>1, <2>2
<1>2. CapInv /\ ContractInv /\ [Next]_vars => [Contract!Step]_(Contract!cvars)
  BY ContractNext
<1> QED BY <1>1, <1>2, CapInit, CapNext, ContractInvNext, PTL DEF Spec, KeepsContract, Contract!Promise

-----------------------------------------------------------------------------
(* Who has a slot *)

\* A sandbox has a slot as long as anything of it, in memory or on disk, names it.
Holds(s, w) == job[s].slot = w \/ rec[s].at = w \/ saved[s].at = w \/ payload[s].at = w \/ names[s] = w

\* A slot is had by one sandbox at most, and by none while it boots or is warm.
SlotHeldOnce ==
  \A w \in Slots :
    /\ names[w] \in {w, None}
    /\ \A s, t \in Sandboxes : Holds(s, w) /\ Holds(t, w) => s = t
    /\ w \in warm \/ boot.sb = w => \A s \in Sandboxes : ~Holds(s, w)

-----------------------------------------------------------------------------
(* Records and containers *)

\* The record names the container the runtime would find, if it finds one.
AtOf(s) ==
  /\ rec[s].state = "ABSENT" => rec[s] = NoRec
  /\ rec[s].state # "ABSENT" => rec[s].exp > 0
  /\ job[s].pc \notin SlotPCs \cup {"save", "saving"} => job[s].slot = None
  /\ job[s].pc = "adopted" => names[s] \in {job[s].slot, None}
  /\ job[s].pc \in {"start", "verify"} => names[s] \in {s, None}
  /\ job[s].pc \in {"start", "verify", "discard"} => rec[s].at = s
  /\ job[s].pc \in BootPCs \cup {"failed", "discard"} => rec[s].at \in {s, None}
  /\ job[s].pc \in LatePCs /\ job[s].slot # None => rec[s].at = job[s].slot
  /\ job[s].pc \in LatePCs /\ rec[s].state # "ABSENT" => rec[s].at # None
  /\ job[s].pc \in LatePCs /\ rec[s].at # None => names[s] \in {rec[s].at, None}
  /\ job[s].pc = "start" => ctr[s] # "running"
  /\ payload[s] = NoSave \/ payload[s].exp > 0
  /\ saved[s] = NoSave \/ saved[s].exp > 0
Ats == \A s \in Sandboxes : AtOf(s)

\* A poll that has looked leaves the sandbox over, once it has applied what it saw.
PollOver == poll.pc \in {"save", "saving", "remove"} => rec[poll.sb].state \notin Live

NoLeak == budget.leaks = MaxLeaks

\* Unless Docker failed to remove something: a container that exists is found
\* through the mapping; what is over does not run.
FoundOf(s) ==
  /\ job[s].pc = "adopted" /\ ctr[job[s].slot] # "none" => names[s] = job[s].slot
  /\ rec[s].state \in {"RUNNING", "STOPPING"} /\ rec[s].at \in Slots /\ ctr[rec[s].at] # "none"
       => names[s] = rec[s].at
  /\ job[s].pc \in LatePCs /\ rec[s].state \in Over => rec[s].at \in Ids /\ ctr[rec[s].at] # "running"
  /\ up /\ job[s].pc \in LatePCs /\ ctr[s] = "running" => rec[s].at = s
\* What a poll saw gone does not run again.
SawGone == poll.pc = "apply" /\ poll.saw \in {"none", "exited"} => ctr[rec[poll.sb].at] # "running"
SlotsAnswered == up => \A w \in Slots : ctr[w] = "running" => Answered(w)
Found == (\A s \in Sandboxes : FoundOf(s)) /\ SawGone /\ SlotsAnswered

StrayInv == SlotHeldOnce /\ Ats /\ PollOver /\ budget.leaks <= MaxLeaks /\ (NoLeak => Found)

-----------------------------------------------------------------------------
(* The state file *)

\* A task that writes the file has the lock; what it writes is what the record said
\* when it took the lock.
WriterOf(s) ==
  /\ job[s].pc = "saving" => saver = s
  /\ job[s].pc = "saving" /\ rec[s].state = "RUNNING" => payload[s].at = rec[s].at /\ payload[s].exp >= 1
SetterWrites ==
  LET s == setter.sb IN
  /\ setter.pc # "idle" => job[s].pc \notin EarlyPCs /\ (rec[s].state \in Live => rec[s].exp >= 2)
  /\ setter.pc = "saving" => saver = Setter /\ (rec[s].state \in Live => payload[s].exp >= 2)

\* A promise is in the record, in the file, and in what is being written to it.
PromisedOf(s) ==
  promised[s] # 0 =>
    /\ saved[s].at \in Ids /\ ctr[saved[s].at] = "running" /\ saved[s].exp >= promised[s]
    /\ up => /\ rec[s].state = "RUNNING" /\ rec[s].exp >= promised[s] /\ rec[s].at = saved[s].at
             /\ saver # NoTask => payload[s].at = rec[s].at /\ payload[s].exp >= promised[s]

Writers == (\A s \in Sandboxes : WriterOf(s)) /\ SetterWrites
FileInv == Writers /\ (NoLeak => \A s \in Sandboxes : PromisedOf(s))

-----------------------------------------------------------------------------
(* Slots *)

\* Nobody gets a slot but the sandbox that has it, or s0, who takes it from the warm ones.
LEMMA HeldFrom ==
  ASSUME SlotHeldOnce, NEW s0 \in Sandboxes,
         \A t \in Sandboxes :
           /\ job'[t].slot \in {job[t].slot, None} \/ (t = s0 /\ job'[t].slot \in warm \ (warm' \cup {boot'.sb}))
           /\ rec'[t].at \in {rec[t].at, saved[t].at, job[t].slot, t, None}
           /\ payload'[t].at \in {payload[t].at, rec[t].at, None}
           /\ saved'[t].at \in {saved[t].at, payload[t].at, t, None}
           /\ names'[t] \in {names[t], saved[t].at, job[t].slot, t, None},
         \A w \in Slots : names'[w] \in {names[w], w, None},
         warm' \subseteq warm \cup {boot.sb}, boot'.sb \in {boot.sb, None}
  PROVE  SlotHeldOnce'
<1> USE WorkerAssumption DEF Ids
<1>1. ASSUME NEW w \in Slots, NEW t \in Sandboxes, Holds(t, w)'
      PROVE  Holds(t, w) \/ (t = s0 /\ w \in warm \ (warm' \cup {boot'.sb}))
  BY <1>1 DEF Holds
<1>2. ASSUME NEW w \in Slots PROVE names'[w] \in {w, None}
  BY DEF SlotHeldOnce
<1>3. ASSUME NEW w \in Slots, NEW s \in Sandboxes, NEW t \in Sandboxes, Holds(s, w)', Holds(t, w)'
      PROVE  s = t
  BY <1>1, <1>3 DEF SlotHeldOnce
<1>4. ASSUME NEW w \in Slots, w \in warm' \/ boot'.sb = w, NEW s \in Sandboxes PROVE ~Holds(s, w)'
  BY <1>1, <1>4 DEF SlotHeldOnce
<1> QED BY <1>2, <1>3, <1>4 DEF SlotHeldOnce

\* The cold path takes no slot but a warm one, which is then neither warm nor booting.
LEMMA ColdSlot ==
  ASSUME TypeOK, SlotsReserved, NEW s \in Sandboxes, ColdPath(s, res, warm), UNCHANGED boot
  PROVE  /\ job'[s].slot = None \/ job'[s].slot \in warm \ (warm' \cup {boot'.sb})
         /\ rec'[s].at \in {rec[s].at, None} /\ warm' \subseteq warm
BY DEF ColdPath, Job, TypeOK, TablesOK, JobsOK, SlotsReserved

\* A create hands no slot on.
LEMMA CreateHeld ==
  ASSUME CapInv, SlotHeldOnce, NEW s \in Sandboxes, CreateBegin(s) \/ CreateStep(s)
  PROVE  SlotHeldOnce'
<1> USE WorkerAssumption DEF CapInv, TypeOK
<1>a. OnlyOf(s) /\ boot' = boot
  BY CreateOnly DEF CreateBegin, CreateStep, CreateAdopt, CreateAdopted, CreateUnslot, EnsureImageFails,
         CreateContainer, CreateStart, CreateVerify, CreateCleanup, CreateSave, CreateAnswer
<1>b. ASSUME warm' \subseteq warm,
             job'[s].slot \in {job[s].slot, None} \/ job'[s].slot \in warm \ (warm' \cup {boot'.sb}),
             rec'[s].at \in {rec[s].at, job[s].slot, s, None},
             \A t \in Sandboxes : /\ payload'[t].at \in {payload[t].at, rec[t].at, None}
                                  /\ saved'[t].at \in {saved[t].at, payload[t].at, t, None}
                                  /\ names'[t] \in {names[t], job[t].slot, t, None},
             \A w \in Slots : names'[w] \in {names[w], w, None}
      PROVE  SlotHeldOnce'
  <2>1. \A t \in Sandboxes :
           /\ job'[t].slot \in {job[t].slot, None} \/ (t = s /\ job'[t].slot \in warm \ (warm' \cup {boot'.sb}))
           /\ rec'[t].at \in {rec[t].at, saved[t].at, job[t].slot, t, None}
    BY <1>a, <1>b DEF OnlyOf
  <2> QED BY <1>a, <1>b, <2>1, HeldFrom
<1>c. ASSUME NEW id \in Ids, Removed(id)
      PROVE  /\ \A t \in Sandboxes : names'[t] \in {names[t], job[t].slot, t, None}
             /\ \A w \in Slots : names'[w] \in {names[w], w, None}
  BY <1>c, RemovedEffect DEF Ids
<1>1. CASE CreateBegin(s)
  <2>1. UNCHANGED <<payload, saved, names>>
    BY <1>1 DEF CreateBegin, fileVars, dockVars
  <2>2. CASE ColdPath(s, res, warm)
    BY <2>1, <2>2, <1>a, <1>b, ColdSlot
  <2>3. CASE Job(s, "rejected", None) /\ UNCHANGED <<rec, res, warm>>
    BY <2>1, <2>3, <1>b DEF Job, JobsOK
  <2>4. CASE \E w \in warm : warm' = warm \ {w} /\ Job(s, "adopt", w) /\ UNCHANGED rec
    <3>1. job'[s].slot \in warm \ (warm' \cup {boot'.sb}) /\ warm' \subseteq warm
      BY <2>4, <1>a DEF Job, JobsOK, SlotsReserved
    <3> QED BY <2>1, <2>4, <3>1, <1>b
  <2> QED BY <1>1, <2>2, <2>3, <2>4 DEF CreateBegin, ClaimWarm
<1>2. CASE CreateUnslot(s)
  <2>1. job[s].slot \in Ids
    BY <1>2 DEF CreateUnslot, SlotPCs, JobsOK, Ids
  <2>2. UNCHANGED <<payload, saved>>
    BY <1>2 DEF CreateUnslot, fileVars
  <2> QED BY <1>2, <2>1, <2>2, <1>a, <1>b, <1>c, ColdSlot DEF CreateUnslot
<1>3. CASE CreateAdopt(s)
  <2>1. job[s].slot \in Slots /\ job'[s].slot = job[s].slot
    BY <1>3 DEF CreateAdopt, At, Job, JobsOK, SlotPCs
  <2>2. \A i \in Ids : names'[i] = names[i] \/ names'[i] = None \/ (i = s /\ names'[i] = job[s].slot)
    BY <1>3, <2>1 DEF CreateAdopt, RuntimeAdopt, DockOK, Ids
  <2>3. UNCHANGED <<rec, warm, payload, saved>>
    BY <1>3 DEF CreateAdopt, fileVars
  <2> QED BY <1>b, <2>1, <2>2, <2>3 DEF Ids
<1>4. CASE CreateAdopted(s)
  <2>1. job[s].slot \in Slots /\ job'[s].slot = job[s].slot /\ rec'[s].at \in {rec[s].at, job[s].slot}
    BY <1>4 DEF CreateAdopted, At, Job, JobsOK, SlotPCs, TablesOK
  <2>2. UNCHANGED <<warm, payload, saved, names>>
    BY <1>4 DEF CreateAdopted, fileVars, dockVars
  <2> QED BY <1>b, <2>1, <2>2
<1>5. CASE CreateContainer(s)
  <2>1. job'[s].slot = None /\ rec'[s].at \in {rec[s].at, s}
    BY <1>5 DEF CreateContainer, BootFailed, Job, JobsOK, TablesOK, Records
  <2>2. \A i \in Ids : names'[i] = names[i] \/ (i = s /\ names'[i] = s)
    BY <1>5 DEF CreateContainer, RuntimeCreate, DockOK, dockVars, Ids
  <2>3. UNCHANGED <<warm, payload, saved>>
    BY <1>5 DEF CreateContainer, fileVars
  <2> QED BY <1>b, <2>1, <2>2, <2>3 DEF Ids
<1>6. CASE EnsureImageFails(s) \/ CreateVerify(s) \/ CreateStart(s)
  <2>1. job'[s].slot = None /\ rec'[s].at = rec[s].at
    BY <1>6 DEF EnsureImageFails, CreateVerify, CreateStart, BootFailed, Job, JobsOK, TablesOK, Records
  <2>2. UNCHANGED <<warm, payload, saved, names>>
    BY <1>6 DEF EnsureImageFails, CreateVerify, CreateStart, fileVars, dockVars
  <2> QED BY <1>b, <2>1, <2>2
<1>7. CASE CreateCleanup(s)
  <2>1. job'[s].slot = None /\ rec'[s].at \in {rec[s].at, None}
    BY <1>7 DEF CreateCleanup, Job, JobsOK, TablesOK, NoRec
  <2>2. UNCHANGED <<warm, payload, saved>>
    BY <1>7 DEF CreateCleanup, fileVars
  <2>3. s \in Ids /\ Removed(s)
    BY <1>7 DEF CreateCleanup, Ids
  <2> QED BY <1>b, <1>c, <2>1, <2>2, <2>3
<1>8. CASE CreateSave(s) \/ CreateAnswer(s)
  <2>1. job'[s].slot \in {job[s].slot, None}
    BY <1>8 DEF CreateSave, CreateAnswer, Job, JobsOK
  <2>2. UNCHANGED <<rec, warm, names>>
    BY <1>8 DEF CreateSave, CreateAnswer, dockVars
  <2> QED BY <1>8, <1>b, <2>1, <2>2, FileEffect DEF CreateSave, CreateAnswer
<1> QED BY <1>1, <1>2, <1>3, <1>4, <1>5, <1>6, <1>7, <1>8 DEF CreateStep

\* Deletes, polls and deadlines take no slot.
LEMMA OtherHeld ==
  ASSUME CapInv, SlotHeldOnce,
         \/ \E d \in DeleteTasks : DeleteStep(d) \/ \E s \in Sandboxes : DeleteBegin(d, s)
         \/ PollStep \/ SetSave \/ SetAnswer \/ \E s \in Sandboxes : PollBegin(s) \/ SetBegin(s)
  PROVE  SlotHeldOnce'
<1> USE WorkerAssumption DEF CapInv, TypeOK
<1>1. UNCHANGED <<job, warm, boot>>
  BY DEF DeleteStep, DeleteBegin, DeleteStray, DeleteRemove, DeleteSave, DeleteAnswer, PollStep, PollInspect,
         PollApply, PollSave, PollSaved, PollRemove, SetSave, SetAnswer, PollBegin, SetBegin
<1>2. \A t \in Sandboxes : rec'[t].at = rec[t].at
  <2>1. ASSUME NEW d \in DeleteTasks, NEW s \in Sandboxes, DeleteBegin(d, s)
        PROVE  \A t \in Sandboxes : rec'[t].at = rec[t].at
    BY <2>1 DEF DeleteBegin, TablesOK, Records
  <2>2. ASSUME NEW d \in DeleteTasks, DeleteRemove(d) PROVE \A t \in Sandboxes : rec'[t].at = rec[t].at
    BY <2>2 DEF DeleteRemove, TablesOK, Records
  <2>3. CASE PollApply
    BY <2>3 DEF PollApply, TablesOK, Records
  <2>4. ASSUME NEW s \in Sandboxes, SetBegin(s) PROVE \A t \in Sandboxes : rec'[t].at = rec[t].at
    BY <2>4 DEF SetBegin, TablesOK, Records
  <2>5. CASE UNCHANGED rec
    BY <2>5
  <2> QED BY <2>1, <2>2, <2>3, <2>4, <2>5
          DEF DeleteStep, DeleteStray, DeleteSave, DeleteAnswer, PollStep, PollInspect,
              PollSave, PollSaved, PollRemove, SetSave, SetAnswer, PollBegin
<1>3. \A t \in Sandboxes : /\ payload'[t].at \in {payload[t].at, rec[t].at, None}
                           /\ saved'[t].at \in {saved[t].at, payload[t].at}
  <2>1. CASE \E t : TakeState(t) \/ PutState(t)
    BY <2>1, FileEffect
  <2> QED BY <2>1
          DEF DeleteStep, DeleteBegin, DeleteStray, DeleteRemove, DeleteSave, DeleteAnswer, PollStep,
              PollInspect,
              PollApply, PollSave, PollSaved, PollRemove, SetSave, SetAnswer, PollBegin, SetBegin, fileVars
<1>4. \A i \in Ids : names'[i] \in {names[i], i, None}
  <2>1. CASE \E i \in Ids : Removed(i)
    BY <2>1, RemovedEffect
  <2>2. CASE PollInspect
    BY <2>2 DEF PollInspect, ContainerOf, DockOK, OthersOK, Ids
  <2> QED BY <2>1, <2>2
          DEF DeleteStep, DeleteBegin, DeleteStray, DeleteRemove, DeleteSave, DeleteAnswer, PollStep,
              PollApply, PollSave, PollSaved, PollRemove, SetSave, SetAnswer, PollBegin, SetBegin, dockVars,
              DelsOK, OthersOK, Ids
<1>5. CASE Sandboxes = {}
  BY <1>1, <1>4, <1>5 DEF SlotHeldOnce, Ids
<1>6. ASSUME NEW s \in Sandboxes PROVE SlotHeldOnce'
  BY <1>1, <1>2, <1>3, <1>4, HeldFrom DEF Ids
<1> QED BY <1>5, <1>6

\* A warm slot boots and waits for itself alone; a new one has no past.
LEMMA WarmHeld ==
  ASSUME CapInv, SlotHeldOnce, WarmStep \/ \E w \in Slots : WarmBegin(w)
  PROVE  SlotHeldOnce'
<1> USE WorkerAssumption DEF CapInv, TypeOK
<1>1. UNCHANGED <<rec, job, payload, saved>>
  BY DEF WarmStep, WarmContainer, WarmReady, WarmRemove, WarmBegin, fileVars
<1>2. /\ \A s \in Sandboxes : names'[s] \in {names[s], None}
      /\ \A w \in Slots : names'[w] \in {names[w], w, None}
  <2>1. CASE WarmRemove
    <3>1. boot.sb \in Ids /\ Removed(boot.sb)
      BY <2>1 DEF WarmRemove, OthersOK, Boots, Ids
    <3> QED BY <3>1, RemovedEffect DEF Ids
  <2>2. CASE WarmContainer
    BY <2>2 DEF WarmContainer, DockOK, OthersOK, Boots, Ids, dockVars
  <2> QED BY <2>1, <2>2 DEF WarmStep, WarmReady, WarmBegin, dockVars
<1>3. CASE WarmStep
  <2>1. warm' \subseteq warm \cup {boot.sb} /\ boot'.sb \in {boot.sb, None}
    BY <1>3 DEF WarmStep, WarmContainer, WarmReady, WarmRemove, WarmFailed, OthersOK, Boots, IdleDel
  <2>2. \A w \in Slots, s \in Sandboxes : Holds(s, w)' => Holds(s, w)
    BY <1>1, <1>2 DEF Holds, Ids
  <2> QED BY <1>2, <2>1, <2>2 DEF SlotHeldOnce, Ids
<1>4. ASSUME NEW v \in Slots, WarmBegin(v) PROVE SlotHeldOnce'
  <2>1. warm' = warm /\ boot'.sb = v /\ names' = names /\ Fresh(v)
    BY <1>4 DEF WarmBegin, dockVars
  <2>2. \A s \in Sandboxes : ~Holds(s, v)
    BY <2>1 DEF Fresh, Holds, Ids
  <2>3. \A w \in Slots, s \in Sandboxes : Holds(s, w)' => Holds(s, w)
    BY <1>1, <1>2 DEF Holds, Ids
  <2>4. boot.sb = None \/ boot.sb \in Slots
    BY DEF OthersOK, Boots
  <2> QED BY <2>1, <2>2, <2>3 DEF SlotHeldOnce
<1> QED BY <1>3, <1>4

\* What a restart finds for a sandbox: nothing, or one container that was its own,
\* which the record, the mapping and the file then agree on.
FoundAgain(s) ==
  \/ /\ rec'[s] = NoRec /\ saved'[s] = NoSave /\ names'[s] = None
     /\ \A l \in Ids : ctr[l] # "none" => Owner(l) # s
  \/ \E l \in Ids :
       /\ ctr[l] # "none" /\ Owner(l) = s /\ rec'[s].at = l /\ l \in {s, saved[s].at}
       /\ rec'[s].exp = IF saved[s] = NoSave THEN 1 ELSE saved[s].exp
       /\ \A m \in Ids : ctr[m] # "none" /\ Owner(m) = s => m = l
       /\ \/ /\ ctr[l] = "running" /\ rec'[s].state = "RUNNING" /\ names'[s] = l
             /\ saved'[s] = [exp |-> rec'[s].exp, at |-> l]
          \/ ctr[l] # "running" /\ rec'[s].state = "STOPPED" /\ names'[s] = None /\ saved'[s] = NoSave
\* That is what Restart does.
LEMMA RestartFinds ==
  ASSUME CapInv, Restart, NEW s \in Sandboxes
  PROVE  FoundAgain(s)
<1> USE WorkerAssumption DEF CapInv, TypeOK, Ids
<1> DEFINE present == {l \in Ids : ctr[l] # "none"}
           leftover == {l \in present : Owner(l) \in Slots \/ ctr[l] # "running"}
           Mine == {l \in present : Owner(l) = s}
<1>1. CASE Mine = {}
  <2>1. rec'[s] = NoRec
    BY <1>1 DEF Restart
  <2>2. saved'[s] = NoSave
    BY <2>1 DEF Restart, NoRec
  <2>3. names'[s] = None
    BY <1>1 DEF Restart
  <2> QED BY <1>1, <2>1, <2>2, <2>3 DEF FoundAgain
<1>2. CASE Mine # {}
  <2> DEFINE l == CHOOSE l \in Mine : TRUE
  <2>1. l \in Ids /\ ctr[l] # "none" /\ Owner(l) = s
    BY <1>2
  <2>2. rec'[s] = [state |-> IF ctr[l] = "running" THEN "RUNNING" ELSE "STOPPED",
                   exp |-> IF saved[s] = NoSave THEN 1 ELSE saved[s].exp, at |-> l]
    BY <1>2 DEF Restart
  <2> HIDE DEF l
  <2>3. /\ rec'[s].at = l /\ rec'[s].state = (IF ctr[l] = "running" THEN "RUNNING" ELSE "STOPPED")
        /\ rec'[s].exp = IF saved[s] = NoSave THEN 1 ELSE saved[s].exp
    BY <2>2
  <2>4. saved'[s] = IF rec'[s].state = "RUNNING" THEN [exp |-> rec'[s].exp, at |-> rec'[s].at] ELSE NoSave
    BY DEF Restart
  <2>5. l \in {s, saved[s].at} /\ \A m \in Ids : ctr[m] # "none" /\ Owner(m) = s => m = l
    BY <2>1, OwnedOnce
  <2>6. CASE ctr[l] = "running"
    <3>1. l \in present \ leftover
      BY <2>1, <2>6
    <3>2. names'[s] = CHOOSE m \in present \ leftover : Owner(m) = s
      BY <3>1, <2>1 DEF Restart
    <3>3. names'[s] = l
      BY <3>1, <3>2, <2>1, <2>5
    <3> QED BY <2>1, <2>3, <2>4, <2>5, <2>6, <3>3 DEF FoundAgain
  <2>7. CASE ctr[l] # "running"
    <3>1. ~ \E m \in present \ leftover : Owner(m) = s
      BY <2>5, <2>7
    <3>2. names'[s] = None
      BY <3>1 DEF Restart
    <3> QED BY <2>1, <2>3, <2>4, <2>5, <2>7, <3>2 DEF FoundAgain
  <2> QED BY <2>6, <2>7
<1> QED BY <1>1, <1>2

\* A crash and a restart give a slot to nobody but the sandbox the file names.
LEMMA RestartHeld ==
  ASSUME CapInv, SlotHeldOnce, Crash \/ Restart
  PROVE  SlotHeldOnce'
<1> USE WorkerAssumption DEF CapInv, TypeOK
<1>1. warm' = {} /\ boot'.sb = None
  BY DEF Crash, Restart, IdleDel, Down, taskVars
<1>2. \A w \in Slots : names'[w] = None
  BY DEF Crash, Restart, Ids
<1>3. ASSUME NEW s \in Sandboxes
      PROVE  /\ job'[s].slot = None /\ payload'[s].at = None
             /\ {rec'[s].at, saved'[s].at, names'[s]} \subseteq {saved[s].at, s, None}
  <2>1. CASE Crash
    BY <2>1 DEF Crash, NoRec, NoSave, Ids
  <2>2. CASE Restart
    <3>1. job'[s].slot = None /\ payload'[s].at = None
      BY <2>2 DEF Restart, Down, NoSave, taskVars
    <3>2. FoundAgain(s)
      BY <2>2, RestartFinds
    <3>3. {rec'[s].at, saved'[s].at, names'[s]} \subseteq {saved[s].at, s, None}
      <4>1. CASE rec'[s] = NoRec /\ saved'[s] = NoSave /\ names'[s] = None
        BY <4>1 DEF NoRec, NoSave
      <4>2. CASE \E l \in Ids : /\ l \in {s, saved[s].at} /\ rec'[s].at = l /\ names'[s] \in {l, None}
                                /\ saved'[s] \in {NoSave, [exp |-> rec'[s].exp, at |-> l]}
        BY <4>2 DEF NoSave
      <4> QED BY <3>2, <4>1, <4>2 DEF FoundAgain
    <3> QED BY <3>1, <3>3
  <2> QED BY <2>1, <2>2
<1>4. \A w \in Slots, s \in Sandboxes : Holds(s, w)' => Holds(s, w)
  BY <1>3 DEF Holds, Ids
<1> QED BY <1>1, <1>2, <1>4 DEF SlotHeldOnce, Ids

\* Every step keeps slots apart.
LEMMA HeldNext ==
  ASSUME CapInv, SlotHeldOnce, Next
  PROVE  SlotHeldOnce'
<1>1. CASE SetDraining \/ Tick \/ \E l \in Ids : ContainerEnds(l)
  BY <1>1 DEF SetDraining, Tick, ContainerEnds, SlotHeldOnce, Holds, taskVars, fileVars, dockVars
<1> QED BY <1>1, CreateHeld, OtherHeld, WarmHeld, RestartHeld DEF Next, DeleteTasks

-----------------------------------------------------------------------------
(* Records *)

\* The file has deadlines.
FileDated(s) == /\ payload'[s] = NoSave \/ payload'[s].exp > 0
                /\ saved'[s] = NoSave \/ saved'[s].exp > 0
\* Taking and writing the payload keeps it so.
LEMMA FileAts ==
  ASSUME TypeOK, Ats, NEW s \in Sandboxes, (\E t : TakeState(t) \/ PutState(t)) \/ UNCHANGED fileVars
  PROVE  FileDated(s)
<1>1. AtOf(s)
  BY DEF Ats
<1>2. CASE \E t : TakeState(t)
  <2>1. payload'[s] = LiveRecords[s] /\ saved'[s] = saved[s]
    BY <1>2 DEF TakeState
  <2>2. LiveRecords[s] = NoSave \/ LiveRecords[s].exp > 0
    BY <1>1 DEF LiveRecords, AtOf, Live
  <2> QED BY <2>1, <2>2, <1>1 DEF AtOf, FileDated
<1>3. CASE \E t : PutState(t)
  BY <1>1, <1>3 DEF AtOf, PutState, FileDated
<1> QED BY <1>1, <1>2, <1>3 DEF AtOf, FileDated, fileVars

\* A record that only changes its state or its deadline keeps its container.
LEMMA AtKept ==
  ASSUME NEW s \in Sandboxes, AtOf(s), FileDated(s), job'[s] = job[s],
         \/ rec'[s] = rec[s]
         \/ /\ rec[s].state # "ABSENT" /\ rec'[s].state # "ABSENT"
            /\ rec'[s].at = rec[s].at /\ rec'[s].exp > 0,
         names'[s] \in {names[s], None}, ctr'[s] = "running" => ctr[s] = "running"
  PROVE  AtOf(s)'
BY DEF AtOf, FileDated

\* A create writes the container it made, or the slot it adopted, into its record.
LEMMA CreateAts ==
  ASSUME CapInv, Ats, NEW s \in Sandboxes, CreateBegin(s) \/ CreateStep(s)
  PROVE  Ats'
<1> USE WorkerAssumption DEF CapInv, TypeOK
<1>a. OnlyOf(s) /\ \A t \in Sandboxes : AtOf(t)
  BY CreateOnly DEF Ats
<1>b. \A t \in Sandboxes : FileDated(t)
  BY FileAts DEF CreateBegin, CreateStep, CreateAdopt, CreateAdopted, CreateUnslot, EnsureImageFails,
         CreateContainer, CreateStart, CreateVerify, CreateCleanup, CreateSave, CreateAnswer
<1>c. ASSUME NEW id \in Ids, Removed(id)
      PROVE  \A t \in Sandboxes : /\ names'[t] \in {names[t], None} /\ ctr'[t] \in {ctr[t], "none"}
                                  /\ t = id => names'[t] = None
  BY <1>c, RemovedEffect DEF Removed, DockOK, Ids
<1>d. \A t \in Sandboxes \ {s} : names'[t] \in {names[t], None} /\ ctr'[t] \in {ctr[t], "none"}
  <2>1. CASE CreateUnslot(s)
    BY <2>1, <1>c DEF CreateUnslot, SlotPCs, JobsOK, Ids
  <2>2. CASE CreateCleanup(s)
    BY <2>2, <1>c DEF CreateCleanup, Ids
  <2>3. CASE CreateAdopt(s)
    <3>1. job[s].slot \in Slots
      BY <2>3 DEF CreateAdopt, At, JobsOK, SlotPCs
    <3> QED BY <2>3, <3>1 DEF CreateAdopt, RuntimeAdopt, DockOK, Ids
  <2>4. CASE CreateContainer(s) \/ CreateStart(s)
    BY <2>4 DEF CreateContainer, RuntimeCreate, CreateStart, RuntimeStart, DockOK, Ids, dockVars
  <2>5. CASE UNCHANGED dockVars
    BY <2>5 DEF dockVars
  <2> QED BY <2>1, <2>2, <2>3, <2>4, <2>5 DEF CreateBegin, CreateStep, CreateAdopted, EnsureImageFails,
          CreateVerify, CreateSave, CreateAnswer
<1>e. ASSUME NEW t \in Sandboxes \ {s} PROVE AtOf(t)'
  BY <1>a, <1>b, <1>d, AtKept DEF OnlyOf
<1> SUFFICES AtOf(s)'
  BY <1>e DEF Ats
<1>f. /\ rec[s] \in Records /\ StageOf(s) /\ AtOf(s) /\ FileDated(s) /\ job[s] \in Jobs
      /\ job[s].pc \in SlotPCs => job[s].slot \in Slots
  BY <1>a, <1>b DEF TablesOK, Stages, JobsOK
<1>g. ASSUME ColdPath(s, res, warm), job[s].pc \in EarlyPCs PROVE AtOf(s)'
  <2>1. \/ rec'[s] = [state |-> "CREATING", exp |-> 1, at |-> None] /\ job'[s] = [pc |-> "image", slot |-> None]
        \/ rec'[s] = NoRec /\ (job'[s].pc = "evict" \/ (job'[s].pc = "rejected" /\ job'[s].slot = None))
    BY <1>f, <1>g DEF ColdPath, Job, TablesOK, JobsOK, StageOf
  <2>2. CASE rec'[s] = [state |-> "CREATING", exp |-> 1, at |-> None] /\ job'[s] = [pc |-> "image", slot |-> None]
    <3>1. rec'[s].state = "CREATING" /\ rec'[s].exp = 1 /\ rec'[s].at = None
      BY <2>2
    <3>2. job'[s].pc = "image" /\ job'[s].slot = None
      BY <2>2
    <3> QED BY <1>f, <3>1, <3>2 DEF AtOf, SlotPCs, BootPCs, LatePCs, FileDated
  <2>3. CASE rec'[s] = NoRec /\ (job'[s].pc = "evict" \/ (job'[s].pc = "rejected" /\ job'[s].slot = None))
    <3>1. rec'[s].state = "ABSENT" /\ rec'[s].at = None
      BY <2>3 DEF NoRec
    <3> QED BY <1>f, <2>3, <3>1 DEF AtOf, SlotPCs, BootPCs, LatePCs, FileDated
  <2> QED BY <2>1, <2>2, <2>3
<1>1. CASE CreateBegin(s)
  <2>1. job[s].pc \in EarlyPCs
    BY <1>1 DEF CreateBegin, At, EarlyPCs
  <2>2. CASE Job(s, "rejected", None) /\ UNCHANGED <<rec, res, warm>>
    <3>1. job'[s] = [pc |-> "rejected", slot |-> None] /\ rec'[s] = NoRec
      BY <2>1, <2>2, <1>f DEF Job, JobsOK, StageOf
    <3> QED BY <3>1, <1>f DEF AtOf, NoRec, SlotPCs, BootPCs, LatePCs, FileDated
  <2>3. CASE \E w \in warm : Job(s, "adopt", w) /\ UNCHANGED rec
    <3>1. job'[s].pc = "adopt" /\ rec'[s] = NoRec
      BY <2>1, <2>3, <1>f DEF Job, JobsOK, StageOf
    <3> QED BY <3>1, <1>f DEF AtOf, NoRec, SlotPCs, BootPCs, LatePCs, FileDated
  <2> QED BY <1>1, <1>g, <2>1, <2>2, <2>3 DEF CreateBegin, ClaimWarm
<1>2. CASE CreateUnslot(s)
  BY <1>2, <1>g DEF CreateUnslot, EarlyPCs, SlotPCs
<1>3. CASE CreateAdopt(s)
  <2>1. /\ job'[s].pc \in {"adopted", "unslot"} /\ job'[s].slot = job[s].slot /\ job[s].slot \in Slots
        /\ rec'[s] = NoRec
    BY <1>3, <1>f DEF CreateAdopt, At, Job, JobsOK, StageOf, EarlyPCs, SlotPCs
  <2>2. job'[s].pc = "adopted" => names'[s] = job[s].slot
    BY <1>3, <2>1 DEF CreateAdopt, RuntimeAdopt, Job, JobsOK, DockOK, Ids
  <2> QED BY <2>1, <2>2, <1>f DEF AtOf, NoRec, SlotPCs, BootPCs, LatePCs, FileDated
<1>4. CASE CreateAdopted(s)
  <2>1. /\ job[s].pc = "adopted" /\ job'[s].slot = job[s].slot /\ job[s].slot \in Slots /\ names' = names
        /\ \/ rec'[s] = [state |-> "RUNNING", exp |-> 1, at |-> job[s].slot] /\ job'[s].pc = "save"
           \/ rec'[s] = NoRec /\ job'[s].pc = "unslot"
    BY <1>4, <1>f DEF CreateAdopted, At, Job, JobsOK, TablesOK, StageOf, EarlyPCs, SlotPCs, dockVars
  <2> QED BY <2>1, <1>f DEF AtOf, NoRec, SlotPCs, BootPCs, LatePCs, FileDated, Ids
<1>5. CASE EnsureImageFails(s) \/ CreateContainer(s) \/ CreateStart(s) \/ CreateVerify(s)
  <2>1. job[s].pc \in BootPCs /\ rec[s].state # "ABSENT" /\ job'[s].slot = None
    BY <1>5, <1>f DEF EnsureImageFails, CreateContainer, CreateStart, CreateVerify, BootFailed, At, Job, JobsOK,
                      BootPCs, StageOf
  <2>2. /\ rec'[s].exp = rec[s].exp /\ rec'[s].state # "ABSENT"
        /\ rec'[s].at = rec[s].at \/ job'[s].pc = "start"
    BY <1>5, <1>f, <2>1 DEF EnsureImageFails, CreateContainer, CreateStart, CreateVerify, BootFailed, Job,
                            JobsOK,
                      TablesOK, Records
  <2>3. \/ job'[s].pc = "failed"
        \/ job'[s].pc = "start" /\ rec'[s].at = s /\ names'[s] = s /\ ctr'[s] = "created"
        \/ job[s].pc \in {"start", "verify"} /\ job'[s].pc \in {"verify", "save", "discard"} /\ names' = names
    BY <1>5 DEF EnsureImageFails, CreateContainer, RuntimeCreate, CreateStart, CreateVerify, BootFailed,
                At, Job,
                JobsOK, TablesOK, Records, DockOK, Ids, dockVars
  <2>4. rec'[s].exp > 0
    BY <1>f, <2>1, <2>2 DEF AtOf
  <2>5. CASE job'[s].pc = "failed"
    <3>1. rec'[s].at \in {s, None}
      BY <1>f, <2>1, <2>2, <2>5 DEF AtOf
    <3> QED BY <1>f, <2>1, <2>2, <2>4, <2>5, <3>1 DEF AtOf, SlotPCs, BootPCs, LatePCs, FileDated
  <2>6. CASE job'[s].pc = "start" /\ rec'[s].at = s /\ names'[s] = s /\ ctr'[s] = "created"
    BY <1>f, <2>1, <2>2, <2>4, <2>6 DEF AtOf, SlotPCs, BootPCs, LatePCs, FileDated
  <2>7. CASE job[s].pc \in {"start", "verify"} /\ job'[s].pc \in {"verify", "save", "discard"} /\ names' = names
    <3>1. rec'[s].at = s /\ names'[s] \in {s, None}
      BY <1>f, <2>2, <2>7 DEF AtOf
    <3>2. s # None
      BY DEF Ids
    <3> QED BY <1>f, <2>1, <2>2, <2>4, <2>7, <3>1, <3>2 DEF AtOf, SlotPCs, BootPCs, LatePCs, FileDated
  <2> QED BY <2>3, <2>5, <2>6, <2>7
<1>6. CASE CreateCleanup(s)
  <2>1. /\ job'[s] = [pc |-> "save", slot |-> None] /\ job[s].pc \in {"failed", "discard"}
        /\ rec'[s] = IF job[s].pc = "failed" THEN NoRec ELSE rec[s]
    BY <1>6 DEF CreateCleanup, Job, JobsOK, TablesOK
  <2>2. names'[s] = None
    BY <1>6, <1>c DEF CreateCleanup, Ids
  <2>3. CASE job[s].pc = "failed"
    <3>1. rec'[s].state = "ABSENT" /\ rec'[s].at = None /\ rec'[s] = NoRec
      BY <2>1, <2>3 DEF NoRec
    <3> QED BY <1>f, <2>1, <2>2, <3>1 DEF AtOf, SlotPCs, BootPCs, LatePCs, FileDated
  <2>4. CASE job[s].pc = "discard"
    <3>1. rec'[s] = rec[s] /\ rec[s].at = s /\ s # None
      BY <1>f, <2>1, <2>4 DEF AtOf, Ids
    <3> QED BY <1>f, <2>1, <2>2, <3>1 DEF AtOf, SlotPCs, BootPCs, LatePCs, FileDated
  <2> QED BY <2>1, <2>3, <2>4
<1>7. CASE CreateSave(s) \/ CreateAnswer(s)
  <2>1. /\ job[s].pc \in {"save", "saving"} /\ job'[s].pc \in LatePCs /\ rec' = rec /\ names' = names
        /\ job'[s].slot \in {None, job[s].slot} /\ (job'[s].pc # "saving" => job'[s].slot = None)
    BY <1>7 DEF CreateSave, CreateAnswer, Answer, Job, JobsOK, At, LatePCs, dockVars
  <2> QED BY <1>f, <2>1 DEF AtOf, SlotPCs, BootPCs, LatePCs, FileDated
<1> QED BY <1>1, <1>2, <1>3, <1>4, <1>5, <1>6, <1>7 DEF CreateStep

\* Deletes, polls and deadlines move no container.
LEMMA OtherAts ==
  ASSUME CapInv, Ats,
         \/ \E d \in DeleteTasks : DeleteStep(d) \/ \E s \in Sandboxes : DeleteBegin(d, s)
         \/ PollStep \/ SetSave \/ SetAnswer \/ \E s \in Sandboxes : PollBegin(s) \/ SetBegin(s)
  PROVE  Ats'
<1> SUFFICES ASSUME NEW s \in Sandboxes PROVE AtOf(s)'
  BY DEF Ats
<1> USE WorkerAssumption DEF CapInv, TypeOK
<1>1. AtOf(s) /\ job' = job
  BY DEF Ats, DeleteStep, DeleteBegin, DeleteStray, DeleteRemove, DeleteSave, DeleteAnswer, PollStep,
         PollInspect,
         PollApply, PollSave, PollSaved, PollRemove, SetSave, SetAnswer, PollBegin, SetBegin
<1>2. FileDated(s)
  BY FileAts DEF DeleteStep, DeleteBegin, DeleteStray, DeleteRemove, DeleteSave, DeleteAnswer, PollStep,
                 PollInspect,
         PollApply, PollSave, PollSaved, PollRemove, SetSave, SetAnswer, PollBegin, SetBegin
<1>3. \/ rec'[s] = rec[s]
      \/ /\ rec[s].state # "ABSENT" /\ rec'[s].state # "ABSENT"
         /\ rec'[s].at = rec[s].at /\ rec'[s].exp > 0
  <2>0. rec[s] \in Records /\ (rec[s].state = "ABSENT" => rec[s] = NoRec) /\ (rec[s].state # "ABSENT" => rec[s].exp > 0)
    BY <1>1 DEF AtOf, TablesOK
  <2>1. ASSUME NEW d \in DeleteTasks, NEW t \in Sandboxes, DeleteBegin(d, t)
        PROVE  rec'[s] = rec[s] \/ (rec[s].state # "ABSENT" /\ rec'[s] = [rec[s] EXCEPT !.state = "STOPPING"])
    BY <2>1 DEF DeleteBegin, TablesOK
  <2>2. ASSUME NEW d \in DeleteTasks, DeleteRemove(d)
        PROVE  \/ rec'[s] = rec[s]
               \/ rec[s] # NoRec /\ \E st \in {"EXPIRED", "STOPPED"} : rec'[s] = [rec[s] EXCEPT !.state = st]
    BY <2>2 DEF DeleteRemove, TablesOK
  <2>3. CASE PollApply
    <3>1. rec'[s] = rec[s] \/ (s = poll.sb /\ \E st \in {"LOST", "STOPPED"} : rec'[s] = [rec[s] EXCEPT !.state = st])
      BY <2>3 DEF PollApply, TablesOK
    <3>2. rec[poll.sb].state # "ABSENT"
      BY <2>3 DEF PollApply, UnderWay
    <3> QED BY <2>0, <3>1, <3>2 DEF Records
  <2>4. ASSUME NEW t \in Sandboxes, SetBegin(t)
        PROVE  rec'[s] = rec[s] \/ (rec[s].state # "ABSENT" /\ rec'[s] = [rec[s] EXCEPT !.exp = 2])
    BY <2>4 DEF SetBegin, Known, TablesOK
  <2>5. CASE UNCHANGED rec
    BY <2>5
  <2>6. CASE rec[s] # NoRec /\ \E st \in {"EXPIRED", "STOPPED", "STOPPING"} : rec'[s] = [rec[s] EXCEPT !.state = st]
    BY <2>0, <2>6 DEF Records
  <2>7. CASE rec[s].state # "ABSENT" /\ rec'[s] = [rec[s] EXCEPT !.exp = 2]
    BY <2>0, <2>7 DEF Records
  <2>8. rec[s].state # "ABSENT" => rec[s] # NoRec
    BY DEF NoRec
  <2> QED BY <2>1, <2>2, <2>3, <2>4, <2>5, <2>6, <2>7, <2>8
          DEF DeleteStep, DeleteStray, DeleteSave, DeleteAnswer, PollStep, PollInspect,
              PollSave, PollSaved, PollRemove, SetSave, SetAnswer, PollBegin
<1>4. ctr'[s] \in {ctr[s], "none"} /\ (PollInspect \/ names'[s] \in {names[s], None})
  <2>1. CASE \E i \in Ids : Removed(i)
    BY <2>1, RemovedEffect DEF Ids
  <2> QED BY <2>1
          DEF DeleteStep, DeleteBegin, DeleteStray, DeleteRemove, DeleteSave, DeleteAnswer, PollStep,
              PollInspect,
              PollApply, PollSave, PollSaved, PollRemove, SetSave, SetAnswer, PollBegin, SetBegin, dockVars,
              DelsOK, OthersOK, Ids
<1>5. CASE PollInspect /\ s = poll.sb
  <2>1. job[s].pc \in LatePCs /\ rec'[s] = rec[s] /\ names'[s] \in {names[s], ContainerOf(s), None}
    BY <1>5 DEF PollInspect, UnderWay, DockOK, Ids
  <2>2. rec[s].at # None /\ ContainerOf(s) # None => ContainerOf(s) = rec[s].at
    BY <1>1, <2>1 DEF AtOf, ContainerOf, OneContainer
  <2> QED BY <1>1, <1>2, <1>4, <2>1, <2>2 DEF AtOf, FileDated, LatePCs, SlotPCs, BootPCs
<1>6. CASE PollInspect /\ s # poll.sb
  <2>1. names'[s] = names[s]
    BY <1>6 DEF PollInspect, DockOK, OthersOK, Ids
  <2> QED BY <1>1, <1>2, <1>3, <1>4, <2>1, AtKept
<1> QED BY <1>1, <1>2, <1>3, <1>4, <1>5, <1>6, AtKept

\* Every step keeps records and containers in step.
LEMMA AtsNext ==
  ASSUME CapInv, Ats, Next
  PROVE  Ats'
<1> USE WorkerAssumption DEF CapInv, TypeOK
<1>1. CASE SetDraining \/ Tick \/ (\E l \in Ids : ContainerEnds(l)) \/ WarmStep \/ \E w \in Slots : WarmBegin(w)
  <2> SUFFICES ASSUME NEW s \in Sandboxes PROVE AtOf(s)'
    BY DEF Ats
  <2>1. UNCHANGED <<rec, job, fileVars>>
    BY <1>1 DEF SetDraining, Tick, ContainerEnds, WarmStep, WarmContainer, WarmReady, WarmRemove,
                WarmBegin, taskVars
  <2>2. names'[s] \in {names[s], None} /\ (ctr'[s] = "running" => ctr[s] = "running")
    <3>1. CASE WarmRemove
      <4>1. boot.sb \in Ids /\ Removed(boot.sb)
        BY <3>1 DEF WarmRemove, OthersOK, Boots, Ids
      <4> QED BY <4>1, RemovedEffect DEF Ids
    <3>2. CASE WarmContainer
      BY <3>2 DEF WarmContainer, DockOK, OthersOK, Boots, Ids, dockVars
    <3>3. CASE \E l \in Ids : ContainerEnds(l)
      BY <3>3 DEF ContainerEnds, DockOK, Ids
    <3> QED BY <1>1, <3>1, <3>2, <3>3 DEF SetDraining, Tick, WarmStep, WarmReady, WarmBegin, dockVars
  <2>3. AtOf(s) /\ FileDated(s)
    BY <2>1, FileAts DEF Ats
  <2> QED BY <2>1, <2>2, <2>3, AtKept
<1>2. CASE Crash
  <2> SUFFICES ASSUME NEW s \in Sandboxes PROVE AtOf(s)'
    BY DEF Ats
  <2>1. /\ rec'[s] = NoRec /\ job'[s].pc \in RestPCs /\ job'[s].slot = None /\ names'[s] = None
        /\ payload'[s] = NoSave /\ saved'[s] = saved[s]
    BY <1>2 DEF Crash, Ids, Answers, RestPCs
  <2>2. rec'[s].state = "ABSENT" /\ rec'[s].at = None
    BY <2>1 DEF NoRec
  <2>3. saved[s] = NoSave \/ saved[s].exp > 0
    BY DEF Ats, AtOf
  <2> QED BY <2>1, <2>2, <2>3 DEF AtOf, LatePCs, RestPCs, SlotPCs, BootPCs
<1>3. CASE Restart
  <2> SUFFICES ASSUME NEW s \in Sandboxes PROVE AtOf(s)'
    BY DEF Ats
  <2>1. job'[s].pc \in RestPCs /\ job'[s].slot = None /\ payload'[s] = NoSave
    BY <1>3 DEF Restart, Down, taskVars
  <2>2. saved[s] = NoSave \/ saved[s].exp > 0
    BY DEF Ats, AtOf
  <2>3. FoundAgain(s)
    BY <1>3, RestartFinds
  <2>4. CASE rec'[s] = NoRec /\ saved'[s] = NoSave /\ names'[s] = None
    <3>1. rec'[s].state = "ABSENT" /\ rec'[s].at = None
      BY <2>4 DEF NoRec
    <3> QED BY <2>1, <2>4, <3>1 DEF AtOf, LatePCs, RestPCs, SlotPCs, BootPCs
  <2>5. CASE \E l \in Ids :
               /\ rec'[s].at = l /\ rec'[s].exp = IF saved[s] = NoSave THEN 1 ELSE saved[s].exp
               /\ rec'[s].state \in {"RUNNING", "STOPPED"} /\ names'[s] \in {l, None}
               /\ saved'[s] = NoSave \/ saved'[s] = [exp |-> rec'[s].exp, at |-> l]
    <3>1. rec'[s].exp > 0 /\ rec'[s].at # None /\ rec'[s].state \notin {"ABSENT"} /\ names'[s] \in {rec'[s].at, None}
      BY <2>2, <2>5 DEF Ids
    <3>2. saved'[s] = NoSave \/ saved'[s].exp > 0
      BY <2>5, <3>1
    <3> QED BY <2>1, <3>1, <3>2 DEF AtOf, LatePCs, RestPCs, SlotPCs, BootPCs
  <2> QED BY <2>3, <2>4, <2>5 DEF FoundAgain
<1> QED BY <1>1, <1>2, <1>3, CreateAts, OtherAts DEF Next, DeleteTasks

-----------------------------------------------------------------------------
(* Containers *)

\* A create that has its container leaves the record and Docker alone.
LEMMA CreateLate ==
  ASSUME TypeOK, NEW s \in Sandboxes, CreateBegin(s) \/ CreateStep(s), job[s].pc \in LatePCs
  PROVE  /\ job[s].pc \in {"save", "saving"} /\ job'[s].pc \in LatePCs
         /\ UNCHANGED <<rec, ctr, names>> /\ (CreateSave(s) \/ CreateAnswer(s))
BY DEF CreateBegin, CreateStep, CreateAdopt, CreateAdopted, CreateUnslot, EnsureImageFails,
       CreateContainer, CreateStart, CreateVerify, CreateCleanup, CreateSave, CreateAnswer,
       Answer, Job, At, TypeOK, JobsOK, LatePCs, dockVars

\* What a poll has ended stays ended.
LEMMA PollOverNext ==
  ASSUME CapInv, PollOver, Next
  PROVE  PollOver'
<1> USE DEF CapInv, TypeOK
<1>1. ASSUME NEW s \in Sandboxes, CreateBegin(s) \/ CreateStep(s) PROVE PollOver'
  <2>1. UNCHANGED poll
    BY <1>1 DEF CreateBegin, CreateStep, CreateAdopt, CreateAdopted, CreateUnslot, EnsureImageFails,
         CreateContainer, CreateStart, CreateVerify, CreateCleanup, CreateSave, CreateAnswer
  <2>2. poll.pc # "idle" => rec'[poll.sb] = rec[poll.sb]
    BY <1>1, CreateLate, CreateOnly DEF UnderWay, OnlyOf, OthersOK
  <2> QED BY <2>1, <2>2 DEF PollOver
<1>2. ASSUME NEW d \in DeleteTasks, DeleteStep(d) \/ \E s \in Sandboxes : DeleteBegin(d, s) PROVE PollOver'
  <2>1. \A t \in Sandboxes : rec'[t] = rec[t] \/ rec'[t].state \in {"STOPPING", "STOPPED", "EXPIRED"}
    BY <1>2 DEF TablesOK, Records, DeleteStep, DeleteBegin, DeleteStray, DeleteRemove, DeleteSave, DeleteAnswer
  <2>2. UNCHANGED poll
    BY <1>2 DEF DeleteStep, DeleteBegin, DeleteStray, DeleteRemove, DeleteSave, DeleteAnswer
  <2> QED BY <2>1, <2>2 DEF PollOver, Live, OthersOK
<1>3. CASE PollStep
  <2>1. CASE PollApply
    <3>1. poll.sb \in Sandboxes
      BY <2>1 DEF PollApply, OthersOK
    <3> QED BY <2>1, <3>1 DEF PollApply, PollOver, TablesOK, Records, OthersOK, Polls, IdlePoll, Live
  <2>2. CASE PollInspect
    <3>1. \E saw : poll' = [poll EXCEPT !.pc = "apply", !.saw = saw]
      BY <2>2 DEF PollInspect
    <3>2. poll'.pc = "apply"
      BY <3>1 DEF OthersOK, Polls
    <3> QED BY <3>2 DEF PollOver
  <2>4. CASE PollRemove
    BY <2>4 DEF PollRemove, IdlePoll, PollOver
  <2>3. CASE PollSave \/ PollSaved
    <3>1. rec' = rec /\ poll.pc \in {"save", "saving"}
      BY <2>3 DEF PollSave, PollSaved
    <3>2. poll'.sb = poll.sb \/ poll'.pc = "idle"
      BY <2>3 DEF PollSave, PollSaved, OthersOK, Polls, IdlePoll
    <3> QED BY <3>1, <3>2 DEF PollOver
  <2> QED BY <1>3, <2>1, <2>2, <2>3, <2>4 DEF PollStep
<1>4. ASSUME NEW s \in Sandboxes, PollBegin(s) \/ SetBegin(s) PROVE PollOver'
  BY <1>4 DEF PollBegin, SetBegin, PollOver, TablesOK, Records, OthersOK, Polls
<1>5. CASE Crash \/ Restart
  <2>1. poll' = IdlePoll
    BY <1>5 DEF Crash, Restart, Down, taskVars
  <2> QED BY <2>1 DEF IdlePoll, PollOver
<1>6. CASE UNCHANGED <<poll, rec>>
  BY <1>6 DEF PollOver
<1> QED BY <1>1, <1>2, <1>3, <1>4, <1>5, <1>6
        DEF Next, DeleteTasks, SetSave, SetAnswer, SetDraining, Tick, ContainerEnds, WarmStep, WarmContainer,
            WarmReady, WarmRemove, WarmBegin, taskVars

\* When nothing has failed after a step, nothing failed in it or before.
LEMMA Clean ==
  ASSUME TypeOK, budget.leaks <= MaxLeaks, Next
  PROVE  /\ budget'.leaks <= MaxLeaks
         /\ NoLeak' => NoLeak /\ ~Spend("leaks")
<1>1. budget.leaks \in Nat /\ budget'.leaks \in Nat /\ MaxLeaks \in Nat /\ budget'.leaks <= budget.leaks
  BY TypeNext, BudgetStep, WorkerAssumption DEF TypeOK, WorldOK, Budgets, Kinds
<1>2. Spend("leaks") => budget'.leaks = budget.leaks - 1
  BY DEF Spend, TypeOK, WorldOK, Budgets
<1> QED BY <1>1, <1>2 DEF NoLeak

\* A removal that does not fail removes the container that is found, and no other.
LEMMA CleanRemoved ==
  ASSUME DockOK, NEW id \in Ids, Removed(id), ~Spend("leaks")
  PROVE  /\ \A l \in Ids : ctr'[l] = IF l = ContainerOf(id) THEN "none" ELSE ctr[l]
         /\ \A i \in Ids : names'[i] = IF i = id THEN None ELSE names[i]
BY DEF DockOK, Removed

\* Nothing becomes worse for a sandbox when no container of its own appears or starts,
\* and the mapping forgets only what is removed.
LEMMA FoundKept ==
  ASSUME TypeOK, NEW t \in Sandboxes, FoundOf(t), job'[t] = job[t], rec'[t] = rec[t], up' => up,
         \A l \in Ids : l \in {rec[t].at, job[t].slot, t} =>
                        ctr'[l] \in {ctr[l], "none"} \/ (ctr[l] = "running" /\ ctr'[l] = "exited"),
         names'[t] = names[t] \/ (names[t] \in Ids => ctr'[names[t]] = "none")
  PROVE  FoundOf(t)'
<1>1. t \in Ids /\ (job[t].pc = "adopted" => job[t].slot \in Ids)
  BY DEF TypeOK, JobsOK, SlotPCs, Ids
<1> QED BY <1>1, WorkerAssumption DEF FoundOf, Ids

\* A slot that somebody answers for is passed on.
LEMMA AnsweredKept ==
  ASSUME NEW w \in Slots, Answered(w),
         w \in warm => w \in warm' \/ \E s \in Sandboxes : job'[s].slot = w,
         boot.sb = w => boot'.sb = w \/ w \in warm',
         \A s \in Sandboxes : job[s].slot = w => job'[s].slot = w,
         \A s \in Sandboxes : rec[s].at = w /\ rec[s].state \in {"RUNNING", "STOPPING"} =>
                                rec'[s].at = w /\ rec'[s].state \in {"RUNNING", "STOPPING"}
  PROVE  Answered(w)'
BY WorkerAssumption DEF Answered

\* A create loses sight of no container.
LEMMA CreateFound ==
  ASSUME CapInv, SlotHeldOnce, Ats, Found, NEW s \in Sandboxes, CreateBegin(s) \/ CreateStep(s),
         ~Spend("leaks")
  PROVE  Found'
<1> USE WorkerAssumption DEF CapInv, TypeOK
<1>a. /\ OnlyOf(s) /\ StageOf(s) /\ AtOf(s) /\ FoundOf(s) /\ rec[s] \in Records /\ job[s] \in Jobs /\ s \in Ids /\ s \notin Slots
      /\ UNCHANGED <<boot, poll, up>> /\ up /\ (job[s].pc \in SlotPCs => job[s].slot \in Slots)
  <2>1. UNCHANGED <<boot, poll, up>> /\ up
    BY DEF CreateBegin, CreateStep, CreateAdopt, CreateAdopted, CreateUnslot, EnsureImageFails, At,
         CreateContainer, CreateStart, CreateVerify, CreateCleanup, CreateSave, CreateAnswer
  <2> QED BY <2>1, CreateOnly DEF Stages, Ats, Found, TablesOK, JobsOK, Ids
<1>b. ASSUME NEW id \in Ids, Removed(id), id = s \/ id \in Slots
      PROVE  /\ \A t \in Sandboxes \ {s} : names'[t] = names[t]
             /\ \A l \in Ids \ {s} : ctr'[l] \in {ctr[l], "none"}
             /\ ctr'[id] = "none" /\ ctr'[s] \in {ctr[s], "none"} /\ (id \in Slots => names'[s] = names[s])
  <2>1. ContainerOf(id) = id \/ ctr[id] = "none"
    BY <1>b DEF ContainerOf, OneContainer, SlotHeldOnce
  <2> QED BY <1>b, <2>1, CleanRemoved DEF Ids
<1>c. /\ \A t \in Sandboxes \ {s} : names'[t] = names[t]
      /\ \A l \in Ids \ {s} : ctr'[l] \in {ctr[l], "none"}
  <2>1. CASE CreateUnslot(s)
    <3>1. Removed(job[s].slot) /\ job[s].slot \in Slots
      BY <2>1 DEF CreateUnslot, SlotPCs, JobsOK
    <3> QED BY <3>1, <1>b DEF Ids
  <2>2. CASE CreateCleanup(s)
    BY <2>2, <1>a, <1>b DEF CreateCleanup
  <2>3. CASE CreateAdopt(s)
    BY <2>3, <1>a DEF CreateAdopt, RuntimeAdopt, At, SlotPCs, DockOK, Ids
  <2>4. CASE CreateContainer(s) \/ CreateStart(s)
    BY <2>4 DEF CreateContainer, RuntimeCreate, CreateStart, RuntimeStart, DockOK, Ids, dockVars
  <2>5. CASE UNCHANGED dockVars
    BY <2>5 DEF dockVars
  <2> QED BY <2>1, <2>2, <2>3, <2>4, <2>5 DEF CreateBegin, CreateStep, CreateAdopted, EnsureImageFails,
          CreateVerify, CreateSave, CreateAnswer
<1>d. ASSUME NEW t \in Sandboxes \ {s} PROVE FoundOf(t)'
  <2>1. FoundOf(t) /\ s \notin {rec[t].at, job[t].slot, t} /\ job'[t] = job[t] /\ rec'[t] = rec[t] /\ names'[t] = names[t]
    BY <1>a, <1>c DEF Found, OneContainer, OnlyOf, JobsOK, Jobs, Ids
  <2>2. \A l \in Ids : l \in {rec[t].at, job[t].slot, t} => ctr'[l] \in {ctr[l], "none"}
    BY <1>c, <2>1
  <2>3. up' => up
    BY <1>a
  <2> HIDE DEF CapInv, TypeOK
  <2> QED BY <2>1, <2>2, <2>3, FoundKept DEF CapInv
<1>e. SawGone'
  <2> SUFFICES ASSUME poll.pc = "apply", poll.saw \in {"none", "exited"} PROVE ctr'[rec'[poll.sb].at] # "running"
    BY <1>a DEF SawGone
  <2>1. /\ poll.sb \in Sandboxes /\ job[poll.sb].pc \in LatePCs /\ rec[poll.sb].state # "ABSENT"
        /\ ctr[rec[poll.sb].at] # "running"
    BY DEF OthersOK, UnderWay, Found, SawGone
  <2>2. rec[poll.sb].at \in Ids
    BY <2>1 DEF Ats, AtOf, TablesOK, Records
  <2>3. CASE poll.sb = s
    BY <2>1, <2>3, CreateLate
  <2>4. CASE poll.sb # s
    <3>1. rec'[poll.sb] = rec[poll.sb] /\ rec[poll.sb].at # s
      BY <2>1, <2>4, <1>a DEF OnlyOf, OneContainer, Ids
    <3> QED BY <2>1, <2>2, <3>1, <1>c
  <2> QED BY <2>3, <2>4
<1>f. FoundOf(s)'
  <2>1. CASE CreateBegin(s) \/ CreateUnslot(s)
    <3>1. rec'[s].state \in {"ABSENT", "CREATING"}
      <4>1. rec[s] = NoRec
        BY <2>1, <1>a DEF CreateBegin, CreateUnslot, At, StageOf, EarlyPCs, SlotPCs
      <4>2. ColdPath(s, res, warm) \/ UNCHANGED rec
        BY <2>1 DEF CreateBegin, CreateUnslot, ClaimWarm
      <4> QED BY <4>1, <4>2 DEF ColdPath, TablesOK, NoRec
    <3>2. job'[s].pc \in {"adopt", "image", "evict", "rejected"}
      <4>1. \A w \in warm : ClaimWarm(s, w) => ColdPath(s, res, warm) \/ Job(s, "adopt", w)
        BY DEF ClaimWarm
      <4>2. ColdPath(s, res, warm) \/ \E w : Job(s, "adopt", w) \/ Job(s, "rejected", w)
        BY <2>1, <4>1 DEF CreateBegin, CreateUnslot
      <4> QED BY <4>2 DEF ColdPath, Job, JobsOK
    <3> QED BY <3>1, <3>2 DEF FoundOf, LatePCs, Over
  <2>2. CASE CreateAdopt(s)
    <3>1. job[s].slot \in Slots /\ rec'[s].state = "ABSENT" /\ job'[s].pc \in {"adopted", "unslot"} /\ job'[s].slot = job[s].slot
      BY <2>2, <1>a DEF CreateAdopt, At, Job, JobsOK, StageOf, EarlyPCs, SlotPCs, NoRec
    <3>2. job'[s].pc = "adopted" => names'[s] = job[s].slot
      BY <2>2, <3>1 DEF CreateAdopt, RuntimeAdopt, Job, JobsOK, DockOK, Ids
    <3> QED BY <3>1, <3>2 DEF FoundOf, LatePCs, Over
  <2>3. CASE CreateAdopted(s)
    <3>1. /\ job[s].pc = "adopted" /\ UNCHANGED <<ctr, names>> /\ ctr[s] = "none"
          /\ \/ rec'[s].state = "RUNNING" /\ rec'[s].at = job[s].slot /\ job'[s].pc = "save"
             \/ rec'[s].state = "ABSENT" /\ job'[s].pc = "unslot"
      BY <2>3, <1>a DEF CreateAdopted, At, Job, JobsOK, TablesOK, StageOf, EarlyPCs, SlotPCs, dockVars,
                        NoRec, OneContainer
    <3> QED BY <3>1, <1>a DEF FoundOf, LatePCs, Over
  <2>4. CASE EnsureImageFails(s) \/ CreateContainer(s) \/ CreateStart(s) \/ CreateVerify(s)
    <3>1. job[s].pc \in BootPCs /\ job'[s].pc \in {"failed", "start", "verify", "save", "discard"}
      BY <2>4 DEF EnsureImageFails, CreateContainer, CreateStart, CreateVerify, BootFailed, At, Job,
                  JobsOK, BootPCs
    <3>2. rec'[s].at \in {s, None}
      BY <2>4, <1>a, <3>1 DEF EnsureImageFails, CreateContainer, CreateStart, CreateVerify, BootFailed,
                        TablesOK, Records, AtOf
    <3>3. job'[s].pc = "save" => job[s].pc = "verify" /\ rec'[s].state = "RUNNING" /\ rec'[s].at = s
      BY <2>4, <1>a DEF EnsureImageFails, CreateContainer, CreateStart, CreateVerify, BootFailed, At, Job,
                        JobsOK,
                        TablesOK, Records, AtOf
    <3> QED BY <1>a, <3>1, <3>2, <3>3 DEF FoundOf, LatePCs, Over, Ids
  <2>5. CASE CreateCleanup(s)
    <3>1. ctr'[s] = "none"
      BY <2>5, <1>a, <1>b DEF CreateCleanup
    <3>2. job'[s].pc = "save" /\ (rec'[s] = NoRec \/ rec'[s].at = s)
      BY <2>5, <1>a DEF CreateCleanup, Job, JobsOK, TablesOK, AtOf
    <3> QED BY <1>a, <3>1, <3>2 DEF FoundOf, LatePCs, Over, NoRec
  <2>6. CASE CreateSave(s) \/ CreateAnswer(s)
    <3>1. job[s].pc \in LatePCs
      BY <2>6 DEF CreateSave, CreateAnswer, At, LatePCs
    <3>2. job'[s].pc \in LatePCs /\ UNCHANGED <<rec, ctr, names>>
      BY <3>1, CreateLate
    <3> QED BY <1>a, <3>1, <3>2 DEF FoundOf, LatePCs
  <2> QED BY <2>1, <2>2, <2>3, <2>4, <2>5, <2>6 DEF CreateStep
<1>g. SlotsAnswered'
  <2> SUFFICES ASSUME NEW w \in Slots, ctr'[w] = "running" PROVE Answered(w)'
    BY DEF SlotsAnswered
  <2>1. ctr[w] = "running" /\ Answered(w)
    BY <1>a, <1>c DEF Ids, Found, SlotsAnswered
  <2>2. ASSUME NEW t \in Sandboxes, rec[t].at = w, rec[t].state \in {"RUNNING", "STOPPING"}
        PROVE  rec'[t].at = w /\ rec'[t].state \in {"RUNNING", "STOPPING"}
    <3>1. CASE t # s
      BY <3>1, <2>2, <1>a DEF OnlyOf
    <3>2. CASE t = s
      <4>1. job[s].pc \in LatePCs
        BY <1>a, <2>2, <3>2 DEF StageOf, AtOf, JobPCs, Jobs, NoRec, Ids
      <4> QED BY <4>1, <3>2, <2>2, CreateLate
    <3> QED BY <3>1, <3>2
  <2>3. w \in warm => w \in warm' \/ job'[s].slot = w
    <3>1. ColdPath(s, res, warm) => (w \in warm => w \in warm' \/ job'[s].slot = w)
      BY DEF ColdPath, Job, JobsOK
    <3>2. \A v \in warm : ClaimWarm(s, v) => (w \in warm => w \in warm' \/ job'[s].slot = w)
      BY <3>1 DEF ClaimWarm, Job, JobsOK
    <3> QED BY <3>1, <3>2 DEF CreateBegin, CreateStep, CreateAdopt, CreateAdopted, CreateUnslot,
                              EnsureImageFails,
         CreateContainer, CreateStart, CreateVerify, CreateCleanup, CreateSave, CreateAnswer
  <2>4. CASE job[s].slot = w
    <3>1. CASE job'[s].slot = w
      BY <3>1 DEF Answered
    <3>2. job[s].pc \in SlotPCs \cup {"save", "saving"}
      BY <1>a, <2>4 DEF AtOf, Ids
    <3>3. CASE CreateUnslot(s)
      BY <2>1, <2>4, <3>3, <1>b DEF CreateUnslot, Ids
    <3>4. CASE CreateAdopt(s) \/ CreateAdopted(s) \/ CreateSave(s)
      <4>1. job'[s].slot = w
        BY <2>4, <3>4 DEF CreateAdopt, CreateAdopted, CreateSave, Job, JobsOK
      <4> QED BY <4>1, <3>1
    <3>5. CASE CreateAnswer(s)
      <4>1. rec[s].at = w /\ job[s].pc \in LatePCs /\ rec' = rec
        BY <1>a, <2>4, <3>5 DEF CreateAnswer, At, AtOf, LatePCs, Ids
      <4>2. rec[s].state \in {"RUNNING", "STOPPING"}
        BY <1>a, <2>1, <4>1 DEF AtOf, FoundOf, StageOf, LatePCs, BootPCs, NoRec, Records, States, Ids
      <4> QED BY <4>1, <4>2 DEF Answered
    <3>6. ~CreateBegin(s) /\ ~EnsureImageFails(s) /\ ~CreateContainer(s) /\ ~CreateStart(s) /\ ~CreateVerify(s)
          /\ ~CreateCleanup(s)
      BY <3>2 DEF CreateBegin, EnsureImageFails, CreateContainer, CreateStart, CreateVerify, CreateCleanup,
                  At, SlotPCs
    <3> QED BY <3>3, <3>4, <3>5, <3>6 DEF CreateStep
  <2>5. CASE job[s].slot # w
    <3>1. \A t \in Sandboxes : job[t].slot = w => job'[t].slot = w
      BY <2>5, <1>a DEF OnlyOf
    <3> QED BY <1>a, <2>1, <2>2, <2>3, <3>1, AnsweredKept
  <2> QED BY <2>4, <2>5
<1> QED BY <1>d, <1>e, <1>f, <1>g DEF Found

\* The container of a sandbox that is not over is found.
LEMMA FindsIt ==
  ASSUME CapInv, Ats, NEW s \in Sandboxes, FoundOf(s), rec[s].at \in Ids, ctr[rec[s].at] = "running",
         rec[s].state \in {"RUNNING", "STOPPING"}
  PROVE  ContainerOf(s) = rec[s].at
<1> USE WorkerAssumption DEF CapInv, TypeOK
<1>1. rec[s].at \in Slots \cup {s}
  BY DEF OneContainer, Ids
<1>2. CASE rec[s].at \in Slots
  BY <1>2 DEF FoundOf, ContainerOf, Ids
<1>3. CASE rec[s].at = s
  BY <1>3 DEF OneContainer, ContainerOf, Ids
<1> QED BY <1>1, <1>2, <1>3

\* A step that removes the container of one sandbox, or of none, changes no job, slot,
\* poll or other record, keeps everything found.
LEMMA RemovalFound ==
  ASSUME CapInv, SlotHeldOnce, Ats, Found, NEW s \in Sandboxes, UNCHANGED <<job, warm, boot, up>>, up,
         \/ Removed(s) /\ ~Spend("leaks")
         \/ UNCHANGED dockVars,
         \A t \in Sandboxes \ {s} : rec'[t] = rec[t], FoundOf(s)', SawGone',
         rec[s].state \in {"RUNNING", "STOPPING"} /\ rec[s].at \in Slots /\ ctr'[rec[s].at] = "running" =>
           rec'[s].at = rec[s].at /\ rec'[s].state \in {"RUNNING", "STOPPING"}
  PROVE  Found'
<1> USE WorkerAssumption DEF CapInv
<1>1. /\ \A t \in Sandboxes \ {s} : names'[t] = names[t]
      /\ \A l \in Ids : ctr'[l] \in {ctr[l], "none"}
  BY CleanRemoved DEF TypeOK, dockVars, Ids
<1>2. ASSUME NEW t \in Sandboxes \ {s} PROVE FoundOf(t)'
  <2>1. FoundOf(t)
    BY DEF Found
  <2> QED BY <1>1, <2>1, FoundKept
<1>3. SlotsAnswered'
  <2> SUFFICES ASSUME NEW w \in Slots, ctr'[w] = "running" PROVE Answered(w)'
    BY DEF SlotsAnswered
  <2>1. Answered(w)
    BY <1>1 DEF Found, SlotsAnswered, Ids
  <2> QED BY <2>1, AnsweredKept
<1> QED BY <1>2, <1>3 DEF Found

\* A delete removes the container of its sandbox.
LEMMA DeleteFound ==
  ASSUME CapInv, SlotHeldOnce, Ats, Found, NEW d \in DeleteTasks, ~Spend("leaks"),
         DeleteStray(d) \/ DeleteRemove(d) \/ \E s \in Sandboxes : DeleteBegin(d, s)
  PROVE  Found'
<1> USE WorkerAssumption DEF CapInv
<1>a. UNCHANGED <<job, warm, boot, up, poll>> /\ up
  BY DEF DeleteStray, DeleteRemove, DeleteBegin
<1>1. ASSUME NEW s \in Sandboxes, DeleteBegin(d, s) PROVE Found'
  <2>1. /\ UNCHANGED dockVars /\ (\A t \in Sandboxes \ {s} : rec'[t] = rec[t]) /\ rec'[s].at = rec[s].at
        /\ rec'[s] = rec[s] \/ (rec'[s].state = "STOPPING" /\ rec[s].state \in {"CREATING", "RUNNING", "STOPPING"})
    BY <1>1 DEF DeleteBegin, Due, Live, Over, TypeOK, TablesOK, Records, States
  <2>2. rec[s].state = "CREATING" => rec[s].at \notin Slots
    BY DEF Ats, AtOf, Stages, StageOf, Ids
  <2>3. FoundOf(s)'
    BY <1>a, <2>1, <2>2 DEF Found, FoundOf, dockVars, Over
  <2>4. SawGone'
    BY <1>a, <2>1 DEF Found, SawGone, TypeOK, OthersOK, dockVars
  <2> QED BY <1>a, <2>1, <2>3, <2>4, RemovalFound
<1>2. ASSUME NEW s \in Sandboxes, s = del[d].sb, DeleteStray(d) \/ DeleteRemove(d) PROVE Found'
  <2>1. s \in Ids /\ Removed(s)
    BY <1>2 DEF DeleteStray, DeleteRemove, TypeOK, DelsOK, Ids
  <2>2. rec'[s].at = rec[s].at /\ \A t \in Sandboxes \ {s} : rec'[t] = rec[t]
    BY <1>2, <2>1 DEF DeleteStray, DeleteRemove, TypeOK, TablesOK, Records
  <2>3. rec'[s] = rec[s] \/ (rec'[s].state \in Over /\ rec[s] # NoRec /\ rec[s].state \notin Live)
    BY <1>2, <2>1 DEF DeleteStray, DeleteRemove, TypeOK, TablesOK, Records, Over, UnderWay
  <2>4. \A l \in Ids : ctr'[l] = IF l = ContainerOf(s) THEN "none" ELSE ctr[l]
    BY <2>1, CleanRemoved DEF TypeOK
  <2>5. ContainerOf(s) \in Ids => ctr'[ContainerOf(s)] = "none"
    BY <2>4
  <2>6. names[s] \in Ids => ContainerOf(s) = names[s]
    BY DEF ContainerOf, Ids
  <2>7. AtOf(s) /\ FoundOf(s) /\ StageOf(s)
    BY <2>1 DEF Ats, Found, Stages
  <2>8. rec[s].state \in {"RUNNING", "STOPPING"} /\ rec[s].at \in Ids => ctr'[rec[s].at] # "running"
    <3> SUFFICES ASSUME rec[s].state \in {"RUNNING", "STOPPING"}, rec[s].at \in Ids, ctr'[rec[s].at] = "running"
                 PROVE FALSE
      OBVIOUS
    <3>1. ctr[rec[s].at] = "running"
      BY <2>4
    <3> QED BY <3>1, <2>1, <2>4, <2>7, FindsIt
  <2>9. FoundOf(s)'
    <3>1. CASE rec'[s] = rec[s]
      <4>1. \A l \in Ids : ctr'[l] \in {ctr[l], "none"}
        BY <2>4
      <4>2. names[s] \in Ids => ctr'[names[s]] = "none"
        BY <2>5, <2>6
      <4> QED BY <1>a, <2>1, <2>7, <3>1, <4>1, <4>2, FoundKept
    <3>2. CASE rec'[s].state \in Over /\ rec[s] # NoRec /\ rec[s].state \notin Live
      <4>1. rec[s].state \in {"STOPPING"} \cup Over
        BY <2>1, <2>7, <3>2 DEF AtOf, TypeOK, TablesOK, Records, States, Live
      <4>2. job[s].pc \in LatePCs => rec[s].at \in Ids
        BY <2>1, <2>7, <4>1 DEF AtOf, TypeOK, TablesOK, Records, Over
      <4>3. job[s].pc \in LatePCs => ctr'[rec[s].at] # "running"
        BY <2>4, <2>7, <2>8, <4>1, <4>2 DEF FoundOf
      <4>4. job[s].pc # "adopted"
        BY <2>7, <3>2 DEF StageOf, EarlyPCs, SlotPCs
      <4>5. up' /\ job[s].pc \in LatePCs /\ ctr'[s] = "running" => rec[s].at = s
        BY <1>a, <2>1, <2>4, <2>7 DEF FoundOf
      <4>6. rec'[s].state \notin {"RUNNING", "STOPPING"} /\ job'[s] = job[s] /\ rec'[s].at = rec[s].at
        BY <1>a, <2>2, <3>2 DEF Over
      <4> QED BY <4>2, <4>3, <4>4, <4>5, <4>6 DEF FoundOf
    <3> QED BY <2>3, <3>1, <3>2
  <2>10. SawGone'
    <3>1. poll.pc = "apply" => poll.sb \in Sandboxes /\ rec'[poll.sb].at = rec[poll.sb].at /\ rec[poll.sb].at \in Ids
      BY <2>2 DEF TypeOK, OthersOK, UnderWay, Ats, AtOf, TablesOK, Records
    <3> QED BY <1>a, <2>4, <3>1 DEF Found, SawGone
  <2>11. rec[s].at \in Slots => rec[s].at \in Ids
    BY DEF Ids
  <2> QED BY <1>a, <2>1, <2>2, <2>8, <2>9, <2>10, <2>11, RemovalFound
<1>3. DeleteStray(d) \/ DeleteRemove(d) => del[d].sb \in Sandboxes
  BY DEF DeleteStray, DeleteRemove, TypeOK, DelsOK
<1> QED BY <1>1, <1>2, <1>3

\* Steps that touch no container and no state of a record.
LEMMA QuietFound ==
  ASSUME CapInv, Found,
         \/ \E d \in DeleteTasks : DeleteSave(d) \/ DeleteAnswer(d)
         \/ PollSave \/ PollSaved \/ SetSave \/ SetAnswer \/ SetDraining \/ Tick
         \/ \E s \in Sandboxes : PollBegin(s) \/ SetBegin(s)
  PROVE  Found'
<1> USE DEF CapInv, TypeOK
<1>1. UNCHANGED <<job, warm, boot, up, ctr, names>>
  BY DEF DeleteSave, DeleteAnswer, PollSave, PollSaved, SetSave, SetAnswer, SetDraining, Tick, PollBegin,
         SetBegin,
         dockVars, taskVars
<1>2. \A t \in Sandboxes : rec'[t].state = rec[t].state /\ rec'[t].at = rec[t].at
  <2>1. ASSUME NEW s \in Sandboxes, SetBegin(s)
        PROVE  \A t \in Sandboxes : rec'[t].state = rec[t].state /\ rec'[t].at = rec[t].at
    BY <2>1 DEF SetBegin, TablesOK, Records
  <2>2. CASE UNCHANGED rec
    BY <2>2
  <2> QED BY <2>1, <2>2 DEF DeleteSave, DeleteAnswer, PollSave, PollSaved, SetSave, SetAnswer, SetDraining,
                            Tick, PollBegin
<1>3. poll'.pc = "apply" => poll' = poll
  BY DEF DeleteSave, DeleteAnswer, PollSave, PollSaved, SetSave, SetAnswer, SetDraining, Tick, PollBegin,
         SetBegin,
         OthersOK, Polls, IdlePoll, taskVars
<1>4. \A t \in Sandboxes : FoundOf(t)'
  BY <1>1, <1>2 DEF Found, FoundOf
<1>5. SawGone'
  BY <1>1, <1>2, <1>3 DEF Found, SawGone, OthersOK
<1>6. SlotsAnswered'
  BY <1>1, <1>2 DEF Found, SlotsAnswered, Answered
<1> QED BY <1>4, <1>5, <1>6 DEF Found

\* A poll looks at the container of its sandbox, or removes it once it is over.
LEMMA PollFound ==
  ASSUME CapInv, SlotHeldOnce, Ats, PollOver, Found, ~Spend("leaks"), NEW s \in Sandboxes, s = poll.sb,
         PollInspect \/ PollApply \/ PollRemove
  PROVE  Found'
<1> USE WorkerAssumption DEF CapInv
<1>a. UNCHANGED <<job, warm, boot, up>> /\ up /\ s \in Ids
  BY DEF PollInspect, PollApply, PollRemove, Ids
<1>b. /\ job[s].pc \in LatePCs /\ AtOf(s) /\ FoundOf(s) /\ rec[s].at \in Ids
      /\ rec[s].state \in {"RUNNING", "STOPPING"} \cup Over
  BY DEF UnderWay, PollInspect, PollApply, PollRemove, Ats, AtOf, Found, TypeOK, TablesOK, Records, States
<1>1. CASE PollInspect
  <2>1. UNCHANGED <<rec, ctr>> /\ \A t \in Sandboxes \ {s} : names'[t] = names[t]
    BY <1>1 DEF PollInspect, TypeOK, DockOK, Ids
  <2>2. poll'.sb = s /\ poll'.saw = Docker(s) /\ names'[s] = IF Docker(s) = "none" THEN None ELSE ContainerOf(s)
    BY <1>1 DEF PollInspect, TypeOK, DockOK, OthersOK, Polls, Ids
  <2>3. ASSUME NEW t \in Sandboxes \ {s} PROVE FoundOf(t)'
    <3>1. FoundOf(t)
      BY DEF Found
    <3> QED BY <1>a, <2>1, <3>1, FoundKept
  <2>4. FoundOf(s)'
    <3>1. rec[s].state \in {"RUNNING", "STOPPING"} /\ rec[s].at \in Slots /\ ctr[rec[s].at] # "none" => names'[s] = rec[s].at
      <4> SUFFICES ASSUME rec[s].state \in {"RUNNING", "STOPPING"}, rec[s].at \in Slots, ctr[rec[s].at] # "none"
                   PROVE names'[s] = rec[s].at
        OBVIOUS
      <4>1. names[s] = rec[s].at /\ rec[s].at # None
        BY <1>b DEF FoundOf
      <4> QED BY <2>2, <4>1 DEF Docker, ContainerOf
    <3> QED BY <1>a, <1>b, <2>1, <3>1 DEF FoundOf, LatePCs
  <2>5. SawGone'
    <3> SUFFICES ASSUME Docker(s) \in {"none", "exited"}, ctr[rec[s].at] = "running" PROVE FALSE
      BY <2>1, <2>2 DEF SawGone
    <3>1. rec[s].state \in {"RUNNING", "STOPPING"}
      BY <1>b DEF FoundOf
    <3>2. ContainerOf(s) = rec[s].at
      BY <1>b, <3>1, FindsIt
    <3> QED BY <1>b, <3>2 DEF Docker
  <2>6. SlotsAnswered'
    BY <1>a, <2>1 DEF Found, SlotsAnswered, Answered
  <2> QED BY <2>3, <2>4, <2>5, <2>6 DEF Found
<1>2. CASE PollApply
  <2>1. UNCHANGED dockVars /\ (\A t \in Sandboxes \ {s} : rec'[t] = rec[t]) /\ rec'[s].at = rec[s].at
    BY <1>2 DEF PollApply, TypeOK, TablesOK, Records
  <2>2. rec'[s] = rec[s] \/ (rec'[s].state \in Over /\ poll.saw \in {"none", "exited"})
    BY <1>2 DEF PollApply, Ended, TypeOK, TablesOK, Records, Over
  <2>3. poll.saw \in {"none", "exited"} => ctr[rec[s].at] # "running"
    BY <1>2 DEF PollApply, Found, SawGone
  <2>4. FoundOf(s)'
    BY <1>a, <1>b, <2>1, <2>2, <2>3 DEF FoundOf, LatePCs, Over, dockVars
  <2>5. SawGone'
    BY <1>2 DEF PollApply, SawGone, TypeOK, OthersOK, Polls, IdlePoll
  <2> QED BY <1>a, <2>1, <2>2, <2>3, <2>4, <2>5, RemovalFound DEF dockVars
<1>3. CASE PollRemove
  <2>1. Removed(s) /\ rec' = rec
    BY <1>3 DEF PollRemove
  <2>2. rec[s].state \notin Live
    BY <1>3 DEF PollRemove, PollOver
  <2>3. \A l \in Ids : ctr'[l] = IF l = ContainerOf(s) THEN "none" ELSE ctr[l]
    BY <2>1, <1>a, CleanRemoved DEF TypeOK
  <2>4. names[s] \in Ids => ctr'[names[s]] = "none"
    BY <2>3 DEF ContainerOf
  <2>5. FoundOf(s)'
    BY <1>a, <1>b, <2>1, <2>3, <2>4, FoundKept
  <2>6. SawGone'
    BY <1>3 DEF PollRemove, SawGone, IdlePoll
  <2> QED BY <1>a, <2>1, <2>5, <2>6, RemovalFound
<1> QED BY <1>1, <1>2, <1>3

\* A slot is found through its own name.
LEMMA WarmFound ==
  ASSUME CapInv, SlotHeldOnce, Ats, Found, ~Spend("leaks"), WarmStep \/ \E w \in Slots : WarmBegin(w)
  PROVE  Found'
<1> USE WorkerAssumption DEF CapInv
<1>a. UNCHANGED <<rec, job, poll, up>> /\ up
  BY DEF WarmStep, WarmContainer, WarmReady, WarmRemove, WarmBegin
<1>b. boot.sb \in Slots \cup {None} /\ boot \in Boots
  BY DEF TypeOK, OthersOK, Boots
<1>c. /\ \A t \in Sandboxes : names'[t] = names[t]
      /\ \A l \in Ids \ {boot.sb} : ctr'[l] = ctr[l]
      /\ WarmContainer \/ WarmRemove \/ ctr' = ctr
      /\ WarmRemove => ctr'[boot.sb] = "none"
  <2>1. CASE WarmRemove
    <3>1. Removed(boot.sb) /\ boot.sb \in Slots
      BY <2>1, <1>b DEF WarmRemove, TypeOK, OthersOK
    <3>2. ContainerOf(boot.sb) = boot.sb \/ ctr[boot.sb] = "none"
      BY <3>1 DEF ContainerOf, SlotHeldOnce
    <3>3. ContainerOf(boot.sb) \in {boot.sb, None}
      BY <3>1 DEF ContainerOf, SlotHeldOnce
    <3>4. boot.sb \in Ids
      BY <3>1 DEF Ids
    <3>5. /\ \A l \in Ids : ctr'[l] = IF l = ContainerOf(boot.sb) THEN "none" ELSE ctr[l]
          /\ \A i \in Ids : names'[i] = IF i = boot.sb THEN None ELSE names[i]
      BY <3>1, <3>4, CleanRemoved DEF TypeOK
    <3>6. ctr'[boot.sb] = "none"
      BY <3>2, <3>4, <3>5
    <3> QED BY <2>1, <3>1, <3>3, <3>5, <3>6 DEF Ids
  <2>2. CASE WarmContainer
    BY <2>2, <1>b DEF WarmContainer, WarmRemove, TypeOK, OthersOK, DockOK, Ids, dockVars
  <2>3. CASE UNCHANGED dockVars /\ ~WarmRemove
    BY <2>3 DEF dockVars
  <2> QED BY <2>1, <2>2, <2>3 DEF WarmStep, WarmReady, WarmBegin
<1>d. \A t \in Sandboxes : boot.sb \in Slots => rec[t].at # boot.sb /\ job[t].slot # boot.sb /\ t # boot.sb
  BY DEF SlotHeldOnce, Holds, Ids
<1>1. ASSUME NEW t \in Sandboxes PROVE FoundOf(t)'
  <2>1. FoundOf(t)
    BY DEF Found
  <2>2. \A l \in Ids : l \in {rec[t].at, job[t].slot, t} => ctr'[l] = ctr[l]
    BY <1>b, <1>c, <1>d
  <2> QED BY <1>a, <1>c, <2>1, <2>2, FoundKept
<1>2. SawGone'
  <2>1. poll.pc = "apply" => poll.sb \in Sandboxes /\ rec[poll.sb].at \in Ids
    BY DEF TypeOK, OthersOK, UnderWay, Ats, AtOf, TablesOK, Records
  <2> QED BY <1>a, <1>b, <1>c, <1>d, <2>1 DEF Found, SawGone
<1>3. SlotsAnswered'
  <2> SUFFICES ASSUME NEW w \in Slots, ctr'[w] = "running" PROVE Answered(w)'
    BY DEF SlotsAnswered
  <2>1. CASE WarmContainer /\ w = boot.sb
    <3>1. boot'.sb = boot.sb
      BY <2>1, <1>b DEF WarmContainer, WarmFailed, Boots
    <3> QED BY <2>1, <3>1 DEF Answered
  <2>2. CASE ~(WarmContainer /\ w = boot.sb)
    <3>1. ctr[w] = "running" /\ ~(WarmRemove /\ w = boot.sb)
      BY <1>c, <2>2 DEF Ids
    <3>2. Answered(w)
      BY <1>a, <3>1 DEF Found, SlotsAnswered
    <3>3. warm \subseteq warm'
      BY DEF WarmStep, WarmContainer, WarmReady, WarmRemove, WarmBegin
    <3>4. boot.sb = w => boot'.sb = w \/ w \in warm'
      <4>1. CASE WarmContainer \/ WarmReady
        BY <1>b, <4>1 DEF WarmContainer, WarmReady, WarmFailed, Boots
      <4>2. CASE \E v \in Slots : WarmBegin(v)
        BY <4>2 DEF WarmBegin, TypeOK, OthersOK, Ids
      <4> QED BY <3>1, <4>1, <4>2 DEF WarmStep
    <3> QED BY <1>a, <3>2, <3>3, <3>4, AnsweredKept
  <2> QED BY <2>1, <2>2
<1> QED BY <1>1, <1>2, <1>3 DEF Found

\* A container that ends by itself is no more a stray than before.
LEMMA EndsFound ==
  ASSUME CapInv, Ats, Found, NEW x \in Ids, ContainerEnds(x)
  PROVE  Found'
<1> USE WorkerAssumption DEF CapInv
<1>a. UNCHANGED <<rec, job, poll, up, warm, boot, names>>
  BY DEF ContainerEnds, taskVars
<1>b. \A l \in Ids : ctr'[l] = ctr[l] \/ (ctr[l] = "running" /\ ctr'[l] \in {"exited", "none"})
  BY DEF ContainerEnds, TypeOK, DockOK
<1>1. ASSUME NEW t \in Sandboxes PROVE FoundOf(t)'
  <2>1. FoundOf(t)
    BY DEF Found
  <2>2. \A l \in Ids : ctr'[l] \in {ctr[l], "none"} \/ (ctr[l] = "running" /\ ctr'[l] = "exited")
    BY <1>b
  <2> QED BY <1>a, <2>1, <2>2, FoundKept
<1>2. SawGone'
  <2>1. poll.pc = "apply" => poll.sb \in Sandboxes /\ rec[poll.sb].at \in Ids
    BY DEF TypeOK, OthersOK, UnderWay, Ats, AtOf, TablesOK, Records
  <2> QED BY <1>a, <1>b, <2>1 DEF Found, SawGone
<1>3. SlotsAnswered'
  BY <1>a, <1>b DEF Found, SlotsAnswered, Answered, Ids
<1> QED BY <1>1, <1>2, <1>3 DEF Found

\* A restart removes what nobody claims and finds the rest.
LEMMA RestartFound ==
  ASSUME CapInv, Restart, ~Spend("leaks")
  PROVE  Found'
<1> USE WorkerAssumption DEF CapInv
<1>a. /\ \A t \in Sandboxes : job'[t].pc \in RestPCs /\ FoundAgain(t)
      /\ poll'.pc = "idle"
  <2>1. UNCHANGED <<job, poll>> /\ poll = IdlePoll /\ \A t \in Sandboxes : job[t].pc \in RestPCs
    BY DEF Restart, Down, taskVars
  <2>2. \A t \in Sandboxes : FoundAgain(t)
    BY RestartFinds
  <2> QED BY <2>1, <2>2 DEF IdlePoll
<1>b. \A l \in Ids : /\ ctr'[l] \in {ctr[l], "none"}
                     /\ ctr[l] # "none" /\ (Owner(l) \in Slots \/ ctr[l] # "running") => ctr'[l] = "none"
  BY DEF Restart
<1>c. ASSUME NEW l \in Ids, ctr'[l] = "running"
      PROVE  \E s \in Sandboxes : Owner(l) = s /\ rec'[s].at = l /\ rec'[s].state = "RUNNING"
  <2>1. ctr[l] = "running" /\ Owner(l) \notin Slots
    BY <1>b, <1>c
  <2>2. Owner(l) \in Sandboxes
    <3>1. CASE Claims(l) # {}
      <4>1. Owner(l) \in Claims(l)
        BY <3>1 DEF Owner
      <4> QED BY <4>1 DEF Claims
    <3> QED BY <2>1, <3>1 DEF Owner, Ids
  <2>3. FoundAgain(Owner(l))
    BY <1>a, <2>2
  <2> QED BY <2>1, <2>2, <2>3 DEF FoundAgain
<1>1. ASSUME NEW s \in Sandboxes PROVE FoundOf(s)'
  <2>1. FoundAgain(s) /\ job'[s].pc \in RestPCs
    BY <1>a
  <2>2. rec'[s].state \in {"RUNNING", "STOPPING"} => names'[s] = rec'[s].at
    <3>1. CASE rec'[s] = NoRec
      BY <3>1 DEF NoRec
    <3>2. CASE \E l \in Ids : rec'[s].at = l /\ (names'[s] = l \/ rec'[s].state = "STOPPED")
      BY <3>2
    <3> QED BY <2>1, <3>1, <3>2 DEF FoundAgain
  <2>3. rec'[s].state \in Over => rec'[s].at \in Ids /\ ctr'[rec'[s].at] # "running"
    <3>1. CASE rec'[s] = NoRec
      BY <3>1 DEF NoRec, Over
    <3>2. CASE \E l \in Ids : rec'[s].at = l /\ ctr[l] # "none" /\ (rec'[s].state = "RUNNING" \/ ctr[l] # "running")
      BY <1>b, <3>2 DEF Over
    <3> QED BY <2>1, <3>1, <3>2 DEF FoundAgain
  <2>4. ctr'[s] = "running" => rec'[s].at = s
    <3> SUFFICES ASSUME ctr'[s] = "running" PROVE rec'[s].at = s
      OBVIOUS
    <3>1. PICK t \in Sandboxes : Owner(s) = t /\ rec'[t].at = s
      BY <1>c DEF Ids
    <3>2. ctr[s] # "none"
      BY <1>b DEF Ids
    <3>3. t = s
      BY <3>1, <3>2, OwnedOnce DEF OneContainer, Ids
    <3> QED BY <3>1, <3>3
  <2> QED BY <2>1, <2>2, <2>3, <2>4 DEF FoundOf, RestPCs
<1>2. SawGone'
  BY <1>a DEF SawGone
<1>3. SlotsAnswered'
  BY <1>c DEF SlotsAnswered, Answered, Ids
<1> QED BY <1>1, <1>2, <1>3 DEF Found

-----------------------------------------------------------------------------
(* No strays *)

\* Nothing runs at first.
LEMMA StrayInit == Init => StrayInv
<1> SUFFICES ASSUME Init PROVE StrayInv
  OBVIOUS
<1> USE WorkerAssumption DEF Init, NoRec, NoSave, IdleDel, IdlePoll, Ids
<1>1. SlotHeldOnce
  BY DEF SlotHeldOnce, Holds
<1>2. Ats
  BY DEF Ats, AtOf, SlotPCs, LatePCs, BootPCs
<1>3. PollOver /\ budget.leaks <= MaxLeaks
  BY DEF PollOver
<1>4. Found
  BY DEF Found, FoundOf, SawGone, SlotsAnswered, LatePCs, Over
<1> QED BY <1>1, <1>2, <1>3, <1>4 DEF StrayInv

\* Every step keeps every container in sight, unless Docker fails.
LEMMA StrayNext == CapInv /\ StrayInv /\ [Next]_vars => StrayInv'
<1> SUFFICES ASSUME CapInv, StrayInv, [Next]_vars PROVE StrayInv'
  OBVIOUS
<1>0. CASE UNCHANGED vars
  <2>1. UNCHANGED <<rec, warm, job, poll, boot, payload, saved, ctr, names, up, budget>>
    BY <1>0 DEF vars, taskVars, fileVars, dockVars
  <2>2. SlotHeldOnce' /\ Ats' /\ PollOver'
    BY <2>1 DEF StrayInv, SlotHeldOnce, Holds, Ats, AtOf, PollOver
  <2>3. budget'.leaks <= MaxLeaks /\ (NoLeak' => Found')
    BY <2>1 DEF StrayInv, NoLeak, Found, FoundOf, SawGone, SlotsAnswered, Answered
  <2> QED BY <2>2, <2>3 DEF StrayInv
<1>1. CASE Next
  <2> USE DEF StrayInv
  <2>1. SlotHeldOnce' /\ Ats' /\ PollOver'
    BY <1>1, HeldNext, AtsNext, PollOverNext
  <2>2. budget'.leaks <= MaxLeaks /\ (NoLeak' => NoLeak /\ ~Spend("leaks"))
    BY <1>1, Clean DEF CapInv
  <2>3. ASSUME NoLeak' PROVE Found'
    <3>1. Found /\ ~Spend("leaks")
      BY <2>2, <2>3
    <3>2. CASE \E s \in Sandboxes : CreateBegin(s) \/ CreateStep(s)
      BY <3>1, <3>2, CreateFound
    <3>3. ASSUME NEW d \in DeleteTasks, DeleteStep(d) \/ \E s \in Sandboxes : DeleteBegin(d, s) PROVE Found'
      BY <3>1, <3>3, DeleteFound, QuietFound DEF DeleteStep
    <3>4. CASE PollInspect \/ PollApply \/ PollRemove
      <4>1. poll.sb \in Sandboxes
        BY <3>4 DEF PollInspect, PollApply, PollRemove, CapInv, TypeOK, OthersOK
      <4> QED BY <3>1, <3>4, <4>1, PollFound
    <3>5. CASE \/ PollSave \/ PollSaved \/ SetSave \/ SetAnswer \/ SetDraining \/ Tick
               \/ \E s \in Sandboxes : PollBegin(s) \/ SetBegin(s)
      BY <3>1, <3>5, QuietFound
    <3>6. CASE WarmStep \/ \E w \in Slots : WarmBegin(w)
      BY <3>1, <3>6, WarmFound
    <3>7. CASE \E l \in Ids : ContainerEnds(l)
      BY <3>1, <3>7, EndsFound
    <3>8. CASE Crash
      <4>1. /\ \A t \in Sandboxes : rec'[t] = NoRec /\ job'[t].pc \in RestPCs
            /\ poll' = IdlePoll /\ up' = FALSE
        BY <3>8 DEF Crash, Answers, RestPCs
      <4> QED BY <4>1 DEF Found, FoundOf, RestPCs, SawGone, SlotsAnswered, NoRec, Over, IdlePoll
    <3>9. CASE Restart
      BY <3>1, <3>9, RestartFound
    <3> QED BY <1>1, <3>2, <3>3, <3>4, <3>5, <3>6, <3>7, <3>8, <3>9 DEF Next, PollStep, DeleteTasks
  <2> QED BY <2>1, <2>2, <2>3
<1> QED BY <1>0, <1>1

\* No container runs on a worker that nobody answers for: every one belongs to a record
\* that is not over, to a create or boot that will look at it again, or to a slot that is
\* warm or on its way out, unless Docker failed to remove it or to answer
\* (worker/service.py create_sandbox, delete_sandbox, _refresh, reconcile).
THEOREM NoStrays == Spec => []NoStrayContainer
<1>1. CapInv /\ StrayInv => NoStrayContainer
  <2> SUFFICES ASSUME CapInv, StrayInv, up, NoLeak, NEW l \in Ids, ctr[l] = "running" PROVE Answered(l)
    BY DEF NoStrayContainer, NoLeak
  <2>1. Found /\ Ats
    BY DEF StrayInv
  <2>2. CASE l \in Slots
    BY <2>1, <2>2 DEF Found, SlotsAnswered
  <2>3. CASE l \in Sandboxes
    <3>1. AtOf(l) /\ FoundOf(l) /\ StageOf(l) /\ rec[l] \in Records /\ job[l].pc \in JobPCs
      BY <2>1, <2>3 DEF Ats, Found, CapInv, Stages, TypeOK, TablesOK, JobsOK, Jobs
    <3>2. job[l].pc \notin EarlyPCs \cup {"image", "start"}
      BY <2>3, <3>1 DEF CapInv, OneContainer, AtOf
    <3>3. CASE job[l].pc \in {"verify", "failed", "discard"}
      BY <2>3, <3>3 DEF Answered
    <3>4. CASE job[l].pc \in LatePCs
      <4>1. rec[l].at = l /\ l # None
        BY <3>1, <3>4, WorkerAssumption DEF FoundOf
      <4>2. rec[l].state \in {"RUNNING", "STOPPING"}
        BY <3>1, <3>4, <4>1 DEF AtOf, FoundOf, StageOf, Records, States, NoRec, LatePCs, BootPCs
      <4> QED BY <2>3, <4>1, <4>2 DEF Answered
    <3> QED BY <3>1, <3>2, <3>3, <3>4 DEF JobPCs, BootPCs
  <2> QED BY <2>2, <2>3 DEF Ids
<1> QED BY <1>1, CapInit, CapNext, StrayInit, StrayNext, PTL DEF Spec

-----------------------------------------------------------------------------
(* The state file, written by one task at a time *)

\* A step of the running daemon leaves the state file alone, or takes the lock and
\* reads the records, or writes what it read: the answer to a create or to a deadline
\* comes with its own write.
LEMMA FileSteps ==
  ASSUME Next, up, up'
  PROVE  \/ UNCHANGED fileVars /\ ~SetSave /\ \A s \in Sandboxes : ~CreateSave(s)
         \/ saver = NoTask /\ payload' = LiveRecords /\ saved' = saved
         \/ \E t \in Tasks : PutState(t) /\ (t \in Sandboxes => CreateAnswer(t)) /\ (t = Setter => SetAnswer)
<1> USE WorkerAssumption
<1>0. ~Crash /\ ~Restart
  BY DEF Crash, Restart
<1> DEFINE Quiet == UNCHANGED fileVars /\ ~SetSave /\ \A s \in Sandboxes : ~CreateSave(s)
           Take == saver = NoTask /\ payload' = LiveRecords /\ saved' = saved
           Put == \E t \in Tasks : PutState(t) /\ (t \in Sandboxes => CreateAnswer(t)) /\ (t = Setter => SetAnswer)
<1>1. ASSUME NEW s \in Sandboxes, CreateSave(s) \/ CreateAnswer(s) PROVE Take \/ Put
  BY <1>1 DEF CreateSave, CreateAnswer, TakeState, Tasks
<1>2. ASSUME NEW d \in DeleteTasks, DeleteSave(d) \/ DeleteAnswer(d) PROVE Take \/ Put
  BY <1>2 DEF DeleteSave, DeleteAnswer, TakeState, Tasks, DeleteTasks
<1>3. CASE PollSave \/ PollSaved \/ SetSave \/ SetAnswer
  BY <1>3 DEF PollSave, PollSaved, SetSave, SetAnswer, TakeState, Tasks
<1>4. CASE UNCHANGED fileVars
  <2>1. SetSave \/ (\E s \in Sandboxes : CreateSave(s)) => Take
    BY DEF SetSave, CreateSave, TakeState
  <2> QED BY <1>4, <2>1
<1>5. CASE \E s \in Sandboxes : CreateBegin(s) \/ CreateStep(s) \/ PollBegin(s) \/ SetBegin(s)
  BY <1>1, <1>4, <1>5 DEF CreateBegin, CreateStep, CreateAdopt, CreateAdopted, CreateUnslot, EnsureImageFails,
         CreateContainer, CreateStart, CreateVerify, CreateCleanup, PollBegin, SetBegin
<1>6. CASE \E d \in DeleteTasks : DeleteStep(d) \/ \E s \in Sandboxes : DeleteBegin(d, s)
  BY <1>2, <1>4, <1>6 DEF DeleteStep, DeleteBegin, DeleteStray, DeleteRemove
<1> QED BY <1>0, <1>3, <1>4, <1>5, <1>6
        DEF Next, DeleteTasks, PollStep, PollInspect, PollApply, PollRemove, WarmStep, WarmContainer, WarmReady,
            WarmRemove, WarmBegin, SetDraining, Tick, ContainerEnds

\* A record that is live after a step was live before, unless the create has only begun;
\* its deadline is not brought forward, and a running sandbox keeps its container.
LEMMA LiveGoesOn ==
  ASSUME CapInv, Ats, Next, up, up', NEW s \in Sandboxes, job[s].pc \notin EarlyPCs, rec'[s].state \in Live
  PROVE  /\ rec[s].state \in Live /\ rec'[s].exp >= rec[s].exp /\ job'[s].pc \notin EarlyPCs
         /\ rec[s].state = "RUNNING" => rec'[s].state = "RUNNING" /\ rec'[s].at = rec[s].at
<1> USE DEF CapInv, TypeOK
<1>0. ~Crash /\ ~Restart
  BY DEF Crash, Restart
<1>a. rec[s] \in Records /\ StageOf(s) /\ rec[s].exp \in Nat
  BY DEF TablesOK, Stages, Records
<1>1. ASSUME NEW t \in Sandboxes, CreateBegin(t) \/ CreateStep(t)
      PROVE  /\ rec[s].state \in Live /\ rec'[s].exp >= rec[s].exp /\ job'[s].pc \notin EarlyPCs
             /\ rec[s].state = "RUNNING" => rec'[s].state = "RUNNING" /\ rec'[s].at = rec[s].at
  <2>1. CASE t # s
    <3>1. rec'[s] = rec[s] /\ job'[s] = job[s]
      BY <1>1, <2>1, CreateOnly DEF OnlyOf
    <3> QED BY <3>1, <1>a
  <2>2. CASE t = s
    <3>1. rec[s].state \in Live
      BY <1>1, <2>2, CreateRevivesNone
    <3>2. CASE rec[s].state = "RUNNING"
      <4>1. job[s].pc \in LatePCs
        BY <3>2, <1>a DEF StageOf
      <4>2. rec' = rec /\ job'[s].pc \in LatePCs
        BY <4>1, <1>1, <2>2, CreateLate
      <4> QED BY <3>1, <3>2, <4>2, <1>a DEF LatePCs, EarlyPCs, SlotPCs
    <3>3. CASE rec[s].state = "CREATING"
      <4>1. job[s].pc \in BootPCs
        BY <3>3, <1>a DEF StageOf
      <4>2. EnsureImageFails(s) \/ CreateContainer(s) \/ CreateStart(s) \/ CreateVerify(s)
        BY <4>1, <1>1, <2>2 DEF CreateBegin, CreateStep, CreateAdopt, CreateAdopted, CreateUnslot,
                                CreateCleanup, CreateSave, CreateAnswer, At, BootPCs
      <4>3. rec'[s].exp = rec[s].exp
        BY <4>2 DEF EnsureImageFails, CreateContainer, CreateStart, CreateVerify, BootFailed, TablesOK, Records
      <4>4. job'[s].pc \notin EarlyPCs
        BY <4>2 DEF EnsureImageFails, CreateContainer, CreateStart, CreateVerify, BootFailed, Job, JobsOK,
                    EarlyPCs, SlotPCs
      <4> QED BY <3>1, <3>3, <4>3, <4>4, <1>a
    <3> QED BY <3>1, <3>2, <3>3 DEF Live
  <2> QED BY <2>1, <2>2
<1>2. CASE UNCHANGED rec /\ job' = job
  BY <1>2, <1>a
<1>3. ASSUME NEW d \in DeleteTasks, DeleteRemove(d) \/ \E t \in Sandboxes : DeleteBegin(d, t)
      PROVE  rec'[s] = rec[s] /\ job' = job
  BY <1>3 DEF DeleteRemove, DeleteBegin, TablesOK, Records, Live
<1>4. CASE PollApply
  <2>1. rec'[s] = rec[s] /\ job' = job
    BY <1>4 DEF PollApply, TablesOK, Records, Live
  <2> QED BY <2>1, <1>a
<1>5. ASSUME NEW t \in Sandboxes, SetBegin(t)
      PROVE  rec'[s].state = rec[s].state /\ rec'[s].at = rec[s].at /\ rec'[s].exp >= rec[s].exp /\ job' = job
  BY <1>5, <1>a DEF SetBegin, TablesOK, Records
<1>6. CASE \E d \in DeleteTasks : DeleteRemove(d) \/ \E t \in Sandboxes : DeleteBegin(d, t)
  BY <1>3, <1>6, <1>a
<1>7. CASE \E t \in Sandboxes : SetBegin(t)
  BY <1>5, <1>7, <1>a
<1> QED BY <1>0, <1>1, <1>2, <1>4, <1>6, <1>7
        DEF Next, DeleteTasks, DeleteStep, DeleteStray, DeleteSave, DeleteAnswer, PollStep, PollBegin,
            PollInspect,
            PollSave, PollSaved, PollRemove, SetSave, SetAnswer, WarmStep, WarmContainer, WarmReady,
            WarmRemove, WarmBegin, SetDraining, Tick, ContainerEnds, taskVars

\* Only its own create moves a job, while the daemon runs.
LEMMA JobMoves ==
  ASSUME TypeOK, Next, up, up', NEW s \in Sandboxes
  PROVE  job'[s] = job[s] \/ CreateBegin(s) \/ CreateStep(s)
<1>1. ~Crash /\ ~Restart
  BY DEF Crash, Restart
<1>2. ASSUME NEW t \in Sandboxes, CreateBegin(t) \/ CreateStep(t)
      PROVE  job'[s] = job[s] \/ CreateBegin(s) \/ CreateStep(s)
  BY <1>2, CreateOnly DEF OnlyOf
<1> QED BY <1>1, <1>2
        DEF Next, DeleteStep, DeleteBegin, DeleteStray, DeleteRemove, DeleteSave, DeleteAnswer, PollStep,
            PollBegin,
            PollInspect, PollApply, PollSave, PollSaved, PollRemove, SetBegin, SetSave, SetAnswer, WarmStep,
            WarmContainer, WarmReady, WarmRemove, WarmBegin, SetDraining, Tick, ContainerEnds, taskVars

\* Only set_expiration moves the setter.
LEMMA SetterMoves ==
  ASSUME Next, up, up'
  PROVE  setter' = setter \/ SetSave \/ SetAnswer \/ \E s \in Sandboxes : SetBegin(s)
<1>1. ~Crash /\ ~Restart
  BY DEF Crash, Restart
<1> QED BY <1>1
        DEF Next, CreateBegin, CreateStep, CreateAdopt, CreateAdopted, CreateUnslot, EnsureImageFails,
            CreateContainer, CreateStart, CreateVerify, CreateCleanup, CreateSave, CreateAnswer,
            DeleteStep, DeleteBegin, DeleteStray, DeleteRemove, DeleteSave, DeleteAnswer, PollStep, PollBegin,
            PollInspect, PollApply, PollSave, PollSaved, PollRemove, WarmStep,
            WarmContainer, WarmReady, WarmRemove, WarmBegin, SetDraining, Tick, ContainerEnds, taskVars

\* Whoever writes the file has the lock, and writes no less than the record says.
LEMMA WritersNext ==
  ASSUME CapInv, Ats, Writers, Next
  PROVE  Writers'
<1> USE WorkerAssumption
<1>1. CASE Crash \/ Restart
  <2>1. setter'.pc = "idle" /\ \A s \in Sandboxes : job'[s].pc \in RestPCs
    BY <1>1 DEF Crash, Restart, CapInv, Down, IdleDel, Answers, RestPCs, taskVars
  <2> QED BY <2>1 DEF RestPCs, Writers, WriterOf, SetterWrites
<1>2. CASE Tick \/ \E l \in Ids : ContainerEnds(l)
  <2>1. UNCHANGED <<job, setter, rec, saver, payload>>
    BY <1>2 DEF Tick, ContainerEnds, taskVars, fileVars
  <2> QED BY <2>1 DEF Writers, WriterOf, SetterWrites
<1>3. CASE up /\ up'
  <2>1. ASSUME NEW s \in Sandboxes PROVE WriterOf(s)'
    <3> SUFFICES ASSUME job'[s].pc = "saving"
                 PROVE  /\ saver' = s
                        /\ rec'[s].state = "RUNNING" => payload'[s].at = rec'[s].at /\ payload'[s].exp >= 1
      BY DEF WriterOf
    <3>1. CASE CreateSave(s)
      <4>1. saver' = s /\ payload' = LiveRecords /\ rec' = rec
        BY <3>1 DEF CreateSave, TakeState
      <4>2. rec[s].state = "RUNNING" => rec[s].exp >= 1 /\ rec[s].exp \in Nat
        BY DEF Ats, AtOf, CapInv, TypeOK, TablesOK, Records
      <4> QED BY <4>1, <4>2 DEF LiveRecords, Live
    <3>2. CASE ~CreateSave(s)
      <4>1. job[s].pc = "saving" /\ job'[s] = job[s]
        <5>1. CreateBegin(s) \/ CreateStep(s) => job'[s].pc # "saving"
          <6>1. ColdPath(s, res, warm) => job'[s].pc # "saving"
            BY DEF ColdPath, Job, CapInv, TypeOK, JobsOK
          <6>2. \A w \in warm : ClaimWarm(s, w) => job'[s].pc # "saving"
            BY <6>1 DEF ClaimWarm, Job, CapInv, TypeOK, JobsOK
          <6> QED BY <3>2, <6>1, <6>2 DEF CapInv, TypeOK, JobsOK, Job, BootFailed,
                CreateBegin, CreateStep, CreateAdopt, CreateAdopted, CreateUnslot, EnsureImageFails,
                CreateContainer, CreateStart, CreateVerify, CreateCleanup, CreateAnswer, Answer
        <5> QED BY <1>3, <5>1, JobMoves DEF CapInv
      <4>2. saver = s /\ s # NoTask /\ WriterOf(s)
        BY <4>1 DEF Writers, WriterOf, Tasks
      <4>3. ~CreateAnswer(s)
        BY <4>1 DEF CreateAnswer, Answer, Job, CapInv, TypeOK, JobsOK
      <4>4. UNCHANGED fileVars
        BY <1>3, <4>2, <4>3, FileSteps DEF PutState
      <4>5. rec'[s].state = "RUNNING" => rec[s].state = "RUNNING" /\ rec'[s].at = rec[s].at
        <5> SUFFICES ASSUME rec'[s].state = "RUNNING" PROVE rec[s].state = "RUNNING" /\ rec'[s].at = rec[s].at
          OBVIOUS
        <5>1. /\ rec[s].state \in Live
              /\ rec[s].state = "RUNNING" => rec'[s].at = rec[s].at
          BY <1>3, <4>1, LiveGoesOn DEF Live, EarlyPCs, SlotPCs
        <5> QED BY <4>1, <5>1 DEF Live, CapInv, Stages, StageOf, BootPCs
      <4> QED BY <4>1, <4>2, <4>4, <4>5 DEF WriterOf, fileVars
    <3> QED BY <3>1, <3>2
  <2>2. SetterWrites'
    <3>1. ASSUME NEW s \in Sandboxes, SetBegin(s) PROVE SetterWrites'
      <4>1. setter' = [pc |-> "save", sb |-> s] /\ rec'[s].exp = 2 /\ job' = job /\ rec[s].state # "ABSENT"
        BY <3>1 DEF SetBegin, Known, CapInv, TypeOK, TablesOK, Records
      <4>2. job[s].pc \notin EarlyPCs
        BY <4>1 DEF CapInv, Stages, StageOf, NoRec
      <4> QED BY <4>1, <4>2 DEF SetterWrites
    <3>2. CASE SetAnswer
      BY <3>2 DEF SetAnswer, SetterWrites, IdleDel
    <3>3. ASSUME NEW s \in Sandboxes, s = setter.sb, setter.pc # "idle", SetSave \/ setter' = setter
          PROVE  SetterWrites'
      <4>1. setter'.sb = s /\ setter'.pc \in {"save", "saving"}
        BY <3>3 DEF SetSave, CapInv, TypeOK, OthersOK, Setters
      <4>2. job[s].pc \notin EarlyPCs /\ (rec[s].state \in Live => rec[s].exp >= 2)
        BY <3>3 DEF Writers, SetterWrites
      <4>3. rec[s].exp \in Nat /\ rec'[s].exp \in Nat /\ payload[s].exp \in Nat
        BY TypeNext DEF CapInv, TypeOK, TablesOK, FilesOK, Records, Saves
      <4>4. job'[s].pc \notin EarlyPCs
        <5>1. CASE CreateBegin(s) \/ CreateStep(s)
          BY <4>2, <5>1 DEF CreateBegin, CreateStep, CreateAdopt, CreateAdopted, CreateUnslot, EnsureImageFails,
               CreateContainer, CreateStart, CreateVerify, CreateCleanup, CreateSave, CreateAnswer,
               Answer, BootFailed, Job, At, CapInv, TypeOK, JobsOK, EarlyPCs, SlotPCs
        <5> QED BY <1>3, <4>2, <5>1, JobMoves DEF CapInv
      <4>5. rec'[s].state \in Live => rec[s].state \in Live /\ rec'[s].exp >= rec[s].exp
        BY <1>3, <4>2, LiveGoesOn
      <4>6. rec'[s].state \in Live => rec'[s].exp >= 2
        BY <4>2, <4>3, <4>5
      <4>7. CASE SetSave
        <5>1. saver' = Setter /\ payload' = LiveRecords /\ rec' = rec
          BY <4>7 DEF SetSave, TakeState
        <5> QED BY <4>1, <4>2, <4>4, <4>6, <5>1 DEF SetterWrites, LiveRecords
      <4>8. CASE setter' = setter /\ setter.pc = "saving"
        <5>1. saver = Setter /\ Setter # NoTask /\ (rec[s].state \in Live => payload[s].exp >= 2)
          BY <3>3, <4>8 DEF Writers, SetterWrites, Tasks
        <5>2. ~SetAnswer
          BY <4>8 DEF SetAnswer, IdleDel
        <5>3. UNCHANGED fileVars
          BY <1>3, <5>1, <5>2, FileSteps DEF PutState
        <5> QED BY <4>1, <4>4, <4>5, <4>6, <5>1, <5>3 DEF SetterWrites, fileVars
      <4>9. CASE setter' = setter /\ setter.pc = "save"
        BY <4>1, <4>4, <4>6, <4>9 DEF SetterWrites
      <4> QED BY <3>3, <4>1, <4>7, <4>8, <4>9
    <3>4. CASE setter' = setter /\ setter.pc = "idle"
      BY <3>4 DEF SetterWrites
    <3>5. setter.pc # "idle" => setter.sb \in Sandboxes
      BY DEF CapInv, TypeOK, OthersOK
    <3>6. SetSave => setter.pc # "idle"
      BY DEF SetSave
    <3> QED BY <1>3, <3>1, <3>2, <3>3, <3>4, <3>5, <3>6, SetterMoves
  <2> QED BY <2>1, <2>2 DEF Writers
<1> QED BY <1>1, <1>2, <1>3, OnlyWhenUp

-----------------------------------------------------------------------------
(* Promises *)

\* A promise is made by the answer to a create or renewed by the answer to a deadline.
LEMMA PromisesMade ==
  ASSUME TypeOK, Next, up, up', NEW s \in Sandboxes, promised'[s] # 0
  PROVE  \/ promised'[s] = promised[s]
         \/ CreateAnswer(s) /\ promised'[s] = 1
         \/ SetAnswer /\ setter.sb = s /\ promised[s] # 0 /\ promised'[s] = 2
<1> USE DEF TypeOK, WorldOK
<1>0. ~Crash /\ ~Restart
  BY DEF Crash, Restart
<1>1. ASSUME NEW t \in Sandboxes, CreateAnswer(t)
      PROVE  promised'[s] = promised[s] \/ (CreateAnswer(s) /\ promised'[s] = 1)
  BY <1>1 DEF CreateAnswer
<1>2. CASE SetAnswer
  BY <1>2 DEF SetAnswer
<1>3. ASSUME NEW d \in DeleteTasks, DeleteStray(d) \/ \E t \in Sandboxes : DeleteBegin(d, t)
      PROVE  promised'[s] = promised[s]
  BY <1>3 DEF DeleteStray, DeleteBegin
<1>4. CASE PollApply \/ \E l \in Ids : ContainerEnds(l)
  BY <1>4 DEF PollApply, ContainerEnds
<1>5. CASE UNCHANGED promised
  BY <1>5
<1>6. ASSUME NEW t \in Sandboxes, CreateBegin(t) \/ CreateStep(t) \/ PollBegin(t) \/ SetBegin(t)
      PROVE  promised'[s] = promised[s] \/ (CreateAnswer(s) /\ promised'[s] = 1)
  BY <1>1, <1>6 DEF CreateBegin, CreateStep, CreateAdopt, CreateAdopted, CreateUnslot, EnsureImageFails,
            CreateContainer, CreateStart, CreateVerify, CreateCleanup, CreateSave, PollBegin, SetBegin
<1>7. ASSUME NEW d \in DeleteTasks, DeleteStep(d) \/ \E t \in Sandboxes : DeleteBegin(d, t)
      PROVE  promised'[s] = promised[s]
  BY <1>3, <1>7 DEF DeleteStep, DeleteRemove, DeleteSave, DeleteAnswer
<1> QED BY <1>0, <1>2, <1>4, <1>5, <1>6, <1>7
        DEF Next, DeleteTasks, PollStep, PollInspect, PollSave, PollSaved, PollRemove, SetSave, WarmStep,
            WarmContainer,
            WarmReady, WarmRemove, WarmBegin, SetDraining, Tick

\* A running sandbox ends in no step but one that takes the promise back.
LEMMA PromisedLives ==
  ASSUME CapInv, Next, up, up', NEW s \in Sandboxes, promised'[s] # 0, rec[s].state = "RUNNING"
  PROVE  rec'[s].state \in Live
<1> USE DEF CapInv, TypeOK, WorldOK
<1>0. ~Crash /\ ~Restart
  BY DEF Crash, Restart
<1>a. rec[s].state \in Live /\ job[s].pc \in LatePCs /\ rec[s] \in Records
  BY DEF Stages, StageOf, Live, TablesOK
<1>1. ASSUME NEW t \in Sandboxes, CreateBegin(t) \/ CreateStep(t) PROVE rec'[s] = rec[s]
  BY <1>1, <1>a, CreateLate, CreateOnly DEF OnlyOf
<1>2. ASSUME NEW d \in DeleteTasks, NEW t \in Sandboxes, DeleteBegin(d, t) PROVE rec'[s] = rec[s]
  BY <1>2, <1>a DEF DeleteBegin, TablesOK, Live
<1>3. ASSUME NEW d \in DeleteTasks, DeleteRemove(d) PROVE rec'[s] = rec[s]
  <2>1. del[d].sb # s
    BY <1>3, <1>a DEF DeleteRemove, UnderWay
  <2> QED BY <1>3, <2>1 DEF DeleteRemove, TablesOK
<1>4. CASE PollApply
  BY <1>4, <1>a DEF PollApply, TablesOK
<1>5. ASSUME NEW t \in Sandboxes, SetBegin(t) PROVE rec'[s].state = rec[s].state
  BY <1>5 DEF SetBegin, TablesOK, Records
<1>6. CASE UNCHANGED rec
  BY <1>6, <1>a
<1>7. CASE \E d \in DeleteTasks : DeleteStep(d) \/ \E t \in Sandboxes : DeleteBegin(d, t)
  BY <1>7, <1>a, <1>2, <1>3 DEF DeleteStep, DeleteStray, DeleteSave, DeleteAnswer
<1> QED BY <1>0, <1>a, <1>1, <1>4, <1>5, <1>6, <1>7
        DEF Next, DeleteTasks, PollStep, PollBegin, PollInspect, PollSave, PollSaved, PollRemove, SetSave,
            SetAnswer,
            WarmStep, WarmContainer, WarmReady, WarmRemove, WarmBegin, SetDraining, Tick, ContainerEnds

\* Its container is not removed on behalf of anybody else.
LEMMA PromisedRuns ==
  ASSUME CapInv, SlotHeldOnce, Ats, PollOver, Next, up, up', NEW s \in Sandboxes, promised'[s] # 0,
         rec[s].state = "RUNNING", rec[s].at = saved[s].at, saved[s].at \in Ids, ctr[saved[s].at] = "running"
  PROVE  ctr'[saved[s].at] = "running"
<1> USE WorkerAssumption DEF CapInv, TypeOK, WorldOK
<1>0. ~Crash /\ ~Restart
  BY DEF Crash, Restart
<1> DEFINE l == rec[s].at
<1>a. l \in Slots \cup {s} /\ job[s].pc \in LatePCs /\ rec[s].state \in Live
  BY DEF OneContainer, Stages, StageOf, Live, Ids
<1>b. ASSUME NEW t \in Sandboxes, t # s, Removed(t) PROVE ctr'[l] = "running"
  <2>1. ContainerOf(t) \in {names[t], t, None} /\ t \in Ids
    BY DEF ContainerOf, Ids
  <2>2. names[t] # l /\ t # l
    BY <1>a, <1>b DEF SlotHeldOnce, Holds, OneContainer, Ids
  <2>3. ContainerOf(t) # l
    BY <2>1, <2>2
  <2> QED BY <1>b, <2>3 DEF Removed, DockOK
<1>c. ASSUME NEW w \in Slots, w # l, Removed(w) PROVE ctr'[l] = "running"
  <2>1. ContainerOf(w) \in {w, None}
    BY DEF ContainerOf, SlotHeldOnce
  <2> QED BY <1>c, <2>1 DEF Removed, DockOK
<1>1. ASSUME NEW t \in Sandboxes, CreateBegin(t) \/ CreateStep(t) PROVE ctr'[l] = "running"
  <2>1. CASE t = s
    BY <1>1, <1>a, <2>1, CreateLate
  <2>2. CASE t # s
    <3>1. CASE CreateUnslot(t)
      <4>1. Removed(job[t].slot) /\ job[t].slot \in Slots
        BY <3>1 DEF CreateUnslot, SlotPCs, JobsOK
      <4>2. job[t].slot # l
        BY <2>2, <4>1 DEF SlotHeldOnce, Holds
      <4> QED BY <4>1, <4>2, <1>c
    <3>2. CASE CreateCleanup(t)
      BY <2>2, <3>2, <1>b DEF CreateCleanup
    <3>3. CASE CreateContainer(t) \/ CreateStart(t)
      <4>1. t # l
        BY <1>a, <2>2
      <4> QED BY <3>3, <4>1 DEF CreateContainer, RuntimeCreate, CreateStart, RuntimeStart, DockOK, dockVars
    <3> QED BY <1>1, <3>1, <3>2, <3>3 DEF CreateBegin, CreateStep, CreateAdopt, CreateAdopted, EnsureImageFails,
            CreateVerify, CreateSave, CreateAnswer, dockVars
  <2> QED BY <2>1, <2>2
<1>2. ASSUME NEW d \in DeleteTasks, DeleteStep(d) \/ \E t \in Sandboxes : DeleteBegin(d, t)
      PROVE  ctr'[l] = "running"
  <2>1. CASE DeleteStray(d) \/ DeleteRemove(d)
    <3>1. Removed(del[d].sb) /\ del[d].sb \in Sandboxes
      BY <2>1 DEF DeleteStray, DeleteRemove, DelsOK
    <3>2. del[d].sb # s
      BY <2>1, <1>a DEF DeleteStray, DeleteRemove, UnderWay
    <3> QED BY <3>1, <3>2, <1>b
  <2> QED BY <1>2, <2>1 DEF DeleteStep, DeleteBegin, DeleteSave, DeleteAnswer, dockVars
<1>3. CASE PollStep
  <2>1. CASE PollRemove
    <3>1. poll.sb \in Sandboxes /\ Removed(poll.sb) /\ poll.sb # s
      BY <2>1, <1>a DEF PollRemove, PollOver, OthersOK
    <3> QED BY <3>1, <1>b
  <2> QED BY <1>3, <2>1 DEF PollStep, PollInspect, PollApply, PollSave, PollSaved, dockVars
<1>4. CASE WarmStep
  <2>1. boot.sb \in Slots
    BY <1>4 DEF WarmStep, WarmContainer, WarmReady, WarmRemove, OthersOK, Boots
  <2>2. boot.sb # l
    BY <2>1 DEF SlotHeldOnce, Holds
  <2>3. CASE WarmRemove
    BY <2>1, <2>2, <2>3, <1>c DEF WarmRemove
  <2>4. CASE WarmContainer
    BY <2>1, <2>2, <2>4 DEF WarmContainer, DockOK, dockVars
  <2> QED BY <1>4, <2>3, <2>4 DEF WarmStep, WarmReady, dockVars
<1>5. ASSUME NEW x \in Ids, ContainerEnds(x) PROVE ctr'[l] = "running"
  BY <1>5 DEF ContainerEnds, DockOK
<1>6. CASE ctr' = ctr
  BY <1>6
<1>7. ctr'[l] = "running"
  BY <1>0, <1>1, <1>2, <1>3, <1>4, <1>5, <1>6
     DEF Next, DeleteTasks, PollBegin, SetBegin, SetSave, SetAnswer, WarmBegin, SetDraining, Tick, dockVars
<1> QED BY <1>7

\* While the daemon runs, a promise stays in the record, in the file, and in what is
\* being written.
LEMMA PromisedStays ==
  ASSUME CapInv, SlotHeldOnce, Ats, PollOver, Writers, Next, up, up', ~Spend("leaks"),
         NEW s \in Sandboxes, PromisedOf(s)
  PROVE  PromisedOf(s)'
<1> USE WorkerAssumption
<1> SUFFICES ASSUME promised'[s] # 0
             PROVE  /\ saved'[s].at \in Ids /\ ctr'[saved'[s].at] = "running" /\ saved'[s].exp >= promised'[s]
                    /\ rec'[s].state = "RUNNING" /\ rec'[s].exp >= promised'[s] /\ rec'[s].at = saved'[s].at
                    /\ saver' # NoTask => payload'[s].at = rec'[s].at /\ payload'[s].exp >= promised'[s]
  BY DEF PromisedOf
<1>a. /\ rec[s] \in Records /\ rec'[s] \in Records /\ payload[s] \in Saves /\ saved[s] \in Saves
      /\ promised[s] \in Nat /\ promised'[s] \in Nat
  BY TypeNext DEF CapInv, TypeOK, TablesOK, FilesOK, WorldOK
<1>b. \/ promised'[s] = promised[s]
      \/ CreateAnswer(s) /\ promised'[s] = 1
      \/ SetAnswer /\ setter.sb = s /\ promised[s] # 0 /\ promised'[s] = 2
  BY PromisesMade DEF CapInv
<1>c. ASSUME NEW t, PutState(t) PROVE saved' = payload /\ saver' = NoTask /\ saver = t
  BY <1>c DEF PutState
<1>1. CASE promised[s] # 0
  <2>1. /\ saved[s].at \in Ids /\ ctr[saved[s].at] = "running" /\ saved[s].exp >= promised[s]
        /\ rec[s].state = "RUNNING" /\ rec[s].exp >= promised[s] /\ rec[s].at = saved[s].at
        /\ saver # NoTask => payload[s].at = rec[s].at /\ payload[s].exp >= promised[s]
    BY <1>1 DEF PromisedOf
  <2>2. job[s].pc \notin EarlyPCs
    BY <2>1 DEF CapInv, Stages, StageOf, LatePCs, EarlyPCs, SlotPCs
  <2>3. rec'[s].state \in Live
    BY <2>1, PromisedLives
  <2>4. rec'[s].state = "RUNNING" /\ rec'[s].at = rec[s].at /\ rec'[s].exp >= rec[s].exp
    BY <2>1, <2>2, <2>3, LiveGoesOn
  <2>5. ctr'[saved[s].at] = "running"
    BY <2>1, PromisedRuns
  <2>6. CASE SetAnswer /\ setter.sb = s
    <3>1. PutState(Setter) /\ rec' = rec /\ promised'[s] = 2
      BY <2>6, <1>1 DEF SetAnswer, CapInv, TypeOK, WorldOK
    <3>2. saver # NoTask
      BY <3>1 DEF PutState, Tasks
    <3>3. rec[s].exp >= 2 /\ payload[s].exp >= 2
      BY <2>1, <2>6 DEF SetAnswer, Writers, SetterWrites, Live
    <3> QED BY <2>1, <2>5, <3>1, <3>2, <3>3, <1>c
  <2>7. CASE promised'[s] <= promised[s]
    <3>1. rec'[s].exp >= promised'[s] /\ saved[s].exp >= promised'[s]
      BY <1>a, <2>1, <2>4, <2>7 DEF Records, Saves
    <3>2. saver # NoTask => payload[s].exp >= promised'[s]
      BY <1>a, <2>1, <2>7 DEF Saves
    <3>3. CASE UNCHANGED fileVars
      BY <2>1, <2>4, <2>5, <3>1, <3>2, <3>3 DEF fileVars
    <3>4. CASE saver = NoTask /\ payload' = LiveRecords /\ saved' = saved
      <4>1. payload'[s].at = rec[s].at /\ payload'[s].exp = rec[s].exp
        BY <2>1, <3>4 DEF LiveRecords, Live
      <4>2. rec[s].exp >= promised'[s]
        BY <1>a, <2>1, <2>7 DEF Records
      <4> QED BY <2>1, <2>4, <2>5, <3>1, <3>4, <4>1, <4>2
    <3>5. ASSUME NEW t \in Tasks, PutState(t)
          PROVE  /\ saved'[s].at \in Ids /\ ctr'[saved'[s].at] = "running" /\ saved'[s].exp >= promised'[s]
                 /\ rec'[s].at = saved'[s].at /\ saver' = NoTask
      BY <2>1, <2>4, <2>5, <3>2, <3>5, <1>c
    <3> QED BY <2>4, <3>1, <3>3, <3>4, <3>5, FileSteps
  <2>8. promised'[s] = promised[s] \/ promised'[s] = 1 => promised'[s] <= promised[s]
    BY <1>a, <1>1
  <2> QED BY <1>b, <2>6, <2>7, <2>8
<1>2. CASE promised[s] = 0
  <2>1. CreateAnswer(s) /\ promised'[s] = 1
    BY <1>2, <1>b
  <2>2. /\ rec[s].state = "RUNNING" /\ Docker(s) = "running" /\ PutState(s) /\ UNCHANGED <<rec, ctr>>
        /\ job[s].pc = "saving"
    BY <2>1 DEF CreateAnswer, At, dockVars, CapInv, TypeOK, WorldOK
  <2>3. payload[s].at = rec[s].at /\ payload[s].exp >= 1
    BY <2>2 DEF Writers, WriterOf
  <2>4. rec[s].at \in Ids /\ rec[s].exp >= 1 /\ names[s] \in {rec[s].at, None}
    BY <1>a, <2>2 DEF Ats, AtOf, LatePCs, Records
  <2>5. ctr[rec[s].at] = "running"
    BY <2>2, <2>4 DEF Docker, ContainerOf, CapInv, OneContainer
  <2> QED BY <1>c, <2>1, <2>2, <2>3, <2>4, <2>5
<1> QED BY <1>1, <1>2

\* A restart finds every container that was promised, and gives it back to its sandbox
\* with the deadline of the file.
LEMMA PromisedRestarts ==
  ASSUME CapInv, SlotHeldOnce, Restart, NEW s \in Sandboxes, PromisedOf(s)
  PROVE  PromisedOf(s)'
<1> USE WorkerAssumption
<1> SUFFICES ASSUME promised[s] # 0
             PROVE  /\ saved'[s].at \in Ids /\ ctr'[saved'[s].at] = "running" /\ saved'[s].exp >= promised[s]
                    /\ rec'[s].state = "RUNNING" /\ rec'[s].exp >= promised[s] /\ rec'[s].at = saved'[s].at
                    /\ saver' = NoTask
  BY DEF PromisedOf, Restart
<1> DEFINE l == saved[s].at
<1>1. l \in Ids /\ ctr[l] = "running" /\ saved[s].exp >= promised[s]
  BY DEF PromisedOf
<1>2. Owner(l) = s
  <2>1. s \in Claims(l)
    BY DEF Claims
  <2>2. \A t \in Claims(l) : t = s
    <3> SUFFICES ASSUME NEW t \in Sandboxes, saved[t].at = l PROVE t = s
      BY DEF Claims
    <3>1. CASE l \in Slots
      BY <3>1 DEF SlotHeldOnce, Holds
    <3>2. CASE l \in Sandboxes
      BY <3>2 DEF CapInv, OneContainer, Ids
    <3> QED BY <1>1, <3>1, <3>2 DEF Ids
  <2> QED BY <2>1, <2>2 DEF Owner
<1>3. ctr'[l] = "running"
  <2>1. Owner(l) \notin Slots
    BY <1>2 DEF Ids
  <2> QED BY <1>1, <2>1 DEF Restart
<1>4. FoundAgain(s) /\ saver' = NoTask
  BY RestartFinds DEF Restart, CapInv, Down
<1>5. saved[s] # NoSave
  BY <1>1 DEF NoSave
<1>6. rec'[s].at = l /\ rec'[s].state = "RUNNING" /\ rec'[s].exp = saved[s].exp /\ saved'[s] = [exp |-> saved[s].exp, at |-> l]
  BY <1>1, <1>2, <1>4, <1>5 DEF FoundAgain
<1> QED BY <1>1, <1>3, <1>4, <1>6

\* Nothing is promised at first.
LEMMA FileInit == Init => FileInv
BY DEF Init, FileInv, Writers, WriterOf, SetterWrites, PromisedOf, IdleDel

\* Every step keeps the promises, unless Docker or the disk fails.
LEMMA FileNext == CapInv /\ StrayInv /\ FileInv /\ [Next]_vars => FileInv'
<1> SUFFICES ASSUME CapInv, StrayInv, FileInv, [Next]_vars PROVE FileInv'
  OBVIOUS
<1>0. CASE UNCHANGED vars
  <2>1. UNCHANGED <<rec, job, setter, saver, payload, saved, ctr, up, promised, budget>>
    BY <1>0 DEF vars, taskVars, fileVars, dockVars
  <2> QED BY <2>1 DEF FileInv, Writers, WriterOf, SetterWrites, PromisedOf, NoLeak
<1>1. CASE Next
  <2>1. Writers'
    BY <1>1, WritersNext DEF FileInv, Writers, StrayInv
  <2>2. ASSUME NoLeak', NEW s \in Sandboxes PROVE PromisedOf(s)'
    <3>1. NoLeak /\ ~Spend("leaks")
      BY <1>1, <2>2, Clean DEF StrayInv, CapInv
    <3>2. PromisedOf(s) /\ Writers /\ SlotHeldOnce /\ Ats /\ PollOver
      BY <3>1 DEF FileInv, Writers, StrayInv
    <3>3. CASE up /\ up'
      BY <1>1, <3>1, <3>2, <3>3, PromisedStays
    <3>4. CASE Crash
      <4>1. UNCHANGED <<saved, ctr, promised>> /\ up' = FALSE
        BY <3>4 DEF Crash
      <4> QED BY <3>2, <4>1 DEF PromisedOf
    <3>5. CASE Restart
      BY <3>2, <3>5, PromisedRestarts
    <3>6. CASE Tick
      BY <3>2, <3>6 DEF Tick, PromisedOf, fileVars, dockVars
    <3>7. ASSUME NEW l \in Ids, ContainerEnds(l) PROVE PromisedOf(s)'
      <4>1. UNCHANGED <<rec, saver, payload, saved, up>>
        BY <3>7 DEF ContainerEnds, fileVars
      <4>2. promised'[s] = 0 \/ (promised'[s] = promised[s] /\ saved[s].at # l)
        BY <3>7 DEF ContainerEnds
      <4>3. saved[s].at \in Ids /\ saved[s].at # l => ctr'[saved[s].at] = ctr[saved[s].at]
        BY <3>7 DEF ContainerEnds, CapInv, TypeOK, DockOK
      <4> QED BY <3>2, <4>1, <4>2, <4>3 DEF PromisedOf
    <3> QED BY <1>1, <3>3, <3>4, <3>5, <3>6, <3>7, OnlyWhenUp
  <2> QED BY <2>1, <2>2 DEF FileInv, Writers
<1> QED BY <1>0, <1>1

\* A sandbox that was answered as running, and not ended since, is running, in the
\* container it was given and with at least the deadline last acknowledged, across any
\* number of crashes and restarts, unless Docker or a write of the state file failed
\* (worker/service.py _save_state, _load_state, reconcile, set_expiration).
THEOREM PromisesKept == Spec => []PromiseKept
<1>1. CapInv /\ FileInv => PromiseKept
  BY WorkerAssumption DEF FileInv, PromisedOf, PromiseKept, NoLeak
<1> QED BY <1>1, CapInit, CapNext, StrayInit, StrayNext, FileInit, FileNext, PTL DEF Spec

=============================================================================
