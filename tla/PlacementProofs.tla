--------------------------- MODULE PlacementProofs ---------------------------
(***************************************************************************)
(* What TLAPS proves about Placement, for every set of sandboxes, workers  *)
(* and stop calls, every number of slots and every bound on faults: types, *)
(* a reservation that has an owner, a ledger that never hands out more     *)
(* than a worker has, no create left waiting for nobody, a worker that can *)
(* always be given up, no refused transition, no sandbox sent to a worker  *)
(* twice, and no RUNNING that was not started where it says.               *)
(***************************************************************************)
EXTENDS Placement, FiniteSetTheorems, TLAPS

-----------------------------------------------------------------------------
(* The inductive invariant *)

\* A placement that talks to a worker knows which one.
TalksToWorker ==
  \A s \in Sandboxes :
    pc[s] \in {"calling", "refresh", "unavailable", "mark", "discard", "badview",
               "running", "touch"} => host[s] \in Workers

\* Between the decision and the worker's answer the record and the local
\* variable `worker` agree; the reservation is the record's.
RecordNamesHost ==
  \A s \in Sandboxes :
    pc[s] \in {"commit", "calling"} =>
      /\ mem[s].worker = host[s]
      /\ mem[s].state = "CREATING" <=> host[s] \in Workers
      /\ pc[s] = "calling" => mem[s].state = "CREATING"

\* A pass that asks a worker knows which one.
PassHasWorker == rc.pc \notin {"idle", "next"} => rc.w \in Workers

Inv == TypeOK /\ TalksToWorker /\ RecordNamesHost /\ PassHasWorker /\ ReservationOwned

-----------------------------------------------------------------------------
(* Facts about the operators *)

\* What a worker reports as in use is a number: it counts some of the sandboxes.
LEMMA AdmittedNat ==
  ASSUME NEW w \in Workers
  PROVE  Admitted(w) \in Nat
BY ConstantsAssumption, FS_Subset, FS_CardinalityType DEF Admitted

\* Spending keeps the budget within its bounds.
LEMMA SpendOK ==
  ASSUME budget \in Budgets,
         NEW kind \in {"creates", "faults", "deaths", "crashes", "removals", "passes"},
         Spend(kind)
  PROVE  budget' \in Budgets
BY DEF Spend, Budgets

\* Idle tasks are tasks.
LEMMA IdleOK == IdleStop \in StopTasks /\ IdleRc \in RcTasks /\ IdleTm \in TmTasks
BY DEF IdleStop, IdleRc, IdleTm, StopTasks, RcTasks, TmTasks, StopPCs, RcPCs, TmPCs, Rows, NoRow, Views, WorkerStates

\* The states the actions write are states of the lifecycle.
LEMMA StateNames ==
  /\ "PENDING" \in SandboxStates /\ "WAITING_FOR_CAPACITY" \in SandboxStates
  /\ "PROVISIONING_WORKER" \in SandboxStates /\ "CREATING" \in SandboxStates
  /\ "RUNNING" \in SandboxStates /\ "STOPPING" \in SandboxStates
  /\ "STOPPED" \in SandboxStates /\ "FAILED" \in SandboxStates
  /\ "LOST" \in SandboxStates /\ "EXPIRED" \in SandboxStates
BY DEF SandboxStates

\* Rows stay rows: a new row, a new state in one row of a table.
LEMMA RowOK ==
  ASSUME NEW st \in SandboxStates, NEW w \in Workers \cup {NoWorker}
  PROVE  Row(st, w) \in Rows /\ NoRow \in Rows
BY DEF Row, NoRow, Rows

LEMMA RowStateOK ==
  ASSUME NEW row \in Rows, NEW st \in SandboxStates
  PROVE  [row EXCEPT !.state = st] \in Rows
BY DEF Rows

LEMMA TableStateOK ==
  ASSUME NEW f \in [Sandboxes -> Rows], NEW s \in Sandboxes, NEW st \in SandboxStates
  PROVE  [f EXCEPT ![s].state = st] \in [Sandboxes -> Rows]
BY RowStateOK

\* Release, Confirm and Reserve keep the ledger well formed.
LEMMA LedgerStepOK ==
  ASSUME LedgerOK, NEW w, NEW s \in Sandboxes, UNCHANGED snap,
         Release(w, s) \/ Confirm(w, s) \/ (Reserve(w, s) /\ UNCHANGED acked)
  PROVE  LedgerOK'
BY DEF LedgerOK, Release, Confirm, Reserve

\* Update and Forget keep it well formed.
LEMMA SnapshotOK ==
  ASSUME LedgerOK, NEW w, NEW used \in Nat,
         (Update(w, used) /\ UNCHANGED pending) \/ Forget(w)
  PROVE  LedgerOK'
BY ConstantsAssumption DEF LedgerOK, Update, Forget

\* A placement that decides, requeues or ends has well-formed locals.
LEMMA DecideOK ==
  ASSUME PlaceOK, NEW s \in Sandboxes, NEW row \in Rows, Decide(s, row)
  PROVE  PlaceOK'
<1>1. row.worker \in Workers \cup {NoWorker}
  BY DEF Rows
<1> QED BY <1>1 DEF PlaceOK, Decide, Goto, PlacePCs

LEMMA RequeueOK ==
  ASSUME PlaceOK, NEW s \in Sandboxes, Requeue(s), UNCHANGED <<lock, excl>>
  PROVE  PlaceOK'
BY RowOK, StateNames DEF PlaceOK, Requeue, Goto, PlacePCs

LEMMA EndOK ==
  ASSUME PlaceOK, NEW s \in Sandboxes, End(s), lock' \in Sandboxes \cup {NoTask}
  PROVE  PlaceOK'
BY RowOK, StateNames DEF PlaceOK, End, Goto, PlacePCs

\* A call that fails, and a best-effort delete, keep budget and inventory well formed.
LEMMA CallFailsOK ==
  ASSUME budget \in Budgets, NEW w, CallFails(w)
  PROVE  budget' \in Budgets
BY SpendOK DEF CallFails

\* One entry of the daemons' tables changes.
LEMMA CallOK ==
  ASSUME rpc \in [Workers -> [Sandboxes -> Calls]], NEW w, NEW s, NEW c \in Calls
  PROVE  [rpc EXCEPT ![w][s] = c] \in [Workers -> [Sandboxes -> Calls]]
OBVIOUS

LEMMA ViewOK ==
  ASSUME inv \in [Workers -> [Sandboxes -> Views]], NEW w, NEW s, NEW v \in Views
  PROVE  [inv EXCEPT ![w][s] = v] \in [Workers -> [Sandboxes -> Views]]
OBVIOUS

LEMMA DeletedOK ==
  ASSUME HostsOK, NEW w, NEW s, Deleted(w, s)
  PROVE  inv' \in [Workers -> [Sandboxes -> Views]]
BY DEF HostsOK, Deleted, Views

LEMMA TryDeleteOK ==
  ASSUME HostsOK, budget \in Budgets, NEW w, NEW s, TryDelete(w, s),
         UNCHANGED <<rpc, alive>>
  PROVE  HostsOK' /\ budget' \in Budgets
BY DeletedOK, CallFailsOK DEF TryDelete, HostsOK

\* The fields of a stop task.
LEMMA StopFields ==
  ASSUME stop \in [Stoppers -> StopTasks], NEW k \in Stoppers
  PROVE  /\ stop[k].rec \in Rows /\ stop[k].sb \in Sandboxes \cup {NoTask}
         /\ stop[k].final \in SandboxStates /\ stop[k].seen \in WorkerStates \cup {"NONE"}
         /\ stop[k].rec.worker \in Workers \cup {NoWorker}
BY StateNames DEF StopTasks, Rows

\* Moving a stop task on.
LEMMA StopGotoOK ==
  ASSUME stop \in [Stoppers -> StopTasks], NEW k \in Stoppers, NEW label \in StopPCs,
         NEW st \in WorkerStates \cup {"NONE"}
  PROVE  /\ [stop EXCEPT ![k].pc = label] \in [Stoppers -> StopTasks]
         /\ [stop EXCEPT ![k].pc = label, ![k].seen = st] \in [Stoppers -> StopTasks]
BY DEF StopTasks

\* What StopEnds leaves is a stop task.
LEMMA StopEndsOK ==
  ASSUME stop \in [Stoppers -> StopTasks], NEW k \in Stoppers, NEW st \in SandboxStates,
         StopEnds(k, st)
  PROVE  stop' \in [Stoppers -> StopTasks]
<1>1. stop[k].rec \in Rows
  BY DEF StopTasks
<1>2. [stop[k].rec EXCEPT !.state = st] \in Rows
  BY <1>1, RowStateOK
<1>3. stop' = [stop EXCEPT ![k] = [stop[k] EXCEPT !.pc = "finish", !.final = "STOPPED",
                !.seen = "NONE", !.rec = [stop[k].rec EXCEPT !.state = st]]]
  BY ZenonT(60) DEF StopEnds, StopTasks, Rows
<1> QED BY <1>2, <1>3 DEF StopTasks, StopPCs

\* Type correctness of the placement steps.
LEMMA PlacingType ==
  ASSUME Inv, NEW s \in Sandboxes, Create(s) \/ Placing(s)
  PROVE  TypeOK'
<1> USE DEF Inv, TypeOK, TablesOK, HostsOK, ControlOK, dbVars, taskVars, hostVars
<1>0. CASE Create(s)
  BY <1>0, RowOK, StateNames, SpendOK DEF Create, LedgerOK, PlaceOK, TasksOK, ledger, Goto, PlacePCs
<1>1. CASE PlaceGiveUp(s)
  BY <1>1, EndOK DEF PlaceGiveUp, LedgerOK, TasksOK, ledger, PlaceOK
<1>2. CASE PlaceReserve(s)
  <2>1. PICK w \in BestFit(s) : Reserve(w, s) /\ Decide(s, Row("CREATING", w))
    BY <1>2 DEF PlaceReserve
  <2>2. w \in Workers
    BY <2>1 DEF BestFit, Fitting, Candidates
  <2>3. PlaceOK'
    BY <2>1, <2>2, DecideOK, RowOK, StateNames
  <2>4. LedgerOK'
    BY <1>2, <2>1, LedgerStepOK DEF PlaceReserve
  <2> QED BY <1>2, <2>1, <2>3, <2>4 DEF PlaceReserve, Decide, TasksOK
<1>3. CASE PlaceScaleUp(s)
  <2>1. PlaceOK'
    BY <1>3, DecideOK, RowOK, StateNames DEF PlaceScaleUp
  <2>2. wdb' \in [Workers -> WorkerStates \cup {"NONE"}]
    BY <1>3 DEF PlaceScaleUp, WorkerStates
  <2> QED BY <1>3, <2>1, <2>2 DEF PlaceScaleUp, Decide, TasksOK, LedgerOK, ledger
<1>4. CASE PlaceWait(s)
  <2>1. PlaceOK'
    BY <1>4, DecideOK, RowOK, StateNames DEF PlaceWait
  <2> QED BY <1>4, <2>1 DEF PlaceWait, Decide, TasksOK, LedgerOK, ledger
<1>5. CASE PlaceCommit(s)
  BY <1>5 DEF PlaceCommit, LedgerOK, PlaceOK, TasksOK, ledger, Goto, PlacePCs, Calls
<1>6. CASE PlaceRecheck(s)
  <2>1. LedgerOK'
    BY <1>6, LedgerStepOK DEF PlaceRecheck
  <2>2. mem' \in [Sandboxes -> Rows]
    <3>1. [mem EXCEPT ![s].state = "RUNNING"] \in [Sandboxes -> Rows]
      BY TableStateOK, StateNames DEF PlaceOK
    <3> QED BY <1>6, <3>1 DEF PlaceRecheck, PlaceOK
  <2> QED BY <1>6, <2>1, <2>2 DEF PlaceRecheck, PlaceOK, TasksOK, Goto, PlacePCs
<1>7. CASE PlaceRunning(s)
  BY <1>7 DEF PlaceRunning, LedgerOK, PlaceOK, TasksOK, ledger, Goto, PlacePCs
<1>8. CASE PlaceTouch(s)
  BY <1>8, EndOK DEF PlaceTouch, LedgerOK, TasksOK, ledger, PlaceOK, WorkerStates
<1>9. CASE PlaceDiscard(s)
  <2>1. HostsOK' /\ budget' \in Budgets
    BY <1>9, TryDeleteOK DEF PlaceDiscard, TalksToWorker
  <2>2. PlaceOK'
    <3>1. [mem EXCEPT ![s].state = "STOPPED"] \in [Sandboxes -> Rows]
      BY TableStateOK, StateNames DEF PlaceOK
    <3>2. CASE End(s)
      BY <1>9, <3>2, EndOK DEF PlaceDiscard, PlaceOK
    <3>3. CASE ~End(s)
      BY <1>9, <3>1, <3>3 DEF PlaceDiscard, PlaceOK, Goto, PlacePCs
    <3> QED BY <3>2, <3>3
  <2> QED BY <1>9, <2>1, <2>2 DEF PlaceDiscard, LedgerOK, TasksOK, ledger
<1>10. CASE PlaceBadView(s)
  <2>1. HostsOK' /\ budget' \in Budgets
    BY <1>10, TryDeleteOK DEF PlaceBadView, TalksToWorker
  <2>2. PlaceOK'
    BY <1>10, TableStateOK, StateNames DEF PlaceBadView, PlaceOK, Goto, PlacePCs
  <2> QED BY <1>10, <2>1, <2>2 DEF PlaceBadView, LedgerOK, TasksOK, ledger
<1>11. CASE PlaceChanged(s)
  BY <1>11, LedgerStepOK DEF PlaceChanged, PlaceOK, TasksOK, Goto, PlacePCs, TalksToWorker
<1>12. CASE PlaceRefresh(s)
  <2>1. LedgerOK' /\ budget' \in Budgets
    <3>1. host[s] \in Workers
      BY <1>12 DEF PlaceRefresh, TalksToWorker
    <3>2. CASE Update(host[s], Admitted(host[s])) /\ UNCHANGED budget
      BY <1>12, <3>1, <3>2, SnapshotOK, AdmittedNat DEF PlaceRefresh
    <3>3. CASE CallFails(host[s]) /\ UNCHANGED <<snap, acked>>
      BY <1>12, <3>3, CallFailsOK DEF PlaceRefresh, LedgerOK
    <3> QED BY <1>12, <3>2, <3>3 DEF PlaceRefresh
  <2>2. PlaceOK'
    BY <1>12, RequeueOK DEF PlaceRefresh
  <2> QED BY <1>12, <2>1, <2>2 DEF PlaceRefresh, TasksOK
<1>13. CASE PlaceUnavailable(s)
  <2>1. LedgerOK' /\ budget' \in Budgets
    BY <1>13, LedgerStepOK, CallFailsOK DEF PlaceUnavailable
  <2>2. rpc' \in [Workers -> [Sandboxes -> Calls]]
    <3>1. rpc' = rpc \/ rpc' = [rpc EXCEPT ![host[s]][s] = "none"]
      BY <1>13 DEF PlaceUnavailable
    <3>2. "none" \in Calls
      BY DEF Calls
    <3>3. [rpc EXCEPT ![host[s]][s] = "none"] \in [Workers -> [Sandboxes -> Calls]]
      BY <3>2, CallOK
    <3> QED BY <3>1, <3>3
  <2>3. PlaceOK'
    BY <1>13 DEF PlaceUnavailable, PlaceOK, Goto, PlacePCs, TalksToWorker
  <2> QED BY <1>13, <2>1, <2>2, <2>3 DEF PlaceUnavailable, TasksOK
<1>14. CASE PlaceReadWorker(s)
  <2>1. PlaceOK'
    <3>1. CASE Requeue(s)
      BY <1>14, <3>1, RequeueOK DEF PlaceReadWorker
    <3>2. CASE Goto(s, "mark") /\ UNCHANGED <<mem, host>>
      BY <1>14, <3>2 DEF PlaceReadWorker, PlaceOK, Goto, PlacePCs
    <3> QED BY <1>14, <3>1, <3>2 DEF PlaceReadWorker
  <2> QED BY <1>14, <2>1 DEF PlaceReadWorker, LedgerOK, TasksOK, ledger
<1>15. CASE PlaceMark(s)
  BY <1>15, RequeueOK DEF PlaceMark, LedgerOK, TasksOK, ledger, WorkerStates
<1>16. CASE PlaceRequeue(s)
  BY <1>16 DEF PlaceRequeue, LedgerOK, PlaceOK, TasksOK, ledger, Goto, PlacePCs
<1>17. CASE PlaceError(s)
  <2>1. PlaceOK'
    BY <1>17, TableStateOK, StateNames DEF PlaceError, PlaceOK, Goto, PlacePCs
  <2> QED BY <1>17, <2>1, LedgerStepOK DEF PlaceError, TasksOK
<1>18. CASE PlaceTimeout(s)
  BY <1>18 DEF PlaceTimeout, LedgerOK, PlaceOK, TasksOK, ledger, Goto, PlacePCs
<1>19. CASE PlaceCancel(s)
  <2>1. LedgerOK'
    BY <1>19, LedgerStepOK DEF PlaceCancel, LedgerOK
  <2>2. PlaceOK'
    <3>1. lock' \in Sandboxes \cup {NoTask}
      BY <1>19 DEF PlaceCancel, PlaceOK
    <3>2. CASE End(s)
      BY <3>1, <3>2, EndOK
    <3>3. CASE Goto(s, "cancelled") /\ UNCHANGED <<mem, host, excl>>
      BY <3>1, <3>3 DEF PlaceOK, Goto, PlacePCs
    <3> QED BY <1>19, <3>2, <3>3 DEF PlaceCancel
  <2> QED BY <1>19, <2>1, <2>2 DEF PlaceCancel, TasksOK
<1>20. CASE PlaceFail(s)
  <2>1. PlaceOK'
    <3>1. CASE End(s)
      BY <1>20, <3>1, EndOK DEF PlaceFail, PlaceOK
    <3>2. CASE ~Terminal(s)
      <4>1. [db[s] EXCEPT !.state = "FAILED"] \in Rows
        BY RowStateOK, StateNames
      <4> QED BY ZenonT(60), <1>20, <3>2, <4>1 DEF PlaceFail, PlaceOK, Goto, PlacePCs
    <3> QED BY <1>20, <3>1, <3>2 DEF PlaceFail
  <2> QED BY <1>20, <2>1 DEF PlaceFail, LedgerOK, TasksOK, ledger
<1>21. CASE PlaceFinish(s)
  BY <1>21, EndOK DEF PlaceFinish, LedgerOK, PlaceOK, TasksOK, ledger
<1> QED
  BY <1>0, <1>1, <1>2, <1>3, <1>4, <1>5, <1>6, <1>7, <1>8, <1>9, <1>10, <1>11, <1>12, <1>13,
     <1>14, <1>15, <1>16, <1>17, <1>18, <1>19, <1>20, <1>21 DEF Placing

\* Type correctness of the stop, terminate and provision steps.
LEMMA StoppingType ==
  ASSUME Inv, NEW k \in Stoppers,
         StopStep(k) \/ \E s \in Sandboxes, final \in {"STOPPED", "EXPIRED"} : StopBegin(k, s, final)
  PROVE  TypeOK'
<1> USE DEF Inv, TypeOK, dbVars, ledger, placeVars, hostVars
<1>0. CASE \E s \in Sandboxes, final \in {"STOPPED", "EXPIRED"} : StopBegin(k, s, final)
  <2>1. PICK s \in Sandboxes, final \in {"STOPPED", "EXPIRED"} : StopBegin(k, s, final)
    BY <1>0
  <2>2. /\ [db[s] EXCEPT !.state = "STOPPING"] \in Rows
        /\ [db[s] EXCEPT !.state = "STOPPED"] \in Rows
    BY RowStateOK, StateNames DEF TablesOK
  <2>3. stop' \in [Stoppers -> StopTasks]
    BY <2>1, <2>2 DEF StopBegin, TasksOK, StopTasks, StopPCs
  <2> QED BY <2>1, <2>3 DEF StopBegin, TablesOK, LedgerOK, PlaceOK, TasksOK, HostsOK, ControlOK
<1>1. CASE StopMark(k)
  <2>1. stop' \in [Stoppers -> StopTasks]
    BY <1>1, StopGotoOK DEF StopMark, TasksOK, StopPCs
  <2>2. db' \in [Sandboxes -> Rows]
    BY <1>1, StopFields DEF StopMark, TablesOK, TasksOK
  <2> QED BY <1>1, <2>1, <2>2 DEF StopMark, TablesOK, LedgerOK, PlaceOK, TasksOK, HostsOK, ControlOK
<1>2. CASE StopReadWorker(k)
  <2>1. stop' \in [Stoppers -> StopTasks]
    <3>1. CASE StopEnds(k, stop[k].final)
      BY <3>1, StopFields, StopEndsOK DEF TasksOK
    <3>2. CASE /\ stop[k].rec.worker # NoWorker
               /\ stop' = [stop EXCEPT ![k].pc = "delete", ![k].seen = wdb[stop[k].rec.worker]]
      <4>1. wdb[stop[k].rec.worker] \in WorkerStates \cup {"NONE"}
        BY <3>2, StopFields DEF TasksOK, TablesOK
      <4> QED BY <3>2, <4>1, StopGotoOK DEF TasksOK, StopPCs
    <3> QED BY <1>2, <3>1, <3>2 DEF StopReadWorker
  <2> QED BY <1>2, <2>1 DEF StopReadWorker, TablesOK, LedgerOK, PlaceOK, TasksOK, HostsOK, ControlOK
<1>3. CASE StopDelete(k)
  <2>1. stop' \in [Stoppers -> StopTasks]
    BY <1>3, StopGotoOK DEF StopDelete, TasksOK, StopPCs
  <2>2. LedgerOK'
    BY <1>3 DEF StopDelete, LedgerOK, Release
  <2>3. HostsOK'
    BY <1>3, DeletedOK DEF StopDelete, HostsOK
  <2> QED BY <1>3, <2>1, <2>2, <2>3 DEF StopDelete, TablesOK, PlaceOK, TasksOK, ControlOK
<1>4. CASE StopUnreachable(k)
  <2>1. stop' \in [Stoppers -> StopTasks]
    BY <1>4, StopEndsOK, StateNames DEF StopUnreachable, TasksOK
  <2>2. LedgerOK'
    BY <1>4 DEF StopUnreachable, LedgerOK, Release
  <2>3. HostsOK'
    BY <1>4, DeletedOK DEF StopUnreachable, HostsOK
  <2>4. budget' \in Budgets
    BY <1>4, CallFailsOK DEF StopUnreachable, ControlOK
  <2> QED BY <1>4, <2>1, <2>2, <2>3, <2>4 DEF StopUnreachable, TablesOK, PlaceOK, TasksOK, ControlOK
<1>5. CASE StopRaises(k)
  BY <1>5, SpendOK, IdleOK DEF StopRaises, TablesOK, LedgerOK, PlaceOK, TasksOK, HostsOK, ControlOK
<1>6. CASE StopCount(k)
  <2>1. stop' \in [Stoppers -> StopTasks]
    <3>1. CASE StopEnds(k, stop[k].final)
      BY <3>1, StopFields, StopEndsOK DEF TasksOK
    <3>2. CASE stop' = [stop EXCEPT ![k].pc = "touch"]
      BY <3>2, StopGotoOK DEF TasksOK, StopPCs
    <3> QED BY <1>6, <3>1, <3>2 DEF StopCount
  <2> QED BY <1>6, <2>1 DEF StopCount, TablesOK, LedgerOK, PlaceOK, TasksOK, HostsOK, ControlOK
<1>7. CASE StopTouch(k)
  <2>1. stop' \in [Stoppers -> StopTasks]
    BY <1>7, StopFields, StopEndsOK DEF StopTouch, TasksOK
  <2>2. wdb' \in [Workers -> WorkerStates \cup {"NONE"}]
    BY <1>7, StopFields DEF StopTouch, TablesOK, TasksOK
  <2> QED BY <1>7, <2>1, <2>2 DEF StopTouch, TablesOK, LedgerOK, PlaceOK, TasksOK, HostsOK, ControlOK
<1>8. CASE StopFinish(k)
  <2>1. db' \in [Sandboxes -> Rows]
    BY <1>8, StopFields DEF StopFinish, TablesOK, TasksOK
  <2> QED BY <1>8, <2>1, IdleOK DEF StopFinish, TablesOK, LedgerOK, PlaceOK, TasksOK, HostsOK, ControlOK
<1> QED BY <1>0, <1>1, <1>2, <1>3, <1>4, <1>5, <1>6, <1>7, <1>8 DEF StopStep

\* Moving a termination on, and starting one.
LEMMA TmGotoOK ==
  ASSUME tm \in [Workers -> TmTasks], NEW w \in Workers, NEW label \in TmPCs,
         NEW left \in SUBSET Sandboxes, NEW b \in BOOLEAN
  PROVE  /\ [tm EXCEPT ![w].pc = label] \in [Workers -> TmTasks]
         /\ [tm EXCEPT ![w].left = left] \in [Workers -> TmTasks]
         /\ [tm EXCEPT ![w].pc = label, ![w].left = left] \in [Workers -> TmTasks]
         /\ [tm EXCEPT ![w] = [IdleTm EXCEPT !.pc = label]] \in [Workers -> TmTasks]
         /\ [tm EXCEPT ![w] = [IdleTm EXCEPT !.pc = label, !.lost = b]] \in [Workers -> TmTasks]
BY DEF TmTasks, IdleTm

\* The next worker of a pass.
LEMMA RcNextOK ==
  ASSUME rc \in RcTasks, RcNextWorker
  PROVE  rc' \in RcTasks
BY IdleOK DEF RcNextWorker, RcTasks, RcPCs

\* Type correctness of terminating and provisioning workers.
LEMMA FleetType ==
  ASSUME Inv, NEW w \in Workers,
         TmBegin(w) \/ TmStep(w) \/ ProvisionDone(w) \/ ProvisionFails(w)
  PROVE  TypeOK'
<1> USE DEF Inv, TypeOK, TablesOK, TasksOK, HostsOK, ControlOK, dbVars, ledger, placeVars, hostVars,
            TmTasks, TmPCs
<1>1. CASE TmBegin(w)
  BY <1>1, IdleOK, SpendOK DEF TmBegin, LedgerOK, PlaceOK, WorkerStates
<1>2. CASE TmForget(w)
  <2>1. LedgerOK'
    BY <1>2 , SnapshotOK DEF TmForget
  <2> QED BY ZenonT(60), <1>2, <2>1 DEF TmForget, PlaceOK
<1>3. CASE TmList(w)
  <2>1. ActiveOn(w) \in SUBSET Sandboxes
    BY DEF ActiveOn
  <2>2. tm' \in [Workers -> TmTasks]
    BY <1>3, <2>1, TmGotoOK DEF TmList
  <2> QED BY <1>3, <2>2 DEF TmList, LedgerOK, PlaceOK
<1>4. CASE TmLose(w)
  <2>1. PICK s \in tm[w].left : /\ db' = [db EXCEPT ![s] = Row("LOST", w)]
                                /\ tm' = [tm EXCEPT ![w].left = @ \ {s}]
    BY <1>4 DEF TmLose
  <2>2. tm[w].left \ {s} \in SUBSET Sandboxes
    OBVIOUS
  <2>3. tm' \in [Workers -> TmTasks]
    BY <2>1, <2>2, TmGotoOK
  <2>4. db' \in [Sandboxes -> Rows]
    BY <2>1, RowOK, StateNames
  <2> QED BY <1>4, <2>3, <2>4 DEF TmLose, LedgerOK, PlaceOK
<1>5. CASE TmTerminateVM(w)
  <2>1. tm' \in [Workers -> TmTasks]
    BY <1>5, TmGotoOK DEF TmTerminateVM
  <2>2. HostsOK'
    <3>1. [s \in Sandboxes |-> "ABSENT"] \in [Sandboxes -> Views]
      BY DEF Views
    <3> QED BY ZenonT(60), <1>5, <3>1 DEF TmTerminateVM
  <2> QED BY <1>5, <2>1, <2>2 DEF TmTerminateVM, LedgerOK, PlaceOK
<1>6. CASE TmProviderFails(w)
  BY <1>6, IdleOK, SpendOK DEF TmProviderFails, LedgerOK, PlaceOK, WorkerStates
<1>7. CASE TmGone(w)
  BY <1>7, IdleOK DEF TmGone, LedgerOK, PlaceOK, WorkerStates
<1>8. CASE ProvisionDone(w)
  <2>1. LedgerOK'
    BY <1>8 , SnapshotOK DEF ProvisionDone
  <2> QED BY <1>8, <2>1 DEF ProvisionDone, PlaceOK, WorkerStates, taskVars
<1>9. CASE ProvisionFails(w)
  BY <1>9, SpendOK DEF ProvisionFails, LedgerOK, PlaceOK, WorkerStates, taskVars
<1> QED BY <1>1, <1>2, <1>3, <1>4, <1>5, <1>6, <1>7, <1>8, <1>9 DEF TmStep

\* Type correctness of the reconcile pass.
LEMMA ReconcileType ==
  ASSUME Inv, RcBegin \/ RcStep
  PROVE  TypeOK'
<1> USE DEF Inv, TypeOK, TablesOK, TasksOK, HostsOK, ControlOK, dbVars, ledger, placeVars, hostVars
<1>1. CASE RcBegin
  BY <1>1, IdleOK, SpendOK DEF RcBegin, LedgerOK, PlaceOK, RcTasks, RcPCs, CountedWorker
<1>2. ASSUME NEW w \in Workers, RcSkip(w) PROVE TypeOK'
  <2>1. tm' \in [Workers -> TmTasks]
    <3>1. [tm EXCEPT ![w] = [IdleTm EXCEPT !.pc = "forget"]] \in [Workers -> TmTasks]
      BY TmGotoOK DEF TmPCs
    <3> QED BY <1>2, <3>1 DEF RcSkip
  <2>2. rc' \in RcTasks
    <3>1. rc' = [rc EXCEPT !.todo = rc.todo \ {w}, !.seen = [rc.seen EXCEPT ![w] = "NONE"]]
      BY <1>2 DEF RcSkip, RcTasks
    <3> QED BY <3>1 DEF RcTasks
  <2> QED BY <1>2, <2>1, <2>2 DEF RcSkip, LedgerOK, PlaceOK
<1>3. ASSUME NEW w \in Workers, RcHealth(w) PROVE TypeOK'
  BY ZenonT(60), <1>3, CallFailsOK, AdmittedNat DEF RcHealth, LedgerOK, PlaceOK, RcTasks, RcPCs
<1>4. CASE RcFailed
  <2>1. rc.w \in Workers /\ rc.seen[rc.w] \in WorkerStates \cup {"NONE"}
    BY <1>4 DEF RcFailed, RcAt, PassHasWorker, RcTasks
  <2>2. wdb' \in [Workers -> WorkerStates \cup {"NONE"}]
    BY <1>4, <2>1 DEF RcFailed, WorkerStates
  <2>3. tm' \in [Workers -> TmTasks]
    <3>1. [tm EXCEPT ![rc.w] = [IdleTm EXCEPT !.pc = "forget", !.lost = TRUE]] \in [Workers -> TmTasks]
      BY <2>1, TmGotoOK DEF TmPCs
    <3> QED BY <1>4, <3>1 DEF RcFailed
  <2> QED BY <1>4, <2>2, <2>3, RcNextOK DEF RcFailed, LedgerOK, PlaceOK
<1>5. CASE RcApply
  BY <1>5, SnapshotOK DEF RcApply, PlaceOK, RcTasks, RcPCs, WorkerStates
<1>6. CASE RcList
  <2>1. rc' \in RcTasks
    <3>1. inv[rc.w] \in [Sandboxes -> Views]
      BY <1>6 DEF RcList, RcAt, PassHasWorker
    <3>2. CASE RcNextWorker
      BY <3>2, RcNextOK
    <3>3. CASE rc' = [rc EXCEPT !.pc = "ours", !.remote = inv[rc.w]]
      BY <3>1, <3>3 DEF RcTasks, RcPCs
    <3> QED BY <1>6, <3>2, <3>3 DEF RcList
  <2> QED BY <1>6, <2>1, CallFailsOK DEF RcList, LedgerOK, PlaceOK
<1>7. CASE RcOurs
  BY <1>7 DEF RcOurs, LedgerOK, PlaceOK, RcTasks, RcPCs, ActiveOn
<1>8. CASE RcSync
  <2>1. PICK s \in rc.left : /\ \E st \in Verdicts(rc.remote[s]) : db' = [db EXCEPT ![s] = Row(st, rc.w)]
                             /\ Release(rc.w, s)
                             /\ rc' = [rc EXCEPT !.left = @ \ {s}]
    BY <1>8 DEF RcSync
  <2>2. s \in Sandboxes /\ rc.w \in Workers
    BY <1>8 DEF RcSync, RcAt, PassHasWorker, RcTasks
  <2>3. Verdicts(rc.remote[s]) \subseteq SandboxStates
    BY StateNames DEF Verdicts
  <2>4. db' \in [Sandboxes -> Rows]
    BY <2>1, <2>2, <2>3, RowOK
  <2>5. LedgerOK'
    BY <1>8, <2>1, <2>2, LedgerStepOK DEF RcSync
  <2>6. rc' \in RcTasks
    BY <2>1 DEF RcTasks
  <2> QED BY <1>8, <2>4, <2>5, <2>6 DEF RcSync, PlaceOK
<1>9. CASE RcSynced
  BY <1>9 DEF RcSynced, LedgerOK, PlaceOK, RcTasks, RcPCs
<1>10. CASE RcOrphan
  <2>1. rc' \in RcTasks
    <3>1. PICK s \in rc.left : \/ rc' = [rc EXCEPT !.pc = "delete", !.sb = s]
                               \/ rc' = [rc EXCEPT !.left = rc.left \ {s}]
      BY <1>10 DEF RcOrphan
    <3>2. s \in Sandboxes
      BY DEF RcTasks
    <3>3. [rc EXCEPT !.pc = "delete", !.sb = s] \in RcTasks
      BY <3>2 DEF RcTasks, RcPCs
    <3>4. [rc EXCEPT !.left = rc.left \ {s}] \in RcTasks
      BY DEF RcTasks
    <3> QED BY <3>1, <3>3, <3>4
  <2> QED BY <1>10, <2>1 DEF RcOrphan, LedgerOK, PlaceOK
<1>11. CASE RcDelete
  <2>1. HostsOK' /\ budget' \in Budgets
    BY <1>11, TryDeleteOK DEF RcDelete
  <2> QED BY <1>11, <2>1 DEF RcDelete, LedgerOK, PlaceOK, RcTasks, RcPCs
<1>12. CASE RcIdle
  <2>1. rc' \in RcTasks
    <3>1. [rc EXCEPT !.pc = "touch"] \in RcTasks
      BY DEF RcTasks, RcPCs
    <3> QED BY <1>12, <3>1, RcNextOK DEF RcIdle
  <2> QED BY <1>12, <2>1 DEF RcIdle, LedgerOK, PlaceOK
<1>13. CASE RcTouch
  BY <1>13, RcNextOK DEF RcTouch, LedgerOK, PlaceOK, WorkerStates
<1>14. CASE RcEnd
  BY <1>14, IdleOK DEF RcEnd, LedgerOK, PlaceOK
<1> QED
  BY <1>1, <1>2, <1>3, <1>4, <1>5, <1>6, <1>7, <1>8, <1>9, <1>10, <1>11, <1>12, <1>13, <1>14 DEF RcStep

\* Type correctness of the worker daemons and VMs.
LEMMA WorkerType ==
  ASSUME Inv, NEW w \in Workers,
         \/ WorkerServes(w) \/ WorkerDies(w)
         \/ \E s \in Sandboxes, how \in Ends : WorkerEnds(w, s, how)
  PROVE  TypeOK'
<1> USE DEF Inv, TypeOK, TablesOK, LedgerOK, PlaceOK, TasksOK, HostsOK, ControlOK,
            dbVars, ledger, placeVars, taskVars
<1>0. /\ "CREATING" \in Views /\ "RUNNING" \in Views /\ "ABSENT" \in Views /\ Ends \subseteq Views
      /\ "working" \in Calls /\ "saving" \in Calls /\ "changed" \in Calls /\ "error" \in Calls
      /\ "discarded" \in Calls /\ "done" \in Calls /\ "ended" \in Calls
  BY ConstantsAssumption DEF Views, Calls
<1>1. ASSUME NEW s \in Sandboxes, WorkerAdmit(w, s) PROVE TypeOK'
  <2>1. rpc' \in [Workers -> [Sandboxes -> Calls]]
    <3>1. PICK c \in Calls : rpc' = [rpc EXCEPT ![w][s] = c]
      BY <1>0, <1>1 DEF WorkerAdmit
    <3> QED BY <3>1, CallOK
  <2>2. inv' \in [Workers -> [Sandboxes -> Views]]
    <3>1. inv' = inv \/ \E v \in Views : inv' = [inv EXCEPT ![w][s] = v]
      BY <1>0, <1>1 DEF WorkerAdmit
    <3>2. ASSUME NEW v \in Views, inv' = [inv EXCEPT ![w][s] = v]
          PROVE  inv' \in [Workers -> [Sandboxes -> Views]]
      BY <3>2, ViewOK
    <3> QED BY <3>1, <3>2
  <2>3. budget' \in Budgets
    BY <1>1, SpendOK DEF WorkerAdmit
  <2> QED BY <1>1, <2>1, <2>2, <2>3 DEF WorkerAdmit
<1>2. ASSUME NEW s \in Sandboxes, WorkerBoot(w, s) PROVE TypeOK'
  <2>1. rpc' \in [Workers -> [Sandboxes -> Calls]]
    <3>1. PICK c \in Calls : rpc' = [rpc EXCEPT ![w][s] = c]
      BY <1>0, <1>2 DEF WorkerBoot
    <3> QED BY <3>1, CallOK
  <2>2. inv' \in [Workers -> [Sandboxes -> Views]]
    <3>1. inv' = inv \/ \E v \in Views : inv' = [inv EXCEPT ![w][s] = v]
      BY <1>0, <1>2 DEF WorkerBoot
    <3>2. ASSUME NEW v \in Views, inv' = [inv EXCEPT ![w][s] = v]
          PROVE  inv' \in [Workers -> [Sandboxes -> Views]]
      BY <3>2, ViewOK
    <3> QED BY <3>1, <3>2
  <2>3. budget' \in Budgets
    BY <1>2, SpendOK DEF WorkerBoot
  <2> QED BY <1>2, <2>1, <2>2, <2>3 DEF WorkerBoot
<1>3. ASSUME NEW s \in Sandboxes, WorkerAnswer(w, s) PROVE TypeOK'
  <2>1. rpc' \in [Workers -> [Sandboxes -> Calls]]
    BY <1>0, <1>3, CallOK DEF WorkerAnswer
  <2> QED BY <1>3, <2>1 DEF WorkerAnswer
<1>4. ASSUME NEW s \in Sandboxes, NEW how \in Ends, WorkerEnds(w, s, how) PROVE TypeOK'
  <2>1. inv' \in [Workers -> [Sandboxes -> Views]]
    BY <1>0, <1>4, ViewOK DEF WorkerEnds
  <2> QED BY <1>4, <2>1 DEF WorkerEnds
<1>5. CASE WorkerDies(w)
  <2>1. [s \in Sandboxes |-> "ABSENT"] \in [Sandboxes -> Views]
    BY <1>0
  <2> QED BY <1>5, <2>1, SpendOK DEF WorkerDies
<1> QED BY <1>1, <1>2, <1>3, <1>4, <1>5 DEF WorkerServes

\* Type correctness of stopping and restarting the control plane.
LEMMA ControlType ==
  ASSUME Inv, Crash \/ Shutdown \/ Exit \/ Restart
  PROVE  TypeOK'
<1> USE DEF Inv, TypeOK, TablesOK, HostsOK, ControlOK, dbVars, hostVars, ledger, placeVars, taskVars
<1>1. ASSUME Forgotten, budget' \in Budgets PROVE TypeOK'
  <2>1. PlaceOK'
    BY <1>1, RowOK, StateNames DEF Forgotten, PlaceOK, PlacePCs
  <2>2. LedgerOK'
    BY <1>1, ConstantsAssumption DEF Forgotten, LedgerOK
  <2>3. TasksOK'
    BY <1>1, IdleOK DEF Forgotten, TasksOK
  <2> QED BY <1>1, <2>1, <2>2, <2>3 DEF Forgotten
<1>2. CASE Crash
  BY <1>1, <1>2, SpendOK DEF Crash
<1>3. CASE Shutdown
  BY <1>3, SpendOK DEF Shutdown, LedgerOK, PlaceOK, TasksOK
<1>4. CASE Exit
  BY <1>1, <1>4 DEF Exit
<1>5. CASE Restart
  <2>1. wdb' \in [Workers -> WorkerStates \cup {"NONE"}] /\ alive' \in [Workers -> BOOLEAN]
    <3>1. PICK ups \in SUBSET Booting :
            /\ wdb' = [w \in Workers |-> IF w \notin Booting THEN wdb[w]
                                         ELSE IF w \in ups THEN "CONNECTING" ELSE "TERMINATED"]
            /\ alive' = [w \in Workers |-> w \in ups \/ (w \notin Booting /\ alive[w])]
      BY <1>5 DEF Restart
    <3>2. "CONNECTING" \in WorkerStates /\ "TERMINATED" \in WorkerStates
      BY DEF WorkerStates
    <3>3. wdb' \in [Workers -> WorkerStates \cup {"NONE"}]
      BY <3>1, <3>2
    <3>4. alive' \in [Workers -> BOOLEAN]
      BY <3>1
    <3> QED BY <3>3, <3>4
  <2>2. ASSUME NEW s \in Sandboxes, NEW reach PROVE Recovered(s, reach) \in Rows
    <3>1. /\ db[s] \in Rows /\ [db[s] EXCEPT !.state = "FAILED"] \in Rows
          /\ [db[s] EXCEPT !.state = "RUNNING"] \in Rows
      BY RowStateOK, StateNames
    <3> QED BY <3>1 DEF Recovered
  <2>3. db' \in [Sandboxes -> Rows] /\ budget' \in Budgets
    <3>1. \A reach : [s \in Sandboxes |-> Recovered(s, reach)] \in [Sandboxes -> Rows]
      BY <2>2
    <3>2. db' \in [Sandboxes -> Rows]
      <4>1. \/ db' = [s \in Sandboxes |-> Recovered(s, {w \in Workers : alive[w]})]
            \/ db' = [s \in Sandboxes |-> Recovered(s, {})]
        BY <1>5 DEF Restart
      <4> QED BY <3>1, <4>1, Zenon
    <3>3. budget' \in Budgets
      BY <1>5, SpendOK DEF Restart
    <3> QED BY <3>2, <3>3
  <2> QED BY <1>5, <2>1, <2>3 DEF Restart, LedgerOK, PlaceOK, TasksOK
<1> QED BY <1>2, <1>3, <1>4, <1>5

-----------------------------------------------------------------------------
(* The rest of the inductive invariant *)

\* Steps that touch no placement, no reservation and no pass keep it.
LEMMA OthersKeep ==
  ASSUME Inv, UNCHANGED <<pending, placeVars, rc>>
  PROVE  TalksToWorker' /\ RecordNamesHost' /\ PassHasWorker' /\ ReservationOwned'
BY DEF Inv, TalksToWorker, RecordNamesHost, PassHasWorker, ReservationOwned, placeVars

\* Giving reservations back while no placement moves keeps it too.
LEMMA ReleaseKeeps ==
  ASSUME Inv, \A w \in Workers : pending'[w] \subseteq pending[w], UNCHANGED placeVars
  PROVE  TalksToWorker' /\ RecordNamesHost' /\ ReservationOwned'
BY DEF Inv, TalksToWorker, RecordNamesHost, ReservationOwned, placeVars

\* Each placement step keeps the record, the host and the reservation together.
LEMMA PlacingKeeps ==
  ASSUME Inv, NEW s \in Sandboxes, Create(s) \/ Placing(s)
  PROVE  TalksToWorker' /\ RecordNamesHost' /\ ReservationOwned'
<1> USE DEF Inv, TypeOK, PlaceOK, LedgerOK, taskVars, ledger, Goto
<1>0. CASE Create(s)
  BY <1>0 DEF Create, TalksToWorker, RecordNamesHost, ReservationOwned
<1>1. CASE PlaceGiveUp(s)
  BY <1>1 DEF PlaceGiveUp, AtLoop, End, TalksToWorker, RecordNamesHost, ReservationOwned
<1>2. CASE PlaceReserve(s)
  <2>1. PICK w \in BestFit(s) : Reserve(w, s) /\ Decide(s, Row("CREATING", w))
    BY <1>2 DEF PlaceReserve
  <2>2. w \in Workers
    BY <2>1 DEF BestFit, Fitting, Candidates
  <2>3. /\ pc' = [pc EXCEPT ![s] = "commit"]
        /\ host' = [host EXCEPT ![s] = w]
        /\ mem' = [mem EXCEPT ![s] = [state |-> "CREATING", worker |-> w]]
        /\ pending' = [pending EXCEPT ![w] = @ \cup {s}]
    BY <2>1 DEF Reserve, Decide, Row
  <2>4. TalksToWorker' /\ RecordNamesHost'
    BY <2>2, <2>3 DEF TalksToWorker, RecordNamesHost
  <2>5. ReservationOwned'
    <3>1. pc[s] = "loop"
      BY <1>2 DEF PlaceReserve, AtLoop
    <3> QED BY <2>2, <2>3, <3>1 DEF ReservationOwned
  <2> QED BY <2>4, <2>5
<1>3. CASE PlaceScaleUp(s)
  BY <1>3, ConstantsAssumption DEF PlaceScaleUp, AtLoop, Decide, Row, TalksToWorker, RecordNamesHost, ReservationOwned
<1>4. CASE PlaceWait(s)
  BY <1>4, ConstantsAssumption DEF PlaceWait, AtLoop, Decide, Row, TalksToWorker, RecordNamesHost, ReservationOwned
<1>5. CASE PlaceCommit(s)
  BY <1>5 DEF PlaceCommit, TalksToWorker, RecordNamesHost, ReservationOwned
<1>6. CASE PlaceRecheck(s)
  BY <1>6 DEF PlaceRecheck, Release, Confirm, TalksToWorker, RecordNamesHost, ReservationOwned
<1>7. CASE PlaceRunning(s)
  BY <1>7 DEF PlaceRunning, TalksToWorker, RecordNamesHost, ReservationOwned
<1>8. CASE PlaceTouch(s)
  BY <1>8 DEF PlaceTouch, End, TalksToWorker, RecordNamesHost, ReservationOwned
<1>9. CASE PlaceDiscard(s)
  BY <1>9 DEF PlaceDiscard, End, TalksToWorker, RecordNamesHost, ReservationOwned
<1>10. CASE PlaceBadView(s)
  BY <1>10 DEF PlaceBadView, TalksToWorker, RecordNamesHost, ReservationOwned
<1>11. CASE PlaceChanged(s)
  BY <1>11 DEF PlaceChanged, Release, TalksToWorker, RecordNamesHost, ReservationOwned
<1>12. CASE PlaceRefresh(s)
  BY <1>12 DEF PlaceRefresh, Requeue, TalksToWorker, RecordNamesHost, ReservationOwned
<1>13. CASE PlaceUnavailable(s)
  BY <1>13 DEF PlaceUnavailable, Release, TalksToWorker, RecordNamesHost, ReservationOwned
<1>14. CASE PlaceReadWorker(s)
  BY <1>14 DEF PlaceReadWorker, Requeue, TalksToWorker, RecordNamesHost, ReservationOwned
<1>15. CASE PlaceMark(s)
  BY <1>15 DEF PlaceMark, Requeue, TalksToWorker, RecordNamesHost, ReservationOwned
<1>16. CASE PlaceRequeue(s)
  BY <1>16 DEF PlaceRequeue, TalksToWorker, RecordNamesHost, ReservationOwned
<1>17. CASE PlaceError(s)
  BY <1>17 DEF PlaceError, Release, TalksToWorker, RecordNamesHost, ReservationOwned
<1>18. CASE PlaceTimeout(s)
  BY <1>18 DEF PlaceTimeout, TalksToWorker, RecordNamesHost, ReservationOwned
<1>19. CASE PlaceCancel(s)
  <2>1. TalksToWorker' /\ RecordNamesHost'
    BY <1>19 DEF PlaceCancel, End, TalksToWorker, RecordNamesHost
  <2>2. ReservationOwned'
    <3>1. ASSUME NEW w \in Workers, NEW r \in pending'[w] PROVE pc'[r] \in {"commit", "calling"} /\ host'[r] = w
      <4>1. r \in pending[w] /\ r \in Sandboxes
        BY <1>19, <3>1 DEF PlaceCancel, Release
      <4>2. pc[r] \in {"commit", "calling"} /\ host[r] = w /\ mem[r].worker = w
        BY <4>1 DEF ReservationOwned, RecordNamesHost
      <4>3. r # s
        BY <1>19, <3>1, <4>1, <4>2, ConstantsAssumption DEF PlaceCancel, Release
      <4> QED BY <1>19, <4>1, <4>2, <4>3 DEF PlaceCancel, End
    <3> QED BY <3>1 DEF ReservationOwned
  <2> QED BY <2>1, <2>2
<1>20. CASE PlaceFail(s)
  BY <1>20 DEF PlaceFail, End, TalksToWorker, RecordNamesHost, ReservationOwned
<1>21. CASE PlaceFinish(s)
  BY <1>21 DEF PlaceFinish, End, TalksToWorker, RecordNamesHost, ReservationOwned
<1> QED
  BY <1>0, <1>1, <1>2, <1>3, <1>4, <1>5, <1>6, <1>7, <1>8, <1>9, <1>10, <1>11, <1>12, <1>13,
     <1>14, <1>15, <1>16, <1>17, <1>18, <1>19, <1>20, <1>21 DEF Placing

\* The reconcile pass gives reservations back and goes from worker to worker.
LEMMA ReconcileKeeps ==
  ASSUME Inv, RcBegin \/ RcStep
  PROVE  TalksToWorker' /\ RecordNamesHost' /\ PassHasWorker' /\ ReservationOwned'
<1> USE DEF Inv, TypeOK, LedgerOK, TasksOK, placeVars, ledger
<1>1. \A w \in Workers : pending'[w] \subseteq pending[w]
  <2>1. pending' = pending \/ \E s \in rc.left : Release(rc.w, s)
    BY DEF RcBegin, RcStep, RcSkip, RcHealth, RcFailed, RcApply, RcList, RcOurs, RcSync, Update,
       RcSynced, RcOrphan, RcDelete, RcIdle, RcTouch, RcEnd
  <2> QED BY <2>1 DEF Release
<1>2. UNCHANGED placeVars
  BY DEF RcBegin, RcStep, RcSkip, RcHealth, RcFailed, RcApply, RcList, RcOurs, RcSync,
     RcSynced, RcOrphan, RcDelete, RcIdle, RcTouch, RcEnd
<1>3. PassHasWorker'
  <2> USE DEF PassHasWorker, RcTasks, RcAt
  <2>1. CASE RcBegin \/ RcEnd
    <3>1. rc'.pc \in {"idle", "next"}
      <4>1. CASE RcBegin
        BY <4>1, IdleOK DEF RcBegin
      <4>2. CASE RcEnd
        BY <4>2 DEF RcEnd, IdleRc
      <4> QED BY <2>1, <4>1, <4>2
    <3> QED BY <3>1
  <2>2. ASSUME RcNextWorker PROVE PassHasWorker'
    <3>1. rc'.pc = "next"
      BY <2>2 DEF RcNextWorker, IdleRc
    <3> QED BY <3>1
  <2>3. ASSUME NEW w \in Workers, RcSkip(w) \/ RcHealth(w) PROVE PassHasWorker'
    <3>1. CASE RcSkip(w)
      <4>1. rc'.pc = "next"
        BY <3>1 DEF RcSkip
      <4> QED BY <4>1
    <3>2. CASE RcHealth(w)
      BY <3>2 DEF RcHealth
    <3> QED BY <2>3, <3>1, <3>2
  <2>4. CASE RcFailed \/ RcTouch
    BY <2>2, <2>4 DEF RcFailed, RcTouch
  <2>5. CASE RcList \/ RcIdle
    BY <2>2, <2>5 DEF RcList, RcIdle
  <2>6. CASE RcApply \/ RcOurs \/ RcSynced \/ RcDelete
    BY <2>6 DEF RcApply, RcOurs, RcSynced, RcDelete
  <2>7. CASE RcSync
    BY <2>7 DEF RcSync
  <2>8. CASE RcOrphan
    BY <2>8 DEF RcOrphan
  <2> QED BY <2>1, <2>3, <2>4, <2>5, <2>6, <2>7, <2>8 DEF RcStep
<1> QED BY <1>1, <1>2, <1>3, ReleaseKeeps

\* Kills and terminations give reservations back and leave the pass alone.
LEMMA StopAndFleetKeep ==
  ASSUME Inv,
         \/ \E k \in Stoppers : \/ StopStep(k)
                                \/ \E s \in Sandboxes, final \in {"STOPPED", "EXPIRED"} : StopBegin(k, s, final)
         \/ \E w \in Workers : TmBegin(w) \/ TmStep(w) \/ ProvisionDone(w) \/ ProvisionFails(w)
  PROVE  TalksToWorker' /\ RecordNamesHost' /\ PassHasWorker' /\ ReservationOwned'
<1> USE DEF Inv, TypeOK, LedgerOK, placeVars, ledger, taskVars
<1>1. \A w \in Workers : pending'[w] \subseteq pending[w]
  <2>1. \/ pending' = pending
        \/ \E k \in Stoppers : Release(stop[k].rec.worker, stop[k].sb)
        \/ \E w \in Workers : Forget(w)
    BY DEF StopStep, StopBegin, StopMark, StopReadWorker, StopDelete, StopUnreachable, StopRaises,
       StopCount, StopTouch, StopFinish, TmBegin, TmStep, TmForget, TmList, TmLose,
       TmTerminateVM, TmProviderFails, TmGone, ProvisionDone, ProvisionFails
  <2> QED BY <2>1 DEF Release, Forget
<1>2. UNCHANGED <<placeVars, rc>>
  BY DEF StopStep, StopBegin, StopMark, StopReadWorker, StopDelete, StopUnreachable, StopRaises,
     StopCount, StopTouch, StopFinish, TmBegin, TmStep, TmForget, TmList, TmLose,
     TmTerminateVM, TmProviderFails, TmGone, ProvisionDone, ProvisionFails
<1> QED BY <1>1, <1>2, ReleaseKeeps DEF PassHasWorker

\* When the process ends nothing is reserved and nobody talks to a worker.
LEMMA ForgottenKeeps ==
  ASSUME Inv, Forgotten
  PROVE  TalksToWorker' /\ RecordNamesHost' /\ PassHasWorker' /\ ReservationOwned'
BY DEF Forgotten, Inv, TypeOK, PlaceOK, IdleRc, TalksToWorker, RecordNamesHost, PassHasWorker, ReservationOwned

-----------------------------------------------------------------------------
(* The theorems *)

LEMMA InitInv == Init => Inv
<1> SUFFICES ASSUME Init PROVE Inv
  OBVIOUS
<1> USE DEF Init
<1>1. TablesOK
  BY RowOK, StateNames DEF TablesOK, WorkerStates
<1>2. LedgerOK /\ HostsOK
  BY ConstantsAssumption DEF LedgerOK, HostsOK, Views, Calls
<1>3. PlaceOK
  BY RowOK, StateNames DEF PlaceOK, PlacePCs
<1>4. TasksOK
  BY IdleOK DEF TasksOK
<1>5. ControlOK
  BY ConstantsAssumption DEF ControlOK, Budgets
<1>6. TalksToWorker /\ RecordNamesHost /\ PassHasWorker /\ ReservationOwned
  BY DEF TalksToWorker, RecordNamesHost, PassHasWorker, ReservationOwned, IdleRc
<1> QED BY <1>1, <1>2, <1>3, <1>4, <1>5, <1>6 DEF Inv, TypeOK

LEMMA NextInv == Inv /\ [Next]_vars => Inv'
<1> SUFFICES ASSUME Inv, [Next]_vars PROVE Inv'
  OBVIOUS
<1>1. ASSUME NEW s \in Sandboxes, Create(s) \/ Placing(s) PROVE Inv'
  <2>1. rc' = rc
    BY <1>1 DEF Create, Placing, PlaceGiveUp, PlaceReserve, PlaceScaleUp, PlaceWait, Decide,
       PlaceCommit, PlaceRecheck, PlaceRunning, PlaceTouch, PlaceDiscard, PlaceBadView, PlaceChanged,
       PlaceRefresh, PlaceUnavailable, PlaceReadWorker, PlaceMark, PlaceRequeue, PlaceError,
       PlaceTimeout, PlaceCancel, PlaceFail, PlaceFinish, taskVars
  <2> QED BY <1>1, <2>1, PlacingType, PlacingKeeps DEF Inv, PassHasWorker
<1>2. ASSUME NEW k \in Stoppers,
             \/ \E s \in Sandboxes, final \in {"STOPPED", "EXPIRED"} : StopBegin(k, s, final)
             \/ StopStep(k)
      PROVE  Inv'
  BY <1>2, StoppingType, StopAndFleetKeep DEF Inv
<1>3. ASSUME NEW w \in Workers, TmBegin(w) \/ TmStep(w) \/ ProvisionDone(w) \/ ProvisionFails(w)
      PROVE  Inv'
  BY <1>3, FleetType, StopAndFleetKeep DEF Inv
<1>4. CASE RcBegin \/ RcStep
  BY <1>4, ReconcileType, ReconcileKeeps DEF Inv
<1>5. ASSUME NEW w \in Workers,
             \/ WorkerServes(w) \/ WorkerDies(w)
             \/ \E s \in Sandboxes, how \in Ends : WorkerEnds(w, s, how)
      PROVE  Inv'
  <2>1. UNCHANGED <<pending, placeVars, rc>>
    BY <1>5 DEF WorkerServes, WorkerAdmit, WorkerBoot, WorkerAnswer, WorkerDies, WorkerEnds, ledger, taskVars
  <2> QED BY <1>5, <2>1, WorkerType, OthersKeep DEF Inv
<1>6. CASE Crash \/ Exit
  BY <1>6, ControlType, ForgottenKeeps DEF Inv, Crash, Exit
<1>7. CASE Shutdown \/ Restart
  <2>1. UNCHANGED <<pending, placeVars, rc>>
    BY <1>7 DEF Shutdown, Restart, ledger, taskVars
  <2> QED BY <1>7, <2>1, ControlType, OthersKeep DEF Inv
<1>8. CASE UNCHANGED vars
  BY <1>8 DEF vars, Inv, TypeOK, TablesOK, LedgerOK, PlaceOK, TasksOK, HostsOK, ControlOK,
     TalksToWorker, RecordNamesHost, PassHasWorker, ReservationOwned
<1> QED BY <1>1, <1>2, <1>3, <1>4, <1>5, <1>6, <1>7, <1>8 DEF Next

\* Every table, ledger, task and daemon stays well formed in every behaviour of
\* the control plane and its workers (schemas/common.py, control/service.py).
THEOREM TypeCorrect == Spec => []TypeOK
<1>1. Inv => TypeOK
  BY DEF Inv
<1> QED BY <1>1, InitInv, NextInv, PTL DEF Spec

\* No ledger reservation outlives its create, on whatever path _place_and_start
\* leaves: for any number of sandboxes, workers, kills, faults and restarts.
THEOREM ReservationsOwned == Spec => []ReservationOwned
<1>1. Inv => ReservationOwned
  BY DEF Inv
<1> QED BY <1>1, InitInv, NextInv, PTL DEF Spec

-----------------------------------------------------------------------------
(* The ledger *)

Booked(w) == pending[w] \cup acked[w]

\* A step that only takes entries out of the ledger cannot overbook it.
LEMMA ShrinkKeeps ==
  ASSUME TypeOK, LedgerNeverOverbooks,
         \A w \in Workers : pending'[w] \cup acked'[w] \subseteq Booked(w)
  PROVE  LedgerNeverOverbooks'
<1> SUFFICES ASSUME NEW w \in Workers
             PROVE  Cardinality(pending'[w] \cup acked'[w]) <= Slots
  BY DEF LedgerNeverOverbooks
<1>1. IsFiniteSet(Booked(w))
  BY ConstantsAssumption, FS_Subset DEF TypeOK, LedgerOK, Booked
<1>2. /\ Cardinality(pending'[w] \cup acked'[w]) <= Cardinality(Booked(w))
      /\ Cardinality(pending'[w] \cup acked'[w]) \in Nat /\ Cardinality(Booked(w)) \in Nat
  BY <1>1, FS_Subset, FS_CardinalityType
<1>3. Cardinality(Booked(w)) <= Slots
  BY DEF LedgerNeverOverbooks, Booked
<1> QED BY <1>2, <1>3, ConstantsAssumption

\* A reservation is made only where a slot is free.
LEMMA ReserveKeeps ==
  ASSUME TypeOK, LedgerNeverOverbooks, NEW s \in Sandboxes, PlaceReserve(s)
  PROVE  LedgerNeverOverbooks'
<1>1. PICK w \in BestFit(s) : Reserve(w, s)
  BY DEF PlaceReserve
<1>2. w \in Workers /\ Used(w) < Slots
  BY <1>1 DEF BestFit, Fitting, Candidates
<1>3. IsFiniteSet(pending[w]) /\ IsFiniteSet(acked[w])
  BY <1>2, ConstantsAssumption, FS_Subset DEF TypeOK, LedgerOK
<1>4. Cardinality(pending[w]) \in Nat /\ Cardinality(acked[w]) \in Nat
  BY <1>3, FS_CardinalityType
<1>5. IsFiniteSet(pending[w] \cup {s}) /\ Cardinality(pending[w] \cup {s}) <= Cardinality(pending[w]) + 1
  BY SMTT(40), <1>3, <1>4, FS_AddElement
<1>6. Cardinality((pending[w] \cup {s}) \cup acked[w])
        <= Cardinality(pending[w] \cup {s}) + Cardinality(acked[w])
  <2>1. Cardinality((pending[w] \cup {s}) \cup acked[w])
          = Cardinality(pending[w] \cup {s}) + Cardinality(acked[w])
            - Cardinality((pending[w] \cup {s}) \cap acked[w])
    BY <1>3, <1>5, FS_Union
  <2>2. Cardinality((pending[w] \cup {s}) \cap acked[w]) \in Nat
    BY <1>3, FS_Subset, FS_CardinalityType
  <2>3. Cardinality(pending[w] \cup {s}) \in Nat
    BY <1>5, FS_CardinalityType
  <2> QED BY <1>4, <2>1, <2>2, <2>3
<1>7. Cardinality((pending[w] \cup {s}) \cup acked[w]) \in Nat /\ Cardinality(pending[w] \cup {s}) \in Nat
  BY <1>3, <1>5, FS_Union, FS_CardinalityType
<1>8. Cardinality((pending[w] \cup {s}) \cup acked[w]) <= Slots
  BY <1>2, <1>4, <1>5, <1>6, <1>7, ConstantsAssumption DEF Used, TypeOK, LedgerOK
<1>9. pending' = [pending EXCEPT ![w] = @ \cup {s}] /\ acked' = acked
  BY <1>1 DEF Reserve, PlaceReserve
<1> QED BY <1>2, <1>8, <1>9 DEF LedgerNeverOverbooks, TypeOK, LedgerOK

\* The other operations of the ledger only take entries out.
LEMMA LedgerShrinks ==
  ASSUME TypeOK, NEW w, NEW s, NEW used,
         \/ Release(w, s) \/ Confirm(w, s) \/ Forget(w)
         \/ Update(w, used) /\ UNCHANGED pending
         \/ UNCHANGED <<pending, acked>>
  PROVE  \A v \in Workers : pending'[v] \cup acked'[v] \subseteq Booked(v)
BY DEF TypeOK, LedgerOK, Booked, Release, Confirm, Forget, Update

\* What each step may do to the ledger.
LEMMA NextLedger ==
  ASSUME Inv, Next
  PROVE  \/ \E s \in Sandboxes : PlaceReserve(s)
         \/ \A v \in Workers : pending'[v] \cup acked'[v] \subseteq Booked(v)
<1> DEFINE Shrinks == \A v \in Workers : pending'[v] \cup acked'[v] \subseteq Booked(v)
<1>t. TypeOK
  BY DEF Inv
<1>u. ASSUME UNCHANGED <<pending, acked>> PROVE Shrinks
  BY <1>t, <1>u DEF Booked
<1>r. ASSUME NEW w, NEW s, Release(w, s) \/ Confirm(w, s) \/ Forget(w) PROVE Shrinks
  BY <1>t, <1>r, LedgerShrinks
<1>p. ASSUME NEW w, NEW used, Update(w, used), UNCHANGED pending PROVE Shrinks
  BY <1>t, <1>p, LedgerShrinks
<1> HIDE DEF Shrinks
<1>1. ASSUME NEW s \in Sandboxes, Create(s) \/ Placing(s), ~PlaceReserve(s) PROVE Shrinks
  <2>1. CASE \/ Create(s) \/ PlaceGiveUp(s) \/ PlaceScaleUp(s) \/ PlaceWait(s) \/ PlaceCommit(s)
             \/ PlaceRunning(s) \/ PlaceTouch(s) \/ PlaceDiscard(s) \/ PlaceBadView(s)
             \/ PlaceReadWorker(s) \/ PlaceMark(s) \/ PlaceRequeue(s) \/ PlaceTimeout(s)
             \/ PlaceFail(s) \/ PlaceFinish(s)
    BY <1>u, <2>1 DEF Create, PlaceGiveUp, PlaceScaleUp, PlaceWait, PlaceCommit, PlaceRunning, PlaceTouch,
       PlaceDiscard, PlaceBadView, PlaceReadWorker, PlaceMark, PlaceRequeue, PlaceTimeout, PlaceFail,
       PlaceFinish, ledger
  <2>2. CASE PlaceRecheck(s) \/ PlaceChanged(s) \/ PlaceUnavailable(s) \/ PlaceError(s)
    BY <1>r, <2>2 DEF PlaceRecheck, PlaceChanged, PlaceUnavailable, PlaceError
  <2>3. CASE PlaceCancel(s)
    BY <1>r, <1>u, <2>3 DEF PlaceCancel
  <2>4. CASE PlaceRefresh(s)
    BY <1>p, <1>u, <2>4 DEF PlaceRefresh
  <2> QED BY <1>1, <2>1, <2>2, <2>3, <2>4 DEF Placing
<1>2. ASSUME NEW k \in Stoppers,
             \/ \E s \in Sandboxes, final \in {"STOPPED", "EXPIRED"} : StopBegin(k, s, final)
             \/ StopStep(k)
      PROVE  Shrinks
  <2>1. CASE StopDelete(k) \/ StopUnreachable(k)
    BY <1>r, <2>1 DEF StopDelete, StopUnreachable
  <2>2. CASE ~(StopDelete(k) \/ StopUnreachable(k))
    BY <1>2, <1>u, <2>2 DEF StopStep, StopBegin, StopMark, StopReadWorker, StopRaises, StopCount,
       StopTouch, StopFinish, ledger
  <2> QED BY <2>1, <2>2
<1>3. ASSUME NEW w \in Workers, TmBegin(w) \/ TmStep(w) \/ ProvisionDone(w) \/ ProvisionFails(w)
      PROVE  Shrinks
  <2>1. CASE TmForget(w)
    BY <1>r, <2>1 DEF TmForget
  <2>2. CASE ProvisionDone(w)
    BY <1>p, <2>2 DEF ProvisionDone
  <2>3. CASE ~(TmForget(w) \/ ProvisionDone(w))
    BY <1>3, <1>u, <2>3 DEF TmBegin, TmStep, TmList, TmLose, TmTerminateVM, TmProviderFails, TmGone,
       ProvisionFails, ledger
  <2> QED BY <2>1, <2>2, <2>3
<1>4. ASSUME RcBegin \/ RcStep PROVE Shrinks
  <2>1. CASE RcSync
    <3>1. PICK s \in rc.left : Release(rc.w, s)
      BY <2>1 DEF RcSync
    <3> QED BY <3>1, <1>r
  <2>2. CASE RcApply
    <3>1. Update(rc.w, rc.used) /\ UNCHANGED pending
      BY <2>2 DEF RcApply
    <3> QED BY <3>1, <1>p
  <2>3. CASE ~(RcSync \/ RcApply)
    <3>1. UNCHANGED <<pending, acked>>
      BY <1>4, <2>3 DEF RcBegin, RcStep, RcSkip, RcHealth, RcFailed, RcList, RcOurs, RcSynced,
         RcOrphan, RcDelete, RcIdle, RcTouch, RcEnd, ledger
    <3> QED BY <3>1, <1>u
  <2> QED BY <2>1, <2>2, <2>3
<1>5. ASSUME NEW w \in Workers,
             \/ WorkerServes(w) \/ WorkerDies(w)
             \/ \E s \in Sandboxes, how \in Ends : WorkerEnds(w, s, how)
      PROVE  Shrinks
  BY <1>5, <1>u DEF WorkerServes, WorkerAdmit, WorkerBoot, WorkerAnswer, WorkerDies, WorkerEnds, ledger
<1>6. ASSUME Crash \/ Exit PROVE Shrinks
  <2>1. /\ pending' = [w \in Workers |-> {}]
        /\ acked' = [w \in Workers |-> {}]
    BY <1>6 DEF Crash, Exit, Forgotten
  <2> QED BY <2>1 DEF Shrinks
<1>7. ASSUME Shutdown \/ Restart PROVE Shrinks
  BY <1>7, <1>u DEF Shutdown, Restart, ledger
<1> QED BY <1>1, <1>2, <1>3, <1>4, <1>5, <1>6, <1>7 DEF Next, Shrinks

\* The control plane never hands out more slots of a worker than the worker has,
\* counting what it promised since the last snapshot (scheduler/capacity.py:
\* "two concurrent creations never both count the same free capacity").
THEOREM NeverOverbooks == Spec => []LedgerNeverOverbooks
<1>1. Init => LedgerNeverOverbooks
  <2> SUFFICES ASSUME Init, NEW w \in Workers PROVE Cardinality(pending[w] \cup acked[w]) <= Slots
    BY DEF LedgerNeverOverbooks
  <2>1. pending[w] \cup acked[w] = {}
    BY DEF Init
  <2> QED BY <2>1, FS_EmptySet, ConstantsAssumption
<1>2. Inv /\ LedgerNeverOverbooks /\ [Next]_vars => LedgerNeverOverbooks'
  <2> SUFFICES ASSUME Inv, LedgerNeverOverbooks, [Next]_vars PROVE LedgerNeverOverbooks'
    OBVIOUS
  <2>1. CASE Next
    BY <2>1, NextLedger, ReserveKeeps, ShrinkKeeps DEF Inv
  <2>2. CASE UNCHANGED vars
    BY <2>2 DEF vars, LedgerNeverOverbooks
  <2> QED BY <2>1, <2>2
<1> QED BY <1>1, <1>2, InitInv, NextInv, PTL DEF Spec

-----------------------------------------------------------------------------
(* Creates and their tasks *)

\* Past the decision only kills, terminations and the reconciler write the row,
\* and none of them writes a state in which a create is under way.
PlacedRow ==
  \A s \in Sandboxes :
    /\ pc[s] = "calling" => db[s].state \notin Unplaced \ {"CREATING"}
    /\ pc[s] \in {"touch", "discard"} => db[s].state \notin Unplaced
    /\ pc[s] = "running" => mem[s].state = "RUNNING"
    /\ pc[s] \in {"finish", "failed", "cancelsave"} => mem[s].state \notin Unplaced

\* What a stop call writes is STOPPING or the end.
StopWrites ==
  \A k \in Stoppers : stop[k].pc \in {"mark", "finish"} => stop[k].rec.state \notin Unplaced

Driven == UnplacedIsDriven /\ PlacedRow /\ StopWrites

\* Rows that change outside their own placement leave the unplaced states alone.
LEMMA OutsideKeeps ==
  ASSUME Driven, UNCHANGED <<pc, mem, cp>>,
         \A s \in Sandboxes : db'[s] = db[s] \/ db'[s].state \notin Unplaced
  PROVE  UnplacedIsDriven' /\ PlacedRow'
BY DEF Driven, UnplacedIsDriven, PlacedRow

\* The states other tasks write are not unplaced.
LEMMA EndsNotUnplaced ==
  /\ "STOPPING" \notin Unplaced /\ "STOPPED" \notin Unplaced /\ "EXPIRED" \notin Unplaced
  /\ "LOST" \notin Unplaced /\ "FAILED" \notin Unplaced /\ "RUNNING" \notin Unplaced
  /\ TerminalSandbox \cap Unplaced = {}
BY DEF Unplaced, TerminalSandbox

\* A placement step either stays in the loop, ends with a final row, or moves on.
LEMMA PlacingDriven ==
  ASSUME Inv, Driven, NEW s \in Sandboxes, Create(s) \/ Placing(s)
  PROVE  UnplacedIsDriven' /\ PlacedRow'
<1> USE EndsNotUnplaced DEF Inv, TypeOK, TablesOK, PlaceOK, Driven, UnplacedIsDriven, PlacedRow, dbVars, Goto, Rows
<1>0. CASE Create(s)
  BY <1>0 DEF Create
<1>1. CASE PlaceGiveUp(s)
  BY <1>1 DEF PlaceGiveUp, End, Terminal
<1>2. CASE PlaceReserve(s) \/ PlaceScaleUp(s) \/ PlaceWait(s)
  <2>1. pc' = [pc EXCEPT ![s] = "commit"] /\ db' = db /\ cp' = cp
    BY <1>2 DEF PlaceReserve, PlaceScaleUp, PlaceWait, Decide
  <2>2. \E row : mem' = [mem EXCEPT ![s] = row]
    BY <1>2 DEF PlaceReserve, PlaceScaleUp, PlaceWait, Decide
  <2> QED BY <2>1, <2>2
<1>3. CASE PlaceCommit(s)
  BY <1>3 DEF PlaceCommit
<1>4. CASE PlaceRecheck(s)
  BY <1>4 DEF PlaceRecheck, Unplaced
<1>5. CASE PlaceRunning(s)
  BY <1>5 DEF PlaceRunning
<1>6. CASE PlaceTouch(s)
  BY <1>6 DEF PlaceTouch, End
<1>7. CASE PlaceDiscard(s)
  BY <1>7 DEF PlaceDiscard, End
<1>8. CASE PlaceBadView(s) \/ PlaceError(s)
  BY <1>8 DEF PlaceBadView, PlaceError
<1>9. CASE PlaceChanged(s) \/ PlaceUnavailable(s) \/ PlaceTimeout(s)
  BY <1>9 DEF PlaceChanged, PlaceUnavailable, PlaceTimeout
<1>10. CASE PlaceRefresh(s) \/ PlaceReadWorker(s) \/ PlaceMark(s)
  BY <1>10 DEF PlaceRefresh, PlaceReadWorker, PlaceMark, Requeue
<1>11. CASE PlaceRequeue(s)
  BY <1>11 DEF PlaceRequeue
<1>12. CASE PlaceCancel(s)
  BY <1>12 DEF PlaceCancel, End
<1>13. CASE PlaceFail(s)
  BY <1>13 DEF PlaceFail, End, Terminal
<1>14. CASE PlaceFinish(s)
  BY <1>14 DEF PlaceFinish, End
<1> QED BY <1>0, <1>1, <1>2, <1>3, <1>4, <1>5, <1>6, <1>7, <1>8, <1>9, <1>10, <1>11, <1>12, <1>13, <1>14
        DEF Placing

\* A stop call writes nothing but STOPPING and the end.
LEMMA StopDriven ==
  ASSUME Inv, Driven, NEW k \in Stoppers,
         \/ \E s \in Sandboxes, final \in {"STOPPED", "EXPIRED"} : StopBegin(k, s, final)
         \/ StopStep(k)
  PROVE  Driven'
<1> USE EndsNotUnplaced DEF Inv, TypeOK, TablesOK, TasksOK, placeVars, dbVars
<1>1. UNCHANGED <<pc, mem, cp>>
  BY DEF StopStep, StopBegin, StopMark, StopReadWorker, StopDelete, StopUnreachable, StopRaises,
     StopCount, StopTouch, StopFinish
<1>2. \A s \in Sandboxes : db'[s] = db[s] \/ db'[s].state \notin Unplaced
  <2>1. CASE StopMark(k) \/ StopFinish(k)
    <3>1. db' = [db EXCEPT ![stop[k].sb] = stop[k].rec] /\ stop[k].rec.state \notin Unplaced
      BY <2>1 DEF StopMark, StopFinish, Stopping, Driven, StopWrites
    <3> QED BY <3>1
  <2>2. CASE ~(StopMark(k) \/ StopFinish(k))
    BY <2>2 DEF StopStep, StopBegin, StopReadWorker, StopDelete, StopUnreachable, StopRaises, StopCount, StopTouch
  <2> QED BY <2>1, <2>2
<1>3. StopWrites'
  <2>1. \A j \in Stoppers : j # k => stop'[j] = stop[j]
    BY DEF StopStep, StopBegin, StopMark, StopReadWorker, StopDelete, StopUnreachable, StopRaises,
       StopCount, StopTouch, StopFinish, StopEnds
  <2>2. stop'[k].pc \in {"mark", "finish"} => stop'[k].rec.state \notin Unplaced
    <3>1. CASE \E s \in Sandboxes, final \in {"STOPPED", "EXPIRED"} : StopBegin(k, s, final)
      <4>1. PICK s \in Sandboxes, final \in {"STOPPED", "EXPIRED"} : StopBegin(k, s, final)
        BY <3>1
      <4> QED BY <4>1 DEF StopBegin, Rows
    <3>2. ASSUME NEW st, st \notin Unplaced, StopEnds(k, st)
          PROVE  stop'[k].rec.state \notin Unplaced
      BY <3>2 DEF StopEnds, StopTasks, Rows
    <3>3. stop[k].final \notin Unplaced
      BY DEF StopTasks
    <3>4. CASE StopMark(k) \/ StopDelete(k)
      BY <3>4 DEF StopMark, StopDelete, StopTasks
    <3>5. CASE StopUnreachable(k) \/ StopTouch(k)
      BY <3>2, <3>3, <3>5 DEF StopUnreachable, StopTouch
    <3>6. CASE StopReadWorker(k) \/ StopCount(k)
      BY <3>2, <3>3, <3>6 DEF StopReadWorker, StopCount, StopTasks
    <3>7. CASE StopRaises(k) \/ StopFinish(k)
      BY <3>7 DEF StopRaises, StopFinish, IdleStop
    <3> QED BY <3>1, <3>4, <3>5, <3>6, <3>7 DEF StopStep
  <2> QED BY <2>1, <2>2 DEF Driven, StopWrites
<1> QED BY <1>1, <1>2, <1>3, OutsideKeeps DEF Driven

\* Terminations write LOST, the reconciler a verdict; both leave the rest alone.
FleetStep ==
  \/ \E w \in Workers : TmBegin(w) \/ TmStep(w) \/ ProvisionDone(w) \/ ProvisionFails(w)
  \/ RcBegin \/ RcStep
  \/ \E w \in Workers : \/ WorkerServes(w) \/ WorkerDies(w)
                        \/ \E s \in Sandboxes, how \in Ends : WorkerEnds(w, s, how)

\* What a step of the fleet, the reconciler or a worker may write of a row.
LEMMA FleetWrites ==
  ASSUME Inv, FleetStep
  PROVE  /\ UNCHANGED <<pc, mem, cp, stop>>
         /\ \/ db' = db
            \/ \E s \in Sandboxes, st \in {"LOST", "STOPPED", "FAILED", "EXPIRED"}, w \in Workers \cup {NoWorker} :
                 db' = [db EXCEPT ![s] = Row(st, w)]
<1> USE DEF Inv, TypeOK, TablesOK, placeVars, dbVars, taskVars
<1>1. UNCHANGED <<pc, mem, cp, stop>>
  BY ZenonT(60) DEF FleetStep, TmBegin, TmStep, TmForget, TmList, TmLose, TmTerminateVM, TmProviderFails, TmGone,
     ProvisionDone, ProvisionFails, RcBegin, RcStep, RcSkip, RcHealth, RcFailed, RcApply, RcList,
     RcOurs, RcSync, RcSynced, RcOrphan, RcDelete, RcIdle, RcTouch, RcEnd,
     WorkerServes, WorkerAdmit, WorkerBoot, WorkerAnswer, WorkerDies, WorkerEnds
<1>2. \/ db' = db
      \/ \E s \in Sandboxes, st \in {"LOST", "STOPPED", "FAILED", "EXPIRED"}, w \in Workers \cup {NoWorker} :
           db' = [db EXCEPT ![s] = Row(st, w)]
  <2>1. CASE \E w \in Workers : TmLose(w)
    BY <2>1 DEF TmLose, TasksOK, TmTasks
  <2>2. CASE RcSync
    <3>1. rc.w \in Workers \cup {NoWorker} /\ rc.left \subseteq Sandboxes
      BY DEF TasksOK, RcTasks
    <3>2. PICK s \in rc.left : \E st \in Verdicts(rc.remote[s]) : db' = [db EXCEPT ![s] = Row(st, rc.w)]
      BY <2>2 DEF RcSync
    <3>3. Verdicts(rc.remote[s]) \subseteq {"LOST", "STOPPED", "FAILED", "EXPIRED"}
      BY DEF Verdicts
    <3> QED BY <3>1, <3>2, <3>3
  <2>3. CASE ~((\E w \in Workers : TmLose(w)) \/ RcSync)
    BY ZenonT(60), <2>3 DEF FleetStep, TmBegin, TmStep, TmForget, TmList, TmTerminateVM, TmProviderFails, TmGone,
       ProvisionDone, ProvisionFails, RcBegin, RcStep, RcSkip, RcHealth, RcFailed, RcApply, RcList,
       RcOurs, RcSynced, RcOrphan, RcDelete, RcIdle, RcTouch, RcEnd,
       WorkerServes, WorkerAdmit, WorkerBoot, WorkerAnswer, WorkerDies, WorkerEnds
  <2> QED BY <2>1, <2>2, <2>3
<1> QED BY <1>1, <1>2

\* None of it puts a row back among the creates under way.
LEMMA FleetDriven ==
  ASSUME Inv, Driven, FleetStep
  PROVE  Driven'
<1>1. \A s \in Sandboxes : db'[s] = db[s] \/ db'[s].state \notin Unplaced
  BY FleetWrites, EndsNotUnplaced DEF Row, Inv, TypeOK, TablesOK
<1> QED BY <1>1, FleetWrites, OutsideKeeps DEF Driven, StopWrites

\* A restart settles every row whose task is gone.
LEMMA ControlDriven ==
  ASSUME Inv, Driven, Crash \/ Shutdown \/ Exit \/ Restart
  PROVE  Driven'
<1> USE EndsNotUnplaced DEF placeVars, dbVars, taskVars
<1>1. CASE Crash \/ Exit
  BY <1>1 DEF Crash, Exit, Forgotten, Driven, UnplacedIsDriven, PlacedRow, StopWrites, IdleStop
<1>2. CASE Shutdown
  BY <1>2 DEF Shutdown, Driven, UnplacedIsDriven, PlacedRow, StopWrites
<1>3. CASE Restart
  <2>1. \A s \in Sandboxes : db'[s].state \notin Unplaced
    <3>1. ASSUME NEW s \in Sandboxes, NEW reach PROVE Recovered(s, reach).state \notin Unplaced
      BY DEF Recovered, Interrupted, Unplaced, Inv, TypeOK, TablesOK, Rows
    <3>2. \E reach : db' = [s \in Sandboxes |-> Recovered(s, reach)]
      BY <1>3 DEF Restart
    <3> QED BY <3>1, <3>2
  <2>2. UNCHANGED <<pc, mem, stop>>
    BY <1>3 DEF Restart
  <2> QED BY <2>1, <2>2 DEF Driven, UnplacedIsDriven, PlacedRow, StopWrites
<1> QED BY <1>1, <1>2, <1>3

\* It holds at the start and is kept by every step.
LEMMA DrivenStart == Init => Driven
BY DEF Init, Driven, UnplacedIsDriven, PlacedRow, StopWrites, NoRow, IdleStop, Unplaced

LEMMA DrivenStep == Inv /\ Driven /\ [Next]_vars => Driven'
<1> SUFFICES ASSUME Inv, Driven, [Next]_vars PROVE Driven'
  OBVIOUS
<1>1. ASSUME NEW s \in Sandboxes, Create(s) \/ Placing(s) PROVE Driven'
  <2>1. stop' = stop
    BY <1>1 DEF Create, Placing, PlaceGiveUp, PlaceReserve, PlaceScaleUp, PlaceWait, Decide,
       PlaceCommit, PlaceRecheck, PlaceRunning, PlaceTouch, PlaceDiscard, PlaceBadView, PlaceChanged,
       PlaceRefresh, PlaceUnavailable, PlaceReadWorker, PlaceMark, PlaceRequeue, PlaceError,
       PlaceTimeout, PlaceCancel, PlaceFail, PlaceFinish, taskVars
  <2> QED BY <1>1, <2>1, PlacingDriven DEF Driven, StopWrites
<1>2. CASE UNCHANGED vars
  BY <1>2 DEF vars, Driven, UnplacedIsDriven, PlacedRow, StopWrites
<1> QED BY <1>1, <1>2, StopDriven, FleetDriven, ControlDriven DEF Next, FleetStep

\* A row that says a create is under way always has a task driving it, so no
\* kill, lost worker, shutdown or restart strands a create (_place_and_start,
\* _fail_unless_terminal, _recover_after_restart).
THEOREM CreatesAreDriven == Spec => []UnplacedIsDriven
<1>1. Driven => UnplacedIsDriven
  BY DEF Driven
<1> QED BY <1>1, DrivenStart, DrivenStep, InitInv, NextInv, PTL DEF Spec

-----------------------------------------------------------------------------
(* Rows that name a worker *)

\* A record that is looking for a worker names none.
Unassigned(r) == r.state \in Interrupted => r.worker = NoWorker

\* ... in the table, in the placements' copies and in the stop calls' copies.
Assigned ==
  /\ \A s \in Sandboxes : Unassigned(db[s]) /\ Unassigned(mem[s])
  /\ \A k \in Stoppers : Unassigned(stop[k].rec)

\* Everything but the states before CREATING may stand beside a worker.
LEMMA UnassignedRows ==
  /\ \A w, st : st \notin Interrupted => Unassigned(Row(st, w))
  /\ \A r \in Rows : \A st : st \notin Interrupted => Unassigned([r EXCEPT !.state = st])
  /\ \A st : Unassigned(Row(st, NoWorker))
  /\ Unassigned(NoRow)
  /\ {"CREATING", "RUNNING", "STOPPING", "STOPPED", "FAILED", "LOST", "EXPIRED"} \cap Interrupted = {}
BY DEF Unassigned, Row, Rows, NoRow, Interrupted, Unplaced

\* Placement writes a worker only together with CREATING or a later state.
LEMMA PlacingAssigned ==
  ASSUME Inv, Assigned, NEW s \in Sandboxes, Create(s) \/ Placing(s)
  PROVE  Assigned'
<1> USE UnassignedRows DEF Inv, TypeOK, TablesOK, PlaceOK
<1>s. stop' = stop
  BY DEF Create, Placing, PlaceGiveUp, PlaceReserve, PlaceScaleUp, PlaceWait, Decide,
     PlaceCommit, PlaceRecheck, PlaceRunning, PlaceTouch, PlaceDiscard, PlaceBadView, PlaceChanged,
     PlaceRefresh, PlaceUnavailable, PlaceReadWorker, PlaceMark, PlaceRequeue, PlaceError,
     PlaceTimeout, PlaceCancel, PlaceFail, PlaceFinish, taskVars
<1>d. \/ db' = db
      \/ db' = [db EXCEPT ![s] = mem[s]]
      \/ db' = [db EXCEPT ![s] = Row("PENDING", NoWorker)]
  BY DEF Create, Placing, PlaceGiveUp, PlaceReserve, PlaceScaleUp, PlaceWait, Decide,
     PlaceCommit, PlaceRecheck, PlaceRunning, PlaceTouch, PlaceDiscard, PlaceBadView, PlaceChanged,
     PlaceRefresh, PlaceUnavailable, PlaceReadWorker, PlaceMark, PlaceRequeue, PlaceError,
     PlaceTimeout, PlaceCancel, PlaceFail, PlaceFinish, dbVars
<1>m. mem' = mem \/ \E r : Unassigned(r) /\ mem' = [mem EXCEPT ![s] = r]
  <2>1. CASE Create(s)
    BY <2>1 DEF Create
  <2>2. CASE PlaceReserve(s) \/ PlaceScaleUp(s) \/ PlaceWait(s)
    BY <2>2 DEF PlaceReserve, PlaceScaleUp, PlaceWait, Decide
  <2>3. CASE PlaceRecheck(s)
    <3>1. mem' = mem \/ mem' = [mem EXCEPT ![s] = db[s]]
             \/ mem' = [mem EXCEPT ![s] = [mem[s] EXCEPT !.state = "RUNNING"]]
      BY <2>3 DEF PlaceRecheck
    <3> QED BY <3>1 DEF Assigned
  <2>4. CASE PlaceDiscard(s) \/ PlaceBadView(s) \/ PlaceError(s)
    <3>1. \/ mem' = [mem EXCEPT ![s] = NoRow]
          \/ mem' = [mem EXCEPT ![s] = [mem[s] EXCEPT !.state = "STOPPED"]]
          \/ mem' = [mem EXCEPT ![s] = [mem[s] EXCEPT !.state = "FAILED"]]
      BY <2>4 DEF PlaceDiscard, PlaceBadView, PlaceError, End
    <3> QED BY <3>1
  <2>5. CASE PlaceRefresh(s) \/ PlaceReadWorker(s) \/ PlaceMark(s)
    BY <2>5 DEF PlaceRefresh, PlaceReadWorker, PlaceMark, Requeue
  <2>6. CASE PlaceFail(s)
    <3>1. mem' = [mem EXCEPT ![s] = NoRow] \/ mem' = [mem EXCEPT ![s] = [db[s] EXCEPT !.state = "FAILED"]]
      BY <2>6 DEF PlaceFail, End
    <3> QED BY <3>1
  <2>7. CASE PlaceGiveUp(s) \/ PlaceTouch(s) \/ PlaceCancel(s) \/ PlaceFinish(s)
    BY <2>7 DEF PlaceGiveUp, PlaceTouch, PlaceCancel, PlaceFinish, End
  <2>8. CASE \/ PlaceCommit(s) \/ PlaceRunning(s) \/ PlaceChanged(s) \/ PlaceUnavailable(s)
             \/ PlaceRequeue(s) \/ PlaceTimeout(s)
    BY <2>8 DEF PlaceCommit, PlaceRunning, PlaceChanged, PlaceUnavailable, PlaceRequeue, PlaceTimeout
  <2> QED BY <2>1, <2>2, <2>3, <2>4, <2>5, <2>6, <2>7, <2>8 DEF Placing
<1>1. \A t \in Sandboxes : Unassigned(db'[t])
  BY <1>d DEF Assigned
<1>2. \A t \in Sandboxes : Unassigned(mem'[t])
  BY <1>m DEF Assigned
<1> QED BY <1>1, <1>2, <1>s DEF Assigned, Unassigned

\* A stop call writes no state in which a create is under way.
LEMMA StopAssigned ==
  ASSUME Inv, Assigned, NEW k \in Stoppers,
         \/ \E s \in Sandboxes, final \in {"STOPPED", "EXPIRED"} : StopBegin(k, s, final)
         \/ StopStep(k)
  PROVE  Assigned'
<1> USE UnassignedRows DEF Inv, TypeOK, TablesOK, TasksOK
<1>1. mem' = mem
  BY DEF StopStep, StopBegin, StopMark, StopReadWorker, StopDelete, StopUnreachable, StopRaises,
     StopCount, StopTouch, StopFinish, placeVars
<1>2. db' = db \/ db' = [db EXCEPT ![stop[k].sb] = stop[k].rec]
  BY DEF StopStep, StopBegin, StopMark, StopReadWorker, StopDelete, StopUnreachable, StopRaises,
     StopCount, StopTouch, StopFinish, dbVars
<1>3. \A j \in Stoppers : j # k => stop'[j] = stop[j]
  BY DEF StopStep, StopBegin, StopMark, StopReadWorker, StopDelete, StopUnreachable, StopRaises,
     StopCount, StopTouch, StopFinish, StopEnds
<1>4. Unassigned(stop'[k].rec)
  <2>0. stop[k] \in StopTasks
    OBVIOUS
  <2>1. CASE \E s \in Sandboxes, final \in {"STOPPED", "EXPIRED"} : StopBegin(k, s, final)
    <3>1. PICK s \in Sandboxes, final \in {"STOPPED", "EXPIRED"} : StopBegin(k, s, final)
      BY <2>1
    <3>2. \/ stop'[k].rec = [db[s] EXCEPT !.state = "STOPPING"]
          \/ stop'[k].rec = [db[s] EXCEPT !.state = "STOPPED"]
      BY <3>1 DEF StopBegin
    <3>3. /\ Unassigned([db[s] EXCEPT !.state = "STOPPING"])
          /\ Unassigned([db[s] EXCEPT !.state = "STOPPED"])
      OBVIOUS
    <3> QED BY <3>2, <3>3, Zenon
  <2>2. ASSUME NEW st \in {"STOPPED", "EXPIRED", "LOST"}, StopEnds(k, st)
        PROVE  Unassigned(stop'[k].rec)
    <3>1. stop'[k].rec = [stop[k].rec EXCEPT !.state = st]
      BY <2>2 DEF StopEnds, StopTasks
    <3>2. stop[k].rec \in Rows
      BY <2>0 DEF StopTasks
    <3>3. Unassigned([stop[k].rec EXCEPT !.state = st])
      BY <3>2
    <3> QED BY <3>1, <3>3, Zenon
  <2>3. stop[k].final \in {"STOPPED", "EXPIRED"}
    BY <2>0 DEF StopTasks
  <2>4. ASSUME stop'[k].rec = stop[k].rec PROVE Unassigned(stop'[k].rec)
    BY <2>4 DEF Assigned
  <2>5. CASE StopMark(k) \/ StopDelete(k)
    <3>1. stop' = [stop EXCEPT ![k].pc = "worker"] \/ stop' = [stop EXCEPT ![k].pc = "count"]
      BY <2>5 DEF StopMark, StopDelete
    <3> QED BY <3>1, <2>4, <2>0 DEF StopTasks
  <2>6. CASE StopUnreachable(k) \/ StopTouch(k)
    BY <2>2, <2>3, <2>6 DEF StopUnreachable, StopTouch
  <2>7. CASE StopReadWorker(k) \/ StopCount(k)
    <3>1. \/ StopEnds(k, stop[k].final)
          \/ \E w : stop' = [stop EXCEPT ![k].pc = "delete", ![k].seen = wdb[w]]
          \/ stop' = [stop EXCEPT ![k].pc = "touch"]
      BY <2>7 DEF StopReadWorker, StopCount
    <3> QED BY <3>1, <2>2, <2>3, <2>4, <2>0 DEF StopTasks
  <2>8. CASE StopRaises(k) \/ StopFinish(k)
    <3>1. stop'[k].rec = NoRow
      BY <2>8 DEF StopRaises, StopFinish, IdleStop
    <3> QED BY <3>1
  <2> QED BY <2>1, <2>5, <2>6, <2>7, <2>8 DEF StopStep
<1>5. \A t \in Sandboxes : Unassigned(db'[t])
  BY <1>2 DEF Assigned
<1> QED BY <1>1, <1>3, <1>4, <1>5 DEF Assigned, Unassigned

\* Restarts fail a create that was looking for a worker.
LEMMA ControlAssigned ==
  ASSUME Inv, Assigned, Crash \/ Shutdown \/ Exit \/ Restart
  PROVE  Assigned'
<1> USE UnassignedRows DEF Inv, TypeOK, TablesOK, Assigned
<1>1. CASE Crash \/ Exit
  BY <1>1 DEF Crash, Exit, Forgotten, dbVars, IdleStop
<1>2. CASE Shutdown
  BY <1>2 DEF Shutdown, dbVars, placeVars, taskVars, Unassigned
<1>3. CASE Restart
  <2>1. ASSUME NEW s \in Sandboxes, NEW reach PROVE Unassigned(Recovered(s, reach))
    <3>1. Recovered(s, reach) \in {db[s], [db[s] EXCEPT !.state = "FAILED"], [db[s] EXCEPT !.state = "RUNNING"]}
      BY DEF Recovered
    <3> QED BY <3>1
  <2>2. PICK reach : db' = [s \in Sandboxes |-> Recovered(s, reach)]
    BY <1>3 DEF Restart
  <2>3. \A s \in Sandboxes : Unassigned(db'[s])
    BY <2>1, <2>2
  <2> QED BY <1>3, <2>3 DEF Restart, placeVars, taskVars, Unassigned
<1> QED BY <1>1, <1>2, <1>3

\* Every active row that names a worker may become LOST, so giving a worker up
\* (_terminate_worker, _mark_worker_lost) is never cut short by a StateError.
THEOREM WorkersCanBeGivenUp == Spec => []LoseIsLegal
<1>1. Init => Assigned
  BY UnassignedRows DEF Init, Assigned, IdleStop
<1>2. Inv /\ Assigned /\ [Next]_vars => Assigned'
  <2> SUFFICES ASSUME Inv, Assigned, [Next]_vars PROVE Assigned'
    OBVIOUS
  <2>1. CASE FleetStep
    <3>1. \A s \in Sandboxes : Unassigned(db'[s])
      BY <2>1, FleetWrites, UnassignedRows DEF Assigned, Inv, TypeOK, TablesOK
    <3> QED BY <2>1, <3>1, FleetWrites DEF Assigned, Unassigned
  <2>2. CASE UNCHANGED vars
    BY <2>2 DEF vars, Assigned, Unassigned
  <2> QED BY <2>1, <2>2, PlacingAssigned, StopAssigned, ControlAssigned DEF Next, FleetStep
<1>3. Inv /\ Assigned => LoseIsLegal
  <2> SUFFICES ASSUME Inv, Assigned, NEW s \in Sandboxes, Active(s), db[s].worker # NoWorker
               PROVE  SandboxMayBecome(db[s].state, "LOST")
    BY DEF LoseIsLegal
  <2>1. db[s].state \in {"CREATING", "RUNNING", "STOPPING"}
    BY DEF Assigned, Unassigned, Active, ActiveSandbox, SandboxStates, TerminalSandbox, Interrupted, Unplaced
  <2>2. \A st \in {"CREATING", "RUNNING", "STOPPING"} : "LOST" \in SandboxNext[st]
    BY DEF SandboxNext, SandboxStates
  <2> QED BY <2>1, <2>2 DEF SandboxMayBecome
<1> QED BY <1>1, <1>2, <1>3, InitInv, NextInv, PTL DEF Spec

-----------------------------------------------------------------------------
(* What a placement's copy of the record says *)

\* The state of the copy at each point of _place_and_start.
CopyState(s) ==
  /\ pc[s] \in {"idle", "done"} => mem[s] = NoRow
  /\ pc[s] = "loop" => mem[s].state \in Interrupted
  /\ pc[s] = "commit" => mem[s].state \in Unplaced
  /\ pc[s] \in {"calling", "refresh", "unavailable", "mark", "badview"} => mem[s].state = "CREATING"
  /\ pc[s] = "requeue" => mem[s].state = "WAITING_FOR_CAPACITY"
  /\ pc[s] \in {"running", "touch"} => mem[s].state = "RUNNING"
  /\ pc[s] = "discard" => mem[s].state \in SandboxStates \ Unplaced
  /\ pc[s] \in {"finish", "failed", "cancelsave"} => mem[s].state \in {"STOPPED", "FAILED"}

\* A sandbox whose task has begun has a row.
HasRow(s) == pc[s] # "idle" => db[s].state # "NONE"

\* What a stop call carries.
StopCopies ==
  \A k \in Stoppers : stop[k].pc # "idle" => stop[k].rec.state \in {"STOPPING", "STOPPED", "EXPIRED", "LOST"}

Copies == (\A s \in Sandboxes : CopyState(s) /\ HasRow(s)) /\ StopCopies

\* Each step of a placement leaves its copy in a state its next step expects.
LEMMA PlacingCopies ==
  ASSUME Inv, Driven, Copies, NEW s \in Sandboxes, Create(s) \/ Placing(s)
  PROVE  \A t \in Sandboxes : CopyState(t)' /\ HasRow(t)'
<1> USE DEF Inv, TypeOK, TablesOK, PlaceOK, Rows, Copies, CopyState, HasRow, Unplaced, Interrupted
<1>0. CASE Create(s)
  BY <1>0 DEF Create, Goto, taskVars, hostVars, Row, NoRow
<1>1. CASE PlaceGiveUp(s)
  BY <1>1 DEF PlaceGiveUp, Goto, End, AtLoop, dbVars, taskVars, hostVars, Terminal, NoRow
<1>2. CASE PlaceReserve(s)
  BY <1>2 DEF PlaceReserve, Goto, Decide, AtLoop, taskVars, hostVars, Terminal, Row
<1>3. CASE PlaceScaleUp(s)
  BY <1>3 DEF PlaceScaleUp, Goto, Decide, AtLoop, taskVars, hostVars, Terminal, Row
<1>4. CASE PlaceWait(s)
  BY <1>4 DEF PlaceWait, Goto, Decide, AtLoop, taskVars, hostVars, Terminal, Row
<1>5. CASE PlaceCommit(s)
  BY <1>5 DEF PlaceCommit, Goto, taskVars
<1>6. CASE PlaceRecheck(s)
  BY <1>6 DEF PlaceRecheck, Goto, dbVars, taskVars, hostVars, Driven, PlacedRow, RecordNamesHost
<1>7. CASE PlaceRunning(s)
  BY <1>7 DEF PlaceRunning, Goto, taskVars, hostVars
<1>8. CASE PlaceTouch(s)
  BY <1>8 DEF PlaceTouch, Goto, End, taskVars, hostVars, NoRow
<1>9. CASE PlaceDiscard(s)
  BY <1>9 DEF PlaceDiscard, Goto, End, dbVars, taskVars, TryDelete, Deleted, CallFails, NoRow
<1>10. CASE PlaceBadView(s)
  BY <1>10 DEF PlaceBadView, Goto, dbVars, taskVars, TryDelete, Deleted, CallFails
<1>11. CASE PlaceChanged(s)
  BY <1>11 DEF PlaceChanged, Goto, dbVars, taskVars, hostVars
<1>12. CASE PlaceRefresh(s)
  BY <1>12 DEF PlaceRefresh, Goto, Requeue, dbVars, taskVars, hostVars, CallFails, Row
<1>13. CASE PlaceUnavailable(s)
  BY <1>13 DEF PlaceUnavailable, Goto, dbVars, taskVars, CallFails
<1>14. CASE PlaceReadWorker(s)
  BY <1>14 DEF PlaceReadWorker, Goto, Requeue, dbVars, taskVars, hostVars, Row
<1>15. CASE PlaceMark(s)
  BY <1>15 DEF PlaceMark, Goto, Requeue, taskVars, hostVars, Row
<1>16. CASE PlaceRequeue(s)
  BY <1>16 DEF PlaceRequeue, Goto, taskVars, hostVars
<1>17. CASE PlaceError(s)
  BY <1>17 DEF PlaceError, Goto, dbVars, taskVars, hostVars
<1>18. CASE PlaceTimeout(s)
  BY <1>18 DEF PlaceTimeout, Goto, dbVars, taskVars, hostVars
<1>19. CASE PlaceCancel(s)
  BY <1>19 DEF PlaceCancel, Goto, End, dbVars, taskVars, hostVars, NoRow
<1>20. CASE PlaceFail(s)
  BY <1>20 DEF PlaceFail, Goto, End, dbVars, taskVars, hostVars, Terminal, NoRow
<1>21. CASE PlaceFinish(s)
  BY <1>21 DEF PlaceFinish, Goto, End, taskVars, hostVars, NoRow
<1> QED BY <1>0, <1>1, <1>2, <1>3, <1>4, <1>5, <1>6, <1>7, <1>8, <1>9, <1>10, <1>11, <1>12, <1>13,
           <1>14, <1>15, <1>16, <1>17, <1>18, <1>19, <1>20, <1>21
        DEF Placing

\* A stop call carries STOPPING or an end, and a row it writes stays a row.
LEMMA StopCopiesStep ==
  ASSUME Inv, Driven, Copies, NEW k \in Stoppers,
         \/ \E s \in Sandboxes, final \in {"STOPPED", "EXPIRED"} : StopBegin(k, s, final)
         \/ StopStep(k)
  PROVE  Copies'
<1> DEFINE Ended == {"STOPPING", "STOPPED", "EXPIRED", "LOST"}
<1> USE DEF Inv, TypeOK, TablesOK, TasksOK
<1>0. stop[k] \in StopTasks /\ \A s \in Sandboxes : db[s] \in Rows
  OBVIOUS
<1>1. UNCHANGED <<pc, mem>>
  BY DEF StopStep, StopBegin, StopMark, StopReadWorker, StopDelete, StopUnreachable, StopRaises,
     StopCount, StopTouch, StopFinish, placeVars
<1>2. db' = db \/ (stop[k].pc # "idle" /\ db' = [db EXCEPT ![stop[k].sb] = stop[k].rec])
  BY DEF StopStep, StopBegin, StopMark, StopReadWorker, StopDelete, StopUnreachable, StopRaises,
     StopCount, StopTouch, StopFinish, dbVars, Stopping
<1>3. \A j \in Stoppers : j # k => stop'[j] = stop[j]
  BY DEF StopStep, StopBegin, StopMark, StopReadWorker, StopDelete, StopUnreachable, StopRaises,
     StopCount, StopTouch, StopFinish, StopEnds
<1>4. stop'[k].pc # "idle" => stop'[k].rec.state \in Ended
  <2>1. CASE \E s \in Sandboxes, final \in {"STOPPED", "EXPIRED"} : StopBegin(k, s, final)
    BY <1>0, <2>1 DEF StopBegin, Rows
  <2>2. ASSUME NEW st \in {"STOPPED", "EXPIRED", "LOST"}, StopEnds(k, st)
        PROVE  stop'[k].rec.state \in Ended
    BY <1>0, <2>2 DEF StopEnds, StopTasks, Rows
  <2>3. stop[k].final \in {"STOPPED", "EXPIRED"}
    BY <1>0 DEF StopTasks
  <2>4. CASE stop[k].pc # "idle" /\ stop'[k].rec = stop[k].rec
    BY <2>4 DEF Copies, StopCopies
  <2>5. CASE StopMark(k) \/ StopDelete(k)
    <3>1. stop' = [stop EXCEPT ![k].pc = "worker"] \/ stop' = [stop EXCEPT ![k].pc = "count"]
      BY <2>5 DEF StopMark, StopDelete
    <3>2. stop[k].pc # "idle"
      BY <2>5 DEF StopMark, StopDelete, Stopping
    <3> QED BY <3>1, <3>2, <2>4, <1>0 DEF StopTasks
  <2>6. CASE StopUnreachable(k) \/ StopTouch(k)
    BY <2>2, <2>3, <2>6 DEF StopUnreachable, StopTouch
  <2>7. CASE StopReadWorker(k) \/ StopCount(k)
    <3>1. \/ StopEnds(k, stop[k].final)
          \/ \E w : stop' = [stop EXCEPT ![k].pc = "delete", ![k].seen = wdb[w]]
          \/ stop' = [stop EXCEPT ![k].pc = "touch"]
      BY <2>7 DEF StopReadWorker, StopCount
    <3>2. stop[k].pc # "idle"
      BY <2>7 DEF StopReadWorker, StopCount, Stopping
    <3> QED BY <3>1, <3>2, <2>2, <2>3, <2>4, <1>0 DEF StopTasks
  <2>8. CASE StopRaises(k) \/ StopFinish(k)
    BY <2>8 DEF StopRaises, StopFinish, IdleStop
  <2> QED BY <2>1, <2>5, <2>6, <2>7, <2>8 DEF StopStep
<1>5. \A s \in Sandboxes : db[s].state # "NONE" => db'[s].state # "NONE"
  BY <1>2 DEF Copies, StopCopies
<1> QED BY <1>1, <1>3, <1>4, <1>5 DEF Copies, StopCopies, CopyState, HasRow

\* A restart has no copies, and rows stay rows.
LEMMA ControlCopies ==
  ASSUME Inv, Copies, Crash \/ Shutdown \/ Exit \/ Restart
  PROVE  Copies'
<1> USE DEF Inv, TypeOK, TablesOK, PlaceOK, Copies, StopCopies, CopyState, HasRow
<1>1. CASE Crash \/ Exit
  BY <1>1 DEF Crash, Exit, Forgotten, dbVars, IdleStop
<1>2. CASE Shutdown
  BY <1>2 DEF Shutdown, dbVars, placeVars, taskVars
<1>3. CASE Restart
  <2>1. ASSUME NEW s \in Sandboxes, NEW reach, db[s].state # "NONE" PROVE Recovered(s, reach).state # "NONE"
    BY <2>1 DEF Recovered, Rows
  <2>2. PICK reach : db' = [s \in Sandboxes |-> Recovered(s, reach)]
    BY <1>3 DEF Restart
  <2> QED BY <1>3, <2>1, <2>2 DEF Restart, placeVars, taskVars
<1> QED BY <1>1, <1>2, <1>3

\* It holds at the start ...
LEMMA CopiesStart == Init => Copies
BY DEF Init, Copies, StopCopies, NoRow, CopyState, HasRow, IdleStop

\* ... and is kept by every step.
LEMMA CopiesStep == Inv /\ Driven /\ Copies /\ [Next]_vars => Copies'
<1> SUFFICES ASSUME Inv, Driven, Copies, [Next]_vars PROVE Copies'
  OBVIOUS
<1>1. ASSUME NEW s \in Sandboxes, Create(s) \/ Placing(s) PROVE Copies'
  <2>1. stop' = stop
    BY <1>1 DEF Create, Placing, PlaceGiveUp, PlaceReserve, PlaceScaleUp, PlaceWait, Decide,
       PlaceCommit, PlaceRecheck, PlaceRunning, PlaceTouch, PlaceDiscard, PlaceBadView, PlaceChanged,
       PlaceRefresh, PlaceUnavailable, PlaceReadWorker, PlaceMark, PlaceRequeue, PlaceError,
       PlaceTimeout, PlaceCancel, PlaceFail, PlaceFinish, taskVars
  <2> QED BY <1>1, <2>1, PlacingCopies DEF Copies, StopCopies
<1>2. CASE FleetStep
  <2>1. \A s \in Sandboxes : db[s].state # "NONE" => db'[s].state # "NONE"
    BY <1>2, FleetWrites DEF Row, Inv, TypeOK, TablesOK
  <2> QED BY <1>2, <2>1, FleetWrites DEF Copies, StopCopies, CopyState, HasRow
<1>3. CASE UNCHANGED vars
  BY <1>3 DEF vars, Copies, StopCopies, CopyState, HasRow
<1> QED BY <1>1, <1>2, <1>3, StopCopiesStep, ControlCopies DEF Next, FleetStep

\* What a placement does to its copy, the lifecycle allows.
LEMMA CopiesMoveLegally ==
  ASSUME Inv, Driven, Copies, NEW s \in Sandboxes, Create(s) \/ Placing(s)
  PROVE  \A t \in Sandboxes :
           LET from == IF pc[t] \in {"failing", "cancelled"} THEN db[t] ELSE mem[t]
           IN mem[t] # NoRow /\ mem'[t] # NoRow /\ mem'[t] # mem[t] /\ pc'[t] # "discard"
                => SandboxMayBecome(from.state, mem'[t].state)
<1>a. /\ \A f \in Interrupted : /\ SandboxMayBecome(f, "CREATING")
                                /\ SandboxMayBecome(f, "PROVISIONING_WORKER")
                                /\ SandboxMayBecome(f, "WAITING_FOR_CAPACITY")
      /\ SandboxMayBecome("CREATING", "RUNNING") /\ SandboxMayBecome("CREATING", "FAILED")
      /\ SandboxMayBecome("CREATING", "WAITING_FOR_CAPACITY")
      /\ \A f \in SandboxStates \ (Unplaced \cup TerminalSandbox) : SandboxMayBecome(f, "STOPPED")
      /\ \A f \in SandboxStates \ TerminalSandbox : SandboxMayBecome(f, "FAILED")
  BY DEF SandboxMayBecome, SandboxNext, SandboxStates, Interrupted, Unplaced, TerminalSandbox
<1> USE DEF Inv, TypeOK, TablesOK, PlaceOK, Rows, Copies, CopyState, HasRow
<1>0. CASE Create(s)
  BY <1>0, <1>a DEF Create, Goto, taskVars, hostVars, Row, NoRow
<1>1. CASE PlaceGiveUp(s)
  BY <1>1, <1>a DEF PlaceGiveUp, Goto, End, AtLoop, dbVars, taskVars, hostVars, Terminal, NoRow
<1>2. CASE PlaceReserve(s)
  BY <1>2, <1>a DEF PlaceReserve, Goto, Decide, AtLoop, taskVars, hostVars, Terminal, Row
<1>3. CASE PlaceScaleUp(s)
  BY <1>3, <1>a DEF PlaceScaleUp, Goto, Decide, AtLoop, taskVars, hostVars, Terminal, Row
<1>4. CASE PlaceWait(s)
  BY <1>4, <1>a DEF PlaceWait, Goto, Decide, AtLoop, taskVars, hostVars, Terminal, Row
<1>5. CASE PlaceCommit(s)
  BY <1>5, <1>a DEF PlaceCommit, Goto, taskVars
<1>6. CASE PlaceRecheck(s)
  BY <1>6, <1>a DEF PlaceRecheck, Goto, dbVars, taskVars, hostVars
<1>7. CASE PlaceRunning(s)
  BY <1>7, <1>a DEF PlaceRunning, Goto, taskVars, hostVars
<1>8. CASE PlaceTouch(s)
  BY <1>8, <1>a DEF PlaceTouch, Goto, End, taskVars, hostVars, NoRow
<1>9. CASE PlaceDiscard(s)
  BY <1>9, <1>a DEF PlaceDiscard, Goto, End, dbVars, taskVars, TryDelete, Deleted, CallFails, NoRow
<1>10. CASE PlaceBadView(s)
  BY <1>10, <1>a DEF PlaceBadView, Goto, dbVars, taskVars, TryDelete, Deleted, CallFails
<1>11. CASE PlaceChanged(s)
  BY <1>11, <1>a DEF PlaceChanged, Goto, dbVars, taskVars, hostVars
<1>12. CASE PlaceRefresh(s)
  BY <1>12, <1>a DEF PlaceRefresh, Goto, Requeue, dbVars, taskVars, hostVars, CallFails, Row
<1>13. CASE PlaceUnavailable(s)
  BY <1>13, <1>a DEF PlaceUnavailable, Goto, dbVars, taskVars, CallFails
<1>14. CASE PlaceReadWorker(s)
  BY <1>14, <1>a DEF PlaceReadWorker, Goto, Requeue, dbVars, taskVars, hostVars, Row
<1>15. CASE PlaceMark(s)
  BY <1>15, <1>a DEF PlaceMark, Goto, Requeue, taskVars, hostVars, Row
<1>16. CASE PlaceRequeue(s)
  BY <1>16, <1>a DEF PlaceRequeue, Goto, taskVars, hostVars
<1>17. CASE PlaceError(s)
  BY <1>17, <1>a DEF PlaceError, Goto, dbVars, taskVars, hostVars
<1>18. CASE PlaceTimeout(s)
  BY <1>18, <1>a DEF PlaceTimeout, Goto, dbVars, taskVars, hostVars
<1>19. CASE PlaceCancel(s)
  BY <1>19, <1>a DEF PlaceCancel, Goto, End, dbVars, taskVars, hostVars, NoRow
<1>20. CASE PlaceFail(s)
  BY <1>20, <1>a DEF PlaceFail, Goto, End, dbVars, taskVars, hostVars, Terminal, NoRow
<1>21. CASE PlaceFinish(s)
  BY <1>21, <1>a DEF PlaceFinish, Goto, End, taskVars, hostVars, NoRow
<1> QED BY <1>0, <1>1, <1>2, <1>3, <1>4, <1>5, <1>6, <1>7, <1>8, <1>9, <1>10, <1>11, <1>12, <1>13,
           <1>14, <1>15, <1>16, <1>17, <1>18, <1>19, <1>20, <1>21
        DEF Placing

\* No transition a placement makes on its own record is refused: a StateError never
\* ends the task of a create with the row as it is, whatever rejections, re-placements,
\* kills, cancellations, shutdowns and restarts come in between (_set_sandbox_state,
\* assert_sandbox_transition).
THEOREM PlacementsTransit == Spec => PlacementTransitionsLegal
<1>1. Inv /\ Driven /\ Copies /\ Next =>
        \A s \in Sandboxes :
          LET from == IF pc[s] \in {"failing", "cancelled"} THEN db[s] ELSE mem[s]
          IN mem[s] # NoRow /\ mem'[s] # NoRow /\ mem'[s] # mem[s] /\ pc'[s] # "discard"
               => SandboxMayBecome(from.state, mem'[s].state)
  <2> SUFFICES ASSUME Inv, Driven, Copies, Next,
                      NEW s \in Sandboxes, mem[s] # NoRow, mem'[s] # NoRow, mem'[s] # mem[s], pc'[s] # "discard"
               PROVE  SandboxMayBecome(IF pc[s] \in {"failing", "cancelled"} THEN db[s].state ELSE mem[s].state,
                                       mem'[s].state)
    BY Zenon
  <2>1. CASE \E t \in Sandboxes : Create(t) \/ Placing(t)
    BY <2>1, CopiesMoveLegally
  <2>2. ASSUME NEW k \in Stoppers,
               \/ \E t \in Sandboxes, final \in {"STOPPED", "EXPIRED"} : StopBegin(k, t, final)
               \/ StopStep(k)
        PROVE  mem' = mem
    BY <2>2 DEF StopStep, StopBegin, StopMark, StopReadWorker, StopDelete, StopUnreachable, StopRaises,
       StopCount, StopTouch, StopFinish, placeVars
  <2>3. CASE FleetStep
    BY <2>3, FleetWrites
  <2>4. CASE Crash \/ Exit
    BY <2>4 DEF Crash, Exit, Forgotten
  <2>5. CASE Shutdown \/ Restart
    BY <2>5 DEF Shutdown, Restart, placeVars
  <2> QED BY <2>1, <2>2, <2>3, <2>4, <2>5 DEF Next, FleetStep
<1>2. Inv /\ Driven /\ Copies /\ [Next]_vars => Inv' /\ Driven' /\ Copies'
  BY NextInv, DrivenStep, CopiesStep
<1>3. Init => Inv /\ Driven /\ Copies
  BY InitInv, DrivenStart, CopiesStart
<1> DEFINE Legal ==
        \A s \in Sandboxes :
          LET from == IF pc[s] \in {"failing", "cancelled"} THEN db[s] ELSE mem[s]
          IN mem[s] # NoRow /\ mem'[s] # NoRow /\ mem'[s] # mem[s] /\ pc'[s] # "discard"
               => SandboxMayBecome(from.state, mem'[s].state)
<1>4. Inv /\ Driven /\ Copies /\ [Next]_vars => [Legal]_<<mem, pc>>
  BY <1>1 DEF vars
<1> HIDE DEF Legal
<1>5. Spec => [][Legal]_<<mem, pc>>
  BY <1>2, <1>3, <1>4, PTL DEF Spec
<1> QED BY <1>5 DEF PlacementTransitionsLegal, Legal

-----------------------------------------------------------------------------
(* Requests to workers *)

\* The points at which a placement may have to answer for a request it has sent.
Attached == {"calling", "discard", "badview", "running", "touch", "finish", "cancelled", "cancelsave"}

\* A worker that was ever sent the sandbox is excluded or is the one talked to.
Tried(s) ==
  /\ \A w \in Workers :
       rpc[w][s] # "none" => pc[s] = "done" \/ w \in excl[s] \/ (w = host[s] /\ pc[s] \in Attached)
  /\ pc[s] \in {"refresh", "unavailable", "mark"} => host[s] \in excl[s]
  /\ pc[s] = "commit" => host[s] \notin excl[s]
  /\ pc[s] = "idle" => excl[s] = {}

\* A worker runs a container only for a create it has worked through.
HasStarted == {"saving", "done", "ended"}
RunsWhatItStarted ==
  \A w \in Workers, s \in Sandboxes : inv[w][s] = "RUNNING" => rpc[w][s] \in HasStarted

\* The copy of a placement about to write RUNNING names a worker that started it.
CopyStarted(s) ==
  pc[s] = "running" => mem[s].worker \in Workers /\ rpc[mem[s].worker][s] \in HasStarted

Requests == (\A s \in Sandboxes : Tried(s) /\ CopyStarted(s)) /\ RunsWhatItStarted /\ RunningWasStarted

\* No delete starts a container.
LEMMA DeletedEnds ==
  ASSUME Inv, NEW v \in Workers \cup {NoWorker}, NEW r \in Sandboxes \cup {NoTask},
         inv' = inv \/ Deleted(v, r)
  PROVE  \A w \in Workers, t \in Sandboxes : inv'[w][t] = "RUNNING" => inv[w][t] = "RUNNING"
BY DEF Inv, TypeOK, HostsOK, Deleted, Live

\* A placement excludes a worker before it lets it go, and asks none it excludes.
LEMMA PlacingTried ==
  ASSUME Inv, Copies, Requests, NEW s \in Sandboxes, Create(s) \/ Placing(s)
  PROVE  \A t \in Sandboxes : Tried(t)'
<1> USE ConstantsAssumption DEF Inv, TypeOK, PlaceOK, HostsOK, Requests, Tried, Attached
<1>0. CASE Create(s)
  BY <1>0 DEF Create, Goto, taskVars, hostVars, Row, NoRow
<1>1. CASE PlaceGiveUp(s)
  BY <1>1 DEF PlaceGiveUp, Goto, End, AtLoop, dbVars, taskVars, hostVars, Terminal, NoRow
<1>2. CASE PlaceReserve(s)
  BY <1>2 DEF PlaceReserve, Goto, Decide, AtLoop, taskVars, hostVars, Terminal, Row, BestFit, Fitting,
     Candidates
<1>3. CASE PlaceScaleUp(s)
  BY <1>3 DEF PlaceScaleUp, Goto, Decide, AtLoop, taskVars, hostVars, Terminal, Row
<1>4. CASE PlaceWait(s)
  BY <1>4 DEF PlaceWait, Goto, Decide, AtLoop, taskVars, hostVars, Terminal, Row
<1>5. CASE PlaceCommit(s)
  BY <1>5 DEF PlaceCommit, Goto, taskVars, RecordNamesHost
<1>6. CASE PlaceRecheck(s)
  BY <1>6 DEF PlaceRecheck, Goto, dbVars, taskVars, hostVars
<1>7. CASE PlaceRunning(s)
  BY <1>7 DEF PlaceRunning, Goto, taskVars, hostVars
<1>8. CASE PlaceTouch(s)
  BY <1>8 DEF PlaceTouch, Goto, End, taskVars, hostVars, NoRow
<1>9. CASE PlaceDiscard(s)
  BY <1>9 DEF PlaceDiscard, Goto, End, dbVars, taskVars, TryDelete, Deleted, CallFails, NoRow
<1>10. CASE PlaceBadView(s)
  BY <1>10 DEF PlaceBadView, Goto, dbVars, taskVars, TryDelete, Deleted, CallFails
<1>11. CASE PlaceChanged(s)
  BY <1>11 DEF PlaceChanged, Goto, dbVars, taskVars, hostVars, TalksToWorker
<1>12. CASE PlaceRefresh(s)
  BY <1>12 DEF PlaceRefresh, Goto, Requeue, dbVars, taskVars, hostVars, CallFails, Row
<1>13. CASE PlaceUnavailable(s)
  BY <1>13 DEF PlaceUnavailable, Goto, dbVars, taskVars, CallFails
<1>14. CASE PlaceReadWorker(s)
  BY <1>14 DEF PlaceReadWorker, Goto, Requeue, dbVars, taskVars, hostVars, Row
<1>15. CASE PlaceMark(s)
  BY <1>15 DEF PlaceMark, Goto, Requeue, taskVars, hostVars, Row
<1>16. CASE PlaceRequeue(s)
  BY <1>16 DEF PlaceRequeue, Goto, taskVars, hostVars
<1>17. CASE PlaceError(s)
  BY <1>17 DEF PlaceError, Goto, dbVars, taskVars, hostVars
<1>18. CASE PlaceTimeout(s)
  BY <1>18 DEF PlaceTimeout, Goto, dbVars, taskVars, hostVars
<1>19. CASE PlaceCancel(s)
  BY <1>19 DEF PlaceCancel, Goto, End, dbVars, taskVars, hostVars, NoRow
<1>20. CASE PlaceFail(s)
  BY SMTT(40), <1>20 DEF PlaceFail, Goto, End, dbVars, taskVars, hostVars, Terminal, NoRow
<1>21. CASE PlaceFinish(s)
  BY <1>21 DEF PlaceFinish, Goto, End, taskVars, hostVars, NoRow
<1> QED BY <1>0, <1>1, <1>2, <1>3, <1>4, <1>5, <1>6, <1>7, <1>8, <1>9, <1>10, <1>11, <1>12, <1>13,
           <1>14, <1>15, <1>16, <1>17, <1>18, <1>19, <1>20, <1>21
        DEF Placing

\* Only a worker's own answer makes a copy, and then the row, RUNNING.
LEMMA PlacingStarted ==
  ASSUME Inv, Copies, Requests, NEW s \in Sandboxes, Create(s) \/ Placing(s)
  PROVE  RunningWasStarted' /\ \A t \in Sandboxes : CopyStarted(t)'
<1> USE DEF Inv, TypeOK, TablesOK, PlaceOK, HostsOK, Rows, Requests, CopyStarted, RunningWasStarted, HasStarted
<1>0. CASE Create(s)
  BY <1>0 DEF Create, Goto, taskVars, hostVars, Row, NoRow, Copies, CopyState, Interrupted, Unplaced
<1>1. CASE PlaceGiveUp(s)
  BY <1>1 DEF PlaceGiveUp, Goto, End, AtLoop, dbVars, taskVars, hostVars, Terminal, NoRow, Copies,
     CopyState, Interrupted, Unplaced
<1>2. CASE PlaceReserve(s)
  BY <1>2 DEF PlaceReserve, Goto, Decide, AtLoop, taskVars, hostVars, Terminal, Row, Copies,
     CopyState, Interrupted, Unplaced
<1>3. CASE PlaceScaleUp(s)
  BY <1>3 DEF PlaceScaleUp, Goto, Decide, AtLoop, taskVars, hostVars, Terminal, Row, Copies,
     CopyState, Interrupted, Unplaced
<1>4. CASE PlaceWait(s)
  BY <1>4 DEF PlaceWait, Goto, Decide, AtLoop, taskVars, hostVars, Terminal, Row, Copies, CopyState,
     Interrupted, Unplaced
<1>5. CASE PlaceCommit(s)
  BY <1>5 DEF PlaceCommit, Goto, taskVars, Copies, CopyState, Interrupted, Unplaced
<1>6. CASE PlaceRecheck(s)
  <2>1. db' = db /\ rpc' = rpc
    BY <1>6 DEF PlaceRecheck, dbVars, hostVars
  <2>2. \A t \in Sandboxes \ {s} : pc'[t] = pc[t] /\ mem'[t] = mem[t]
    BY <1>6 DEF PlaceRecheck, Goto
  <2>3. pc'[s] = "running" => mem'[s].worker = host[s] /\ host[s] \in Workers /\ rpc[host[s]][s] = "done"
    BY <1>6 DEF PlaceRecheck, Goto, Usable, TalksToWorker, RecordNamesHost
  <2> QED BY <2>1, <2>2, <2>3
<1>7. CASE PlaceRunning(s)
  BY <1>7 DEF PlaceRunning, Goto, taskVars, hostVars, Copies, CopyState, Interrupted, Unplaced
<1>8. CASE PlaceTouch(s)
  BY <1>8 DEF PlaceTouch, Goto, End, taskVars, hostVars, NoRow, Copies, CopyState, Interrupted, Unplaced
<1>9. CASE PlaceDiscard(s)
  BY SMTT(40), <1>9 DEF PlaceDiscard, Goto, End, dbVars, taskVars, TryDelete, Deleted, CallFails, NoRow, Copies,
     CopyState, Interrupted, Unplaced
<1>10. CASE PlaceBadView(s)
  BY <1>10 DEF PlaceBadView, Goto, dbVars, taskVars, TryDelete, Deleted, CallFails, Copies, CopyState,
     Interrupted, Unplaced
<1>11. CASE PlaceChanged(s)
  BY <1>11 DEF PlaceChanged, Goto, dbVars, taskVars, hostVars, Copies, CopyState, Interrupted, Unplaced
<1>12. CASE PlaceRefresh(s)
  BY <1>12 DEF PlaceRefresh, Goto, Requeue, dbVars, taskVars, hostVars, CallFails, Row, Copies,
     CopyState, Interrupted, Unplaced
<1>13. CASE PlaceUnavailable(s)
  <2>1. db' = db /\ \A v \in Workers, t \in Sandboxes : rpc[v][t] \in HasStarted => rpc'[v][t] \in HasStarted
    <3>1. host[s] \in Workers
      BY <1>13 DEF PlaceUnavailable, TalksToWorker
    <3>2. rpc' = rpc \/ (rpc[host[s]][s] = "sent" /\ rpc' = [rpc EXCEPT ![host[s]][s] = "none"])
      BY <1>13 DEF PlaceUnavailable
    <3>3. db' = db
      BY <1>13 DEF PlaceUnavailable, dbVars
    <3>4. ASSUME NEW v \in Workers, NEW t \in Sandboxes, rpc[v][t] \in HasStarted
          PROVE  rpc'[v][t] \in HasStarted
      <4>1. CASE rpc' = rpc
        BY <3>4, <4>1
      <4>2. CASE rpc[host[s]][s] = "sent" /\ rpc' = [rpc EXCEPT ![host[s]][s] = "none"]
        <5>1. rpc[v][t] # "sent"
          BY <3>4
        <5>2. v = host[s] => t # s
          BY <4>2, <5>1
        <5>3. rpc'[v][t] = rpc[v][t]
          BY <3>1, <4>2, <5>2
        <5> QED BY <3>4, <5>3
      <4> QED BY <3>2, <4>1, <4>2
    <3> QED BY <3>3, <3>4
  <2>2. \A t \in Sandboxes \ {s} : pc'[t] = pc[t] /\ mem'[t] = mem[t]
    BY <1>13 DEF PlaceUnavailable, Goto
  <2>3. pc'[s] # "running"
    BY <1>13 DEF PlaceUnavailable, Goto
  <2> QED BY <2>1, <2>2, <2>3
<1>14. CASE PlaceReadWorker(s)
  BY <1>14 DEF PlaceReadWorker, Goto, Requeue, dbVars, taskVars, hostVars, Row, Copies, CopyState,
     Interrupted, Unplaced
<1>15. CASE PlaceMark(s)
  BY <1>15 DEF PlaceMark, Goto, Requeue, taskVars, hostVars, Row, Copies, CopyState, Interrupted,
     Unplaced
<1>16. CASE PlaceRequeue(s)
  BY <1>16 DEF PlaceRequeue, Goto, taskVars, hostVars, Copies, CopyState, Interrupted, Unplaced
<1>17. CASE PlaceError(s)
  BY <1>17 DEF PlaceError, Goto, dbVars, taskVars, hostVars, Copies, CopyState, Interrupted, Unplaced
<1>18. CASE PlaceTimeout(s)
  BY <1>18 DEF PlaceTimeout, Goto, dbVars, taskVars, hostVars, Copies, CopyState, Interrupted, Unplaced
<1>19. CASE PlaceCancel(s)
  BY <1>19 DEF PlaceCancel, Goto, End, dbVars, taskVars, hostVars, NoRow, Copies, CopyState,
     Interrupted, Unplaced
<1>20. CASE PlaceFail(s)
  <2>1. db' = db /\ rpc' = rpc
    BY <1>20 DEF PlaceFail, dbVars, hostVars
  <2>2. \A t \in Sandboxes \ {s} : pc'[t] = pc[t] /\ mem'[t] = mem[t]
    BY <1>20 DEF PlaceFail, Goto, End
  <2>3. pc'[s] # "running"
    BY <1>20 DEF PlaceFail, Goto, End
  <2> QED BY <2>1, <2>2, <2>3
<1>21. CASE PlaceFinish(s)
  BY <1>21 DEF PlaceFinish, Goto, End, taskVars, hostVars, NoRow, Copies, CopyState, Interrupted,
     Unplaced
<1> QED BY <1>0, <1>1, <1>2, <1>3, <1>4, <1>5, <1>6, <1>7, <1>8, <1>9, <1>10, <1>11, <1>12, <1>13,
           <1>14, <1>15, <1>16, <1>17, <1>18, <1>19, <1>20, <1>21
        DEF Placing

\* No step but a placement's sends a request or takes back what a worker has done.
LEMMA OthersAnswer ==
  ASSUME Inv, Requests,
         \/ \E k \in Stoppers : \/ \E s \in Sandboxes, final \in {"STOPPED", "EXPIRED"} : StopBegin(k, s, final)
                                \/ StopStep(k)
         \/ FleetStep \/ Crash \/ Shutdown \/ Exit \/ Restart
  PROVE  \A w \in Workers, s \in Sandboxes :
           /\ rpc'[w][s] # "none" => rpc[w][s] # "none"
           /\ rpc[w][s] \in HasStarted => rpc'[w][s] \in HasStarted
<1> USE DEF Inv, TypeOK, HostsOK, HasStarted
<1>1. ASSUME NEW w \in Workers, WorkerServes(w)
      PROVE  \A v \in Workers, s \in Sandboxes :
               /\ rpc'[v][s] # "none" => rpc[v][s] # "none"
               /\ rpc[v][s] \in HasStarted => rpc'[v][s] \in HasStarted
  BY <1>1 DEF WorkerServes, WorkerAdmit, WorkerBoot, WorkerAnswer
<1>2. CASE \E k \in Stoppers : \/ \E s \in Sandboxes, final \in {"STOPPED", "EXPIRED"} : StopBegin(k, s, final)
                               \/ StopStep(k)
  BY <1>2 DEF StopStep, StopBegin, StopMark, StopReadWorker, StopDelete, StopUnreachable, StopRaises,
     StopCount, StopTouch, StopFinish, hostVars
<1>3. CASE FleetStep /\ ~\E w \in Workers : WorkerServes(w)
  BY <1>3 DEF FleetStep, TmBegin, TmStep, TmForget, TmList, TmLose, TmTerminateVM, TmProviderFails,
     TmGone,
     ProvisionDone, ProvisionFails, RcBegin, RcStep, RcSkip, RcHealth, RcFailed, RcApply, RcList,
     RcOurs, RcSync, RcSynced, RcOrphan, RcDelete, RcIdle, RcTouch, RcEnd, WorkerDies, WorkerEnds, hostVars
<1>4. CASE Crash \/ Shutdown \/ Exit \/ Restart
  BY <1>4 DEF Crash, Shutdown, Exit, Restart, Forgotten, hostVars
<1> QED BY <1>1, <1>2, <1>3, <1>4 DEF FleetStep

\* A container runs only on a worker that works through the create or has.
LEMMA RunsStep ==
  ASSUME Inv, Copies, Requests, Next
  PROVE  RunsWhatItStarted'
<1> USE DEF Inv, TypeOK, HostsOK, Requests, RunsWhatItStarted, HasStarted
<1>1. ASSUME NEW s \in Sandboxes, Create(s) \/ Placing(s) PROVE RunsWhatItStarted'
  <2>1. \A w \in Workers, t \in Sandboxes : inv'[w][t] = "RUNNING" => inv[w][t] = "RUNNING"
    <3>1. inv' = inv \/ Deleted(host[s], s)
      BY <1>1 DEF Create, Placing, PlaceGiveUp, PlaceReserve, PlaceScaleUp, PlaceWait, Decide,
         PlaceCommit, PlaceRecheck, PlaceRunning, PlaceTouch, PlaceDiscard, PlaceBadView, PlaceChanged,
         PlaceRefresh, PlaceUnavailable, PlaceReadWorker, PlaceMark, PlaceRequeue, PlaceError,
         PlaceTimeout, PlaceCancel, PlaceFail, PlaceFinish, hostVars, TryDelete
    <3> QED BY <3>1, DeletedEnds DEF PlaceOK
  <2>2. \A w \in Workers, t \in Sandboxes : rpc[w][t] \in HasStarted => rpc'[w][t] \in HasStarted
    <3>1. CASE PlaceCommit(s)
      <4>1. mem[s].state = "CREATING" => host[s] \in Workers /\ rpc[host[s]][s] = "none"
        BY <3>1 DEF PlaceCommit, Tried, Attached, RecordNamesHost, PlaceOK
      <4>2. rpc' = rpc \/ (mem[s].state = "CREATING" /\ rpc' = [rpc EXCEPT ![host[s]][s] = "sent"])
        BY <3>1 DEF PlaceCommit
      <4> QED BY <4>1, <4>2
    <3>2. CASE PlaceUnavailable(s)
      BY SMTT(40), <3>2 DEF PlaceUnavailable
    <3> QED
      BY <1>1, <3>1, <3>2 DEF Create, Placing, PlaceGiveUp, PlaceReserve, PlaceScaleUp, PlaceWait,
         Decide,
         PlaceRecheck, PlaceRunning, PlaceTouch, PlaceDiscard, PlaceBadView, PlaceChanged,
         PlaceRefresh, PlaceReadWorker, PlaceMark, PlaceRequeue, PlaceError,
         PlaceTimeout, PlaceCancel, PlaceFail, PlaceFinish, hostVars
  <2> QED BY <2>1, <2>2
<1>2. ASSUME NEW w \in Workers, WorkerServes(w) PROVE RunsWhatItStarted'
  <2>1. PICK s \in Sandboxes : WorkerAdmit(w, s) \/ WorkerBoot(w, s) \/ WorkerAnswer(w, s)
    BY <1>2 DEF WorkerServes
  <2>2. CASE WorkerAdmit(w, s)
    BY SMTT(40), <2>2 DEF WorkerAdmit
  <2>3. CASE WorkerBoot(w, s)
    BY <2>3 DEF WorkerBoot
  <2>4. CASE WorkerAnswer(w, s)
    BY <2>4 DEF WorkerAnswer
  <2> QED BY <2>1, <2>2, <2>3, <2>4
<1>3. ASSUME \A w \in Workers, t \in Sandboxes : inv'[w][t] = "RUNNING" => inv[w][t] = "RUNNING",
             \/ \E k \in Stoppers : \/ \E s \in Sandboxes, final \in {"STOPPED", "EXPIRED"} : StopBegin(k, s, final)
                                    \/ StopStep(k)
             \/ FleetStep \/ Crash \/ Shutdown \/ Exit \/ Restart
      PROVE  RunsWhatItStarted'
  BY <1>3, OthersAnswer
<1>4. CASE \E k \in Stoppers : \/ \E s \in Sandboxes, final \in {"STOPPED", "EXPIRED"} : StopBegin(k, s, final)
                               \/ StopStep(k)
  <2>1. PICK k \in Stoppers : \/ \E s \in Sandboxes, final \in {"STOPPED", "EXPIRED"} : StopBegin(k, s, final)
                              \/ StopStep(k)
    BY <1>4
  <2>2. inv' = inv \/ Deleted(stop[k].rec.worker, stop[k].sb)
    BY <2>1 DEF StopStep, StopBegin, StopMark, StopReadWorker, StopDelete, StopUnreachable, StopRaises,
       StopCount, StopTouch, StopFinish, hostVars
  <2>3. stop[k].rec.worker \in Workers \cup {NoWorker} /\ stop[k].sb \in Sandboxes \cup {NoTask}
    BY DEF TasksOK, StopTasks, Rows
  <2>4. \A w \in Workers, t \in Sandboxes : inv'[w][t] = "RUNNING" => inv[w][t] = "RUNNING"
    BY <2>2, <2>3, DeletedEnds
  <2> QED BY <1>3, <1>4, <2>4
<1>5. CASE FleetStep /\ ~\E w \in Workers : WorkerServes(w)
  <2>1. CASE RcDelete
    <3>1. inv' = inv \/ Deleted(rc.w, rc.sb)
      BY <2>1 DEF RcDelete, TryDelete
    <3>2. rc.w \in Workers \cup {NoWorker} /\ rc.sb \in Sandboxes \cup {NoTask}
      BY DEF TasksOK, RcTasks
    <3> QED BY <1>3, <1>5, <3>1, <3>2, DeletedEnds
  <2>2. CASE ~RcDelete
    <3>1. ASSUME \E w \in Workers : TmTerminateVM(w) \/ WorkerDies(w)
          PROVE  \A w \in Workers, t \in Sandboxes : inv'[w][t] = "RUNNING" => inv[w][t] = "RUNNING"
      <4>1. inv' = inv \/ \E w \in Workers : inv' = [inv EXCEPT ![w] = [s \in Sandboxes |-> "ABSENT"]]
        BY <3>1 DEF TmTerminateVM, WorkerDies
      <4> QED BY <4>1
    <3>2. ASSUME \E w \in Workers, s \in Sandboxes, how \in Ends : WorkerEnds(w, s, how)
          PROVE  \A w \in Workers, t \in Sandboxes : inv'[w][t] = "RUNNING" => inv[w][t] = "RUNNING"
      <4>1. PICK w \in Workers, s \in Sandboxes, how \in Ends : WorkerEnds(w, s, how)
        BY <3>2
      <4>2. how # "RUNNING" /\ inv' = [inv EXCEPT ![w][s] = how]
        BY <4>1, ConstantsAssumption DEF WorkerEnds
      <4> QED BY <4>2
    <3>3. ASSUME ~(\E w \in Workers : TmTerminateVM(w) \/ WorkerDies(w) \/ WorkerServes(w)
                                    \/ \E s \in Sandboxes, how \in Ends : WorkerEnds(w, s, how))
          PROVE  \A w \in Workers, t \in Sandboxes : inv'[w][t] = "RUNNING" => inv[w][t] = "RUNNING"
      <4>1. inv' = inv
        BY <1>5, <2>2, <3>3
           DEF FleetStep, TmBegin, TmStep, TmForget, TmList, TmLose, TmProviderFails, TmGone,
           ProvisionDone, ProvisionFails, RcBegin, RcStep, RcSkip, RcHealth, RcFailed, RcApply, RcList,
           RcOurs, RcSync, RcSynced, RcOrphan, RcIdle, RcTouch, RcEnd, hostVars
      <4> QED BY <4>1
    <3>4. \A w \in Workers, t \in Sandboxes : inv'[w][t] = "RUNNING" => inv[w][t] = "RUNNING"
      BY <1>5, <3>1, <3>2, <3>3
    <3> QED BY <1>3, <1>5, <3>4
  <2> QED BY <2>1, <2>2
<1>6. CASE Crash \/ Shutdown \/ Exit \/ Restart
  <2>1. inv' = inv
    BY <1>6 DEF Crash, Shutdown, Exit, Restart, Forgotten, hostVars
  <2> QED BY <1>3, <1>6, <2>1
<1> QED BY <1>1, <1>2, <1>4, <1>5, <1>6 DEF Next, FleetStep

\* The other tasks write no RUNNING; the restart writes it where the container runs.
LEMMA OthersStarted ==
  ASSUME Inv, Copies, Requests,
         \/ \E k \in Stoppers : \/ \E s \in Sandboxes, final \in {"STOPPED", "EXPIRED"} : StopBegin(k, s, final)
                                \/ StopStep(k)
         \/ FleetStep \/ Crash \/ Shutdown \/ Exit \/ Restart
  PROVE  RunningWasStarted'
<1> USE DEF Inv, TypeOK, TablesOK, HostsOK
<1>1. \A w \in Workers, s \in Sandboxes : rpc[w][s] \in HasStarted => rpc'[w][s] \in HasStarted
  BY OthersAnswer
<1>2. ASSUME \A s \in Sandboxes : db'[s] = db[s] \/ db'[s].state # "RUNNING" PROVE RunningWasStarted'
  BY <1>1, <1>2 DEF RunningWasStarted, Requests, HasStarted
<1>3. ASSUME NEW k \in Stoppers,
             \/ \E s \in Sandboxes, final \in {"STOPPED", "EXPIRED"} : StopBegin(k, s, final)
             \/ StopStep(k)
      PROVE  RunningWasStarted'
  <2>1. db' = db \/ (stop[k].pc # "idle" /\ db' = [db EXCEPT ![stop[k].sb] = stop[k].rec])
    BY <1>3 DEF StopStep, StopBegin, StopMark, StopReadWorker, StopDelete, StopUnreachable, StopRaises,
       StopCount, StopTouch, StopFinish, dbVars, Stopping
  <2> QED BY <1>2, <2>1 DEF Copies, StopCopies
<1>4. CASE FleetStep
  BY <1>2, <1>4, FleetWrites DEF Row
<1>5. CASE Crash \/ Shutdown \/ Exit
  BY <1>2, <1>5 DEF Crash, Shutdown, Exit, Forgotten, dbVars
<1>6. CASE Restart
  <2>1. PICK reach \in SUBSET Workers : db' = [s \in Sandboxes |-> Recovered(s, reach)]
    BY <1>6 DEF Restart
  <2>2. rpc' = rpc
    BY <1>6 DEF Restart
  <2>3. ASSUME NEW s \in Sandboxes, db'[s].state = "RUNNING"
        PROVE  db'[s].worker \in Workers /\ rpc[db'[s].worker][s] \in HasStarted
    <3>1. db[s] \in Rows /\ db'[s] = Recovered(s, reach)
      BY <2>1
    <3>2. CASE db[s].state \in Interrupted
      BY <2>3, <3>1, <3>2 DEF Recovered, Rows, Interrupted
    <3>3. CASE db[s].state = "CREATING"
      <4>1. /\ db'[s].worker = db[s].worker /\ db[s].worker \in reach
            /\ inv[db[s].worker][s] = "RUNNING"
        BY <2>3, <3>1, <3>3 DEF Recovered, Rows, Interrupted
      <4> QED BY <4>1 DEF Requests, RunsWhatItStarted
    <3>4. CASE db[s].state \notin Interrupted \cup {"CREATING"}
      <4>1. db'[s] = db[s]
        BY <3>1, <3>4 DEF Recovered
      <4> QED BY <2>3, <4>1 DEF Requests, RunningWasStarted, HasStarted
    <3> QED BY <3>2, <3>3, <3>4
  <2> QED BY <2>2, <2>3 DEF RunningWasStarted, HasStarted
<1> QED BY <1>3, <1>4, <1>5, <1>6

\* They leave what placements have tried, except that a crash ends all of them.
LEMMA OthersTried ==
  ASSUME Inv, Copies, Requests,
         \/ \E k \in Stoppers : \/ \E s \in Sandboxes, final \in {"STOPPED", "EXPIRED"} : StopBegin(k, s, final)
                                \/ StopStep(k)
         \/ FleetStep \/ Crash \/ Shutdown \/ Exit \/ Restart
  PROVE  \A s \in Sandboxes : Tried(s)' /\ CopyStarted(s)'
<1> USE DEF Inv, TypeOK, PlaceOK, HostsOK, Requests, Tried, CopyStarted, Attached
<1>1. CASE Crash \/ Exit
  BY <1>1 DEF Crash, Exit, Forgotten, hostVars
<1>2. CASE ~(Crash \/ Exit)
  <2>1. UNCHANGED <<pc, mem, host, excl>>
    <3>1. CASE \E k \in Stoppers : \/ \E s \in Sandboxes, final \in {"STOPPED", "EXPIRED"} : StopBegin(k, s, final)
                                   \/ StopStep(k)
      BY <3>1 DEF StopStep, StopBegin, StopMark, StopReadWorker, StopDelete, StopUnreachable, StopRaises,
         StopCount, StopTouch, StopFinish, placeVars
    <3>2. CASE FleetStep
      BY ZenonT(60), <3>2 DEF FleetStep, TmBegin, TmStep, TmForget, TmList, TmLose, TmTerminateVM,
         TmProviderFails, TmGone,
         ProvisionDone, ProvisionFails, RcBegin, RcStep, RcSkip, RcHealth, RcFailed, RcApply, RcList,
         RcOurs, RcSync, RcSynced, RcOrphan, RcDelete, RcIdle, RcTouch, RcEnd,
         WorkerServes, WorkerAdmit, WorkerBoot, WorkerAnswer, WorkerDies, WorkerEnds, placeVars
    <3>3. CASE Shutdown \/ Restart
      BY <3>3 DEF Shutdown, Restart, placeVars
    <3> QED BY <1>2, <3>1, <3>2, <3>3
  <2> QED BY <2>1, OthersAnswer
<1> QED BY <1>1, <1>2

\* It holds at the start ...
LEMMA RequestsStart == Init => Requests
BY ConstantsAssumption DEF Init, Requests, Tried, CopyStarted, RunsWhatItStarted, RunningWasStarted,
   NoRow

\* ... and is kept by every step.
LEMMA RequestsStep == Inv /\ Copies /\ Requests /\ [Next]_vars => Requests'
<1> SUFFICES ASSUME Inv, Copies, Requests, [Next]_vars PROVE Requests'
  OBVIOUS
<1>1. CASE UNCHANGED vars
  BY <1>1 DEF vars, Requests, Tried, CopyStarted, RunsWhatItStarted, RunningWasStarted
<1>2. CASE Next
  BY <1>2, PlacingTried, PlacingStarted, RunsStep, OthersStarted, OthersTried DEF Next, FleetStep,
     Requests
<1> QED BY <1>1, <1>2

\* A sandbox is sent to a worker at most once in its life, for any number of workers,
\* whatever fails and restarts (_place_and_start: the excluded set, one task per row).
THEOREM NeverSentTwice == Spec => []SentOnce
<1>1. Inv /\ Requests => SentOnce
  BY DEF SentOnce, Requests, Tried, Inv, RecordNamesHost, Attached
<1> QED BY <1>1, RequestsStart, RequestsStep, CopiesStart, CopiesStep, DrivenStart, DrivenStep,
           InitInv, NextInv, PTL DEF Spec

\* A row is RUNNING only on a worker that started the sandbox: re-placement, stale copies
\* and restarts never attach it to another one (_place_and_start, _recover_after_restart).
THEOREM RunsWhereStarted == Spec => []RunningWasStarted
<1>1. Requests => RunningWasStarted
  BY DEF Requests
<1> QED BY <1>1, RequestsStart, RequestsStep, CopiesStart, CopiesStep, DrivenStart, DrivenStep,
           InitInv, NextInv, PTL DEF Spec

=============================================================================
