--------------------------- MODULE SessionsProofs ---------------------------
(***************************************************************************)
(* Theorems about Sessions, for any number of callers, of daemons that race *)
(* for the port and of sandboxes, and whatever crashes, stops and deadlines *)
(* happen: one key, one sandbox.  The argument: while a request runs no row *)
(* with the key is removed, so the row a request has inserted or found is   *)
(* there when it answers, and a request that has lost the race finds the    *)
(* winner's; and the index lets no second row in beside one that is there.  *)
(***************************************************************************)
EXTENDS Sessions, TLAPS

RowStates == {"none", "PENDING", "CREATING", "RUNNING", "FAILED", "STOPPED", "deleted"}
CallerPcs == {"probe", "pid", "wait", "alive", "send", "sent", "error", "raised", "done"}
ReqPcs == {"none", "look", "insert", "put", "place", "start", "settle"}

Call == [pc : CallerPcs, pid : Daemons \union {None}, got : Sandboxes \union {None}]
Request == [pc : ReqPcs, at : Daemons \union {None}, sb : Sandboxes \union {None}, lost : BOOLEAN]
ServerOK ==
  /\ req \in [Callers -> Request]
  /\ pidFile \in Daemons \union {None} /\ listener \in Daemons \union {None}
TypeOK == row \in [Sandboxes -> RowStates] /\ caller \in [Callers -> Call] /\ ServerOK

\* The unique index: one row with the key.
OneRow == \A s, r \in Rows : s = r

\* A request works on a row that is there; one that has lost the race knows of one.
ReqInv(c) ==
  /\ req[c].pc \in {"put", "place", "start", "settle"} => req[c].sb \in Rows
  /\ req[c].lost => req[c].pc # "none" /\ Rows # {}

\* Who was given a sandbox was given one that is in the table or was.
Given(c) == caller[c].got # None => row[caller[c].got] # "none"

\* Nobody has seen the error of the index.
KeyInv == TypeOK /\ OneRow /\ (\A c \in Callers : ReqInv(c) /\ Given(c)) /\ KeyIsFound

\* What a step may do to the table.
RowsChange ==
  /\ row' \in [Sandboxes -> RowStates]
  /\ \A s \in Sandboxes : row[s] # "none" => row'[s] # "none"
  /\ \/ Rows' = Rows
     \/ Rows = {} /\ \E s \in Sandboxes : Rows' = {s}
     \/ Rows' \subseteq Rows /\ \A c \in Callers : req[c].pc = "none"

-----------------------------------------------------------------------------

\* What a step does to the table: a request takes an id that is new when no row has the
\* key, housekeeping removes rows while no request runs, and nothing else changes which
\* rows there are.
LEMMA RowsStep ==
  ASSUME SessionsAssumption, KeyInv, Next
  PROVE  RowsChange
<1> USE DEF KeyInv
<1>t. row \in [Sandboxes -> RowStates] /\ req \in [Callers -> Request]
  BY DEF TypeOK, ServerOK
<1>u. UNCHANGED row => RowsChange
  BY <1>t DEF RowsChange, Rows
<1>1. ASSUME NEW c \in Callers, Probe(c) PROVE RowsChange
  BY <1>1, <1>u DEF Probe, Go, CallerOnly, procVars, dbVars
<1>2. ASSUME NEW c \in Callers, ReadPid(c) PROVE RowsChange
  BY <1>2, <1>u DEF ReadPid, AwaitPid, Starting, PidAlive, Fresh, dbVars
<1>3. ASSUME NEW c \in Callers, Await(c) PROVE RowsChange
  BY <1>3, <1>u DEF Await, Go, CallerOnly, procVars, dbVars
<1>4. ASSUME NEW c \in Callers, Send(c) PROVE RowsChange
  BY <1>4, <1>u DEF Send, Go, Healthy, procVars, dbVars
<1>5. ASSUME NEW c \in Callers, Retry(c) PROVE RowsChange
  BY <1>5, <1>u DEF Retry, Go, CallerOnly, procVars, dbVars
<1>6. ASSUME NEW c \in Callers, AwaitTimeout(c) PROVE RowsChange
  BY <1>6, <1>u DEF AwaitTimeout, Go, CallerOnly, procVars, dbVars
<1>7. ASSUME NEW c \in Callers, ExistingForKey(c) PROVE RowsChange
  BY <1>7, <1>u DEF ExistingForKey, ReqTo, Fail, NoReq, ReqOnly, procVars, dbVars
<1>8. ASSUME NEW c \in Callers, Refused(c) PROVE RowsChange
  BY <1>8, <1>u DEF Refused, Fail, NoReq, ReqOnly, procVars, dbVars
<1>9. ASSUME NEW c \in Callers, Insert(c) PROVE RowsChange
  <2>1. CASE Rows # {}
    BY <1>9, <1>u, <2>1 DEF Insert, Conflicts
  <2>2. CASE Rows = {}
    <3> DEFINE s == CHOOSE x \in NewIds : TRUE
    <3>1. s \in NewIds /\ row' = [row EXCEPT ![s] = "PENDING"]
      BY <1>9, <2>2 DEF Insert, Conflicts
    <3> HIDE DEF s
    <3> QED
      BY <1>t, <2>2, <3>1 DEF RowsChange, Rows, NewIds, RowStates
  <2> QED
    BY <2>1, <2>2
<1>10. ASSUME NEW c \in Callers, PutKey(c) PROVE RowsChange
  BY <1>10, <1>u DEF PutKey, ReqTo, ReqOnly, procVars
<1>11. ASSUME NEW c \in Callers, Place(c) PROVE RowsChange
  <2> DEFINE s == req[c].sb
  <2>1. s \in Rows
    BY <1>11 DEF Place, ReqInv
  <2>2. \/ UNCHANGED row \/ row' = [row EXCEPT ![s] = "CREATING"]
    BY <1>11 DEF Place
  <2> HIDE DEF s
  <2> QED
    BY <1>t, <1>u, <2>1, <2>2 DEF RowsChange, Rows, RowStates
<1>12. ASSUME NEW c \in Callers, Started(c) PROVE RowsChange
  <2> DEFINE s == req[c].sb
  <2>1. s \in Rows
    BY <1>12 DEF Started, ReqInv
  <2>2. \/ row' = [row EXCEPT ![s] = "RUNNING"] \/ row' = [row EXCEPT ![s] = "FAILED"]
    BY <1>12 DEF Started
  <2> HIDE DEF s
  <2> QED
    BY <1>t, <2>1, <2>2 DEF RowsChange, Rows, RowStates
<1>13. ASSUME NEW c \in Callers, Settle(c) PROVE RowsChange
  BY <1>13, <1>u DEF Settle, Answer, NoReq, ReqOnly, procVars, dbVars
<1>14. ASSUME NEW d \in Daemons, WritePid(d) PROVE RowsChange
  BY <1>14, <1>u DEF WritePid, Dmn, DmnOnly, dbVars
<1>15. ASSUME NEW d \in Daemons, OpenDb(d) PROVE RowsChange
  BY <1>15, <1>u DEF OpenDb, Dmn, DmnOnly, Leaves, dbVars
<1>16. ASSUME NEW d \in Daemons, RunScript(d) PROVE RowsChange
  BY <1>16, <1>u DEF RunScript, Dmn, DmnOnly, Leaves
<1>17. ASSUME NEW d \in Daemons, RecordVersion(d) PROVE RowsChange
  BY <1>17, <1>u DEF RecordVersion, Dmn, DmnOnly, Leaves
<1>18. ASSUME NEW d \in Daemons, Recover(d) PROVE RowsChange
  BY <1>18, <1>t DEF Recover, RowsChange, Rows, RowStates
<1>19. ASSUME NEW d \in Daemons, Bind(d) PROVE RowsChange
  BY <1>19, <1>u DEF Bind, Dmn, DmnOnly, dbVars
<1>20. ASSUME NEW d \in Daemons, Drain(d) PROVE RowsChange
  BY <1>20, <1>u DEF Drain, Dmn, DmnOnly, dbVars
<1>21. ASSUME NEW d \in Daemons, Drained(d) PROVE RowsChange
  BY <1>21, <1>u DEF Drained, Dmn, DmnOnly, Leaves, dbVars
<1>22. ASSUME NEW d \in Daemons, Exit(d) PROVE RowsChange
  BY <1>22, <1>u DEF Exit, DmnOnly, dbVars
<1>23. ASSUME NEW d \in Daemons, Crash(d) PROVE RowsChange
  BY <1>23, <1>u DEF Crash, Dies, NoReq, dbVars
<1>24. CASE Housekeeping
  <2>1. CASE UNCHANGED row
    BY <1>u, <2>1
  <2>2. CASE row' = [s \in Sandboxes |-> IF row[s] \in Terminal THEN "deleted" ELSE row[s]]
    BY <1>24, <1>t, <2>2 DEF Housekeeping, RowsChange, Rows, RowStates, Terminal
  <2> QED
    BY <1>24, <2>1, <2>2 DEF Housekeeping
<1>25. CASE StopBegin
  BY <1>25, <1>u DEF StopBegin, dbVars
<1>26. CASE StopKill
  BY <1>26, <1>u DEF StopKill, Dies, NoReq, dbVars
<1>27. CASE StopEnd
  BY <1>27, <1>u DEF StopEnd, dbVars
<1>28. ASSUME NEW c \in Callers, GiveUp(c) PROVE RowsChange
  BY <1>28, <1>u DEF GiveUp, Go, CallerOnly, procVars, dbVars
<1>29. ASSUME NEW d \in Daemons, Reaped(d) PROVE RowsChange
  BY <1>29, <1>u DEF Reaped, Dmn, DmnOnly, Leaves, dbVars
<1>30. ASSUME NEW d \in Daemons, Reused(d) PROVE RowsChange
  BY <1>30, <1>u DEF Reused, Dmn, DmnOnly, Leaves, dbVars
<1> QED
  BY <1>1, <1>2, <1>3, <1>4, <1>5, <1>6, <1>7, <1>8, <1>9, <1>10, <1>11, <1>12,
     <1>13, <1>14, <1>15, <1>16, <1>17, <1>18, <1>19, <1>20, <1>21, <1>22, <1>23, <1>24,
     <1>25, <1>26, <1>27, <1>28, <1>29, <1>30
     DEF Next, CallerStep, ReqStep, DaemonStep

\* The types of the calls.
LEMMA CallsStep ==
  ASSUME SessionsAssumption, KeyInv, Next
  PROVE  caller' \in [Callers -> Call]
<1> USE DEF KeyInv
<1>t. /\ caller \in [Callers -> Call] /\ req \in [Callers -> Request]
      /\ pidFile \in Daemons \union {None}
  BY DEF TypeOK, ServerOK
<1>g. \A pc \in CallerPcs, d \in Daemons \union {None}, s \in Sandboxes \union {None} :
        [pc |-> pc, pid |-> d, got |-> s] \in Call
  BY DEF Call
<1>p. \A c \in Callers, pc \in CallerPcs : [caller[c] EXCEPT !.pc = pc] \in Call
  BY <1>t DEF Call
<1>o. ASSUME NEW c \in Callers, NEW pc \in CallerPcs, Go(c, pc) PROVE caller' \in [Callers -> Call]
  BY <1>t, <1>g, <1>o DEF Go
<1>q. \A c \in Callers, pc \in CallerPcs : [caller EXCEPT ![c].pc = pc] \in [Callers -> Call]
  BY <1>t, <1>p
<1>1. ASSUME NEW c \in Callers, Probe(c) PROVE caller' \in [Callers -> Call]
  BY <1>1, <1>t, <1>g, <1>p DEF Probe, Go, CallerOnly, procVars, dbVars, CallerPcs
<1>2. ASSUME NEW c \in Callers, ReadPid(c) PROVE caller' \in [Callers -> Call]
  <2>1. \A d \in Daemons \union {None} : AwaitPid(c, d) => caller' \in [Callers -> Call]
    BY <1>t, <1>g DEF AwaitPid, CallerPcs
  <2>2. CASE Starting(pidFile)
    BY <1>2, <1>t, <2>1, <2>2 DEF ReadPid
  <2>3. CASE ~Starting(pidFile)
    <3>1. (CHOOSE x \in Fresh : TRUE) \in Daemons
      BY <1>2, <2>3 DEF ReadPid, Fresh
    <3> QED
      BY <1>2, <2>1, <2>3, <3>1 DEF ReadPid
  <2> QED
    BY <2>2, <2>3
<1>3. ASSUME NEW c \in Callers, Await(c) PROVE caller' \in [Callers -> Call]
  <2>1. {"send", "alive", "wait", "error"} \subseteq CallerPcs
    BY DEF CallerPcs
  <2>2. \/ \E pc \in CallerPcs : Go(c, pc)
        \/ \E pc \in CallerPcs : caller' = [caller EXCEPT ![c].pc = pc]
    BY <1>3, <2>1 DEF Await
  <2>3. CASE \E pc \in CallerPcs : caller' = [caller EXCEPT ![c].pc = pc]
    BY <1>q, <2>3
  <2> QED
    BY <1>o, <2>2, <2>3
<1>4. ASSUME NEW c \in Callers, Send(c) PROVE caller' \in [Callers -> Call]
  <2>1. {"sent", "error"} \subseteq CallerPcs
    BY DEF CallerPcs
  <2> QED
    BY <1>4, <1>o, <2>1 DEF Send
<1>5. ASSUME NEW c \in Callers, Retry(c) PROVE caller' \in [Callers -> Call]
  BY <1>5, <1>t, <1>g, <1>p DEF Retry, Go, CallerOnly, procVars, dbVars, CallerPcs
<1>6. ASSUME NEW c \in Callers, AwaitTimeout(c) PROVE caller' \in [Callers -> Call]
  BY <1>6, <1>t, <1>g, <1>p DEF AwaitTimeout, Go, CallerOnly, procVars, dbVars, CallerPcs
<1>7. ASSUME NEW c \in Callers, ExistingForKey(c) PROVE caller' \in [Callers -> Call]
  BY <1>7, <1>t, <1>g, <1>p DEF ExistingForKey, ReqTo, Fail, NoReq, ReqOnly, procVars, dbVars, CallerPcs
<1>8. ASSUME NEW c \in Callers, Refused(c) PROVE caller' \in [Callers -> Call]
  BY <1>8, <1>t, <1>g, <1>p DEF Refused, Fail, NoReq, ReqOnly, procVars, dbVars, CallerPcs
<1>9. ASSUME NEW c \in Callers, Insert(c) PROVE caller' \in [Callers -> Call]
  BY <1>9, <1>t, <1>g, <1>p DEF Insert, Conflicts, ReqOnly, procVars, CallerPcs
<1>10. ASSUME NEW c \in Callers, PutKey(c) PROVE caller' \in [Callers -> Call]
  BY <1>10, <1>t, <1>g, <1>p DEF PutKey, ReqTo, ReqOnly, procVars, CallerPcs
<1>11. ASSUME NEW c \in Callers, Place(c) PROVE caller' \in [Callers -> Call]
  <2>1. req[c].sb \in Sandboxes \union {None}
    BY <1>t DEF Request
  <2> QED
    BY <1>11, <1>t, <1>g, <2>1 DEF Place, Answer, CallerPcs
<1>12. ASSUME NEW c \in Callers, Started(c) PROVE caller' \in [Callers -> Call]
  <2>1. req[c].sb \in Sandboxes \union {None}
    BY <1>t DEF Request
  <2>2. CASE Answer(c, req[c].sb)
    BY <1>t, <1>g, <2>1, <2>2 DEF Answer, CallerPcs
  <2>3. CASE Fail(c, "error")
    BY <1>q, <2>3 DEF Fail, CallerPcs
  <2> QED
    BY <1>12, <2>2, <2>3 DEF Started
<1>13. ASSUME NEW c \in Callers, Settle(c) PROVE caller' \in [Callers -> Call]
  <2>1. req[c].sb \in Sandboxes \union {None}
    BY <1>t DEF Request
  <2> QED
    BY <1>13, <1>t, <1>g, <2>1 DEF Settle, Answer, CallerPcs
<1>14. ASSUME NEW d \in Daemons, WritePid(d) PROVE caller' \in [Callers -> Call]
  BY <1>14, <1>t, <1>g, <1>p DEF WritePid, Dmn, DmnOnly, dbVars, CallerPcs
<1>15. ASSUME NEW d \in Daemons, OpenDb(d) PROVE caller' \in [Callers -> Call]
  BY <1>15, <1>t, <1>g, <1>p DEF OpenDb, Dmn, DmnOnly, Leaves, dbVars, CallerPcs
<1>16. ASSUME NEW d \in Daemons, RunScript(d) PROVE caller' \in [Callers -> Call]
  BY <1>16, <1>t, <1>g, <1>p DEF RunScript, Dmn, DmnOnly, Leaves, CallerPcs
<1>17. ASSUME NEW d \in Daemons, RecordVersion(d) PROVE caller' \in [Callers -> Call]
  BY <1>17, <1>t, <1>g, <1>p DEF RecordVersion, Dmn, DmnOnly, Leaves, CallerPcs
<1>18. ASSUME NEW d \in Daemons, Recover(d) PROVE caller' \in [Callers -> Call]
  BY <1>18, <1>t, <1>g, <1>p DEF Recover, Dmn, DmnOnly, Leaves, CallerPcs
<1>19. ASSUME NEW d \in Daemons, Bind(d) PROVE caller' \in [Callers -> Call]
  BY <1>19, <1>t, <1>g, <1>p DEF Bind, Dmn, DmnOnly, dbVars, CallerPcs
<1>20. ASSUME NEW d \in Daemons, Drain(d) PROVE caller' \in [Callers -> Call]
  BY <1>20, <1>t, <1>g, <1>p DEF Drain, Dmn, DmnOnly, dbVars, CallerPcs
<1>21. ASSUME NEW d \in Daemons, Drained(d) PROVE caller' \in [Callers -> Call]
  BY <1>21, <1>t, <1>g, <1>p DEF Drained, Dmn, DmnOnly, Leaves, dbVars, CallerPcs
<1>22. ASSUME NEW d \in Daemons, Exit(d) PROVE caller' \in [Callers -> Call]
  BY <1>22, <1>t, <1>g, <1>p DEF Exit, DmnOnly, dbVars, CallerPcs
<1>23. ASSUME NEW d \in Daemons, Crash(d) PROVE caller' \in [Callers -> Call]
  BY <1>23, <1>t, <1>g, <1>p DEF Crash, Dies, NoReq, dbVars, CallerPcs
<1>24. CASE Housekeeping
  BY <1>24, <1>t, <1>g, <1>p DEF Housekeeping, procVars, CallerPcs
<1>25. CASE StopBegin
  BY <1>25, <1>t, <1>g, <1>p DEF StopBegin, dbVars, CallerPcs
<1>26. CASE StopKill
  BY <1>26, <1>t, <1>g, <1>p DEF StopKill, Dies, NoReq, dbVars, CallerPcs
<1>27. CASE StopEnd
  BY <1>27, <1>t, <1>g, <1>p DEF StopEnd, dbVars, CallerPcs
<1>28. ASSUME NEW c \in Callers, GiveUp(c) PROVE caller' \in [Callers -> Call]
  BY <1>28, <1>t, <1>g, <1>p DEF GiveUp, Go, CallerOnly, procVars, dbVars, CallerPcs
<1>29. ASSUME NEW d \in Daemons, Reaped(d) PROVE caller' \in [Callers -> Call]
  BY <1>29, <1>t, <1>g, <1>p DEF Reaped, Dmn, DmnOnly, Leaves, dbVars, CallerPcs
<1>30. ASSUME NEW d \in Daemons, Reused(d) PROVE caller' \in [Callers -> Call]
  BY <1>30, <1>t, <1>g, <1>p DEF Reused, Dmn, DmnOnly, Leaves, dbVars, CallerPcs
<1> QED
  BY <1>1, <1>2, <1>3, <1>4, <1>5, <1>6, <1>7, <1>8, <1>9, <1>10, <1>11, <1>12,
     <1>13, <1>14, <1>15, <1>16, <1>17, <1>18, <1>19, <1>20, <1>21, <1>22, <1>23, <1>24,
     <1>25, <1>26, <1>27, <1>28, <1>29, <1>30
     DEF Next, CallerStep, ReqStep, DaemonStep

\* The types of the requests, the pid file and the port.
LEMMA RequestsStep ==
  ASSUME SessionsAssumption, KeyInv, Next
  PROVE  ServerOK'
<1> USE DEF KeyInv
<1>t. /\ caller \in [Callers -> Call] /\ req \in [Callers -> Request]
      /\ pidFile \in Daemons \union {None} /\ listener \in Daemons \union {None}
  BY DEF TypeOK, ServerOK
<1>n. NoReq \in Request
  BY DEF NoReq, Request, ReqPcs
<1>p. \A c \in Callers, pc \in ReqPcs : [req[c] EXCEPT !.pc = pc] \in Request
  BY <1>t DEF Request
<1>1. ASSUME NEW c \in Callers, Probe(c) PROVE ServerOK'
  BY <1>1, <1>t, <1>n, <1>p DEF Probe, Go, CallerOnly, procVars, dbVars, ReqPcs, ServerOK
<1>2. ASSUME NEW c \in Callers, ReadPid(c) PROVE ServerOK'
  BY <1>2, <1>t, <1>n, <1>p DEF ReadPid, AwaitPid, Starting, PidAlive, Fresh, dbVars, ReqPcs, ServerOK
<1>3. ASSUME NEW c \in Callers, Await(c) PROVE ServerOK'
  BY <1>3, <1>t, <1>n, <1>p DEF Await, Go, CallerOnly, procVars, dbVars, ReqPcs, ServerOK
<1>4. ASSUME NEW c \in Callers, Send(c) PROVE ServerOK'
  <2>1. [pc |-> "look", at |-> listener, sb |-> None, lost |-> FALSE] \in Request
    BY <1>t DEF Request, ReqPcs
  <2> QED
    BY <1>4, <1>t, <2>1 DEF Send, procVars, ServerOK
<1>5. ASSUME NEW c \in Callers, Retry(c) PROVE ServerOK'
  BY <1>5, <1>t, <1>n, <1>p DEF Retry, Go, CallerOnly, procVars, dbVars, ReqPcs, ServerOK
<1>6. ASSUME NEW c \in Callers, AwaitTimeout(c) PROVE ServerOK'
  BY <1>6, <1>t, <1>n, <1>p DEF AwaitTimeout, Go, CallerOnly, procVars, dbVars, ReqPcs, ServerOK
<1>7. ASSUME NEW c \in Callers, ExistingForKey(c) PROVE ServerOK'
  <2>1. CASE Existing # {} /\ req' = [req EXCEPT ![c].pc = "settle", ![c].sb = CHOOSE s \in Existing : TRUE]
    <3>1. (CHOOSE s \in Existing : TRUE) \in Sandboxes
      BY <2>1 DEF Existing, Rows, KeyRow
    <3>2. req' \in [Callers -> Request]
      BY ZenonT(60), <1>t, <2>1, <3>1 DEF Request, ReqPcs
    <3> QED
      BY <1>7, <1>t, <3>2 DEF ExistingForKey, ReqOnly, procVars, ServerOK
  <2> QED
    BY <1>7, <1>t, <1>n, <1>p, <2>1 DEF ExistingForKey, ReqTo, Fail, ReqOnly, procVars, ReqPcs, ServerOK
<1>8. ASSUME NEW c \in Callers, Refused(c) PROVE ServerOK'
  BY <1>8, <1>t, <1>n, <1>p DEF Refused, Fail, NoReq, ReqOnly, procVars, dbVars, ReqPcs, ServerOK
<1>9. ASSUME NEW c \in Callers, Insert(c) PROVE ServerOK'
  <2>1. CASE Rows # {}
    BY <1>9, <1>t, <2>1 DEF Insert, Conflicts, ReqOnly, procVars, Request, ReqPcs, ServerOK
  <2>2. CASE Rows = {}
    <3>1. (CHOOSE x \in NewIds : TRUE) \in Sandboxes
      BY <1>9, <2>2 DEF Insert, Conflicts, NewIds
    <3> QED
      BY <1>9, <1>t, <2>2, <3>1 DEF Insert, Conflicts, ReqOnly, procVars, Request, ReqPcs, ServerOK
  <2> QED
    BY <2>1, <2>2
<1>10. ASSUME NEW c \in Callers, PutKey(c) PROVE ServerOK'
  BY <1>10, <1>t, <1>n, <1>p DEF PutKey, ReqTo, ReqOnly, procVars, ReqPcs, ServerOK
<1>11. ASSUME NEW c \in Callers, Place(c) PROVE ServerOK'
  BY <1>11, <1>t, <1>n, <1>p DEF Place, Answer, ReqTo, NoReq, ReqOnly, procVars, ReqPcs, ServerOK
<1>12. ASSUME NEW c \in Callers, Started(c) PROVE ServerOK'
  BY <1>12, <1>t, <1>n, <1>p DEF Started, Answer, Fail, NoReq, ReqOnly, procVars, ReqPcs, ServerOK
<1>13. ASSUME NEW c \in Callers, Settle(c) PROVE ServerOK'
  BY <1>13, <1>t, <1>n, <1>p DEF Settle, Answer, NoReq, ReqOnly, procVars, dbVars, ReqPcs, ServerOK
<1>14. ASSUME NEW d \in Daemons, WritePid(d) PROVE ServerOK'
  BY <1>14, <1>t, <1>n, <1>p DEF WritePid, Dmn, DmnOnly, dbVars, ReqPcs, ServerOK
<1>15. ASSUME NEW d \in Daemons, OpenDb(d) PROVE ServerOK'
  BY <1>15, <1>t, <1>n, <1>p DEF OpenDb, Dmn, DmnOnly, Leaves, dbVars, ReqPcs, ServerOK
<1>16. ASSUME NEW d \in Daemons, RunScript(d) PROVE ServerOK'
  BY <1>16, <1>t, <1>n, <1>p DEF RunScript, Dmn, DmnOnly, Leaves, ReqPcs, ServerOK
<1>17. ASSUME NEW d \in Daemons, RecordVersion(d) PROVE ServerOK'
  BY <1>17, <1>t, <1>n, <1>p DEF RecordVersion, Dmn, DmnOnly, Leaves, ReqPcs, ServerOK
<1>18. ASSUME NEW d \in Daemons, Recover(d) PROVE ServerOK'
  BY <1>18, <1>t, <1>n, <1>p DEF Recover, Dmn, DmnOnly, Leaves, ReqPcs, ServerOK
<1>19. ASSUME NEW d \in Daemons, Bind(d) PROVE ServerOK'
  BY <1>19, <1>t, <1>n, <1>p DEF Bind, Dmn, DmnOnly, dbVars, ReqPcs, ServerOK
<1>20. ASSUME NEW d \in Daemons, Drain(d) PROVE ServerOK'
  BY <1>20, <1>t, <1>n, <1>p DEF Drain, Dmn, DmnOnly, dbVars, ReqPcs, ServerOK
<1>21. ASSUME NEW d \in Daemons, Drained(d) PROVE ServerOK'
  BY <1>21, <1>t, <1>n, <1>p DEF Drained, Dmn, DmnOnly, Leaves, dbVars, ReqPcs, ServerOK
<1>22. ASSUME NEW d \in Daemons, Exit(d) PROVE ServerOK'
  BY <1>22, <1>t, <1>n, <1>p DEF Exit, DmnOnly, dbVars, ReqPcs, ServerOK
<1>23. ASSUME NEW d \in Daemons, Crash(d) PROVE ServerOK'
  BY <1>23, <1>t, <1>n, <1>p DEF Crash, Dies, NoReq, dbVars, ReqPcs, ServerOK
<1>24. CASE Housekeeping
  BY <1>24, <1>t, <1>n, <1>p DEF Housekeeping, procVars, ReqPcs, ServerOK
<1>25. CASE StopBegin
  BY <1>25, <1>t, <1>n, <1>p DEF StopBegin, dbVars, ReqPcs, ServerOK
<1>26. CASE StopKill
  BY <1>26, <1>t, <1>n, <1>p DEF StopKill, Dies, NoReq, dbVars, ReqPcs, ServerOK
<1>27. CASE StopEnd
  BY <1>27, <1>t, <1>n, <1>p DEF StopEnd, dbVars, ReqPcs, ServerOK
<1>28. ASSUME NEW c \in Callers, GiveUp(c) PROVE ServerOK'
  BY <1>28, <1>t, <1>n, <1>p DEF GiveUp, Go, CallerOnly, procVars, dbVars, ReqPcs, ServerOK
<1>29. ASSUME NEW d \in Daemons, Reaped(d) PROVE ServerOK'
  BY <1>29, <1>t, <1>n, <1>p DEF Reaped, Dmn, DmnOnly, Leaves, dbVars, ReqPcs, ServerOK
<1>30. ASSUME NEW d \in Daemons, Reused(d) PROVE ServerOK'
  BY <1>30, <1>t, <1>n, <1>p DEF Reused, Dmn, DmnOnly, Leaves, dbVars, ReqPcs, ServerOK
<1> QED
  BY <1>1, <1>2, <1>3, <1>4, <1>5, <1>6, <1>7, <1>8, <1>9, <1>10, <1>11, <1>12,
     <1>13, <1>14, <1>15, <1>16, <1>17, <1>18, <1>19, <1>20, <1>21, <1>22, <1>23, <1>24,
     <1>25, <1>26, <1>27, <1>28, <1>29, <1>30
     DEF Next, CallerStep, ReqStep, DaemonStep

\* A request that is left alone keeps its row.
LEMMA ReqKept ==
  ASSUME KeyInv, RowsChange, NEW e \in Callers, req'[e] = req[e]
  PROVE  ReqInv(e)'
<1>1. ReqInv(e)
  BY DEF KeyInv
<1>2. Rows' = Rows \/ Rows = {} \/ req[e].pc = "none"
  BY DEF RowsChange
<1>3. Rows = {} => Rows' = Rows \/ Rows' # {}
  OBVIOUS
<1> QED
  BY <1>1, <1>2, <1>3 DEF ReqInv

\* What a caller was given stays in the table or was deleted from it.
LEMMA GivenKept ==
  ASSUME KeyInv, RowsChange, NEW e \in Callers, caller'[e].got = None \/ caller'[e].got = caller[e].got
  PROVE  Given(e)'
<1>1. Given(e) /\ caller[e].got \in Sandboxes \union {None}
  BY DEF KeyInv, TypeOK, Call
<1> QED
  BY <1>1 DEF RowsChange, Given

\* The answer of a request is a row that is there.
LEMMA AnswerGiven ==
  ASSUME KeyInv, RowsChange, NEW c \in Callers, req[c].pc \in {"put", "place", "start", "settle"},
         caller'[c].got = req[c].sb
  PROVE  Given(c)'
<1>1. req[c].sb \in Rows
  BY DEF KeyInv, ReqInv
<1> QED
  BY <1>1 DEF RowsChange, Rows, Given


\* Whatever a daemon, another caller or housekeeping does, a request finds the row it
\* works on, and the sandbox a caller was given is or was in the table (create_sandbox).
LEMMA RequestStep ==
  ASSUME SessionsAssumption, KeyInv, Next
  PROVE  \A e \in Callers : ReqInv(e)' /\ Given(e)'
<1> USE DEF KeyInv
<1>t. caller \in [Callers -> Call] /\ req \in [Callers -> Request] /\ row \in [Sandboxes -> RowStates]
  BY DEF TypeOK, ServerOK
<1>r. RowsChange
  BY RowsStep
<1>1. ASSUME NEW c \in Callers, Probe(c) PROVE \A e \in Callers : ReqInv(e)' /\ Given(e)'
  <2>1. \A e \in Callers : req'[e] = req[e] /\ (caller'[e].got = None \/ caller'[e].got = caller[e].got)
    BY <1>1, <1>t DEF Probe, Go, CallerOnly, procVars, dbVars, Call
  <2> QED
    BY <1>r, <2>1, ReqKept, GivenKept
<1>2. ASSUME NEW c \in Callers, ReadPid(c) PROVE \A e \in Callers : ReqInv(e)' /\ Given(e)'
  <2>1. \A e \in Callers : req'[e] = req[e] /\ (caller'[e].got = None \/ caller'[e].got = caller[e].got)
    BY <1>2, <1>t DEF ReadPid, AwaitPid, Starting, PidAlive, Fresh, dbVars, Call
  <2> QED
    BY <1>r, <2>1, ReqKept, GivenKept
<1>3. ASSUME NEW c \in Callers, Await(c) PROVE \A e \in Callers : ReqInv(e)' /\ Given(e)'
  <2>1. \A e \in Callers : req'[e] = req[e] /\ (caller'[e].got = None \/ caller'[e].got = caller[e].got)
    BY <1>3, <1>t DEF Await, Go, CallerOnly, procVars, dbVars, Call
  <2> QED
    BY <1>r, <2>1, ReqKept, GivenKept
<1>4. ASSUME NEW c \in Callers, Send(c) PROVE \A e \in Callers : ReqInv(e)' /\ Given(e)'
  <2>1. \A e \in Callers \ {c} : req'[e] = req[e] /\ caller'[e] = caller[e]
    BY <1>4, <1>t DEF Send, Go, Healthy, procVars, dbVars
  <2>2. \A e \in Callers \ {c} : ReqInv(e)' /\ Given(e)'
    BY <1>r, <2>1, ReqKept, GivenKept
  <2>3. caller'[c].got = None /\ (req'[c] = req[c] \/ (req'[c].pc = "look" /\ ~req'[c].lost))
    BY <1>4, <1>t DEF Send, Go, Healthy, procVars, dbVars, Call, Request
  <2>4. ReqInv(c)' /\ Given(c)'
    BY <1>r, <2>3, ReqKept, GivenKept DEF ReqInv
  <2> QED
    BY <2>2, <2>4
<1>5. ASSUME NEW c \in Callers, Retry(c) PROVE \A e \in Callers : ReqInv(e)' /\ Given(e)'
  <2>1. \A e \in Callers : req'[e] = req[e] /\ (caller'[e].got = None \/ caller'[e].got = caller[e].got)
    BY <1>5, <1>t DEF Retry, Go, CallerOnly, procVars, dbVars, Call
  <2> QED
    BY <1>r, <2>1, ReqKept, GivenKept
<1>6. ASSUME NEW c \in Callers, AwaitTimeout(c) PROVE \A e \in Callers : ReqInv(e)' /\ Given(e)'
  <2>1. \A e \in Callers : req'[e] = req[e] /\ (caller'[e].got = None \/ caller'[e].got = caller[e].got)
    BY <1>6, <1>t DEF AwaitTimeout, Go, CallerOnly, procVars, dbVars, Call
  <2> QED
    BY <1>r, <2>1, ReqKept, GivenKept
<1>7. ASSUME NEW c \in Callers, ExistingForKey(c) PROVE \A e \in Callers : ReqInv(e)' /\ Given(e)'
  <2>1. \A e \in Callers \ {c} : req'[e] = req[e] /\ caller'[e] = caller[e]
    BY <1>7, <1>t DEF ExistingForKey, ReqTo, Fail, NoReq, ReqOnly, procVars, dbVars
  <2>2. \A e \in Callers \ {c} : ReqInv(e)' /\ Given(e)'
    BY <1>r, <2>1, ReqKept, GivenKept
  <2>3. caller'[c].got = caller[c].got
    BY <1>7, <1>t DEF ExistingForKey, ReqTo, Fail, NoReq, Call
  <2>4. UNCHANGED row /\ ReqInv(c) /\ Rows' = Rows
    BY <1>7 DEF ExistingForKey, ReqTo, Fail, NoReq, dbVars, Rows
  <2>5. CASE Existing # {} /\ req' = [req EXCEPT ![c].pc = "settle", ![c].sb = CHOOSE s \in Existing : TRUE]
    <3>1. (CHOOSE s \in Existing : TRUE) \in Rows /\ Rows # {}
      BY <2>5 DEF Existing, KeyRow
    <3>2. req'[c].pc = "settle" /\ req'[c].sb \in Rows
      BY <1>t, <2>5, <3>1 DEF Request
    <3> QED
      BY <1>r, <2>2, <2>3, <2>4, <3>1, <3>2, GivenKept DEF ReqInv
  <2>6. CASE ~req[c].lost /\ ReqTo(c, "insert")
    <3>1. req'[c].pc = "insert" /\ ~req'[c].lost
      BY <1>t, <2>6 DEF ReqTo, Request
    <3> QED
      BY <1>r, <2>2, <2>3, <3>1, GivenKept DEF ReqInv
  <2>7. CASE req'[c] = NoReq
    BY <1>r, <2>2, <2>3, <2>7, GivenKept DEF ReqInv, NoReq
  <2> QED
    BY <2>2, <2>5, <2>6, <2>7, <1>7, <1>t DEF ExistingForKey, Fail
<1>8. ASSUME NEW c \in Callers, Refused(c) PROVE \A e \in Callers : ReqInv(e)' /\ Given(e)'
  <2>1. \A e \in Callers \ {c} : req'[e] = req[e] /\ caller'[e] = caller[e]
    BY <1>8, <1>t DEF Refused, Fail, NoReq, ReqOnly, procVars, dbVars
  <2>2. \A e \in Callers \ {c} : ReqInv(e)' /\ Given(e)'
    BY <1>r, <2>1, ReqKept, GivenKept
  <2>3. req'[c] = NoReq /\ caller'[c].got = caller[c].got
    BY <1>8, <1>t DEF Refused, Fail, NoReq, ReqOnly, procVars, dbVars, Call
  <2>4. ReqInv(c)' /\ Given(c)'
    BY <1>r, <2>3, GivenKept DEF ReqInv, NoReq
  <2> QED
    BY <2>2, <2>4
<1>9. ASSUME NEW c \in Callers, Insert(c) PROVE \A e \in Callers : ReqInv(e)' /\ Given(e)'
  <2>1. \A e \in Callers \ {c} : req'[e] = req[e] /\ caller'[e] = caller[e]
    BY <1>9, <1>t DEF Insert, Conflicts, ReqOnly, procVars
  <2>2. \A e \in Callers \ {c} : ReqInv(e)' /\ Given(e)'
    BY <1>r, <2>1, ReqKept, GivenKept
  <2>3. UNCHANGED caller
    BY <1>9 DEF Insert
  <2>4. CASE Rows # {}
    <3>1. req'[c].pc = "look" /\ UNCHANGED row
      BY <1>9, <1>t, <2>4 DEF Insert, Conflicts, Request
    <3>2. Rows' # {}
      BY <2>4, <3>1 DEF Rows
    <3> QED
      BY <1>r, <2>2, <2>3, <3>1, <3>2, GivenKept DEF ReqInv
  <2>5. CASE Rows = {}
    <3> DEFINE s == CHOOSE x \in NewIds : TRUE
    <3>1. s \in NewIds /\ row' = [row EXCEPT ![s] = "PENDING"] /\ req' = [req EXCEPT ![c].pc = "put", ![c].sb = s]
      BY <1>9, <2>5 DEF Insert, Conflicts
    <3> HIDE DEF s
    <3>2. s \in Rows' /\ req'[c].sb = s /\ req'[c].pc = "put"
      BY <1>t, <3>1 DEF NewIds, Rows, Request
    <3> QED
      BY <1>r, <2>2, <2>3, <3>2, GivenKept DEF ReqInv
  <2> QED
    BY <2>2, <2>4, <2>5
<1>10. ASSUME NEW c \in Callers, PutKey(c) PROVE \A e \in Callers : ReqInv(e)' /\ Given(e)'
  <2>1. \A e \in Callers \ {c} : req'[e] = req[e] /\ caller'[e] = caller[e]
    BY <1>10, <1>t DEF PutKey, ReqTo, ReqOnly, procVars
  <2>2. \A e \in Callers \ {c} : ReqInv(e)' /\ Given(e)'
    BY <1>r, <2>1, ReqKept, GivenKept
  <2>3. UNCHANGED <<caller, row>> /\ req[c].pc = "put" /\ req'[c].pc = "place" /\ req'[c].sb = req[c].sb /\ req'[c].lost = req[c].lost
    BY <1>10, <1>t DEF PutKey, ReqTo, Request
  <2>4. Rows' = Rows
    BY <2>3 DEF Rows
  <2>5. ReqInv(c)' /\ Given(c)'
    BY <1>r, <2>3, <2>4, GivenKept DEF ReqInv
  <2> QED
    BY <2>2, <2>5
<1>11. ASSUME NEW c \in Callers, Place(c) PROVE \A e \in Callers : ReqInv(e)' /\ Given(e)'
  <2>1. \A e \in Callers \ {c} : req'[e] = req[e] /\ caller'[e] = caller[e]
    BY <1>11, <1>t DEF Place, Answer, ReqTo, NoReq, ReqOnly, procVars
  <2>2. \A e \in Callers \ {c} : ReqInv(e)' /\ Given(e)'
    BY <1>r, <2>1, ReqKept, GivenKept
  <2>3. CASE row[req[c].sb] \in Terminal
    <3>1. req'[c] = NoReq /\ caller'[c].got = req[c].sb
      BY <1>11, <1>t, <2>3 DEF Place, Answer
    <3> QED
      BY <1>11, <1>r, <2>2, <3>1, AnswerGiven DEF Place, ReqInv, NoReq
  <2>4. CASE row[req[c].sb] \notin Terminal
    <3>1. /\ UNCHANGED caller /\ req'[c].pc = "start" /\ req'[c].sb = req[c].sb /\ req'[c].lost = req[c].lost
          /\ row' = [row EXCEPT ![req[c].sb] = "CREATING"] /\ req[c].pc = "place"
      BY <1>11, <1>t, <2>4 DEF Place, ReqTo, Request
    <3>2. req[c].sb \in Rows
      BY <3>1 DEF ReqInv
    <3>3. req[c].sb \in Rows'
      BY <1>t, <3>1, <3>2 DEF Rows
    <3> QED
      BY <1>r, <2>2, <3>1, <3>3, GivenKept DEF ReqInv
  <2> QED
    BY <2>2, <2>3, <2>4
<1>12. ASSUME NEW c \in Callers, Started(c) PROVE \A e \in Callers : ReqInv(e)' /\ Given(e)'
  <2>1. \A e \in Callers \ {c} : req'[e] = req[e] /\ caller'[e] = caller[e]
    BY <1>12, <1>t DEF Started, Answer, Fail, NoReq, ReqOnly, procVars
  <2>2. \A e \in Callers \ {c} : ReqInv(e)' /\ Given(e)'
    BY <1>r, <2>1, ReqKept, GivenKept
  <2>3. req'[c] = NoReq /\ (caller'[c].got = req[c].sb \/ caller'[c].got = caller[c].got)
    <3>1. CASE Answer(c, req[c].sb)
      BY <1>t, <3>1 DEF Answer
    <3>2. CASE Fail(c, "error")
      BY <1>t, <3>2 DEF Fail, Call
    <3> QED
      BY <1>12, <3>1, <3>2 DEF Started
  <2>4. ReqInv(c)' /\ Given(c)'
    BY <1>12, <1>r, <2>3, AnswerGiven, GivenKept DEF Started, ReqInv, NoReq
  <2> QED
    BY <2>2, <2>4
<1>13. ASSUME NEW c \in Callers, Settle(c) PROVE \A e \in Callers : ReqInv(e)' /\ Given(e)'
  <2>1. \A e \in Callers \ {c} : req'[e] = req[e] /\ caller'[e] = caller[e]
    BY <1>13, <1>t DEF Settle, Answer, NoReq, ReqOnly, procVars, dbVars
  <2>2. \A e \in Callers \ {c} : ReqInv(e)' /\ Given(e)'
    BY <1>r, <2>1, ReqKept, GivenKept
  <2>3. req'[c] = NoReq /\ caller'[c].got = req[c].sb
    BY <1>13, <1>t DEF Settle, Answer, NoReq, ReqOnly, procVars, dbVars, Call
  <2>4. ReqInv(c)' /\ Given(c)'
    BY <1>13, <1>r, <2>3, AnswerGiven DEF Settle, ReqInv, NoReq
  <2> QED
    BY <2>2, <2>4
<1>14. ASSUME NEW d \in Daemons, WritePid(d) PROVE \A e \in Callers : ReqInv(e)' /\ Given(e)'
  <2>1. \A e \in Callers : req'[e] = req[e] /\ (caller'[e].got = None \/ caller'[e].got = caller[e].got)
    BY <1>14, <1>t DEF WritePid, Dmn, DmnOnly, dbVars, Call
  <2> QED
    BY <1>r, <2>1, ReqKept, GivenKept
<1>15. ASSUME NEW d \in Daemons, OpenDb(d) PROVE \A e \in Callers : ReqInv(e)' /\ Given(e)'
  <2>1. \A e \in Callers : req'[e] = req[e] /\ (caller'[e].got = None \/ caller'[e].got = caller[e].got)
    BY <1>15, <1>t DEF OpenDb, Dmn, DmnOnly, Leaves, dbVars, Call
  <2> QED
    BY <1>r, <2>1, ReqKept, GivenKept
<1>16. ASSUME NEW d \in Daemons, RunScript(d) PROVE \A e \in Callers : ReqInv(e)' /\ Given(e)'
  <2>1. \A e \in Callers : req'[e] = req[e] /\ (caller'[e].got = None \/ caller'[e].got = caller[e].got)
    BY <1>16, <1>t DEF RunScript, Dmn, DmnOnly, Leaves, Call
  <2> QED
    BY <1>r, <2>1, ReqKept, GivenKept
<1>17. ASSUME NEW d \in Daemons, RecordVersion(d) PROVE \A e \in Callers : ReqInv(e)' /\ Given(e)'
  <2>1. \A e \in Callers : req'[e] = req[e] /\ (caller'[e].got = None \/ caller'[e].got = caller[e].got)
    BY <1>17, <1>t DEF RecordVersion, Dmn, DmnOnly, Leaves, Call
  <2> QED
    BY <1>r, <2>1, ReqKept, GivenKept
<1>18. ASSUME NEW d \in Daemons, Recover(d) PROVE \A e \in Callers : ReqInv(e)' /\ Given(e)'
  <2>1. \A e \in Callers : req'[e] = req[e] /\ (caller'[e].got = None \/ caller'[e].got = caller[e].got)
    BY <1>18, <1>t DEF Recover, Dmn, DmnOnly, Leaves, Call
  <2> QED
    BY <1>r, <2>1, ReqKept, GivenKept
<1>19. ASSUME NEW d \in Daemons, Bind(d) PROVE \A e \in Callers : ReqInv(e)' /\ Given(e)'
  <2>1. \A e \in Callers : req'[e] = req[e] /\ (caller'[e].got = None \/ caller'[e].got = caller[e].got)
    BY <1>19, <1>t DEF Bind, Dmn, DmnOnly, dbVars, Call
  <2> QED
    BY <1>r, <2>1, ReqKept, GivenKept
<1>20. ASSUME NEW d \in Daemons, Drain(d) PROVE \A e \in Callers : ReqInv(e)' /\ Given(e)'
  <2>1. \A e \in Callers : req'[e] = req[e] /\ (caller'[e].got = None \/ caller'[e].got = caller[e].got)
    BY <1>20, <1>t DEF Drain, Dmn, DmnOnly, dbVars, Call
  <2> QED
    BY <1>r, <2>1, ReqKept, GivenKept
<1>21. ASSUME NEW d \in Daemons, Drained(d) PROVE \A e \in Callers : ReqInv(e)' /\ Given(e)'
  <2>1. \A e \in Callers : req'[e] = req[e] /\ (caller'[e].got = None \/ caller'[e].got = caller[e].got)
    BY <1>21, <1>t DEF Drained, Dmn, DmnOnly, Leaves, dbVars, Call
  <2> QED
    BY <1>r, <2>1, ReqKept, GivenKept
<1>22. ASSUME NEW d \in Daemons, Exit(d) PROVE \A e \in Callers : ReqInv(e)' /\ Given(e)'
  <2>1. \A e \in Callers : req'[e] = req[e] /\ (caller'[e].got = None \/ caller'[e].got = caller[e].got)
    BY <1>22, <1>t DEF Exit, DmnOnly, dbVars, Call
  <2> QED
    BY <1>r, <2>1, ReqKept, GivenKept
<1>23. ASSUME NEW d \in Daemons, Crash(d) PROVE \A e \in Callers : ReqInv(e)' /\ Given(e)'
  <2>1. \A e \in Callers : /\ req'[e] = req[e] \/ req'[e] = NoReq
                          /\ caller'[e].got = caller[e].got
    BY <1>23, <1>t DEF Crash, Dies, NoReq, Call
  <2>2. \A e \in Callers : req'[e] = NoReq => ReqInv(e)'
    BY DEF ReqInv, NoReq
  <2> QED
    BY <1>r, <2>1, <2>2, ReqKept, GivenKept
<1>24. CASE Housekeeping
  <2>1. \A e \in Callers : req'[e] = req[e] /\ (caller'[e].got = None \/ caller'[e].got = caller[e].got)
    BY <1>24, <1>t DEF Housekeeping, procVars, Call
  <2> QED
    BY <1>r, <2>1, ReqKept, GivenKept
<1>25. CASE StopBegin
  <2>1. \A e \in Callers : req'[e] = req[e] /\ (caller'[e].got = None \/ caller'[e].got = caller[e].got)
    BY <1>25, <1>t DEF StopBegin, dbVars, Call
  <2> QED
    BY <1>r, <2>1, ReqKept, GivenKept
<1>26. CASE StopKill
  <2>1. \A e \in Callers : /\ req'[e] = req[e] \/ req'[e] = NoReq
                          /\ caller'[e].got = caller[e].got
    BY <1>26, <1>t DEF StopKill, Dies, NoReq, Call
  <2>2. \A e \in Callers : req'[e] = NoReq => ReqInv(e)'
    BY DEF ReqInv, NoReq
  <2> QED
    BY <1>r, <2>1, <2>2, ReqKept, GivenKept
<1>27. CASE StopEnd
  <2>1. \A e \in Callers : req'[e] = req[e] /\ (caller'[e].got = None \/ caller'[e].got = caller[e].got)
    BY <1>27, <1>t DEF StopEnd, dbVars, Call
  <2> QED
    BY <1>r, <2>1, ReqKept, GivenKept
<1>28. ASSUME NEW c \in Callers, GiveUp(c) PROVE \A e \in Callers : ReqInv(e)' /\ Given(e)'
  <2>1. \A e \in Callers : req'[e] = req[e] /\ (caller'[e].got = None \/ caller'[e].got = caller[e].got)
    BY <1>28, <1>t DEF GiveUp, Go, CallerOnly, procVars, dbVars, Call
  <2> QED
    BY <1>r, <2>1, ReqKept, GivenKept
<1>29. ASSUME NEW d \in Daemons, Reaped(d) PROVE \A e \in Callers : ReqInv(e)' /\ Given(e)'
  <2>1. \A e \in Callers : req'[e] = req[e] /\ (caller'[e].got = None \/ caller'[e].got = caller[e].got)
    BY <1>29, <1>t DEF Reaped, Dmn, DmnOnly, Leaves, dbVars, Call
  <2> QED
    BY <1>r, <2>1, ReqKept, GivenKept
<1>30. ASSUME NEW d \in Daemons, Reused(d) PROVE \A e \in Callers : ReqInv(e)' /\ Given(e)'
  <2>1. \A e \in Callers : req'[e] = req[e] /\ (caller'[e].got = None \/ caller'[e].got = caller[e].got)
    BY <1>30, <1>t DEF Reused, Dmn, DmnOnly, Leaves, dbVars, Call
  <2> QED
    BY <1>r, <2>1, ReqKept, GivenKept
<1> QED
  BY <1>1, <1>2, <1>3, <1>4, <1>5, <1>6, <1>7, <1>8, <1>9, <1>10, <1>11, <1>12,
     <1>13, <1>14, <1>15, <1>16, <1>17, <1>18, <1>19, <1>20, <1>21, <1>22, <1>23, <1>24,
     <1>25, <1>26, <1>27, <1>28, <1>29, <1>30
     DEF Next, CallerStep, ReqStep, DaemonStep

\* Nobody who has lost the race is turned away (_existing_for_key).
LEMMA RaisedStep ==
  ASSUME SessionsAssumption, KeyInv, Next
  PROVE  KeyIsFound'
<1> USE DEF KeyInv
<1>t. caller \in [Callers -> Call] /\ req \in [Callers -> Request]
  BY DEF TypeOK, ServerOK
<1>1. ASSUME NEW c \in Callers, Probe(c) PROVE KeyIsFound'
  BY <1>1, <1>t DEF Probe, Go, CallerOnly, procVars, dbVars, KeyIsFound, Call
<1>2. ASSUME NEW c \in Callers, ReadPid(c) PROVE KeyIsFound'
  BY <1>2, <1>t DEF ReadPid, AwaitPid, Starting, PidAlive, Fresh, dbVars, KeyIsFound, Call
<1>3. ASSUME NEW c \in Callers, Await(c) PROVE KeyIsFound'
  BY <1>3, <1>t DEF Await, Go, CallerOnly, procVars, dbVars, KeyIsFound, Call
<1>4. ASSUME NEW c \in Callers, Send(c) PROVE KeyIsFound'
  BY <1>4, <1>t DEF Send, Go, Healthy, procVars, dbVars, KeyIsFound, Call
<1>5. ASSUME NEW c \in Callers, Retry(c) PROVE KeyIsFound'
  BY <1>5, <1>t DEF Retry, Go, CallerOnly, procVars, dbVars, KeyIsFound, Call
<1>6. ASSUME NEW c \in Callers, AwaitTimeout(c) PROVE KeyIsFound'
  BY <1>6, <1>t DEF AwaitTimeout, Go, CallerOnly, procVars, dbVars, KeyIsFound, Call
<1>7. ASSUME NEW c \in Callers, ExistingForKey(c) PROVE KeyIsFound'
  <2>1. ~(Existing = {} /\ req[c].lost)
    BY DEF ReqInv, Existing, KeyRow
  <2> QED
    BY <1>7, <2>1 DEF ExistingForKey, KeyIsFound
<1>8. ASSUME NEW c \in Callers, Refused(c) PROVE KeyIsFound'
  BY <1>8, <1>t DEF Refused, Fail, NoReq, ReqOnly, procVars, dbVars, KeyIsFound, Call
<1>9. ASSUME NEW c \in Callers, Insert(c) PROVE KeyIsFound'
  BY <1>9, <1>t DEF Insert, Conflicts, ReqOnly, procVars, KeyIsFound, Call
<1>10. ASSUME NEW c \in Callers, PutKey(c) PROVE KeyIsFound'
  BY <1>10, <1>t DEF PutKey, ReqTo, ReqOnly, procVars, KeyIsFound, Call
<1>11. ASSUME NEW c \in Callers, Place(c) PROVE KeyIsFound'
  BY <1>11, <1>t DEF Place, Answer, ReqTo, NoReq, ReqOnly, procVars, KeyIsFound, Call
<1>12. ASSUME NEW c \in Callers, Started(c) PROVE KeyIsFound'
  BY <1>12, <1>t DEF Started, Answer, Fail, NoReq, ReqOnly, procVars, KeyIsFound, Call
<1>13. ASSUME NEW c \in Callers, Settle(c) PROVE KeyIsFound'
  BY <1>13, <1>t DEF Settle, Answer, NoReq, ReqOnly, procVars, dbVars, KeyIsFound, Call
<1>14. ASSUME NEW d \in Daemons, WritePid(d) PROVE KeyIsFound'
  BY <1>14, <1>t DEF WritePid, Dmn, DmnOnly, dbVars, KeyIsFound, Call
<1>15. ASSUME NEW d \in Daemons, OpenDb(d) PROVE KeyIsFound'
  BY <1>15, <1>t DEF OpenDb, Dmn, DmnOnly, Leaves, dbVars, KeyIsFound, Call
<1>16. ASSUME NEW d \in Daemons, RunScript(d) PROVE KeyIsFound'
  BY <1>16, <1>t DEF RunScript, Dmn, DmnOnly, Leaves, KeyIsFound, Call
<1>17. ASSUME NEW d \in Daemons, RecordVersion(d) PROVE KeyIsFound'
  BY <1>17, <1>t DEF RecordVersion, Dmn, DmnOnly, Leaves, KeyIsFound, Call
<1>18. ASSUME NEW d \in Daemons, Recover(d) PROVE KeyIsFound'
  BY <1>18, <1>t DEF Recover, Dmn, DmnOnly, Leaves, KeyIsFound, Call
<1>19. ASSUME NEW d \in Daemons, Bind(d) PROVE KeyIsFound'
  BY <1>19, <1>t DEF Bind, Dmn, DmnOnly, dbVars, KeyIsFound, Call
<1>20. ASSUME NEW d \in Daemons, Drain(d) PROVE KeyIsFound'
  BY <1>20, <1>t DEF Drain, Dmn, DmnOnly, dbVars, KeyIsFound, Call
<1>21. ASSUME NEW d \in Daemons, Drained(d) PROVE KeyIsFound'
  BY <1>21, <1>t DEF Drained, Dmn, DmnOnly, Leaves, dbVars, KeyIsFound, Call
<1>22. ASSUME NEW d \in Daemons, Exit(d) PROVE KeyIsFound'
  BY <1>22, <1>t DEF Exit, DmnOnly, dbVars, KeyIsFound, Call
<1>23. ASSUME NEW d \in Daemons, Crash(d) PROVE KeyIsFound'
  BY <1>23, <1>t DEF Crash, Dies, NoReq, dbVars, KeyIsFound, Call
<1>24. CASE Housekeeping
  BY <1>24, <1>t DEF Housekeeping, procVars, KeyIsFound, Call
<1>25. CASE StopBegin
  BY <1>25, <1>t DEF StopBegin, dbVars, KeyIsFound, Call
<1>26. CASE StopKill
  BY <1>26, <1>t DEF StopKill, Dies, NoReq, dbVars, KeyIsFound, Call
<1>27. CASE StopEnd
  BY <1>27, <1>t DEF StopEnd, dbVars, KeyIsFound, Call
<1>28. ASSUME NEW c \in Callers, GiveUp(c) PROVE KeyIsFound'
  BY <1>28, <1>t DEF GiveUp, Go, CallerOnly, procVars, dbVars, KeyIsFound, Call
<1>29. ASSUME NEW d \in Daemons, Reaped(d) PROVE KeyIsFound'
  BY <1>29, <1>t DEF Reaped, Dmn, DmnOnly, Leaves, dbVars, KeyIsFound, Call
<1>30. ASSUME NEW d \in Daemons, Reused(d) PROVE KeyIsFound'
  BY <1>30, <1>t DEF Reused, Dmn, DmnOnly, Leaves, dbVars, KeyIsFound, Call
<1> QED
  BY <1>1, <1>2, <1>3, <1>4, <1>5, <1>6, <1>7, <1>8, <1>9, <1>10, <1>11, <1>12,
     <1>13, <1>14, <1>15, <1>16, <1>17, <1>18, <1>19, <1>20, <1>21, <1>22, <1>23, <1>24,
     <1>25, <1>26, <1>27, <1>28, <1>29, <1>30
     DEF Next, CallerStep, ReqStep, DaemonStep

\* At the start there is no row, no request and no answer.
LEMMA KeyInit ==
  ASSUME SessionsAssumption, Init
  PROVE  KeyInv
<1>1. TypeOK
  <2>1. caller \in [Callers -> Call]
    BY DEF Init, Call, CallerPcs
  <2>2. req \in [Callers -> Request]
    BY DEF Init, NoReq, Request, ReqPcs
  <2> QED
    BY <2>1, <2>2 DEF Init, TypeOK, ServerOK, RowStates
<1>2. Rows = {}
  BY DEF Init, Rows
<1>3. \A c \in Callers : ReqInv(c) /\ Given(c)
  BY DEF Init, NoReq, ReqInv, Given
<1>4. KeyIsFound
  BY DEF Init, KeyIsFound
<1> QED
  BY <1>1, <1>2, <1>3, <1>4 DEF KeyInv, OneRow

\* KeyInv is an invariant of callers, daemons and requests.
LEMMA KeySafe == Spec => []KeyInv
<1>1. Init => KeyInv
  BY SessionsAssumption, KeyInit
<1>2. KeyInv /\ [Next]_vars => KeyInv'
  <2> SUFFICES ASSUME KeyInv, [Next]_vars PROVE KeyInv'
    OBVIOUS
  <2> USE SessionsAssumption
  <2>1. CASE Next
    <3>1. RowsChange
      BY <2>1, RowsStep
    <3>2. TypeOK'
      BY <2>1, <3>1, CallsStep, RequestsStep DEF TypeOK, RowsChange
    <3>3. OneRow'
      <4>1. OneRow
        BY DEF KeyInv
      <4> QED
        BY <3>1, <4>1 DEF OneRow, RowsChange
    <3>4. (\A c \in Callers : ReqInv(c) /\ Given(c))' /\ KeyIsFound'
      BY <2>1, RequestStep, RaisedStep
    <3> QED
      BY <3>2, <3>3, <3>4 DEF KeyInv
  <2>2. CASE UNCHANGED vars
    BY <2>2 DEF vars, procVars, dbVars, KeyInv, TypeOK, ServerOK, OneRow, Rows, ReqInv, Given, KeyIsFound
  <2> QED
    BY <2>1, <2>2
<1> QED
  BY <1>1, <1>2, PTL DEF Spec

\* Repeats and races with one key are given one sandbox, as long as the first has not
\* ended and been deleted: for any callers, daemons, crashes and stops (create_sandbox,
\* the unique index).
THEOREM OneKeyOneSandbox == Spec => []SameSandbox
<1>1. ASSUME KeyInv PROVE SameSandbox
  <2> SUFFICES ASSUME NEW c \in Callers, NEW e \in Callers, caller[c].got # None, caller[e].got # None,
                      row[caller[c].got] # "deleted", row[caller[e].got] # "deleted"
               PROVE  caller[c].got = caller[e].got
    BY DEF SameSandbox
  <2>1. caller[c].got \in Sandboxes /\ caller[e].got \in Sandboxes
    BY <1>1 DEF KeyInv, TypeOK, Call
  <2>2. caller[c].got \in Rows /\ caller[e].got \in Rows
    BY <1>1, <2>1 DEF KeyInv, Given, Rows
  <2> QED
    BY <1>1, <2>2 DEF KeyInv, OneRow
<1>2. KeyInv => SameSandbox
  BY <1>1
<1> QED
  BY <1>2, KeySafe, PTL

\* IntegrityError never reaches a caller: who loses the race for the key, or comes after a
\* crash between the row and its mapping, or after the mapping has expired, finds the
\* sandbox (create_sandbox, _existing_for_key).
THEOREM LoserFindsWinner == Spec => []KeyIsFound
<1>1. KeyInv => KeyIsFound
  BY DEF KeyInv
<1> QED
  BY <1>1, KeySafe, PTL

=============================================================================
