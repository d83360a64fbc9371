----------------------------- MODULE FleetProofs -----------------------------
(***************************************************************************)
(* Theorems about WorkerFleet, for any number of workers, any pool bounds   *)
(* and any loads that keep FleetAssumption: no VM is ever out of sight, and *)
(* nothing but an orphan is taken for one.  The argument: a worker's id is   *)
(* not given away while a row, a task, a loop or a copy speaks of it; only   *)
(* the end of a termination and a missing cluster make a row terminal, and  *)
(* then the VM is gone, unless its task has yet to launch it.               *)
(***************************************************************************)
EXTENDS WorkerFleet, TLAPS

-----------------------------------------------------------------------------
(* A removal looks neither at the task that provisions the worker nor for a  *)
(* VM to come (remove_worker): if the process then ends before the task has *)
(* noticed, a VM that no row tracks is left.  NoVmUnseen is about the loads *)
(* that do not combine the two.                                             *)

Apart == \A load \in Loads : load.removes = 0 \/ load.crashes = 0

-----------------------------------------------------------------------------
(* Types *)

States == WorkerStates \cup {"none"}
Row == [st : States, dr : BOOLEAN, twe : BOOLEAN, fails : Nat]
PassSteps == {"idle", "visit", "status", "replace", "count", "shrink", "down", "off", "recover"}
UserSteps == {"idle", "all", "grow", "down"}
TaskSteps == {"idle", "launch", "connect", "finish", "fail", "cancel", "down"}
Served == {"HEALTHY", "DRAINING", "UNHEALTHY"}

RowsOK ==
  /\ row \in [Workers -> Row] /\ vm \in [Workers -> {"none", "launching", "up", "gone"}]
  /\ cp \in [Actors -> Row]
StepsOK ==
  /\ at \in [Actors -> PassSteps \cup UserSteps \cup TaskSteps]
  /\ at["pass"] \in PassSteps /\ at["user"] \in UserSteps /\ \A w \in Workers : at[w] \in TaskSteps
LoopsOK ==
  /\ wk \in [Loops -> [w : Workers \cup {"none"}, then : {"idle", "visit", "shrink", "recover", "all"}]]
  /\ list \in [Loops -> SUBSET (Workers \X Row)]
BudgetOK == budget \in [Troubles -> Nat] /\ (budget.removes = 0 \/ budget.crashes = 0)
TypeOK == RowsOK /\ StepsOK /\ LoopsOK /\ BudgetOK

-----------------------------------------------------------------------------
(* The inductive invariant *)

\* What a task writes back is never the end of a worker it has not taken down.
TaskCopies ==
  \A w \in Workers :
    /\ at[w] \in {"launch", "connect", "finish", "fail", "cancel"} => cp[w].st \in CountedWorker
    /\ at[w] = "down" => cp[w].st = "TERMINATING"

\* Nor is what a loop has listed, and scale-down takes only what has served.
Listing ==
  /\ \A a \in Loops : \A e \in list[a] : e[2].st \in CountedWorker
  /\ "shrink" \in {at["pass"], wk["pass"].then} => \A e \in list["pass"] : e[2].st \in Served
  /\ (at["user"] \in {"idle", "grow"} \/ (at["user"] = "down" /\ wk["user"].then = "idle"))
       => list["user"] = {}

\* A loop that holds a worker knows it and where to go on, and marked it if it takes it down.
Holding ==
  /\ \A a \in Loops :
       /\ at[a] = "down" => wk[a].w \in Workers /\ cp[a].st = "TERMINATING"
       /\ at[a] \notin {"down", "status"} => wk[a] = Idle
  /\ at["pass"] = "down" => wk["pass"].then \in {"visit", "shrink", "recover"}
  /\ at["user"] = "down" => wk["user"].then \in {"idle", "all"}
  /\ at["pass"] = "status" => wk["pass"].w \in Workers /\ cp["pass"].st \in CountedWorker

\* Whatever is under way about a worker, its row is there, so its id is not given away.
Known ==
  \A w \in Workers :
    (\/ at[w] # "idle" \/ \E a \in Loops : wk[a].w = w \/ \E e \in list[a] : e[1] = w)
       => row[w].st # "none"

\* A row or a copy says that a worker has served only if it has had a VM.
Existed ==
  /\ \A w \in Workers :
       vm[w] = "none" => row[w].st \notin Served /\ cp[w].st \notin Served
  /\ \A e \in list["pass"] : e[2].st \in Served => vm[e[1]] # "none"

\* While start() recovers, and before, nothing else runs.
Alone ==
  (at["pass"] = "off" \/ "recover" \in {at["pass"], wk["pass"].then}) =>
    /\ at["user"] = "idle"
    /\ at["pass"] # "off" => Provisioning = {}

\* A loop that asks about a worker, or takes it down, has seen that no task drives it or
\* that it has a VM, unless a user removes it.
Undriven ==
  /\ at["pass"] = "status" => ~ Owned(wk["pass"].w)
  /\ at["pass"] = "down" => ~ Owned(wk["pass"].w) \/ vm[wk["pass"].w] # "none"
  /\ at["user"] = "down" =>
       \/ ~ Owned(wk["user"].w) \/ vm[wk["user"].w] # "none"
       \/ wk["user"].then = "idle" /\ budget.crashes = 0

\* A worker removed before its VM exists: its task will still bring the VM up.  That is
\* safe, as no sweep has the task on its list and the process does not end.
Forgotten(w) == Owned(w) /\ row[w].st \notin CountedWorker /\ vm[w] # "gone"
Remembered ==
  \A w \in Workers :
    Forgotten(w) => budget.crashes = 0 /\ \A e \in list["user"] : e[1] # w

\* A VM, or one to come, is in the table or in the hands of a task.
Tracked ==
  \A w \in Workers : vm[w] \in {"launching", "up"} => Owned(w) \/ row[w].st \in CountedWorker

FleetInv ==
  /\ TypeOK /\ TaskCopies /\ Listing /\ Holding /\ Known /\ Existed /\ Alone
  /\ Undriven /\ Remembered /\ Tracked

-----------------------------------------------------------------------------
(* Helpers *)

\* The tasks of workers and the two loops are different actors.
LEMMA Distinct ==
  /\ \A w \in Workers : w # "pass" /\ w # "user" /\ w # "none" /\ \A a \in Loops : w # a
  /\ \A a \in Loops : a \in Actors /\ (a = "pass" \/ a = "user")
  /\ "pass" \in Loops /\ "user" \in Loops
  /\ \A w \in Workers : w \in Actors
  /\ "pass" \in Actors /\ "user" \in Actors
BY FleetAssumption DEF Loops, Actors

\* What a loop has listed is a worker with a copy of its row.
LEMMA Listings ==
  ASSUME TypeOK
  PROVE  \A a \in Loops : \A e \in list[a] : e[1] \in Workers /\ e[2] \in Row /\ e = <<e[1], e[2]>>
BY DEF TypeOK, LoopsOK, Loops

\* What is counted is not over.
LEMMA StateSets ==
  /\ CountedWorker = {"PROVISIONING", "BOOTSTRAPPING", "CONNECTING", "HEALTHY", "DRAINING", "UNHEALTHY", "TERMINATING"}
  /\ \A s \in CountedWorker : s \in States /\ s \notin TerminalWorker
BY DEF CountedWorker, WorkerStates, TerminalWorker, States

\* An id that is given away is nobody's, and has no VM.
LEMMA FreshIds ==
  ASSUME FleetInv, NEW w \in Fresh
  PROVE  /\ w \in Workers /\ at[w] = "idle" /\ vm[w] \notin {"launching", "up"}
         /\ \A a \in Loops : wk[a].w # w /\ \A e \in list[a] : e[1] # w
<1>1. w \in Workers
  BY DEF Fresh
<1>2. CASE row[w] = None
  <2>1. row[w].st = "none"
    BY <1>2 DEF None
  <2>2. ~(at[w] # "idle" \/ \E a \in Loops : wk[a].w = w \/ \E e \in list[a] : e[1] = w)
    BY <1>1, <2>1 DEF FleetInv, Known
  <2>3. row[w].st \notin CountedWorker
    BY <2>1, StateSets
  <2> QED
    BY <1>1, <2>2, <2>3 DEF FleetInv, Tracked, Owned, Provisioning
<1>3. CASE row[w] # None
  BY <1>1, <1>3 DEF Fresh
<1> QED
  BY <1>2, <1>3

\* What a loop lists are rows.
LEMMA Copied ==
  ASSUME RowsOK, NEW ws, ws \subseteq Workers
  PROVE  Copies(ws) \in SUBSET (Workers \X Row)
BY DEF Copies, RowsOK

\* A copy is taken of the row as it is.
LEMMA CopiesAre == \A ws : \A e \in Copies(ws) : e[1] \in ws /\ e[2] = row[e[1]]
BY DEF Copies

\* Spending keeps the budget, and what rules crashes out.
LEMMA Spends ==
  ASSUME BudgetOK, NEW kind \in Troubles, Spend(kind)
  PROVE  /\ BudgetOK' /\ (budget.crashes = 0 => budget'.crashes = 0)
         /\ kind = "removes" => budget'.crashes = 0
BY DEF BudgetOK, Spend, Troubles

\* What the start of a provisioning task does.
New == [None EXCEPT !.st = "PROVISIONING"]
Begun(w) ==
  /\ w \in Workers /\ at[w] = "idle" /\ vm[w] \notin {"launching", "up"}
  /\ \A a \in Loops : wk[a].w # w /\ \A e \in list[a] : e[1] # w
  /\ row' = [row EXCEPT ![w] = New] /\ vm' = [vm EXCEPT ![w] = "none"]
  /\ at' = [at EXCEPT ![w] = "launch"] /\ cp' = [cp EXCEPT ![w] = New]

\* The start of a task is Begun for some worker.
LEMMA Begins ==
  ASSUME FleetInv, StartProvisioning
  PROVE  \E w \in Workers : Begun(w)
<1> DEFINE w == CHOOSE x \in Fresh : TRUE
<1>1. w \in Fresh
  BY DEF StartProvisioning
<1>2. Begun(w)
  BY <1>1, FreshIds DEF StartProvisioning, Put, Goto, Begun, New
<1> QED
  BY <1>1, <1>2 DEF Fresh

\* A new row, and none, are rows.
LEMMA NewRow == New \in Row /\ None \in Row /\ New.st = "PROVISIONING" /\ None.st = "none"
BY DEF New, None, Row, States, WorkerStates

(* What steps do to the parts of the state the invariant speaks of. *)

Rewrites(w, r) == r \in Row /\ row' = [row EXCEPT ![w] = r]

\* Loop a starts to take worker w down.
TakesDown(a, w, then) ==
  \E m \in Row :
    /\ m.st = "TERMINATING" /\ Rewrites(w, m) /\ cp' = [cp EXCEPT ![a] = m]
    /\ wk' = [wk EXCEPT ![a] = [w |-> w, then |-> then]] /\ at' = [at EXCEPT ![a] = "down"]

\* Terminate on a copy that is not over takes the worker down.
LEMMA Terminates ==
  ASSUME NEW a, NEW w, NEW then, NEW rec \in Row, rec.st \notin TerminalWorker, Terminate(a, w, rec, then)
  PROVE  TakesDown(a, w, then)
<1>1. "TERMINATING" \in States
  BY DEF States, WorkerStates
<1>2. Marked(rec) \in Row /\ Marked(rec).st = "TERMINATING"
  BY <1>1 DEF Marked, Row
<1> QED
  BY <1>2 DEF Terminate, TakesDown, Rewrites, Put, Goto

\* Actor a is done with worker w, whose row it leaves as r.
Leaves(a, w, r) ==
  /\ at[a] = "down" /\ w \in Workers /\ Rewrites(w, r) /\ cp' = [cp EXCEPT ![a] = None]
  /\ UNCHANGED list
  /\ \/ a = w /\ at' = [at EXCEPT ![a] = "idle"] /\ UNCHANGED wk
     \/ /\ a \in Loops /\ w = wk[a].w
        /\ wk[a].then \in (IF a = "pass" THEN {"visit", "shrink", "recover"} ELSE {"idle", "all"})
        /\ at' = [at EXCEPT ![a] = wk[a].then] /\ wk' = [wk EXCEPT ![a] = Idle]

\* A termination that ends leaves its worker.
LEMMA Settled ==
  ASSUME FleetInv, NEW a \in Actors, NEW r \in Row, Settle(a, r)
  PROVE  Leaves(a, IF a \in Workers THEN a ELSE wk[a].w, r)
<1>1. CASE a \in Workers
  BY <1>1 DEF Settle, Leaves, Put, Goto, Rewrites
<1>2. CASE a \notin Workers
  <2>1. (a = "pass" \/ a = "user") /\ a \in Loops /\ at[a] = "down"
    BY <1>2 DEF Actors, Loops, Settle
  <2>2. /\ wk[a].w \in Workers
        /\ wk[a].then \in (IF a = "pass" THEN {"visit", "shrink", "recover"} ELSE {"idle", "all"})
    BY <2>1 DEF FleetInv, Holding
  <2> QED
    BY <1>2, <2>1, <2>2 DEF Settle, Leaves, Put, Goto, Rewrites
<1> QED
  BY <1>1, <1>2

\* Who is taking a worker down holds a copy that says so.
LEMMA CopyMarked ==
  ASSUME FleetInv, NEW a \in Actors, at[a] = "down"
  PROVE  cp[a] \in Row /\ cp[a].st = "TERMINATING"
BY DEF FleetInv, TypeOK, RowsOK, TaskCopies, Holding, Actors

\* The VM is gone, the row over.
LEMMA DownOkDoes ==
  ASSUME FleetInv, NEW a \in Actors, DownOk(a)
  PROVE  \E w \in Workers, r \in Row :
           /\ Leaves(a, w, r) /\ r.st = "TERMINATED" /\ UNCHANGED budget
           /\ vm' = [vm EXCEPT ![w] = IF @ = "none" THEN "none" ELSE "gone"]
<1> DEFINE w == IF a \in Workers THEN a ELSE wk[a].w
           r == [cp[a] EXCEPT !.st = "TERMINATED"]
<1>1. at[a] = "down" /\ Settle(a, r)
  BY DEF DownOk, Settle
<1>i. "TERMINATED" \in States
  BY DEF States, WorkerStates
<1>2. r \in Row /\ r.st = "TERMINATED"
  BY <1>1, <1>i, CopyMarked DEF Row
<1>3. Leaves(a, w, r)
  BY <1>1, <1>2, Settled
<1>4. w \in Workers
  BY <1>3 DEF Leaves
<1>5. UNCHANGED budget /\ vm' = [vm EXCEPT ![w] = IF @ = "none" THEN "none" ELSE "gone"]
  BY DEF DownOk
<1> HIDE DEF w, r
<1>6. w \in Workers /\ r \in Row /\ Leaves(a, w, r) /\ r.st = "TERMINATED"
  BY <1>2, <1>3, <1>4
<1> QED
  BY <1>5, <1>6

\* The row stays marked.
LEMMA DownFailsDoes ==
  ASSUME FleetInv, NEW a \in Actors, DownFails(a)
  PROVE  \E w \in Workers, r \in Row :
           Leaves(a, w, r) /\ r.st = "TERMINATING" /\ Spend("faults") /\ UNCHANGED vm
<1> DEFINE w == IF a \in Workers THEN a ELSE wk[a].w
<1>1. at[a] = "down" /\ Settle(a, cp[a])
  BY DEF DownFails, Settle, AfterFailedDown
<1>2. cp[a] \in Row /\ cp[a].st = "TERMINATING"
  BY <1>1, CopyMarked
<1>3. Leaves(a, w, cp[a])
  BY <1>1, <1>2, Settled
<1>4. w \in Workers
  BY <1>3 DEF Leaves
<1> QED
  BY <1>2, <1>3, <1>4 DEF DownFails, cloud

Takes(a, e) == e \in list[a] /\ e[1] \in Workers /\ list' = [list EXCEPT ![a] = @ \ {e}]

\* A visit takes down only what no task drives.
LEMMA VisitDoes ==
  ASSUME FleetInv, Visit
  PROVE  \E e \in list["pass"] :
           /\ at["pass"] = "visit" /\ Takes("pass", e) /\ UNCHANGED <<vm, budget>>
           /\ \/ UNCHANGED <<row, at, cp, wk>>
              \/ ~ Owned(e[1]) /\ TakesDown("pass", e[1], "visit")
<1>1. PICK e \in list["pass"] :
        /\ at["pass"] = "visit" /\ Take("pass", e) /\ UNCHANGED <<vm, budget>>
        /\ \/ UNCHANGED <<row, at, cp, wk>>
           \/ e[1] \notin Provisioning /\ VisitOrphan(e[1], e[2])
           \/ e[1] \notin Provisioning /\ e[2].st = "TERMINATING" /\ Terminate("pass", e[1], e[2], "visit")
  BY DEF Visit, cloud
<1>2. e[1] \in Workers /\ e[2] \in Row /\ row[e[1]] \in Row
  BY Listings, Distinct DEF FleetInv, TypeOK, RowsOK
<1>3. ASSUME VisitOrphan(e[1], e[2])
      PROVE  UNCHANGED <<row, at, cp, wk>> \/ TakesDown("pass", e[1], "visit")
  <2>1. row[e[1]].st \in PendingWorker => row[e[1]].st \notin TerminalWorker
    BY DEF PendingWorker, TerminalWorker
  <2> QED
    BY <1>2, <1>3, <2>1, Terminates DEF VisitOrphan
<1>4. ASSUME e[2].st = "TERMINATING", Terminate("pass", e[1], e[2], "visit")
      PROVE  TakesDown("pass", e[1], "visit")
  BY <1>2, <1>4, Terminates DEF TerminalWorker
<1>5. Takes("pass", e)
  BY <1>1, <1>2 DEF Take, Takes
<1> QED
  BY <1>1, <1>3, <1>4, <1>5 DEF Owned

\* Scale-down takes its choice down, one after the other.
LEMMA ShrinkDoes ==
  ASSUME FleetInv, Shrink
  PROVE  /\ at["pass"] = "shrink" /\ UNCHANGED <<vm, budget>>
         /\ \/ at' = [at EXCEPT !["pass"] = "idle"] /\ UNCHANGED <<row, cp, wk, list>>
            \/ \E e \in list["pass"] : Takes("pass", e) /\ TakesDown("pass", e[1], "shrink")
<1>1. ASSUME NEW e \in list["pass"], Terminate("pass", e[1], e[2], "shrink")
      PROVE  e[1] \in Workers /\ TakesDown("pass", e[1], "shrink")
  BY <1>1, Terminates, Listings, Distinct, StateSets DEF FleetInv, TypeOK, Listing
<1> QED
  BY <1>1 DEF Shrink, cloud, Take, Takes, Goto

\* Recovery adopts a worker or takes it down.
LEMMA RecoverDoes ==
  ASSUME FleetInv, Recover
  PROVE  /\ at["pass"] = "recover" /\ UNCHANGED vm /\ (UNCHANGED budget \/ Spend("faults"))
         /\ \/ at' = [at EXCEPT !["pass"] = "idle"] /\ UNCHANGED <<row, cp, wk, list>>
            \/ \E e \in list["pass"] :
                 /\ Takes("pass", e)
                 /\ \/ \E r \in Row : Rewrites(e[1], r) /\ r.st = "CONNECTING" /\ UNCHANGED <<at, cp, wk>>
                    \/ TakesDown("pass", e[1], "recover")
<1>1. ASSUME NEW e \in list["pass"], Terminate("pass", e[1], e[2], "recover")
      PROVE  TakesDown("pass", e[1], "recover")
  BY <1>1, Terminates, Listings, Distinct, StateSets DEF FleetInv, TypeOK, Listing
<1>i. "CONNECTING" \in States
  BY DEF States, WorkerStates
<1>2. ASSUME NEW e \in list["pass"]
      PROVE  /\ e[1] \in Workers /\ [e[2] EXCEPT !.st = "CONNECTING"] \in Row
             /\ [e[2] EXCEPT !.st = "CONNECTING"].st = "CONNECTING"
  <2>1. e[1] \in Workers /\ e[2] \in Row
    BY Listings, Distinct DEF FleetInv, TypeOK
  <2> QED
    BY <1>i, <2>1 DEF Row
<1>3. ASSUME NEW e \in list["pass"], Put(e[1], [e[2] EXCEPT !.st = "CONNECTING"])
      PROVE  \E r \in Row : Rewrites(e[1], r) /\ r.st = "CONNECTING"
  <2> DEFINE r == [e[2] EXCEPT !.st = "CONNECTING"]
  <2>1. r \in Row /\ r.st = "CONNECTING" /\ row' = [row EXCEPT ![e[1]] = r]
    BY <1>2, <1>3 DEF Put
  <2> HIDE DEF r
  <2> QED
    BY <2>1 DEF Rewrites
<1>4. ASSUME NEW e \in list["pass"], Take("pass", e) PROVE Takes("pass", e)
  BY <1>2, <1>4 DEF Take, Takes
<1> QED
  BY <1>1, <1>3, <1>4 DEF Recover, cloud, Goto

\* A sweep cancels the task, or takes down what has none.
LEMMA SweepOneDoes ==
  ASSUME FleetInv, SweepOne
  PROVE  /\ at["user"] = "all" /\ UNCHANGED <<vm, budget>>
         /\ \/ at' = [at EXCEPT !["user"] = "idle"] /\ list["user"] = {} /\ UNCHANGED <<row, cp, wk, list>>
            \/ \E e \in list["user"] :
                 /\ Takes("user", e)
                 /\ \/ Owned(e[1]) /\ at' = [at EXCEPT ![e[1]] = Cancelled(e[1])] /\ UNCHANGED <<row, cp, wk>>
                    \/ ~ Owned(e[1]) /\ TakesDown("user", e[1], "all")
<1>1. ASSUME NEW e \in list["user"], Terminate("user", e[1], e[2], "all")
      PROVE  TakesDown("user", e[1], "all")
  BY <1>1, Terminates, Listings, Distinct, StateSets DEF FleetInv, TypeOK, Listing
<1>2. ASSUME NEW e \in list["user"] PROVE e[1] \in Workers
  BY Listings, Distinct DEF FleetInv, TypeOK
<1> QED
  BY <1>1, <1>2 DEF SweepOne, cloud, Take, Takes, Goto, Owned

\* A removal takes the worker down, whoever drives it.
LEMMA RemoveDoes ==
  ASSUME FleetInv, NEW w \in Workers, RemoveWorker(w)
  PROVE  /\ at["user"] = "idle" /\ Serving /\ Spend("removes") /\ UNCHANGED <<vm, list>>
         /\ \/ at' = [at EXCEPT !["user"] = "idle"] /\ UNCHANGED <<row, cp, wk>>
            \/ TakesDown("user", w, "idle")
<1>1. row[w] \in Row
  BY DEF FleetInv, TypeOK, RowsOK
<1>2. CASE row[w].st \in TerminalWorker
  BY <1>2 DEF RemoveWorker, Terminate, cloud, Goto
<1>3. CASE row[w].st \notin TerminalWorker
  BY <1>1, <1>3, Terminates DEF RemoveWorker, cloud
<1> QED
  BY <1>2, <1>3

\* A health check writes the listed copy back with what it found.
Checked(e) ==
  /\ at["pass"] = "visit" /\ Takes("pass", e) /\ ~ Owned(e[1])
  /\ UNCHANGED vm /\ (UNCHANGED budget \/ Spend("faults"))
  /\ \/ at' = [at EXCEPT !["pass"] = "idle"] /\ UNCHANGED <<row, cp, wk>>
     \/ \E r \in Row :
          /\ Rewrites(e[1], r) /\ r.st \in CountedWorker
          /\ r.st \in Served => vm[e[1]] = "up" \/ e[2].st \in Served
          /\ \/ UNCHANGED <<at, cp, wk>>
             \/ /\ at' = [at EXCEPT !["pass"] = "status"] /\ cp' = [cp EXCEPT !["pass"] = r]
                /\ wk' = [wk EXCEPT !["pass"] = [w |-> e[1], then |-> "visit"]]

\* All three outcomes of a health call are checks.
LEMMA HealthDoes ==
  ASSUME FleetInv, NEW e \in list["pass"], HealthOk(e) \/ HealthFails(e) \/ HealthWrongVersion(e)
  PROVE  Checked(e)
<1>1. e[1] \in Workers /\ e[2] \in Row /\ e[2].st \in CountedWorker /\ e[2].fails \in Nat
  BY Listings, Distinct DEF FleetInv, TypeOK, Listing, Row
<1>2. \A s \in CountedWorker : s \in States
  BY StateSets
<1>3. CASE HealthOk(e)
  <2> DEFINE s == TargetState(e[1], e[2])
             r == [e[2] EXCEPT !.st = s, !.fails = 0]
  <2>1. s \in CountedWorker
    BY StateSets DEF TargetState
  <2>2. s \in States /\ 0 \in Nat
    BY <1>2, <2>1
  <2>3. r \in Row /\ r.st = s
    <3> HIDE DEF s
    <3> DEFINE q == [e[2] EXCEPT !.st = s]
    <3>1. q \in Row /\ q.st = s
      BY <1>1, <2>2 DEF Row
    <3> HIDE DEF q
    <3>2. [q EXCEPT !.fails = 0] \in Row
      BY <2>2, <3>1 DEF Row
    <3>3. [q EXCEPT !.fails = 0].st = s
      BY <3>1 DEF Row
    <3> QED
      BY <3>2, <3>3 DEF q
  <2>4. /\ at["pass"] = "visit" /\ Takes("pass", e) /\ ~ Owned(e[1])
        /\ UNCHANGED vm /\ (UNCHANGED budget \/ Spend("faults")) /\ vm[e[1]] = "up"
    BY <1>1, <1>3 DEF HealthOk, Checks, Take, Takes, cloud, Owned
  <2>5. \/ at' = [at EXCEPT !["pass"] = "idle"] /\ UNCHANGED <<row, cp, wk>>
        \/ row' = [row EXCEPT ![e[1]] = r] /\ UNCHANGED <<at, cp, wk>>
    BY <1>3 DEF HealthOk, Put, Goto, cloud
  <2> HIDE DEF r, s
  <2> QED
    BY <2>1, <2>3, <2>4, <2>5 DEF Rewrites, Checked
<1>4. CASE HealthWrongVersion(e)
  <2> DEFINE s == "UNHEALTHY"
             r == [e[2] EXCEPT !.st = s, !.fails = 0]
  <2>1. s \in CountedWorker
    BY StateSets DEF TargetState
  <2>2. s \in States /\ 0 \in Nat
    BY <1>2, <2>1
  <2>3. r \in Row /\ r.st = s
    <3> HIDE DEF s
    <3> DEFINE q == [e[2] EXCEPT !.st = s]
    <3>1. q \in Row /\ q.st = s
      BY <1>1, <2>2 DEF Row
    <3> HIDE DEF q
    <3>2. [q EXCEPT !.fails = 0] \in Row
      BY <2>2, <3>1 DEF Row
    <3>3. [q EXCEPT !.fails = 0].st = s
      BY <3>1 DEF Row
    <3> QED
      BY <3>2, <3>3 DEF q
  <2>4. /\ at["pass"] = "visit" /\ Takes("pass", e) /\ ~ Owned(e[1])
        /\ UNCHANGED vm /\ (UNCHANGED budget \/ Spend("faults")) /\ vm[e[1]] = "up"
    BY <1>1, <1>4 DEF HealthWrongVersion, Checks, Take, Takes, cloud, Owned
  <2>5. \/ at' = [at EXCEPT !["pass"] = "idle"] /\ UNCHANGED <<row, cp, wk>>
        \/ row' = [row EXCEPT ![e[1]] = r] /\ UNCHANGED <<at, cp, wk>>
    BY <1>4 DEF HealthWrongVersion, Put, Goto, cloud
  <2> HIDE DEF r, s
  <2> QED
    BY <2>1, <2>3, <2>4, <2>5 DEF Rewrites, Checked
<1>5. CASE HealthFails(e)
  <2> DEFINE s == IF e[2].st \in {"HEALTHY", "DRAINING"} THEN "UNHEALTHY" ELSE e[2].st
             n == Failures(e[2].fails)
             r == [e[2] EXCEPT !.fails = n, !.st = s]
  <2>1. n \in Nat
    BY <1>1, FleetAssumption DEF Failures
  <2>2. s \in CountedWorker /\ (s \in Served => e[2].st \in Served)
    BY <1>1, StateSets DEF Served
  <2>3. r \in Row /\ r.st = s
    <3> DEFINE q == [e[2] EXCEPT !.fails = n]
    <3> HIDE DEF n, s
    <3>1. q \in Row
      BY <1>1, <2>1 DEF Row
    <3> HIDE DEF q
    <3>2. [q EXCEPT !.st = s] \in Row /\ [q EXCEPT !.st = s].st = s
      BY <1>2, <2>2, <3>1 DEF Row
    <3> QED
      BY <3>2 DEF q
  <2>4. Put(e[1], r) /\ (IF r.fails = FailLimit
                         THEN /\ cp' = [cp EXCEPT !["pass"] = r]
                              /\ wk' = [wk EXCEPT !["pass"] = [w |-> e[1], then |-> "visit"]]
                              /\ Goto("pass", "status")
                         ELSE UNCHANGED <<at, cp, wk>>)
    BY <1>5 DEF HealthFails
  <2>5. /\ at["pass"] = "visit" /\ Takes("pass", e) /\ ~ Owned(e[1])
        /\ UNCHANGED vm /\ (UNCHANGED budget \/ Spend("faults"))
    BY <1>1, <1>5 DEF HealthFails, Checks, Take, Takes, cloud, Owned
  <2>6. Rewrites(e[1], r)
    BY <2>3, <2>4 DEF Put, Rewrites
  <2> HIDE DEF r, s, n
  <2>7. \/ UNCHANGED <<at, cp, wk>>
        \/ /\ at' = [at EXCEPT !["pass"] = "status"] /\ cp' = [cp EXCEPT !["pass"] = r]
           /\ wk' = [wk EXCEPT !["pass"] = [w |-> e[1], then |-> "visit"]]
    BY <2>4 DEF Goto
  <2> QED
    BY <2>2, <2>3, <2>5, <2>6, <2>7 DEF Checked
<1> QED
  BY <1>3, <1>4, <1>5

\* A worker is lost only when its cluster is missing.
LEMMA StatusDoes ==
  ASSUME FleetInv, Status
  PROVE  \E w \in Workers :
           /\ at["pass"] = "status" /\ w = wk["pass"].w /\ UNCHANGED <<vm, list>>
           /\ cp' = [cp EXCEPT !["pass"] = None] /\ wk' = [wk EXCEPT !["pass"] = Idle]
           /\ at' = [at EXCEPT !["pass"] = "visit"]
           /\ (UNCHANGED budget \/ Spend("faults"))
           /\ \/ vm[w] \in {"none", "gone"} /\ \E r \in Row : Rewrites(w, r) /\ r.st = "LOST"
              \/ UNCHANGED row
<1> DEFINE r == [cp["pass"] EXCEPT !.st = "LOST"]
<1>i. "LOST" \in States
  BY DEF States, WorkerStates
<1>1. wk["pass"].w \in Workers /\ cp["pass"] \in Row
  BY Distinct DEF Status, FleetInv, Holding, TypeOK, RowsOK
<1>2. r \in Row /\ r.st = "LOST"
  BY <1>1, <1>i DEF Row
<1> DEFINE w == wk["pass"].w
<1>3. \/ vm[w] \in {"none", "gone"} /\ row' = [row EXCEPT ![w] = r]
      \/ UNCHANGED row
  BY DEF Status, Put, Missing
<1>4. /\ at["pass"] = "status" /\ UNCHANGED <<vm, list>>
      /\ cp' = [cp EXCEPT !["pass"] = None] /\ wk' = [wk EXCEPT !["pass"] = Idle]
      /\ at' = [at EXCEPT !["pass"] = "visit"]
      /\ (UNCHANGED budget \/ Spend("faults"))
  BY DEF Status, Goto, cloud
<1> HIDE DEF r
<1>5. \/ vm[w] \in {"none", "gone"} /\ \E q \in Row : Rewrites(w, q) /\ q.st = "LOST"
      \/ UNCHANGED row
  BY <1>2, <1>3 DEF Rewrites
<1> QED
  BY <1>1, <1>4, <1>5

\* What a task writes into its own row, and a drain into any.
LEMMA TaskDoes ==
  ASSUME FleetInv, NEW w \in Workers
  PROVE  /\ Provisioned(w) => \E r \in Row :
              /\ at[w] = "launch" /\ vm[w] = "up" /\ Rewrites(w, r) /\ r.st = "CONNECTING"
              /\ cp' = [cp EXCEPT ![w] = r] /\ at' = [at EXCEPT ![w] = "connect"] /\ UNCHANGED <<vm, wk, list, budget>>
         /\ Connected(w) =>
              /\ at[w] = "connect" /\ vm[w] = "up" /\ UNCHANGED <<vm, wk, list, budget>>
              /\ \/ at' = [at EXCEPT ![w] = "fail"] /\ UNCHANGED <<row, cp>>
                 \/ \E r \in Row :
                      /\ Rewrites(w, r) /\ r.st \in {"HEALTHY", "DRAINING"}
                      /\ cp' = [cp EXCEPT ![w] = r] /\ at' = [at EXCEPT ![w] = "finish"]
         /\ Abandon(w) => \E r \in Row :
              /\ at[w] \in {"fail", "cancel"} /\ Rewrites(w, r) /\ r.st = "TERMINATING"
              /\ cp' = [cp EXCEPT ![w] = r] /\ at' = [at EXCEPT ![w] = "down"] /\ UNCHANGED <<vm, wk, list, budget>>
<1>1. cp[w] \in Row /\ w \in Actors
  BY Distinct DEF FleetInv, TypeOK, RowsOK
<1>3. {"CONNECTING", "HEALTHY", "DRAINING", "TERMINATING"} \subseteq States
  BY DEF States, WorkerStates
<1>4. cp \in [Actors -> Row]
  BY DEF FleetInv, TypeOK, RowsOK
<1>5. ASSUME Provisioned(w)
      PROVE  \E r \in Row :
              /\ at[w] = "launch" /\ vm[w] = "up" /\ Rewrites(w, r) /\ r.st = "CONNECTING"
              /\ cp' = [cp EXCEPT ![w] = r] /\ at' = [at EXCEPT ![w] = "connect"] /\ UNCHANGED <<vm, wk, list, budget>>
  <2> DEFINE r == [cp[w] EXCEPT !.st = "CONNECTING"]
  <2>1. cp' = [cp EXCEPT ![w] = r] /\ cp'[w] = r
    BY <1>1, <1>4, <1>5 DEF Provisioned
  <2>2. r \in Row /\ r.st = "CONNECTING"
    BY <1>1, <1>3 DEF Row
  <2>3. /\ at[w] = "launch" /\ vm[w] = "up" /\ row' = [row EXCEPT ![w] = r]
        /\ at' = [at EXCEPT ![w] = "connect"] /\ UNCHANGED <<vm, wk, list, budget>>
    BY <1>5, <2>1 DEF Provisioned, Put, Goto, cloud, loop
  <2> HIDE DEF r
  <2> QED
    BY <2>1, <2>2, <2>3 DEF Rewrites
<1>6. ASSUME Connected(w)
      PROVE  /\ at[w] = "connect" /\ vm[w] = "up" /\ UNCHANGED <<vm, wk, list, budget>>
             /\ \/ at' = [at EXCEPT ![w] = "fail"] /\ UNCHANGED <<row, cp>>
                \/ \E r \in Row :
                     /\ Rewrites(w, r) /\ r.st \in {"HEALTHY", "DRAINING"}
                     /\ cp' = [cp EXCEPT ![w] = r] /\ at' = [at EXCEPT ![w] = "finish"]
  <2> DEFINE to == TargetState(w, cp[w])
             r == [cp[w] EXCEPT !.st = to]
  <2>1. to \in {"HEALTHY", "DRAINING"}
    BY DEF TargetState
  <2>2. r \in Row /\ r.st = to
    BY <1>1, <1>3, <2>1 DEF Row
  <2>3. MayBecome(cp[w].st, to) => cp' = [cp EXCEPT ![w] = r] /\ cp'[w] = r
    BY <1>1, <1>4, <1>6 DEF Connected
  <2>4. at[w] = "connect" /\ vm[w] = "up" /\ UNCHANGED <<vm, wk, list, budget>>
    BY <1>6 DEF Connected, cloud, loop
  <2>5. \/ at' = [at EXCEPT ![w] = "fail"] /\ UNCHANGED <<row, cp>>
        \/ /\ cp' = [cp EXCEPT ![w] = r] /\ row' = [row EXCEPT ![w] = r]
           /\ at' = [at EXCEPT ![w] = "finish"]
    BY <1>6, <2>3 DEF Connected, Put, Goto
  <2>6. r.st \in {"HEALTHY", "DRAINING"}
    BY <2>1, <2>2
  <2> HIDE DEF r
  <2> QED
    BY <2>2, <2>4, <2>5, <2>6 DEF Rewrites
<1>7. ASSUME Abandon(w)
      PROVE  \E r \in Row :
              /\ at[w] \in {"fail", "cancel"} /\ Rewrites(w, r) /\ r.st = "TERMINATING"
              /\ cp' = [cp EXCEPT ![w] = r] /\ at' = [at EXCEPT ![w] = "down"] /\ UNCHANGED <<vm, wk, list, budget>>
  <2> DEFINE r == [cp[w] EXCEPT !.st = "TERMINATING"]
  <2>1. r \in Row /\ r.st = "TERMINATING"
    BY <1>1, <1>3 DEF Row
  <2>2. /\ at[w] \in {"fail", "cancel"} /\ row' = [row EXCEPT ![w] = r] /\ cp' = [cp EXCEPT ![w] = r]
        /\ at' = [at EXCEPT ![w] = "down"] /\ UNCHANGED <<vm, wk, list, budget>>
    BY <1>7 DEF Abandon, Marked, Put, Goto, cloud, loop
  <2> HIDE DEF r
  <2> QED
    BY <2>1, <2>2 DEF Rewrites
<1> QED
  BY <1>5, <1>6, <1>7

\* A drain changes HEALTHY to DRAINING and no other state.
LEMMA DrainDoes ==
  ASSUME FleetInv, NEW w \in Workers, NEW twe \in BOOLEAN, Drain(w, twe)
  PROVE  \E r \in Row :
           /\ Rewrites(w, r) /\ Spend("drains") /\ UNCHANGED <<vm, at, cp, wk, list>>
           /\ r.st = row[w].st \/ (row[w].st = "HEALTHY" /\ r.st = "DRAINING")
<1> DEFINE s == IF row[w].st = "HEALTHY" THEN "DRAINING" ELSE row[w].st
           r == [row[w] EXCEPT !.dr = TRUE, !.twe = twe, !.st = s]
<1>1. row[w] \in Row
  BY DEF FleetInv, TypeOK, RowsOK
<1>2. s \in States
  BY <1>1 DEF Row, States, WorkerStates
<1>3. r \in Row /\ r.st = s
  <2> DEFINE q == [row[w] EXCEPT !.dr = TRUE]
             p == [q EXCEPT !.twe = twe]
  <2> HIDE DEF s
  <2>1. q \in Row
    BY <1>1, Zenon DEF Row
  <2> HIDE DEF q
  <2>2. p \in Row
    BY <2>1 DEF Row
  <2> HIDE DEF p
  <2>3. [p EXCEPT !.st = s] \in Row /\ [p EXCEPT !.st = s].st = s
    BY <1>2, <2>2 DEF Row
  <2> QED
    BY <2>3 DEF p, q
<1>4. Put(w, r)
  BY DEF Drain
<1>5. Spend("drains") /\ UNCHANGED <<vm, at, cp, wk, list>>
  BY DEF Drain, loop
<1>6. Rewrites(w, r) /\ (r.st = row[w].st \/ (row[w].st = "HEALTHY" /\ r.st = "DRAINING"))
  BY <1>3, <1>4 DEF Put, Rewrites
<1> HIDE DEF r
<1> QED
  BY <1>3, <1>5, <1>6

\* The steps keep the types of rows, machines and copies.
LEMMA RowsOKStep ==
  ASSUME FleetInv, Next
  PROVE  RowsOK'
<1> USE FleetAssumption DEF FleetInv, TypeOK, RowsOK, LoopsOK
<1>1. CASE PassBegins
  BY <1>1 DEF PassBegins, Copies, Goto, cloud
<1>2. CASE Visit
  <2>1. PICK e \in list["pass"] :
        /\ at["pass"] = "visit" /\ Takes("pass", e) /\ UNCHANGED <<vm, budget>>
        /\ \/ UNCHANGED <<row, at, cp, wk>>
           \/ ~ Owned(e[1]) /\ TakesDown("pass", e[1], "visit")
    BY <1>2, VisitDoes
  <2> QED
    BY <2>1 DEF Takes, TakesDown, Rewrites
<1>3. CASE PoolListed
  BY <1>3 DEF PoolListed, Copies, Goto, cloud
<1>4. CASE Replace
  <2>1. CASE need["pass"] = 0
    BY <1>4, <2>1 DEF Replace, StartOne, Goto, cloud
  <2>2. CASE need["pass"] # 0
    <3>1. PICK w \in Workers : Begun(w)
      BY <1>4, <2>2, Begins DEF Replace, StartOne
    <3> QED
      BY <1>4, <2>2, <3>1, Distinct, NewRow DEF Replace, StartOne, Begun
  <2> QED
    BY <2>1, <2>2
<1>5. CASE Count
  BY <1>5 DEF Count, Goto, cloud
<1>6. CASE Shrink
  BY <1>6, ShrinkDoes DEF Takes, TakesDown, Rewrites
<1>7. ASSUME NEW e \in list["pass"], HealthOk(e) PROVE RowsOK'
  <2>1. Checked(e)
    BY <1>7, HealthDoes
  <2> QED
    BY <2>1 DEF Checked, Takes, Rewrites, Spend
<1>8. ASSUME NEW e \in list["pass"], HealthFails(e) PROVE RowsOK'
  <2>1. Checked(e)
    BY <1>8, HealthDoes
  <2> QED
    BY <2>1 DEF Checked, Takes, Rewrites, Spend
<1>9. ASSUME NEW e \in list["pass"], HealthWrongVersion(e) PROVE RowsOK'
  <2>1. Checked(e)
    BY <1>9, HealthDoes
  <2> QED
    BY <2>1 DEF Checked, Takes, Rewrites, Spend
<1>10. CASE Status
  BY <1>10, StatusDoes, NewRow DEF Rewrites, Spend
<1>11. ASSUME NEW a \in Actors, DownOk(a) PROVE RowsOK'
  <2>1. PICK w \in Workers, r \in Row :
        /\ Leaves(a, w, r) /\ r.st = "TERMINATED" /\ UNCHANGED budget
        /\ vm' = [vm EXCEPT ![w] = IF @ = "none" THEN "none" ELSE "gone"]
    BY <1>11, DownOkDoes
  <2> QED
    BY <2>1, NewRow DEF Leaves, Rewrites
<1>12. ASSUME NEW a \in Actors, DownFails(a) PROVE RowsOK'
  <2>1. PICK w \in Workers, r \in Row :
        Leaves(a, w, r) /\ r.st = "TERMINATING" /\ Spend("faults") /\ UNCHANGED vm
    BY <1>12, DownFailsDoes
  <2> QED
    BY <2>1, NewRow DEF Leaves, Rewrites, Spend
<1>13. CASE Start
  BY <1>13 DEF Start, Copies, Goto, cloud
<1>14. CASE Recover
  BY <1>14, RecoverDoes DEF Takes, TakesDown, Rewrites, Spend
<1>15. CASE SweepOne
  BY <1>15, SweepOneDoes DEF Takes, Cancelled, TakesDown, Rewrites
<1>16. CASE Grow
  <2>1. CASE need["user"] = 0
    BY <1>16, <2>1 DEF Grow, StartOne, Goto, cloud
  <2>2. CASE need["user"] # 0
    <3>1. PICK w \in Workers : Begun(w)
      BY <1>16, <2>2, Begins DEF Grow, StartOne
    <3> QED
      BY <1>16, <2>2, <3>1, Distinct, NewRow DEF Grow, StartOne, Begun
  <2> QED
    BY <2>1, <2>2
<1>17. ASSUME NEW w \in Workers, RemoveWorker(w) PROVE RowsOK'
  BY <1>17, RemoveDoes DEF TakesDown, Rewrites, Spend
<1>18. ASSUME NEW w \in Workers, NEW twe \in BOOLEAN, Drain(w, twe) PROVE RowsOK'
  BY <1>18, DrainDoes DEF Rewrites, Spend
<1>19. ASSUME NEW cleanup \in BOOLEAN, Sweep(cleanup) PROVE RowsOK'
  BY <1>19 DEF Sweep, Spend, Copies, Goto, cloud
<1>20. ASSUME NEW n \in 1 .. MaxWorkers, PoolUp(n) PROVE RowsOK'
  BY <1>20 DEF PoolUp, Spend, Goto, cloud
<1>21. ASSUME NEW w \in Workers, ProvisionFails(w) PROVE RowsOK'
  BY <1>21 DEF ProvisionFails, Spend, Goto, cloud, loop
<1>22. ASSUME NEW w \in Workers, VmDies(w) PROVE RowsOK'
  BY <1>22 DEF VmDies, Spend, loop
<1>23. CASE Crash
  BY <1>23, NewRow DEF Crash, Spend, LoopsEnd, cloud
<1>24. CASE Stop
  BY <1>24, NewRow DEF Stop, Spend, Cancelled, LoopsEnd, cloud
<1>25. CASE ScaleUp
  <2>1. PICK w \in Workers : Begun(w)
    BY <1>25, Begins DEF ScaleUp
  <2> QED
    BY <1>25, <2>1, Distinct, NewRow DEF ScaleUp, Spend, Begun, loop
<1>26. ASSUME NEW w \in Workers, Launch(w) PROVE RowsOK'
  BY <1>26 DEF Launch, loop
<1>27. ASSUME NEW w \in Workers, Provisioned(w) PROVE RowsOK'
  BY <1>27, TaskDoes DEF Rewrites
<1>28. ASSUME NEW w \in Workers, Connected(w) PROVE RowsOK'
  BY <1>28, TaskDoes DEF Rewrites
<1>29. ASSUME NEW w \in Workers, Finish(w) PROVE RowsOK'
  BY <1>29, Distinct, NewRow DEF Finish, Put, Goto, cloud, loop
<1>30. ASSUME NEW w \in Workers, Abandon(w) PROVE RowsOK'
  BY <1>30, TaskDoes DEF Rewrites
<1>31. ASSUME NEW w \in Workers, VmComesUp(w) PROVE RowsOK'
  BY <1>31 DEF VmComesUp, loop
<1>32. ASSUME NEW w \in Workers, Assign(w) PROVE RowsOK'
  BY <1>32 DEF Assign, Spend, cloud, loop
<1>33. ASSUME NEW w \in Workers, Leave(w) PROVE RowsOK'
  BY <1>33 DEF Leave, cloud, loop
<1> QED
  <2>1. CASE PassStep
    BY <2>1, <1>1, <1>2, <1>3, <1>4, <1>5, <1>6, <1>7, <1>8, <1>10,
       <1>11, <1>13, <1>14, Distinct DEF PassStep
  <2>2. CASE UserStep
    BY <2>2, <1>11, <1>15, <1>16, Distinct DEF UserStep
  <2>3. CASE Request
    BY <2>3, <1>17, <1>18, <1>19, <1>20 DEF Request
  <2>4. CASE Trouble
    BY <2>4, <1>8, <1>9, <1>12, <1>21, <1>22, <1>23, <1>24 DEF Trouble
  <2>5. ASSUME NEW w \in Workers, TaskStep(w) PROVE RowsOK'
    BY <2>5, <1>11, <1>21, <1>26, <1>27, <1>28, <1>29, <1>30, Distinct DEF TaskStep
  <2> QED
    BY <2>1, <2>2, <2>3, <2>4, <2>5, <1>25, <1>31, <1>32, <1>33 DEF Next

\* The steps keep the types of what the actors are about to do.
LEMMA StepsOKStep ==
  ASSUME FleetInv, Next
  PROVE  StepsOK'
<1> USE FleetAssumption DEF FleetInv, TypeOK, StepsOK, PassSteps, UserSteps, TaskSteps
<1>1. CASE PassBegins
  BY <1>1, Distinct DEF PassBegins, Copies, Goto, cloud
<1>2. CASE Visit
  <2>1. PICK e \in list["pass"] :
        /\ at["pass"] = "visit" /\ Takes("pass", e) /\ UNCHANGED <<vm, budget>>
        /\ \/ UNCHANGED <<row, at, cp, wk>>
           \/ ~ Owned(e[1]) /\ TakesDown("pass", e[1], "visit")
    BY <1>2, VisitDoes
  <2> QED
    BY <2>1, Distinct DEF Takes, TakesDown, Rewrites
<1>3. CASE PoolListed
  BY <1>3, Distinct DEF PoolListed, Copies, Goto, cloud
<1>4. CASE Replace
  <2>1. CASE need["pass"] = 0
    BY <1>4, <2>1, Distinct DEF Replace, StartOne, Goto, cloud
  <2>2. CASE need["pass"] # 0
    <3>1. PICK w \in Workers : Begun(w)
      BY <1>4, <2>2, Begins DEF Replace, StartOne
    <3> QED
      BY <1>4, <2>2, <3>1, Distinct DEF Replace, StartOne, Begun
  <2> QED
    BY <2>1, <2>2
<1>5. CASE Count
  BY <1>5, Distinct DEF Count, Goto, cloud
<1>6. CASE Shrink
  BY <1>6, ShrinkDoes, Distinct DEF Takes, TakesDown, Rewrites
<1>7. ASSUME NEW e \in list["pass"], HealthOk(e) PROVE StepsOK'
  <2>1. Checked(e)
    BY <1>7, HealthDoes
  <2> QED
    BY <2>1, Distinct DEF Checked, Takes, Rewrites, Spend
<1>8. ASSUME NEW e \in list["pass"], HealthFails(e) PROVE StepsOK'
  <2>1. Checked(e)
    BY <1>8, HealthDoes
  <2> QED
    BY <2>1, Distinct DEF Checked, Takes, Rewrites, Spend
<1>9. ASSUME NEW e \in list["pass"], HealthWrongVersion(e) PROVE StepsOK'
  <2>1. Checked(e)
    BY <1>9, HealthDoes
  <2> QED
    BY <2>1, Distinct DEF Checked, Takes, Rewrites, Spend
<1>10. CASE Status
  BY <1>10, StatusDoes, Distinct DEF Rewrites, Spend
<1>11. ASSUME NEW a \in Actors, DownOk(a) PROVE StepsOK'
  <2>1. PICK w \in Workers, r \in Row :
        /\ Leaves(a, w, r) /\ r.st = "TERMINATED" /\ UNCHANGED budget
        /\ vm' = [vm EXCEPT ![w] = IF @ = "none" THEN "none" ELSE "gone"]
    BY <1>11, DownOkDoes
  <2> QED
    BY <2>1, Distinct DEF Leaves, Rewrites
<1>12. ASSUME NEW a \in Actors, DownFails(a) PROVE StepsOK'
  <2>1. PICK w \in Workers, r \in Row :
        Leaves(a, w, r) /\ r.st = "TERMINATING" /\ Spend("faults") /\ UNCHANGED vm
    BY <1>12, DownFailsDoes
  <2> QED
    BY <2>1, Distinct DEF Leaves, Rewrites, Spend
<1>13. CASE Start
  BY <1>13, Distinct DEF Start, Copies, Goto, cloud
<1>14. CASE Recover
  BY <1>14, RecoverDoes, Distinct DEF Takes, TakesDown, Rewrites, Spend
<1>15. CASE SweepOne
  BY <1>15, SweepOneDoes, Distinct DEF Takes, Cancelled, TakesDown, Rewrites
<1>16. CASE Grow
  <2>1. CASE need["user"] = 0
    BY <1>16, <2>1, Distinct DEF Grow, StartOne, Goto, cloud
  <2>2. CASE need["user"] # 0
    <3>1. PICK w \in Workers : Begun(w)
      BY <1>16, <2>2, Begins DEF Grow, StartOne
    <3> QED
      BY <1>16, <2>2, <3>1, Distinct DEF Grow, StartOne, Begun
  <2> QED
    BY <2>1, <2>2
<1>17. ASSUME NEW w \in Workers, RemoveWorker(w) PROVE StepsOK'
  BY <1>17, RemoveDoes, Distinct DEF TakesDown, Rewrites, Spend
<1>18. ASSUME NEW w \in Workers, NEW twe \in BOOLEAN, Drain(w, twe) PROVE StepsOK'
  BY <1>18, DrainDoes DEF Rewrites, Spend
<1>19. ASSUME NEW cleanup \in BOOLEAN, Sweep(cleanup) PROVE StepsOK'
  BY <1>19, Distinct DEF Sweep, Spend, Copies, Goto, cloud
<1>20. ASSUME NEW n \in 1 .. MaxWorkers, PoolUp(n) PROVE StepsOK'
  BY <1>20, Distinct DEF PoolUp, Spend, Goto, cloud
<1>21. ASSUME NEW w \in Workers, ProvisionFails(w) PROVE StepsOK'
  BY <1>21, Distinct DEF ProvisionFails, Spend, Goto, cloud, loop
<1>22. ASSUME NEW w \in Workers, VmDies(w) PROVE StepsOK'
  BY <1>22 DEF VmDies, Spend, loop
<1>23. CASE Crash
  BY <1>23, Distinct DEF Crash, Spend, LoopsEnd, cloud
<1>24. CASE Stop
  BY <1>24, Distinct DEF Stop, Spend, Cancelled, LoopsEnd, cloud
<1>25. CASE ScaleUp
  <2>1. PICK w \in Workers : Begun(w)
    BY <1>25, Begins DEF ScaleUp
  <2> QED
    BY <1>25, <2>1, Distinct DEF ScaleUp, Spend, Begun, loop
<1>26. ASSUME NEW w \in Workers, Launch(w) PROVE StepsOK'
  BY <1>26 DEF Launch, loop
<1>27. ASSUME NEW w \in Workers, Provisioned(w) PROVE StepsOK'
  BY <1>27, TaskDoes, Distinct DEF Rewrites
<1>28. ASSUME NEW w \in Workers, Connected(w) PROVE StepsOK'
  BY <1>28, TaskDoes, Distinct DEF Rewrites
<1>29. ASSUME NEW w \in Workers, Finish(w) PROVE StepsOK'
  BY <1>29, Distinct DEF Finish, Put, Goto, cloud, loop
<1>30. ASSUME NEW w \in Workers, Abandon(w) PROVE StepsOK'
  BY <1>30, TaskDoes, Distinct DEF Rewrites
<1>31. ASSUME NEW w \in Workers, VmComesUp(w) PROVE StepsOK'
  BY <1>31 DEF VmComesUp, loop
<1>32. ASSUME NEW w \in Workers, Assign(w) PROVE StepsOK'
  BY <1>32 DEF Assign, Spend, cloud, loop
<1>33. ASSUME NEW w \in Workers, Leave(w) PROVE StepsOK'
  BY <1>33 DEF Leave, cloud, loop
<1> QED
  <2>1. CASE PassStep
    BY <2>1, <1>1, <1>2, <1>3, <1>4, <1>5, <1>6, <1>7, <1>8, <1>10,
       <1>11, <1>13, <1>14, Distinct DEF PassStep
  <2>2. CASE UserStep
    BY <2>2, <1>11, <1>15, <1>16, Distinct DEF UserStep
  <2>3. CASE Request
    BY <2>3, <1>17, <1>18, <1>19, <1>20 DEF Request
  <2>4. CASE Trouble
    BY <2>4, <1>8, <1>9, <1>12, <1>21, <1>22, <1>23, <1>24 DEF Trouble
  <2>5. ASSUME NEW w \in Workers, TaskStep(w) PROVE StepsOK'
    BY <2>5, <1>11, <1>21, <1>26, <1>27, <1>28, <1>29, <1>30, Distinct DEF TaskStep
  <2> QED
    BY <2>1, <2>2, <2>3, <2>4, <2>5, <1>25, <1>31, <1>32, <1>33 DEF Next

\* The steps keep the types of the loops.
LEMMA LoopsOKStep ==
  ASSUME FleetInv, Next
  PROVE  LoopsOK'
<1> USE FleetAssumption DEF FleetInv, TypeOK, RowsOK, LoopsOK, Idle
<1>1. CASE PassBegins
  BY <1>1, Distinct, Copied DEF PassBegins, Goto, cloud, Listed
<1>2. CASE Visit
  <2>1. PICK e \in list["pass"] :
        /\ at["pass"] = "visit" /\ Takes("pass", e) /\ UNCHANGED <<vm, budget>>
        /\ \/ UNCHANGED <<row, at, cp, wk>>
           \/ ~ Owned(e[1]) /\ TakesDown("pass", e[1], "visit")
    BY <1>2, VisitDoes
  <2> QED
    BY <2>1, Distinct DEF Takes, TakesDown, Rewrites
<1>3. CASE PoolListed
  BY <1>3, Distinct, Copied DEF PoolListed, Goto, cloud, Listed
<1>4. CASE Replace
  <2>1. CASE need["pass"] = 0
    BY <1>4, <2>1 DEF Replace, StartOne, Goto, cloud
  <2>2. CASE need["pass"] # 0
    <3>1. PICK w \in Workers : Begun(w)
      BY <1>4, <2>2, Begins DEF Replace, StartOne
    <3> QED
      BY <1>4, <2>2, <3>1 DEF Replace, StartOne, Begun
  <2> QED
    BY <2>1, <2>2
<1>5. CASE Count
  BY <1>5, Distinct DEF Count, Goto, cloud, Candidates
<1>6. CASE Shrink
  BY <1>6, ShrinkDoes, Copied DEF Takes, TakesDown, Rewrites
<1>7. ASSUME NEW e \in list["pass"], HealthOk(e) PROVE LoopsOK'
  <2>1. Checked(e)
    BY <1>7, HealthDoes
  <2> QED
    BY <2>1, Distinct DEF Checked, Takes, Rewrites, Spend
<1>8. ASSUME NEW e \in list["pass"], HealthFails(e) PROVE LoopsOK'
  <2>1. Checked(e)
    BY <1>8, HealthDoes
  <2> QED
    BY <2>1, Distinct DEF Checked, Takes, Rewrites, Spend
<1>9. ASSUME NEW e \in list["pass"], HealthWrongVersion(e) PROVE LoopsOK'
  <2>1. Checked(e)
    BY <1>9, HealthDoes
  <2> QED
    BY <2>1, Distinct DEF Checked, Takes, Rewrites, Spend
<1>10. CASE Status
  BY <1>10, StatusDoes DEF Rewrites, Spend
<1>11. ASSUME NEW a \in Actors, DownOk(a) PROVE LoopsOK'
  <2>1. PICK w \in Workers, r \in Row :
        /\ Leaves(a, w, r) /\ r.st = "TERMINATED" /\ UNCHANGED budget
        /\ vm' = [vm EXCEPT ![w] = IF @ = "none" THEN "none" ELSE "gone"]
    BY <1>11, DownOkDoes
  <2> QED
    BY <2>1 DEF Leaves, Rewrites
<1>12. ASSUME NEW a \in Actors, DownFails(a) PROVE LoopsOK'
  <2>1. PICK w \in Workers, r \in Row :
        Leaves(a, w, r) /\ r.st = "TERMINATING" /\ Spend("faults") /\ UNCHANGED vm
    BY <1>12, DownFailsDoes
  <2> QED
    BY <2>1 DEF Leaves, Rewrites, Spend
<1>13. CASE Start
  BY <1>13, Distinct, Copied DEF Start, Goto, cloud, Listed
<1>14. CASE Recover
  BY <1>14, RecoverDoes DEF Takes, TakesDown, Rewrites, Spend
<1>15. CASE SweepOne
  BY <1>15, SweepOneDoes DEF Takes, Cancelled, TakesDown, Rewrites
<1>16. CASE Grow
  <2>1. CASE need["user"] = 0
    BY <1>16, <2>1 DEF Grow, StartOne, Goto, cloud
  <2>2. CASE need["user"] # 0
    <3>1. PICK w \in Workers : Begun(w)
      BY <1>16, <2>2, Begins DEF Grow, StartOne
    <3> QED
      BY <1>16, <2>2, <3>1 DEF Grow, StartOne, Begun
  <2> QED
    BY <2>1, <2>2
<1>17. ASSUME NEW w \in Workers, RemoveWorker(w) PROVE LoopsOK'
  BY <1>17, RemoveDoes DEF TakesDown, Rewrites, Spend
<1>18. ASSUME NEW w \in Workers, NEW twe \in BOOLEAN, Drain(w, twe) PROVE LoopsOK'
  BY <1>18, DrainDoes DEF Rewrites, Spend
<1>19. ASSUME NEW cleanup \in BOOLEAN, Sweep(cleanup) PROVE LoopsOK'
  BY <1>19, Distinct, Copied DEF Sweep, Spend, Goto, cloud, Listed
<1>20. ASSUME NEW n \in 1 .. MaxWorkers, PoolUp(n) PROVE LoopsOK'
  BY <1>20 DEF PoolUp, Spend, Goto, cloud, Listed
<1>21. ASSUME NEW w \in Workers, ProvisionFails(w) PROVE LoopsOK'
  BY <1>21 DEF ProvisionFails, Spend, Goto, cloud, loop
<1>22. ASSUME NEW w \in Workers, VmDies(w) PROVE LoopsOK'
  BY <1>22 DEF VmDies, Spend, loop
<1>23. CASE Crash
  BY <1>23 DEF Crash, Spend, LoopsEnd, cloud
<1>24. CASE Stop
  BY <1>24 DEF Stop, Spend, Cancelled, LoopsEnd, cloud
<1>25. CASE ScaleUp
  <2>1. PICK w \in Workers : Begun(w)
    BY <1>25, Begins DEF ScaleUp
  <2> QED
    BY <1>25, <2>1 DEF ScaleUp, Spend, Begun, loop
<1>26. ASSUME NEW w \in Workers, Launch(w) PROVE LoopsOK'
  BY <1>26 DEF Launch, loop
<1>27. ASSUME NEW w \in Workers, Provisioned(w) PROVE LoopsOK'
  BY <1>27, TaskDoes DEF Rewrites
<1>28. ASSUME NEW w \in Workers, Connected(w) PROVE LoopsOK'
  BY <1>28, TaskDoes DEF Rewrites
<1>29. ASSUME NEW w \in Workers, Finish(w) PROVE LoopsOK'
  BY <1>29 DEF Finish, Put, Goto, cloud, loop
<1>30. ASSUME NEW w \in Workers, Abandon(w) PROVE LoopsOK'
  BY <1>30, TaskDoes DEF Rewrites
<1>31. ASSUME NEW w \in Workers, VmComesUp(w) PROVE LoopsOK'
  BY <1>31 DEF VmComesUp, loop
<1>32. ASSUME NEW w \in Workers, Assign(w) PROVE LoopsOK'
  BY <1>32 DEF Assign, Spend, cloud, loop
<1>33. ASSUME NEW w \in Workers, Leave(w) PROVE LoopsOK'
  BY <1>33 DEF Leave, cloud, loop
<1> QED
  <2>1. CASE PassStep
    BY <2>1, <1>1, <1>2, <1>3, <1>4, <1>5, <1>6, <1>7, <1>8, <1>10,
       <1>11, <1>13, <1>14, Distinct DEF PassStep
  <2>2. CASE UserStep
    BY <2>2, <1>11, <1>15, <1>16, Distinct DEF UserStep
  <2>3. CASE Request
    BY <2>3, <1>17, <1>18, <1>19, <1>20 DEF Request
  <2>4. CASE Trouble
    BY <2>4, <1>8, <1>9, <1>12, <1>21, <1>22, <1>23, <1>24 DEF Trouble
  <2>5. ASSUME NEW w \in Workers, TaskStep(w) PROVE LoopsOK'
    BY <2>5, <1>11, <1>21, <1>26, <1>27, <1>28, <1>29, <1>30, Distinct DEF TaskStep
  <2> QED
    BY <2>1, <2>2, <2>3, <2>4, <2>5, <1>25, <1>31, <1>32, <1>33 DEF Next

\* The steps use troubles up.
LEMMA BudgetOKStep ==
  ASSUME FleetInv, Next
  PROVE  BudgetOK'
<1> USE FleetAssumption DEF FleetInv, TypeOK, Troubles
<1>1. CASE PassBegins
  BY <1>1 DEF PassBegins, Copies, Goto, cloud, BudgetOK
<1>2. CASE Visit
  <2>1. PICK e \in list["pass"] :
        /\ at["pass"] = "visit" /\ Takes("pass", e) /\ UNCHANGED <<vm, budget>>
        /\ \/ UNCHANGED <<row, at, cp, wk>>
           \/ ~ Owned(e[1]) /\ TakesDown("pass", e[1], "visit")
    BY <1>2, VisitDoes
  <2> QED
    BY <2>1, Spends DEF BudgetOK, Takes, TakesDown, Rewrites
<1>3. CASE PoolListed
  BY <1>3 DEF PoolListed, Copies, Goto, cloud, BudgetOK
<1>4. CASE Replace
  <2>1. CASE need["pass"] = 0
    BY <1>4, <2>1, Spends DEF BudgetOK, Replace, StartOne, Goto, cloud
  <2>2. CASE need["pass"] # 0
    <3>1. PICK w \in Workers : Begun(w)
      BY <1>4, <2>2, Begins DEF BudgetOK, Replace, StartOne
    <3> QED
      BY <1>4, <2>2, <3>1, Spends DEF BudgetOK, Replace, StartOne, Begun
  <2> QED
    BY <2>1, <2>2
<1>5. CASE Count
  BY <1>5 DEF Count, Goto, cloud, BudgetOK
<1>6. CASE Shrink
  BY <1>6, ShrinkDoes, Spends DEF BudgetOK, Takes, TakesDown, Rewrites
<1>7. ASSUME NEW e \in list["pass"], HealthOk(e) PROVE BudgetOK'
  <2>1. Checked(e)
    BY <1>7, HealthDoes
  <2> QED
    BY <2>1, Spends DEF BudgetOK, Checked, Takes, Rewrites
<1>8. ASSUME NEW e \in list["pass"], HealthFails(e) PROVE BudgetOK'
  <2>1. Checked(e)
    BY <1>8, HealthDoes
  <2> QED
    BY <2>1, Spends DEF BudgetOK, Checked, Takes, Rewrites
<1>9. ASSUME NEW e \in list["pass"], HealthWrongVersion(e) PROVE BudgetOK'
  <2>1. Checked(e)
    BY <1>9, HealthDoes
  <2> QED
    BY <2>1, Spends DEF BudgetOK, Checked, Takes, Rewrites
<1>10. CASE Status
  BY <1>10, StatusDoes, Spends DEF BudgetOK, Rewrites
<1>11. ASSUME NEW a \in Actors, DownOk(a) PROVE BudgetOK'
  <2>1. PICK w \in Workers, r \in Row :
        /\ Leaves(a, w, r) /\ r.st = "TERMINATED" /\ UNCHANGED budget
        /\ vm' = [vm EXCEPT ![w] = IF @ = "none" THEN "none" ELSE "gone"]
    BY <1>11, DownOkDoes
  <2> QED
    BY <2>1, Spends DEF BudgetOK, Leaves, Rewrites
<1>12. ASSUME NEW a \in Actors, DownFails(a) PROVE BudgetOK'
  <2>1. PICK w \in Workers, r \in Row :
        Leaves(a, w, r) /\ r.st = "TERMINATING" /\ Spend("faults") /\ UNCHANGED vm
    BY <1>12, DownFailsDoes
  <2> QED
    BY <2>1, Spends DEF BudgetOK, Leaves, Rewrites
<1>13. CASE Start
  BY <1>13 DEF Start, Copies, Goto, cloud, BudgetOK
<1>14. CASE Recover
  BY <1>14, RecoverDoes, Spends DEF BudgetOK, Takes, TakesDown, Rewrites
<1>15. CASE SweepOne
  BY <1>15, SweepOneDoes, Spends DEF BudgetOK, Takes, Cancelled, TakesDown, Rewrites
<1>16. CASE Grow
  <2>1. CASE need["user"] = 0
    BY <1>16, <2>1, Spends DEF BudgetOK, Grow, StartOne, Goto, cloud
  <2>2. CASE need["user"] # 0
    <3>1. PICK w \in Workers : Begun(w)
      BY <1>16, <2>2, Begins DEF BudgetOK, Grow, StartOne
    <3> QED
      BY <1>16, <2>2, <3>1, Spends DEF BudgetOK, Grow, StartOne, Begun
  <2> QED
    BY <2>1, <2>2
<1>17. ASSUME NEW w \in Workers, RemoveWorker(w) PROVE BudgetOK'
  BY <1>17, RemoveDoes, Spends DEF BudgetOK, TakesDown, Rewrites
<1>18. ASSUME NEW w \in Workers, NEW twe \in BOOLEAN, Drain(w, twe) PROVE BudgetOK'
  BY <1>18, DrainDoes, Spends DEF BudgetOK, Rewrites
<1>19. ASSUME NEW cleanup \in BOOLEAN, Sweep(cleanup) PROVE BudgetOK'
  BY <1>19, Spends DEF Sweep, Copies, Goto, cloud, BudgetOK
<1>20. ASSUME NEW n \in 1 .. MaxWorkers, PoolUp(n) PROVE BudgetOK'
  BY <1>20, Spends DEF PoolUp, Goto, cloud, BudgetOK
<1>21. ASSUME NEW w \in Workers, ProvisionFails(w) PROVE BudgetOK'
  BY <1>21, Spends DEF ProvisionFails, Goto, cloud, loop, BudgetOK
<1>22. ASSUME NEW w \in Workers, VmDies(w) PROVE BudgetOK'
  BY <1>22, Spends DEF VmDies, loop, BudgetOK
<1>23. CASE Crash
  BY <1>23, Spends DEF Crash, LoopsEnd, cloud, BudgetOK
<1>24. CASE Stop
  BY <1>24, Spends DEF Stop, Cancelled, LoopsEnd, cloud, BudgetOK
<1>25. CASE ScaleUp
  <2>1. PICK w \in Workers : Begun(w)
    BY <1>25, Begins DEF BudgetOK, ScaleUp
  <2> QED
    BY <1>25, <2>1, Spends DEF BudgetOK, ScaleUp, Begun, loop
<1>26. ASSUME NEW w \in Workers, Launch(w) PROVE BudgetOK'
  BY <1>26 DEF Launch, loop, BudgetOK
<1>27. ASSUME NEW w \in Workers, Provisioned(w) PROVE BudgetOK'
  BY <1>27, TaskDoes, Spends DEF BudgetOK, Rewrites
<1>28. ASSUME NEW w \in Workers, Connected(w) PROVE BudgetOK'
  BY <1>28, TaskDoes, Spends DEF BudgetOK, Rewrites
<1>29. ASSUME NEW w \in Workers, Finish(w) PROVE BudgetOK'
  BY <1>29 DEF Finish, Put, Goto, cloud, loop, BudgetOK
<1>30. ASSUME NEW w \in Workers, Abandon(w) PROVE BudgetOK'
  BY <1>30, TaskDoes, Spends DEF BudgetOK, Rewrites
<1>31. ASSUME NEW w \in Workers, VmComesUp(w) PROVE BudgetOK'
  BY <1>31 DEF VmComesUp, loop, BudgetOK
<1>32. ASSUME NEW w \in Workers, Assign(w) PROVE BudgetOK'
  BY <1>32, Spends DEF Assign, cloud, loop, BudgetOK
<1>33. ASSUME NEW w \in Workers, Leave(w) PROVE BudgetOK'
  BY <1>33 DEF Leave, cloud, loop, BudgetOK
<1> QED
  <2>1. CASE PassStep
    BY <2>1, <1>1, <1>2, <1>3, <1>4, <1>5, <1>6, <1>7, <1>8, <1>10,
       <1>11, <1>13, <1>14, Distinct DEF PassStep
  <2>2. CASE UserStep
    BY <2>2, <1>11, <1>15, <1>16, Distinct DEF UserStep
  <2>3. CASE Request
    BY <2>3, <1>17, <1>18, <1>19, <1>20 DEF Request
  <2>4. CASE Trouble
    BY <2>4, <1>8, <1>9, <1>12, <1>21, <1>22, <1>23, <1>24 DEF Trouble
  <2>5. ASSUME NEW w \in Workers, TaskStep(w) PROVE BudgetOK'
    BY <2>5, <1>11, <1>21, <1>26, <1>27, <1>28, <1>29, <1>30, Distinct DEF TaskStep
  <2> QED
    BY <2>1, <2>2, <2>3, <2>4, <2>5, <1>25, <1>31, <1>32, <1>33 DEF Next

\* A task writes CONNECTING, HEALTHY or DRAINING, and TERMINATING before it takes the VM down.
LEMMA TaskCopiesStep ==
  ASSUME FleetInv, Next
  PROVE  TaskCopies'
<1> USE FleetAssumption DEF FleetInv, TypeOK, RowsOK, StepsOK, LoopsOK, TaskCopies, TaskSteps
<1>1. CASE PassBegins
  BY <1>1 DEF PassBegins, Copies, Goto, cloud
<1>2. CASE Visit
  <2>1. PICK e \in list["pass"] :
        /\ at["pass"] = "visit" /\ Takes("pass", e) /\ UNCHANGED <<vm, budget>>
        /\ \/ UNCHANGED <<row, at, cp, wk>>
           \/ ~ Owned(e[1]) /\ TakesDown("pass", e[1], "visit")
    BY <1>2, VisitDoes
  <2> QED
    BY <2>1, Distinct DEF Takes, TakesDown, Rewrites
<1>3. CASE PoolListed
  BY <1>3 DEF PoolListed, Copies, Goto, cloud
<1>4. CASE Replace
  <2>1. CASE need["pass"] = 0
    BY <1>4, <2>1, Distinct DEF Replace, StartOne, Goto, cloud
  <2>2. CASE need["pass"] # 0
    <3>1. PICK w \in Workers : Begun(w)
      BY <1>4, <2>2, Begins DEF Replace, StartOne
    <3> QED
      BY <1>4, <2>2, <3>1, Distinct, NewRow, StateSets DEF Replace, StartOne, Begun
  <2> QED
    BY <2>1, <2>2
<1>5. CASE Count
  BY <1>5 DEF Count, Goto, cloud
<1>6. CASE Shrink
  BY <1>6, ShrinkDoes, Distinct DEF Takes, TakesDown, Rewrites
<1>7. ASSUME NEW e \in list["pass"], HealthOk(e) PROVE TaskCopies'
  <2>1. Checked(e)
    BY <1>7, HealthDoes
  <2> QED
    BY <2>1, Distinct DEF Checked, Takes, Rewrites, Spend
<1>8. ASSUME NEW e \in list["pass"], HealthFails(e) PROVE TaskCopies'
  <2>1. Checked(e)
    BY <1>8, HealthDoes
  <2> QED
    BY <2>1, Distinct DEF Checked, Takes, Rewrites, Spend
<1>9. ASSUME NEW e \in list["pass"], HealthWrongVersion(e) PROVE TaskCopies'
  <2>1. Checked(e)
    BY <1>9, HealthDoes
  <2> QED
    BY <2>1, Distinct DEF Checked, Takes, Rewrites, Spend
<1>10. CASE Status
  BY <1>10, StatusDoes, Distinct DEF Rewrites, Spend
<1>11. ASSUME NEW a \in Actors, DownOk(a) PROVE TaskCopies'
  <2>1. PICK w \in Workers, r \in Row :
        /\ Leaves(a, w, r) /\ r.st = "TERMINATED" /\ UNCHANGED budget
        /\ vm' = [vm EXCEPT ![w] = IF @ = "none" THEN "none" ELSE "gone"]
    BY <1>11, DownOkDoes
  <2> QED
    BY <2>1, Distinct DEF Leaves, Rewrites
<1>12. ASSUME NEW a \in Actors, DownFails(a) PROVE TaskCopies'
  <2>1. PICK w \in Workers, r \in Row :
        Leaves(a, w, r) /\ r.st = "TERMINATING" /\ Spend("faults") /\ UNCHANGED vm
    BY <1>12, DownFailsDoes
  <2> QED
    BY <2>1, Distinct DEF Leaves, Rewrites, Spend
<1>13. CASE Start
  BY <1>13 DEF Start, Copies, Goto, cloud
<1>14. CASE Recover
  BY <1>14, RecoverDoes, Distinct DEF Takes, TakesDown, Rewrites, Spend
<1>15. CASE SweepOne
  BY <1>15, SweepOneDoes, Distinct DEF Takes, Cancelled, TakesDown, Rewrites
<1>16. CASE Grow
  <2>1. CASE need["user"] = 0
    BY <1>16, <2>1, Distinct DEF Grow, StartOne, Goto, cloud
  <2>2. CASE need["user"] # 0
    <3>1. PICK w \in Workers : Begun(w)
      BY <1>16, <2>2, Begins DEF Grow, StartOne
    <3> QED
      BY <1>16, <2>2, <3>1, Distinct, NewRow, StateSets DEF Grow, StartOne, Begun
  <2> QED
    BY <2>1, <2>2
<1>17. ASSUME NEW w \in Workers, RemoveWorker(w) PROVE TaskCopies'
  BY <1>17, RemoveDoes, Distinct DEF TakesDown, Rewrites, Spend
<1>18. ASSUME NEW w \in Workers, NEW twe \in BOOLEAN, Drain(w, twe) PROVE TaskCopies'
  BY <1>18, DrainDoes DEF Rewrites, Spend
<1>19. ASSUME NEW cleanup \in BOOLEAN, Sweep(cleanup) PROVE TaskCopies'
  BY <1>19 DEF Sweep, Spend, Copies, Goto, cloud
<1>20. ASSUME NEW n \in 1 .. MaxWorkers, PoolUp(n) PROVE TaskCopies'
  BY <1>20 DEF PoolUp, Spend, Goto, cloud
<1>21. ASSUME NEW w \in Workers, ProvisionFails(w) PROVE TaskCopies'
  BY <1>21 DEF ProvisionFails, Spend, Goto, cloud, loop
<1>22. ASSUME NEW w \in Workers, VmDies(w) PROVE TaskCopies'
  BY <1>22 DEF VmDies, Spend, loop
<1>23. CASE Crash
  BY <1>23, Distinct DEF Crash, Spend, LoopsEnd, cloud
<1>24. CASE Stop
  BY <1>24, Distinct DEF Stop, Spend, Cancelled, LoopsEnd, cloud
<1>25. CASE ScaleUp
  <2>1. PICK w \in Workers : Begun(w)
    BY <1>25, Begins DEF ScaleUp
  <2> QED
    BY <1>25, <2>1, Distinct, NewRow, StateSets DEF ScaleUp, Spend, Begun, loop
<1>26. ASSUME NEW w \in Workers, Launch(w) PROVE TaskCopies'
  BY <1>26 DEF Launch, loop
<1>27. ASSUME NEW w \in Workers, Provisioned(w) PROVE TaskCopies'
  BY <1>27, TaskDoes, Distinct, StateSets DEF Rewrites
<1>28. ASSUME NEW w \in Workers, Connected(w) PROVE TaskCopies'
  BY <1>28, TaskDoes, Distinct, StateSets DEF Rewrites
<1>29. ASSUME NEW w \in Workers, Finish(w) PROVE TaskCopies'
  BY <1>29 DEF Finish, Put, Goto, cloud, loop
<1>30. ASSUME NEW w \in Workers, Abandon(w) PROVE TaskCopies'
  BY <1>30, TaskDoes, Distinct DEF Rewrites
<1>31. ASSUME NEW w \in Workers, VmComesUp(w) PROVE TaskCopies'
  BY <1>31 DEF VmComesUp, loop
<1>32. ASSUME NEW w \in Workers, Assign(w) PROVE TaskCopies'
  BY <1>32 DEF Assign, Spend, cloud, loop
<1>33. ASSUME NEW w \in Workers, Leave(w) PROVE TaskCopies'
  BY <1>33 DEF Leave, cloud, loop
<1> QED
  <2>1. CASE PassStep
    BY <2>1, <1>1, <1>2, <1>3, <1>4, <1>5, <1>6, <1>7, <1>8, <1>10,
       <1>11, <1>13, <1>14, Distinct DEF PassStep
  <2>2. CASE UserStep
    BY <2>2, <1>11, <1>15, <1>16, Distinct DEF UserStep
  <2>3. CASE Request
    BY <2>3, <1>17, <1>18, <1>19, <1>20 DEF Request
  <2>4. CASE Trouble
    BY <2>4, <1>8, <1>9, <1>12, <1>21, <1>22, <1>23, <1>24 DEF Trouble
  <2>5. ASSUME NEW w \in Workers, TaskStep(w) PROVE TaskCopies'
    BY <2>5, <1>11, <1>21, <1>26, <1>27, <1>28, <1>29, <1>30, Distinct DEF TaskStep
  <2> QED
    BY <2>1, <2>2, <2>3, <2>4, <2>5, <1>25, <1>31, <1>32, <1>33 DEF Next

\* What is listed is not over when it is listed.
LEMMA ListingStep ==
  ASSUME FleetInv, Next
  PROVE  Listing'
<1> USE FleetAssumption DEF FleetInv, TypeOK, RowsOK, StepsOK, LoopsOK, Listing, Holding, Served, Idle
<1>1. CASE PassBegins
  BY <1>1, CopiesAre DEF PassBegins, Goto, cloud, Listed
<1>2. CASE Visit
  <2>1. PICK e \in list["pass"] :
        /\ at["pass"] = "visit" /\ Takes("pass", e) /\ UNCHANGED <<vm, budget>>
        /\ \/ UNCHANGED <<row, at, cp, wk>>
           \/ ~ Owned(e[1]) /\ TakesDown("pass", e[1], "visit")
    BY <1>2, VisitDoes
  <2> QED
    BY <2>1, Distinct DEF Takes, TakesDown, Rewrites
<1>3. CASE PoolListed
  BY <1>3, CopiesAre DEF PoolListed, Goto, cloud, Listed
<1>4. CASE Replace
  <2>1. CASE need["pass"] = 0
    BY <1>4, <2>1, Distinct DEF Replace, StartOne, Goto, cloud
  <2>2. CASE need["pass"] # 0
    <3>1. PICK w \in Workers : Begun(w)
      BY <1>4, <2>2, Begins DEF Replace, StartOne
    <3> QED
      BY <1>4, <2>2, <3>1 DEF Replace, StartOne, Begun
  <2> QED
    BY <2>1, <2>2
<1>5. CASE Count
  BY <1>5, Distinct DEF Count, Goto, cloud, Candidates
<1>6. CASE Shrink
  BY <1>6, ShrinkDoes, Distinct DEF Takes, TakesDown, Rewrites
<1>7. ASSUME NEW e \in list["pass"], HealthOk(e) PROVE Listing'
  <2>1. Checked(e)
    BY <1>7, HealthDoes
  <2> QED
    BY <2>1, Distinct DEF Checked, Takes, Rewrites, Spend
<1>8. ASSUME NEW e \in list["pass"], HealthFails(e) PROVE Listing'
  <2>1. Checked(e)
    BY <1>8, HealthDoes
  <2> QED
    BY <2>1, Distinct DEF Checked, Takes, Rewrites, Spend
<1>9. ASSUME NEW e \in list["pass"], HealthWrongVersion(e) PROVE Listing'
  <2>1. Checked(e)
    BY <1>9, HealthDoes
  <2> QED
    BY <2>1, Distinct DEF Checked, Takes, Rewrites, Spend
<1>10. CASE Status
  BY <1>10, StatusDoes, Distinct DEF Rewrites, Spend
<1>11. ASSUME NEW a \in Actors, DownOk(a) PROVE Listing'
  <2>1. PICK w \in Workers, r \in Row :
        /\ Leaves(a, w, r) /\ r.st = "TERMINATED" /\ UNCHANGED budget
        /\ vm' = [vm EXCEPT ![w] = IF @ = "none" THEN "none" ELSE "gone"]
    BY <1>11, DownOkDoes
  <2> QED
    BY <2>1, Distinct DEF Leaves, Rewrites
<1>12. ASSUME NEW a \in Actors, DownFails(a) PROVE Listing'
  <2>1. PICK w \in Workers, r \in Row :
        Leaves(a, w, r) /\ r.st = "TERMINATING" /\ Spend("faults") /\ UNCHANGED vm
    BY <1>12, DownFailsDoes
  <2> QED
    BY <2>1, Distinct DEF Leaves, Rewrites, Spend
<1>13. CASE Start
  BY <1>13, CopiesAre DEF Start, Goto, cloud, Listed
<1>14. CASE Recover
  BY <1>14, RecoverDoes, Distinct DEF Takes, TakesDown, Rewrites, Spend
<1>15. CASE SweepOne
  BY <1>15, SweepOneDoes, Distinct, Listings DEF Takes, Cancelled, TakesDown, Rewrites
<1>16. CASE Grow
  <2>1. CASE need["user"] = 0
    BY <1>16, <2>1, Distinct DEF Grow, StartOne, Goto, cloud
  <2>2. CASE need["user"] # 0
    <3>1. PICK w \in Workers : Begun(w)
      BY <1>16, <2>2, Begins DEF Grow, StartOne
    <3> QED
      BY <1>16, <2>2, <3>1 DEF Grow, StartOne, Begun
  <2> QED
    BY <2>1, <2>2
<1>17. ASSUME NEW w \in Workers, RemoveWorker(w) PROVE Listing'
  BY <1>17, RemoveDoes, Distinct DEF TakesDown, Rewrites, Spend
<1>18. ASSUME NEW w \in Workers, NEW twe \in BOOLEAN, Drain(w, twe) PROVE Listing'
  BY <1>18, DrainDoes DEF Rewrites, Spend
<1>19. ASSUME NEW cleanup \in BOOLEAN, Sweep(cleanup) PROVE Listing'
  BY <1>19, Distinct, CopiesAre DEF Sweep, Spend, Goto, cloud, Listed
<1>20. ASSUME NEW n \in 1 .. MaxWorkers, PoolUp(n) PROVE Listing'
  BY <1>20 DEF PoolUp, Spend, Goto, cloud, Listed
<1>21. ASSUME NEW w \in Workers, ProvisionFails(w) PROVE Listing'
  BY <1>21 DEF ProvisionFails, Spend, Goto, cloud, loop
<1>22. ASSUME NEW w \in Workers, VmDies(w) PROVE Listing'
  BY <1>22 DEF VmDies, Spend, loop
<1>23. CASE Crash
  BY <1>23, Distinct DEF Crash, Spend, LoopsEnd, cloud
<1>24. CASE Stop
  BY <1>24, Distinct DEF Stop, Spend, Cancelled, LoopsEnd, cloud
<1>25. CASE ScaleUp
  <2>1. PICK w \in Workers : Begun(w)
    BY <1>25, Begins DEF ScaleUp
  <2> QED
    BY <1>25, <2>1 DEF ScaleUp, Spend, Begun, loop
<1>26. ASSUME NEW w \in Workers, Launch(w) PROVE Listing'
  BY <1>26 DEF Launch, loop
<1>27. ASSUME NEW w \in Workers, Provisioned(w) PROVE Listing'
  BY <1>27, TaskDoes, Distinct DEF Rewrites
<1>28. ASSUME NEW w \in Workers, Connected(w) PROVE Listing'
  BY <1>28, TaskDoes, Distinct DEF Rewrites
<1>29. ASSUME NEW w \in Workers, Finish(w) PROVE Listing'
  BY <1>29, Distinct DEF Finish, Put, Goto, cloud, loop
<1>30. ASSUME NEW w \in Workers, Abandon(w) PROVE Listing'
  BY <1>30, TaskDoes, Distinct DEF Rewrites
<1>31. ASSUME NEW w \in Workers, VmComesUp(w) PROVE Listing'
  BY <1>31 DEF VmComesUp, loop
<1>32. ASSUME NEW w \in Workers, Assign(w) PROVE Listing'
  BY <1>32 DEF Assign, Spend, cloud, loop
<1>33. ASSUME NEW w \in Workers, Leave(w) PROVE Listing'
  BY <1>33 DEF Leave, cloud, loop
<1> QED
  <2>1. CASE PassStep
    BY <2>1, <1>1, <1>2, <1>3, <1>4, <1>5, <1>6, <1>7, <1>8, <1>10,
       <1>11, <1>13, <1>14, Distinct DEF PassStep
  <2>2. CASE UserStep
    BY <2>2, <1>11, <1>15, <1>16, Distinct DEF UserStep
  <2>3. CASE Request
    BY <2>3, <1>17, <1>18, <1>19, <1>20 DEF Request
  <2>4. CASE Trouble
    BY <2>4, <1>8, <1>9, <1>12, <1>21, <1>22, <1>23, <1>24 DEF Trouble
  <2>5. ASSUME NEW w \in Workers, TaskStep(w) PROVE Listing'
    BY <2>5, <1>11, <1>21, <1>26, <1>27, <1>28, <1>29, <1>30, Distinct DEF TaskStep
  <2> QED
    BY <2>1, <2>2, <2>3, <2>4, <2>5, <1>25, <1>31, <1>32, <1>33 DEF Next

\* Terminate marks the copy it hands over; only rows that are not over get so far.
LEMMA HoldingStep ==
  ASSUME FleetInv, Next
  PROVE  Holding'
<1> USE FleetAssumption DEF FleetInv, TypeOK, RowsOK, StepsOK, LoopsOK, Holding, Listing, Idle, UserSteps,
                            PassSteps
<1>1. CASE PassBegins
  BY <1>1 DEF PassBegins, Copies, Goto, cloud
<1>2. CASE Visit
  <2>1. PICK e \in list["pass"] :
        /\ at["pass"] = "visit" /\ Takes("pass", e) /\ UNCHANGED <<vm, budget>>
        /\ \/ UNCHANGED <<row, at, cp, wk>>
           \/ ~ Owned(e[1]) /\ TakesDown("pass", e[1], "visit")
    BY <1>2, VisitDoes
  <2> QED
    BY <2>1, Distinct DEF Takes, TakesDown, Rewrites
<1>3. CASE PoolListed
  BY <1>3 DEF PoolListed, Copies, Goto, cloud
<1>4. CASE Replace
  <2>1. CASE need["pass"] = 0
    BY <1>4, <2>1, Distinct DEF Replace, StartOne, Goto, cloud
  <2>2. CASE need["pass"] # 0
    <3>1. PICK w \in Workers : Begun(w)
      BY <1>4, <2>2, Begins DEF Replace, StartOne
    <3> QED
      BY <1>4, <2>2, <3>1 DEF Replace, StartOne, Begun
  <2> QED
    BY <2>1, <2>2
<1>5. CASE Count
  BY <1>5 DEF Count, Goto, cloud
<1>6. CASE Shrink
  BY <1>6, ShrinkDoes, Distinct, Listings DEF Takes, TakesDown, Rewrites
<1>7. ASSUME NEW e \in list["pass"], HealthOk(e) PROVE Holding'
  <2>1. Checked(e)
    BY <1>7, HealthDoes
  <2> QED
    BY <2>1, Distinct DEF Checked, Takes, Rewrites, Spend
<1>8. ASSUME NEW e \in list["pass"], HealthFails(e) PROVE Holding'
  <2>1. Checked(e)
    BY <1>8, HealthDoes
  <2> QED
    BY <2>1, Distinct DEF Checked, Takes, Rewrites, Spend
<1>9. ASSUME NEW e \in list["pass"], HealthWrongVersion(e) PROVE Holding'
  <2>1. Checked(e)
    BY <1>9, HealthDoes
  <2> QED
    BY <2>1, Distinct DEF Checked, Takes, Rewrites, Spend
<1>10. CASE Status
  BY <1>10, StatusDoes, Distinct DEF Rewrites, Spend
<1>11. ASSUME NEW a \in Actors, DownOk(a) PROVE Holding'
  <2>1. PICK w \in Workers, r \in Row :
        /\ Leaves(a, w, r) /\ r.st = "TERMINATED" /\ UNCHANGED budget
        /\ vm' = [vm EXCEPT ![w] = IF @ = "none" THEN "none" ELSE "gone"]
    BY <1>11, DownOkDoes
  <2> QED
    BY <2>1, Distinct DEF Leaves, Rewrites
<1>12. ASSUME NEW a \in Actors, DownFails(a) PROVE Holding'
  <2>1. PICK w \in Workers, r \in Row :
        Leaves(a, w, r) /\ r.st = "TERMINATING" /\ Spend("faults") /\ UNCHANGED vm
    BY <1>12, DownFailsDoes
  <2> QED
    BY <2>1, Distinct DEF Leaves, Rewrites, Spend
<1>13. CASE Start
  BY <1>13 DEF Start, Copies, Goto, cloud
<1>14. CASE Recover
  BY <1>14, RecoverDoes, Distinct DEF Takes, TakesDown, Rewrites, Spend
<1>15. CASE SweepOne
  BY <1>15, SweepOneDoes, Distinct DEF Takes, Cancelled, TakesDown, Rewrites
<1>16. CASE Grow
  <2>1. CASE need["user"] = 0
    BY <1>16, <2>1, Distinct DEF Grow, StartOne, Goto, cloud
  <2>2. CASE need["user"] # 0
    <3>1. PICK w \in Workers : Begun(w)
      BY <1>16, <2>2, Begins DEF Grow, StartOne
    <3> QED
      BY <1>16, <2>2, <3>1 DEF Grow, StartOne, Begun
  <2> QED
    BY <2>1, <2>2
<1>17. ASSUME NEW w \in Workers, RemoveWorker(w) PROVE Holding'
  BY <1>17, RemoveDoes, Distinct DEF TakesDown, Rewrites, Spend
<1>18. ASSUME NEW w \in Workers, NEW twe \in BOOLEAN, Drain(w, twe) PROVE Holding'
  BY <1>18, DrainDoes DEF Rewrites, Spend
<1>19. ASSUME NEW cleanup \in BOOLEAN, Sweep(cleanup) PROVE Holding'
  BY <1>19 DEF Sweep, Spend, Copies, Goto, cloud
<1>20. ASSUME NEW n \in 1 .. MaxWorkers, PoolUp(n) PROVE Holding'
  BY <1>20 DEF PoolUp, Spend, Goto, cloud
<1>21. ASSUME NEW w \in Workers, ProvisionFails(w) PROVE Holding'
  BY <1>21 DEF ProvisionFails, Spend, Goto, cloud, loop
<1>22. ASSUME NEW w \in Workers, VmDies(w) PROVE Holding'
  BY <1>22 DEF VmDies, Spend, loop
<1>23. CASE Crash
  BY <1>23, Distinct DEF Crash, Spend, LoopsEnd, cloud
<1>24. CASE Stop
  BY <1>24, Distinct DEF Stop, Spend, Cancelled, LoopsEnd, cloud
<1>25. CASE ScaleUp
  <2>1. PICK w \in Workers : Begun(w)
    BY <1>25, Begins DEF ScaleUp
  <2> QED
    BY <1>25, <2>1 DEF ScaleUp, Spend, Begun, loop
<1>26. ASSUME NEW w \in Workers, Launch(w) PROVE Holding'
  BY <1>26 DEF Launch, loop
<1>27. ASSUME NEW w \in Workers, Provisioned(w) PROVE Holding'
  BY <1>27, TaskDoes, Distinct DEF Rewrites
<1>28. ASSUME NEW w \in Workers, Connected(w) PROVE Holding'
  BY <1>28, TaskDoes, Distinct DEF Rewrites
<1>29. ASSUME NEW w \in Workers, Finish(w) PROVE Holding'
  BY <1>29 DEF Finish, Put, Goto, cloud, loop
<1>30. ASSUME NEW w \in Workers, Abandon(w) PROVE Holding'
  BY <1>30, TaskDoes, Distinct, Listings DEF Rewrites
<1>31. ASSUME NEW w \in Workers, VmComesUp(w) PROVE Holding'
  BY <1>31 DEF VmComesUp, loop
<1>32. ASSUME NEW w \in Workers, Assign(w) PROVE Holding'
  BY <1>32 DEF Assign, Spend, cloud, loop
<1>33. ASSUME NEW w \in Workers, Leave(w) PROVE Holding'
  BY <1>33 DEF Leave, cloud, loop
<1> QED
  <2>1. CASE PassStep
    BY <2>1, <1>1, <1>2, <1>3, <1>4, <1>5, <1>6, <1>7, <1>8, <1>10,
       <1>11, <1>13, <1>14, Distinct DEF PassStep
  <2>2. CASE UserStep
    BY <2>2, <1>11, <1>15, <1>16, Distinct DEF UserStep
  <2>3. CASE Request
    BY <2>3, <1>17, <1>18, <1>19, <1>20 DEF Request
  <2>4. CASE Trouble
    BY <2>4, <1>8, <1>9, <1>12, <1>21, <1>22, <1>23, <1>24 DEF Trouble
  <2>5. ASSUME NEW w \in Workers, TaskStep(w) PROVE Holding'
    BY <2>5, <1>11, <1>21, <1>26, <1>27, <1>28, <1>29, <1>30, Distinct DEF TaskStep
  <2> QED
    BY <2>1, <2>2, <2>3, <2>4, <2>5, <1>25, <1>31, <1>32, <1>33 DEF Next

\* No step takes a row out of the table.
LEMMA KnownStep ==
  ASSUME FleetInv, Next
  PROVE  Known'
<1> USE FleetAssumption DEF FleetInv, TypeOK, RowsOK, StepsOK, LoopsOK, Known, Idle
<1>1. CASE PassBegins
  BY <1>1, Distinct, StateSets DEF PassBegins, Copies, Goto, cloud, Listed
<1>2. CASE Visit
  <2>1. PICK e \in list["pass"] :
        /\ at["pass"] = "visit" /\ Takes("pass", e) /\ UNCHANGED <<vm, budget>>
        /\ \/ UNCHANGED <<row, at, cp, wk>>
           \/ ~ Owned(e[1]) /\ TakesDown("pass", e[1], "visit")
    BY <1>2, VisitDoes
  <2> QED
    BY <2>1, Distinct DEF Takes, TakesDown, Rewrites
<1>3. CASE PoolListed
  BY <1>3, StateSets DEF PoolListed, Copies, Goto, cloud, Listed
<1>4. CASE Replace
  <2>1. CASE need["pass"] = 0
    BY <1>4, <2>1, Distinct DEF Replace, StartOne, Goto, cloud
  <2>2. CASE need["pass"] # 0
    <3>1. PICK w \in Workers : Begun(w)
      BY <1>4, <2>2, Begins DEF Replace, StartOne
    <3> QED
      BY <1>4, <2>2, <3>1, NewRow DEF Replace, StartOne, Begun
  <2> QED
    BY <2>1, <2>2
<1>5. CASE Count
  BY <1>5 DEF Count, Goto, cloud, Candidates
<1>6. CASE Shrink
  BY <1>6, ShrinkDoes, Distinct, NewRow, StateSets DEF Takes, TakesDown, Rewrites
<1>7. ASSUME NEW e \in list["pass"], HealthOk(e) PROVE Known'
  <2>1. Checked(e)
    BY <1>7, HealthDoes
  <2> QED
    BY <2>1, Distinct, StateSets DEF Checked, Takes, Rewrites, Spend
<1>8. ASSUME NEW e \in list["pass"], HealthFails(e) PROVE Known'
  <2>1. Checked(e)
    BY <1>8, HealthDoes
  <2> QED
    BY <2>1, Distinct, StateSets DEF Checked, Takes, Rewrites, Spend
<1>9. ASSUME NEW e \in list["pass"], HealthWrongVersion(e) PROVE Known'
  <2>1. Checked(e)
    BY <1>9, HealthDoes
  <2> QED
    BY <2>1, Distinct, StateSets DEF Checked, Takes, Rewrites, Spend
<1>10. CASE Status
  BY <1>10, StatusDoes, Distinct DEF Rewrites, Spend
<1>11. ASSUME NEW a \in Actors, DownOk(a) PROVE Known'
  <2>1. PICK w \in Workers, r \in Row :
        /\ Leaves(a, w, r) /\ r.st = "TERMINATED" /\ UNCHANGED budget
        /\ vm' = [vm EXCEPT ![w] = IF @ = "none" THEN "none" ELSE "gone"]
    BY <1>11, DownOkDoes
  <2> QED
    BY <2>1, Distinct DEF Leaves, Rewrites
<1>12. ASSUME NEW a \in Actors, DownFails(a) PROVE Known'
  <2>1. PICK w \in Workers, r \in Row :
        Leaves(a, w, r) /\ r.st = "TERMINATING" /\ Spend("faults") /\ UNCHANGED vm
    BY <1>12, DownFailsDoes
  <2> QED
    BY <2>1, Distinct DEF Leaves, Rewrites, Spend
<1>13. CASE Start
  BY <1>13, StateSets DEF Start, Copies, Goto, cloud, Listed
<1>14. CASE Recover
  <2>1. \/ at' = [at EXCEPT !["pass"] = "idle"] /\ UNCHANGED <<row, cp, wk, list>>
        \/ \E e \in list["pass"] :
             /\ Takes("pass", e)
             /\ \/ \E r \in Row : Rewrites(e[1], r) /\ r.st = "CONNECTING" /\ UNCHANGED <<at, cp, wk>>
                \/ TakesDown("pass", e[1], "recover")
    BY <1>14, RecoverDoes
  <2>2. at["pass"] = "recover" /\ UNCHANGED vm /\ (UNCHANGED budget \/ Spend("faults"))
    BY <1>14, RecoverDoes
  <2>3. CASE at' = [at EXCEPT !["pass"] = "idle"] /\ UNCHANGED <<row, cp, wk, list>>
    BY <2>2, <2>3
  <2>4. ASSUME NEW e \in list["pass"], Takes("pass", e), NEW r \in Row, Rewrites(e[1], r),
               r.st = "CONNECTING", UNCHANGED <<at, cp, wk>>
        PROVE  Known'
    BY <2>2, <2>4 DEF Takes, Rewrites
  <2>5. ASSUME NEW e \in list["pass"], Takes("pass", e), TakesDown("pass", e[1], "recover")
        PROVE  Known'
    BY <2>2, <2>5 DEF Takes, TakesDown, Rewrites
  <2> QED
    BY <2>1, <2>3, <2>4, <2>5
<1>15. CASE SweepOne
  <2>1. \/ at' = [at EXCEPT !["user"] = "idle"] /\ list["user"] = {} /\ UNCHANGED <<row, cp, wk, list>>
        \/ \E e \in list["user"] :
             /\ Takes("user", e)
             /\ \/ Owned(e[1]) /\ at' = [at EXCEPT ![e[1]] = Cancelled(e[1])] /\ UNCHANGED <<row, cp, wk>>
                \/ ~ Owned(e[1]) /\ TakesDown("user", e[1], "all")
    BY <1>15, SweepOneDoes
  <2>2. at["user"] = "all" /\ UNCHANGED <<vm, budget>>
    BY <1>15, SweepOneDoes
  <2>3. CASE at' = [at EXCEPT !["user"] = "idle"] /\ list["user"] = {} /\ UNCHANGED <<row, cp, wk, list>>
    BY <2>2, <2>3
  <2>4. ASSUME NEW e \in list["user"], Takes("user", e), Owned(e[1]),
               at' = [at EXCEPT ![e[1]] = Cancelled(e[1])], UNCHANGED <<row, cp, wk>>
        PROVE  Known'
    BY <2>2, <2>4 DEF Takes, Cancelled
  <2>5. ASSUME NEW e \in list["user"], Takes("user", e), ~ Owned(e[1]), TakesDown("user", e[1], "all")
        PROVE  Known'
    BY <2>2, <2>5 DEF Takes, TakesDown, Rewrites
  <2> QED
    BY <2>1, <2>3, <2>4, <2>5
<1>16. CASE Grow
  <2>1. CASE need["user"] = 0
    BY <1>16, <2>1, Distinct DEF Grow, StartOne, Goto, cloud
  <2>2. CASE need["user"] # 0
    <3>1. PICK w \in Workers : Begun(w)
      BY <1>16, <2>2, Begins DEF Grow, StartOne
    <3> QED
      BY <1>16, <2>2, <3>1, NewRow DEF Grow, StartOne, Begun
  <2> QED
    BY <2>1, <2>2
<1>17. ASSUME NEW w \in Workers, RemoveWorker(w) PROVE Known'
  BY <1>17, RemoveDoes, Distinct, NewRow, StateSets DEF TakesDown, Rewrites, Spend
<1>18. ASSUME NEW w \in Workers, NEW twe \in BOOLEAN, Drain(w, twe) PROVE Known'
  BY <1>18, DrainDoes DEF Rewrites, Spend
<1>19. ASSUME NEW cleanup \in BOOLEAN, Sweep(cleanup) PROVE Known'
  BY <1>19, Distinct, StateSets DEF Sweep, Spend, Copies, Goto, cloud, Listed
<1>20. ASSUME NEW n \in 1 .. MaxWorkers, PoolUp(n) PROVE Known'
  BY <1>20, Distinct DEF PoolUp, Spend, Goto, cloud, Listed
<1>21. ASSUME NEW w \in Workers, ProvisionFails(w) PROVE Known'
  BY <1>21 DEF ProvisionFails, Spend, Goto, cloud, loop
<1>22. ASSUME NEW w \in Workers, VmDies(w) PROVE Known'
  BY <1>22 DEF VmDies, Spend, loop
<1>23. CASE Crash
  BY <1>23, Distinct DEF Crash, Spend, LoopsEnd, cloud
<1>24. CASE Stop
  BY <1>24, Distinct DEF Stop, Spend, Cancelled, LoopsEnd, cloud
<1>25. CASE ScaleUp
  <2>1. PICK w \in Workers : Begun(w)
    BY <1>25, Begins DEF ScaleUp
  <2> QED
    BY <1>25, <2>1, NewRow DEF ScaleUp, Spend, Begun, loop
<1>26. ASSUME NEW w \in Workers, Launch(w) PROVE Known'
  BY <1>26 DEF Launch, loop
<1>27. ASSUME NEW w \in Workers, Provisioned(w) PROVE Known'
  BY <1>27, TaskDoes, Distinct DEF Rewrites
<1>28. ASSUME NEW w \in Workers, Connected(w) PROVE Known'
  BY <1>28, TaskDoes, Distinct DEF Rewrites
<1>29. ASSUME NEW w \in Workers, Finish(w) PROVE Known'
  BY <1>29, StateSets DEF Finish, TaskCopies, Put, Goto, cloud, loop
<1>30. ASSUME NEW w \in Workers, Abandon(w) PROVE Known'
  BY <1>30, TaskDoes, Distinct DEF Rewrites
<1>31. ASSUME NEW w \in Workers, VmComesUp(w) PROVE Known'
  BY <1>31 DEF VmComesUp, loop
<1>32. ASSUME NEW w \in Workers, Assign(w) PROVE Known'
  BY <1>32 DEF Assign, Spend, cloud, loop
<1>33. ASSUME NEW w \in Workers, Leave(w) PROVE Known'
  BY <1>33 DEF Leave, cloud, loop
<1> QED
  <2>1. CASE PassStep
    BY <2>1, <1>1, <1>2, <1>3, <1>4, <1>5, <1>6, <1>7, <1>8, <1>10,
       <1>11, <1>13, <1>14, Distinct DEF PassStep
  <2>2. CASE UserStep
    BY <2>2, <1>11, <1>15, <1>16, Distinct DEF UserStep
  <2>3. CASE Request
    BY <2>3, <1>17, <1>18, <1>19, <1>20 DEF Request
  <2>4. CASE Trouble
    BY <2>4, <1>8, <1>9, <1>12, <1>21, <1>22, <1>23, <1>24 DEF Trouble
  <2>5. ASSUME NEW w \in Workers, TaskStep(w) PROVE Known'
    BY <2>5, <1>11, <1>21, <1>26, <1>27, <1>28, <1>29, <1>30, Distinct DEF TaskStep
  <2> QED
    BY <2>1, <2>2, <2>3, <2>4, <2>5, <1>25, <1>31, <1>32, <1>33 DEF Next

\* HEALTHY comes from an answer, and a VM that has been there is gone, not unknown.
LEMMA ExistedStep ==
  ASSUME FleetInv, Next
  PROVE  Existed'
<1> USE FleetAssumption DEF FleetInv, TypeOK, RowsOK, StepsOK, LoopsOK, Existed, Served
<1>1. CASE PassBegins
  BY <1>1 DEF PassBegins, Copies, Goto, cloud, Listed
<1>2. CASE Visit
  <2>1. PICK e \in list["pass"] :
        /\ at["pass"] = "visit" /\ Takes("pass", e) /\ UNCHANGED <<vm, budget>>
        /\ \/ UNCHANGED <<row, at, cp, wk>>
           \/ ~ Owned(e[1]) /\ TakesDown("pass", e[1], "visit")
    BY <1>2, VisitDoes
  <2> QED
    BY <2>1, Distinct DEF Takes, TakesDown, Rewrites
<1>3. CASE PoolListed
  BY <1>3 DEF PoolListed, Copies, Goto, cloud, Listed
<1>4. CASE Replace
  <2>1. CASE need["pass"] = 0
    BY <1>4, <2>1 DEF Replace, StartOne, Goto, cloud
  <2>2. CASE need["pass"] # 0
    <3>1. PICK w \in Workers : Begun(w)
      BY <1>4, <2>2, Begins DEF Replace, StartOne
    <3> QED
      BY <1>4, <2>2, <3>1, Distinct, NewRow DEF Replace, StartOne, Begun
  <2> QED
    BY <2>1, <2>2
<1>5. CASE Count
  BY <1>5 DEF Count, Goto, cloud, Candidates
<1>6. CASE Shrink
  BY <1>6, ShrinkDoes, Distinct, Listings DEF Takes, TakesDown, Rewrites
<1>7. ASSUME NEW e \in list["pass"], HealthOk(e) PROVE Existed'
  <2>1. Checked(e)
    BY <1>7, HealthDoes
  <2> QED
    BY <2>1, Distinct, Listings, StateSets DEF Checked, Takes, Rewrites, Spend
<1>8. ASSUME NEW e \in list["pass"], HealthFails(e) PROVE Existed'
  <2>1. Checked(e)
    BY <1>8, HealthDoes
  <2> QED
    BY <2>1, Distinct, Listings, StateSets DEF Checked, Takes, Rewrites, Spend
<1>9. ASSUME NEW e \in list["pass"], HealthWrongVersion(e) PROVE Existed'
  <2>1. Checked(e)
    BY <1>9, HealthDoes
  <2> QED
    BY <2>1, Distinct, Listings, StateSets DEF Checked, Takes, Rewrites, Spend
<1>10. CASE Status
  BY <1>10, StatusDoes, Distinct DEF Rewrites, Spend
<1>11. ASSUME NEW a \in Actors, DownOk(a) PROVE Existed'
  <2>1. PICK w \in Workers, r \in Row :
        /\ Leaves(a, w, r) /\ r.st = "TERMINATED" /\ UNCHANGED budget
        /\ vm' = [vm EXCEPT ![w] = IF @ = "none" THEN "none" ELSE "gone"]
    BY <1>11, DownOkDoes
  <2> QED
    BY <2>1, NewRow DEF Leaves, Rewrites
<1>12. ASSUME NEW a \in Actors, DownFails(a) PROVE Existed'
  <2>1. PICK w \in Workers, r \in Row :
        Leaves(a, w, r) /\ r.st = "TERMINATING" /\ Spend("faults") /\ UNCHANGED vm
    BY <1>12, DownFailsDoes
  <2> QED
    BY <2>1, NewRow DEF Leaves, Rewrites, Spend
<1>13. CASE Start
  BY <1>13 DEF Start, Copies, Goto, cloud, Listed
<1>14. CASE Recover
  BY <1>14, RecoverDoes, Distinct DEF Takes, TakesDown, Rewrites, Spend
<1>15. CASE SweepOne
  BY <1>15, SweepOneDoes, Distinct DEF Takes, Cancelled, TakesDown, Rewrites
<1>16. CASE Grow
  <2>1. CASE need["user"] = 0
    BY <1>16, <2>1 DEF Grow, StartOne, Goto, cloud
  <2>2. CASE need["user"] # 0
    <3>1. PICK w \in Workers : Begun(w)
      BY <1>16, <2>2, Begins DEF Grow, StartOne
    <3> QED
      BY <1>16, <2>2, <3>1, Distinct, NewRow DEF Grow, StartOne, Begun
  <2> QED
    BY <2>1, <2>2
<1>17. ASSUME NEW w \in Workers, RemoveWorker(w) PROVE Existed'
  BY <1>17, RemoveDoes, Distinct DEF TakesDown, Rewrites, Spend
<1>18. ASSUME NEW w \in Workers, NEW twe \in BOOLEAN, Drain(w, twe) PROVE Existed'
  BY <1>18, DrainDoes DEF Rewrites, Spend
<1>19. ASSUME NEW cleanup \in BOOLEAN, Sweep(cleanup) PROVE Existed'
  BY <1>19 DEF Sweep, Spend, Copies, Goto, cloud, Listed
<1>20. ASSUME NEW n \in 1 .. MaxWorkers, PoolUp(n) PROVE Existed'
  BY <1>20 DEF PoolUp, Spend, Goto, cloud, Listed
<1>21. ASSUME NEW w \in Workers, ProvisionFails(w) PROVE Existed'
  BY <1>21 DEF ProvisionFails, Spend, Goto, cloud, loop
<1>22. ASSUME NEW w \in Workers, VmDies(w) PROVE Existed'
  BY <1>22 DEF VmDies, Spend, loop
<1>23. CASE Crash
  BY <1>23, Distinct, NewRow DEF Crash, Spend, LoopsEnd, cloud
<1>24. CASE Stop
  BY <1>24, Distinct, NewRow DEF Stop, Spend, Cancelled, LoopsEnd, cloud
<1>25. CASE ScaleUp
  <2>1. PICK w \in Workers : Begun(w)
    BY <1>25, Begins DEF ScaleUp
  <2> QED
    BY <1>25, <2>1, Distinct, NewRow DEF ScaleUp, Spend, Begun, loop
<1>26. ASSUME NEW w \in Workers, Launch(w) PROVE Existed'
  BY <1>26 DEF Launch, loop
<1>27. ASSUME NEW w \in Workers, Provisioned(w) PROVE Existed'
  BY <1>27, TaskDoes, Distinct DEF Rewrites
<1>28. ASSUME NEW w \in Workers, Connected(w) PROVE Existed'
  BY <1>28, TaskDoes, Distinct DEF Rewrites
<1>29. ASSUME NEW w \in Workers, Finish(w) PROVE Existed'
  BY <1>29, NewRow DEF Finish, Put, Goto, cloud, loop
<1>30. ASSUME NEW w \in Workers, Abandon(w) PROVE Existed'
  BY <1>30, TaskDoes, Distinct DEF Rewrites
<1>31. ASSUME NEW w \in Workers, VmComesUp(w) PROVE Existed'
  BY <1>31 DEF VmComesUp, loop
<1>32. ASSUME NEW w \in Workers, Assign(w) PROVE Existed'
  BY <1>32 DEF Assign, Spend, cloud, loop
<1>33. ASSUME NEW w \in Workers, Leave(w) PROVE Existed'
  BY <1>33 DEF Leave, cloud, loop
<1> QED
  <2>1. CASE PassStep
    BY <2>1, <1>1, <1>2, <1>3, <1>4, <1>5, <1>6, <1>7, <1>8, <1>10,
       <1>11, <1>13, <1>14, Distinct DEF PassStep
  <2>2. CASE UserStep
    BY <2>2, <1>11, <1>15, <1>16, Distinct DEF UserStep
  <2>3. CASE Request
    BY <2>3, <1>17, <1>18, <1>19, <1>20 DEF Request
  <2>4. CASE Trouble
    BY <2>4, <1>8, <1>9, <1>12, <1>21, <1>22, <1>23, <1>24 DEF Trouble
  <2>5. ASSUME NEW w \in Workers, TaskStep(w) PROVE Existed'
    BY <2>5, <1>11, <1>21, <1>26, <1>27, <1>28, <1>29, <1>30, Distinct DEF TaskStep
  <2> QED
    BY <2>1, <2>2, <2>3, <2>4, <2>5, <1>25, <1>31, <1>32, <1>33 DEF Next

\* stop() and a crash end the requests, and start() waits for the tasks.
LEMMA AloneStep ==
  ASSUME FleetInv, Next
  PROVE  Alone'
<1> USE FleetAssumption DEF FleetInv, TypeOK, RowsOK, StepsOK, LoopsOK, Alone, Holding, Idle, Owned,
                            Provisioning
<1>1. CASE PassBegins
  BY <1>1, Distinct DEF PassBegins, Copies, Goto, cloud
<1>2. CASE Visit
  <2>1. PICK e \in list["pass"] :
        /\ at["pass"] = "visit" /\ Takes("pass", e) /\ UNCHANGED <<vm, budget>>
        /\ \/ UNCHANGED <<row, at, cp, wk>>
           \/ ~ Owned(e[1]) /\ TakesDown("pass", e[1], "visit")
    BY <1>2, VisitDoes
  <2> QED
    BY <2>1, Distinct DEF Takes, TakesDown, Rewrites
<1>3. CASE PoolListed
  BY <1>3 DEF PoolListed, Copies, Goto, cloud
<1>4. CASE Replace
  <2>1. CASE need["pass"] = 0
    BY <1>4, <2>1, Distinct DEF Replace, StartOne, Goto, cloud
  <2>2. CASE need["pass"] # 0
    <3>1. PICK w \in Workers : Begun(w)
      BY <1>4, <2>2, Begins DEF Replace, StartOne
    <3> QED
      BY <1>4, <2>2, <3>1, Distinct DEF Replace, StartOne, Begun
  <2> QED
    BY <2>1, <2>2
<1>5. CASE Count
  BY <1>5 DEF Count, Goto, cloud
<1>6. CASE Shrink
  BY <1>6, ShrinkDoes, Distinct DEF Takes, TakesDown, Rewrites
<1>7. ASSUME NEW e \in list["pass"], HealthOk(e) PROVE Alone'
  <2>1. Checked(e)
    BY <1>7, HealthDoes
  <2> QED
    BY <2>1, Distinct DEF Checked, Takes, Rewrites, Spend
<1>8. ASSUME NEW e \in list["pass"], HealthFails(e) PROVE Alone'
  <2>1. Checked(e)
    BY <1>8, HealthDoes
  <2> QED
    BY <2>1, Distinct DEF Checked, Takes, Rewrites, Spend
<1>9. ASSUME NEW e \in list["pass"], HealthWrongVersion(e) PROVE Alone'
  <2>1. Checked(e)
    BY <1>9, HealthDoes
  <2> QED
    BY <2>1, Distinct DEF Checked, Takes, Rewrites, Spend
<1>10. CASE Status
  BY <1>10, StatusDoes, Distinct DEF Rewrites, Spend
<1>11. ASSUME NEW a \in Actors, DownOk(a) PROVE Alone'
  <2>1. PICK w \in Workers, r \in Row :
        /\ Leaves(a, w, r) /\ r.st = "TERMINATED" /\ UNCHANGED budget
        /\ vm' = [vm EXCEPT ![w] = IF @ = "none" THEN "none" ELSE "gone"]
    BY <1>11, DownOkDoes
  <2> QED
    BY <2>1, Distinct DEF Leaves, Rewrites
<1>12. ASSUME NEW a \in Actors, DownFails(a) PROVE Alone'
  <2>1. PICK w \in Workers, r \in Row :
        Leaves(a, w, r) /\ r.st = "TERMINATING" /\ Spend("faults") /\ UNCHANGED vm
    BY <1>12, DownFailsDoes
  <2> QED
    BY <2>1, Distinct DEF Leaves, Rewrites, Spend
<1>13. CASE Start
  BY <1>13 DEF Start, Copies, Goto, cloud
<1>14. CASE Recover
  BY <1>14, RecoverDoes, Distinct DEF Takes, TakesDown, Rewrites, Spend
<1>15. CASE SweepOne
  BY <1>15, SweepOneDoes, Distinct DEF Takes, Cancelled, TakesDown, Rewrites
<1>16. CASE Grow
  <2>1. CASE need["user"] = 0
    BY <1>16, <2>1, Distinct DEF Grow, StartOne, Goto, cloud
  <2>2. CASE need["user"] # 0
    <3>1. PICK w \in Workers : Begun(w)
      BY <1>16, <2>2, Begins DEF Grow, StartOne
    <3> QED
      BY <1>16, <2>2, <3>1 DEF Grow, StartOne, Begun
  <2> QED
    BY <2>1, <2>2
<1>17. ASSUME NEW w \in Workers, RemoveWorker(w) PROVE Alone'
  BY <1>17, RemoveDoes, Distinct DEF Serving, TakesDown, Rewrites, Spend
<1>18. ASSUME NEW w \in Workers, NEW twe \in BOOLEAN, Drain(w, twe) PROVE Alone'
  BY <1>18, DrainDoes DEF Rewrites, Spend
<1>19. ASSUME NEW cleanup \in BOOLEAN, Sweep(cleanup) PROVE Alone'
  BY <1>19 DEF Sweep, Spend, Copies, Goto, cloud, Serving
<1>20. ASSUME NEW n \in 1 .. MaxWorkers, PoolUp(n) PROVE Alone'
  BY <1>20 DEF PoolUp, Spend, Goto, cloud, Serving
<1>21. ASSUME NEW w \in Workers, ProvisionFails(w) PROVE Alone'
  BY <1>21 DEF ProvisionFails, Spend, Goto, cloud, loop
<1>22. ASSUME NEW w \in Workers, VmDies(w) PROVE Alone'
  BY <1>22 DEF VmDies, Spend, loop
<1>23. CASE Crash
  BY <1>23, Distinct DEF Crash, Spend, LoopsEnd, cloud
<1>24. CASE Stop
  BY <1>24, Distinct DEF Stop, Spend, Cancelled, LoopsEnd, cloud, Serving
<1>25. CASE ScaleUp
  <2>1. PICK w \in Workers : Begun(w)
    BY <1>25, Begins DEF Serving, ScaleUp
  <2> QED
    BY <1>25, <2>1 DEF Serving, ScaleUp, Spend, Begun, loop
<1>26. ASSUME NEW w \in Workers, Launch(w) PROVE Alone'
  BY <1>26 DEF Launch, loop
<1>27. ASSUME NEW w \in Workers, Provisioned(w) PROVE Alone'
  BY <1>27, TaskDoes, Distinct DEF Rewrites
<1>28. ASSUME NEW w \in Workers, Connected(w) PROVE Alone'
  BY <1>28, TaskDoes, Distinct DEF Rewrites
<1>29. ASSUME NEW w \in Workers, Finish(w) PROVE Alone'
  BY <1>29 DEF Finish, Put, Goto, cloud, loop
<1>30. ASSUME NEW w \in Workers, Abandon(w) PROVE Alone'
  BY <1>30, TaskDoes, Distinct DEF Rewrites
<1>31. ASSUME NEW w \in Workers, VmComesUp(w) PROVE Alone'
  BY <1>31 DEF VmComesUp, loop
<1>32. ASSUME NEW w \in Workers, Assign(w) PROVE Alone'
  BY <1>32 DEF Assign, Spend, cloud, loop, Serving
<1>33. ASSUME NEW w \in Workers, Leave(w) PROVE Alone'
  BY <1>33 DEF Leave, cloud, loop
<1> QED
  <2>1. CASE PassStep
    BY <2>1, <1>1, <1>2, <1>3, <1>4, <1>5, <1>6, <1>7, <1>8, <1>10,
       <1>11, <1>13, <1>14, Distinct DEF PassStep
  <2>2. CASE UserStep
    BY <2>2, <1>11, <1>15, <1>16, Distinct DEF UserStep
  <2>3. CASE Request
    BY <2>3, <1>17, <1>18, <1>19, <1>20 DEF Request
  <2>4. CASE Trouble
    BY <2>4, <1>8, <1>9, <1>12, <1>21, <1>22, <1>23, <1>24 DEF Trouble
  <2>5. ASSUME NEW w \in Workers, TaskStep(w) PROVE Alone'
    BY <2>5, <1>11, <1>21, <1>26, <1>27, <1>28, <1>29, <1>30, Distinct DEF TaskStep
  <2> QED
    BY <2>1, <2>2, <2>3, <2>4, <2>5, <1>25, <1>31, <1>32, <1>33 DEF Next

\* No task starts for a worker that a loop holds.
LEMMA UndrivenStep ==
  ASSUME FleetInv, Next
  PROVE  Undriven'
<1> USE FleetAssumption DEF FleetInv, TypeOK, RowsOK, StepsOK, LoopsOK, Undriven, Holding, Listing,
                            Existed, Alone, Idle, Owned, Provisioning, Troubles
<1>1. CASE PassBegins
  BY <1>1, Distinct DEF PassBegins, Copies, Goto, cloud
<1>2. CASE Visit
  <2>1. PICK e \in list["pass"] :
        /\ at["pass"] = "visit" /\ Takes("pass", e) /\ UNCHANGED <<vm, budget>>
        /\ \/ UNCHANGED <<row, at, cp, wk>>
           \/ ~ Owned(e[1]) /\ TakesDown("pass", e[1], "visit")
    BY <1>2, VisitDoes
  <2> QED
    BY <2>1, Distinct DEF Takes, TakesDown, Rewrites
<1>3. CASE PoolListed
  BY <1>3 DEF PoolListed, Copies, Goto, cloud
<1>4. CASE Replace
  <2>1. CASE need["pass"] = 0
    BY <1>4, <2>1, Distinct DEF Replace, StartOne, Goto, cloud
  <2>2. CASE need["pass"] # 0
    <3>1. PICK w \in Workers : Begun(w)
      BY <1>4, <2>2, Begins DEF Replace, StartOne
    <3> QED
      BY <1>4, <2>2, <3>1, Distinct DEF Replace, StartOne, Begun
  <2> QED
    BY <2>1, <2>2
<1>5. CASE Count
  BY <1>5 DEF Count, Goto, cloud
<1>6. CASE Shrink
  BY <1>6, ShrinkDoes, Distinct DEF Takes, TakesDown, Rewrites
<1>7. ASSUME NEW e \in list["pass"], HealthOk(e) PROVE Undriven'
  <2>1. Checked(e)
    BY <1>7, HealthDoes
  <2> QED
    BY <2>1, Distinct, Spends DEF Checked, Takes, Rewrites
<1>8. ASSUME NEW e \in list["pass"], HealthFails(e) PROVE Undriven'
  <2>1. Checked(e)
    BY <1>8, HealthDoes
  <2> QED
    BY <2>1, Distinct, Spends DEF Checked, Takes, Rewrites
<1>9. ASSUME NEW e \in list["pass"], HealthWrongVersion(e) PROVE Undriven'
  <2>1. Checked(e)
    BY <1>9, HealthDoes
  <2> QED
    BY <2>1, Distinct, Spends DEF Checked, Takes, Rewrites
<1>10. CASE Status
  BY <1>10, StatusDoes, Distinct, Spends DEF Rewrites
<1>11. ASSUME NEW a \in Actors, DownOk(a) PROVE Undriven'
  <2>1. PICK w \in Workers, r \in Row :
        /\ Leaves(a, w, r) /\ r.st = "TERMINATED" /\ UNCHANGED budget
        /\ vm' = [vm EXCEPT ![w] = IF @ = "none" THEN "none" ELSE "gone"]
    BY <1>11, DownOkDoes
  <2> QED
    BY <2>1, Distinct DEF Leaves, Rewrites
<1>12. ASSUME NEW a \in Actors, DownFails(a) PROVE Undriven'
  <2>1. PICK w \in Workers, r \in Row :
        Leaves(a, w, r) /\ r.st = "TERMINATING" /\ Spend("faults") /\ UNCHANGED vm
    BY <1>12, DownFailsDoes
  <2> QED
    BY <2>1, Distinct, Spends DEF Leaves, Rewrites
<1>13. CASE Start
  BY <1>13 DEF Start, Copies, Goto, cloud
<1>14. CASE Recover
  BY <1>14, RecoverDoes, Distinct DEF Takes, TakesDown, Rewrites
<1>15. CASE SweepOne
  BY <1>15, SweepOneDoes, Distinct DEF Takes, Cancelled, TakesDown, Rewrites
<1>16. CASE Grow
  <2>1. CASE need["user"] = 0
    BY <1>16, <2>1, Distinct DEF Grow, StartOne, Goto, cloud
  <2>2. CASE need["user"] # 0
    <3>1. PICK w \in Workers : Begun(w)
      BY <1>16, <2>2, Begins DEF Grow, StartOne
    <3> QED
      BY <1>16, <2>2, <3>1, Distinct DEF Grow, StartOne, Begun
  <2> QED
    BY <2>1, <2>2
<1>17. ASSUME NEW w \in Workers, RemoveWorker(w) PROVE Undriven'
  BY <1>17, RemoveDoes, Distinct, Spends DEF Serving, TakesDown, Rewrites
<1>18. ASSUME NEW w \in Workers, NEW twe \in BOOLEAN, Drain(w, twe) PROVE Undriven'
  BY <1>18, DrainDoes, Spends DEF Rewrites
<1>19. ASSUME NEW cleanup \in BOOLEAN, Sweep(cleanup) PROVE Undriven'
  BY <1>19, Distinct DEF Sweep, Copies, Goto, cloud, Serving
<1>20. ASSUME NEW n \in 1 .. MaxWorkers, PoolUp(n) PROVE Undriven'
  BY <1>20, Distinct DEF PoolUp, Goto, cloud, Serving
<1>21. ASSUME NEW w \in Workers, ProvisionFails(w) PROVE Undriven'
  BY <1>21, Spends DEF ProvisionFails, Goto, cloud, loop
<1>22. ASSUME NEW w \in Workers, VmDies(w) PROVE Undriven'
  BY <1>22, Spends DEF VmDies, loop
<1>23. CASE Crash
  BY <1>23, Distinct DEF Crash, LoopsEnd, cloud
<1>24. CASE Stop
  BY <1>24, Distinct DEF Stop, Cancelled, LoopsEnd, cloud, Serving
<1>25. CASE ScaleUp
  <2>1. PICK w \in Workers : Begun(w)
    BY <1>25, Begins DEF Serving, ScaleUp
  <2> QED
    BY <1>25, <2>1, Distinct, Spends DEF Serving, ScaleUp, Begun, loop
<1>26. ASSUME NEW w \in Workers, Launch(w) PROVE Undriven'
  BY <1>26 DEF Launch, loop
<1>27. ASSUME NEW w \in Workers, Provisioned(w) PROVE Undriven'
  BY <1>27, TaskDoes, Distinct DEF Rewrites
<1>28. ASSUME NEW w \in Workers, Connected(w) PROVE Undriven'
  BY <1>28, TaskDoes, Distinct DEF Rewrites
<1>29. ASSUME NEW w \in Workers, Finish(w) PROVE Undriven'
  BY <1>29 DEF Finish, Put, Goto, cloud, loop
<1>30. ASSUME NEW w \in Workers, Abandon(w) PROVE Undriven'
  BY <1>30, TaskDoes, Distinct DEF Rewrites
<1>31. ASSUME NEW w \in Workers, VmComesUp(w) PROVE Undriven'
  BY <1>31 DEF VmComesUp, loop
<1>32. ASSUME NEW w \in Workers, Assign(w) PROVE Undriven'
  BY <1>32, Spends DEF Assign, cloud, loop, Serving
<1>33. ASSUME NEW w \in Workers, Leave(w) PROVE Undriven'
  BY <1>33 DEF Leave, cloud, loop
<1> QED
  <2>1. CASE PassStep
    BY <2>1, <1>1, <1>2, <1>3, <1>4, <1>5, <1>6, <1>7, <1>8, <1>10,
       <1>11, <1>13, <1>14, Distinct DEF PassStep
  <2>2. CASE UserStep
    BY <2>2, <1>11, <1>15, <1>16, Distinct DEF UserStep
  <2>3. CASE Request
    BY <2>3, <1>17, <1>18, <1>19, <1>20 DEF Request
  <2>4. CASE Trouble
    BY <2>4, <1>8, <1>9, <1>12, <1>21, <1>22, <1>23, <1>24 DEF Trouble
  <2>5. ASSUME NEW w \in Workers, TaskStep(w) PROVE Undriven'
    BY <2>5, <1>11, <1>21, <1>26, <1>27, <1>28, <1>29, <1>30, Distinct DEF TaskStep
  <2> QED
    BY <2>1, <2>2, <2>3, <2>4, <2>5, <1>25, <1>31, <1>32, <1>33 DEF Next

\* Only a removal ends a row before its task has launched the VM.
LEMMA RememberedStep ==
  ASSUME FleetInv, Next
  PROVE  Remembered'
<1> USE FleetAssumption DEF FleetInv, TypeOK, RowsOK, StepsOK, LoopsOK, Remembered, Forgotten, Owned,
                            Provisioning, Holding, Undriven, Troubles
<1>1. CASE PassBegins
  BY <1>1, Distinct DEF PassBegins, Copies, Goto, cloud, Listed
<1>2. CASE Visit
  <2>1. PICK e \in list["pass"] :
        /\ at["pass"] = "visit" /\ Takes("pass", e) /\ UNCHANGED <<vm, budget>>
        /\ \/ UNCHANGED <<row, at, cp, wk>>
           \/ ~ Owned(e[1]) /\ TakesDown("pass", e[1], "visit")
    BY <1>2, VisitDoes
  <2> QED
    BY <2>1, Distinct DEF Takes, TakesDown, Rewrites
<1>3. CASE PoolListed
  BY <1>3 DEF PoolListed, Copies, Goto, cloud, Listed
<1>4. CASE Replace
  <2>1. CASE need["pass"] = 0
    BY <1>4, <2>1, Distinct DEF Replace, StartOne, Goto, cloud
  <2>2. CASE need["pass"] # 0
    <3>1. PICK w \in Workers : Begun(w)
      BY <1>4, <2>2, Begins DEF Replace, StartOne
    <3> QED
      BY <1>4, <2>2, <3>1, Distinct, Listings, StateSets, NewRow, Spends DEF Replace, StartOne, Begun
  <2> QED
    BY <2>1, <2>2
<1>5. CASE Count
  BY <1>5 DEF Count, Goto, cloud
<1>6. CASE Shrink
  BY <1>6, ShrinkDoes, Distinct, StateSets DEF Takes, TakesDown, Rewrites
<1>7. ASSUME NEW e \in list["pass"], HealthOk(e) PROVE Remembered'
  <2>1. Checked(e)
    BY <1>7, HealthDoes
  <2> QED
    BY <2>1, Distinct, Spends DEF Checked, Takes, Rewrites
<1>8. ASSUME NEW e \in list["pass"], HealthFails(e) PROVE Remembered'
  <2>1. Checked(e)
    BY <1>8, HealthDoes
  <2> QED
    BY <2>1, Distinct, Spends DEF Checked, Takes, Rewrites
<1>9. ASSUME NEW e \in list["pass"], HealthWrongVersion(e) PROVE Remembered'
  <2>1. Checked(e)
    BY <1>9, HealthDoes
  <2> QED
    BY <2>1, Distinct, Spends DEF Checked, Takes, Rewrites
<1>10. CASE Status
  BY <1>10, StatusDoes, Distinct, Spends DEF Rewrites
<1>11. ASSUME NEW a \in Actors, DownOk(a) PROVE Remembered'
  <2>1. PICK w \in Workers, r \in Row :
        /\ Leaves(a, w, r) /\ r.st = "TERMINATED" /\ UNCHANGED budget
        /\ vm' = [vm EXCEPT ![w] = IF @ = "none" THEN "none" ELSE "gone"]
    BY <1>11, DownOkDoes
  <2>2. ASSUME NEW x \in Workers, Forgotten(x)', x # w
        PROVE  budget'.crashes = 0 /\ \A e \in list'["user"] : e[1] # x
    BY <2>1, <2>2, Distinct DEF Leaves, Rewrites
  <2>3. ASSUME Forgotten(w)'
        PROVE  budget'.crashes = 0 /\ \A e \in list'["user"] : e[1] # w
    <3>1. vm[w] = "none" /\ at'[w] # "idle" /\ a # w /\ a \in Loops /\ w = wk[a].w
      BY <2>1, <2>3 DEF Leaves, Rewrites
    <3>2. Owned(w) /\ at[a] = "down"
      BY <2>1, <3>1, Distinct DEF Leaves, Rewrites
    <3>3. a = "user" /\ wk["user"].then = "idle" /\ budget.crashes = 0
      BY <3>1, <3>2, Distinct
    <3>4. list["user"] = {}
      BY <3>2, <3>3 DEF Listing
    <3> QED
      BY <2>1, <3>3, <3>4 DEF Leaves
  <2> QED
    BY <2>2, <2>3
<1>12. ASSUME NEW a \in Actors, DownFails(a) PROVE Remembered'
  <2>1. PICK w \in Workers, r \in Row :
        Leaves(a, w, r) /\ r.st = "TERMINATING" /\ Spend("faults") /\ UNCHANGED vm
    BY <1>12, DownFailsDoes
  <2> QED
    BY <2>1, Distinct, StateSets, Spends DEF Leaves, Rewrites
<1>13. CASE Start
  BY <1>13 DEF Start, Copies, Goto, cloud, Listed
<1>14. CASE Recover
  <2>1. \/ at' = [at EXCEPT !["pass"] = "idle"] /\ UNCHANGED <<row, cp, wk, list>>
        \/ \E e \in list["pass"] :
             /\ Takes("pass", e)
             /\ \/ \E r \in Row : Rewrites(e[1], r) /\ r.st = "CONNECTING" /\ UNCHANGED <<at, cp, wk>>
                \/ TakesDown("pass", e[1], "recover")
    BY <1>14, RecoverDoes
  <2>2. at["pass"] = "recover" /\ UNCHANGED vm /\ (UNCHANGED budget \/ Spend("faults"))
    BY <1>14, RecoverDoes
  <2>3. CASE at' = [at EXCEPT !["pass"] = "idle"] /\ UNCHANGED <<row, cp, wk, list>>
    BY <2>2, <2>3, Spends
  <2>4. ASSUME NEW e \in list["pass"], Takes("pass", e), NEW r \in Row, Rewrites(e[1], r),
               r.st = "CONNECTING", UNCHANGED <<at, cp, wk>>
        PROVE  Remembered'
    BY <2>2, <2>4, StateSets, Spends DEF Takes, Rewrites
  <2>5. ASSUME NEW e \in list["pass"], Takes("pass", e), TakesDown("pass", e[1], "recover")
        PROVE  Remembered'
    BY <2>2, <2>5, StateSets, Spends DEF Takes, TakesDown, Rewrites
  <2> QED
    BY <2>1, <2>3, <2>4, <2>5
<1>15. CASE SweepOne
  <2>1. \/ at' = [at EXCEPT !["user"] = "idle"] /\ list["user"] = {} /\ UNCHANGED <<row, cp, wk, list>>
        \/ \E e \in list["user"] :
             /\ Takes("user", e)
             /\ \/ Owned(e[1]) /\ at' = [at EXCEPT ![e[1]] = Cancelled(e[1])] /\ UNCHANGED <<row, cp, wk>>
                \/ ~ Owned(e[1]) /\ TakesDown("user", e[1], "all")
    BY <1>15, SweepOneDoes
  <2>2. at["user"] = "all" /\ UNCHANGED <<vm, budget>>
    BY <1>15, SweepOneDoes
  <2>3. CASE at' = [at EXCEPT !["user"] = "idle"] /\ list["user"] = {} /\ UNCHANGED <<row, cp, wk, list>>
    BY <2>2, <2>3
  <2>4. ASSUME NEW e \in list["user"], Takes("user", e), Owned(e[1]),
               at' = [at EXCEPT ![e[1]] = Cancelled(e[1])], UNCHANGED <<row, cp, wk>>
        PROVE  Remembered'
    BY <2>2, <2>4 DEF Takes, Cancelled
  <2>5. ASSUME NEW e \in list["user"], Takes("user", e), ~ Owned(e[1]), TakesDown("user", e[1], "all")
        PROVE  Remembered'
    BY <2>2, <2>5 DEF Takes, TakesDown, Rewrites
  <2> QED
    BY <2>1, <2>3, <2>4, <2>5
<1>16. CASE Grow
  <2>1. CASE need["user"] = 0
    BY <1>16, <2>1, Distinct DEF Grow, StartOne, Goto, cloud
  <2>2. CASE need["user"] # 0
    <3>1. PICK w \in Workers : Begun(w)
      BY <1>16, <2>2, Begins DEF Grow, StartOne
    <3> QED
      BY <1>16, <2>2, <3>1, Distinct, Listings, StateSets, NewRow, Spends DEF Grow, StartOne, Begun
  <2> QED
    BY <2>1, <2>2
<1>17. ASSUME NEW w \in Workers, RemoveWorker(w) PROVE Remembered'
  BY <1>17, RemoveDoes, Distinct, StateSets, Spends DEF Serving, TakesDown, Rewrites
<1>18. ASSUME NEW w \in Workers, NEW twe \in BOOLEAN, Drain(w, twe) PROVE Remembered'
  BY <1>18, DrainDoes, StateSets, Spends DEF Rewrites
<1>19. ASSUME NEW cleanup \in BOOLEAN, Sweep(cleanup) PROVE Remembered'
  BY <1>19, Distinct, Spends DEF Sweep, Copies, Goto, cloud, Serving, Listed
<1>20. ASSUME NEW n \in 1 .. MaxWorkers, PoolUp(n) PROVE Remembered'
  BY <1>20, Distinct, Spends DEF PoolUp, Goto, cloud, Serving, Listed
<1>21. ASSUME NEW w \in Workers, ProvisionFails(w) PROVE Remembered'
  BY <1>21, Spends DEF ProvisionFails, Goto, cloud, loop
<1>22. ASSUME NEW w \in Workers, VmDies(w) PROVE Remembered'
  BY <1>22, Spends DEF VmDies, loop
<1>23. CASE Crash
  BY <1>23, Distinct DEF Crash, LoopsEnd, cloud
<1>24. CASE Stop
  BY <1>24, Distinct, Spends DEF Stop, Cancelled, LoopsEnd, cloud, Serving
<1>25. CASE ScaleUp
  <2>1. PICK w \in Workers : Begun(w)
    BY <1>25, Begins DEF Serving, ScaleUp
  <2> QED
    BY <1>25, <2>1, Distinct, Listings, StateSets, NewRow, Spends DEF Serving, ScaleUp, Begun, loop
<1>26. ASSUME NEW w \in Workers, Launch(w) PROVE Remembered'
  BY <1>26 DEF Launch, loop
<1>27. ASSUME NEW w \in Workers, Provisioned(w) PROVE Remembered'
  BY <1>27, TaskDoes, Distinct, StateSets DEF Rewrites
<1>28. ASSUME NEW w \in Workers, Connected(w) PROVE Remembered'
  BY <1>28, TaskDoes, Distinct, StateSets DEF Rewrites
<1>29. ASSUME NEW w \in Workers, Finish(w) PROVE Remembered'
  BY <1>29, Distinct DEF Finish, Put, Goto, cloud, loop
<1>30. ASSUME NEW w \in Workers, Abandon(w) PROVE Remembered'
  BY <1>30, TaskDoes, Distinct, StateSets DEF Rewrites
<1>31. ASSUME NEW w \in Workers, VmComesUp(w) PROVE Remembered'
  BY <1>31 DEF VmComesUp, loop
<1>32. ASSUME NEW w \in Workers, Assign(w) PROVE Remembered'
  BY <1>32, Spends DEF Assign, cloud, loop, Serving
<1>33. ASSUME NEW w \in Workers, Leave(w) PROVE Remembered'
  BY <1>33 DEF Leave, cloud, loop
<1> QED
  <2>1. CASE PassStep
    BY <2>1, <1>1, <1>2, <1>3, <1>4, <1>5, <1>6, <1>7, <1>8, <1>10,
       <1>11, <1>13, <1>14, Distinct DEF PassStep
  <2>2. CASE UserStep
    BY <2>2, <1>11, <1>15, <1>16, Distinct DEF UserStep
  <2>3. CASE Request
    BY <2>3, <1>17, <1>18, <1>19, <1>20 DEF Request
  <2>4. CASE Trouble
    BY <2>4, <1>8, <1>9, <1>12, <1>21, <1>22, <1>23, <1>24 DEF Trouble
  <2>5. ASSUME NEW w \in Workers, TaskStep(w) PROVE Remembered'
    BY <2>5, <1>11, <1>21, <1>26, <1>27, <1>28, <1>29, <1>30, Distinct DEF TaskStep
  <2> QED
    BY <2>1, <2>2, <2>3, <2>4, <2>5, <1>25, <1>31, <1>32, <1>33 DEF Next

\* A row ends with its VM, a task with a row that is not over.
LEMMA TrackedStep ==
  ASSUME FleetInv, Next
  PROVE  Tracked'
<1> USE FleetAssumption DEF FleetInv, TypeOK, RowsOK, StepsOK, LoopsOK, Tracked, TaskCopies, Remembered,
                            Forgotten, Owned, Provisioning
<1>1. CASE PassBegins
  BY <1>1 DEF PassBegins, Copies, Goto, cloud
<1>2. CASE Visit
  <2>1. PICK e \in list["pass"] :
        /\ at["pass"] = "visit" /\ Takes("pass", e) /\ UNCHANGED <<vm, budget>>
        /\ \/ UNCHANGED <<row, at, cp, wk>>
           \/ ~ Owned(e[1]) /\ TakesDown("pass", e[1], "visit")
    BY <1>2, VisitDoes
  <2> QED
    BY <2>1, Distinct, StateSets DEF Takes, TakesDown, Rewrites
<1>3. CASE PoolListed
  BY <1>3 DEF PoolListed, Copies, Goto, cloud
<1>4. CASE Replace
  <2>1. CASE need["pass"] = 0
    BY <1>4, <2>1, Distinct DEF Replace, StartOne, Goto, cloud
  <2>2. CASE need["pass"] # 0
    <3>1. PICK w \in Workers : Begun(w)
      BY <1>4, <2>2, Begins DEF Replace, StartOne
    <3> QED
      BY <1>4, <2>2, <3>1 DEF Replace, StartOne, Begun
  <2> QED
    BY <2>1, <2>2
<1>5. CASE Count
  BY <1>5 DEF Count, Goto, cloud
<1>6. CASE Shrink
  BY <1>6, ShrinkDoes, Distinct, StateSets DEF Takes, TakesDown, Rewrites
<1>7. ASSUME NEW e \in list["pass"], HealthOk(e) PROVE Tracked'
  <2>1. Checked(e)
    BY <1>7, HealthDoes
  <2> QED
    BY <2>1, Distinct DEF Checked, Takes, Rewrites, Spend
<1>8. ASSUME NEW e \in list["pass"], HealthFails(e) PROVE Tracked'
  <2>1. Checked(e)
    BY <1>8, HealthDoes
  <2> QED
    BY <2>1, Distinct DEF Checked, Takes, Rewrites, Spend
<1>9. ASSUME NEW e \in list["pass"], HealthWrongVersion(e) PROVE Tracked'
  <2>1. Checked(e)
    BY <1>9, HealthDoes
  <2> QED
    BY <2>1, Distinct DEF Checked, Takes, Rewrites, Spend
<1>10. CASE Status
  BY <1>10, StatusDoes, Distinct, Listings DEF Rewrites, Spend
<1>11. ASSUME NEW a \in Actors, DownOk(a) PROVE Tracked'
  <2>1. PICK w \in Workers, r \in Row :
        /\ Leaves(a, w, r) /\ r.st = "TERMINATED" /\ UNCHANGED budget
        /\ vm' = [vm EXCEPT ![w] = IF @ = "none" THEN "none" ELSE "gone"]
    BY <1>11, DownOkDoes
  <2> QED
    BY <2>1, Distinct DEF Leaves, Rewrites
<1>12. ASSUME NEW a \in Actors, DownFails(a) PROVE Tracked'
  <2>1. PICK w \in Workers, r \in Row :
        Leaves(a, w, r) /\ r.st = "TERMINATING" /\ Spend("faults") /\ UNCHANGED vm
    BY <1>12, DownFailsDoes
  <2> QED
    BY <2>1, Distinct, StateSets DEF Leaves, Rewrites, Spend
<1>13. CASE Start
  BY <1>13 DEF Start, Copies, Goto, cloud
<1>14. CASE Recover
  BY <1>14, RecoverDoes, Distinct, StateSets DEF Takes, TakesDown, Rewrites, Spend
<1>15. CASE SweepOne
  BY <1>15, SweepOneDoes, Distinct, Listings, StateSets, NewRow DEF Takes, Cancelled, TakesDown, Rewrites
<1>16. CASE Grow
  <2>1. CASE need["user"] = 0
    BY <1>16, <2>1, Distinct DEF Grow, StartOne, Goto, cloud
  <2>2. CASE need["user"] # 0
    <3>1. PICK w \in Workers : Begun(w)
      BY <1>16, <2>2, Begins DEF Grow, StartOne
    <3> QED
      BY <1>16, <2>2, <3>1 DEF Grow, StartOne, Begun
  <2> QED
    BY <2>1, <2>2
<1>17. ASSUME NEW w \in Workers, RemoveWorker(w) PROVE Tracked'
  BY <1>17, RemoveDoes, Distinct, StateSets DEF TakesDown, Rewrites, Spend
<1>18. ASSUME NEW w \in Workers, NEW twe \in BOOLEAN, Drain(w, twe) PROVE Tracked'
  BY <1>18, DrainDoes, StateSets DEF Rewrites, Spend
<1>19. ASSUME NEW cleanup \in BOOLEAN, Sweep(cleanup) PROVE Tracked'
  BY <1>19 DEF Sweep, Spend, Copies, Goto, cloud
<1>20. ASSUME NEW n \in 1 .. MaxWorkers, PoolUp(n) PROVE Tracked'
  BY <1>20 DEF PoolUp, Spend, Goto, cloud
<1>21. ASSUME NEW w \in Workers, ProvisionFails(w) PROVE Tracked'
  BY <1>21 DEF ProvisionFails, Spend, Goto, cloud, loop
<1>22. ASSUME NEW w \in Workers, VmDies(w) PROVE Tracked'
  BY <1>22 DEF VmDies, Spend, loop
<1>23. CASE Crash
  BY <1>23 DEF Crash, Spend, LoopsEnd, cloud
<1>24. CASE Stop
  BY <1>24 DEF Stop, Spend, Cancelled, LoopsEnd, cloud
<1>25. CASE ScaleUp
  <2>1. PICK w \in Workers : Begun(w)
    BY <1>25, Begins DEF ScaleUp
  <2> QED
    BY <1>25, <2>1 DEF ScaleUp, Spend, Begun, loop
<1>26. ASSUME NEW w \in Workers, Launch(w) PROVE Tracked'
  BY <1>26 DEF Launch, loop
<1>27. ASSUME NEW w \in Workers, Provisioned(w) PROVE Tracked'
  BY <1>27, TaskDoes, Distinct DEF Rewrites
<1>28. ASSUME NEW w \in Workers, Connected(w) PROVE Tracked'
  BY <1>28, TaskDoes, Distinct DEF Rewrites
<1>29. ASSUME NEW w \in Workers, Finish(w) PROVE Tracked'
  BY <1>29 DEF Finish, Put, Goto, cloud, loop
<1>30. ASSUME NEW w \in Workers, Abandon(w) PROVE Tracked'
  BY <1>30, TaskDoes, Distinct DEF Rewrites
<1>31. ASSUME NEW w \in Workers, VmComesUp(w) PROVE Tracked'
  BY <1>31 DEF VmComesUp, loop
<1>32. ASSUME NEW w \in Workers, Assign(w) PROVE Tracked'
  BY <1>32 DEF Assign, Spend, cloud, loop
<1>33. ASSUME NEW w \in Workers, Leave(w) PROVE Tracked'
  BY <1>33 DEF Leave, cloud, loop
<1> QED
  <2>1. CASE PassStep
    BY <2>1, <1>1, <1>2, <1>3, <1>4, <1>5, <1>6, <1>7, <1>8, <1>10,
       <1>11, <1>13, <1>14, Distinct DEF PassStep
  <2>2. CASE UserStep
    BY <2>2, <1>11, <1>15, <1>16, Distinct DEF UserStep
  <2>3. CASE Request
    BY <2>3, <1>17, <1>18, <1>19, <1>20 DEF Request
  <2>4. CASE Trouble
    BY <2>4, <1>8, <1>9, <1>12, <1>21, <1>22, <1>23, <1>24 DEF Trouble
  <2>5. ASSUME NEW w \in Workers, TaskStep(w) PROVE Tracked'
    BY <2>5, <1>11, <1>21, <1>26, <1>27, <1>28, <1>29, <1>30, Distinct DEF TaskStep
  <2> QED
    BY <2>1, <2>2, <2>3, <2>4, <2>5, <1>25, <1>31, <1>32, <1>33 DEF Next

-----------------------------------------------------------------------------
(* The invariant *)

LEMMA FleetStart == ASSUME Apart, Init PROVE FleetInv
<1>1. None \in Row /\ None.st = "none" /\ "none" \notin CountedWorker /\ "none" \notin Served
  BY NewRow, StateSets DEF Served
<1>2. RowsOK
  BY <1>1 DEF Init, RowsOK
<1>3. StepsOK
  BY Distinct DEF Init, StepsOK, PassSteps, UserSteps, TaskSteps
<1>4. LoopsOK
  BY DEF Init, LoopsOK, Idle
<1>5. BudgetOK
  BY FleetAssumption DEF Init, BudgetOK, Apart
<1>6. TaskCopies /\ Listing /\ Holding /\ Alone /\ Undriven
  <2>1. /\ \A a \in Actors : at[a] = "idle"
        /\ \A a \in Loops : wk[a] = Idle /\ list[a] = {}
    BY DEF Init
  <2>2. TaskCopies /\ Listing
    BY <2>1, Distinct DEF TaskCopies, Listing, Idle
  <2>3. Holding /\ Alone /\ Undriven
    BY <2>1, Distinct DEF Holding, Alone, Undriven, Idle
  <2> QED
    BY <2>2, <2>3
<1>7. Known /\ Existed /\ Remembered /\ Tracked
  BY <1>1, Distinct DEF Init, Known, Existed, Remembered, Forgotten, Tracked, Owned, Provisioning, Idle
<1> QED
  BY <1>2, <1>3, <1>4, <1>5, <1>6, <1>7 DEF FleetInv, TypeOK

LEMMA FleetStep == ASSUME FleetInv, [Next]_vars PROVE FleetInv'
<1>1. CASE Next
  BY <1>1, RowsOKStep, StepsOKStep, LoopsOKStep, BudgetOKStep, TaskCopiesStep, ListingStep, HoldingStep,
     KnownStep, ExistedStep, AloneStep, UndrivenStep, RememberedStep, TrackedStep
     DEF FleetInv, TypeOK
<1>2. CASE UNCHANGED vars
  <2> USE <1>2 DEF vars, cloud, loop
  <2>1. TypeOK'
    BY DEF FleetInv, TypeOK, RowsOK, StepsOK, LoopsOK, BudgetOK
  <2>2. TaskCopies' /\ Listing' /\ Holding'
    BY DEF FleetInv, TaskCopies, Listing, Holding
  <2>3. Known' /\ Existed' /\ Alone' /\ Undriven'
    BY DEF FleetInv, Known, Existed, Alone, Undriven, Owned, Provisioning
  <2>4. Remembered' /\ Tracked'
    BY DEF FleetInv, Remembered, Forgotten, Tracked, Owned, Provisioning
  <2> QED
    BY <2>1, <2>2, <2>3, <2>4 DEF FleetInv
<1> QED
  BY <1>1, <1>2

\* A VM that is up has a row reconcile will visit, or a task that will settle it,
\* whatever failed, timed out, was cancelled or died half-way, and however many
\* passes, requests and restarts there were (_terminate_worker and its callers).
THEOREM NoVmUnseen == ASSUME Apart PROVE Spec => []VmTracked
<1>1. FleetInv => VmTracked
  BY DEF FleetInv, Tracked, VmTracked
<1>2. Init => FleetInv
  BY FleetStart
<1>3. FleetInv /\ [Next]_vars => FleetInv'
  BY FleetStep
<1> QED
  BY <1>1, <1>2, <1>3, PTL DEF Spec

-----------------------------------------------------------------------------
(* Orphans, for every load *)

Shape == DOMAIN at = Actors /\ DOMAIN list = Loops

\* Only a visit takes a worker of the listing down during the loop over it.
LEMMA FromVisit ==
  ASSUME Shape, Next, at["pass"] = "visit", at'["pass"] = "down"
  PROVE  Visit
<1> USE Distinct DEF Shape, Goto
<1>i. ASSUME StartProvisioning PROVE at'["pass"] = at["pass"]
  BY <1>i DEF StartProvisioning, Fresh
<1>1. CASE PassStep
  BY <1>1 DEF PassStep, PassBegins, PoolListed, Replace, StartOne, StartProvisioning, Count, Shrink, HealthOk,
     HealthFails, Status, DownOk, Settle, Start, Recover
<1>2. CASE UserStep \/ ScaleUp
  BY <1>i, <1>2 DEF UserStep, SweepOne, Provisioning, Grow, StartOne, Terminate, DownOk, Settle, ScaleUp
<1>3. CASE Request
  BY <1>3 DEF Request, RemoveWorker, Terminate, Drain, Sweep, PoolUp
<1>4. CASE Trouble
  BY <1>4 DEF Trouble, ProvisionFails, VmDies, DownFails, Settle, HealthFails, HealthWrongVersion, Crash, Stop, Actors
<1>5. ASSUME NEW w \in Workers, TaskStep(w) \/ VmComesUp(w) \/ Assign(w) \/ Leave(w) PROVE Visit
  BY <1>5 DEF TaskStep, Launch, Provisioned, Connected, Finish, Abandon, DownOk, Settle, ProvisionFails,
     VmComesUp, Assign, Leave
<1> QED
  BY <1>1, <1>2, <1>3, <1>4, <1>5 DEF Next

LEMMA ShapeStays == Spec => []Shape
<1>1. Init => Shape
  BY DEF Init, Shape
<1>2. ASSUME Shape, [Next]_vars PROVE Shape'
  <2> USE DEF Shape, Goto
  <2>1. CASE PassStep
    BY <1>2, <2>1 DEF PassStep, PassBegins, Visit, VisitOrphan, Take, Terminate, PoolListed, Replace, StartOne,
       StartProvisioning, Count, Shrink, HealthOk, HealthFails, Checks, Status, DownOk, Settle, Start, Recover, loop
  <2>2. CASE UserStep \/ ScaleUp
    BY <1>2, <2>2 DEF UserStep, SweepOne, Take, Grow, StartOne, StartProvisioning, Terminate, DownOk, Settle,
       ScaleUp, loop
  <2>3. CASE Request
    BY <1>2, <2>3 DEF Request, RemoveWorker, Terminate, Drain, Sweep, PoolUp, loop
  <2>4. CASE Trouble
    BY <1>2, <2>4 DEF Trouble, ProvisionFails, VmDies, DownFails, Settle, HealthFails, HealthWrongVersion, Checks,
       Take, Crash, Stop, LoopsEnd, loop
  <2>5. ASSUME NEW w \in Workers, TaskStep(w) \/ VmComesUp(w) \/ Assign(w) \/ Leave(w) PROVE Shape'
    BY <1>2, <2>5 DEF TaskStep, Launch, Provisioned, Connected, Finish, Abandon, DownOk, Settle, ProvisionFails,
       VmComesUp, Assign, Leave, loop
  <2>6. CASE UNCHANGED vars
    BY <1>2, <2>6 DEF vars, loop
  <2> QED
    BY <1>2, <2>1, <2>2, <2>3, <2>4, <2>5, <2>6 DEF Next
<1> QED
  BY <1>1, <1>2, PTL DEF Spec

\* The loop takes a worker it had not listed as TERMINATING only for an orphan:
\* no task drives it, and its row, read again, is still pending (reconcile).
THEOREM OnlyOrphansEnd == Spec => OrphansOnly
<1> DEFINE Ends(e) == at["pass"] = "visit" /\ at'["pass"] = "down" /\ e[2].st # "TERMINATING"
           Good(e) == ~ Owned(e[1]) /\ row[e[1]].st \notin {"HEALTHY", "DRAINING", "UNHEALTHY"}
           Right == \A e \in list["pass"] \ list'["pass"] : Ends(e) => Good(e)
<1>1. ASSUME Shape, Next PROVE Right
  <2> SUFFICES ASSUME NEW e \in list["pass"] \ list'["pass"], Ends(e) PROVE Good(e)
    OBVIOUS
  <2>1. PICK x \in list["pass"] :
          /\ list' = [list EXCEPT !["pass"] = @ \ {x}]
          /\ \/ UNCHANGED at
             \/ x[1] \notin Provisioning /\ VisitOrphan(x[1], x[2])
             \/ x[2].st = "TERMINATING"
    BY <1>1, FromVisit DEF Visit, Take
  <2>2. x = e
    BY <1>1, <2>1, Distinct DEF Shape
  <2>3. x[1] \notin Provisioning /\ VisitOrphan(x[1], x[2])
    BY <2>1, <2>2
  <2>4. row[x[1]].st \in PendingWorker
    BY <2>3 DEF VisitOrphan
  <2> QED
    BY <2>2, <2>3, <2>4 DEF Owned, PendingWorker
<1>2. ASSUME Shape, [Next]_vars PROVE [Right]_vars
  BY <1>1, <1>2
<1>3. Spec => [][Right]_vars
  BY <1>2, ShapeStays, PTL DEF Spec
<1> QED
  BY <1>3 DEF OrphansOnly
=============================================================================
