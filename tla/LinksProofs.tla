----------------------------- MODULE LinksProofs -----------------------------
(***************************************************************************)
(* A theorem about Links, for any number of workers, ports, callers and ssh *)
(* processes, and whatever breaks, stalls, is removed or stopped: no ssh     *)
(* process is lost.  The argument: the worker's lock makes ensure the only   *)
(* one that registers a tunnel, close only takes it away, and when ensure    *)
(* registers a new process the old one has ended or is being ended, whether  *)
(* close has popped it in between or not.                                    *)
(***************************************************************************)
EXTENDS Links, TLAPS

\* What a task of the control plane holds.
TaskType ==
  [pc : {"idle", "ensure", "probe", "choose", "spawn", "wait", "giveup", "renew", "send"},
   does : Uses \union {"health", "list"}, w : Workers \union {NoTask},
   port : Ports \union {NoPort}, mine : Ssh \union {NoSsh}, base : Ports \union {NoPort}]

TypeOK ==
  /\ ssh \in [Ssh -> [port : Ports \union {NoPort}, st : {"starting", "listening", "dead"}]]
  /\ tunnels \in [Workers -> Ssh \union {NoSsh}] /\ ending \in SUBSET Ssh
  /\ lock \in [Workers -> Tasks \union {NoTask}]
  /\ saved \in [Workers -> Ports \union {NoPort}] /\ clients \in [Workers -> Ports \union {NoPort}]
  /\ task \in [Tasks -> TaskType] /\ round \in SUBSET Workers

\* A worker's tunnel is a process of that worker's.
OwnTunnel == \A w \in Workers : tunnels[w] = NoSsh \/ Owner(tunnels[w]) = w

\* The points of ensure at which its task holds the worker's lock.
Inside == {"probe", "choose", "spawn", "wait", "giveup"}
Locked(t) == task[t].pc \in Inside => lock[task[t].w] = t
Busied(t) == task[t].pc # "idle" => task[t].w \in Workers
\* While ensure looks at a process, close may have popped it; no other is registered.
Looking(t) == task[t].pc \in {"probe", "wait", "giveup"} => tunnels[task[t].w] \in {task[t].mine, NoSsh}
\* When ensure is about to replace the tunnel, the old one is dead or on its way out.
Replacing(t) ==
  task[t].pc \in {"choose", "spawn"} => (Alive(tunnels[task[t].w]) => tunnels[task[t].w] \in ending)
Steady == \A t \in Tasks : Busied(t) /\ Locked(t) /\ Looking(t) /\ Replacing(t)

Owned == \A i \in Ssh : Alive(i) => tunnels[Owner(i)] = i \/ i \in ending
\* After close_all nothing runs that could register a tunnel again.
Stopped ==
  /\ stop \in {"close", "done"} =>
       (\A t \in Tasks : task[t].pc = "idle") /\ (\A w \in Workers : tunnels[w] = NoSsh)
  /\ stop = "done" => ending = {}

LinkInv == TypeOK /\ OwnTunnel /\ Steady /\ Owned /\ Stopped

\* A pass of reconcile begins with a worker of the table.
LEMMA CheckBegins ==
  ASSUME LinkInv, Check
  PROVE  /\ \E w \in Workers : Begin(Checker, w, "health")
         /\ task'[Checker].pc = "ensure" /\ task'[Checker].w \in Workers
         /\ \A u \in Tasks \ {Checker} : task'[u] = task[u]
         /\ round' \in SUBSET Workers /\ task[Checker].pc = "idle" /\ stop = "no"
         /\ UNCHANGED <<linkVars, envVars, clients>>
<1> DEFINE due == IF round = {} THEN {w \in Workers : row[w] # "terminal"} ELSE round
           w == CHOOSE x \in due : TRUE
<1>1. /\ due # {} /\ round' = due \ {w} /\ Begin(Checker, w, "health")
      /\ task[Checker].pc = "idle" /\ stop = "no" /\ UNCHANGED <<linkVars, envVars, clients>>
  BY DEF Check
<1>2. due \in SUBSET Workers
  BY DEF LinkInv, TypeOK
<1>3. w \in due
  BY <1>1
<1> HIDE DEF due, w
<1>4. Checker \in Tasks /\ task \in [Tasks -> TaskType]
  BY DEF LinkInv, TypeOK, Tasks
<1>5. /\ task'[Checker].pc = "ensure" /\ task'[Checker].w = w
      /\ \A u \in Tasks \ {Checker} : task'[u] = task[u]
  BY <1>1, <1>4 DEF Begin, TaskType
<1> QED
  BY <1>1, <1>2, <1>3, <1>5

\* What calling _terminate for some processes comes to.
LEMMA EndsThem ==
  ASSUME NEW is, Ends(is)
  PROVE  \A i : i \in ending' <=> i \in ending \/ (i \in is /\ Alive(i))
BY DEF Ends

\* What close does to the tunnels of some workers.
LEMMA PopsThem ==
  ASSUME LinkInv, NEW ws \in SUBSET Workers, Pop(ws)
  PROVE  /\ tunnels' \in [Workers -> Ssh \union {NoSsh}] /\ ending' \in SUBSET Ssh
         /\ \A w \in Workers : tunnels'[w] = IF w \in ws THEN NoSsh ELSE tunnels[w]
         /\ \A i \in ending : i \in ending'
         /\ \A w \in ws : Alive(tunnels[w]) => tunnels[w] \in ending'
         /\ \A i \in ending' : i \in ending \/ \E w \in ws : i = tunnels[w] /\ Alive(i)
<1>1. \A i : i \in ending' <=> i \in ending \/ (i \in {tunnels[w] : w \in ws} /\ Alive(i))
  BY EndsThem DEF Pop
<1>2. tunnels' = [w \in Workers |-> IF w \in ws THEN NoSsh ELSE tunnels[w]]
  BY DEF Pop
<1>3. ending \in SUBSET Ssh /\ tunnels \in [Workers -> Ssh \union {NoSsh}]
  BY DEF LinkInv, TypeOK
<1>4. \A w \in Workers : Alive(tunnels[w]) => tunnels[w] \in Ssh
  BY <1>3 DEF Alive
<1> QED
  BY <1>1, <1>2, <1>3, <1>4

\* One field of a task at a time keeps its type.
LEMMA Fields ==
  ASSUME NEW r \in TaskType
  PROVE  /\ \A x \in {"idle", "ensure", "probe", "choose", "spawn", "wait", "giveup", "renew", "send"} :
              [r EXCEPT !.pc = x] \in TaskType
         /\ \A x \in Uses \union {"health", "list"} : [r EXCEPT !.does = x] \in TaskType
         /\ \A x \in Workers \union {NoTask} : [r EXCEPT !.w = x] \in TaskType
         /\ \A x \in Ports \union {NoPort} : [r EXCEPT !.port = x] \in TaskType
         /\ \A x \in Ssh \union {NoSsh} : [r EXCEPT !.mine = x] \in TaskType
         /\ \A x \in Ports \union {NoPort} : [r EXCEPT !.base = x] \in TaskType
BY DEF TaskType

\* The other tasks are left alone, and the one that moves has a record again.
LEMMA Retyped ==
  ASSUME LinkInv, NEW t \in Tasks, NEW r \in TaskType, task' = [task EXCEPT ![t] = r]
  PROVE  task' \in [Tasks -> TaskType]
BY DEF LinkInv, TypeOK

\* What the end of ensure does: the lock is given back, the task goes on to its client.
LEMMA Returns ==
  ASSUME LinkInv, NEW t \in Tasks, task[t].pc # "idle", NEW p \in Ports \union {NoPort}, Return(t, p)
  PROVE  /\ task' \in [Tasks -> TaskType]
         /\ task'[t].pc \in {"send", "renew"} /\ task'[t].w = task[t].w
         /\ \A u \in Tasks \ {t} : task'[u] = task[u]
         /\ lock' = [lock EXCEPT ![task[t].w] = NoTask]
         /\ clients' \in [Workers -> Ports \union {NoPort}]
<1> DEFINE pc == IF clients[task[t].w] \in {NoPort, p} THEN "send" ELSE "renew"
           r == [task[t] EXCEPT !.pc = pc, !.base = p, !.mine = NoSsh,
                                !.port = IF task[t].pc = "wait" THEN p ELSE @]
<1>1. task[t] \in TaskType /\ task[t].w \in Workers
  BY DEF LinkInv, TypeOK, Steady, Busied
<1>2. task[t].port \in Ports \union {NoPort}
  BY <1>1 DEF TaskType
<1>3. r \in TaskType
  <2> HIDE DEF pc
  <2>1. pc \in {"send", "renew"}
    BY DEF pc
  <2>2. CASE task[t].pc = "wait"
    BY <1>1, <2>1, <2>2 DEF TaskType
  <2>3. CASE task[t].pc # "wait"
    BY <1>1, <1>2, <2>1, <2>3 DEF TaskType
  <2> QED
    BY <2>2, <2>3
<1>4. task \in [Tasks -> TaskType] /\ clients \in [Workers -> Ports \union {NoPort}]
  BY DEF LinkInv, TypeOK
<1>5. task' = [task EXCEPT ![t] = r]
  BY <1>1, <1>4 DEF Return, TaskType
<1>6. r.pc \in {"send", "renew"} /\ r.w = task[t].w
  BY <1>1 DEF TaskType
<1> HIDE DEF r
<1>7. clients' \in [Workers -> Ports \union {NoPort}]
  BY <1>1, <1>4 DEF Return
<1> QED
  BY <1>3, <1>5, <1>6, <1>4, <1>7, Retyped DEF Return, Unlock

\* What starting ssh does: a process of the worker that was not there.
LEMMA Spawns ==
  ASSUME LinksAssumption, LinkInv, NEW t \in Tasks, EnsureSpawn(t)
  PROVE  \E i \in Ssh :
           /\ Owner(i) = task[t].w /\ ~Alive(i)
           /\ ssh' = [ssh EXCEPT ![i] = [port |-> task[t].base, st |-> "starting"]]
           /\ tunnels' = [tunnels EXCEPT ![task[t].w] = i]
           /\ task' \in [Tasks -> TaskType]
           /\ task'[t].pc = "wait" /\ task'[t].mine = i /\ task'[t].w = task[t].w
           /\ \A u \in Tasks \ {t} : task'[u] = task[u]
<1> DEFINE i == CHOOSE j \in Unused(task[t].w) : TRUE
           r == [task[t] EXCEPT !.pc = "wait", !.mine = i]
<1>1. task[t] \in TaskType /\ task[t].w \in Workers /\ task \in [Tasks -> TaskType]
  BY DEF LinkInv, TypeOK, Steady, Busied, EnsureSpawn
<1>2. /\ Unused(task[t].w) # {}
      /\ ssh' = [ssh EXCEPT ![i] = [port |-> task[t].base, st |-> "starting"]]
      /\ tunnels' = [tunnels EXCEPT ![task[t].w] = i]
      /\ task' = [task EXCEPT ![t].pc = "wait", ![t].mine = i]
  BY DEF EnsureSpawn
<1>3. i \in Unused(task[t].w)
  BY <1>2
<1> HIDE DEF i
<1>4. i \in Ssh /\ Owner(i) = task[t].w /\ ~Alive(i)
  BY <1>1, <1>3 DEF Unused, Ssh, Owner
<1>5. r \in TaskType /\ r.pc = "wait" /\ r.mine = i /\ r.w = task[t].w
  BY <1>1, <1>4 DEF TaskType
<1>6. task' = [task EXCEPT ![t] = r]
  BY <1>1, <1>2
<1> HIDE DEF r
<1>7. /\ task' \in [Tasks -> TaskType]
      /\ task'[t].pc = "wait" /\ task'[t].mine = i /\ task'[t].w = task[t].w
      /\ \A u \in Tasks \ {t} : task'[u] = task[u]
  BY <1>1, <1>5, <1>6, Retyped
<1> QED
  BY <1>2, <1>4, <1>7

\* What the probe does: ensure is done, or the process it looked at is ended.
LEMMA Probes ==
  ASSUME LinksAssumption, LinkInv, NEW t \in Tasks, EnsureProbe(t)
  PROVE  /\ task' \in [Tasks -> TaskType] /\ task'[t].w = task[t].w
         /\ \A u \in Tasks \ {t} : task'[u] = task[u]
         /\ clients' \in [Workers -> Ports \union {NoPort}]
         /\ \/ /\ task'[t].pc \in {"send", "renew"} /\ ending' = ending
               /\ lock' = [lock EXCEPT ![task[t].w] = NoTask]
            \/ /\ task'[t].pc = "choose" /\ lock' = lock
               /\ \A i : i \in ending' <=> i \in ending \/ (i = task[t].mine /\ Alive(i))
<1>1. /\ task[t] \in TaskType /\ task[t].pc = "probe" /\ task \in [Tasks -> TaskType]
      /\ clients \in [Workers -> Ports \union {NoPort}]
  BY DEF LinkInv, TypeOK, EnsureProbe
<1>2. CASE PortOpen(task[t].base)
  <2>1. Return(t, task[t].base) /\ ending' = ending
    BY <1>2 DEF EnsureProbe
  <2>2. task[t].base \in Ports \union {NoPort}
    BY <1>1 DEF TaskType
  <2> QED
    BY <1>1, <2>1, <2>2, Returns
<1>3. CASE ~PortOpen(task[t].base)
  <2>1. Goto(t, "choose") /\ Ends({task[t].mine}) /\ NoReturn
    BY <1>3 DEF EnsureProbe
  <2>2. [task[t] EXCEPT !.pc = "choose"] \in TaskType
    BY <1>1 DEF TaskType
  <2>3. task' = [task EXCEPT ![t] = [task[t] EXCEPT !.pc = "choose"]]
    BY <1>1, <2>1 DEF Goto
  <2>4. task'[t].pc = "choose" /\ task'[t].w = task[t].w
    BY <1>1, <2>3 DEF TaskType
  <2>5. \A i : i \in ending' <=> i \in ending \/ (i \in {task[t].mine} /\ Alive(i))
    BY <2>1, EndsThem
  <2> QED
    BY <1>1, <2>1, <2>2, <2>3, <2>4, <2>5, Retyped DEF NoReturn
<1> QED
  BY <1>2, <1>3

\* What waiting for the port comes to: ensure is done, or it gives the process up.
LEMMA Waits ==
  ASSUME LinksAssumption, LinkInv, NEW t \in Tasks, EnsureWait(t)
  PROVE  /\ task' \in [Tasks -> TaskType] /\ task'[t].w = task[t].w
         /\ \A u \in Tasks \ {t} : task'[u] = task[u]
         /\ clients' \in [Workers -> Ports \union {NoPort}]
         /\ \/ /\ task'[t].pc \in {"send", "renew"} /\ ending' = ending
               /\ lock' = [lock EXCEPT ![task[t].w] = NoTask]
            \/ /\ task'[t].pc = "giveup" /\ task'[t].mine = task[t].mine /\ lock' = lock
               /\ ending \subseteq ending' /\ \A i \in ending' : i \in ending \/ (i = task[t].mine /\ Alive(i))
<1>1. /\ task[t] \in TaskType /\ task[t].pc = "wait" /\ task \in [Tasks -> TaskType]
      /\ clients \in [Workers -> Ports \union {NoPort}]
  BY DEF LinkInv, TypeOK, EnsureWait
<1>2. CASE Return(t, task[t].base) /\ ending' = ending
  <2>2. task[t].base \in Ports \union {NoPort}
    BY <1>1 DEF TaskType
  <2> QED
    BY <1>1, <1>2, <2>2, Returns
<1>3. CASE Goto(t, "giveup") /\ NoReturn /\ (ending' = ending \/ Ends({task[t].mine}))
  <2>2. [task[t] EXCEPT !.pc = "giveup"] \in TaskType
    BY <1>1 DEF TaskType
  <2>3. task' = [task EXCEPT ![t] = [task[t] EXCEPT !.pc = "giveup"]]
    BY <1>1, <1>3 DEF Goto
  <2>4. task'[t].pc = "giveup" /\ task'[t].w = task[t].w /\ task'[t].mine = task[t].mine
    BY <1>1, <2>3 DEF TaskType
  <2>5. ending \subseteq ending' /\ \A i \in ending' : i \in ending \/ (i = task[t].mine /\ Alive(i))
    <3>1. CASE Ends({task[t].mine})
      <4>1. \A i : i \in ending' <=> i \in ending \/ (i \in {task[t].mine} /\ Alive(i))
        BY <3>1, EndsThem
      <4> QED
        BY <4>1
    <3> QED
      BY <1>3, <3>1
  <2> QED
    BY <1>1, <1>3, <2>2, <2>3, <2>4, <2>5, Retyped DEF NoReturn
<1> QED
  BY <1>2, <1>3 DEF EnsureWait

\* A request begins with a task of the right type.
LEMMA Begun ==
  ASSUME task \in [Tasks -> TaskType], NEW t \in Tasks, NEW w \in Workers,
         NEW m \in Uses \union {"health", "list"}, saved[w] \in Ports \union {NoPort}, Begin(t, w, m)
  PROVE  task' \in [Tasks -> TaskType]
<1> DEFINE r == [task[t] EXCEPT !.pc = "ensure", !.does = m, !.w = w, !.port = saved[w]]
<1>1. r \in TaskType
  BY DEF TaskType
<1>2. task' = [task EXCEPT ![t] = r]
  BY DEF Begin
<1> HIDE DEF r
<1> QED
  BY <1>1, <1>2

\* A user's request begins: nothing but its own task changes.
LEMMA Calls ==
  ASSUME LinkInv, NEW t \in Tasks, NEW w \in Workers, NEW m \in Uses, Call(t, w, m)
  PROVE  /\ task'[t].pc = "ensure" /\ task'[t].w = w /\ \A u \in Tasks \ {t} : task'[u] = task[u]
         /\ UNCHANGED <<ssh, tunnels, ending, lock>>
<1>1. task' = [task EXCEPT ![t].pc = "ensure", ![t].does = m, ![t].w = w, ![t].port = saved[w]]
  BY DEF Call, Begin
<1>2. task \in [Tasks -> TaskType] /\ UNCHANGED <<ssh, tunnels, ending, lock>>
  BY DEF LinkInv, TypeOK, Call, linkVars
<1> QED
  BY <1>1, <1>2 DEF TaskType

\* Ensure has found a port, and nothing but its own task changes.
LEMMA Chooses ==
  ASSUME LinkInv, NEW t \in Tasks, EnsureChoose(t)
  PROVE  /\ task[t].pc = "choose" /\ task'[t].pc = "spawn" /\ task'[t].w = task[t].w
         /\ \A u \in Tasks \ {t} : task'[u] = task[u]
         /\ UNCHANGED <<ssh, tunnels, ending, lock>>
<1>1. PICK p : task' = [task EXCEPT ![t].pc = "spawn", ![t].base = p, ![t].mine = NoSsh]
  BY DEF EnsureChoose
<1>2. /\ task \in [Tasks -> TaskType] /\ task[t].pc = "choose"
      /\ UNCHANGED <<ssh, tunnels, ending, lock>>
  BY DEF LinkInv, TypeOK, EnsureChoose, linkVars
<1> QED
  BY <1>1, <1>2 DEF TaskType

\* The client is renewed, and nothing else the tunnel manager looks at changes.
LEMMA Renews ==
  ASSUME LinkInv, NEW t \in Tasks, RenewClient(t)
  PROVE  /\ task[t].pc = "renew" /\ task'[t].pc = "send" /\ task'[t].w = task[t].w
         /\ \A u \in Tasks \ {t} : task'[u] = task[u]
<1>1. /\ task \in [Tasks -> TaskType] /\ task[t].pc = "renew"
      /\ task' = [task EXCEPT ![t].pc = "send"]
  BY DEF LinkInv, TypeOK, RenewClient, Goto
<1> QED
  BY <1>1 DEF TaskType

\* A request is over, or the inventory follows the health call.
LEMMA Sends ==
  ASSUME LinkInv, NEW t \in Tasks, Send(t)
  PROVE  /\ task[t].pc = "send" /\ \A u \in Tasks \ {t} : task'[u] = task[u]
         /\ task'[t].pc = "idle" \/ (task'[t].pc = "send" /\ task'[t].w = task[t].w)
         /\ UNCHANGED <<ssh, tunnels, ending, lock>>
<1>1. /\ task \in [Tasks -> TaskType] /\ task[t].pc = "send"
      /\ task' = [task EXCEPT ![t].does = "list"] \/ task' = [task EXCEPT ![t] = Idle]
      /\ UNCHANGED <<ssh, tunnels, ending, lock>>
  BY DEF LinkInv, TypeOK, Send, Over
<1>2. CASE task' = [task EXCEPT ![t].does = "list"]
  BY <1>1, <1>2 DEF TaskType
<1>3. CASE task' = [task EXCEPT ![t] = Idle]
  BY <1>1, <1>3 DEF Idle
<1> QED
  BY <1>1, <1>2, <1>3

\* The steps keep the types of the tasks.
LEMMA TaskTypeStep ==
  ASSUME LinksAssumption, LinkInv, Next
  PROVE  task' \in [Tasks -> TaskType]
<1> USE LinksAssumption DEF LinkInv, TypeOK
<1>0. \A u \in Tasks : task[u] \in TaskType
  OBVIOUS
<1>i. Idle \in TaskType
  BY DEF Idle, TaskType
<1>1. ASSUME NEW i \in Ssh, SshBinds(i) PROVE task' \in [Tasks -> TaskType]
  BY <1>1, <1>0, <1>i, Fields, Retyped DEF SshBinds, envVars, Dead, Tasks, Ssh
<1>2. ASSUME NEW i \in Ssh, SshDies(i) PROVE task' \in [Tasks -> TaskType]
  BY <1>2, <1>0, <1>i, Fields, Retyped DEF SshDies, envVars, Take, NoFault, Dead, Notices
<1>3. ASSUME NEW i \in Ssh, SshTerminated(i) PROVE task' \in [Tasks -> TaskType]
  BY <1>3, <1>0, <1>i, Fields, Retyped DEF SshTerminated, envVars, Dead
<1>4. CASE Check
  <2>1. PICK w \in Workers : Begin(Checker, w, "health")
    BY <1>4, CheckBegins
  <2> QED
    BY <2>1, Begun DEF Tasks
<1>5. ASSUME NEW t \in Callers, NEW w \in Busy, NEW m \in Uses, Call(t, w, m) PROVE task' \in [Tasks -> TaskType]
  BY <1>5, <1>0, <1>i, Fields, Retyped DEF Call, linkVars, envVars, Begin
<1>6. ASSUME NEW t \in Tasks, EnsureBegin(t) PROVE task' \in [Tasks -> TaskType]
  <2> DEFINE e == tunnels[task[t].w]
             r == IF Alive(e) THEN [task[t] EXCEPT !.pc = "probe", !.mine = e, !.base = ssh[e].port]
                  ELSE [task[t] EXCEPT !.pc = "choose"]
  <2>1. task[t].w \in Workers /\ task[t] \in TaskType
    BY <1>6 DEF EnsureBegin, Steady, Busied
  <2>2. e \in Ssh \union {NoSsh} /\ (Alive(e) => ssh[e].port \in Ports \union {NoPort})
    BY <2>1 DEF Alive
  <2>3. r \in TaskType
    <3>1. CASE Alive(e)
      BY <2>1, <2>2, <3>1 DEF TaskType
    <3>2. CASE ~Alive(e)
      BY <2>1, <3>2 DEF TaskType
    <3> QED
      BY <3>1, <3>2
  <2>4. task' = [task EXCEPT ![t] = r]
    BY <1>6 DEF EnsureBegin
  <2> QED
    BY <2>3, <2>4, Retyped
<1>7. ASSUME NEW t \in Tasks, EnsureProbe(t) PROVE task' \in [Tasks -> TaskType]
  BY <1>7, Probes
<1>8. ASSUME NEW t \in Tasks, EnsureChoose(t) PROVE task' \in [Tasks -> TaskType]
  <2>1. PICK p \in IF Reuses(task[t].port) THEN {task[t].port} ELSE {q \in Ports : ~PortOpen(q)} :
          task' = [task EXCEPT ![t].pc = "spawn", ![t].base = p, ![t].mine = NoSsh]
    BY <1>8 DEF EnsureChoose
  <2>2. task[t] \in TaskType /\ p \in Ports \union {NoPort}
    BY <1>0 DEF TaskType
  <2>3. [task[t] EXCEPT !.pc = "spawn", !.base = p, !.mine = NoSsh] \in TaskType
    BY <2>2 DEF TaskType
  <2>4. task' = [task EXCEPT ![t] = [task[t] EXCEPT !.pc = "spawn", !.base = p, !.mine = NoSsh]]
    BY <2>1
  <2> QED
    BY <2>3, <2>4, Retyped
<1>9. ASSUME NEW t \in Tasks, EnsureSpawn(t) PROVE task' \in [Tasks -> TaskType]
  BY <1>9, Spawns
<1>10. ASSUME NEW t \in Tasks, EnsureWait(t) PROVE task' \in [Tasks -> TaskType]
  BY <1>10, Waits
<1>11. ASSUME NEW t \in Tasks, EnsureGiveUp(t) PROVE task' \in [Tasks -> TaskType]
  BY <1>11, <1>0, <1>i, Fields, Retyped DEF EnsureGiveUp, envVars, Idle, Over, Unlock
<1>12. ASSUME NEW t \in Tasks, RenewClient(t) PROVE task' \in [Tasks -> TaskType]
  BY <1>12, <1>0, <1>i, Fields, Retyped DEF RenewClient, linkVars, envVars, Goto
<1>13. ASSUME NEW t \in Tasks, Send(t) PROVE task' \in [Tasks -> TaskType]
  BY <1>13, <1>0, <1>i, Fields, Retyped DEF Send, envVars, Idle, Over, Tasks, Ssh
<1>14. ASSUME NEW t \in Tasks, Cancel(t) PROVE task' \in [Tasks -> TaskType]
  BY <1>14, <1>0, <1>i, Fields, Retyped DEF Cancel, envVars, Idle, Over
<1>15. ASSUME NEW w \in Workers, RemoveBegin(w) PROVE task' \in [Tasks -> TaskType]
  BY <1>15, <1>0, <1>i, Fields, Retyped DEF RemoveBegin, linkVars
<1>16. ASSUME NEW w \in Workers, RemoveClose(w) PROVE task' \in [Tasks -> TaskType]
  BY <1>16, <1>0, <1>i, Fields, Retyped DEF RemoveClose, Ends, Pop
<1>17. ASSUME NEW w \in Workers, RemoveEnd(w) PROVE task' \in [Tasks -> TaskType]
  BY <1>17, <1>0, <1>i, Fields, Retyped DEF RemoveEnd, linkVars
<1>18. ASSUME NEW w \in Workers, CleanClose(w) PROVE task' \in [Tasks -> TaskType]
  BY <1>18, <1>0, <1>i, Fields, Retyped DEF CleanClose, Ends, Pop
<1>19. ASSUME NEW w \in Workers, CleanLook(w) PROVE task' \in [Tasks -> TaskType]
  BY <1>19, <1>0, <1>i, Fields, Retyped DEF CleanLook, linkVars, Tasks, Ssh
<1>20. ASSUME NEW w \in Workers, CleanForget(w) PROVE task' \in [Tasks -> TaskType]
  BY <1>20, <1>0, <1>i, Fields, Retyped DEF CleanForget, linkVars, Tasks, Ssh
<1>21. ASSUME NEW w \in Workers, VmStalls(w) PROVE task' \in [Tasks -> TaskType]
  BY <1>21, <1>0, <1>i, Fields, Retyped DEF VmStalls, linkVars, Take
<1>22. CASE StopBegin
  BY <1>22, <1>0, <1>i, Fields, Retyped DEF StopBegin, linkVars, Take
<1>23. CASE StopClose
  BY <1>23, <1>0, <1>i, Fields, Retyped DEF StopClose, Ends, Pop, Tasks
<1>24. CASE StopDone
  BY <1>24, <1>0, <1>i, Fields, Retyped DEF StopDone, linkVars
<1> QED
  BY <1>1, <1>2, <1>3, <1>4, <1>5, <1>6, <1>7, <1>8, <1>9, <1>10, <1>11, <1>12,
     <1>13, <1>14, <1>15, <1>16, <1>17, <1>18, <1>19, <1>20, <1>21, <1>22, <1>23, <1>24
     DEF Next, Step, CloseStep

\* The steps keep the types of the rest.
LEMMA TypeStep ==
  ASSUME LinksAssumption, LinkInv, Next
  PROVE  TypeOK'
<1> USE LinksAssumption, TaskTypeStep DEF LinkInv, TypeOK
<1>0. \A u \in Tasks : task[u] \in TaskType
  OBVIOUS
<1>1. ASSUME NEW i \in Ssh, SshBinds(i) PROVE TypeOK'
  BY <1>1 DEF SshBinds, envVars, Dead, Tasks, Ssh
<1>2. ASSUME NEW i \in Ssh, SshDies(i) PROVE TypeOK'
  BY <1>2 DEF SshDies, envVars, Take, NoFault, Dead, Notices
<1>3. ASSUME NEW i \in Ssh, SshTerminated(i) PROVE TypeOK'
  BY <1>3 DEF SshTerminated, envVars, Dead
<1>4. CASE Check
  BY <1>4, CheckBegins DEF Begin, linkVars, envVars
<1>5. ASSUME NEW t \in Callers, NEW w \in Busy, NEW m \in Uses, Call(t, w, m) PROVE TypeOK'
  BY <1>5 DEF Call, linkVars, envVars, Begin
<1>6. ASSUME NEW t \in Tasks, EnsureBegin(t) PROVE TypeOK'
  BY <1>6 DEF EnsureBegin, envVars, LockFree
<1>7. ASSUME NEW t \in Tasks, EnsureProbe(t) PROVE TypeOK'
  <2>1. task[t].mine \in Ssh \union {NoSsh} /\ task[t].w \in Workers
    BY <1>7, <1>0 DEF EnsureProbe, TaskType, Steady, Busied
  <2> QED
    BY <1>7, <2>1, Probes DEF EnsureProbe, Alive
<1>8. ASSUME NEW t \in Tasks, EnsureChoose(t) PROVE TypeOK'
  BY <1>8 DEF EnsureChoose, linkVars, envVars, Take, NoFault, Tasks, Ssh, Reuses
<1>9. ASSUME NEW t \in Tasks, EnsureSpawn(t) PROVE TypeOK'
  <2>1. task[t].base \in Ports \union {NoPort} /\ task[t].w \in Workers
    BY <1>9, <1>0 DEF EnsureSpawn, TaskType, Steady, Busied
  <2>2. PICK i \in Ssh : /\ ssh' = [ssh EXCEPT ![i] = [port |-> task[t].base, st |-> "starting"]]
                        /\ tunnels' = [tunnels EXCEPT ![task[t].w] = i]
    BY <1>9, Spawns
  <2>3. /\ ssh' \in [Ssh -> [port : Ports \union {NoPort}, st : {"starting", "listening", "dead"}]]
        /\ tunnels' \in [Workers -> Ssh \union {NoSsh}]
    BY <2>1, <2>2
  <2> QED
    BY <1>9, <2>3 DEF EnsureSpawn
<1>10. ASSUME NEW t \in Tasks, EnsureWait(t) PROVE TypeOK'
  <2>1. task[t].mine \in Ssh \union {NoSsh} /\ task[t].w \in Workers
    BY <1>10, <1>0 DEF EnsureWait, TaskType, Steady, Busied
  <2> QED
    BY <1>10, <2>1, Waits DEF EnsureWait, Alive
<1>11. ASSUME NEW t \in Tasks, EnsureGiveUp(t) PROVE TypeOK'
  BY <1>11 DEF EnsureGiveUp, envVars, Idle, Over, Unlock
<1>12. ASSUME NEW t \in Tasks, RenewClient(t) PROVE TypeOK'
  <2>1. task[t].base \in Ports \union {NoPort}
    BY <1>0 DEF TaskType
  <2> QED
    BY <1>12, <2>1 DEF RenewClient, linkVars
<1>13. ASSUME NEW t \in Tasks, Send(t) PROVE TypeOK'
  <2>1. task[t].port \in Ports \union {NoPort}
    BY <1>0 DEF TaskType
  <2> QED
    BY <1>13, <2>1 DEF Send
<1>14. ASSUME NEW t \in Tasks, Cancel(t) PROVE TypeOK'
  BY <1>14 DEF Cancel, envVars, Idle, Over
<1>15. ASSUME NEW w \in Workers, RemoveBegin(w) PROVE TypeOK'
  BY <1>15 DEF RemoveBegin, linkVars
<1>16. ASSUME NEW w \in Workers, RemoveClose(w) PROVE TypeOK'
  BY <1>16, PopsThem DEF RemoveClose
<1>17. ASSUME NEW w \in Workers, RemoveEnd(w) PROVE TypeOK'
  BY <1>17 DEF RemoveEnd, linkVars
<1>18. ASSUME NEW w \in Workers, CleanClose(w) PROVE TypeOK'
  BY <1>18, PopsThem DEF CleanClose
<1>19. ASSUME NEW w \in Workers, CleanLook(w) PROVE TypeOK'
  BY <1>19 DEF CleanLook, linkVars, Tasks, Ssh
<1>20. ASSUME NEW w \in Workers, CleanForget(w) PROVE TypeOK'
  BY <1>20 DEF CleanForget, linkVars, Tasks, Ssh
<1>21. ASSUME NEW w \in Workers, VmStalls(w) PROVE TypeOK'
  BY <1>21 DEF VmStalls, linkVars, Take
<1>22. CASE StopBegin
  BY <1>22 DEF StopBegin, linkVars, Take
<1>23. CASE StopClose
  BY <1>23, PopsThem DEF StopClose
<1>24. CASE StopDone
  BY <1>24 DEF StopDone, linkVars
<1> QED
  BY <1>1, <1>2, <1>3, <1>4, <1>5, <1>6, <1>7, <1>8, <1>9, <1>10, <1>11, <1>12,
     <1>13, <1>14, <1>15, <1>16, <1>17, <1>18, <1>19, <1>20, <1>21, <1>22, <1>23, <1>24
     DEF Next, Step, CloseStep

\* The tunnel of a worker stays its own.
LEMMA OwnTunnelStep ==
  ASSUME LinksAssumption, LinkInv, Next
  PROVE  OwnTunnel'
<1> USE LinksAssumption DEF LinkInv, TypeOK, OwnTunnel, Owner
<1>1. ASSUME NEW i \in Ssh, SshBinds(i) PROVE OwnTunnel'
  BY <1>1 DEF SshBinds, envVars, Dead, Tasks, Ssh
<1>2. ASSUME NEW i \in Ssh, SshDies(i) PROVE OwnTunnel'
  BY <1>2 DEF SshDies, envVars, Take, NoFault, Dead, Notices
<1>3. ASSUME NEW i \in Ssh, SshTerminated(i) PROVE OwnTunnel'
  BY <1>3 DEF SshTerminated, envVars, Dead
<1>4. CASE Check
  BY <1>4 DEF Check, linkVars, envVars, Begin
<1>5. ASSUME NEW t \in Callers, NEW w \in Busy, NEW m \in Uses, Call(t, w, m) PROVE OwnTunnel'
  BY <1>5 DEF Call, linkVars, envVars, Begin
<1>6. ASSUME NEW t \in Tasks, EnsureBegin(t) PROVE OwnTunnel'
  BY <1>6 DEF EnsureBegin, envVars, LockFree
<1>7. ASSUME NEW t \in Tasks, EnsureProbe(t) PROVE OwnTunnel'
  BY <1>7 DEF EnsureProbe, envVars, Ends, Goto, Unlock, Return, NoReturn, Tasks, Ssh
<1>8. ASSUME NEW t \in Tasks, EnsureChoose(t) PROVE OwnTunnel'
  BY <1>8 DEF EnsureChoose, linkVars, envVars, Take, NoFault, Tasks, Ssh, Reuses
<1>9. ASSUME NEW t \in Tasks, EnsureSpawn(t) PROVE OwnTunnel'
  BY <1>9 DEF EnsureSpawn, envVars, Unused
<1>10. ASSUME NEW t \in Tasks, EnsureWait(t) PROVE OwnTunnel'
  BY <1>10 DEF EnsureWait, envVars, Take, NoFault, Ends, Goto, Unlock, Return, NoReturn, Tasks, Ssh
<1>11. ASSUME NEW t \in Tasks, EnsureGiveUp(t) PROVE OwnTunnel'
  BY <1>11 DEF EnsureGiveUp, envVars, Idle, Over, Unlock
<1>12. ASSUME NEW t \in Tasks, RenewClient(t) PROVE OwnTunnel'
  BY <1>12 DEF RenewClient, linkVars, envVars, Goto
<1>13. ASSUME NEW t \in Tasks, Send(t) PROVE OwnTunnel'
  BY <1>13 DEF Send, envVars, Idle, Over, Tasks, Ssh
<1>14. ASSUME NEW t \in Tasks, Cancel(t) PROVE OwnTunnel'
  BY <1>14 DEF Cancel, envVars, Idle, Over
<1>15. ASSUME NEW w \in Workers, RemoveBegin(w) PROVE OwnTunnel'
  BY <1>15 DEF RemoveBegin, linkVars
<1>16. ASSUME NEW w \in Workers, RemoveClose(w) PROVE OwnTunnel'
  BY <1>16 DEF RemoveClose, Ends, Pop
<1>17. ASSUME NEW w \in Workers, RemoveEnd(w) PROVE OwnTunnel'
  BY <1>17 DEF RemoveEnd, linkVars
<1>18. ASSUME NEW w \in Workers, CleanClose(w) PROVE OwnTunnel'
  BY <1>18 DEF CleanClose, Ends, Pop
<1>19. ASSUME NEW w \in Workers, CleanLook(w) PROVE OwnTunnel'
  BY <1>19 DEF CleanLook, linkVars, Tasks, Ssh
<1>20. ASSUME NEW w \in Workers, CleanForget(w) PROVE OwnTunnel'
  BY <1>20 DEF CleanForget, linkVars, Tasks, Ssh
<1>21. ASSUME NEW w \in Workers, VmStalls(w) PROVE OwnTunnel'
  BY <1>21 DEF VmStalls, linkVars, Take
<1>22. CASE StopBegin
  BY <1>22 DEF StopBegin, linkVars, Take
<1>23. CASE StopClose
  BY <1>23 DEF StopClose, Ends, Pop, Tasks
<1>24. CASE StopDone
  BY <1>24 DEF StopDone, linkVars
<1> QED
  BY <1>1, <1>2, <1>3, <1>4, <1>5, <1>6, <1>7, <1>8, <1>9, <1>10, <1>11, <1>12,
     <1>13, <1>14, <1>15, <1>16, <1>17, <1>18, <1>19, <1>20, <1>21, <1>22, <1>23, <1>24
     DEF Next, Step, CloseStep

\* A process that a step leaves alive is registered or being ended.
LEMMA OwnedStep ==
  ASSUME LinksAssumption, LinkInv, Next
  PROVE  Owned'
<1> USE LinksAssumption DEF LinkInv, TypeOK, OwnTunnel, Owned, Owner, Alive, Steady
<1>1. ASSUME NEW i \in Ssh, SshBinds(i) PROVE Owned'
  BY <1>1 DEF SshBinds, envVars, Dead, Tasks, Ssh, Locked, Looking, Replacing, Busied, TaskType
<1>2. ASSUME NEW i \in Ssh, SshDies(i) PROVE Owned'
  BY <1>2 DEF SshDies, envVars, Take, NoFault, Dead, Notices, Locked, Looking, Replacing, Busied,
     TaskType
<1>3. ASSUME NEW i \in Ssh, SshTerminated(i) PROVE Owned'
  BY <1>3 DEF SshTerminated, envVars, Dead, Locked, Looking, Replacing, Busied, TaskType
<1>4. CASE Check
  BY <1>4 DEF Check, linkVars, envVars, Begin, Locked, Looking, Replacing, Busied, TaskType
<1>5. ASSUME NEW t \in Callers, NEW w \in Busy, NEW m \in Uses, Call(t, w, m) PROVE Owned'
  BY <1>5 DEF Call, linkVars, envVars, Begin, Locked, Looking, Replacing, Busied, TaskType
<1>6. ASSUME NEW t \in Tasks, EnsureBegin(t) PROVE Owned'
  BY <1>6 DEF EnsureBegin, envVars, LockFree, Locked, Looking, Replacing, Busied, TaskType
<1>7. ASSUME NEW t \in Tasks, EnsureProbe(t) PROVE Owned'
  BY <1>7 DEF EnsureProbe, envVars, Ends, Goto, Unlock, Return, NoReturn, Tasks, Ssh, Locked,
     Looking, Replacing, Busied, TaskType
<1>8. ASSUME NEW t \in Tasks, EnsureChoose(t) PROVE Owned'
  BY <1>8 DEF EnsureChoose, linkVars, envVars, Take, NoFault, Tasks, Ssh, Reuses, Locked,
     Looking, Replacing, Busied, TaskType
<1>9. ASSUME NEW t \in Tasks, EnsureSpawn(t) PROVE Owned'
  BY <1>9 DEF EnsureSpawn, envVars, Unused, Locked, Looking, Replacing, Busied, TaskType
<1>10. ASSUME NEW t \in Tasks, EnsureWait(t) PROVE Owned'
  BY <1>10 DEF EnsureWait, envVars, Take, NoFault, Ends, Goto, Unlock, Return, NoReturn, Tasks,
     Ssh, Locked, Looking, Replacing, Busied, TaskType
<1>11. ASSUME NEW t \in Tasks, EnsureGiveUp(t) PROVE Owned'
  BY <1>11 DEF EnsureGiveUp, envVars, Idle, Over, Unlock, Locked, Looking, Replacing, Busied, TaskType
<1>12. ASSUME NEW t \in Tasks, RenewClient(t) PROVE Owned'
  BY <1>12 DEF RenewClient, linkVars, envVars, Goto, Locked, Looking, Replacing, Busied, TaskType
<1>13. ASSUME NEW t \in Tasks, Send(t) PROVE Owned'
  BY <1>13 DEF Send, envVars, Idle, Over, Tasks, Ssh, Locked, Looking, Replacing, Busied, TaskType
<1>14. ASSUME NEW t \in Tasks, Cancel(t) PROVE Owned'
  BY <1>14 DEF Cancel, envVars, Idle, Over, Locked, Looking, Replacing, Busied, TaskType
<1>15. ASSUME NEW w \in Workers, RemoveBegin(w) PROVE Owned'
  BY <1>15 DEF RemoveBegin, linkVars, Locked, Looking, Replacing, Busied, TaskType
<1>16. ASSUME NEW w \in Workers, RemoveClose(w) PROVE Owned'
  <2>1. Pop({w}) /\ ssh' = ssh
    BY <1>16 DEF RemoveClose
  <2>2. {w} \in SUBSET Workers
    OBVIOUS
  <2>3. /\ \A v \in Workers : tunnels'[v] = IF v \in {w} THEN NoSsh ELSE tunnels[v]
        /\ \A i \in ending : i \in ending'
        /\ \A v \in {w} : Alive(tunnels[v]) => tunnels[v] \in ending'
    BY <2>1, <2>2, PopsThem
  <2>4. \A i \in Ssh : Owner(i) \in Workers
    BY DEF Ssh
  <2> QED
    BY <2>1, <2>3, <2>4
<1>17. ASSUME NEW w \in Workers, RemoveEnd(w) PROVE Owned'
  BY <1>17 DEF RemoveEnd, linkVars, Locked, Looking, Replacing, Busied, TaskType
<1>18. ASSUME NEW w \in Workers, CleanClose(w) PROVE Owned'
  <2>1. Pop({w}) /\ ssh' = ssh
    BY <1>18 DEF CleanClose
  <2>2. {w} \in SUBSET Workers
    OBVIOUS
  <2>3. /\ \A v \in Workers : tunnels'[v] = IF v \in {w} THEN NoSsh ELSE tunnels[v]
        /\ \A i \in ending : i \in ending'
        /\ \A v \in {w} : Alive(tunnels[v]) => tunnels[v] \in ending'
    BY <2>1, <2>2, PopsThem
  <2>4. \A i \in Ssh : Owner(i) \in Workers
    BY DEF Ssh
  <2> QED
    BY <2>1, <2>3, <2>4
<1>19. ASSUME NEW w \in Workers, CleanLook(w) PROVE Owned'
  BY <1>19 DEF CleanLook, linkVars, Tasks, Ssh, Locked, Looking, Replacing, Busied, TaskType
<1>20. ASSUME NEW w \in Workers, CleanForget(w) PROVE Owned'
  BY <1>20 DEF CleanForget, linkVars, Tasks, Ssh, Locked, Looking, Replacing, Busied, TaskType
<1>21. ASSUME NEW w \in Workers, VmStalls(w) PROVE Owned'
  BY <1>21 DEF VmStalls, linkVars, Take, Locked, Looking, Replacing, Busied, TaskType
<1>22. CASE StopBegin
  BY <1>22 DEF StopBegin, linkVars, Take, Locked, Looking, Replacing, Busied, TaskType
<1>23. CASE StopClose
  <2>1. Pop(Workers) /\ ssh' = ssh
    BY <1>23 DEF StopClose
  <2>2. Workers \in SUBSET Workers
    OBVIOUS
  <2>3. /\ \A v \in Workers : tunnels'[v] = IF v \in Workers THEN NoSsh ELSE tunnels[v]
        /\ \A i \in ending : i \in ending'
        /\ \A v \in Workers : Alive(tunnels[v]) => tunnels[v] \in ending'
    BY <2>1, <2>2, PopsThem
  <2>4. \A i \in Ssh : Owner(i) \in Workers
    BY DEF Ssh
  <2> QED
    BY <2>1, <2>3, <2>4
<1>24. CASE StopDone
  BY <1>24 DEF StopDone, linkVars, Locked, Looking, Replacing, Busied, TaskType
<1> QED
  BY <1>1, <1>2, <1>3, <1>4, <1>5, <1>6, <1>7, <1>8, <1>9, <1>10, <1>11, <1>12,
     <1>13, <1>14, <1>15, <1>16, <1>17, <1>18, <1>19, <1>20, <1>21, <1>22, <1>23, <1>24
     DEF Next, Step, CloseStep

\* Once stopped, nothing starts again.
LEMMA StoppedStep ==
  ASSUME LinksAssumption, LinkInv, Next
  PROVE  Stopped'
<1> USE LinksAssumption DEF LinkInv, TypeOK, Stopped, Alive
<1>1. ASSUME NEW i \in Ssh, SshBinds(i) PROVE Stopped'
  BY <1>1 DEF SshBinds, envVars, Dead, Tasks, Ssh, TaskType
<1>2. ASSUME NEW i \in Ssh, SshDies(i) PROVE Stopped'
  BY <1>2 DEF SshDies, envVars, Take, NoFault, Dead, Notices, TaskType
<1>3. ASSUME NEW i \in Ssh, SshTerminated(i) PROVE Stopped'
  BY <1>3 DEF SshTerminated, envVars, Dead, TaskType
<1>4. CASE Check
  BY <1>4 DEF Check, linkVars, envVars, Begin, TaskType
<1>5. ASSUME NEW t \in Callers, NEW w \in Busy, NEW m \in Uses, Call(t, w, m) PROVE Stopped'
  BY <1>5 DEF Call, linkVars, envVars, Begin, TaskType
<1>6. ASSUME NEW t \in Tasks, EnsureBegin(t) PROVE Stopped'
  BY <1>6 DEF EnsureBegin, envVars, LockFree, TaskType
<1>7. ASSUME NEW t \in Tasks, EnsureProbe(t) PROVE Stopped'
  BY <1>7 DEF EnsureProbe, envVars, Ends, Goto, Unlock, Return, NoReturn, Tasks, Ssh, TaskType
<1>8. ASSUME NEW t \in Tasks, EnsureChoose(t) PROVE Stopped'
  BY <1>8 DEF EnsureChoose, linkVars, envVars, Take, NoFault, Tasks, Ssh, Reuses, TaskType
<1>9. ASSUME NEW t \in Tasks, EnsureSpawn(t) PROVE Stopped'
  BY <1>9 DEF EnsureSpawn, envVars, Unused, TaskType
<1>10. ASSUME NEW t \in Tasks, EnsureWait(t) PROVE Stopped'
  BY <1>10 DEF EnsureWait, envVars, Take, NoFault, Ends, Goto, Unlock, Return, NoReturn, Tasks,
     Ssh, TaskType
<1>11. ASSUME NEW t \in Tasks, EnsureGiveUp(t) PROVE Stopped'
  BY <1>11 DEF EnsureGiveUp, envVars, Idle, Over, Unlock, TaskType
<1>12. ASSUME NEW t \in Tasks, RenewClient(t) PROVE Stopped'
  BY <1>12 DEF RenewClient, linkVars, envVars, Goto, TaskType
<1>13. ASSUME NEW t \in Tasks, Send(t) PROVE Stopped'
  BY <1>13 DEF Send, envVars, Idle, Over, Tasks, Ssh, TaskType
<1>14. ASSUME NEW t \in Tasks, Cancel(t) PROVE Stopped'
  BY <1>14 DEF Cancel, envVars, Idle, Over, TaskType
<1>15. ASSUME NEW w \in Workers, RemoveBegin(w) PROVE Stopped'
  BY <1>15 DEF RemoveBegin, linkVars, TaskType
<1>16. ASSUME NEW w \in Workers, RemoveClose(w) PROVE Stopped'
  BY <1>16 DEF RemoveClose, Ends, Pop, TaskType
<1>17. ASSUME NEW w \in Workers, RemoveEnd(w) PROVE Stopped'
  BY <1>17 DEF RemoveEnd, linkVars, TaskType
<1>18. ASSUME NEW w \in Workers, CleanClose(w) PROVE Stopped'
  BY <1>18 DEF CleanClose, Ends, Pop, TaskType
<1>19. ASSUME NEW w \in Workers, CleanLook(w) PROVE Stopped'
  BY <1>19 DEF CleanLook, linkVars, Tasks, Ssh, TaskType
<1>20. ASSUME NEW w \in Workers, CleanForget(w) PROVE Stopped'
  BY <1>20 DEF CleanForget, linkVars, Tasks, Ssh, TaskType
<1>21. ASSUME NEW w \in Workers, VmStalls(w) PROVE Stopped'
  BY <1>21 DEF VmStalls, linkVars, Take, TaskType
<1>22. CASE StopBegin
  BY <1>22 DEF StopBegin, linkVars, Take, TaskType
<1>23. CASE StopClose
  BY <1>23 DEF StopClose, Ends, Pop, Tasks, TaskType
<1>24. CASE StopDone
  BY <1>24 DEF StopDone, linkVars, TaskType
<1> QED
  BY <1>1, <1>2, <1>3, <1>4, <1>5, <1>6, <1>7, <1>8, <1>9, <1>10, <1>11, <1>12,
     <1>13, <1>14, <1>15, <1>16, <1>17, <1>18, <1>19, <1>20, <1>21, <1>22, <1>23, <1>24
     DEF Next, Step, CloseStep

\* A task that is not idle has a worker.
LEMMA BusiedStep ==
  ASSUME LinksAssumption, LinkInv, Next
  PROVE  \A u \in Tasks : Busied(u)'
<1> USE LinksAssumption DEF LinkInv, TypeOK, OwnTunnel, Owner, Steady, Busied, Busied, Inside
<1>1. ASSUME NEW i \in Ssh, SshBinds(i) PROVE \A u \in Tasks : Busied(u)'
  BY <1>1 DEF SshBinds, envVars, Dead, Tasks, Ssh, Alive, TaskType, Locked
<1>2. ASSUME NEW i \in Ssh, SshDies(i) PROVE \A u \in Tasks : Busied(u)'
  BY <1>2 DEF SshDies, envVars, Take, NoFault, Dead, Notices, Alive, TaskType, Locked
<1>3. ASSUME NEW i \in Ssh, SshTerminated(i) PROVE \A u \in Tasks : Busied(u)'
  BY <1>3 DEF SshTerminated, envVars, Dead, Alive, TaskType, Locked
<1>4. CASE Check
  BY <1>4, CheckBegins DEF linkVars, Alive, Locked, Tasks
<1>5. ASSUME NEW t \in Callers, NEW w \in Busy, NEW m \in Uses, Call(t, w, m) PROVE \A u \in Tasks : Busied(u)'
  BY <1>5 DEF Call, linkVars, envVars, Begin, Alive, TaskType, Locked
<1>6. ASSUME NEW t \in Tasks, EnsureBegin(t) PROVE \A u \in Tasks : Busied(u)'
  BY <1>6 DEF EnsureBegin, envVars, LockFree, Alive, TaskType, Locked
<1>7. ASSUME NEW t \in Tasks, EnsureProbe(t) PROVE \A u \in Tasks : Busied(u)'
  <2>1. /\ task'[t].w = task[t].w /\ (\A u \in Tasks \ {t} : task'[u] = task[u])
        /\ ssh' = ssh /\ tunnels' = tunnels /\ task[t].w \in Workers /\ lock[task[t].w] = t
    BY <1>7, Probes DEF EnsureProbe, Locked
  <2>2. \A u \in Tasks \ {t} : task[u].pc \in Inside => task[u].w # task[t].w
    BY <2>1 DEF Locked
  <2>3. CASE task'[t].pc \in {"send", "renew"}
    <3>1. ending' = ending /\ lock' = [lock EXCEPT ![task[t].w] = NoTask]
      BY <1>7, <2>3, Probes
    <3> QED
      BY <2>1, <2>2, <2>3, <3>1 DEF Locked, Alive
  <2>4. CASE task'[t].pc \notin {"send", "renew"}
    <3>1. /\ lock' = lock /\ task'[t].pc = "choose"
          /\ (\A i \in ending : i \in ending') /\ (Alive(task[t].mine) => task[t].mine \in ending')
      BY <1>7, <2>4, Probes
    <3> QED
      BY <1>7, <2>1, <2>2, <2>4, <3>1 DEF EnsureProbe, Locked, Looking, Alive
  <2> QED
    BY <2>3, <2>4
<1>8. ASSUME NEW t \in Tasks, EnsureChoose(t) PROVE \A u \in Tasks : Busied(u)'
  BY <1>8 DEF EnsureChoose, linkVars, envVars, Take, NoFault, Tasks, Ssh, Reuses, Alive,
     TaskType, Locked
<1>9. ASSUME NEW t \in Tasks, EnsureSpawn(t) PROVE \A u \in Tasks : Busied(u)'
  BY <1>9 DEF EnsureSpawn, envVars, Unused, Alive, TaskType, Locked
<1>10. ASSUME NEW t \in Tasks, EnsureWait(t) PROVE \A u \in Tasks : Busied(u)'
  <2>1. /\ task'[t].w = task[t].w /\ (\A u \in Tasks \ {t} : task'[u] = task[u])
        /\ ssh' = ssh /\ tunnels' = tunnels /\ task[t].w \in Workers /\ lock[task[t].w] = t
    BY <1>10, Waits DEF EnsureWait, Locked
  <2>2. \A u \in Tasks \ {t} : task[u].pc \in Inside => task[u].w # task[t].w
    BY <2>1 DEF Locked
  <2>3. CASE task'[t].pc \in {"send", "renew"}
    <3>1. ending' = ending /\ lock' = [lock EXCEPT ![task[t].w] = NoTask]
      BY <1>10, <2>3, Waits
    <3> QED
      BY <2>1, <2>2, <2>3, <3>1 DEF Locked, Alive
  <2>4. CASE task'[t].pc \notin {"send", "renew"}
    <3>1. /\ lock' = lock /\ task'[t].pc = "giveup" /\ task'[t].mine = task[t].mine
          /\ \A i \in ending : i \in ending'
      BY <1>10, <2>4, Waits
    <3> QED
      BY <1>10, <2>1, <2>2, <2>4, <3>1 DEF EnsureWait, Locked, Looking, Alive
  <2> QED
    BY <2>3, <2>4
<1>11. ASSUME NEW t \in Tasks, EnsureGiveUp(t) PROVE \A u \in Tasks : Busied(u)'
  BY <1>11 DEF EnsureGiveUp, envVars, Idle, Over, Unlock, Alive, TaskType, Locked
<1>12. ASSUME NEW t \in Tasks, RenewClient(t) PROVE \A u \in Tasks : Busied(u)'
  BY <1>12, Renews
<1>13. ASSUME NEW t \in Tasks, Send(t) PROVE \A u \in Tasks : Busied(u)'
  BY <1>13, Sends
<1>14. ASSUME NEW t \in Tasks, Cancel(t) PROVE \A u \in Tasks : Busied(u)'
  BY <1>14 DEF Cancel, envVars, Idle, Over, Alive, TaskType, Locked
<1>15. ASSUME NEW w \in Workers, RemoveBegin(w) PROVE \A u \in Tasks : Busied(u)'
  BY <1>15 DEF RemoveBegin, linkVars, Alive, TaskType, Locked
<1>16. ASSUME NEW w \in Workers, RemoveClose(w) PROVE \A u \in Tasks : Busied(u)'
  BY <1>16 DEF RemoveClose, Ends, Pop, Alive, TaskType, Locked
<1>17. ASSUME NEW w \in Workers, RemoveEnd(w) PROVE \A u \in Tasks : Busied(u)'
  BY <1>17 DEF RemoveEnd, linkVars, Alive, TaskType, Locked
<1>18. ASSUME NEW w \in Workers, CleanClose(w) PROVE \A u \in Tasks : Busied(u)'
  BY <1>18 DEF CleanClose, Ends, Pop, Alive, TaskType, Locked
<1>19. ASSUME NEW w \in Workers, CleanLook(w) PROVE \A u \in Tasks : Busied(u)'
  BY <1>19 DEF CleanLook, linkVars, Tasks, Ssh, Alive, TaskType, Locked
<1>20. ASSUME NEW w \in Workers, CleanForget(w) PROVE \A u \in Tasks : Busied(u)'
  BY <1>20 DEF CleanForget, linkVars, Tasks, Ssh, Alive, TaskType, Locked
<1>21. ASSUME NEW w \in Workers, VmStalls(w) PROVE \A u \in Tasks : Busied(u)'
  BY <1>21 DEF VmStalls, linkVars, Take, Alive, TaskType, Locked
<1>22. CASE StopBegin
  BY <1>22 DEF StopBegin, linkVars, Take, Alive, TaskType, Locked
<1>23. CASE StopClose
  BY <1>23 DEF StopClose, Ends, Pop, Tasks, Alive, TaskType, Locked
<1>24. CASE StopDone
  BY <1>24 DEF StopDone, linkVars, Alive, TaskType, Locked
<1> QED
  BY <1>1, <1>2, <1>3, <1>4, <1>5, <1>6, <1>7, <1>8, <1>9, <1>10, <1>11, <1>12,
     <1>13, <1>14, <1>15, <1>16, <1>17, <1>18, <1>19, <1>20, <1>21, <1>22, <1>23, <1>24
     DEF Next, Step, CloseStep

\* A task inside ensure has the lock of its worker.
LEMMA LockedStep ==
  ASSUME LinksAssumption, LinkInv, Next
  PROVE  \A u \in Tasks : Locked(u)'
<1> USE LinksAssumption DEF LinkInv, TypeOK, OwnTunnel, Owner, Steady, Locked, Busied, Inside
<1>1. ASSUME NEW i \in Ssh, SshBinds(i) PROVE \A u \in Tasks : Locked(u)'
  BY <1>1 DEF SshBinds, envVars, Dead, Tasks, Ssh, Alive, TaskType, Locked
<1>2. ASSUME NEW i \in Ssh, SshDies(i) PROVE \A u \in Tasks : Locked(u)'
  BY <1>2 DEF SshDies, envVars, Take, NoFault, Dead, Notices, Alive, TaskType, Locked
<1>3. ASSUME NEW i \in Ssh, SshTerminated(i) PROVE \A u \in Tasks : Locked(u)'
  BY <1>3 DEF SshTerminated, envVars, Dead, Alive, TaskType, Locked
<1>4. CASE Check
  BY <1>4, CheckBegins DEF linkVars, Alive, Locked, Tasks
<1>5. ASSUME NEW t \in Callers, NEW w \in Busy, NEW m \in Uses, Call(t, w, m) PROVE \A u \in Tasks : Locked(u)'
  BY <1>5 DEF Call, linkVars, envVars, Begin, Alive, TaskType, Locked
<1>6. ASSUME NEW t \in Tasks, EnsureBegin(t) PROVE \A u \in Tasks : Locked(u)'
  BY <1>6 DEF EnsureBegin, envVars, LockFree, Alive, TaskType, Locked
<1>7. ASSUME NEW t \in Tasks, EnsureProbe(t) PROVE \A u \in Tasks : Locked(u)'
  <2>1. /\ task'[t].w = task[t].w /\ (\A u \in Tasks \ {t} : task'[u] = task[u])
        /\ ssh' = ssh /\ tunnels' = tunnels /\ task[t].w \in Workers /\ lock[task[t].w] = t
    BY <1>7, Probes DEF EnsureProbe, Locked
  <2>2. \A u \in Tasks \ {t} : task[u].pc \in Inside => task[u].w # task[t].w
    BY <2>1 DEF Locked
  <2>3. CASE task'[t].pc \in {"send", "renew"}
    <3>1. ending' = ending /\ lock' = [lock EXCEPT ![task[t].w] = NoTask]
      BY <1>7, <2>3, Probes
    <3> QED
      BY <2>1, <2>2, <2>3, <3>1 DEF Locked, Alive
  <2>4. CASE task'[t].pc \notin {"send", "renew"}
    <3>1. /\ lock' = lock /\ task'[t].pc = "choose"
          /\ (\A i \in ending : i \in ending') /\ (Alive(task[t].mine) => task[t].mine \in ending')
      BY <1>7, <2>4, Probes
    <3> QED
      BY <1>7, <2>1, <2>2, <2>4, <3>1 DEF EnsureProbe, Locked, Looking, Alive
  <2> QED
    BY <2>3, <2>4
<1>8. ASSUME NEW t \in Tasks, EnsureChoose(t) PROVE \A u \in Tasks : Locked(u)'
  BY <1>8 DEF EnsureChoose, linkVars, envVars, Take, NoFault, Tasks, Ssh, Reuses, Alive,
     TaskType, Locked
<1>9. ASSUME NEW t \in Tasks, EnsureSpawn(t) PROVE \A u \in Tasks : Locked(u)'
  BY <1>9 DEF EnsureSpawn, envVars, Unused, Alive, TaskType, Locked
<1>10. ASSUME NEW t \in Tasks, EnsureWait(t) PROVE \A u \in Tasks : Locked(u)'
  <2>1. /\ task'[t].w = task[t].w /\ (\A u \in Tasks \ {t} : task'[u] = task[u])
        /\ ssh' = ssh /\ tunnels' = tunnels /\ task[t].w \in Workers /\ lock[task[t].w] = t
    BY <1>10, Waits DEF EnsureWait, Locked
  <2>2. \A u \in Tasks \ {t} : task[u].pc \in Inside => task[u].w # task[t].w
    BY <2>1 DEF Locked
  <2>3. CASE task'[t].pc \in {"send", "renew"}
    <3>1. ending' = ending /\ lock' = [lock EXCEPT ![task[t].w] = NoTask]
      BY <1>10, <2>3, Waits
    <3> QED
      BY <2>1, <2>2, <2>3, <3>1 DEF Locked, Alive
  <2>4. CASE task'[t].pc \notin {"send", "renew"}
    <3>1. /\ lock' = lock /\ task'[t].pc = "giveup" /\ task'[t].mine = task[t].mine
          /\ \A i \in ending : i \in ending'
      BY <1>10, <2>4, Waits
    <3> QED
      BY <1>10, <2>1, <2>2, <2>4, <3>1 DEF EnsureWait, Locked, Looking, Alive
  <2> QED
    BY <2>3, <2>4
<1>11. ASSUME NEW t \in Tasks, EnsureGiveUp(t) PROVE \A u \in Tasks : Locked(u)'
  BY <1>11 DEF EnsureGiveUp, envVars, Idle, Over, Unlock, Alive, TaskType, Locked
<1>12. ASSUME NEW t \in Tasks, RenewClient(t) PROVE \A u \in Tasks : Locked(u)'
  BY <1>12 DEF RenewClient, linkVars, envVars, Goto, Alive, TaskType, Locked
<1>13. ASSUME NEW t \in Tasks, Send(t) PROVE \A u \in Tasks : Locked(u)'
  BY <1>13 DEF Send, envVars, Idle, Over, Tasks, Ssh, Alive, TaskType, Locked
<1>14. ASSUME NEW t \in Tasks, Cancel(t) PROVE \A u \in Tasks : Locked(u)'
  BY <1>14 DEF Cancel, envVars, Idle, Over, Alive, TaskType, Locked
<1>15. ASSUME NEW w \in Workers, RemoveBegin(w) PROVE \A u \in Tasks : Locked(u)'
  BY <1>15 DEF RemoveBegin, linkVars, Alive, TaskType, Locked
<1>16. ASSUME NEW w \in Workers, RemoveClose(w) PROVE \A u \in Tasks : Locked(u)'
  BY <1>16 DEF RemoveClose, Ends, Pop, Alive, TaskType, Locked
<1>17. ASSUME NEW w \in Workers, RemoveEnd(w) PROVE \A u \in Tasks : Locked(u)'
  BY <1>17 DEF RemoveEnd, linkVars, Alive, TaskType, Locked
<1>18. ASSUME NEW w \in Workers, CleanClose(w) PROVE \A u \in Tasks : Locked(u)'
  BY <1>18 DEF CleanClose, Ends, Pop, Alive, TaskType, Locked
<1>19. ASSUME NEW w \in Workers, CleanLook(w) PROVE \A u \in Tasks : Locked(u)'
  BY <1>19 DEF CleanLook, linkVars, Tasks, Ssh, Alive, TaskType, Locked
<1>20. ASSUME NEW w \in Workers, CleanForget(w) PROVE \A u \in Tasks : Locked(u)'
  BY <1>20 DEF CleanForget, linkVars, Tasks, Ssh, Alive, TaskType, Locked
<1>21. ASSUME NEW w \in Workers, VmStalls(w) PROVE \A u \in Tasks : Locked(u)'
  BY <1>21 DEF VmStalls, linkVars, Take, Alive, TaskType, Locked
<1>22. CASE StopBegin
  BY <1>22 DEF StopBegin, linkVars, Take, Alive, TaskType, Locked
<1>23. CASE StopClose
  BY <1>23 DEF StopClose, Ends, Pop, Tasks, Alive, TaskType, Locked
<1>24. CASE StopDone
  BY <1>24 DEF StopDone, linkVars, Alive, TaskType, Locked
<1> QED
  BY <1>1, <1>2, <1>3, <1>4, <1>5, <1>6, <1>7, <1>8, <1>9, <1>10, <1>11, <1>12,
     <1>13, <1>14, <1>15, <1>16, <1>17, <1>18, <1>19, <1>20, <1>21, <1>22, <1>23, <1>24
     DEF Next, Step, CloseStep

\* No other process is registered while ensure looks at one.
LEMMA LookingStep ==
  ASSUME LinksAssumption, LinkInv, Next
  PROVE  \A u \in Tasks : Looking(u)'
<1> USE LinksAssumption DEF LinkInv, TypeOK, OwnTunnel, Owner, Steady, Looking, Busied, Inside
<1>1. ASSUME NEW i \in Ssh, SshBinds(i) PROVE \A u \in Tasks : Looking(u)'
  BY <1>1 DEF SshBinds, envVars, Dead, Tasks, Ssh, Alive, TaskType, Locked
<1>2. ASSUME NEW i \in Ssh, SshDies(i) PROVE \A u \in Tasks : Looking(u)'
  BY <1>2 DEF SshDies, envVars, Take, NoFault, Dead, Notices, Alive, TaskType, Locked
<1>3. ASSUME NEW i \in Ssh, SshTerminated(i) PROVE \A u \in Tasks : Looking(u)'
  BY <1>3 DEF SshTerminated, envVars, Dead, Alive, TaskType, Locked
<1>4. CASE Check
  BY <1>4, CheckBegins DEF linkVars, Alive, Locked, Tasks
<1>5. ASSUME NEW t \in Callers, NEW w \in Busy, NEW m \in Uses, Call(t, w, m) PROVE \A u \in Tasks : Looking(u)'
  BY <1>5 DEF Call, linkVars, envVars, Begin, Alive, TaskType, Locked
<1>6. ASSUME NEW t \in Tasks, EnsureBegin(t) PROVE \A u \in Tasks : Looking(u)'
  BY <1>6 DEF EnsureBegin, envVars, LockFree, Alive, TaskType, Locked
<1>7. ASSUME NEW t \in Tasks, EnsureProbe(t) PROVE \A u \in Tasks : Looking(u)'
  <2>1. /\ task'[t].w = task[t].w /\ (\A u \in Tasks \ {t} : task'[u] = task[u])
        /\ ssh' = ssh /\ tunnels' = tunnels /\ task[t].w \in Workers /\ lock[task[t].w] = t
    BY <1>7, Probes DEF EnsureProbe, Locked
  <2>2. \A u \in Tasks \ {t} : task[u].pc \in Inside => task[u].w # task[t].w
    BY <2>1 DEF Locked
  <2>3. CASE task'[t].pc \in {"send", "renew"}
    <3>1. ending' = ending /\ lock' = [lock EXCEPT ![task[t].w] = NoTask]
      BY <1>7, <2>3, Probes
    <3> QED
      BY <2>1, <2>2, <2>3, <3>1 DEF Locked, Alive
  <2>4. CASE task'[t].pc \notin {"send", "renew"}
    <3>1. /\ lock' = lock /\ task'[t].pc = "choose"
          /\ (\A i \in ending : i \in ending') /\ (Alive(task[t].mine) => task[t].mine \in ending')
      BY <1>7, <2>4, Probes
    <3> QED
      BY <1>7, <2>1, <2>2, <2>4, <3>1 DEF EnsureProbe, Locked, Looking, Alive
  <2> QED
    BY <2>3, <2>4
<1>8. ASSUME NEW t \in Tasks, EnsureChoose(t) PROVE \A u \in Tasks : Looking(u)'
  BY <1>8 DEF EnsureChoose, linkVars, envVars, Take, NoFault, Tasks, Ssh, Reuses, Alive,
     TaskType, Locked
<1>9. ASSUME NEW t \in Tasks, EnsureSpawn(t) PROVE \A u \in Tasks : Looking(u)'
  BY <1>9 DEF EnsureSpawn, envVars, Unused, Alive, TaskType, Locked
<1>10. ASSUME NEW t \in Tasks, EnsureWait(t) PROVE \A u \in Tasks : Looking(u)'
  <2>1. /\ task'[t].w = task[t].w /\ (\A u \in Tasks \ {t} : task'[u] = task[u])
        /\ ssh' = ssh /\ tunnels' = tunnels /\ task[t].w \in Workers /\ lock[task[t].w] = t
    BY <1>10, Waits DEF EnsureWait, Locked
  <2>2. \A u \in Tasks \ {t} : task[u].pc \in Inside => task[u].w # task[t].w
    BY <2>1 DEF Locked
  <2>3. CASE task'[t].pc \in {"send", "renew"}
    <3>1. ending' = ending /\ lock' = [lock EXCEPT ![task[t].w] = NoTask]
      BY <1>10, <2>3, Waits
    <3> QED
      BY <2>1, <2>2, <2>3, <3>1 DEF Locked, Alive
  <2>4. CASE task'[t].pc \notin {"send", "renew"}
    <3>1. /\ lock' = lock /\ task'[t].pc = "giveup" /\ task'[t].mine = task[t].mine
          /\ \A i \in ending : i \in ending'
      BY <1>10, <2>4, Waits
    <3> QED
      BY <1>10, <2>1, <2>2, <2>4, <3>1 DEF EnsureWait, Locked, Looking, Alive
  <2> QED
    BY <2>3, <2>4
<1>11. ASSUME NEW t \in Tasks, EnsureGiveUp(t) PROVE \A u \in Tasks : Looking(u)'
  BY <1>11 DEF EnsureGiveUp, envVars, Idle, Over, Unlock, Alive, TaskType, Locked
<1>12. ASSUME NEW t \in Tasks, RenewClient(t) PROVE \A u \in Tasks : Looking(u)'
  BY <1>12 DEF RenewClient, linkVars, envVars, Goto, Alive, TaskType, Locked
<1>13. ASSUME NEW t \in Tasks, Send(t) PROVE \A u \in Tasks : Looking(u)'
  BY <1>13 DEF Send, envVars, Idle, Over, Tasks, Ssh, Alive, TaskType, Locked
<1>14. ASSUME NEW t \in Tasks, Cancel(t) PROVE \A u \in Tasks : Looking(u)'
  BY <1>14 DEF Cancel, envVars, Idle, Over, Alive, TaskType, Locked
<1>15. ASSUME NEW w \in Workers, RemoveBegin(w) PROVE \A u \in Tasks : Looking(u)'
  BY <1>15 DEF RemoveBegin, linkVars, Alive, TaskType, Locked
<1>16. ASSUME NEW w \in Workers, RemoveClose(w) PROVE \A u \in Tasks : Looking(u)'
  BY <1>16 DEF RemoveClose, Ends, Pop, Alive, TaskType, Locked
<1>17. ASSUME NEW w \in Workers, RemoveEnd(w) PROVE \A u \in Tasks : Looking(u)'
  BY <1>17 DEF RemoveEnd, linkVars, Alive, TaskType, Locked
<1>18. ASSUME NEW w \in Workers, CleanClose(w) PROVE \A u \in Tasks : Looking(u)'
  BY <1>18 DEF CleanClose, Ends, Pop, Alive, TaskType, Locked
<1>19. ASSUME NEW w \in Workers, CleanLook(w) PROVE \A u \in Tasks : Looking(u)'
  BY <1>19 DEF CleanLook, linkVars, Tasks, Ssh, Alive, TaskType, Locked
<1>20. ASSUME NEW w \in Workers, CleanForget(w) PROVE \A u \in Tasks : Looking(u)'
  BY <1>20 DEF CleanForget, linkVars, Tasks, Ssh, Alive, TaskType, Locked
<1>21. ASSUME NEW w \in Workers, VmStalls(w) PROVE \A u \in Tasks : Looking(u)'
  BY <1>21 DEF VmStalls, linkVars, Take, Alive, TaskType, Locked
<1>22. CASE StopBegin
  BY <1>22 DEF StopBegin, linkVars, Take, Alive, TaskType, Locked
<1>23. CASE StopClose
  BY <1>23 DEF StopClose, Ends, Pop, Tasks, Alive, TaskType, Locked
<1>24. CASE StopDone
  BY <1>24 DEF StopDone, linkVars, Alive, TaskType, Locked
<1> QED
  BY <1>1, <1>2, <1>3, <1>4, <1>5, <1>6, <1>7, <1>8, <1>9, <1>10, <1>11, <1>12,
     <1>13, <1>14, <1>15, <1>16, <1>17, <1>18, <1>19, <1>20, <1>21, <1>22, <1>23, <1>24
     DEF Next, Step, CloseStep

\* No live tunnel is forgotten by replacing it.
LEMMA ReplacingStep ==
  ASSUME LinksAssumption, LinkInv, Next
  PROVE  \A u \in Tasks : Replacing(u)'
<1> USE LinksAssumption DEF LinkInv, TypeOK, OwnTunnel, Owner, Steady, Replacing, Busied, Inside
<1>1. ASSUME NEW i \in Ssh, SshBinds(i) PROVE \A u \in Tasks : Replacing(u)'
  BY <1>1 DEF SshBinds, envVars, Dead, Tasks, Ssh, Alive, TaskType, Locked
<1>2. ASSUME NEW i \in Ssh, SshDies(i) PROVE \A u \in Tasks : Replacing(u)'
  BY <1>2 DEF SshDies, envVars, Take, NoFault, Dead, Notices, Alive, TaskType, Locked
<1>3. ASSUME NEW i \in Ssh, SshTerminated(i) PROVE \A u \in Tasks : Replacing(u)'
  BY <1>3 DEF SshTerminated, envVars, Dead, Alive, TaskType, Locked
<1>4. CASE Check
  BY <1>4, CheckBegins DEF linkVars, Alive, Locked, Tasks
<1>5. ASSUME NEW t \in Callers, NEW w \in Busy, NEW m \in Uses, Call(t, w, m) PROVE \A u \in Tasks : Replacing(u)'
  <2>1. t \in Tasks /\ w \in Workers
    BY DEF Tasks
  <2> QED
    BY <1>5, <2>1, Calls DEF Alive
<1>6. ASSUME NEW t \in Tasks, EnsureBegin(t) PROVE \A u \in Tasks : Replacing(u)'
  BY <1>6 DEF EnsureBegin, envVars, LockFree, Alive, TaskType, Locked
<1>7. ASSUME NEW t \in Tasks, EnsureProbe(t) PROVE \A u \in Tasks : Replacing(u)'
  <2>1. /\ task'[t].w = task[t].w /\ (\A u \in Tasks \ {t} : task'[u] = task[u])
        /\ ssh' = ssh /\ tunnels' = tunnels /\ task[t].w \in Workers /\ lock[task[t].w] = t
    BY <1>7, Probes DEF EnsureProbe, Locked
  <2>2. \A u \in Tasks \ {t} : task[u].pc \in Inside => task[u].w # task[t].w
    BY <2>1 DEF Locked
  <2>3. CASE task'[t].pc \in {"send", "renew"}
    <3>1. ending' = ending /\ lock' = [lock EXCEPT ![task[t].w] = NoTask]
      BY <1>7, <2>3, Probes
    <3> QED
      BY <2>1, <2>2, <2>3, <3>1 DEF Locked, Alive
  <2>4. CASE task'[t].pc \notin {"send", "renew"}
    <3>1. /\ lock' = lock /\ task'[t].pc = "choose"
          /\ (\A i \in ending : i \in ending') /\ (Alive(task[t].mine) => task[t].mine \in ending')
      BY <1>7, <2>4, Probes
    <3> QED
      BY <1>7, <2>1, <2>2, <2>4, <3>1 DEF EnsureProbe, Locked, Looking, Alive
  <2> QED
    BY <2>3, <2>4
<1>8. ASSUME NEW t \in Tasks, EnsureChoose(t) PROVE \A u \in Tasks : Replacing(u)'
  BY <1>8, Chooses DEF Alive
<1>9. ASSUME NEW t \in Tasks, EnsureSpawn(t) PROVE \A u \in Tasks : Replacing(u)'
  <2>1. PICK i \in Ssh :
          /\ Owner(i) = task[t].w /\ ssh' = [ssh EXCEPT ![i] = [port |-> task[t].base, st |-> "starting"]]
          /\ tunnels' = [tunnels EXCEPT ![task[t].w] = i] /\ task'[t].pc = "wait"
          /\ \A u \in Tasks \ {t} : task'[u] = task[u]
    BY <1>9, Spawns
  <2>2. task[t].pc = "spawn" /\ task[t].w \in Workers /\ lock[task[t].w] = t /\ ending' = ending
    BY <1>9 DEF EnsureSpawn, Locked
  <2>3. ASSUME NEW u \in Tasks \ {t}, task[u].pc \in {"choose", "spawn"}
        PROVE  Replacing(u)'
    <3>1. task[u].w \in Workers /\ task[u].w # task[t].w
      BY <2>2, <2>3 DEF Locked
    <3>2. task'[u] = task[u] /\ tunnels'[task[u].w] = tunnels[task[u].w]
      BY <2>1, <3>1
    <3>3. CASE tunnels[task[u].w] = NoSsh
      BY <2>2, <3>2, <3>3 DEF Alive
    <3>4. CASE tunnels[task[u].w] # NoSsh
      <4>1. tunnels[task[u].w] \in Ssh /\ i[1] # tunnels[task[u].w][1]
        BY <2>1, <3>1, <3>4
      <4>2. ssh'[tunnels[task[u].w]] = ssh[tunnels[task[u].w]]
        BY <2>1, <4>1
      <4> QED
        BY <2>2, <2>3, <3>2, <3>4, <4>2 DEF Alive
    <3> QED
      BY <3>3, <3>4
  <2> QED
    BY <2>1, <2>3
<1>10. ASSUME NEW t \in Tasks, EnsureWait(t) PROVE \A u \in Tasks : Replacing(u)'
  <2>1. /\ task'[t].w = task[t].w /\ (\A u \in Tasks \ {t} : task'[u] = task[u])
        /\ ssh' = ssh /\ tunnels' = tunnels /\ task[t].w \in Workers /\ lock[task[t].w] = t
    BY <1>10, Waits DEF EnsureWait, Locked
  <2>2. \A u \in Tasks \ {t} : task[u].pc \in Inside => task[u].w # task[t].w
    BY <2>1 DEF Locked
  <2>3. CASE task'[t].pc \in {"send", "renew"}
    <3>1. ending' = ending /\ lock' = [lock EXCEPT ![task[t].w] = NoTask]
      BY <1>10, <2>3, Waits
    <3> QED
      BY <2>1, <2>2, <2>3, <3>1 DEF Locked, Alive
  <2>4. CASE task'[t].pc \notin {"send", "renew"}
    <3>1. /\ lock' = lock /\ task'[t].pc = "giveup" /\ task'[t].mine = task[t].mine
          /\ \A i \in ending : i \in ending'
      BY <1>10, <2>4, Waits
    <3> QED
      BY <1>10, <2>1, <2>2, <2>4, <3>1 DEF EnsureWait, Locked, Looking, Alive
  <2> QED
    BY <2>3, <2>4
<1>11. ASSUME NEW t \in Tasks, EnsureGiveUp(t) PROVE \A u \in Tasks : Replacing(u)'
  BY <1>11 DEF EnsureGiveUp, envVars, Idle, Over, Unlock, Alive, TaskType, Locked
<1>12. ASSUME NEW t \in Tasks, RenewClient(t) PROVE \A u \in Tasks : Replacing(u)'
  BY <1>12 DEF RenewClient, linkVars, envVars, Goto, Alive, TaskType, Locked
<1>13. ASSUME NEW t \in Tasks, Send(t) PROVE \A u \in Tasks : Replacing(u)'
  BY <1>13, Sends DEF Alive
<1>14. ASSUME NEW t \in Tasks, Cancel(t) PROVE \A u \in Tasks : Replacing(u)'
  BY <1>14 DEF Cancel, envVars, Idle, Over, Alive, TaskType, Locked
<1>15. ASSUME NEW w \in Workers, RemoveBegin(w) PROVE \A u \in Tasks : Replacing(u)'
  BY <1>15 DEF RemoveBegin, linkVars, Alive, TaskType, Locked
<1>16. ASSUME NEW w \in Workers, RemoveClose(w) PROVE \A u \in Tasks : Replacing(u)'
  BY <1>16 DEF RemoveClose, Ends, Pop, Alive, TaskType, Locked
<1>17. ASSUME NEW w \in Workers, RemoveEnd(w) PROVE \A u \in Tasks : Replacing(u)'
  BY <1>17 DEF RemoveEnd, linkVars, Alive, TaskType, Locked
<1>18. ASSUME NEW w \in Workers, CleanClose(w) PROVE \A u \in Tasks : Replacing(u)'
  BY <1>18 DEF CleanClose, Ends, Pop, Alive, TaskType, Locked
<1>19. ASSUME NEW w \in Workers, CleanLook(w) PROVE \A u \in Tasks : Replacing(u)'
  BY <1>19 DEF CleanLook, linkVars, Tasks, Ssh, Alive, TaskType, Locked
<1>20. ASSUME NEW w \in Workers, CleanForget(w) PROVE \A u \in Tasks : Replacing(u)'
  BY <1>20 DEF CleanForget, linkVars, Tasks, Ssh, Alive, TaskType, Locked
<1>21. ASSUME NEW w \in Workers, VmStalls(w) PROVE \A u \in Tasks : Replacing(u)'
  BY <1>21 DEF VmStalls, linkVars, Take, Alive, TaskType, Locked
<1>22. CASE StopBegin
  BY <1>22 DEF StopBegin, linkVars, Take, Alive, TaskType, Locked
<1>23. CASE StopClose
  BY <1>23 DEF StopClose, Ends, Pop, Tasks, Alive, TaskType, Locked
<1>24. CASE StopDone
  BY <1>24 DEF StopDone, linkVars, Alive, TaskType, Locked
<1> QED
  BY <1>1, <1>2, <1>3, <1>4, <1>5, <1>6, <1>7, <1>8, <1>9, <1>10, <1>11, <1>12,
     <1>13, <1>14, <1>15, <1>16, <1>17, <1>18, <1>19, <1>20, <1>21, <1>22, <1>23, <1>24
     DEF Next, Step, CloseStep

\* Every step keeps the invariant.
LEMMA LinkStep ==
  ASSUME LinksAssumption, LinkInv, [Next]_vars
  PROVE  LinkInv'
<1>1. CASE Next
  BY <1>1, TypeStep, OwnTunnelStep, OwnedStep, StoppedStep, BusiedStep, LockedStep, LookingStep, ReplacingStep
     DEF LinkInv, Steady
<1>2. CASE UNCHANGED vars
  BY <1>2 DEF vars, linkVars, envVars, LinkInv, TypeOK, OwnTunnel, Steady, Busied, Locked, Looking,
              Replacing, Owned, Stopped, Alive, Owner
<1> QED
  BY <1>1, <1>2

\* It holds at the start.
LEMMA LinkStart ==
  ASSUME LinksAssumption, Init
  PROVE  LinkInv
BY DEF Init, LinkInv, TypeOK, TaskType, OwnTunnel, Steady, Busied, Locked, Looking, Replacing, Inside,
       Owned, Stopped, Alive, Idle, Dead, Tasks

\* No ssh process is lost: each is the registered tunnel of its worker or being ended,
\* and none is left when the control plane has stopped, whatever ensure, close, cleanup,
\* cancellation and broken forwards do to each other (SSHTunnelManager.ensure, close,
\* close_all).
THEOREM NoSshLost == Spec => []SshOwned
<1>1. Init => LinkInv
  BY LinksAssumption, LinkStart
<1>2. LinkInv /\ [Next]_vars => LinkInv'
  BY LinksAssumption, LinkStep
<1>3. LinkInv => SshOwned
  BY DEF LinkInv, Owned, Stopped, SshOwned, TypeOK, Alive, Ssh, Owner
<1> QED
  BY <1>1, <1>2, <1>3, PTL DEF Spec
=============================================================================
