--------------------------- MODULE CommandsProofs ---------------------------
(***************************************************************************)
(* Theorems about Commands, for any numbers of killers and subscribers, any  *)
(* limits and any chunks: the result a caller is given is complete, and the  *)
(* command does only what CommandPromise allows.  The argument: the task     *)
(* that drives the command outlives its pump and every finish() but the one  *)
(* of a kill that has seen the task end; the history is numbered without     *)
(* gaps up to the last event, so that a reader's batch is a piece of it; and *)
(* the output the pump has not taken yet is what is missing of the result.   *)
(***************************************************************************)
EXTENDS Commands, SequenceTheorems, WellFoundedInduction, TLAPS

Event == [seq : Nat, type : {"out", "end"}, len : Nat]
Chunk == [type : {"out", "end", "fail"}, n : Nat]

Stages == {"idle", "exec", "pump", "tlook", "clook", "tkill", "ckill", "drain", "wait", "over"}
Procs == {"none", "created", "running", "exited"}
Calls == [pc : {"idle", "answered", "join", "look", "kill", "cancelling", "aborted", "final"}, saw : Procs]
Reader == [pc : {"idle", "look", "yield", "wait", "over"}, next : Nat, batch : Seq(Event)]

DockerOK ==
  /\ proc \in Procs /\ thread \in {"none", "starting", "reading", "over"}
  /\ queue \in Seq(Chunk) /\ written \in Nat
RunOK ==
  /\ status \in {"STARTING", "RUNNING", "KILLED", "EXITED", "TIMED_OUT", "FAILED"}
  /\ done \in BOOLEAN /\ code \in {0, 137, 255} /\ known \in BOOLEAN /\ faults \in Nat
  /\ events \in Seq(Event) /\ seqno \in Nat
DriveOK ==
  /\ drive \in [pc : Stages, late : BOOLEAN, cancelled : BOOLEAN, saw : Procs]
  /\ pump \in {"none", "running", "done", "failed", "cancelled"}
TypeOK ==
  /\ DockerOK /\ RunOK /\ DriveOK
  /\ out \in [head : Nat, tail : Nat, total : Nat]
  /\ kill \in [Killers -> Calls]
  /\ sub \in [Subs -> Reader]

\* Who may still finish the run or write to it.
Ending ==
  /\ done => drive.pc = "over"
  /\ pump = "running" => drive.pc \in {"pump", "tlook", "clook", "tkill", "ckill", "drain"}
  /\ \A k \in Killers : kill[k].pc = "final" => drive.pc = "over"

\* The task waits for the process only when the output is in or the timeout has come.
Waiting ==
  /\ drive.pc \in {"tlook", "tkill", "drain"} => drive.late
  /\ drive.pc = "wait" /\ ~drive.late => pump = "done"
  /\ drive.pc \in {"idle", "exec"} => thread = "none"
  /\ status = "EXITED" => done /\ pump = "done"

\* What ends the queue is its last element, and the pump stops there.
Queued ==
  /\ \A i \in 1..Len(queue) : queue[i].type # "out" => i = Len(queue) /\ thread = "over" /\ queue[i].n = 0
  /\ pump = "done" => queue = <<>> /\ thread = "over"

\* The result is what the pump has taken; with the chunks of the queue, one after the
\* other, it grows to what was written.
Kept ==
  /\ out.head = Least(out.total, Head_)
  /\ out.tail = Least(out.total - out.head, Limit - Head_)
Sums(p) ==
  /\ p[0] = out.total /\ p[Len(queue)] = written
  /\ \A i \in 1..Len(queue) : p[i] = p[i - 1] + queue[i].n
Counted == \E p \in [0..Len(queue) -> Nat] : Sums(p)

\* The history holds the last events, the newest included.
Oldest == IF events = <<>> THEN 0 ELSE Head(events).seq
Numbered ==
  /\ Len(events) <= seqno /\ (events = <<>> => seqno = 0)
  /\ \A i \in 1..Len(events) : events[i].seq = seqno - Len(events) + i - 1

\* A batch is a piece of the events so far, and begins where the reader is or where the
\* history began when it was taken.
BatchOf(s) ==
  LET b == sub[s].batch IN
  /\ b # <<>> /\ b[1].seq >= sub[s].next
  /\ b[1].seq <= Oldest \/ b[1].seq = sub[s].next
  /\ \A i \in 1..Len(b) : b[i].seq = b[1].seq + i - 1 /\ b[i].seq < seqno
Readers == \A s \in Subs : sub[s].next <= seqno /\ (sub[s].pc = "yield" => BatchOf(s))

CommandInv == TypeOK /\ Ending /\ Waiting /\ Queued /\ Kept /\ Counted /\ Numbered /\ Readers

-----------------------------------------------------------------------------
(* Sequences *)

\* Every non-empty set of numbers has a least element (Min of FiniteSetsExt).
LEMMA MinOf ==
  ASSUME NEW S \in SUBSET Nat, S # {}
  PROVE  Min(S) \in S /\ \A y \in S : Min(S) <= y
<1>1. PICK x \in S : \A y \in S : ~(<<y, x>> \in OpToRel(<, Nat))
  BY NatLessThanWellFounded, WFMin
<1>2. \A y \in S : x <= y
  <2> TAKE y \in S
  <2>1. <<y, x>> \notin OpToRel(<, Nat)
    BY <1>1
  <2>2. x \in Nat /\ y \in Nat
    OBVIOUS
  <2>3. ~(y < x)
    BY <2>1, <2>2 DEF OpToRel
  <2> QED
    BY <2>2, <2>3
<1> QED
  BY <1>2 DEF Min

\* The end of a sequence from one of its elements on.
LEMMA EndOf ==
  ASSUME NEW S, NEW q \in Seq(S), NEW i \in 1..Len(q)
  PROVE  /\ SubSeq(q, i, Len(q)) \in Seq(S) /\ SubSeq(q, i, Len(q)) # <<>>
         /\ Len(SubSeq(q, i, Len(q))) = Len(q) - i + 1
         /\ \A j \in 1..(Len(q) - i + 1) : SubSeq(q, i, Len(q))[j] = q[i + j - 1]
<1>1. Len(q) \in Nat
  BY LenProperties
<1>2. i \in 1..(Len(q) + 1) /\ Len(q) \in (i - 1)..Len(q)
  BY <1>1
<1>3. /\ SubSeq(q, i, Len(q)) \in Seq(S)
      /\ Len(SubSeq(q, i, Len(q))) = Len(q) - i + 1
      /\ \A j \in 1..(Len(q) - i + 1) : SubSeq(q, i, Len(q))[j] = q[i + j - 1]
  BY <1>1, <1>2, SubSeqProperties
<1>4. Len(SubSeq(q, i, Len(q))) > 0
  BY <1>1, <1>3
<1>5. Len(<<>>) = 0
  BY EmptySeq
<1>6. SubSeq(q, i, Len(q)) # <<>>
  BY <1>4, <1>5
<1> QED
  BY <1>3, <1>6

\* Trimming keeps the end of the history, the newest event always (_push).
LEMMA TrimmedKeepsEnd ==
  ASSUME NEW es \in Seq(Event), es # <<>>
  PROVE  \E i \in 1..Len(es) : Trimmed(es) = SubSeq(es, i, Len(es))
<1> DEFINE Fit == {i \in 1..Len(es) : i = Len(es) \/ Text(SubSeq(es, i, Len(es))) <= History}
<1>1. Len(es) \in Nat \ {0}
  BY EmptySeq
<1>2. Len(es) \in Fit /\ Fit \in SUBSET Nat
  BY <1>1
<1>3. Min(Fit) \in Fit
  BY <1>2, MinOf
<1>4. Trimmed(es) = SubSeq(es, Min(Fit), Len(es))
  BY DEF Trimmed
<1> QED
  BY <1>3, <1>4

\* Where the history begins.
LEMMA OldestIs ==
  ASSUME events \in Seq(Event), seqno \in Nat, Numbered
  PROVE  Oldest = seqno - Len(events) /\ Oldest \in Nat
<1>1. Len(events) \in Nat
  BY LenProperties
<1>2. CASE events = <<>>
  BY <1>2, EmptySeq DEF Oldest, Numbered
<1>3. CASE events # <<>>
  <2>1. Len(events) > 0 /\ Head(events) = events[1]
    BY <1>1, <1>3, EmptySeq
  <2> QED
    BY <1>1, <1>3, <2>1 DEF Oldest, Numbered
<1> QED
  BY <1>2, <1>3

\* One more event: the numbers go on, and the history still ends with the newest (_push).
LEMMA PushKeeps ==
  ASSUME events \in Seq(Event), seqno \in Nat, Numbered,
         NEW type \in {"out", "end"}, NEW len \in Nat, Push(type, len)
  PROVE  /\ events' \in Seq(Event) /\ seqno' = seqno + 1 /\ Numbered'
         /\ Oldest' \in Nat /\ Oldest' >= Oldest /\ Oldest' <= seqno
<1> DEFINE e == [seq |-> seqno, type |-> type, len |-> len]
           es == Append(events, e)
<1>1. e \in Event /\ Len(events) \in Nat
  BY LenProperties DEF Event
<1>2. /\ es \in Seq(Event) /\ es # <<>> /\ Len(es) = Len(events) + 1
      /\ \A i \in 1..Len(events) : es[i] = events[i]
      /\ es[Len(events) + 1] = e
  BY <1>1, AppendProperties
<1>3. \A i \in 1..Len(es) : es[i].seq = seqno + 1 - Len(es) + i - 1
  BY <1>1, <1>2 DEF Numbered
<1>4. PICK i \in 1..Len(es) : Trimmed(es) = SubSeq(es, i, Len(es))
  BY <1>2, TrimmedKeepsEnd
<1>5. events' = SubSeq(es, i, Len(es)) /\ seqno' = seqno + 1
  BY <1>4 DEF Push
<1> HIDE DEF e, es
<1>6. /\ events' \in Seq(Event) /\ events' # <<>> /\ Len(events') = Len(es) - i + 1
      /\ \A j \in 1..(Len(es) - i + 1) : events'[j] = es[i + j - 1]
  BY <1>2, <1>5, EndOf
<1>7. Numbered'
  <2>1. Len(events') <= seqno'
    BY <1>1, <1>2, <1>5, <1>6 DEF Numbered
  <2>2. \A j \in 1..Len(events') : events'[j].seq = seqno' - Len(events') + j - 1
    <3> TAKE j \in 1..Len(events')
    <3>1. i + j - 1 \in 1..Len(es) /\ events'[j] = es[i + j - 1]
      BY <1>1, <1>2, <1>6
    <3>2. es[i + j - 1].seq = seqno + 1 - Len(es) + (i + j - 1) - 1
      BY <1>3, <3>1
    <3> QED
      BY <1>1, <1>2, <1>5, <1>6, <3>1, <3>2
  <2> QED
    BY <1>6, <2>1, <2>2 DEF Numbered
<1>8. Head(events') = events'[1] /\ events'[1].seq = seqno' - Len(events')
  BY <1>1, <1>2, <1>5, <1>6, <1>7 DEF Numbered
<1>9. Oldest' = seqno' - Len(events')
  BY <1>6, <1>8 DEF Oldest
<1> QED
  BY SMTT(40), <1>1, <1>2, <1>5, <1>6, <1>7, <1>9, OldestIs DEF Numbered

\* notify_all moves no reader.
LEMMA WokenKeeps ==
  ASSUME TypeOK
  PROVE  /\ Woken(sub) \in [Subs -> Reader]
         /\ \A s \in Subs : /\ Woken(sub)[s].next = sub[s].next /\ Woken(sub)[s].batch = sub[s].batch
                            /\ (Woken(sub)[s].pc = "yield") = (sub[s].pc = "yield")
                            /\ (Woken(sub)[s].pc = "idle") = (sub[s].pc = "idle")
<1>1. sub \in [Subs -> Reader]
  BY DEF TypeOK
<1>2. ASSUME NEW s \in Subs
      PROVE  /\ Woken(sub)[s].next = sub[s].next /\ Woken(sub)[s].batch = sub[s].batch
             /\ Woken(sub)[s].pc = (IF sub[s].pc = "wait" THEN "look" ELSE sub[s].pc)
             /\ Woken(sub)[s] \in Reader
  BY <1>1 DEF Woken, Reader
<1>3. Woken(sub) \in [Subs -> Reader]
  BY <1>2 DEF Woken
<1> QED
  BY <1>1, <1>2, <1>3

\* A step leaves the history alone or adds one event.
LEMMA Emits ==
  ASSUME TypeOK, CommandsAssumption, Next
  PROVE  \/ UNCHANGED <<events, seqno>>
         \/ \E type \in {"out", "end"}, len \in Nat : Push(type, len)
<1> DEFINE Goal == \/ UNCHANGED <<events, seqno>>
                  \/ \E type \in {"out", "end"}, len \in Nat : Push(type, len)
<1> SUFFICES Goal
  OBVIOUS
<1>1. CASE ThreadStart
  BY <1>1 DEF ThreadStart, runVars, Fault, NoFault
<1>2. CASE ProcWrites
  BY <1>2 DEF ProcWrites, runVars
<1>3. CASE ProcExits
  BY <1>3 DEF ProcExits, runVars
<1>4. CASE ThreadEnd
  BY <1>4 DEF ThreadEnd, runVars, Fault, NoFault
<1>5. CASE Start
  BY <1>5 DEF Start, Drive, runVars, dockVars
<1>6. CASE Exec
  BY <1>6 DEF Exec, Drive, DriveEnds, Finish, Fault, NoFault
<1>7. CASE DriveStreamed
  BY <1>7 DEF DriveStreamed, Drive, DriveEnds, Finish, NotFinished, Streamed, runVars, dockVars
<1>8. CASE DriveTimeout
  BY <1>8 DEF DriveTimeout, runVars, dockVars
<1>9. CASE DriveLook
  BY <1>9 DEF DriveLook, runVars, dockVars
<1>10. CASE DriveKill
  BY <1>10 DEF DriveKill, Kills, Finish, NotFinished, runVars, Fault, NoFault
<1>11. CASE DriveDrained
  BY <1>11 DEF DriveDrained, Drive, runVars, dockVars
<1>12. CASE DriveWaited
  BY <1>12 DEF DriveWaited, DriveEnds, Finish, GivesUp, dockVars
<1>13. CASE Pump
  <2>1. CASE Head(queue).type = "out"
    <3>1. Head(queue) \in Chunk
      BY <1>13, HeadTailProperties DEF Pump, TypeOK, DockerOK
    <3>2. Head(queue).n \in Nat
      BY <3>1 DEF Chunk
    <3> QED
      BY <1>13, <2>1, <3>2 DEF Pump
  <2>2. CASE Head(queue).type # "out"
    BY <1>13, <2>2 DEF Pump, NotFinished, runVars
  <2> QED
    BY <2>1, <2>2
<1>14. CASE Trim
  BY <1>14 DEF Trim, runVars, dockVars
<1>15. ASSUME NEW k \in Killers, KillBegin(k) PROVE Goal
  BY <1>15 DEF KillBegin, Kill, dockVars
<1>16. ASSUME NEW k \in Killers, KillLook(k) PROVE Goal
  BY <1>16 DEF KillLook, runVars, dockVars
<1>17. ASSUME NEW k \in Killers, KillKill(k) PROVE Goal
  BY <1>17 DEF KillKill, Kills, runVars, Fault, NoFault
<1>18. ASSUME NEW k \in Killers, KillTimeout(k) PROVE Goal
  BY <1>18 DEF KillTimeout, Kill, Cancelled, Drive, runVars, dockVars
<1>19. ASSUME NEW k \in Killers, KillJoined(k) PROVE Goal
  BY <1>19 DEF KillJoined, Kill, runVars, dockVars
<1>20. ASSUME NEW k \in Killers, KillFinal(k) PROVE Goal
  BY <1>20 DEF KillFinal, Kill, Finish, NotFinished, Unfinished, runVars, dockVars
<1>21. ASSUME NEW s \in Subs, SubBegin(s) PROVE Goal
  BY <1>21 DEF SubBegin, runVars, dockVars
<1>22. ASSUME NEW s \in Subs, SubLook(s) PROVE Goal
  BY <1>22 DEF SubLook, runVars, dockVars
<1>23. ASSUME NEW s \in Subs, SubYield(s) PROVE Goal
  BY <1>23 DEF SubYield, runVars, dockVars
<1> QED
  BY <1>1, <1>2, <1>3, <1>4, <1>5, <1>6, <1>7, <1>8, <1>9, <1>10, <1>11, <1>12,
     <1>13, <1>14, <1>15, <1>16, <1>17, <1>18, <1>19, <1>20, <1>21, <1>22, <1>23
     DEF Next, DriveStep, KillStep

\* The history stays numbered, and its beginning only moves on.
LEMMA HistoryStep ==
  ASSUME CommandInv, CommandsAssumption, Next
  PROVE  /\ events' \in Seq(Event) /\ seqno' \in Nat /\ Numbered'
         /\ seqno' >= seqno /\ Oldest' >= Oldest /\ Oldest' \in Nat /\ Oldest \in Nat
<1>1. events \in Seq(Event) /\ seqno \in Nat /\ Numbered
  BY DEF CommandInv, TypeOK, RunOK
<1>2. Oldest \in Nat
  BY <1>1, OldestIs
<1>3. CASE UNCHANGED <<events, seqno>>
  BY <1>1, <1>2, <1>3 DEF Numbered, Oldest
<1>4. CASE \E type \in {"out", "end"}, len \in Nat : Push(type, len)
  BY <1>1, <1>2, <1>4, PushKeeps
<1> QED
  BY <1>3, <1>4, Emits DEF CommandInv

\* The types of Docker's side.
LEMMA DockerStep ==
  ASSUME CommandInv, CommandsAssumption, Next
  PROVE  DockerOK'
<1> USE DEF CommandInv
<1>1. CASE ThreadStart
  <2>1. ASSUME NEW c \in Chunk PROVE Append(queue, c) \in Seq(Chunk)
    BY AppendProperties DEF TypeOK, DockerOK
  <2> QED
    BY <1>1, <2>1 DEF ThreadStart, runVars, Fault, NoFault, TypeOK, DockerOK, Procs, Chunk, CommandsAssumption
<1>2. CASE ProcWrites
  <2>1. PICK n \in ChunkSizes : written' = written + n /\ queue' = Append(queue, [type |-> "out", n |-> n])
    BY <1>2 DEF ProcWrites
  <2>2. n \in Nat /\ [type |-> "out", n |-> n] \in Chunk
    BY DEF CommandsAssumption, Chunk
  <2>3. queue' \in Seq(Chunk) /\ written' \in Nat
    BY <2>1, <2>2, AppendProperties DEF TypeOK, DockerOK
  <2> QED
    BY <1>2, <2>3 DEF ProcWrites, TypeOK, DockerOK
<1>3. CASE ProcExits
  BY <1>3 DEF ProcExits, runVars, TypeOK, DockerOK, Procs
<1>4. CASE ThreadEnd
  <2>1. ASSUME NEW c \in Chunk PROVE Append(queue, c) \in Seq(Chunk)
    BY AppendProperties DEF TypeOK, DockerOK
  <2> QED
    BY <1>4, <2>1 DEF ThreadEnd, runVars, Fault, NoFault, TypeOK, DockerOK, Procs, Chunk, CommandsAssumption
<1>5. CASE Start
  BY <1>5 DEF Start, Drive, runVars, dockVars, TypeOK, DockerOK, Procs
<1>6. CASE Exec
  BY <1>6 DEF Exec, Drive, DriveEnds, Finish, Fault, NoFault, TypeOK, DockerOK, Procs
<1>7. CASE DriveStreamed
  BY <1>7 DEF DriveStreamed, Drive, DriveEnds, Finish, NotFinished, Streamed, runVars, dockVars, TypeOK, DockerOK, Procs
<1>8. CASE DriveTimeout
  BY <1>8 DEF DriveTimeout, runVars, dockVars, TypeOK, DockerOK, Procs
<1>9. CASE DriveLook
  BY <1>9 DEF DriveLook, runVars, dockVars, TypeOK, DockerOK, Procs
<1>10. CASE DriveKill
  BY <1>10 DEF DriveKill, Kills, Finish, NotFinished, runVars, Fault, NoFault, TypeOK, DockerOK, Procs
<1>11. CASE DriveDrained
  BY <1>11 DEF DriveDrained, Drive, runVars, dockVars, TypeOK, DockerOK, Procs
<1>12. CASE DriveWaited
  BY <1>12 DEF DriveWaited, DriveEnds, Finish, GivesUp, dockVars, TypeOK, DockerOK, Procs
<1>13. CASE Pump
  <2>1. queue' \in Seq(Chunk)
    BY <1>13, HeadTailProperties DEF Pump, TypeOK, DockerOK
  <2> QED
    BY <1>13, <2>1 DEF Pump, TypeOK, DockerOK
<1>14. CASE Trim
  BY <1>14 DEF Trim, runVars, dockVars, TypeOK, DockerOK, Procs
<1>15. ASSUME NEW k \in Killers, KillBegin(k) PROVE DockerOK'
  BY <1>15 DEF KillBegin, Kill, dockVars, TypeOK, DockerOK, Procs
<1>16. ASSUME NEW k \in Killers, KillLook(k) PROVE DockerOK'
  BY <1>16 DEF KillLook, runVars, dockVars, TypeOK, DockerOK, Procs
<1>17. ASSUME NEW k \in Killers, KillKill(k) PROVE DockerOK'
  BY <1>17 DEF KillKill, Kills, runVars, Fault, NoFault, TypeOK, DockerOK, Procs
<1>18. ASSUME NEW k \in Killers, KillTimeout(k) PROVE DockerOK'
  BY <1>18 DEF KillTimeout, Kill, Cancelled, Drive, runVars, dockVars, TypeOK, DockerOK, Procs
<1>19. ASSUME NEW k \in Killers, KillJoined(k) PROVE DockerOK'
  BY <1>19 DEF KillJoined, Kill, runVars, dockVars, TypeOK, DockerOK, Procs
<1>20. ASSUME NEW k \in Killers, KillFinal(k) PROVE DockerOK'
  BY <1>20 DEF KillFinal, Kill, Finish, NotFinished, Unfinished, runVars, dockVars, TypeOK, DockerOK, Procs
<1>21. ASSUME NEW s \in Subs, SubBegin(s) PROVE DockerOK'
  BY <1>21 DEF SubBegin, runVars, dockVars, TypeOK, DockerOK, Procs
<1>22. ASSUME NEW s \in Subs, SubLook(s) PROVE DockerOK'
  BY <1>22 DEF SubLook, runVars, dockVars, TypeOK, DockerOK, Procs
<1>23. ASSUME NEW s \in Subs, SubYield(s) PROVE DockerOK'
  BY <1>23 DEF SubYield, runVars, dockVars, TypeOK, DockerOK, Procs
<1> QED
  BY <1>1, <1>2, <1>3, <1>4, <1>5, <1>6, <1>7, <1>8, <1>9, <1>10, <1>11, <1>12,
     <1>13, <1>14, <1>15, <1>16, <1>17, <1>18, <1>19, <1>20, <1>21, <1>22, <1>23
     DEF Next, DriveStep, KillStep

\* The types of the run.
LEMMA RunStep ==
  ASSUME CommandInv, CommandsAssumption, Next
  PROVE  RunOK'
<1> USE DEF CommandInv
<1>e. events' \in Seq(Event) /\ seqno' \in Nat
  BY HistoryStep
<1>1. CASE ThreadStart
  BY <1>1, <1>e DEF ThreadStart, runVars, Fault, NoFault, TypeOK, RunOK
<1>2. CASE ProcWrites
  BY <1>2, <1>e DEF ProcWrites, runVars, TypeOK, RunOK
<1>3. CASE ProcExits
  BY <1>3, <1>e DEF ProcExits, runVars, TypeOK, RunOK
<1>4. CASE ThreadEnd
  BY <1>4, <1>e DEF ThreadEnd, runVars, Fault, NoFault, TypeOK, RunOK
<1>5. CASE Start
  BY <1>5, <1>e DEF Start, Drive, runVars, dockVars, TypeOK, RunOK
<1>6. CASE Exec
  <2>1. CASE NoFault
    BY <1>6, <2>1, <1>e DEF Exec, Drive, DriveEnds, Finish, Fault, NoFault, TypeOK, RunOK
  <2>2. CASE Fault /\ Finish("FAILED", 0)
    BY <1>6, <2>2, <1>e DEF Exec, Drive, DriveEnds, Finish, Fault, NoFault, TypeOK, RunOK
  <2> QED
    BY <1>6, <2>1, <2>2 DEF Exec
<1>7. CASE DriveStreamed
  <2>1. CASE Finish("FAILED", 0)
    BY <1>7, <2>1, <1>e DEF DriveStreamed, Drive, DriveEnds, Finish, NotFinished, Streamed, runVars, dockVars, TypeOK, RunOK
  <2>2. CASE NotFinished
    BY <1>7, <2>2, <1>e DEF DriveStreamed, Drive, DriveEnds, Finish, NotFinished, Streamed, runVars, dockVars, TypeOK, RunOK
  <2> QED
    BY <1>7, <2>1, <2>2 DEF DriveStreamed
<1>8. CASE DriveTimeout
  BY <1>8, <1>e DEF DriveTimeout, runVars, dockVars, TypeOK, RunOK
<1>9. CASE DriveLook
  BY <1>9, <1>e DEF DriveLook, runVars, dockVars, TypeOK, RunOK
<1>10. CASE DriveKill
  <2>1. CASE drive.pc = "tkill"
    BY <1>10, <2>1, <1>e DEF DriveKill, Kills, Finish, NotFinished, runVars, Fault, NoFault, TypeOK, RunOK
  <2>2. CASE drive.pc = "ckill"
    BY <1>10, <2>2, <1>e DEF DriveKill, Kills, Finish, NotFinished, runVars, Fault, NoFault, TypeOK, RunOK
  <2> QED
    BY <1>10, <2>1, <2>2 DEF DriveKill
<1>11. CASE DriveDrained
  BY <1>11, <1>e DEF DriveDrained, Drive, runVars, dockVars, TypeOK, RunOK
<1>12. CASE DriveWaited
  BY ZenonT(60), <1>12, <1>e DEF DriveWaited, DriveEnds, Finish, GivesUp, dockVars, TypeOK, RunOK
<1>13. CASE Pump
  BY <1>13, <1>e DEF Pump, NotFinished, runVars, Push, TypeOK, RunOK
<1>14. CASE Trim
  BY <1>14, <1>e DEF Trim, runVars, dockVars, TypeOK, RunOK
<1>15. ASSUME NEW k \in Killers, KillBegin(k) PROVE RunOK'
  BY <1>15, <1>e DEF KillBegin, Kill, dockVars, TypeOK, RunOK
<1>16. ASSUME NEW k \in Killers, KillLook(k) PROVE RunOK'
  BY <1>16, <1>e DEF KillLook, runVars, dockVars, TypeOK, RunOK
<1>17. ASSUME NEW k \in Killers, KillKill(k) PROVE RunOK'
  BY <1>17, <1>e DEF KillKill, Kills, runVars, Fault, NoFault, TypeOK, RunOK
<1>18. ASSUME NEW k \in Killers, KillTimeout(k) PROVE RunOK'
  BY <1>18, <1>e DEF KillTimeout, Kill, Cancelled, Drive, runVars, dockVars, TypeOK, RunOK
<1>19. ASSUME NEW k \in Killers, KillJoined(k) PROVE RunOK'
  BY <1>19, <1>e DEF KillJoined, Kill, runVars, dockVars, TypeOK, RunOK
<1>20. ASSUME NEW k \in Killers, KillFinal(k) PROVE RunOK'
  <2>1. CASE done
    BY <1>20, <2>1, <1>e DEF KillFinal, Kill, Finish, NotFinished, Unfinished, runVars, dockVars, TypeOK, RunOK
  <2>2. CASE ~done
    BY <1>20, <2>2, <1>e DEF KillFinal, Kill, Finish, NotFinished, Unfinished, runVars, dockVars, TypeOK, RunOK
  <2> QED
    BY <1>20, <2>1, <2>2 DEF KillFinal
<1>21. ASSUME NEW s \in Subs, SubBegin(s) PROVE RunOK'
  BY <1>21, <1>e DEF SubBegin, runVars, dockVars, TypeOK, RunOK
<1>22. ASSUME NEW s \in Subs, SubLook(s) PROVE RunOK'
  BY <1>22, <1>e DEF SubLook, runVars, dockVars, TypeOK, RunOK
<1>23. ASSUME NEW s \in Subs, SubYield(s) PROVE RunOK'
  BY <1>23, <1>e DEF SubYield, runVars, dockVars, TypeOK, RunOK
<1> QED
  BY <1>1, <1>2, <1>3, <1>4, <1>5, <1>6, <1>7, <1>8, <1>9, <1>10, <1>11, <1>12,
     <1>13, <1>14, <1>15, <1>16, <1>17, <1>18, <1>19, <1>20, <1>21, <1>22, <1>23
     DEF Next, DriveStep, KillStep

\* The types of the two tasks.
LEMMA TasksStep ==
  ASSUME CommandInv, CommandsAssumption, Next
  PROVE  DriveOK'
<1> USE DEF CommandInv
<1>1. CASE ThreadStart
  BY <1>1 DEF ThreadStart, runVars, Fault, NoFault, TypeOK, DockerOK, DriveOK, Stages, Procs
<1>2. CASE ProcWrites
  BY <1>2 DEF ProcWrites, runVars, TypeOK, DockerOK, DriveOK, Stages, Procs
<1>3. CASE ProcExits
  BY <1>3 DEF ProcExits, runVars, TypeOK, DockerOK, DriveOK, Stages, Procs
<1>4. CASE ThreadEnd
  BY <1>4 DEF ThreadEnd, runVars, Fault, NoFault, TypeOK, DockerOK, DriveOK, Stages, Procs
<1>5. CASE Start
  BY <1>5 DEF Start, Drive, runVars, dockVars, TypeOK, DockerOK, DriveOK, Stages, Procs
<1>6. CASE Exec
  BY <1>6 DEF Exec, Drive, DriveEnds, Finish, Fault, NoFault, TypeOK, DockerOK, DriveOK, Stages, Procs
<1>7. CASE DriveStreamed
  BY <1>7 DEF DriveStreamed, Drive, DriveEnds, Finish, NotFinished, Streamed, runVars, dockVars, TypeOK, DockerOK, DriveOK, Stages, Procs
<1>8. CASE DriveTimeout
  BY <1>8 DEF DriveTimeout, runVars, dockVars, TypeOK, DockerOK, DriveOK, Stages, Procs
<1>9. CASE DriveLook
  BY <1>9 DEF DriveLook, runVars, dockVars, TypeOK, DockerOK, DriveOK, Stages, Procs
<1>10. CASE DriveKill
  <2>1. CASE drive.pc = "tkill"
    BY <1>10, <2>1 DEF DriveKill, TypeOK, DriveOK, Stages, Procs
  <2>2. CASE drive.pc = "ckill"
    BY <1>10, <2>2 DEF DriveKill, TypeOK, DriveOK, Stages, Procs
  <2> QED
    BY <1>10, <2>1, <2>2 DEF DriveKill
<1>11. CASE DriveDrained
  BY <1>11 DEF DriveDrained, Drive, runVars, dockVars, TypeOK, DockerOK, DriveOK, Stages, Procs
<1>12. CASE DriveWaited
  BY <1>12 DEF DriveWaited, DriveEnds, Finish, GivesUp, dockVars, TypeOK, DockerOK, DriveOK, Stages, Procs
<1>13. CASE Pump
  BY <1>13 DEF Pump, NotFinished, runVars, TypeOK, DockerOK, DriveOK, Stages, Procs
<1>14. CASE Trim
  BY <1>14 DEF Trim, runVars, dockVars, TypeOK, DockerOK, DriveOK, Stages, Procs
<1>15. ASSUME NEW k \in Killers, KillBegin(k) PROVE DriveOK'
  BY <1>15 DEF KillBegin, Kill, dockVars, TypeOK, DockerOK, DriveOK, Stages, Procs
<1>16. ASSUME NEW k \in Killers, KillLook(k) PROVE DriveOK'
  BY <1>16 DEF KillLook, runVars, dockVars, TypeOK, DockerOK, DriveOK, Stages, Procs
<1>17. ASSUME NEW k \in Killers, KillKill(k) PROVE DriveOK'
  BY <1>17 DEF KillKill, Kills, runVars, Fault, NoFault, TypeOK, DockerOK, DriveOK, Stages, Procs
<1>18. ASSUME NEW k \in Killers, KillTimeout(k) PROVE DriveOK'
  BY <1>18 DEF KillTimeout, Kill, Cancelled, Drive, runVars, dockVars, TypeOK, DockerOK, DriveOK, Stages, Procs
<1>19. ASSUME NEW k \in Killers, KillJoined(k) PROVE DriveOK'
  BY <1>19 DEF KillJoined, Kill, runVars, dockVars, TypeOK, DockerOK, DriveOK, Stages, Procs
<1>20. ASSUME NEW k \in Killers, KillFinal(k) PROVE DriveOK'
  BY <1>20 DEF KillFinal, Kill, Finish, NotFinished, Unfinished, runVars, dockVars, TypeOK, DockerOK, DriveOK, Stages, Procs
<1>21. ASSUME NEW s \in Subs, SubBegin(s) PROVE DriveOK'
  BY <1>21 DEF SubBegin, runVars, dockVars, TypeOK, DockerOK, DriveOK, Stages, Procs
<1>22. ASSUME NEW s \in Subs, SubLook(s) PROVE DriveOK'
  BY <1>22 DEF SubLook, runVars, dockVars, TypeOK, DockerOK, DriveOK, Stages, Procs
<1>23. ASSUME NEW s \in Subs, SubYield(s) PROVE DriveOK'
  BY <1>23 DEF SubYield, runVars, dockVars, TypeOK, DockerOK, DriveOK, Stages, Procs
<1> QED
  BY <1>1, <1>2, <1>3, <1>4, <1>5, <1>6, <1>7, <1>8, <1>9, <1>10, <1>11, <1>12,
     <1>13, <1>14, <1>15, <1>16, <1>17, <1>18, <1>19, <1>20, <1>21, <1>22, <1>23
     DEF Next, DriveStep, KillStep

\* The types of the kill requests.
LEMMA KillersStep ==
  ASSUME CommandInv, CommandsAssumption, Next
  PROVE  kill' \in [Killers -> Calls]
<1> USE DEF CommandInv
<1>k. kill \in [Killers -> Calls] /\ proc \in Procs
  BY DEF TypeOK, DockerOK
<1>1. CASE ThreadStart
  BY <1>1, <1>k DEF ThreadStart, runVars, Fault, NoFault, Calls, Procs
<1>2. CASE ProcWrites
  BY <1>2, <1>k DEF ProcWrites, runVars, Calls, Procs
<1>3. CASE ProcExits
  BY <1>3, <1>k DEF ProcExits, runVars, Calls, Procs
<1>4. CASE ThreadEnd
  BY <1>4, <1>k DEF ThreadEnd, runVars, Fault, NoFault, Calls, Procs
<1>5. CASE Start
  BY <1>5, <1>k DEF Start, Drive, runVars, dockVars, Calls, Procs
<1>6. CASE Exec
  BY <1>6, <1>k DEF Exec, Drive, DriveEnds, Finish, Fault, NoFault, Calls, Procs
<1>7. CASE DriveStreamed
  BY <1>7, <1>k DEF DriveStreamed, Drive, DriveEnds, Finish, NotFinished, Streamed, runVars, dockVars, Calls, Procs
<1>8. CASE DriveTimeout
  BY <1>8, <1>k DEF DriveTimeout, runVars, dockVars, Calls, Procs
<1>9. CASE DriveLook
  BY <1>9, <1>k DEF DriveLook, runVars, dockVars, Calls, Procs
<1>10. CASE DriveKill
  BY <1>10, <1>k DEF DriveKill, Kills, Finish, NotFinished, runVars, Fault, NoFault, Calls, Procs
<1>11. CASE DriveDrained
  BY <1>11, <1>k DEF DriveDrained, Drive, runVars, dockVars, Calls, Procs
<1>12. CASE DriveWaited
  BY <1>12, <1>k DEF DriveWaited, DriveEnds, Finish, GivesUp, dockVars, Calls, Procs
<1>13. CASE Pump
  BY <1>13, <1>k DEF Pump, NotFinished, runVars, Calls, Procs
<1>14. CASE Trim
  BY <1>14, <1>k DEF Trim, runVars, dockVars, Calls, Procs
<1>15. ASSUME NEW k \in Killers, KillBegin(k) PROVE kill' \in [Killers -> Calls]
  BY <1>15, <1>k DEF KillBegin, Kill, dockVars, Calls, Procs
<1>16. ASSUME NEW k \in Killers, KillLook(k) PROVE kill' \in [Killers -> Calls]
  BY <1>16, <1>k DEF KillLook, runVars, dockVars, Calls, Procs
<1>17. ASSUME NEW k \in Killers, KillKill(k) PROVE kill' \in [Killers -> Calls]
  BY <1>17, <1>k DEF KillKill, Kills, runVars, Fault, NoFault, Calls, Procs
<1>18. ASSUME NEW k \in Killers, KillTimeout(k) PROVE kill' \in [Killers -> Calls]
  BY <1>18, <1>k DEF KillTimeout, Kill, Cancelled, Drive, runVars, dockVars, Calls, Procs
<1>19. ASSUME NEW k \in Killers, KillJoined(k) PROVE kill' \in [Killers -> Calls]
  BY <1>19, <1>k DEF KillJoined, Kill, runVars, dockVars, Calls, Procs
<1>20. ASSUME NEW k \in Killers, KillFinal(k) PROVE kill' \in [Killers -> Calls]
  BY <1>20, <1>k DEF KillFinal, Kill, Finish, NotFinished, Unfinished, runVars, dockVars, Calls, Procs
<1>21. ASSUME NEW s \in Subs, SubBegin(s) PROVE kill' \in [Killers -> Calls]
  BY <1>21, <1>k DEF SubBegin, runVars, dockVars, Calls, Procs
<1>22. ASSUME NEW s \in Subs, SubLook(s) PROVE kill' \in [Killers -> Calls]
  BY <1>22, <1>k DEF SubLook, runVars, dockVars, Calls, Procs
<1>23. ASSUME NEW s \in Subs, SubYield(s) PROVE kill' \in [Killers -> Calls]
  BY <1>23, <1>k DEF SubYield, runVars, dockVars, Calls, Procs
<1> QED
  BY <1>1, <1>2, <1>3, <1>4, <1>5, <1>6, <1>7, <1>8, <1>9, <1>10, <1>11, <1>12,
     <1>13, <1>14, <1>15, <1>16, <1>17, <1>18, <1>19, <1>20, <1>21, <1>22, <1>23
     DEF Next, DriveStep, KillStep

\* The types of the subscribers.
LEMMA SubsStep ==
  ASSUME CommandInv, CommandsAssumption, Next
  PROVE  sub' \in [Subs -> Reader]
<1> USE DEF CommandInv
<1>s. sub \in [Subs -> Reader] /\ events \in Seq(Event) /\ queue \in Seq(Chunk)
  BY DEF TypeOK, RunOK, DockerOK
<1>w. Woken(sub) \in [Subs -> Reader]
  BY WokenKeeps
<1>1. CASE ThreadStart
  BY <1>1, <1>s, <1>w DEF ThreadStart, runVars, Fault, NoFault
<1>2. CASE ProcWrites
  BY <1>2, <1>s, <1>w DEF ProcWrites, runVars
<1>3. CASE ProcExits
  BY <1>3, <1>s, <1>w DEF ProcExits, runVars
<1>4. CASE ThreadEnd
  BY <1>4, <1>s, <1>w DEF ThreadEnd, runVars, Fault, NoFault
<1>5. CASE Start
  BY <1>5, <1>s, <1>w DEF Start, Drive, runVars, dockVars
<1>6. CASE Exec
  BY <1>6, <1>s, <1>w DEF Exec, Drive, DriveEnds, Finish, Fault, NoFault
<1>7. CASE DriveStreamed
  BY <1>7, <1>s, <1>w DEF DriveStreamed, Drive, DriveEnds, Finish, NotFinished, Streamed, runVars, dockVars
<1>8. CASE DriveTimeout
  BY <1>8, <1>s, <1>w DEF DriveTimeout, runVars, dockVars
<1>9. CASE DriveLook
  BY <1>9, <1>s, <1>w DEF DriveLook, runVars, dockVars
<1>10. CASE DriveKill
  BY <1>10, <1>s, <1>w DEF DriveKill, Kills, Finish, NotFinished, runVars, Fault, NoFault
<1>11. CASE DriveDrained
  BY <1>11, <1>s, <1>w DEF DriveDrained, Drive, runVars, dockVars
<1>12. CASE DriveWaited
  BY <1>12, <1>s, <1>w DEF DriveWaited, DriveEnds, Finish, GivesUp, dockVars
<1>13. CASE Pump
  BY <1>13, <1>s, <1>w DEF Pump, NotFinished, runVars
<1>14. CASE Trim
  BY <1>14, <1>s, <1>w DEF Trim, runVars, dockVars
<1>15. ASSUME NEW k \in Killers, KillBegin(k) PROVE sub' \in [Subs -> Reader]
  BY <1>15, <1>s, <1>w DEF KillBegin, Kill, dockVars
<1>16. ASSUME NEW k \in Killers, KillLook(k) PROVE sub' \in [Subs -> Reader]
  BY <1>16, <1>s, <1>w DEF KillLook, runVars, dockVars
<1>17. ASSUME NEW k \in Killers, KillKill(k) PROVE sub' \in [Subs -> Reader]
  BY <1>17, <1>s, <1>w DEF KillKill, Kills, runVars, Fault, NoFault
<1>18. ASSUME NEW k \in Killers, KillTimeout(k) PROVE sub' \in [Subs -> Reader]
  BY <1>18, <1>s, <1>w DEF KillTimeout, Kill, Cancelled, Drive, runVars, dockVars
<1>19. ASSUME NEW k \in Killers, KillJoined(k) PROVE sub' \in [Subs -> Reader]
  BY <1>19, <1>s, <1>w DEF KillJoined, Kill, runVars, dockVars
<1>20. ASSUME NEW k \in Killers, KillFinal(k) PROVE sub' \in [Subs -> Reader]
  BY <1>20, <1>s, <1>w DEF KillFinal, Kill, Finish, NotFinished, Unfinished, runVars, dockVars
<1>21. ASSUME NEW s \in Subs, SubBegin(s) PROVE sub' \in [Subs -> Reader]
  BY <1>21, <1>s DEF SubBegin, Reader
<1>22. ASSUME NEW s \in Subs, SubLook(s) PROVE sub' \in [Subs -> Reader]
  <2>1. Pending(s) \in Seq(Event)
    <3> DEFINE new == {i \in 1..Len(events) : events[i].seq >= sub[s].next}
    <3>1. new \in SUBSET Nat
      BY <1>s
    <3>2. CASE new = {}
      BY <3>2 DEF Pending
    <3>3. CASE new # {}
      <4>1. Min(new) \in 1..Len(events)
        BY <3>1, <3>3, MinOf
      <4>2. Pending(s) = SubSeq(events, Min(new), Len(events))
        BY <3>3 DEF Pending
      <4> QED
        BY ZenonT(60), <1>s, <4>1, <4>2, EndOf
    <3> QED
      BY <3>2, <3>3
  <2> QED
    BY <1>22, <1>s, <2>1 DEF SubLook, Reader
<1>23. ASSUME NEW s \in Subs, SubYield(s) PROVE sub' \in [Subs -> Reader]
  <2>1. sub[s].batch \in Seq(Event) /\ sub[s].batch # <<>>
    BY <1>23, <1>s DEF SubYield, Reader, Readers, BatchOf
  <2>2. /\ Head(sub[s].batch) \in Event /\ Tail(sub[s].batch) \in Seq(Event)
    BY <2>1, HeadTailProperties
  <2>3. Head(sub[s].batch).seq + 1 \in Nat
    BY <2>2 DEF Event
  <2> QED
    BY <1>23, <1>s, <2>2, <2>3 DEF SubYield, Reader
<1> QED
  BY <1>1, <1>2, <1>3, <1>4, <1>5, <1>6, <1>7, <1>8, <1>9, <1>10, <1>11, <1>12,
     <1>13, <1>14, <1>15, <1>16, <1>17, <1>18, <1>19, <1>20, <1>21, <1>22, <1>23
     DEF Next, DriveStep, KillStep

\* Whoever finishes the run is the last to touch it: the task, or a kill that has seen
\* the task end (kill, _drive).
LEMMA EndingStep ==
  ASSUME CommandInv, CommandsAssumption, Next
  PROVE  Ending'
<1> USE DEF CommandInv
<1>1. CASE ThreadStart
  BY <1>1 DEF ThreadStart, runVars, Fault, NoFault, TypeOK, DriveOK, Calls, Ending, Waiting
<1>2. CASE ProcWrites
  BY <1>2 DEF ProcWrites, runVars, TypeOK, DriveOK, Calls, Ending, Waiting
<1>3. CASE ProcExits
  BY <1>3 DEF ProcExits, runVars, TypeOK, DriveOK, Calls, Ending, Waiting
<1>4. CASE ThreadEnd
  BY <1>4 DEF ThreadEnd, runVars, Fault, NoFault, TypeOK, DriveOK, Calls, Ending, Waiting
<1>5. CASE Start
  BY <1>5 DEF Start, Drive, runVars, dockVars, TypeOK, DriveOK, Calls, Ending, Waiting
<1>6. CASE Exec
  BY <1>6 DEF Exec, Drive, DriveEnds, Finish, Fault, NoFault, TypeOK, DriveOK, Calls, Ending, Waiting
<1>7. CASE DriveStreamed
  BY <1>7 DEF DriveStreamed, Drive, DriveEnds, Finish, NotFinished, Streamed, runVars, dockVars, TypeOK, DriveOK, Calls, Ending, Waiting
<1>8. CASE DriveTimeout
  BY <1>8 DEF DriveTimeout, runVars, dockVars, TypeOK, DriveOK, Calls, Ending, Waiting
<1>9. CASE DriveLook
  BY <1>9 DEF DriveLook, runVars, dockVars, TypeOK, DriveOK, Calls, Ending, Waiting
<1>10. CASE DriveKill
  <2>1. CASE drive.pc = "tkill"
    <3>1. ~done /\ drive'.pc = "drain" /\ UNCHANGED <<done, pump, kill>>
      BY <1>10, <2>1 DEF DriveKill, NotFinished, runVars, TypeOK, DriveOK, Ending
    <3> QED
      BY <2>1, <3>1 DEF Ending
  <2>2. CASE drive.pc = "ckill"
    <3>1. drive'.pc = "over" /\ pump' = "cancelled"
      BY <1>10, <2>2 DEF DriveKill, TypeOK, DriveOK
    <3> QED
      BY <3>1 DEF Ending
  <2> QED
    BY <1>10, <2>1, <2>2 DEF DriveKill
<1>11. CASE DriveDrained
  BY <1>11 DEF DriveDrained, Drive, runVars, dockVars, TypeOK, DriveOK, Calls, Ending, Waiting
<1>12. CASE DriveWaited
  BY <1>12 DEF DriveWaited, DriveEnds, Finish, GivesUp, dockVars, TypeOK, DriveOK, Calls, Ending, Waiting
<1>13. CASE Pump
  BY <1>13 DEF Pump, NotFinished, runVars, TypeOK, DriveOK, Calls, Ending, Waiting
<1>14. CASE Trim
  BY <1>14 DEF Trim, runVars, dockVars, TypeOK, DriveOK, Calls, Ending, Waiting
<1>15. ASSUME NEW k \in Killers, KillBegin(k) PROVE Ending'
  BY <1>15 DEF KillBegin, Kill, dockVars, TypeOK, DriveOK, Calls, Ending, Waiting
<1>16. ASSUME NEW k \in Killers, KillLook(k) PROVE Ending'
  BY <1>16 DEF KillLook, runVars, dockVars, TypeOK, DriveOK, Calls, Ending, Waiting
<1>17. ASSUME NEW k \in Killers, KillKill(k) PROVE Ending'
  BY <1>17 DEF KillKill, Kills, runVars, Fault, NoFault, TypeOK, DriveOK, Calls, Ending, Waiting
<1>18. ASSUME NEW k \in Killers, KillTimeout(k) PROVE Ending'
  BY <1>18 DEF KillTimeout, Kill, Cancelled, Drive, runVars, dockVars, TypeOK, DriveOK, Calls, Ending, Waiting
<1>19. ASSUME NEW k \in Killers, KillJoined(k) PROVE Ending'
  BY <1>19 DEF KillJoined, Kill, runVars, dockVars, TypeOK, DriveOK, Calls, Ending, Waiting
<1>20. ASSUME NEW k \in Killers, KillFinal(k) PROVE Ending'
  BY <1>20 DEF KillFinal, Kill, Finish, NotFinished, Unfinished, runVars, dockVars, TypeOK, DriveOK, Calls, Ending, Waiting
<1>21. ASSUME NEW s \in Subs, SubBegin(s) PROVE Ending'
  BY <1>21 DEF SubBegin, runVars, dockVars, TypeOK, DriveOK, Calls, Ending, Waiting
<1>22. ASSUME NEW s \in Subs, SubLook(s) PROVE Ending'
  BY <1>22 DEF SubLook, runVars, dockVars, TypeOK, DriveOK, Calls, Ending, Waiting
<1>23. ASSUME NEW s \in Subs, SubYield(s) PROVE Ending'
  BY <1>23 DEF SubYield, runVars, dockVars, TypeOK, DriveOK, Calls, Ending, Waiting
<1> QED
  BY <1>1, <1>2, <1>3, <1>4, <1>5, <1>6, <1>7, <1>8, <1>9, <1>10, <1>11, <1>12,
     <1>13, <1>14, <1>15, <1>16, <1>17, <1>18, <1>19, <1>20, <1>21, <1>22, <1>23
     DEF Next, DriveStep, KillStep

\* The task comes to wait for the process with the output, or late (_drive).
LEMMA WaitingStep ==
  ASSUME CommandInv, CommandsAssumption, Next
  PROVE  Waiting'
<1> USE DEF CommandInv
<1>1. CASE ThreadStart
  BY <1>1 DEF ThreadStart, runVars, Fault, NoFault, TypeOK, DriveOK, RunOK, Ending, Waiting
<1>2. CASE ProcWrites
  BY <1>2 DEF ProcWrites, runVars, TypeOK, DriveOK, RunOK, Ending, Waiting
<1>3. CASE ProcExits
  BY <1>3 DEF ProcExits, runVars, TypeOK, DriveOK, RunOK, Ending, Waiting
<1>4. CASE ThreadEnd
  BY <1>4 DEF ThreadEnd, runVars, Fault, NoFault, TypeOK, DriveOK, RunOK, Ending, Waiting
<1>5. CASE Start
  BY <1>5 DEF Start, Drive, runVars, dockVars, TypeOK, DriveOK, RunOK, Ending, Waiting
<1>6. CASE Exec
  BY <1>6 DEF Exec, Drive, DriveEnds, Finish, Fault, NoFault, TypeOK, DriveOK, RunOK, Ending, Waiting
<1>7. CASE DriveStreamed
  BY <1>7 DEF DriveStreamed, Drive, DriveEnds, Finish, NotFinished, Streamed, runVars, dockVars, TypeOK, DriveOK, RunOK, Ending, Waiting
<1>8. CASE DriveTimeout
  BY <1>8 DEF DriveTimeout, runVars, dockVars, TypeOK, DriveOK, RunOK, Ending, Waiting
<1>9. CASE DriveLook
  BY <1>9 DEF DriveLook, runVars, dockVars, TypeOK, DriveOK, RunOK, Ending, Waiting
<1>10. CASE DriveKill
  <2>1. CASE drive.pc = "tkill"
    BY <1>10, <2>1 DEF DriveKill, Kills, Finish, NotFinished, runVars, Fault, NoFault, TypeOK, DriveOK, Ending, Waiting
  <2>2. CASE drive.pc = "ckill"
    <3>1. drive'.pc = "over" /\ status' = "KILLED"
      BY ZenonT(60), <1>10, <2>2 DEF DriveKill, Finish, TypeOK, DriveOK
    <3> QED
      BY <3>1 DEF Waiting
  <2> QED
    BY <1>10, <2>1, <2>2 DEF DriveKill
<1>11. CASE DriveDrained
  BY <1>11 DEF DriveDrained, Drive, runVars, dockVars, TypeOK, DriveOK, RunOK, Ending, Waiting
<1>12. CASE DriveWaited
  BY <1>12 DEF DriveWaited, DriveEnds, Finish, GivesUp, dockVars, TypeOK, DriveOK, RunOK, Ending, Waiting
<1>13. CASE Pump
  BY <1>13 DEF Pump, NotFinished, runVars, TypeOK, DriveOK, RunOK, Ending, Waiting
<1>14. CASE Trim
  BY <1>14 DEF Trim, runVars, dockVars, TypeOK, DriveOK, RunOK, Ending, Waiting
<1>15. ASSUME NEW k \in Killers, KillBegin(k) PROVE Waiting'
  BY <1>15 DEF KillBegin, Kill, dockVars, TypeOK, DriveOK, RunOK, Ending, Waiting
<1>16. ASSUME NEW k \in Killers, KillLook(k) PROVE Waiting'
  BY <1>16 DEF KillLook, runVars, dockVars, TypeOK, DriveOK, RunOK, Ending, Waiting
<1>17. ASSUME NEW k \in Killers, KillKill(k) PROVE Waiting'
  BY <1>17 DEF KillKill, Kills, runVars, Fault, NoFault, TypeOK, DriveOK, RunOK, Ending, Waiting
<1>18. ASSUME NEW k \in Killers, KillTimeout(k) PROVE Waiting'
  <2>1. CASE drive.pc \in {"exec", "wait"}
    BY <1>18, <2>1 DEF KillTimeout, Kill, Cancelled, Drive, runVars, dockVars, TypeOK, DriveOK, Ending, Waiting
  <2>2. CASE drive.pc \in {"pump", "tlook", "tkill"}
    BY <1>18, <2>2 DEF KillTimeout, Kill, Cancelled, Drive, runVars, dockVars, TypeOK, DriveOK, Ending, Waiting
  <2>3. CASE drive.pc \in {"clook", "ckill"}
    BY <1>18, <2>3 DEF KillTimeout, Kill, Cancelled, Drive, runVars, dockVars, TypeOK, DriveOK, Ending, Waiting
  <2>4. CASE drive.pc = "drain"
    BY <1>18, <2>4 DEF KillTimeout, Kill, Cancelled, Drive, runVars, dockVars, TypeOK, DriveOK, Ending, Waiting
  <2> QED
    BY <1>18, <2>1, <2>2, <2>3, <2>4 DEF KillTimeout, Cancelled
<1>19. ASSUME NEW k \in Killers, KillJoined(k) PROVE Waiting'
  BY <1>19 DEF KillJoined, Kill, runVars, dockVars, TypeOK, DriveOK, RunOK, Ending, Waiting
<1>20. ASSUME NEW k \in Killers, KillFinal(k) PROVE Waiting'
  BY <1>20 DEF KillFinal, Kill, Finish, NotFinished, Unfinished, runVars, dockVars, TypeOK, DriveOK, RunOK, Ending, Waiting
<1>21. ASSUME NEW s \in Subs, SubBegin(s) PROVE Waiting'
  BY <1>21 DEF SubBegin, runVars, dockVars, TypeOK, DriveOK, RunOK, Ending, Waiting
<1>22. ASSUME NEW s \in Subs, SubLook(s) PROVE Waiting'
  BY <1>22 DEF SubLook, runVars, dockVars, TypeOK, DriveOK, RunOK, Ending, Waiting
<1>23. ASSUME NEW s \in Subs, SubYield(s) PROVE Waiting'
  BY <1>23 DEF SubYield, runVars, dockVars, TypeOK, DriveOK, RunOK, Ending, Waiting
<1> QED
  BY <1>1, <1>2, <1>3, <1>4, <1>5, <1>6, <1>7, <1>8, <1>9, <1>10, <1>11, <1>12,
     <1>13, <1>14, <1>15, <1>16, <1>17, <1>18, <1>19, <1>20, <1>21, <1>22, <1>23
     DEF Next, DriveStep, KillStep

\* Nothing follows the end of the output, and the pump takes it last (pump, DockerExecHandle).
LEMMA QueuedStep ==
  ASSUME CommandInv, CommandsAssumption, Next
  PROVE  Queued'
<1> USE DEF CommandInv
<1>q. queue \in Seq(Chunk) /\ Len(queue) \in Nat
  BY LenProperties DEF TypeOK, DockerOK
<1>1. CASE ThreadStart
  <2>1. CASE queue' = queue
    BY <1>1, <2>1 DEF ThreadStart, Queued
  <2>2. CASE queue' = Append(queue, [type |-> "fail", n |-> 0]) /\ thread' = "over"
    <3>1. thread # "over" /\ UNCHANGED pump /\ [type |-> "fail", n |-> 0] \in Chunk
      BY <1>1 DEF ThreadStart, Chunk
    <3> QED
      BY <1>q, <2>2, <3>1, AppendProperties DEF Queued
  <2> QED
    BY <1>1, <2>1, <2>2 DEF ThreadStart
<1>2. CASE ProcWrites
  <2>1. PICK c \in Chunk : queue' = Append(queue, c) /\ (c.type # "out" => thread' = "over" /\ c.n = 0)
    BY <1>2 DEF ProcWrites, Chunk, CommandsAssumption
  <2>2. thread # "over" /\ UNCHANGED pump
    BY <1>2 DEF ProcWrites
  <2> QED
    BY <1>q, <2>1, <2>2, AppendProperties DEF Queued
<1>3. CASE ProcExits
  BY <1>3 DEF ProcExits, runVars, TypeOK, DriveOK, Ending, Waiting, Queued
<1>4. CASE ThreadEnd
  <2>1. PICK c \in Chunk : queue' = Append(queue, c) /\ (c.type # "out" => thread' = "over" /\ c.n = 0)
    BY <1>4 DEF ThreadEnd, Chunk, CommandsAssumption
  <2>2. thread # "over" /\ UNCHANGED pump
    BY <1>4 DEF ThreadEnd
  <2> QED
    BY <1>q, <2>1, <2>2, AppendProperties DEF Queued
<1>5. CASE Start
  BY <1>5 DEF Start, Drive, runVars, dockVars, TypeOK, DriveOK, Ending, Waiting, Queued
<1>6. CASE Exec
  BY <1>6 DEF Exec, Drive, DriveEnds, Finish, Fault, NoFault, TypeOK, DriveOK, Ending, Waiting, Queued
<1>7. CASE DriveStreamed
  BY <1>7 DEF DriveStreamed, Drive, DriveEnds, Finish, NotFinished, Streamed, runVars, dockVars, TypeOK, DriveOK, Ending, Waiting, Queued
<1>8. CASE DriveTimeout
  BY <1>8 DEF DriveTimeout, runVars, dockVars, TypeOK, DriveOK, Ending, Waiting, Queued
<1>9. CASE DriveLook
  BY <1>9 DEF DriveLook, runVars, dockVars, TypeOK, DriveOK, Ending, Waiting, Queued
<1>10. CASE DriveKill
  BY <1>10 DEF DriveKill, Queued
<1>11. CASE DriveDrained
  BY <1>11 DEF DriveDrained, Drive, runVars, dockVars, TypeOK, DriveOK, Ending, Waiting, Queued
<1>12. CASE DriveWaited
  BY <1>12 DEF DriveWaited, DriveEnds, Finish, GivesUp, dockVars, TypeOK, DriveOK, Ending, Waiting, Queued
<1>13. CASE Pump
  <2>1. /\ queue # <<>> /\ queue' = Tail(queue) /\ UNCHANGED thread
        /\ pump' \in {"running", "failed", "done"} /\ (pump' = "done" => Head(queue).type = "end")
    BY <1>13 DEF Pump
  <2>2. /\ Len(queue) > 0 /\ Head(queue) = queue[1] /\ Len(queue') = Len(queue) - 1
        /\ \A i \in 1..Len(queue') : queue'[i] = queue[i + 1]
    BY <1>q, <2>1, HeadTailProperties, EmptySeq
  <2>3. ASSUME NEW i \in 1..Len(queue'), queue'[i].type # "out"
        PROVE  i = Len(queue') /\ thread' = "over" /\ queue'[i].n = 0
    <3>1. i + 1 \in 1..Len(queue) /\ queue[i + 1].type # "out"
      BY <1>q, <2>2, <2>3
    <3>2. i + 1 = Len(queue) /\ thread = "over" /\ queue[i + 1].n = 0
      BY <3>1 DEF Queued
    <3>3. i = Len(queue') /\ queue'[i] = queue[i + 1]
      BY <1>q, <2>2, <3>2
    <3> QED
      BY <2>1, <3>2, <3>3
  <2>4. ASSUME pump' = "done" PROVE queue' = <<>> /\ thread' = "over"
    <3>0. 1 \in 1..Len(queue) /\ queue[1].type # "out"
      BY <1>q, <2>1, <2>2, <2>4
    <3>1. 1 = Len(queue) /\ thread = "over"
      BY <3>0 DEF Queued
    <3>2. queue' \in Seq(Chunk) /\ Len(queue') = 0
      BY <1>q, <2>1, <2>2, <3>1, HeadTailProperties
    <3> QED
      BY <2>1, <3>1, <3>2, EmptySeq
  <2> QED
    BY <2>3, <2>4 DEF Queued
<1>14. CASE Trim
  BY <1>14 DEF Trim, runVars, dockVars, TypeOK, DriveOK, Ending, Waiting, Queued
<1>15. ASSUME NEW k \in Killers, KillBegin(k) PROVE Queued'
  BY <1>15 DEF KillBegin, Kill, dockVars, TypeOK, DriveOK, Ending, Waiting, Queued
<1>16. ASSUME NEW k \in Killers, KillLook(k) PROVE Queued'
  BY <1>16 DEF KillLook, runVars, dockVars, TypeOK, DriveOK, Ending, Waiting, Queued
<1>17. ASSUME NEW k \in Killers, KillKill(k) PROVE Queued'
  BY <1>17 DEF KillKill, Kills, runVars, Fault, NoFault, TypeOK, DriveOK, Ending, Waiting, Queued
<1>18. ASSUME NEW k \in Killers, KillTimeout(k) PROVE Queued'
  BY <1>18 DEF KillTimeout, Kill, Cancelled, Drive, runVars, dockVars, TypeOK, DriveOK, Ending, Waiting, Queued
<1>19. ASSUME NEW k \in Killers, KillJoined(k) PROVE Queued'
  BY <1>19 DEF KillJoined, Kill, runVars, dockVars, TypeOK, DriveOK, Ending, Waiting, Queued
<1>20. ASSUME NEW k \in Killers, KillFinal(k) PROVE Queued'
  BY <1>20 DEF KillFinal, Kill, Finish, NotFinished, Unfinished, runVars, dockVars, TypeOK, DriveOK, Ending, Waiting, Queued
<1>21. ASSUME NEW s \in Subs, SubBegin(s) PROVE Queued'
  BY <1>21 DEF SubBegin, runVars, dockVars, TypeOK, DriveOK, Ending, Waiting, Queued
<1>22. ASSUME NEW s \in Subs, SubLook(s) PROVE Queued'
  BY <1>22 DEF SubLook, runVars, dockVars, TypeOK, DriveOK, Ending, Waiting, Queued
<1>23. ASSUME NEW s \in Subs, SubYield(s) PROVE Queued'
  BY <1>23 DEF SubYield, runVars, dockVars, TypeOK, DriveOK, Ending, Waiting, Queued
<1> QED
  BY <1>1, <1>2, <1>3, <1>4, <1>5, <1>6, <1>7, <1>8, <1>9, <1>10, <1>11, <1>12,
     <1>13, <1>14, <1>15, <1>16, <1>17, <1>18, <1>19, <1>20, <1>21, <1>22, <1>23
     DEF Next, DriveStep, KillStep

\* BoundedOutput keeps the first half of the limit from the front and the rest from the
\* back: after n more bytes it holds what it would hold of all of them at once.
LEMMA WriteKeeps ==
  ASSUME CommandsAssumption, NEW o \in [head : Nat, tail : Nat, total : Nat], NEW n \in Nat,
         o.head = Least(o.total, Head_), o.tail = Least(o.total - o.head, Limit - Head_)
  PROVE  /\ Write(o, n).total = o.total + n
         /\ Write(o, n).head = Least(Write(o, n).total, Head_)
         /\ Write(o, n).tail = Least(Write(o, n).total - Write(o, n).head, Limit - Head_)
         /\ Write(o, n) \in [head : Nat, tail : Nat, total : Nat]
<1>1. Limit \in Nat /\ Head_ \in Nat /\ Head_ <= Limit
  BY DEF CommandsAssumption, Head_
<1> DEFINE take == Least(n, Head_ - o.head)
<1>2. /\ Write(o, n).head = o.head + take /\ Write(o, n).total = o.total + n
      /\ Write(o, n).tail = Least(o.tail + n - take, Limit - Head_)
      /\ Write(o, n) = [head |-> o.head + take, tail |-> Least(o.tail + n - take, Limit - Head_), total |-> o.total + n]
  BY DEF Write
<1>3. o.head \in Nat /\ o.tail \in Nat /\ o.total \in Nat
  OBVIOUS
<1>4. o.head + take = Least(o.total + n, Head_) /\ o.head + take \in Nat
  BY <1>1, <1>3 DEF Least
<1>5. /\ Least(o.tail + n - take, Limit - Head_) = Least(o.total + n - (o.head + take), Limit - Head_)
      /\ Least(o.tail + n - take, Limit - Head_) \in Nat
  BY <1>1, <1>3 DEF Least
<1> QED
  BY <1>2, <1>3, <1>4, <1>5

\* What the pump takes, it takes from the queue (pump).
LEMMA PumpTakes ==
  ASSUME CommandInv, CommandsAssumption, Pump
  PROVE  /\ out' \in [head : Nat, tail : Nat, total : Nat] /\ Kept' /\ Counted'
<1> USE DEF CommandInv
<1>1. queue \in Seq(Chunk) /\ queue # <<>> /\ queue' = Tail(queue) /\ UNCHANGED written
  BY DEF Pump, TypeOK, DockerOK
<1>2. /\ Len(queue) \in Nat /\ Len(queue) > 0 /\ Head(queue) = queue[1] /\ Head(queue) \in Chunk
      /\ Len(queue') = Len(queue) - 1 /\ \A i \in 1..Len(queue') : queue'[i] = queue[i + 1]
  BY <1>1, HeadTailProperties, EmptySeq, LenProperties
<1>3. Head(queue).n \in Nat /\ out.total \in Nat
  BY <1>2 DEF Chunk, TypeOK
<1>4. out' \in [head : Nat, tail : Nat, total : Nat] /\ Kept' /\ out'.total = out.total + queue[1].n
  <2>1. CASE Head(queue).type = "out"
    <3>1. out' = Write(out, Head(queue).n)
      BY <2>1 DEF Pump
    <3>2. /\ out \in [head : Nat, tail : Nat, total : Nat]
          /\ out.head = Least(out.total, Head_) /\ out.tail = Least(out.total - out.head, Limit - Head_)
      BY DEF Kept, TypeOK
    <3>3. /\ out'.total = out.total + Head(queue).n /\ out' \in [head : Nat, tail : Nat, total : Nat]
          /\ out'.head = Least(out'.total, Head_) /\ out'.tail = Least(out'.total - out'.head, Limit - Head_)
      BY <1>3, <3>1, <3>2, WriteKeeps
    <3>4. Kept'
      BY <3>3 DEF Kept, Head_
    <3> QED
      BY <1>2, <3>3, <3>4
  <2>2. CASE Head(queue).type # "out"
    <3>1. UNCHANGED out
      BY <2>2 DEF Pump
    <3>2. 1 \in 1..Len(queue) /\ queue[1].type # "out"
      BY <1>2, <2>2
    <3>3. queue[1].n = 0
      BY <3>2 DEF Queued
    <3> QED
      BY <1>3, <3>1, <3>3 DEF Kept, TypeOK
  <2> QED
    BY <2>1, <2>2
<1>5. Counted'
  <2>1. PICK p \in [0..Len(queue) -> Nat] : Sums(p)
    BY DEF Counted
  <2> DEFINE r == [i \in 0..Len(queue') |-> p[i + 1]]
  <2>2. r \in [0..Len(queue') -> Nat]
    BY <1>2
  <2>3. r[0] = out'.total /\ r[Len(queue')] = written'
    BY <1>1, <1>2, <1>4, <2>1 DEF Sums
  <2>4. ASSUME NEW i \in 1..Len(queue') PROVE r[i] = r[i - 1] + queue'[i].n
    <3>1. i + 1 \in 1..Len(queue) /\ r[i] = p[i + 1] /\ r[i - 1] = p[i]
      BY <1>2
    <3>2. p[i + 1] = p[i] + queue[i + 1].n
      BY <1>2, <2>1, <3>1 DEF Sums
    <3> QED
      BY <1>2, <3>1, <3>2
  <2> HIDE DEF r
  <2>5. \E q \in [0..Len(queue') -> Nat] :
          /\ q[0] = out'.total /\ q[Len(queue')] = written'
          /\ \A i \in 1..Len(queue') : q[i] = q[i - 1] + queue'[i].n
    BY <2>2, <2>3, <2>4
  <2> QED
    BY <2>5 DEF Counted, Sums
<1> QED
  BY <1>4, <1>5

\* What the thread reads goes to the end of the queue.
LEMMA QueueGrows ==
  ASSUME CommandInv, NEW c \in Chunk, queue' = Append(queue, c), written' = written + c.n, UNCHANGED out
  PROVE  Counted'
<1>1. queue \in Seq(Chunk) /\ Len(queue) \in Nat /\ written \in Nat /\ c.n \in Nat
  BY LenProperties DEF CommandInv, TypeOK, DockerOK, Chunk
<1>2. PICK p \in [0..Len(queue) -> Nat] : Sums(p)
  BY DEF Counted, CommandInv
<1>3. /\ Len(queue') = Len(queue) + 1 /\ queue'[Len(queue) + 1] = c
      /\ \A i \in 1..Len(queue) : queue'[i] = queue[i]
  BY <1>1, AppendProperties
<1> DEFINE r == [i \in 0..Len(queue') |-> IF i <= Len(queue) THEN p[i] ELSE written']
<1>4. r \in [0..Len(queue') -> Nat]
  BY <1>1, <1>3
<1>5. r[0] = out'.total /\ r[Len(queue')] = written'
  BY <1>1, <1>2, <1>3 DEF Sums
<1>6. ASSUME NEW i \in 1..Len(queue') PROVE r[i] = r[i - 1] + queue'[i].n
  <2>1. CASE i <= Len(queue)
    <3>1. i \in 1..Len(queue) /\ r[i] = p[i] /\ r[i - 1] = p[i - 1] /\ queue'[i] = queue[i]
      BY <1>1, <1>3, <2>1
    <3> QED
      BY <1>2, <3>1 DEF Sums
  <2>2. CASE i = Len(queue) + 1
    BY <1>1, <1>2, <1>3, <2>2 DEF Sums
  <2> QED
    BY <1>1, <1>3, <2>1, <2>2
<1> HIDE DEF r
<1>7. \E q \in [0..Len(queue') -> Nat] :
        /\ q[0] = out'.total /\ q[Len(queue')] = written'
        /\ \A i \in 1..Len(queue') : q[i] = q[i - 1] + queue'[i].n
  BY <1>4, <1>5, <1>6
<1> QED
  BY <1>7 DEF Counted, Sums


\* The result and the queue together are what was written, whatever is done to the run.
LEMMA OutputStep ==
  ASSUME CommandInv, CommandsAssumption, Next
  PROVE  (out' \in [head : Nat, tail : Nat, total : Nat] /\ Kept' /\ Counted')
<1>u. /\ UNCHANGED <<out, queue, written>>
         => out' \in [head : Nat, tail : Nat, total : Nat] /\ Kept' /\ Counted'
      /\ out \in [head : Nat, tail : Nat, total : Nat] /\ Kept /\ Counted
  BY DEF CommandInv, TypeOK, Kept, Counted, Sums
<1>1. CASE ThreadStart
  <2>1. \A ty \in {"end", "fail"} : [type |-> ty, n |-> 0] \in Chunk /\ written = written + [type |-> ty, n |-> 0].n
    BY DEF Chunk, CommandInv, TypeOK, DockerOK
  <2>2. UNCHANGED <<out, written>>
    BY <1>1 DEF ThreadStart
  <2>3. \/ UNCHANGED queue
        \/ \E ty \in {"end", "fail"} : queue' = Append(queue, [type |-> ty, n |-> 0])
    BY <1>1 DEF ThreadStart
  <2>4. CASE \E ty \in {"end", "fail"} : queue' = Append(queue, [type |-> ty, n |-> 0])
    <3>1. Counted'
      BY <2>1, <2>2, <2>4, QueueGrows
    <3> QED
      BY <1>u, <2>2, <3>1 DEF Kept
  <2> QED
    BY <1>u, <2>2, <2>3, <2>4
<1>2. CASE ProcWrites
  <2>1. \/ UNCHANGED <<queue, written>>
        \/ \E c \in Chunk : queue' = Append(queue, c) /\ written' = written + c.n
    BY <1>2 DEF ProcWrites, Chunk, TypeOK, DockerOK, CommandsAssumption
  <2>2. UNCHANGED out
    BY <1>2 DEF ProcWrites
  <2> QED
    BY <1>u, <2>1, <2>2, QueueGrows DEF Kept
<1>3. CASE ProcExits
  BY <1>3, <1>u DEF ProcExits, runVars
<1>4. CASE ThreadEnd
  <2>1. \A ty \in {"end", "fail"} : [type |-> ty, n |-> 0] \in Chunk /\ written = written + [type |-> ty, n |-> 0].n
    BY DEF Chunk, CommandInv, TypeOK, DockerOK
  <2>2. UNCHANGED <<out, written>>
    BY <1>4 DEF ThreadEnd
  <2>3. \/ UNCHANGED queue
        \/ \E ty \in {"end", "fail"} : queue' = Append(queue, [type |-> ty, n |-> 0])
    BY <1>4 DEF ThreadEnd
  <2>4. CASE \E ty \in {"end", "fail"} : queue' = Append(queue, [type |-> ty, n |-> 0])
    <3>1. Counted'
      BY <2>1, <2>2, <2>4, QueueGrows
    <3> QED
      BY <1>u, <2>2, <3>1 DEF Kept
  <2> QED
    BY <1>u, <2>2, <2>3, <2>4
<1>5. CASE Start
  BY <1>5, <1>u DEF Start, Drive, runVars, dockVars
<1>6. CASE Exec
  BY <1>6, <1>u DEF Exec, Drive, DriveEnds, Finish, Fault, NoFault
<1>7. CASE DriveStreamed
  BY <1>7, <1>u DEF DriveStreamed, Drive, DriveEnds, Finish, NotFinished, Streamed, runVars, dockVars
<1>8. CASE DriveTimeout
  BY <1>8, <1>u DEF DriveTimeout, runVars, dockVars
<1>9. CASE DriveLook
  BY <1>9, <1>u DEF DriveLook, runVars, dockVars
<1>10. CASE DriveKill
  BY <1>10, <1>u DEF DriveKill, Kills, Finish, NotFinished, runVars, Fault, NoFault
<1>11. CASE DriveDrained
  BY <1>11, <1>u DEF DriveDrained, Drive, runVars, dockVars
<1>12. CASE DriveWaited
  BY <1>12, <1>u DEF DriveWaited, DriveEnds, Finish, GivesUp, dockVars
<1>13. CASE Pump
  BY <1>13, PumpTakes
<1>14. CASE Trim
  BY <1>14, <1>u DEF Trim, runVars, dockVars
<1>15. ASSUME NEW k \in Killers, KillBegin(k) PROVE (out' \in [head : Nat, tail : Nat, total : Nat] /\ Kept' /\ Counted')
  BY <1>15, <1>u DEF KillBegin, Kill, dockVars
<1>16. ASSUME NEW k \in Killers, KillLook(k) PROVE (out' \in [head : Nat, tail : Nat, total : Nat] /\ Kept' /\ Counted')
  BY <1>16, <1>u DEF KillLook, runVars, dockVars
<1>17. ASSUME NEW k \in Killers, KillKill(k) PROVE (out' \in [head : Nat, tail : Nat, total : Nat] /\ Kept' /\ Counted')
  BY <1>17, <1>u DEF KillKill, Kills, runVars, Fault, NoFault
<1>18. ASSUME NEW k \in Killers, KillTimeout(k) PROVE (out' \in [head : Nat, tail : Nat, total : Nat] /\ Kept' /\ Counted')
  BY <1>18, <1>u DEF KillTimeout, Kill, Cancelled, Drive, runVars, dockVars
<1>19. ASSUME NEW k \in Killers, KillJoined(k) PROVE (out' \in [head : Nat, tail : Nat, total : Nat] /\ Kept' /\ Counted')
  BY <1>19, <1>u DEF KillJoined, Kill, runVars, dockVars
<1>20. ASSUME NEW k \in Killers, KillFinal(k) PROVE (out' \in [head : Nat, tail : Nat, total : Nat] /\ Kept' /\ Counted')
  BY <1>20, <1>u DEF KillFinal, Kill, Finish, NotFinished, Unfinished, runVars, dockVars
<1>21. ASSUME NEW s \in Subs, SubBegin(s) PROVE (out' \in [head : Nat, tail : Nat, total : Nat] /\ Kept' /\ Counted')
  BY <1>21, <1>u DEF SubBegin, runVars, dockVars
<1>22. ASSUME NEW s \in Subs, SubLook(s) PROVE (out' \in [head : Nat, tail : Nat, total : Nat] /\ Kept' /\ Counted')
  BY <1>22, <1>u DEF SubLook, runVars, dockVars
<1>23. ASSUME NEW s \in Subs, SubYield(s) PROVE (out' \in [head : Nat, tail : Nat, total : Nat] /\ Kept' /\ Counted')
  BY <1>23, <1>u DEF SubYield, runVars, dockVars
<1> QED
  BY <1>1, <1>2, <1>3, <1>4, <1>5, <1>6, <1>7, <1>8, <1>9, <1>10, <1>11, <1>12,
     <1>13, <1>14, <1>15, <1>16, <1>17, <1>18, <1>19, <1>20, <1>21, <1>22, <1>23
     DEF Next, DriveStep, KillStep

\* A batch stays a piece of the events: their number only grows, and so does the
\* beginning of the history.
LEMMA ReadersKeep ==
  ASSUME CommandInv, CommandsAssumption, Next, NEW s \in Subs, sub'[s].next = sub[s].next,
         sub'[s].batch = sub[s].batch, sub'[s].pc = "yield" => sub[s].pc = "yield"
  PROVE  sub'[s].next <= seqno' /\ (sub'[s].pc = "yield" => BatchOf(s)')
<1>1. /\ seqno \in Nat /\ seqno' \in Nat /\ seqno' >= seqno
      /\ Oldest' >= Oldest /\ Oldest' \in Nat /\ Oldest \in Nat
  BY HistoryStep DEF CommandInv, TypeOK, RunOK
<1>2. sub[s].next \in Nat /\ sub[s].batch \in Seq(Event) /\ sub[s].next <= seqno
  BY DEF CommandInv, TypeOK, Reader, Readers
<1>3. ASSUME sub'[s].pc = "yield" PROVE BatchOf(s)'
  <2>1. BatchOf(s) /\ Len(sub[s].batch) \in Nat
    BY <1>2, <1>3, LenProperties DEF CommandInv, Readers
  <2>2. ASSUME NEW i \in 1..Len(sub[s].batch) PROVE sub[s].batch[i].seq \in Nat
    <3>1. sub[s].batch[i] \in Event
      BY <1>2, ElementOfSeq
    <3> QED
      BY <3>1 DEF Event
  <2>3. \A i \in 1..Len(sub[s].batch) : sub[s].batch[i].seq < seqno'
    BY SMTT(40), <1>1, <2>1, <2>2 DEF BatchOf
  <2>4. Len(sub[s].batch) > 0
    BY <1>2, <2>1, EmptySeq DEF BatchOf
  <2>5. sub[s].batch[1].seq <= Oldest' \/ sub[s].batch[1].seq = sub[s].next
    BY <1>1, <2>1, <2>2, <2>4 DEF BatchOf
  <2> QED
    BY <2>1, <2>3, <2>5 DEF BatchOf
<1> QED
  BY <1>1, <1>2, <1>3

\* What a subscriber finds begins at the number it expects or, if that is forgotten, with
\* the oldest event (subscribe).
LEMMA PendingIs ==
  ASSUME CommandInv, NEW s \in Subs, Pending(s) # <<>>
  PROVE  /\ Pending(s) \in Seq(Event) /\ Pending(s)[1].seq >= sub[s].next
         /\ Pending(s)[1].seq <= Oldest \/ Pending(s)[1].seq = sub[s].next
         /\ \A i \in 1..Len(Pending(s)) : Pending(s)[i].seq = Pending(s)[1].seq + i - 1 /\ Pending(s)[i].seq < seqno
<1> DEFINE new == {i \in 1..Len(events) : events[i].seq >= sub[s].next}
           m == Min(new)
<1>1. /\ events \in Seq(Event) /\ Len(events) \in Nat /\ seqno \in Nat /\ sub[s].next \in Nat
      /\ Len(events) <= seqno
  BY LenProperties DEF CommandInv, TypeOK, RunOK, Reader, Numbered
<1>2. \A i \in 1..Len(events) : events[i].seq = seqno - Len(events) + i - 1
  BY DEF CommandInv, Numbered
<1>3. new # {} /\ Pending(s) = SubSeq(events, m, Len(events))
  BY DEF Pending
<1>4. m \in new /\ \A j \in new : m <= j
  <2>1. new \in SUBSET Nat
    BY <1>1
  <2> HIDE DEF new
  <2> QED
    BY <1>3, <2>1, MinOf
<1> HIDE DEF m
<1>5. /\ Pending(s) \in Seq(Event) /\ Len(Pending(s)) = Len(events) - m + 1
      /\ \A j \in 1..(Len(events) - m + 1) : Pending(s)[j] = events[m + j - 1]
  <2>1. m \in 1..Len(events)
    BY <1>4
  <2> QED
    BY <1>1, <1>3, <2>1, EndOf
<1>6. ASSUME NEW i \in 1..Len(Pending(s))
      PROVE  Pending(s)[i].seq = seqno - Len(events) + m + i - 2
  <2>1. m + i - 1 \in 1..Len(events) /\ Pending(s)[i] = events[m + i - 1]
    BY SMTT(40), <1>1, <1>4, <1>5
  <2>2. events[m + i - 1].seq = seqno - Len(events) + (m + i - 1) - 1
    BY <1>2, <2>1
  <2> QED
    BY <1>1, <1>4, <2>1, <2>2
<1>7. 1 \in 1..Len(Pending(s))
  BY <1>1, <1>4, <1>5
<1>8. Pending(s)[1].seq = seqno - Len(events) + m - 1 /\ Pending(s)[1].seq = events[m].seq
  BY <1>1, <1>2, <1>4, <1>6, <1>7
<1>9. Pending(s)[1].seq >= sub[s].next
  BY <1>4, <1>8
<1>10. Pending(s)[1].seq <= Oldest \/ Pending(s)[1].seq = sub[s].next
  <2>1. Oldest = seqno - Len(events)
    BY <1>1, OldestIs DEF CommandInv
  <2>2. CASE m = 1
    BY <1>1, <1>8, <2>1, <2>2
  <2>3. CASE m # 1
    <3>1. m - 1 \in 1..Len(events) /\ m - 1 \notin new
      BY <1>1, <1>4, <2>3
    <3>2. ~(events[m - 1].seq >= sub[s].next) /\ events[m - 1].seq = seqno - Len(events) + (m - 1) - 1
      BY <1>2, <3>1
    <3> QED
      BY <1>1, <1>4, <1>8, <1>9, <3>2
  <2> QED
    BY <2>2, <2>3
<1>11. ASSUME NEW i \in 1..Len(Pending(s))
       PROVE  Pending(s)[i].seq = Pending(s)[1].seq + i - 1 /\ Pending(s)[i].seq < seqno
  BY <1>1, <1>4, <1>5, <1>6, <1>8
<1> QED
  BY <1>5, <1>9, <1>10, <1>11

\* The first event of a batch, and what is left of it (subscribe).
LEMMA YieldIs ==
  ASSUME CommandInv, NEW s \in Subs, sub[s].pc = "yield"
  PROVE  LET b == sub[s].batch IN
         /\ Head(b) = b[1] /\ b[1].seq \in Nat /\ b[1].seq >= sub[s].next /\ b[1].seq < seqno
         /\ b[1].seq <= Oldest \/ b[1].seq = sub[s].next
         /\ \A i \in 1..Len(Tail(b)) : Tail(b)[i].seq = b[1].seq + i /\ Tail(b)[i].seq < seqno
         /\ Len(Tail(b)) \in Nat
<1> DEFINE b == sub[s].batch
<1>1. b \in Seq(Event) /\ BatchOf(s) /\ b # <<>>
  BY DEF CommandInv, TypeOK, Reader, Readers, BatchOf
<1>2. /\ Len(b) \in Nat /\ Len(b) > 0 /\ Head(b) = b[1] /\ Len(Tail(b)) = Len(b) - 1
      /\ \A i \in 1..Len(Tail(b)) : Tail(b)[i] = b[i + 1]
  BY <1>1, HeadTailProperties, EmptySeq, LenProperties
<1>3. b[1].seq \in Nat
  <2>1. b[1] \in Event
    BY <1>1, <1>2, ElementOfSeq
  <2> QED
    BY <2>1 DEF Event
<1>4. ASSUME NEW i \in 1..Len(Tail(b)) PROVE Tail(b)[i].seq = b[1].seq + i /\ Tail(b)[i].seq < seqno
  <2>1. i + 1 \in 1..Len(b) /\ Tail(b)[i] = b[i + 1]
    BY <1>2
  <2>2. b[i + 1].seq = b[1].seq + (i + 1) - 1 /\ b[i + 1].seq < seqno
    BY <1>1, <2>1 DEF BatchOf
  <2> QED
    BY <1>3, <2>1, <2>2
<1>5. b[1].seq >= sub[s].next /\ b[1].seq < seqno /\ (b[1].seq <= Oldest \/ b[1].seq = sub[s].next)
  BY <1>1, <1>2 DEF BatchOf
<1> QED
  BY <1>2, <1>3, <1>4, <1>5


\* Readers go forward through what has been emitted.
LEMMA ReadersStep ==
  ASSUME CommandInv, CommandsAssumption, Next
  PROVE  Readers'
<1>w. \A s \in Subs : /\ Woken(sub)[s].next = sub[s].next /\ Woken(sub)[s].batch = sub[s].batch
                     /\ (Woken(sub)[s].pc = "yield") = (sub[s].pc = "yield")
  BY WokenKeeps DEF CommandInv
<1>s. sub \in [Subs -> Reader] /\ seqno \in Nat /\ Readers
  BY DEF CommandInv, TypeOK, RunOK
<1>1. CASE ThreadStart
  <2>1. \A v \in Subs : /\ sub'[v].next = sub[v].next /\ sub'[v].batch = sub[v].batch
                        /\ sub'[v].pc = "yield" => sub[v].pc = "yield"
    BY <1>1, <1>w DEF ThreadStart, runVars, Fault, NoFault
  <2> QED
    BY <2>1, ReadersKeep DEF Readers
<1>2. CASE ProcWrites
  <2>1. \A v \in Subs : /\ sub'[v].next = sub[v].next /\ sub'[v].batch = sub[v].batch
                        /\ sub'[v].pc = "yield" => sub[v].pc = "yield"
    BY <1>2, <1>w DEF ProcWrites, runVars
  <2> QED
    BY <2>1, ReadersKeep DEF Readers
<1>3. CASE ProcExits
  <2>1. \A v \in Subs : /\ sub'[v].next = sub[v].next /\ sub'[v].batch = sub[v].batch
                        /\ sub'[v].pc = "yield" => sub[v].pc = "yield"
    BY <1>3, <1>w DEF ProcExits, runVars
  <2> QED
    BY <2>1, ReadersKeep DEF Readers
<1>4. CASE ThreadEnd
  <2>1. \A v \in Subs : /\ sub'[v].next = sub[v].next /\ sub'[v].batch = sub[v].batch
                        /\ sub'[v].pc = "yield" => sub[v].pc = "yield"
    BY <1>4, <1>w DEF ThreadEnd, runVars, Fault, NoFault
  <2> QED
    BY <2>1, ReadersKeep DEF Readers
<1>5. CASE Start
  <2>1. \A v \in Subs : /\ sub'[v].next = sub[v].next /\ sub'[v].batch = sub[v].batch
                        /\ sub'[v].pc = "yield" => sub[v].pc = "yield"
    BY <1>5, <1>w DEF Start, Drive, runVars, dockVars
  <2> QED
    BY <2>1, ReadersKeep DEF Readers
<1>6. CASE Exec
  <2>1. \A v \in Subs : /\ sub'[v].next = sub[v].next /\ sub'[v].batch = sub[v].batch
                        /\ sub'[v].pc = "yield" => sub[v].pc = "yield"
    BY <1>6, <1>w DEF Exec, Drive, DriveEnds, Finish, Fault, NoFault
  <2> QED
    BY <2>1, ReadersKeep DEF Readers
<1>7. CASE DriveStreamed
  <2>1. \A v \in Subs : /\ sub'[v].next = sub[v].next /\ sub'[v].batch = sub[v].batch
                        /\ sub'[v].pc = "yield" => sub[v].pc = "yield"
    BY <1>7, <1>w DEF DriveStreamed, Drive, DriveEnds, Finish, NotFinished, Streamed, runVars, dockVars
  <2> QED
    BY <2>1, ReadersKeep DEF Readers
<1>8. CASE DriveTimeout
  <2>1. \A v \in Subs : /\ sub'[v].next = sub[v].next /\ sub'[v].batch = sub[v].batch
                        /\ sub'[v].pc = "yield" => sub[v].pc = "yield"
    BY <1>8, <1>w DEF DriveTimeout, runVars, dockVars
  <2> QED
    BY <2>1, ReadersKeep DEF Readers
<1>9. CASE DriveLook
  <2>1. \A v \in Subs : /\ sub'[v].next = sub[v].next /\ sub'[v].batch = sub[v].batch
                        /\ sub'[v].pc = "yield" => sub[v].pc = "yield"
    BY <1>9, <1>w DEF DriveLook, runVars, dockVars
  <2> QED
    BY <2>1, ReadersKeep DEF Readers
<1>10. CASE DriveKill
  <2>1. \A v \in Subs : /\ sub'[v].next = sub[v].next /\ sub'[v].batch = sub[v].batch
                        /\ sub'[v].pc = "yield" => sub[v].pc = "yield"
    BY <1>10, <1>w DEF DriveKill, Kills, Finish, NotFinished, runVars, Fault, NoFault
  <2> QED
    BY <2>1, ReadersKeep DEF Readers
<1>11. CASE DriveDrained
  <2>1. \A v \in Subs : /\ sub'[v].next = sub[v].next /\ sub'[v].batch = sub[v].batch
                        /\ sub'[v].pc = "yield" => sub[v].pc = "yield"
    BY <1>11, <1>w DEF DriveDrained, Drive, runVars, dockVars
  <2> QED
    BY <2>1, ReadersKeep DEF Readers
<1>12. CASE DriveWaited
  <2>1. \A v \in Subs : /\ sub'[v].next = sub[v].next /\ sub'[v].batch = sub[v].batch
                        /\ sub'[v].pc = "yield" => sub[v].pc = "yield"
    BY <1>12, <1>w DEF DriveWaited, DriveEnds, Finish, GivesUp, dockVars
  <2> QED
    BY <2>1, ReadersKeep DEF Readers
<1>13. CASE Pump
  <2>1. \A v \in Subs : /\ sub'[v].next = sub[v].next /\ sub'[v].batch = sub[v].batch
                        /\ sub'[v].pc = "yield" => sub[v].pc = "yield"
    BY <1>13, <1>w DEF Pump, NotFinished, runVars
  <2> QED
    BY <2>1, ReadersKeep DEF Readers
<1>14. CASE Trim
  <2>1. \A v \in Subs : /\ sub'[v].next = sub[v].next /\ sub'[v].batch = sub[v].batch
                        /\ sub'[v].pc = "yield" => sub[v].pc = "yield"
    BY <1>14, <1>w DEF Trim, runVars, dockVars
  <2> QED
    BY <2>1, ReadersKeep DEF Readers
<1>15. ASSUME NEW k \in Killers, KillBegin(k) PROVE Readers'
  <2>1. \A v \in Subs : /\ sub'[v].next = sub[v].next /\ sub'[v].batch = sub[v].batch
                        /\ sub'[v].pc = "yield" => sub[v].pc = "yield"
    BY <1>15, <1>w DEF KillBegin, Kill, dockVars
  <2> QED
    BY <2>1, ReadersKeep DEF Readers
<1>16. ASSUME NEW k \in Killers, KillLook(k) PROVE Readers'
  <2>1. \A v \in Subs : /\ sub'[v].next = sub[v].next /\ sub'[v].batch = sub[v].batch
                        /\ sub'[v].pc = "yield" => sub[v].pc = "yield"
    BY <1>16, <1>w DEF KillLook, runVars, dockVars
  <2> QED
    BY <2>1, ReadersKeep DEF Readers
<1>17. ASSUME NEW k \in Killers, KillKill(k) PROVE Readers'
  <2>1. \A v \in Subs : /\ sub'[v].next = sub[v].next /\ sub'[v].batch = sub[v].batch
                        /\ sub'[v].pc = "yield" => sub[v].pc = "yield"
    BY <1>17, <1>w DEF KillKill, Kills, runVars, Fault, NoFault
  <2> QED
    BY <2>1, ReadersKeep DEF Readers
<1>18. ASSUME NEW k \in Killers, KillTimeout(k) PROVE Readers'
  <2>1. \A v \in Subs : /\ sub'[v].next = sub[v].next /\ sub'[v].batch = sub[v].batch
                        /\ sub'[v].pc = "yield" => sub[v].pc = "yield"
    BY <1>18, <1>w DEF KillTimeout, Kill, Cancelled, Drive, runVars, dockVars
  <2> QED
    BY <2>1, ReadersKeep DEF Readers
<1>19. ASSUME NEW k \in Killers, KillJoined(k) PROVE Readers'
  <2>1. \A v \in Subs : /\ sub'[v].next = sub[v].next /\ sub'[v].batch = sub[v].batch
                        /\ sub'[v].pc = "yield" => sub[v].pc = "yield"
    BY <1>19, <1>w DEF KillJoined, Kill, runVars, dockVars
  <2> QED
    BY <2>1, ReadersKeep DEF Readers
<1>20. ASSUME NEW k \in Killers, KillFinal(k) PROVE Readers'
  <2>1. \A v \in Subs : /\ sub'[v].next = sub[v].next /\ sub'[v].batch = sub[v].batch
                        /\ sub'[v].pc = "yield" => sub[v].pc = "yield"
    BY <1>20, <1>w DEF KillFinal, Kill, Finish, NotFinished, Unfinished, runVars, dockVars
  <2> QED
    BY <2>1, ReadersKeep DEF Readers
<1>21. ASSUME NEW s \in Subs, SubBegin(s) PROVE Readers'
  <2>1. \A v \in Subs : /\ sub'[v].next = sub[v].next /\ sub'[v].batch = sub[v].batch
                        /\ sub'[v].pc = "yield" => sub[v].pc = "yield"
    BY <1>21, <1>s DEF SubBegin, Reader
  <2> QED
    BY <2>1, ReadersKeep DEF Readers
<1>22. ASSUME NEW s \in Subs, SubLook(s) PROVE Readers'
  <2>1. \A v \in Subs \ {s} : sub'[v] = sub[v]
    BY <1>22, <1>s DEF SubLook
  <2>2. \A v \in Subs \ {s} : sub'[v].next <= seqno' /\ (sub'[v].pc = "yield" => BatchOf(v)')
    BY <2>1, ReadersKeep
  <2>3. UNCHANGED <<events, seqno, Oldest>>
    BY <1>22 DEF SubLook, runVars, Oldest
  <2>4. /\ sub'[s].next = sub[s].next /\ sub'[s].batch = Pending(s)
        /\ sub'[s].pc = "yield" => Pending(s) # <<>>
    BY <1>22, <1>s DEF SubLook, Reader
  <2>5. sub'[s].next <= seqno'
    BY <1>s, <2>3, <2>4 DEF Readers
  <2>6. ASSUME sub'[s].pc = "yield" PROVE BatchOf(s)'
    BY <2>3, <2>4, <2>6, PendingIs DEF BatchOf
  <2> QED
    BY <2>2, <2>5, <2>6 DEF Readers
<1>23. ASSUME NEW s \in Subs, SubYield(s) PROVE Readers'
  <2>1. \A v \in Subs \ {s} : sub'[v] = sub[v]
    BY <1>23, <1>s DEF SubYield
  <2>2. \A v \in Subs \ {s} : sub'[v].next <= seqno' /\ (sub'[v].pc = "yield" => BatchOf(v)')
    BY <2>1, ReadersKeep
  <2>3. UNCHANGED <<events, seqno, Oldest>>
    BY <1>23 DEF SubYield, runVars, Oldest
  <2> DEFINE b == sub[s].batch
             c == Tail(b)
  <2>4. /\ Head(b) = b[1] /\ b[1].seq \in Nat /\ b[1].seq >= sub[s].next /\ b[1].seq < seqno
        /\ \A i \in 1..Len(c) : c[i].seq = b[1].seq + i /\ c[i].seq < seqno
        /\ Len(c) \in Nat /\ c \in Seq(Event)
    <3>1. b \in Seq(Event) /\ b # <<>>
      BY <1>23, <1>s DEF SubYield, Reader, Readers, BatchOf
    <3> QED
      BY <1>23, <3>1, YieldIs, HeadTailProperties DEF SubYield
  <2>5. /\ sub'[s].next = b[1].seq + 1 /\ sub'[s].batch = c
        /\ sub'[s].pc = "yield" => c # <<>>
    BY <1>23, <1>s, <2>4 DEF SubYield, Reader
  <2> HIDE DEF c
  <2>6. sub'[s].next <= seqno'
    BY <1>s, <2>3, <2>4, <2>5
  <2>7. ASSUME sub'[s].pc = "yield" PROVE BatchOf(s)'
    <3>1. c # <<>> /\ Len(c) > 0
      BY <2>4, <2>5, <2>7, EmptySeq
    <3>2. c[1].seq = sub'[s].next
      BY <2>4, <2>5, <3>1
    <3>3. ASSUME NEW i \in 1..Len(c)
          PROVE  c[i].seq = c[1].seq + i - 1 /\ c[i].seq < seqno
      <4>1. c[1].seq = b[1].seq + 1
        BY <2>5, <3>2
      <4>2. c[i].seq = b[1].seq + i /\ c[i].seq < seqno
        BY <2>4
      <4> QED
        BY SMTT(40), <2>4, <4>1, <4>2
    <3>4. c[1].seq >= sub'[s].next
      <4>1. sub'[s].next \in Nat
        BY <2>4, <2>5
      <4> QED
        BY <3>2, <4>1
    <3> QED
      BY <2>3, <2>5, <3>1, <3>2, <3>3, <3>4 DEF BatchOf
  <2> QED
    BY <2>2, <2>6, <2>7 DEF Readers
<1> QED
  BY <1>1, <1>2, <1>3, <1>4, <1>5, <1>6, <1>7, <1>8, <1>9, <1>10, <1>11, <1>12,
     <1>13, <1>14, <1>15, <1>16, <1>17, <1>18, <1>19, <1>20, <1>21, <1>22, <1>23
     DEF Next, DriveStep, KillStep

\* The invariant holds when the command has not begun.
LEMMA CommandInit ==
  ASSUME CommandsAssumption, Init
  PROVE  CommandInv
<1>1. TypeOK
  <2>1. DockerOK
    BY DEF Init, DockerOK, Procs
  <2>2. RunOK
    <3>1. MaxFaults \in Nat
      BY DEF CommandsAssumption
    <3>2. done \in BOOLEAN /\ known \in BOOLEAN /\ code \in {0, 137, 255}
      BY DEF Init
    <3>3. events \in Seq(Event) /\ seqno \in Nat /\ faults \in Nat
      BY <3>1, EmptySeq DEF Init
    <3>4. status \in {"STARTING", "RUNNING", "KILLED", "EXITED", "TIMED_OUT", "FAILED"}
      BY DEF Init
    <3> QED
      BY <3>2, <3>3, <3>4 DEF RunOK
  <2>3. DriveOK
    BY DEF Init, DriveOK, Procs, Stages
  <2> QED
    BY <2>1, <2>2, <2>3 DEF Init, TypeOK, Calls, Procs, Reader
<1>2. Ending /\ Waiting /\ Queued
  BY EmptySeq DEF Init, Ending, Waiting, Queued
<1>3. Kept
  BY DEF Init, Kept, Least, Head_, CommandsAssumption
<1>4. Counted
  <2>1. Len(queue) = 0 /\ written = 0 /\ out.total = 0
    BY EmptySeq DEF Init
  <2>2. [i \in 0..0 |-> 0] \in [0..Len(queue) -> Nat] /\ Sums([i \in 0..0 |-> 0])
    BY <2>1 DEF Sums
  <2> QED
    BY <2>2 DEF Counted
<1>5. Numbered /\ Readers
  BY EmptySeq DEF Init, Numbered, Readers
<1> QED
  BY <1>1, <1>2, <1>3, <1>4, <1>5 DEF CommandInv

\* The invariant is kept by every step.
LEMMA CommandStep ==
  ASSUME CommandsAssumption, CommandInv, [Next]_vars
  PROVE  CommandInv'
<1>1. CASE Next
  <2>1. TypeOK'
    BY <1>1, DockerStep, RunStep, TasksStep, KillersStep, SubsStep, OutputStep DEF TypeOK
  <2>2. Ending' /\ Waiting' /\ Queued'
    BY <1>1, EndingStep, WaitingStep, QueuedStep
  <2>3. Kept' /\ Counted' /\ Numbered' /\ Readers'
    BY <1>1, OutputStep, HistoryStep, ReadersStep
  <2> QED
    BY <2>1, <2>2, <2>3 DEF CommandInv
<1>2. CASE UNCHANGED vars
  <2> USE <1>2 DEF vars, runVars, dockVars
  <2>1. TypeOK'
    BY DEF CommandInv, TypeOK, DockerOK, RunOK, DriveOK
  <2>2. Ending' /\ Waiting' /\ Queued'
    BY DEF CommandInv, Ending, Waiting, Queued
  <2>3. Kept' /\ Counted'
    BY DEF CommandInv, Kept, Counted, Sums
  <2>4. Numbered' /\ Readers'
    BY DEF CommandInv, Numbered, Readers, BatchOf, Oldest
  <2> QED
    BY <2>1, <2>2, <2>3, <2>4 DEF CommandInv
<1> QED
  BY <1>1, <1>2

\* CommandInv is an invariant of the command manager.
LEMMA CommandSafe == Spec => []CommandInv
<1>1. Init => CommandInv
  BY CommandsAssumption, CommandInit
<1>2. CommandInv /\ [Next]_vars => CommandInv'
  BY CommandsAssumption, CommandStep
<1> QED
  BY <1>1, <1>2, PTL DEF Spec

\* What a caller is given as the result of a command that exited by itself holds all the
\* process wrote, and as much of it as the limit allows, whatever the limit and whoever
\* races (pump before wait, BoundedOutput).
THEOREM CompleteResult == Spec => []ResultComplete
<1>1. ASSUME CommandInv PROVE ResultComplete
  <2>1. out.total \in Nat /\ out.head \in Nat /\ out.tail \in Nat
    BY <1>1 DEF CommandInv, TypeOK
  <2>2. Limit \in Nat /\ Head_ \in Nat /\ Head_ <= Limit
    BY CommandsAssumption DEF CommandsAssumption, Head_
  <2>3. out.head + out.tail = Least(out.total, Limit)
    BY <1>1, <2>1, <2>2 DEF CommandInv, Kept, Least
  <2>4. ASSUME status = "EXITED" PROVE out.total = written
    <3>1. queue = <<>>
      BY <1>1, <2>4 DEF CommandInv, Waiting, Queued
    <3>2. Len(queue) = 0
      BY <3>1, EmptySeq
    <3> QED
      BY <1>1, <3>2 DEF CommandInv, Counted, Sums
  <2> QED
    BY <2>3, <2>4 DEF ResultComplete
<1>2. CommandInv => ResultComplete
  BY <1>1
<1> QED
  BY <1>2, CommandSafe, PTL

-----------------------------------------------------------------------------
(* The command manager implements CommandPromise *)

\* What CommandPromise sees of the run and of its readers.
Outcome == IF done THEN <<status, code>> ELSE <<>>
Watching == [s \in Subs |-> [on |-> sub[s].pc # "idle", next |-> sub[s].next]]

\* Steps that touch neither the history nor the readers nor a finished run are not seen.
LEMMA Unseen ==
  ASSUME UNCHANGED <<events, seqno, sub, done>>, done => UNCHANGED <<status, code>>
  PROVE  UNCHANGED Of!pvars
BY DEF Of!pvars

\* notify_all is not seen.
LEMMA WokenUnseen ==
  ASSUME TypeOK, sub' = Woken(sub)
  PROVE  UNCHANGED Watching
<1>1. \A s \in Subs : sub'[s].next = sub[s].next /\ (sub'[s].pc = "idle") = (sub[s].pc = "idle")
  BY WokenKeeps
<1> QED
  BY <1>1 DEF Watching

\* finish() gives the command its outcome and its last event.
LEMMA FinishIsEnd ==
  ASSUME CommandInv, ~done, NEW st, NEW c, <<st, c>> \in Of!Outcomes, Finish(st, c)
  PROVE  Of!End
<1>1. events \in Seq(Event) /\ seqno \in Nat /\ Numbered /\ TypeOK
  BY DEF CommandInv, TypeOK, RunOK
<1>2. Push("end", IF st = "EXITED" THEN 0 ELSE 1) /\ (IF st = "EXITED" THEN 0 ELSE 1) \in Nat
  BY DEF Finish
<1>3. seqno' = seqno + 1 /\ Oldest' \in Nat /\ Oldest' >= Oldest /\ Oldest' <= seqno /\ Oldest \in Nat
  BY <1>1, <1>2, PushKeeps, OldestIs
<1>4. Oldest' \in Oldest..seqno
  BY <1>1, <1>3
<1>5. UNCHANGED Watching
  BY <1>1, WokenUnseen DEF Finish
<1>6. Outcome = <<>> /\ Outcome' = <<st, c>>
  BY DEF Finish, Outcome
<1> QED
  BY <1>3, <1>4, <1>5, <1>6 DEF Of!End, Of!Grow, Outcome, Watching, Oldest

\* The pump adds an event to a command that has not ended.
LEMMA PumpIsEmit ==
  ASSUME CommandInv, Pump, Head(queue).type = "out"
  PROVE  Of!Emit
<1>1. events \in Seq(Event) /\ seqno \in Nat /\ Numbered /\ TypeOK /\ queue \in Seq(Chunk) /\ queue # <<>>
  BY DEF CommandInv, TypeOK, RunOK, DockerOK, Pump
<1>2. Head(queue) \in Chunk
  BY <1>1, HeadTailProperties
<1>3. Push("out", Head(queue).n) /\ Head(queue).n \in Nat
  BY <1>2 DEF Pump, Chunk
<1>4. seqno' = seqno + 1 /\ Oldest' \in Nat /\ Oldest' >= Oldest /\ Oldest' <= seqno /\ Oldest \in Nat
  BY <1>1, <1>3, PushKeeps, OldestIs
<1>5. Oldest' \in Oldest..seqno
  BY <1>1, <1>4
<1>6. UNCHANGED Watching
  BY <1>1, WokenUnseen DEF Pump
<1>7. ~done /\ ~done'
  BY DEF CommandInv, Pump, Ending
<1> QED
  BY <1>4, <1>5, <1>6, <1>7 DEF Of!Emit, Of!Grow, Watching, Oldest

\* A subscriber comes.
LEMMA BeginIsCome ==
  ASSUME CommandInv, NEW s \in Subs, SubBegin(s)
  PROVE  Of!Come(s)
<1>1. sub \in [Subs -> Reader] /\ sub[s].pc = "idle"
  BY DEF CommandInv, TypeOK, SubBegin
<1>2. /\ sub'[s].pc = "look" /\ sub'[s].next = sub[s].next /\ \A v \in Subs \ {s} : sub'[v] = sub[v]
  BY <1>1 DEF SubBegin, Reader
<1>3. Watching' = [Watching EXCEPT ![s].on = TRUE] /\ ~Watching[s].on
  BY <1>1, <1>2 DEF Watching
<1>4. UNCHANGED <<events, seqno, done, status, code>>
  BY DEF SubBegin, runVars
<1> QED
  BY <1>3, <1>4 DEF Of!Come, Watching

\* Taking a batch is not seen: only what is handed out is.
LEMMA LookUnseen ==
  ASSUME CommandInv, NEW s \in Subs, SubLook(s)
  PROVE  UNCHANGED Of!pvars
<1>1. sub \in [Subs -> Reader] /\ sub[s].pc = "look"
  BY DEF CommandInv, TypeOK, SubLook
<1>2. /\ sub'[s].pc # "idle" /\ sub'[s].next = sub[s].next /\ \A v \in Subs \ {s} : sub'[v] = sub[v]
  BY <1>1 DEF SubLook, Reader
<1>3. UNCHANGED Watching
  BY <1>1, <1>2 DEF Watching
<1>4. UNCHANGED <<events, seqno, done, status, code>>
  BY DEF SubLook, runVars
<1> QED
  BY <1>3, <1>4 DEF Of!pvars, Watching

\* A subscriber is handed the next event, or the first that has not been forgotten.
LEMMA YieldIsRead ==
  ASSUME CommandInv, NEW s \in Subs, SubYield(s)
  PROVE  Of!Read(s)
<1>1. sub \in [Subs -> Reader] /\ sub[s].pc = "yield" /\ seqno \in Nat /\ sub[s].next \in Nat
  BY DEF CommandInv, TypeOK, RunOK, SubYield, Reader
<1> DEFINE n == sub[s].batch[1].seq
<1>2. /\ Head(sub[s].batch) = sub[s].batch[1] /\ n \in Nat /\ n >= sub[s].next /\ n < seqno
      /\ n <= Oldest \/ n = sub[s].next
  BY <1>1, YieldIs
<1>3. /\ sub'[s].pc # "idle" /\ sub'[s].next = n + 1 /\ \A v \in Subs \ {s} : sub'[v] = sub[v]
  BY <1>1, <1>2 DEF SubYield, Reader
<1> HIDE DEF n
<1>4. Watching' = [Watching EXCEPT ![s].next = n + 1] /\ Watching[s].on /\ Watching[s].next = sub[s].next
  BY <1>1, <1>3 DEF Watching
<1>5. UNCHANGED <<events, seqno, done, status, code>>
  BY DEF SubYield, runVars
<1>6. n \in sub[s].next..(seqno - 1)
  BY <1>1, <1>2
<1>7. n <= (IF Oldest > sub[s].next THEN Oldest ELSE sub[s].next)
  <2>1. Oldest \in Nat
    BY OldestIs DEF CommandInv, TypeOK, RunOK
  <2> QED
    BY <1>1, <1>2, <2>1
<1> QED
  BY <1>4, <1>5, <1>6, <1>7 DEF Of!Read, Watching, Oldest


\* Every step of the command manager is a step of CommandPromise or is not seen there.
LEMMA PromiseStep ==
  ASSUME CommandInv, CommandsAssumption, Next
  PROVE  [Of!Step]_(Of!pvars)
<1> SUFFICES Of!Step \/ UNCHANGED Of!pvars
  OBVIOUS
<1>o. /\ <<"EXITED", 0>> \in Of!Outcomes /\ <<"EXITED", 255>> \in Of!Outcomes /\ <<"KILLED", 137>> \in Of!Outcomes
      /\ <<"TIMED_OUT", 137>> \in Of!Outcomes /\ <<"FAILED", 0>> \in Of!Outcomes
  BY DEF Of!Outcomes
<1>f. ASSUME Finish("FAILED", 0), ~done PROVE Of!End
  BY <1>f, <1>o, FinishIsEnd
<1>k. ASSUME Finish("KILLED", 137), ~done PROVE Of!End
  BY <1>k, <1>o, FinishIsEnd
<1>d. drive.pc # "over" => ~done
  BY DEF CommandInv, Ending
<1>e. Of!End \/ Of!Emit \/ (\E s \in Subs : Of!Come(s) \/ Of!Read(s)) => Of!Step
  BY DEF Of!Step
<1>1. CASE ThreadStart
  BY <1>1, Unseen DEF ThreadStart, runVars, Fault, NoFault
<1>2. CASE ProcWrites
  BY <1>2, Unseen DEF ProcWrites, runVars
<1>3. CASE ProcExits
  BY <1>3, Unseen DEF ProcExits, runVars
<1>4. CASE ThreadEnd
  BY <1>4, Unseen DEF ThreadEnd, runVars, Fault, NoFault
<1>5. CASE Start
  BY <1>5, Unseen DEF Start, Drive, runVars, dockVars
<1>6. CASE Exec
  <2>1. CASE UNCHANGED <<done, code, events, seqno, sub>>
    BY <1>6, <1>d, <2>1, Unseen DEF Exec
  <2>2. CASE Fault /\ Finish("FAILED", 0)
    BY <1>6, <1>d, <1>e, <1>f, <2>2 DEF Exec
  <2> QED
    BY <1>6, <2>1, <2>2 DEF Exec
<1>7. CASE DriveStreamed
  <2>1. CASE NotFinished
    BY <1>7, <2>1, Unseen DEF DriveStreamed, Drive, DriveEnds, Finish, NotFinished, Streamed, runVars, dockVars
  <2>2. CASE Finish("FAILED", 0)
    BY <1>7, <1>d, <1>e, <1>f, <2>2 DEF DriveStreamed
  <2> QED
    BY <1>7, <2>1, <2>2 DEF DriveStreamed
<1>8. CASE DriveTimeout
  BY <1>8, Unseen DEF DriveTimeout, runVars, dockVars
<1>9. CASE DriveLook
  BY <1>9, Unseen DEF DriveLook, runVars, dockVars
<1>10. CASE DriveKill
  <2>1. CASE NotFinished
    BY <1>10, <2>1, Unseen DEF DriveKill, Kills, Finish, NotFinished, runVars, Fault, NoFault
  <2>2. CASE Finish("KILLED", 137)
    BY <1>10, <1>d, <1>e, <1>k, <2>2 DEF DriveKill
  <2> QED
    BY <1>10, <2>1, <2>2 DEF DriveKill
<1>11. CASE DriveDrained
  BY <1>11, Unseen DEF DriveDrained, Drive, runVars, dockVars
<1>12. CASE DriveWaited
  <2>1. ~done
    BY <1>12, <1>d DEF DriveWaited
  <2>2. \/ Finish("TIMED_OUT", 137) \/ Finish("KILLED", 137)
        \/ Finish("EXITED", 0) \/ Finish("EXITED", 255)
    BY <1>12 DEF DriveWaited
  <2>3. ASSUME Finish("TIMED_OUT", 137) PROVE Of!End
    BY <1>o, <2>1, <2>3, FinishIsEnd
  <2>4. ASSUME Finish("EXITED", 0) PROVE Of!End
    BY <1>o, <2>1, <2>4, FinishIsEnd
  <2>5. ASSUME Finish("EXITED", 255) PROVE Of!End
    BY <1>o, <2>1, <2>5, FinishIsEnd
  <2> QED
    BY <1>e, <1>k, <2>1, <2>2, <2>3, <2>4, <2>5
<1>13. CASE Pump
  <2>1. CASE Head(queue).type = "out"
    BY <1>13, <1>e, <2>1, PumpIsEmit
  <2>2. CASE Head(queue).type # "out"
    BY <1>13, <2>2, Unseen DEF Pump, NotFinished, runVars
  <2> QED
    BY <2>1, <2>2
<1>14. CASE Trim
  BY <1>14, Unseen DEF Trim, runVars, dockVars
<1>15. ASSUME NEW k \in Killers, KillBegin(k) PROVE Of!Step \/ UNCHANGED Of!pvars
  BY <1>15, Unseen DEF KillBegin, Kill, dockVars
<1>16. ASSUME NEW k \in Killers, KillLook(k) PROVE Of!Step \/ UNCHANGED Of!pvars
  BY <1>16, Unseen DEF KillLook, runVars, dockVars
<1>17. ASSUME NEW k \in Killers, KillKill(k) PROVE Of!Step \/ UNCHANGED Of!pvars
  BY <1>17, Unseen DEF KillKill, Kills, runVars, Fault, NoFault
<1>18. ASSUME NEW k \in Killers, KillTimeout(k) PROVE Of!Step \/ UNCHANGED Of!pvars
  BY <1>18, Unseen DEF KillTimeout, Kill, Cancelled, Drive, runVars, dockVars
<1>19. ASSUME NEW k \in Killers, KillJoined(k) PROVE Of!Step \/ UNCHANGED Of!pvars
  BY <1>19, Unseen DEF KillJoined, Kill, runVars, dockVars
<1>20. ASSUME NEW k \in Killers, KillFinal(k) PROVE Of!Step \/ UNCHANGED Of!pvars
  <2>1. CASE done
    BY <1>20, <2>1, Unseen DEF KillFinal, Kill, Finish, NotFinished, Unfinished, runVars, dockVars
  <2>2. CASE ~done
    BY <1>20, <1>e, <1>k, <2>2 DEF KillFinal, Unfinished
  <2> QED
    BY <2>1, <2>2
<1>21. ASSUME NEW s \in Subs, SubBegin(s) PROVE Of!Step \/ UNCHANGED Of!pvars
  BY <1>21, <1>e, BeginIsCome
<1>22. ASSUME NEW s \in Subs, SubLook(s) PROVE Of!Step \/ UNCHANGED Of!pvars
  BY <1>22, LookUnseen
<1>23. ASSUME NEW s \in Subs, SubYield(s) PROVE Of!Step \/ UNCHANGED Of!pvars
  BY <1>23, <1>e, YieldIsRead
<1> QED
  BY <1>1, <1>2, <1>3, <1>4, <1>5, <1>6, <1>7, <1>8, <1>9, <1>10, <1>11, <1>12,
     <1>13, <1>14, <1>15, <1>16, <1>17, <1>18, <1>19, <1>20, <1>21, <1>22, <1>23
     DEF Next, DriveStep, KillStep

\* The command manager does only what CommandPromise allows: one outcome, whoever sets it
\* first, no event after the end, a history that forgets from its beginning and never its
\* newest event, readers that go forward and skip only what has been forgotten.
THEOREM StaysWithinPromise == Spec => Of!SafePromise
<1>1. ASSUME Init PROVE Of!Begin
  <2>1. done = FALSE /\ events = <<>> /\ seqno = 0
    BY <1>1 DEF Init
  <2>2. Watching = [s \in Subs |-> [on |-> FALSE, next |-> 0]]
    BY <1>1 DEF Init, Watching
  <2> QED
    BY <2>1, <2>2 DEF Of!Begin, Watching
<1>2. CommandInv /\ [Next]_vars => [Of!Step]_(Of!pvars)
  <2>1. ASSUME CommandInv, Next PROVE [Of!Step]_(Of!pvars)
    BY <2>1, CommandsAssumption, PromiseStep
  <2>2. ASSUME UNCHANGED vars PROVE UNCHANGED Of!pvars
    BY <2>2, Unseen DEF vars, runVars, dockVars
  <2> QED
    BY <2>1, <2>2
<1> QED
  BY <1>1, <1>2, CommandSafe, PTL DEF Spec, Of!SafePromise

=============================================================================
