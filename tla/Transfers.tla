------------------------------ MODULE Transfers ------------------------------
(***************************************************************************)
(* Files, commands and pages between a caller and a sandbox.  A download is  *)
(* a tar process in the sandbox (or docker cp), the worker's handler that    *)
(* unpacks it, the control plane's that passes it on, and the SDK; the       *)
(* events or the result of a command and a page of a program behind the      *)
(* proxy take the same way.  An upload goes the other way and ends in a tar  *)
(* process that reads what the worker has spooled.  Content is a sequence of *)
(* blocks; each of the two connections may break.                            *)
(***************************************************************************)
EXTENDS Integers, Sequences, SequencesExt

CONSTANTS
  Loads,      \* what is transferred and what goes wrong, one of these
  QueueSize   \* of the queue that the docker cp thread fills

Files == {"file", "dir", "missing"}
Commands == {"run", "events"}
Kinds == Files \union Commands \union {"write", "page"}

ASSUME TransfersAssumption ==
  /\ Loads \subseteq [kind : Kinds, n : Nat, limit : Nat, tar : BOOLEAN, made : BOOLEAN,
                      fails : Nat, cuts : Nat, slow : Nat]
  /\ QueueSize \in Nat \ {0}

VARIABLES
  sdk,      \* the call: where it is, its second request (archive=true of a directory, the
            \* stream of a command that has been started), what it has received, its result
  http,     \* the connections to the control plane ("api") and to the worker ("worker")
  control, worker,   \* the two request handlers
  source,   \* what produces the bytes: where it is, how far, its exit code
  queue,    \* between the thread that reads it and the worker's event loop
  upload,   \* blocks that have left the SDK, the control plane, and that are spooled
  mkdir, file,       \* in the sandbox
  left      \* the load; of its troubles what is left

vars == <<sdk, http, control, worker, source, queue, upload, mkdir, file, left>>
flow == <<source, queue>>
sandboxVars == <<mkdir, file>>

Take(what) == left[what] > 0 /\ left' = [left EXCEPT ![what] = @ - 1]
Conns == {"api", "worker"}
Writing == left.kind = "write"
Reading == left.kind \in Files
Starting == left.kind = "events" /\ ~sdk.again
Streaming == left.kind = "events" /\ sdk.again

Dir == <<"dir", 0>>
File(n) == <<"file", n>>
Block(i) == <<"block", i>>
End == <<"end", 0>>
Exit == <<"exit", 0>>
Blocks(n) == [i \in 1..n |-> Block(i)]
Entries(n) == [i \in 1..(2 * n) |-> IF i % 2 = 1 THEN File(1) ELSE Block(i \div 2)]

\* What the source emits.  A directory is an entry of its own and then its files.
Stream ==
  CASE left.kind = "file" -> <<File(left.n)>> \o Blocks(left.n) \o <<End>>
    [] left.kind = "dir" -> <<Dir>> \o Entries(left.n) \o <<End>>
    [] left.kind = "events" -> Blocks(left.n) \o <<Exit>>
    [] left.kind = "run" -> <<Exit>>
    [] left.kind = "page" -> Blocks(left.n)
    [] OTHER -> <<>>

-----------------------------------------------------------------------------
(* A connection: what is under way, and how its answer ends *)

Closed == [q |-> <<>>, st |-> "closed", why |-> ""]
Asked == [Closed EXCEPT !.st = "open"]
Put(h, x) == [h EXCEPT !.q = Append(@, x)]
Ends(h, how) == [h EXCEPT !.st = how]
\* An error before the response has begun is a status code, later it aborts the body.
Errs(h, begun, why) == [h EXCEPT !.st = IF begun THEN "abort" ELSE "error", !.why = why]

SetHttp(c, h) == http' = [http EXCEPT ![c] = h]
Gone(c) == http[c].st = "abort"

-----------------------------------------------------------------------------
(* SDK: read, download, write; run, stream; a browser *)

Asks ==
  /\ sdk.pc = "ask" /\ sdk' = [sdk EXCEPT !.pc = "wait", !.got = <<>>]
  /\ SetHttp("api", Asked) /\ control' = [pc |-> "start", seen |-> 0, begun |-> FALSE]
  /\ UNCHANGED <<worker, flow, upload, sandboxVars, left>>
AskFile == (Reading \/ Writing) /\ Asks
AskCommand == left.kind \in Commands /\ Asks
AskPage == left.kind = "page" /\ Asks

Again == sdk' = [sdk EXCEPT !.pc = "ask", !.again = TRUE]
Result(res) == sdk' = [sdk EXCEPT !.pc = "done", !.res = res]
\* _extract_directory: tarfile takes an archive that stops between two members for whole.
Extracts(got) == got # <<>> /\ Last(got)[1] # "file"
Receive ==
  LET h == http["api"] IN
  /\ sdk.pc = "wait"
  /\ \/ /\ h.q # <<>> /\ sdk' = [sdk EXCEPT !.got = Append(@, Head(h.q))]
        /\ SetHttp("api", [h EXCEPT !.q = Tail(@)])
     \/ /\ h.q = <<>> /\ h.st = "eof" /\ UNCHANGED http
        /\ IF Starting THEN Again ELSE Result(IF left.kind = "dir" => Extracts(sdk.got) THEN "ok" ELSE "error")
     \/ /\ h.q = <<>> /\ h.st \in {"error", "abort"} /\ UNCHANGED http
        /\ IF h.why = "is_directory" /\ h.st = "error" THEN Again ELSE Result("error")
  /\ UNCHANGED <<control, worker, flow, upload, sandboxVars, left>>

SendBody ==
  /\ sdk.pc = "wait" /\ Writing /\ http["api"].st = "open" /\ upload.sdk < left.n
  /\ upload' = [upload EXCEPT !.sdk = @ + 1]
  /\ UNCHANGED <<sdk, http, control, worker, flow, sandboxVars, left>>

-----------------------------------------------------------------------------
(* Control plane: api/routes, WorkerClient *)

\* The sandbox runs and its worker has a client, or the request is refused.
Forwards(begun) ==
  \/ /\ control' = [control EXCEPT !.pc = "pass", !.begun = begun] /\ SetHttp("worker", Asked)
     /\ worker' = [pc |-> "start", seen |-> 0, begun |-> sdk.again, rest |-> -1] /\ UNCHANGED left
  \/ /\ Take("fails") /\ control' = [control EXCEPT !.pc = "over"] /\ UNCHANGED worker
     /\ SetHttp("api", Errs(http["api"], begun \/ Gone("api"), "refused"))
ControlOnly == UNCHANGED <<sdk, flow, upload, sandboxVars>>

\* The declared size is checked.
ControlUpload ==
  /\ control.pc = "start" /\ Writing
  /\ \/ left.n <= left.limit /\ Forwards(FALSE)
     \/ /\ left.n > left.limit /\ control' = [control EXCEPT !.pc = "over"] /\ UNCHANGED <<worker, left>>
        /\ SetHttp("api", Errs(http["api"], Gone("api"), "limit"))
  /\ ControlOnly
ControlDownload == control.pc = "start" /\ Reading /\ Forwards(FALSE) /\ ControlOnly
ControlCommand ==
  control.pc = "start" /\ (left.kind = "run" \/ Starting) /\ Forwards(FALSE) /\ ControlOnly
\* The answer has begun before anything is known.
ControlStream == control.pc = "start" /\ Streaming /\ Forwards(TRUE) /\ ControlOnly
ControlPage == control.pc = "start" /\ left.kind = "page" /\ Forwards(FALSE) /\ ControlOnly

\* The first chunk is waited for before the answer begins, and passes whatever the limit.
ControlPass ==
  LET h == http["worker"]
      over == control.seen > 0 /\ control.seen + 1 > left.limit /\ Reading IN
  /\ control.pc = "pass" /\ ~Gone("api")
  /\ \/ /\ h.q # <<>> /\ ~over /\ control' = [control EXCEPT !.seen = @ + 1, !.begun = TRUE]
        /\ http' = [http EXCEPT !["worker"].q = Tail(@), !["api"] = Put(@, Head(h.q))]
     \/ /\ h.q # <<>> /\ over /\ control' = [control EXCEPT !.pc = "over"]
        /\ http' = [http EXCEPT !["worker"] = Ends(@, "abort"), !["api"] = Errs(@, TRUE, "limit")]
     \/ /\ h.q = <<>> /\ h.st = "eof" /\ control' = [control EXCEPT !.pc = "over"]
        /\ http' = [http EXCEPT !["api"] = Ends(@, "eof")]
     \/ /\ h.q = <<>> /\ h.st \in {"error", "abort"} /\ control' = [control EXCEPT !.pc = "over"]
        /\ http' = [http EXCEPT !["api"] = Errs(@, control.begun, IF h.st = "error" THEN h.why ELSE "unavailable")]
  /\ UNCHANGED <<sdk, worker, flow, upload, sandboxVars, left>>

PassBody ==
  /\ control.pc = "pass" /\ Writing /\ http["worker"].st = "open" /\ upload.control < upload.sdk
  /\ upload' = [upload EXCEPT !.control = @ + 1]
  /\ UNCHANGED <<sdk, http, control, worker, flow, sandboxVars, left>>

\* The caller has gone.  An answer that has begun is cancelled, and the request to the
\* worker with it; a handler that waits for the worker finds out afterwards; one that reads
\* the body, at once.
ControlGone ==
  LET h == http["worker"] IN
  /\ control.pc = "pass" /\ Gone("api") /\ control' = [control EXCEPT !.pc = "over"]
  /\ control.begun \/ h.st # "open" \/ h.q # <<>> \/ (Writing /\ upload.control < left.n)
  /\ SetHttp("worker", IF h.st = "open" THEN Ends(h, "abort") ELSE h)
  /\ UNCHANGED <<sdk, worker, flow, upload, sandboxVars, left>>

-----------------------------------------------------------------------------
(* Worker, downloads: worker/app.py, utils/tarstream.py *)

SourceStarts ==
  /\ source' = [pc |-> "run", at |-> 0, code |-> 0, full |-> FALSE, twice |-> source.twice] /\ queue' = <<>>
WorkerOnly == UNCHANGED <<sdk, control, upload, sandboxVars>>

WorkerDownload ==
  /\ worker.pc = "start" /\ Reading /\ worker' = [worker EXCEPT !.pc = "pull"]
  /\ SourceStarts /\ WorkerOnly /\ UNCHANGED <<http, left>>
WorkerStream ==
  /\ worker.pc = "start" /\ Streaming /\ worker' = [worker EXCEPT !.pc = "pull"]
  /\ WorkerOnly /\ UNCHANGED <<flow, http, left>>
\* svc.endpoint, then the program itself.
WorkerPage ==
  /\ worker.pc = "start" /\ left.kind = "page" /\ worker' = [worker EXCEPT !.pc = "pull"]
  /\ SourceStarts /\ WorkerOnly /\ UNCHANGED <<http, left>>

WorkerEnds(h) == worker' = [worker EXCEPT !.pc = "over"] /\ SetHttp("worker", h)
WorkerAnswers(h) == WorkerEnds(IF Gone("worker") THEN http["worker"] ELSE h)
\* run_command waits for the end; start_command answers at once.
WorkerCommand ==
  /\ worker.pc = "start" /\ (left.kind = "run" \/ Starting) /\ SourceStarts
  /\ IF Starting THEN WorkerAnswers(Ends(http["worker"], "eof"))
     ELSE worker' = [worker EXCEPT !.pc = "pull"] /\ UNCHANGED http
  /\ WorkerOnly /\ UNCHANGED left

\* The worker does not know the sandbox or it is not RUNNING, there is no such command.
WorkerRefuses ==
  /\ worker.pc = "start" /\ Take("fails") /\ WorkerAnswers(Errs(http["worker"], FALSE, "refused"))
  /\ WorkerOnly /\ UNCHANGED flow

\* A plain read is unpacked by first_regular_file, and what tar sends is limited.
Single == Reading /\ ~sdk.again
Limited(seen) == Reading /\ seen > left.limit
\* first_regular_file has not had all of its file.  Mutant: what is there is taken for whole.
MutShort == FALSE
Short == worker.rest > 0

WorkerPull ==
  LET h == http["worker"]  x == Head(queue)  seen == worker.seen + 1 IN
  /\ worker.pc = "pull" /\ h.st = "open" /\ queue # <<>> /\ queue' = Tail(queue)
  /\ \/ /\ x = <<"fail", 0>> /\ WorkerEnds(Errs(h, worker.begun, "fails"))
     \/ \* Nothing came: tar's message is the error.  Otherwise its exit code is not looked at.
        /\ x = <<"eof", 0>>
        /\ WorkerEnds(IF (worker.seen = 0 /\ source.code # 0) \/ (Single /\ (Short \/ worker.rest = -1))
                      THEN Errs(h, worker.begun, "missing") ELSE Ends(h, "eof"))
     \/ /\ x \notin {<<"fail", 0>>, <<"eof", 0>>} /\ Limited(seen)
        /\ WorkerEnds(Errs(h, worker.begun, "limit"))
     \/ /\ x \notin {<<"fail", 0>>, <<"eof", 0>>} /\ ~Limited(seen)
        /\ CASE ~Single -> /\ SetHttp("worker", Put(h, x))
                           /\ worker' = [worker EXCEPT !.seen = seen, !.begun = TRUE]
             [] Single /\ x = Dir -> WorkerEnds(Errs(h, worker.begun, "is_directory"))
             [] Single /\ x[1] = "file" /\ worker.rest = -1 ->
                  IF x[2] = 0 THEN WorkerEnds(Ends(h, "eof"))
                  ELSE worker' = [worker EXCEPT !.seen = seen, !.rest = x[2]] /\ UNCHANGED http
             [] Single /\ x[1] = "block" /\ worker.rest = 1 -> WorkerEnds(Ends(Put(h, x), "eof"))
             [] OTHER -> /\ SetHttp("worker", Put(h, x))
                         /\ worker' = [worker EXCEPT !.seen = seen, !.rest = @ - 1, !.begun = TRUE]
  /\ UNCHANGED <<sdk, control, source, upload, sandboxVars, left>>

\* The reader is gone: a response that has begun is cancelled, an incomplete body ends in
\* ClientDisconnect.
WorkerGone ==
  /\ Gone("worker")
  /\ \/ worker.pc = "pull" /\ (worker.begun \/ queue # <<>>)
     \/ worker.pc = "body" /\ upload.worker < left.n
  /\ worker' = [worker EXCEPT !.pc = "over"]
  /\ UNCHANGED <<sdk, http, control, flow, upload, sandboxVars, left>>

-----------------------------------------------------------------------------
(* The runtime: a tar process or a command read through exec, or docker cp *)

Exec == left.tar \/ ~Reading
Emit(x) == queue' = Append(queue, x)
SourceOver(code) == source' = [source EXCEPT !.pc = "over", !.code = code]

\* An exec's output goes to an unbounded queue, wanted or not.
ExecEmits ==
  /\ source.pc = "run" /\ Exec
  /\ \/ /\ source.at < Len(Stream) /\ Emit(Stream[source.at + 1])
        /\ source' = [source EXCEPT !.at = @ + 1] /\ UNCHANGED left
     \/ /\ source.at = Len(Stream) /\ Emit(<<"eof", 0>>) /\ UNCHANGED left
        /\ SourceOver(IF left.kind = "missing" THEN 1 ELSE 0)
     \/ \* tar or the program fails, or the sandbox goes away; a command always ends in an event
        /\ left.kind \notin Commands /\ Take("fails") /\ SourceOver(1)
        /\ \E how \in {"eof", "fail"} : (how = "eof" => Reading) /\ Emit(<<how, 0>>)
  /\ UNCHANGED <<sdk, http, control, worker, upload, sandboxVars>>

\* Set when the worker's generator ends.  Mutant: never.
MutAbandoned == FALSE
Abandoned == worker.pc = "over"
CopyItem == IF source.at < Len(Stream) THEN Stream[source.at + 1] ELSE <<"eof", 0>>
\* offer: a full queue is waited for, half a second at a time.  When there is room the
\* item is put; if the wait has just been given up it is put, and then offered once more.
CopyOffers ==
  /\ source.pc = "run" /\ ~Exec /\ ~Abandoned
  /\ \/ /\ Len(queue) = QueueSize /\ ~source.full /\ source' = [source EXCEPT !.full = TRUE]
        /\ UNCHANGED <<queue, left>>
     \/ /\ Len(queue) < QueueSize /\ left.kind # "missing" /\ Emit(CopyItem) /\ UNCHANGED left
        /\ source' = [source EXCEPT !.at = @ + 1, !.full = FALSE,
                                    !.pc = IF CopyItem = <<"eof", 0>> THEN "over" ELSE "run"]
     \/ /\ Len(queue) < QueueSize /\ source.full /\ Take("slow") /\ Emit(CopyItem)
        /\ source' = [source EXCEPT !.full = FALSE, !.twice = TRUE]
     \/ /\ Len(queue) < QueueSize /\ Emit(<<"fail", 0>>) /\ SourceOver(1)
        /\ IF left.kind = "missing" THEN UNCHANGED left ELSE Take("fails")
  /\ UNCHANGED <<sdk, http, control, worker, upload, sandboxVars>>
CopyStops ==
  /\ source.pc = "run" /\ ~Exec /\ Abandoned /\ SourceOver(0)
  /\ UNCHANGED <<sdk, http, control, worker, queue, upload, sandboxVars, left>>

-----------------------------------------------------------------------------
(* Worker, uploads: WorkerService.upload, GVisorDockerRuntime.upload *)

WorkerGo(pc) == worker' = [worker EXCEPT !.pc = pc]
UploadOnly == UNCHANGED <<sdk, control, flow>>

MakeDir ==
  /\ worker.pc = "start" /\ Writing /\ WorkerGo("mkdir") /\ mkdir' = IF mkdir = "no" THEN "asked" ELSE mkdir
  /\ UploadOnly /\ UNCHANGED <<http, upload, file, left>>
\* The thread that starts the exec, and wait(), which takes an exec that has not started
\* for one that is over.
MkdirRuns ==
  /\ mkdir = "asked" /\ mkdir' = "yes"
  /\ UploadOnly /\ UNCHANGED <<http, worker, upload, file, left>>
MkdirWaited ==
  /\ worker.pc = "mkdir" /\ WorkerGo("body")
  /\ UploadOnly /\ UNCHANGED <<http, upload, sandboxVars, left>>

Spool ==
  /\ worker.pc = "body" /\ upload.worker < upload.control /\ upload' = [upload EXCEPT !.worker = @ + 1]
  /\ UploadOnly /\ UNCHANGED <<http, worker, sandboxVars, left>>
\* The whole body has been received, into the spool.  Its length is the Content-Length the
\* SDK and the control plane declare, and a body that is cut raises ClientDisconnect: the
\* checks of single_file_tar against the declared size repeat what HTTP has already seen to.
Spooled == upload.worker = left.n
Extract ==
  /\ worker.pc = "body" /\ Spooled
  /\ IF mkdir = "yes" THEN WorkerGo("tar") /\ file' = [new |-> TRUE, blocks |-> 0] /\ UNCHANGED http
     ELSE WorkerAnswers(Errs(http["worker"], FALSE, "no directory")) /\ UNCHANGED file
  /\ UploadOnly /\ UNCHANGED <<upload, mkdir, left>>
TarReads ==
  /\ worker.pc = "tar"
  /\ \/ /\ file.blocks < upload.worker /\ file' = [file EXCEPT !.blocks = @ + 1] /\ UNCHANGED <<worker, http, left>>
     \/ /\ file.blocks = upload.worker /\ UNCHANGED <<file, left>>
        /\ WorkerAnswers(Ends(http["worker"], "eof"))
     \/ \* the connection to Docker breaks: tar finds the end of its input early
        /\ Take("fails") /\ UNCHANGED file
        /\ WorkerAnswers(Errs(http["worker"], FALSE, "tar"))
  /\ UploadOnly /\ UNCHANGED <<upload, mkdir>>

-----------------------------------------------------------------------------

\* A connection breaks: its reader loses what is under way.
Cut(c) ==
  /\ http[c].st \in {"open", "eof"} /\ Take("cuts")
  /\ \E k \in 0..Len(http[c].q) : SetHttp(c, [q |-> SubSeq(http[c].q, 1, k), st |-> "abort", why |-> "cut"])
  /\ UNCHANGED <<sdk, control, worker, flow, upload, sandboxVars>>

Init ==
  /\ left \in Loads
  /\ sdk = [pc |-> "ask", again |-> FALSE, got |-> <<>>, res |-> ""]
  /\ http = [c \in Conns |-> Closed]
  /\ control = [pc |-> "over", seen |-> 0, begun |-> FALSE]
  /\ worker = [pc |-> "over", seen |-> 0, begun |-> FALSE, rest |-> -1]
  /\ source = [pc |-> "over", at |-> 0, code |-> 0, full |-> FALSE, twice |-> FALSE] /\ queue = <<>>
  /\ upload = [sdk |-> 0, control |-> 0, worker |-> 0]
  /\ mkdir = (IF left.made THEN "yes" ELSE "no") /\ file = [new |-> FALSE, blocks |-> 0]

Step ==
  \/ AskFile \/ AskCommand \/ AskPage \/ Receive \/ SendBody
  \/ ControlUpload \/ ControlDownload \/ ControlCommand \/ ControlStream \/ ControlPage
  \/ ControlPass \/ PassBody \/ ControlGone
  \/ WorkerRefuses \/ WorkerDownload \/ WorkerCommand \/ WorkerStream \/ WorkerPage \/ WorkerPull \/ WorkerGone
  \/ ExecEmits \/ CopyOffers \/ CopyStops
  \/ MakeDir \/ MkdirRuns \/ MkdirWaited \/ Spool \/ Extract \/ TarReads

Next == Step \/ \E c \in Conns : Cut(c)

Spec == Init /\ [][Next]_vars

\* Every stage goes on when it can; connections need not break.
Fairness == WF_vars(Step)
FairSpec == Spec /\ Fairness

-----------------------------------------------------------------------------
(* Properties *)

Content ==
  CASE left.kind = "file" -> sdk.got = Blocks(left.n)
    [] left.kind = "write" -> file = [new |-> TRUE, blocks |-> left.n]
    [] left.kind = "missing" -> FALSE
    [] OTHER -> sdk.got = Stream
\* What a call that reports success has transferred is all there is: read and download
\* the file or the directory, run its result, stream everything up to the exit event, a page
\* its body, write the new content of the file.  A tar process that fails, a connection
\* that breaks on either hop and a limit that is met end in an error, wherever the bytes
\* are by then.  Excepted is the docker cp fallback once it has offered a chunk twice (_download_via_docker_cp).
SuccessIsWhole == sdk.res = "ok" => Content \/ source.twice

\* Every call is answered, and then nobody goes on working for it: both handlers end, and
\* so does the thread that feeds the queue (offer's abandoned).
Concluded ==
  sdk.pc = "wait" ~> /\ sdk.pc = "done" /\ source.pc = "over"
                     /\ control.pc = "over" /\ worker.pc = "over"
=============================================================================
