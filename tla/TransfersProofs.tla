--------------------------- MODULE TransfersProofs ---------------------------
(***************************************************************************)
(* A theorem about Transfers, for every load, any number of blocks and any    *)
(* limit: a call that reports success has transferred all there is.            *)
(* The argument: a request's handlers start once and one after the other;     *)
(* what the SDK has, what is under way on the two connections and what the     *)
(* worker has read are consecutive pieces of what is to be transferred; and a  *)
(* connection says that it is over only when the pieces make the whole.       *)
(***************************************************************************)
EXTENDS Transfers, SequenceTheorems, TLAPS

Item == {"dir", "file", "block", "end", "exit", "eof", "fail"} \X Nat
LoadType ==
  [kind : Kinds, n : Nat, limit : Nat, tar : BOOLEAN, made : BOOLEAN, fails : Nat, cuts : Nat, slow : Nat]
Reasons ==
  {"", "is_directory", "limit", "refused", "fails", "missing", "no directory", "tar", "unavailable", "cut"}
Pipe == [q : Seq(Item), st : {"closed", "open", "eof", "error", "abort"}, why : Reasons]

SdkType == [pc : {"ask", "wait", "done"}, again : BOOLEAN, got : Seq(Item), res : {"", "ok", "error"}]
ControlType == [pc : {"over", "start", "pass"}, seen : Nat, begun : BOOLEAN]
WorkerType == [pc : {"over", "start", "pull", "mkdir", "body", "tar"}, seen : Nat, begun : BOOLEAN, rest : Int]
SourceType == [pc : {"run", "over"}, at : Nat, code : Nat, full : BOOLEAN, twice : BOOLEAN]

Types ==
  /\ sdk \in SdkType /\ http \in [Conns -> Pipe] /\ control \in ControlType /\ worker \in WorkerType
  /\ source \in SourceType /\ queue \in Seq(Item) /\ upload \in [sdk : Nat, control : Nat, worker : Nat]
  /\ file \in [new : BOOLEAN, blocks : Nat] /\ left \in LoadType

-----------------------------------------------------------------------------
(* What is to be transferred *)

LEMMA ItemsTyped ==
  /\ Dir \in Item /\ End \in Item /\ Exit \in Item /\ <<"eof", 0>> \in Item /\ <<"fail", 0>> \in Item
  /\ \A n \in Nat : File(n) \in Item /\ Block(n) \in Item
BY DEF Item, Dir, End, Exit, File, Block

LEMMA Halves == ASSUME NEW n \in Nat, NEW i \in 1..(2 * n) PROVE i \div 2 \in Nat
OBVIOUS

LEMMA Blocked ==
  ASSUME NEW n \in Nat
  PROVE  /\ Blocks(n) \in Seq(Item) /\ Len(Blocks(n)) = n /\ \A i \in 1..n : Blocks(n)[i] = Block(i)
         /\ Entries(n) \in Seq(Item) /\ Len(Entries(n)) = 2 * n
         /\ \A i \in 1..(2 * n) : Entries(n)[i][1] \in {"file", "block"}
<1>1. /\ Blocks(n) \in [1..n -> Item] /\ \A i \in 1..n : Blocks(n)[i] = Block(i)
  BY ItemsTyped DEF Blocks
<1>2. Entries(n) \in [1..(2 * n) -> Item] /\ \A i \in 1..(2 * n) : Entries(n)[i][1] \in {"file", "block"}
  <2>1. ASSUME NEW i \in 1..(2 * n)
        PROVE  /\ (IF i % 2 = 1 THEN File(1) ELSE Block(i \div 2)) \in Item
               /\ (IF i % 2 = 1 THEN File(1) ELSE Block(i \div 2))[1] \in {"file", "block"}
    BY Halves, ItemsTyped DEF File, Block
  <2> QED
    BY <2>1 DEF Entries
<1> QED
  BY <1>1, <1>2, SeqDef, LenProperties

Framed(x, s, y) == <<x>> \o s \o <<y>>
LEMMA FramedIs ==
  ASSUME NEW s \in Seq(Item), NEW x \in Item, NEW y \in Item
  PROVE  /\ Framed(x, s, y) \in Seq(Item) /\ Len(Framed(x, s, y)) = Len(s) + 2
         /\ Framed(x, s, y)[1] = x /\ Framed(x, s, y)[Len(s) + 2] = y
         /\ \A i \in 1..Len(s) : Framed(x, s, y)[i + 1] = s[i]
<1>1. /\ <<x>> \in Seq(Item) /\ <<y>> \in Seq(Item) /\ Len(<<x>>) = 1 /\ Len(<<y>>) = 1
      /\ <<x>>[1] = x /\ <<y>>[1] = y
  OBVIOUS
<1>2. /\ <<x>> \o s \in Seq(Item) /\ Len(<<x>> \o s) = Len(s) + 1 /\ (<<x>> \o s)[1] = x
      /\ \A i \in 1..Len(s) : (<<x>> \o s)[i + 1] = s[i]
  BY <1>1, ConcatProperties
<1> QED
  BY <1>1, <1>2, ConcatProperties DEF Framed

\* Where a sequence is that consists of the elements of s after the first k.
Piece(q, k, s) == k + Len(q) <= Len(s) /\ \A i \in 1..Len(q) : q[i] = s[k + i]

LEMMA PieceNone == ASSUME NEW s, Len(s) \in Nat, NEW k \in 0..Len(s) PROVE Piece(<<>>, k, s)
BY DEF Piece

LEMMA PieceTail ==
  ASSUME NEW s \in Seq(Item), NEW q \in Seq(Item), NEW k \in Nat, Piece(q, k, s), q # <<>>
  PROVE  /\ Head(q) = s[k + 1] /\ Head(q) \in Item /\ Tail(q) \in Seq(Item) /\ Len(Tail(q)) + 1 = Len(q)
         /\ k + 1 <= Len(s) /\ Piece(Tail(q), k + 1, s)
<1>1. /\ Head(q) = q[1] /\ Len(q) \in Nat \ {0} /\ Tail(q) \in Seq(Item) /\ Len(Tail(q)) = Len(q) - 1
      /\ \A i \in 1..Len(Tail(q)) : Tail(q)[i] = q[i + 1]
  BY HeadTailProperties, EmptySeq, LenProperties
<1>2. ASSUME NEW i \in 1..Len(Tail(q)) PROVE Tail(q)[i] = s[(k + 1) + i]
  <2>1. i + 1 \in 1..Len(q) /\ k + (i + 1) = (k + 1) + i
    BY <1>1
  <2> QED
    BY <1>1, <2>1 DEF Piece
<1>3. Head(q) \in Item
  BY <1>1, ElementOfSeq
<1> QED
  BY <1>1, <1>2, <1>3 DEF Piece

LEMMA PieceAppend ==
  ASSUME NEW s \in Seq(Item), NEW q \in Seq(Item), NEW k \in Nat, Piece(q, k, s), NEW x \in Item,
         k + Len(q) + 1 <= Len(s), x = s[k + Len(q) + 1]
  PROVE  /\ Append(q, x) \in Seq(Item) /\ Len(Append(q, x)) = Len(q) + 1
         /\ Piece(Append(q, x), k, s)
<1>1. /\ Append(q, x) \in Seq(Item) /\ Len(Append(q, x)) = Len(q) + 1 /\ Len(q) \in Nat
      /\ Append(q, x)[Len(q) + 1] = x /\ \A i \in 1..Len(q) : Append(q, x)[i] = q[i]
  BY AppendProperties, LenProperties
<1> DEFINE a == Append(q, x)
<1> HIDE DEF a
<1>2. ASSUME NEW i \in 1..Len(a) PROVE a[i] = s[k + i]
  <2>1. CASE i = Len(q) + 1
    BY <1>1, <2>1 DEF a
  <2>2. CASE i \in 1..Len(q)
    BY <1>1, <2>2 DEF Piece, a
  <2> QED
    BY <1>1, <2>1, <2>2 DEF a
<1>3. Len(a) = Len(q) + 1
  BY <1>1 DEF a
<1>4. Piece(a, k, s)
  BY <1>1, <1>2, <1>3 DEF Piece
<1> QED
  BY <1>1, <1>4 DEF a

LEMMA PieceCut ==
  ASSUME NEW s \in Seq(Item), NEW q \in Seq(Item), NEW k \in Nat, NEW m \in 0..Len(q)
  PROVE  /\ SubSeq(q, 1, m) \in Seq(Item) /\ Len(SubSeq(q, 1, m)) = m
         /\ Piece(q, k, s) => Piece(SubSeq(q, 1, m), k, s)
<1>1. /\ SubSeq(q, 1, m) \in Seq(Item) /\ Len(q) \in Nat /\ Len(SubSeq(q, 1, m)) = m
      /\ \A i \in 1..m : SubSeq(q, 1, m)[i] = q[i]
  BY SubSeqProperties, LenProperties
<1> QED
  BY <1>1, LenProperties DEF Piece

LEMMA PieceWhole ==
  ASSUME NEW s \in Seq(Item), NEW q \in Seq(Item), Piece(q, 0, s), Len(q) = Len(s)
  PROVE  q = s
BY SeqEqual, LenProperties DEF Piece

-----------------------------------------------------------------------------
(* What the source emits, and what of it is the content *)

Payload ==
  CASE left.kind = "file" -> Blocks(left.n)
    [] left.kind \in {"dir", "events"} /\ ~sdk.again -> <<>>
    [] OTHER -> Stream
\* A call that can succeed: what there is, and not the first request for a directory.
Possible == left.kind # "missing" /\ (left.kind = "dir" => sdk.again)

\* Neither the end of an output nor a failure is part of it.
LEMMA Emitted ==
  ASSUME NEW s \in Seq(Item), NEW x \in Item, NEW y \in Item, x[1] \notin {"eof", "fail"},
         y[1] \notin {"eof", "fail"}, \A i \in 1..Len(s) : s[i][1] \notin {"eof", "fail"}
  PROVE  \A i \in 1..Len(Framed(x, s, y)) : Framed(x, s, y)[i] \notin {<<"eof", 0>>, <<"fail", 0>>}
<1> DEFINE f == Framed(x, s, y)
<1>1. /\ Len(f) = Len(s) + 2 /\ Len(s) \in Nat /\ f[1] = x /\ f[Len(s) + 2] = y
      /\ \A i \in 1..Len(s) : f[i + 1] = s[i]
  BY FramedIs, LenProperties
<1> HIDE DEF f
<1> SUFFICES ASSUME NEW i \in 1..(Len(s) + 2) PROVE f[i][1] \notin {"eof", "fail"}
  BY <1>1 DEF f
<1>2. CASE i = 1
  BY <1>1, <1>2
<1>3. CASE i = Len(s) + 2
  BY <1>1, <1>3
<1>4. CASE i \in 2..(Len(s) + 1)
  <2>1. PICK j \in 1..Len(s) : i = j + 1
    <3>1. i - 1 \in 1..Len(s) /\ i = (i - 1) + 1
      BY <1>1, <1>4
    <3> QED
      BY <3>1
  <2> QED
    BY <1>1, <2>1
<1> QED
  BY <1>1, <1>2, <1>3, <1>4

LEMMA StreamIs ==
  ASSUME left \in LoadType
  PROVE  /\ Stream \in Seq(Item) /\ Payload \in Seq(Item)
         /\ \A i \in 1..Len(Stream) : Stream[i] \notin {<<"eof", 0>>, <<"fail", 0>>}
         /\ left.kind = "file" =>
              /\ Len(Stream) = left.n + 2 /\ Stream[1] = File(left.n) /\ Len(Payload) = left.n
              /\ \A i \in 1..left.n : Stream[i + 1] = Block(i) /\ Payload[i] = Block(i)
         /\ left.kind = "dir" => Len(Stream) >= 1 /\ Stream[1] = Dir
         /\ left.kind = "missing" => Stream = <<>>
<1>0. left.kind \in Kinds /\ left.n \in Nat
  BY DEF LoadType
<1>1. Stream \in Seq(Item) /\ \A i \in 1..Len(Stream) : Stream[i] \notin {<<"eof", 0>>, <<"fail", 0>>}
  <2>1. CASE left.kind = "file"
    <3>1. Stream = Framed(File(left.n), Blocks(left.n), End)
      BY <2>1 DEF Stream, Framed
    <3> DEFINE b == Blocks(left.n)
    <3>2. b \in Seq(Item) /\ \A i \in 1..Len(b) : b[i][1] \notin {"eof", "fail"}
      <4>1. b \in Seq(Item) /\ Len(b) = left.n /\ \A i \in 1..left.n : b[i] = Block(i)
        BY <1>0, Blocked
      <4> HIDE DEF b
      <4> QED
        BY <4>1 DEF Block
    <3>3. /\ File(left.n) \in Item /\ End \in Item
          /\ File(left.n)[1] \notin {"eof", "fail"} /\ End[1] \notin {"eof", "fail"}
      BY <1>0, ItemsTyped DEF File, End
    <3> HIDE DEF b
    <3>4. /\ Framed(File(left.n), b, End) \in Seq(Item)
          /\ \A i \in 1..Len(Framed(File(left.n), b, End)) :
               Framed(File(left.n), b, End)[i] \notin {<<"eof", 0>>, <<"fail", 0>>}
      BY <3>2, <3>3, FramedIs, Emitted
    <3> QED
      BY <3>1, <3>4 DEF b
  <2>2. CASE left.kind = "dir"
    <3>1. Stream = Framed(Dir, Entries(left.n), End)
      BY <2>2 DEF Stream, Framed
    <3> DEFINE b == Entries(left.n)
    <3>2. b \in Seq(Item) /\ \A i \in 1..Len(b) : b[i][1] \notin {"eof", "fail"}
      BY <1>0, Blocked
    <3>3. Dir \in Item /\ End \in Item /\ Dir[1] \notin {"eof", "fail"} /\ End[1] \notin {"eof", "fail"}
      BY ItemsTyped DEF Dir, End
    <3> HIDE DEF b
    <3>4. /\ Framed(Dir, b, End) \in Seq(Item)
          /\ \A i \in 1..Len(Framed(Dir, b, End)) : Framed(Dir, b, End)[i] \notin {<<"eof", 0>>, <<"fail", 0>>}
      BY <3>2, <3>3, FramedIs, Emitted
    <3> QED
      BY <3>1, <3>4 DEF b
  <2>3. CASE left.kind = "events"
    <3>1. Stream = Append(Blocks(left.n), Exit)
      BY <1>0, <2>3, Blocked, ItemsTyped, AppendIsConcat DEF Stream
    <3>2. /\ Blocks(left.n) \in Seq(Item) /\ Len(Blocks(left.n)) = left.n
          /\ \A i \in 1..left.n : Blocks(left.n)[i] = Block(i)
      BY <1>0, Blocked
    <3>3. Exit \in Item
      BY ItemsTyped
    <3>4. /\ Stream \in Seq(Item) /\ Len(Stream) = left.n + 1 /\ Stream[left.n + 1] = Exit
          /\ \A i \in 1..left.n : Stream[i] = Block(i)
      BY <3>1, <3>2, <3>3, AppendProperties
    <3> QED
      BY <1>0, <3>4 DEF Exit, Block
  <2>4. CASE left.kind = "run"
    BY <2>4, ItemsTyped DEF Stream, Exit
  <2>5. CASE left.kind = "page"
    BY <1>0, <2>5, Blocked DEF Stream, Block
  <2>6. CASE left.kind \in {"missing", "write"}
    BY <2>6 DEF Stream
  <2> QED
    BY <1>0, <2>1, <2>2, <2>3, <2>4, <2>5, <2>6 DEF Kinds, Files, Commands
<1>2. Payload \in Seq(Item)
  BY <1>0, <1>1, Blocked DEF Payload
<1>3. CASE left.kind = "file"
  <2>1. Stream = Framed(File(left.n), Blocks(left.n), End) /\ Payload = Blocks(left.n)
    BY <1>3 DEF Stream, Framed, Payload
  <2>2. /\ Blocks(left.n) \in Seq(Item) /\ Len(Blocks(left.n)) = left.n
        /\ \A i \in 1..left.n : Blocks(left.n)[i] = Block(i)
    BY <1>0, Blocked
  <2>3. File(left.n) \in Item /\ End \in Item
    BY <1>0, ItemsTyped
  <2> DEFINE b == Blocks(left.n)
  <2> HIDE DEF b
  <2>5. b \in Seq(Item)
    BY <2>2 DEF b
  <2>4. /\ Len(Framed(File(left.n), b, End)) = Len(b) + 2 /\ Framed(File(left.n), b, End)[1] = File(left.n)
        /\ \A i \in 1..Len(b) : Framed(File(left.n), b, End)[i + 1] = b[i]
    <3> DEFINE x == File(left.n)
    <3>1. x \in Item
      BY <2>3
    <3> HIDE DEF x
    <3>2. /\ Len(Framed(x, b, End)) = Len(b) + 2 /\ Framed(x, b, End)[1] = x
          /\ \A i \in 1..Len(b) : Framed(x, b, End)[i + 1] = b[i]
      BY <2>5, <2>3, <3>1, FramedIs
    <3> QED
      BY <3>2 DEF x
  <2> QED
    BY <1>1, <1>2, <1>3, <2>1, <2>2, <2>4 DEF b
<1>4. CASE left.kind = "dir"
  <2>1. Stream = Framed(Dir, Entries(left.n), End)
    BY <1>4 DEF Stream, Framed
  <2>2. Entries(left.n) \in Seq(Item) /\ Len(Entries(left.n)) \in Nat
    BY <1>0, Blocked, LenProperties
  <2> DEFINE b == Entries(left.n)
  <2> HIDE DEF b
  <2>3. Len(Framed(Dir, b, End)) = Len(b) + 2 /\ Framed(Dir, b, End)[1] = Dir
    BY <2>2, ItemsTyped, FramedIs DEF b
  <2> QED
    BY <1>1, <1>2, <1>4, <2>1, <2>2, <2>3 DEF b
<1>5. CASE left.kind \notin {"file", "dir"}
  BY <1>1, <1>2, <1>5 DEF Stream
<1> QED
  BY <1>3, <1>4, <1>5

LEMMA Later ==
  ASSUME left'.kind = left.kind, left'.n = left.n
  PROVE  Stream' = Stream /\ (sdk'.again = sdk.again => Payload' = Payload /\ (Possible' <=> Possible))
BY DEF Stream, Payload, Possible

-----------------------------------------------------------------------------
(* What the steps do to the load and to a connection *)

\* The load stays, but for the number of troubles.
Same ==
  /\ left' \in LoadType /\ left'.kind = left.kind /\ left'.n = left.n /\ left'.tar = left.tar
  /\ left.fails = 0 => left'.fails = 0

LEMMA Taking ==
  ASSUME left \in LoadType
  PROVE  (UNCHANGED left => Same) /\ \A what \in {"fails", "cuts", "slow"} : Take(what) => Same
BY DEF Take, LoadType, Same

LEMMA PipeOps ==
  /\ Asked \in Pipe /\ Asked.q = <<>> /\ Asked.st = "open" /\ Asked.why = ""
  /\ \A h \in Pipe :
       /\ \A how \in {"eof", "abort"} :
            Ends(h, how) \in Pipe /\ Ends(h, how).q = h.q /\ Ends(h, how).st = how /\ Ends(h, how).why = h.why
<1>1. Asked \in Pipe /\ Asked.q = <<>> /\ Asked.st = "open" /\ Asked.why = ""
  <2>1. Closed \in Pipe
    BY EmptySeq DEF Closed, Pipe, Reasons
  <2> QED
    BY <2>1 DEF Asked, Closed, Pipe
<1>2. ASSUME NEW h \in Pipe
      PROVE  /\ \A how \in {"eof", "abort"} :
                  Ends(h, how) \in Pipe /\ Ends(h, how).q = h.q /\ Ends(h, how).st = how /\ Ends(h, how).why = h.why
  BY DEF Pipe, Ends
<1> QED
  BY <1>1, <1>2

LEMMA AskedIs == Asked.q = <<>> /\ Asked.st = "open" /\ Asked.why # "is_directory"
BY DEF Asked, Closed

LEMMA PutIs ==
  ASSUME NEW h \in Pipe, NEW x \in Item
  PROVE  /\ Put(h, x) \in Pipe /\ Put(h, x).q = Append(h.q, x)
         /\ Put(h, x).st = h.st /\ Put(h, x).why = h.why
<1>1. Append(h.q, x) \in Seq(Item)
  BY AppendProperties DEF Pipe
<1> QED
  BY <1>1 DEF Pipe, Put

LEMMA ErrsIs ==
  ASSUME NEW h \in Pipe, NEW begun, NEW why \in Reasons
  PROVE  /\ Errs(h, begun, why) \in Pipe /\ Errs(h, begun, why).q = h.q
         /\ Errs(h, begun, why).st \in {"error", "abort"} /\ Errs(h, begun, why).why = why
<1>1. Errs(h, begun, why) = [h EXCEPT !.st = IF begun THEN "abort" ELSE "error", !.why = why]
  BY DEF Errs
<1>2. CASE begun
  BY <1>1, <1>2 DEF Pipe
<1>3. CASE ~begun
  BY <1>1, <1>3 DEF Pipe
<1> QED
  BY <1>2, <1>3

LEMMA SetOne ==
  ASSUME http \in [Conns -> Pipe], NEW c \in Conns, NEW h \in Pipe, SetHttp(c, h)
  PROVE  http' \in [Conns -> Pipe] /\ http'[c] = h /\ \A d \in Conns \ {c} : http'[d] = http[d]
BY DEF SetHttp

-----------------------------------------------------------------------------
(* What the steps do, field by field *)

Connected == "api" \in Conns /\ "worker" \in Conns /\ http["api"] \in Pipe /\ http["worker"] \in Pipe
LEMMA Connections == ASSUME Types PROVE Connected
BY DEF Types, Conns, Connected

AsksEffect ==
  /\ sdk' \in SdkType /\ sdk.pc = "ask" /\ sdk'.pc = "wait" /\ sdk'.got = <<>>
  /\ sdk'.again = sdk.again /\ sdk'.res = sdk.res
  /\ http' \in [Conns -> Pipe] /\ http'["api"] = Asked /\ http'["worker"] = http["worker"]
  /\ control' \in ControlType /\ control'.pc = "start"
  /\ UNCHANGED <<worker, source, queue, upload, file, left>>
LEMMA AsksDoes ==
  ASSUME Types, Asks
  PROVE  AsksEffect
<1> USE DEF AsksEffect
<1>1. http' \in [Conns -> Pipe] /\ http'["api"] = Asked /\ http'["worker"] = http["worker"]
  BY PipeOps, SetOne DEF Asks, Types, Conns
<1>2. /\ sdk' \in SdkType /\ sdk.pc = "ask" /\ sdk'.pc = "wait" /\ sdk'.got = <<>>
      /\ sdk'.again = sdk.again /\ sdk'.res = sdk.res
  BY EmptySeq DEF Asks, Types, SdkType
<1>3. control' \in ControlType /\ control'.pc = "start"
  BY DEF Asks, ControlType
<1> QED
  BY <1>1, <1>2, <1>3 DEF Asks, flow, sandboxVars

\* Receive: the SDK takes what has come, asks again, or is done.
Takes ==
  /\ http["api"].q # <<>> /\ sdk'.pc = "wait" /\ sdk'.again = sdk.again /\ sdk'.res = sdk.res
  /\ sdk'.got = Append(sdk.got, Head(http["api"].q)) /\ http'["api"].q = Tail(http["api"].q)
  /\ http'["api"].st = http["api"].st /\ http'["api"].why = http["api"].why
AsksAgain ==
  /\ \/ http["api"].st = "eof" /\ Starting
     \/ http["api"].st = "error" /\ http["api"].why = "is_directory"
  /\ sdk'.pc = "ask" /\ sdk'.again = TRUE /\ sdk'.res = sdk.res /\ http'["api"] = http["api"]
Ended ==
  /\ http["api"].st \in {"eof", "error", "abort"}
  /\ sdk'.pc = "done" /\ sdk'.again = sdk.again /\ sdk'.got = sdk.got /\ http'["api"] = http["api"]
  /\ \/ sdk'.res = "error"
     \/ http["api"].q = <<>> /\ http["api"].st = "eof" /\ ~Starting /\ sdk'.res = "ok"
ReceiveEffect ==
  /\ sdk.pc = "wait" /\ sdk' \in SdkType /\ http' \in [Conns -> Pipe] /\ http'["worker"] = http["worker"]
  /\ Takes \/ AsksAgain \/ Ended
  /\ UNCHANGED <<control, worker, source, queue, upload, file, left>>
LEMMA ReceiveDoes ==
  ASSUME Types, Receive
  PROVE  ReceiveEffect
<1> USE DEF ReceiveEffect
<1> DEFINE h == http["api"]
<1>0. Connected
  BY Connections
<1>1. sdk.pc = "wait" /\ UNCHANGED <<control, worker, source, queue, upload, file, left>>
  BY DEF Receive, flow, sandboxVars
<1>2. CASE h.q # <<>> /\ sdk' = [sdk EXCEPT !.got = Append(@, Head(h.q))] /\ SetHttp("api", [h EXCEPT !.q = Tail(@)])
  <2>1. Head(h.q) \in Item /\ Tail(h.q) \in Seq(Item)
    BY <1>0, <1>2, HeadTailProperties DEF Connected, Pipe
  <2>2. Append(sdk.got, Head(h.q)) \in Seq(Item)
    BY <2>1, AppendProperties DEF Types, SdkType
  <2>3. sdk' \in SdkType /\ sdk'.got = Append(sdk.got, Head(h.q))
        /\ sdk'.pc = "wait" /\ sdk'.again = sdk.again /\ sdk'.res = sdk.res
    BY <1>1, <1>2, <2>2 DEF Types, SdkType
  <2> DEFINE r == [h EXCEPT !.q = Tail(@)]
  <2>4. r \in Pipe /\ r.q = Tail(h.q) /\ r.st = h.st /\ r.why = h.why
    BY <1>0, <2>1 DEF Connected, Pipe
  <2> HIDE DEF r
  <2>5. SetHttp("api", r)
    BY <1>2 DEF r
  <2>6. http' \in [Conns -> Pipe] /\ http'["api"] = r /\ http'["worker"] = http["worker"]
    BY <1>0, <2>4, <2>5, SetOne DEF Types, Connected, Conns
  <2> QED
    BY <1>1, <1>2, <2>3, <2>4, <2>6 DEF Takes
<1>3. CASE h.q = <<>> /\ UNCHANGED http /\ sdk' = [sdk EXCEPT !.pc = "ask", !.again = TRUE]
           /\ ((h.st = "eof" /\ Starting) \/ (h.st = "error" /\ h.why = "is_directory"))
  <2>1. sdk' \in SdkType /\ sdk'.pc = "ask" /\ sdk'.again = TRUE /\ sdk'.res = sdk.res
    BY <1>3 DEF Types, SdkType
  <2> QED
    BY <1>1, <1>3, <2>1 DEF AsksAgain, Types
<1>4. CASE \E res \in {"ok", "error"} :
             /\ sdk' = [sdk EXCEPT !.pc = "done", !.res = res] /\ UNCHANGED http
             /\ res = "ok" => h.q = <<>> /\ h.st = "eof" /\ ~Starting
             /\ h.st \in {"eof", "error", "abort"}
  <2>1. PICK res \in {"ok", "error"} : /\ sdk' = [sdk EXCEPT !.pc = "done", !.res = res] /\ UNCHANGED http
                                       /\ res = "ok" => h.q = <<>> /\ h.st = "eof" /\ ~Starting
                                       /\ h.st \in {"eof", "error", "abort"}
    BY <1>4
  <2>2. sdk' \in SdkType /\ sdk'.pc = "done" /\ sdk'.again = sdk.again /\ sdk'.got = sdk.got /\ sdk'.res = res
    BY <2>1 DEF Types, SdkType
  <2> QED
    BY <1>1, <2>1, <2>2 DEF Ended, Types
<1>5. \/ h.q # <<>> /\ sdk' = [sdk EXCEPT !.got = Append(@, Head(h.q))] /\ SetHttp("api", [h EXCEPT !.q = Tail(@)])
      \/ h.q = <<>> /\ UNCHANGED http /\ sdk' = [sdk EXCEPT !.pc = "ask", !.again = TRUE]
         /\ ((h.st = "eof" /\ Starting) \/ (h.st = "error" /\ h.why = "is_directory"))
      \/ \E res \in {"ok", "error"} : /\ sdk' = [sdk EXCEPT !.pc = "done", !.res = res] /\ UNCHANGED http
                                      /\ res = "ok" => h.q = <<>> /\ h.st = "eof" /\ ~Starting
             /\ h.st \in {"eof", "error", "abort"}
  <2>1. CASE h.q # <<>>
    BY <2>1 DEF Receive
  <2>2. CASE h.q = <<>> /\ h.st = "eof" /\ Starting
    <3>1. UNCHANGED http /\ Again
      BY <2>2 DEF Receive
    <3>2. sdk' = [sdk EXCEPT !.pc = "ask", !.again = TRUE]
      BY <3>1 DEF Again
    <3> QED
      BY <2>2, <3>1, <3>2, Zenon
  <2>3. CASE h.q = <<>> /\ h.st = "eof" /\ ~Starting
    <3>1. UNCHANGED http /\ Result(IF left.kind = "dir" => Extracts(sdk.got) THEN "ok" ELSE "error")
      BY <2>3 DEF Receive
    <3> QED
      BY <2>3, <3>1 DEF Result
  <2>4. CASE h.q = <<>> /\ h.st \in {"error", "abort"} /\ h.why = "is_directory" /\ h.st = "error"
    BY <2>4 DEF Receive, Again
  <2>5. CASE h.q = <<>> /\ h.st \in {"error", "abort"} /\ ~(h.why = "is_directory" /\ h.st = "error")
    BY <2>5 DEF Receive, Result
  <2> QED
    BY <2>1, <2>2, <2>3, <2>4, <2>5 DEF Receive
<1> QED
  BY <1>2, <1>3, <1>4, <1>5

\* Forwards: the request goes to the worker, or is refused.
Passes ==
  /\ control'.pc = "pass" /\ worker'.pc = "start" /\ worker'.seen = 0 /\ worker'.rest = -1
  /\ http'["worker"] = Asked /\ http'["api"] = http["api"]
  /\ left' = left
Refused ==
  /\ control'.pc = "over" /\ worker' = worker /\ http'["worker"] = http["worker"]
  /\ http'["api"].q = http["api"].q /\ http'["api"].st \in {"error", "abort"}
  /\ http'["api"].why # "is_directory"
LEMMA RefusedBy ==
  ASSUME Types, NEW begun \in BOOLEAN, NEW why \in {"refused", "limit"},
         SetHttp("api", Errs(http["api"], begun, why)), control' = [control EXCEPT !.pc = "over"], UNCHANGED worker
  PROVE  Refused /\ http' \in [Conns -> Pipe] /\ control' \in ControlType /\ worker' \in WorkerType
<1>1. Connected
  BY Connections
<1> DEFINE h == Errs(http["api"], begun, why)
<1>2. h \in Pipe /\ h.q = http["api"].q /\ h.why = why /\ h.st \in {"error", "abort"}
  <2>1. http["api"] \in Pipe /\ why \in Reasons
    BY <1>1 DEF Connected, Reasons
  <2> QED
    BY <2>1, ErrsIs
<1> HIDE DEF h
<1>3. http' \in [Conns -> Pipe] /\ http'["api"] = h /\ http'["worker"] = http["worker"]
  BY <1>1, <1>2, SetOne DEF Types, Connected, Conns, h
<1>4. control' \in ControlType /\ control'.pc = "over"
  BY DEF Types, ControlType
<1> QED
  BY <1>2, <1>3, <1>4 DEF Refused, Types

ForwardsEffect ==
  /\ http' \in [Conns -> Pipe] /\ control' \in ControlType /\ worker' \in WorkerType
  /\ Passes \/ Refused
  /\ UNCHANGED <<sdk, source, queue, upload, file>>
LEMMA ForwardsDoes ==
  ASSUME Types, NEW begun \in BOOLEAN, Forwards(begun), ControlOnly
  PROVE  ForwardsEffect
<1> USE DEF ForwardsEffect
<1>0. Connected /\ UNCHANGED <<sdk, source, queue, upload, file>>
  BY Connections DEF ControlOnly, flow, sandboxVars
<1>1. CASE /\ control' = [control EXCEPT !.pc = "pass", !.begun = begun] /\ SetHttp("worker", Asked)
           /\ worker' = [pc |-> "start", seen |-> 0, begun |-> sdk.again, rest |-> -1] /\ UNCHANGED left
  <2>5. SetHttp("worker", Asked)
    BY <1>1
  <2>1. http' \in [Conns -> Pipe] /\ http'["worker"] = Asked /\ http'["api"] = http["api"]
    BY <1>0, <2>5, PipeOps, SetOne DEF Types, Connected, Conns
  <2>2. control' \in ControlType /\ control'.pc = "pass"
    BY <1>1 DEF Types, ControlType
  <2>3. sdk.again \in BOOLEAN
    BY DEF Types, SdkType
  <2>4. worker' \in WorkerType /\ worker'.pc = "start" /\ worker'.seen = 0 /\ worker'.rest = -1
    BY <1>1, <2>3 DEF WorkerType
  <2> QED
    BY <1>0, <1>1, <2>1, <2>2, <2>4 DEF Passes
<1>2. CASE /\ control' = [control EXCEPT !.pc = "over"] /\ UNCHANGED worker
           /\ SetHttp("api", Errs(http["api"], begun \/ Gone("api"), "refused"))
  <2>1. (begun \/ Gone("api")) \in BOOLEAN
    OBVIOUS
  <2> QED
    BY <1>0, <1>2, <2>1, RefusedBy
<1> QED
  BY <1>1, <1>2 DEF Forwards

\* ControlPass: what has come goes on, or its end does.
Moves ==
  LET h == http["worker"]  a == http["api"] IN
  /\ h.q # <<>> /\ control'.pc = "pass"
  /\ http'["worker"].q = Tail(h.q) /\ http'["worker"].st = h.st /\ http'["worker"].why = h.why
  /\ http'["api"].q = Append(a.q, Head(h.q)) /\ http'["api"].st = a.st /\ http'["api"].why = a.why
PassesEnd ==
  LET h == http["worker"]  a == http["api"] IN
  /\ control'.pc = "over" /\ http'["api"].q = a.q
  /\ http'["worker"].q = h.q /\ http'["worker"].why = h.why /\ http'["worker"].st \in {h.st, "abort"}
  /\ \/ h.q = <<>> /\ h.st = "eof" /\ http'["api"].st = "eof" /\ http'["api"].why = a.why
     \/ h.st = "error" /\ http'["api"].st \in {"error", "abort"} /\ http'["api"].why = h.why
     \/ http'["api"].st \in {"error", "abort"} /\ http'["api"].why \in {"limit", "unavailable"}

\* With both ends of the pipes given, the pipes are typed.
LEMMA SetBoth ==
  ASSUME http \in [Conns -> Pipe], NEW w \in Pipe, NEW a \in Pipe,
         http' = [http EXCEPT !["worker"] = w, !["api"] = a]
  PROVE  http' \in [Conns -> Pipe] /\ http'["worker"] = w /\ http'["api"] = a
BY DEF Conns

ControlPassEffect ==
  /\ control.pc = "pass" /\ http["api"].st # "abort"
  /\ http' \in [Conns -> Pipe] /\ control' \in ControlType
  /\ Moves \/ PassesEnd
  /\ UNCHANGED <<sdk, worker, source, queue, upload, file, left>>
LEMMA ControlPassDoes ==
  ASSUME Types, ControlPass
  PROVE  ControlPassEffect
<1> USE DEF ControlPassEffect
<1> DEFINE h == http["worker"]  a == http["api"]
           over == control.seen > 0 /\ control.seen + 1 > left.limit /\ Reading
<1>0. "api" \in Conns /\ "worker" \in Conns /\ h \in Pipe /\ a \in Pipe /\ http \in [Conns -> Pipe]
  BY Connections DEF Connected, Types
<1>1. /\ control.pc = "pass" /\ http["api"].st # "abort"
      /\ UNCHANGED <<sdk, worker, source, queue, upload, file, left>>
  BY DEF ControlPass, Gone, flow, sandboxVars
<1>2. CASE h.q # <<>> /\ ~over
  <2>1. /\ control' = [control EXCEPT !.seen = @ + 1, !.begun = TRUE]
        /\ http' = [http EXCEPT !["worker"].q = Tail(@), !["api"] = Put(@, Head(h.q))]
    BY <1>2 DEF ControlPass
  <2>2. control' \in ControlType /\ control'.pc = "pass"
    <3>1. control \in ControlType /\ control.seen + 1 \in Nat
      BY DEF Types, ControlType
    <3>2. control' = [control EXCEPT !.seen = control.seen + 1, !.begun = TRUE]
      BY <2>1
    <3> QED
      BY <1>1, <3>1, <3>2 DEF ControlType
  <2>3. Head(h.q) \in Item /\ Tail(h.q) \in Seq(Item)
    BY <1>0, <1>2, HeadTailProperties DEF Pipe
  <2> DEFINE r == [h EXCEPT !.q = Tail(@)]  b == Put(a, Head(h.q))
  <2>4. r \in Pipe /\ r.q = Tail(h.q) /\ r.st = h.st /\ r.why = h.why
    BY <1>0, <2>3 DEF Pipe
  <2>5. b \in Pipe /\ b.q = Append(a.q, Head(h.q)) /\ b.st = a.st /\ b.why = a.why
    <3>1. a \in Pipe /\ Head(h.q) \in Item
      BY <1>0, <2>3
    <3> QED
      BY <3>1, PutIs
  <2>6. http' = [http EXCEPT !["worker"] = r, !["api"] = b]
    BY <1>0, <2>1
  <2> HIDE DEF r, b
  <2>7. http' \in [Conns -> Pipe] /\ http'["worker"] = r /\ http'["api"] = b
    BY <1>0, <2>4, <2>5, <2>6, SetBoth
  <2> QED
    BY <1>1, <1>2, <2>2, <2>4, <2>5, <2>7 DEF Moves
<1>3. CASE h.q # <<>> /\ over
  <2>1. /\ control' = [control EXCEPT !.pc = "over"]
        /\ http' = [http EXCEPT !["worker"] = Ends(@, "abort"), !["api"] = Errs(@, TRUE, "limit")]
    BY <1>3 DEF ControlPass
  <2>2. control' \in ControlType /\ control'.pc = "over"
    BY <2>1 DEF Types, ControlType
  <2> DEFINE r == Ends(h, "abort")  b == Errs(a, TRUE, "limit")
  <2>3. r \in Pipe /\ r.q = h.q /\ r.st = "abort" /\ r.why = h.why
    BY <1>0, PipeOps
  <2>4. b \in Pipe /\ b.q = a.q /\ b.st \in {"error", "abort"} /\ b.why = "limit"
    <3>1. b = [a EXCEPT !.st = "abort", !.why = "limit"]
      BY DEF Errs
    <3> QED
      BY <1>0, <3>1 DEF Pipe, Reasons
  <2>5. http' = [http EXCEPT !["worker"] = r, !["api"] = b]
    BY <2>1
  <2> HIDE DEF r, b
  <2>6. http' \in [Conns -> Pipe] /\ http'["worker"] = r /\ http'["api"] = b
    BY <1>0, <2>3, <2>4, <2>5, SetBoth
  <2> QED
    BY <1>1, <2>2, <2>3, <2>4, <2>6 DEF PassesEnd
<1>4. CASE h.q = <<>> /\ h.st = "eof"
  <2>1. control' = [control EXCEPT !.pc = "over"] /\ http' = [http EXCEPT !["api"] = Ends(@, "eof")]
    BY <1>4 DEF ControlPass
  <2>2. control' \in ControlType /\ control'.pc = "over"
    BY <2>1 DEF Types, ControlType
  <2> DEFINE b == Ends(a, "eof")
  <2>3. b \in Pipe /\ b.q = a.q /\ b.st = "eof" /\ b.why = a.why
    BY <1>0, PipeOps
  <2>4. SetHttp("api", b)
    BY <2>1 DEF SetHttp
  <2> HIDE DEF b
  <2>5. http' \in [Conns -> Pipe] /\ http'["api"] = b /\ http'["worker"] = h
    BY <1>0, <2>3, <2>4, SetOne DEF Conns
  <2> QED
    BY <1>1, <1>4, <2>2, <2>3, <2>5 DEF PassesEnd
<1>5. CASE h.q = <<>> /\ h.st \in {"error", "abort"}
  <2> DEFINE why == IF h.st = "error" THEN h.why ELSE "unavailable"  b == Errs(a, control.begun, why)
  <2>1. control' = [control EXCEPT !.pc = "over"] /\ http' = [http EXCEPT !["api"] = b]
    BY <1>5 DEF ControlPass
  <2>2. control' \in ControlType /\ control'.pc = "over"
    BY <2>1 DEF Types, ControlType
  <2>3. why \in Reasons
    BY <1>0 DEF Pipe, Reasons
  <2>4. b \in Pipe /\ b.q = a.q /\ b.st \in {"error", "abort"} /\ b.why = why
    BY <1>0, <2>3, ErrsIs
  <2>5. SetHttp("api", b)
    BY <2>1 DEF SetHttp
  <2> HIDE DEF b
  <2>6. http' \in [Conns -> Pipe] /\ http'["api"] = b /\ http'["worker"] = h
    BY <1>0, <2>4, <2>5, SetOne DEF Conns
  <2> QED
    BY <1>1, <1>5, <2>2, <2>4, <2>6 DEF PassesEnd
<1>6. h.q # <<>> \/ (h.q = <<>> /\ h.st \in {"eof", "error", "abort"})
  BY DEF ControlPass
<1> QED
  BY <1>2, <1>3, <1>4, <1>5, <1>6

ControlGoneEffect ==
  /\ http["api"].st = "abort" /\ control' \in ControlType /\ control'.pc = "over"
  /\ http' \in [Conns -> Pipe] /\ http'["api"] = http["api"]
  /\ http'["worker"].q = http["worker"].q /\ http'["worker"].why = http["worker"].why
  /\ http'["worker"].st \in {http["worker"].st, "abort"}
  /\ UNCHANGED <<sdk, worker, source, queue, upload, file, left>>
LEMMA ControlGoneDoes ==
  ASSUME Types, ControlGone
  PROVE  ControlGoneEffect
<1> USE DEF ControlGoneEffect
<1>0. Connected
  BY Connections
<1> DEFINE h == http["worker"]  r == IF h.st = "open" THEN Ends(h, "abort") ELSE h
<1>1. /\ http["api"].st = "abort" /\ control' \in ControlType /\ control'.pc = "over" /\ SetHttp("worker", r)
      /\ UNCHANGED <<sdk, worker, source, queue, upload, file, left>>
  BY DEF ControlGone, Gone, Types, ControlType, flow, sandboxVars
<1>2. r \in Pipe /\ r.q = h.q /\ r.why = h.why /\ r.st \in {h.st, "abort"}
  BY <1>0, PipeOps DEF Connected
<1> HIDE DEF r
<1>3. http' \in [Conns -> Pipe] /\ http'["worker"] = r /\ http'["api"] = http["api"]
  BY <1>0, <1>1, <1>2, SetOne DEF Types, Connected, Conns
<1> QED
  BY <1>1, <1>2, <1>3

-----------------------------------------------------------------------------
(* The worker's steps *)

\* What a handler of the worker says last; its reader may be gone.
Answers(h) ==
  /\ worker' \in WorkerType /\ worker'.pc = "over" /\ http' \in [Conns -> Pipe]
  /\ http'["api"] = http["api"] /\ http'["worker"] \in {h, http["worker"]}
  /\ http'["worker"] = h \/ http["worker"].st = "abort"
LEMMA EndsIs ==
  ASSUME Types, NEW h \in Pipe, WorkerEnds(h)
  PROVE  Answers(h) /\ http'["worker"] = h
<1>1. worker' \in WorkerType /\ worker'.pc = "over"
  BY DEF WorkerEnds, Types, WorkerType
<1>2. http' \in [Conns -> Pipe] /\ http'["worker"] = h /\ http'["api"] = http["api"]
  BY SetOne DEF WorkerEnds, Types, Conns
<1> QED
  BY <1>1, <1>2 DEF Answers
LEMMA AnswersIs ==
  ASSUME Types, NEW h \in Pipe, WorkerAnswers(h)
  PROVE  Answers(h)
<1>1. Connected
  BY Connections
<1>2. CASE Gone("worker")
  <2>1. WorkerEnds(http["worker"])
    BY <1>2 DEF WorkerAnswers
  <2> QED
    BY <1>1, <1>2, <2>1, EndsIs DEF Answers, Connected, Gone
<1>3. CASE ~Gone("worker")
  BY <1>3, EndsIs DEF WorkerAnswers
<1> QED
  BY <1>2, <1>3

LEMMA SourceStartsIs ==
  ASSUME Types, SourceStarts
  PROVE  /\ source' \in SourceType /\ source'.pc = "run" /\ source'.at = 0 /\ source'.twice = source.twice
         /\ queue' = <<>> /\ queue' \in Seq(Item)
<1>1. source.twice \in BOOLEAN
  BY DEF Types, SourceType
<1> QED
  BY <1>1, EmptySeq DEF SourceStarts, SourceType

LEMMA WorkerGoIs ==
  ASSUME Types, NEW pc \in {"pull", "mkdir", "body", "tar", "over"}, worker' = [worker EXCEPT !.pc = pc]
  PROVE  worker' \in WorkerType /\ worker'.pc = pc /\ worker'.seen = worker.seen /\ worker'.rest = worker.rest
BY DEF Types, WorkerType

\* A handler that reads from a source starts it.
Starts ==
  /\ worker' \in WorkerType /\ worker'.pc = "pull" /\ worker'.seen = worker.seen /\ worker'.rest = worker.rest
  /\ source' \in SourceType /\ source'.pc = "run" /\ source'.at = 0 /\ source'.twice = source.twice
  /\ queue' = <<>> /\ queue' \in Seq(Item) /\ http' = http /\ left' = left
WorkerStartsEffect ==
  worker.pc = "start" /\ Starts /\ ~Writing /\ ~Starting /\ UNCHANGED <<sdk, control, upload, file>>
LEMMA WorkerStartsDoes ==
  ASSUME Types, WorkerDownload \/ WorkerPage \/ (WorkerCommand /\ ~Starting)
  PROVE  WorkerStartsEffect
<1> USE DEF WorkerStartsEffect
<1>1. /\ SourceStarts /\ worker' = [worker EXCEPT !.pc = "pull"] /\ http' = http /\ left' = left
      /\ worker.pc = "start" /\ ~Writing /\ ~Starting /\ UNCHANGED <<sdk, control, upload, file>>
  <2>1. CASE WorkerDownload
    BY <2>1 DEF WorkerDownload, WorkerOnly, sandboxVars, Reading, Files, Starting, Writing
  <2>2. CASE WorkerPage
    BY <2>2 DEF WorkerPage, WorkerOnly, sandboxVars, Starting, Writing
  <2>3. CASE WorkerCommand /\ ~Starting
    BY <2>3 DEF WorkerCommand, WorkerOnly, sandboxVars, Writing
  <2> QED
    BY <2>1, <2>2, <2>3
<1> QED
  BY <1>1, SourceStartsIs, WorkerGoIs DEF Starts

WorkerStreamEffect ==
  /\ worker.pc = "start" /\ Streaming
  /\ worker' \in WorkerType /\ worker'.pc = "pull" /\ worker'.seen = worker.seen /\ worker'.rest = worker.rest
  /\ UNCHANGED <<sdk, http, control, source, queue, upload, file, left>>
LEMMA WorkerStreamDoes ==
  ASSUME Types, WorkerStream
  PROVE  WorkerStreamEffect
<1> USE DEF WorkerStreamEffect
<1>1. /\ worker.pc = "start" /\ Streaming /\ worker' = [worker EXCEPT !.pc = "pull"]
      /\ UNCHANGED <<sdk, http, control, source, queue, upload, file, left>>
  BY DEF WorkerStream, WorkerOnly, flow, sandboxVars
<1> QED
  BY <1>1, WorkerGoIs

\* start_command answers as soon as the process has started.
WorkerCommandEffect ==
  /\ worker.pc = "start" /\ Starting
  /\ \E h \in Pipe : h.q = http["worker"].q /\ h.st = "eof"
                                            /\ h.why = http["worker"].why /\ Answers(h)
  /\ source' \in SourceType /\ source'.pc = "run" /\ source'.at = 0 /\ source'.twice = source.twice
  /\ queue' = <<>> /\ queue' \in Seq(Item)
  /\ UNCHANGED <<sdk, control, upload, file, left>>
LEMMA WorkerCommandDoes ==
  ASSUME Types, WorkerCommand, Starting
  PROVE  WorkerCommandEffect
<1> USE DEF WorkerCommandEffect
<1>1. /\ worker.pc = "start" /\ SourceStarts /\ WorkerAnswers(Ends(http["worker"], "eof"))
      /\ UNCHANGED <<sdk, control, upload, file, left>>
  BY DEF WorkerCommand, WorkerOnly, sandboxVars
<1>2. http["worker"] \in Pipe
  BY Connections DEF Connected
<1> DEFINE h == Ends(http["worker"], "eof")
<1>3. h \in Pipe /\ h.q = http["worker"].q /\ h.st = "eof" /\ h.why = http["worker"].why
  BY <1>2, PipeOps
<1>4. WorkerAnswers(h)
  BY <1>1
<1> HIDE DEF h
<1> QED
  BY <1>1, <1>3, <1>4, AnswersIs, SourceStartsIs

\* A handler ends in an error that is not about a directory.
Fails ==
  \E h \in Pipe : /\ h.q = http["worker"].q /\ h.st \in {"error", "abort"} /\ h.why # "is_directory" /\ Answers(h)
LEMMA FailsIs ==
  ASSUME Types, NEW begun, NEW why \in Reasons \ {"is_directory"},
         WorkerAnswers(Errs(http["worker"], begun, why))
  PROVE  Fails
<1> DEFINE h == Errs(http["worker"], begun, why)
<1>1. http["worker"] \in Pipe
  BY Connections DEF Connected
<1>2. h \in Pipe /\ h.q = http["worker"].q /\ h.st \in {"error", "abort"} /\ h.why = why
  BY <1>1, ErrsIs
<1>3. WorkerAnswers(h)
  OBVIOUS
<1> HIDE DEF h
<1> QED
  BY <1>2, <1>3, AnswersIs DEF Fails

WorkerRefusesEffect ==
  worker.pc = "start" /\ Fails /\ UNCHANGED <<sdk, control, source, queue, upload, file>>
LEMMA WorkerRefusesDoes ==
  ASSUME Types, WorkerRefuses
  PROVE  WorkerRefusesEffect
<1> USE DEF WorkerRefusesEffect
<1>1. /\ worker.pc = "start" /\ WorkerAnswers(Errs(http["worker"], FALSE, "refused"))
      /\ UNCHANGED <<sdk, control, source, queue, upload, file>>
  BY DEF WorkerRefuses, WorkerOnly, flow, sandboxVars
<1> QED
  BY <1>1, FailsIs DEF Reasons

WorkerGoneEffect ==
  /\ http["worker"].st = "abort" /\ worker' \in WorkerType /\ worker'.pc = "over"
  /\ UNCHANGED <<sdk, http, control, source, queue, upload, file, left>>
LEMMA WorkerGoneDoes ==
  ASSUME Types, WorkerGone
  PROVE  WorkerGoneEffect
BY WorkerGoIs DEF WorkerGone, Gone, flow, sandboxVars, WorkerGoneEffect

\* WorkerPull: the next item is an error, the end, the last block, or goes on.
PullFails(x) ==
  /\ worker'.pc = "over" /\ http'["worker"].q = http["worker"].q /\ http'["worker"].st \in {"error", "abort"}
  /\ http'["worker"].why = "is_directory" => Single /\ x = Dir
PullEnds(x) ==
  /\ worker'.pc = "over" /\ http'["worker"].q = http["worker"].q /\ http'["worker"].st = "eof"
  /\ http'["worker"].why = http["worker"].why
  /\ \/ x = <<"eof", 0>> /\ (Single => worker.rest <= 0 /\ worker.rest # -1)
     \/ Single /\ x[1] = "file" /\ worker.rest = -1 /\ x[2] = 0
PullPuts(x) ==
  /\ http'["worker"].q = Append(http["worker"].q, x) /\ x \notin {<<"fail", 0>>, <<"eof", 0>>}
  /\ http'["worker"].why = http["worker"].why
  /\ \/ Single /\ x[1] = "block" /\ worker.rest = 1 /\ worker'.pc = "over" /\ http'["worker"].st = "eof"
     \/ /\ worker'.pc = "pull" /\ worker'.seen = worker.seen + 1 /\ http'["worker"].st = "open"
        /\ ~Single \/ (worker'.rest = worker.rest - 1 /\ x # Dir
                       /\ (x[1] = "file" => worker.rest # -1) /\ (x[1] = "block" => worker.rest # 1))
PullFile(x) ==
  /\ worker'.pc = "pull" /\ worker'.seen = worker.seen + 1 /\ worker'.rest = x[2] /\ x[2] # 0
  /\ Single /\ x[1] = "file" /\ worker.rest = -1 /\ http'["worker"] = http["worker"]

LEMMA PullIs ==
  ASSUME Types, NEW h \in Pipe, h.st = "open", h = http["worker"], NEW x \in Item, WorkerPull, x = Head(queue)
  PROVE  \/ \E begun : \E why \in Reasons :
              WorkerEnds(Errs(h, begun, why)) /\ (why = "is_directory" => Single /\ x = Dir)
         \/ WorkerEnds(Ends(h, "eof")) /\ (\/ x = <<"eof", 0>> /\ (Single => worker.rest <= 0 /\ worker.rest # -1)
                                           \/ Single /\ x[1] = "file" /\ worker.rest = -1 /\ x[2] = 0)
         \/ x \notin {<<"fail", 0>>, <<"eof", 0>>} /\ Single /\ x[1] = "block" /\ worker.rest = 1
            /\ WorkerEnds(Ends(Put(h, x), "eof"))
         \/ x \notin {<<"fail", 0>>, <<"eof", 0>>} /\ SetHttp("worker", Put(h, x))
            /\ (\/ ~Single /\ worker' = [worker EXCEPT !.seen = worker.seen + 1, !.begun = TRUE]
                \/ /\ x # Dir /\ (x[1] = "file" => worker.rest # -1) /\ (x[1] = "block" => worker.rest # 1)
                   /\ worker' = [worker EXCEPT !.seen = worker.seen + 1, !.rest = @ - 1, !.begun = TRUE])
         \/ Single /\ x[1] = "file" /\ worker.rest = -1 /\ x[2] # 0 /\ UNCHANGED http
            /\ worker' = [worker EXCEPT !.seen = worker.seen + 1, !.rest = x[2]]
<1>1. CASE x = <<"fail", 0>>
  <2>1. WorkerEnds(Errs(h, worker.begun, "fails"))
    BY <1>1 DEF WorkerPull
  <2>2. "fails" \in Reasons /\ "fails" # "is_directory"
    BY DEF Reasons
  <2> QED
    BY <2>1, <2>2
<1>2. CASE x = <<"eof", 0>>
  <2> DEFINE bad == (worker.seen = 0 /\ source.code # 0) \/ (Single /\ (Short \/ worker.rest = -1))
  <2>1. WorkerEnds(IF bad THEN Errs(h, worker.begun, "missing") ELSE Ends(h, "eof"))
    BY <1>2 DEF WorkerPull
  <2>2. "missing" \in Reasons /\ "missing" # "is_directory"
    BY DEF Reasons
  <2>3. CASE bad
    <3>1. WorkerEnds(Errs(h, worker.begun, "missing"))
      BY <2>1, <2>3
    <3> QED
      BY <2>2, <3>1
  <2>4. CASE ~bad
    <3>1. Single => worker.rest <= 0 /\ worker.rest # -1
      BY <2>4 DEF Short, Types, WorkerType
    <3>2. WorkerEnds(Ends(h, "eof"))
      BY <2>1, <2>4
    <3> QED
      BY <1>2, <3>1, <3>2
  <2> QED
    BY <2>3, <2>4
<1>3. CASE x \notin {<<"fail", 0>>, <<"eof", 0>>} /\ Limited(worker.seen + 1)
  BY <1>3 DEF WorkerPull, Reasons
<1>4. CASE x \notin {<<"fail", 0>>, <<"eof", 0>>} /\ ~Limited(worker.seen + 1) /\ ~Single
  BY <1>4 DEF WorkerPull
<1>5. CASE x \notin {<<"fail", 0>>, <<"eof", 0>>} /\ ~Limited(worker.seen + 1) /\ Single /\ x = Dir
  BY <1>5 DEF WorkerPull, Reasons, Dir
<1>6. CASE x \notin {<<"fail", 0>>, <<"eof", 0>>} /\ ~Limited(worker.seen + 1) /\ Single /\ x[1] = "file" /\ worker.rest = -1
  BY <1>6 DEF WorkerPull, Dir
<1>7. CASE x \notin {<<"fail", 0>>, <<"eof", 0>>} /\ ~Limited(worker.seen + 1) /\ Single /\ x[1] = "block" /\ worker.rest = 1
  BY <1>7 DEF WorkerPull, Dir
<1>8. CASE /\ x \notin {<<"fail", 0>>, <<"eof", 0>>} /\ ~Limited(worker.seen + 1) /\ Single /\ x # Dir
           /\ ~(x[1] = "file" /\ worker.rest = -1) /\ ~(x[1] = "block" /\ worker.rest = 1)
  BY <1>8 DEF WorkerPull, Dir
<1> QED
  BY <1>1, <1>2, <1>3, <1>4, <1>5, <1>6, <1>7, <1>8

WorkerPullEffect ==
  /\ worker.pc = "pull" /\ queue # <<>> /\ queue' = Tail(queue) /\ http["worker"].st = "open"
  /\ worker' \in WorkerType /\ http' \in [Conns -> Pipe] /\ http'["api"] = http["api"]
  /\ PullFails(Head(queue)) \/ PullEnds(Head(queue)) \/ PullPuts(Head(queue)) \/ PullFile(Head(queue))
  /\ UNCHANGED <<sdk, control, source, upload, file, left>>
LEMMA WorkerPullDoes ==
  ASSUME Types, WorkerPull
  PROVE  WorkerPullEffect
<1> USE DEF WorkerPullEffect
<1> DEFINE h == http["worker"]  x == Head(queue)
<1>1. /\ worker.pc = "pull" /\ queue # <<>> /\ queue' = Tail(queue) /\ h.st = "open"
      /\ UNCHANGED <<sdk, control, source, upload, file, left>>
  BY DEF WorkerPull, sandboxVars
<1>2. h \in Pipe /\ http \in [Conns -> Pipe] /\ worker \in WorkerType
  BY Connections DEF Connected, Types
<1>3. x \in Item
  BY <1>1, HeadTailProperties DEF Types
<1>4. worker.seen + 1 \in Nat /\ worker.rest - 1 \in Int /\ x[2] \in Int
  BY <1>2, <1>3 DEF WorkerType, Item
<1>5. CASE \E begun : \E why \in Reasons : /\ WorkerEnds(Errs(h, begun, why))
                                           /\ why = "is_directory" => Single /\ x = Dir
  <2>5. PICK begun : \E why \in Reasons : /\ WorkerEnds(Errs(h, begun, why))
                                          /\ why = "is_directory" => Single /\ x = Dir
    BY <1>5
  <2>1. PICK why \in Reasons : WorkerEnds(Errs(h, begun, why)) /\ (why = "is_directory" => Single /\ x = Dir)
    BY <2>5
  <2> DEFINE r == Errs(h, begun, why)
  <2>2. r \in Pipe /\ r.q = h.q /\ r.st \in {"error", "abort"} /\ r.why = why
    BY <1>2, ErrsIs
  <2>3. WorkerEnds(r)
    BY <2>1
  <2> HIDE DEF r
  <2>4. Answers(r) /\ http'["worker"] = r
    BY <2>2, <2>3, EndsIs
  <2> QED
    BY <1>1, <2>1, <2>2, <2>4 DEF Answers, PullFails
<1>6. CASE /\ WorkerEnds(Ends(h, "eof"))
           /\ \/ x = <<"eof", 0>> /\ (Single => worker.rest <= 0 /\ worker.rest # -1)
              \/ Single /\ x[1] = "file" /\ worker.rest = -1 /\ x[2] = 0
  <2> DEFINE r == Ends(h, "eof")
  <2>1. r \in Pipe /\ r.q = h.q /\ r.st = "eof" /\ r.why = h.why
    BY <1>2, PipeOps
  <2>2. WorkerEnds(r)
    BY <1>6
  <2> HIDE DEF r
  <2>3. Answers(r) /\ http'["worker"] = r
    BY <2>1, <2>2, EndsIs
  <2>4. PullEnds(x)
    BY <1>6, <2>1, <2>3 DEF Answers, PullEnds
  <2> QED
    BY <1>1, <2>1, <2>3, <2>4 DEF Answers
<1>7. CASE /\ x \notin {<<"fail", 0>>, <<"eof", 0>>} /\ Single /\ x[1] = "block" /\ worker.rest = 1
           /\ WorkerEnds(Ends(Put(h, x), "eof"))
  <2> DEFINE p == Put(h, x)
  <2>1. p \in Pipe /\ p.q = Append(h.q, x) /\ p.why = h.why
    BY <1>2, <1>3, PutIs
  <2>2. WorkerEnds(Ends(p, "eof"))
    BY <1>7
  <2> HIDE DEF p
  <2> DEFINE r == Ends(p, "eof")
  <2>3. r \in Pipe /\ r.q = p.q /\ r.st = "eof" /\ r.why = p.why
    BY <2>1, PipeOps
  <2>4. WorkerEnds(r)
    BY <2>2
  <2> HIDE DEF r
  <2>5. Answers(r) /\ http'["worker"] = r
    BY <2>3, <2>4, EndsIs
  <2>6. PullPuts(x)
    BY <1>7, <2>1, <2>3, <2>5 DEF Answers, PullPuts
  <2> QED
    BY <1>1, <2>1, <2>3, <2>5, <2>6 DEF Answers
<1>8. CASE /\ x \notin {<<"fail", 0>>, <<"eof", 0>>} /\ SetHttp("worker", Put(h, x))
           /\ \/ ~Single /\ worker' = [worker EXCEPT !.seen = worker.seen + 1, !.begun = TRUE]
              \/ /\ x # Dir /\ (x[1] = "file" => worker.rest # -1) /\ (x[1] = "block" => worker.rest # 1)
                 /\ worker' = [worker EXCEPT !.seen = worker.seen + 1, !.rest = @ - 1, !.begun = TRUE]
  <2> DEFINE p == Put(h, x)
  <2>1. p \in Pipe /\ p.q = Append(h.q, x) /\ p.st = h.st /\ p.why = h.why
    BY <1>2, <1>3, PutIs
  <2>2. SetHttp("worker", p)
    BY <1>8
  <2> HIDE DEF p
  <2>3. http' \in [Conns -> Pipe] /\ http'["worker"] = p /\ http'["api"] = http["api"]
    BY <1>2, <2>1, <2>2, SetOne DEF Conns
  <2>4. CASE ~Single /\ worker' = [worker EXCEPT !.seen = worker.seen + 1, !.begun = TRUE]
    <3>1. worker' \in WorkerType /\ worker'.pc = "pull" /\ worker'.seen = worker.seen + 1
      BY <1>1, <1>2, <1>4, <2>4 DEF WorkerType
    <3> QED
      BY <1>1, <1>8, <2>1, <2>3, <2>4, <3>1 DEF PullPuts
  <2>5. CASE /\ x # Dir /\ (x[1] = "file" => worker.rest # -1) /\ (x[1] = "block" => worker.rest # 1)
             /\ worker' = [worker EXCEPT !.seen = worker.seen + 1, !.rest = @ - 1, !.begun = TRUE]
    <3>1. worker' = [worker EXCEPT !.seen = worker.seen + 1, !.rest = worker.rest - 1, !.begun = TRUE]
      BY <2>5
    <3>2. worker' \in WorkerType /\ worker'.pc = "pull" /\ worker'.seen = worker.seen + 1
          /\ worker'.rest = worker.rest - 1
      BY <1>1, <1>2, <1>4, <3>1 DEF WorkerType
    <3> QED
      BY <1>1, <1>8, <2>1, <2>3, <2>5, <3>2 DEF PullPuts
  <2> QED
    BY <1>8, <2>4, <2>5
<1>9. CASE /\ Single /\ x[1] = "file" /\ worker.rest = -1 /\ x[2] # 0 /\ UNCHANGED http
           /\ worker' = [worker EXCEPT !.seen = worker.seen + 1, !.rest = x[2]]
  <2>1. worker' \in WorkerType /\ worker'.pc = "pull" /\ worker'.seen = worker.seen + 1 /\ worker'.rest = x[2]
    BY <1>1, <1>2, <1>4, <1>9 DEF WorkerType
  <2> QED
    BY <1>1, <1>2, <1>9, <2>1 DEF PullFile
<1> QED
  BY ZenonT(60), <1>1, <1>2, <1>3, <1>5, <1>6, <1>7, <1>8, <1>9, PullIs

\* What a source does: it emits the next item, ends, fails, waits for room or is given up.
Emits ==
  /\ source.at < Len(Stream) /\ queue' = Append(queue, Stream[source.at + 1])
  /\ source'.pc = "run" /\ source'.at = source.at + 1 /\ source'.twice = source.twice
EmitsEnd ==
  /\ queue' = Append(queue, <<"eof", 0>>) /\ source'.pc = "over" /\ source'.twice = source.twice
  /\ source.at >= Len(Stream) \/ (Reading /\ left.tar /\ left.fails > 0)
EmitsFail == queue' = Append(queue, <<"fail", 0>>) /\ source'.pc = "over" /\ source'.twice = source.twice
Rests == queue' = queue /\ source'.pc = "run" /\ source'.at = source.at /\ source'.twice = source.twice
Stopped == queue' = queue /\ source'.pc = "over" /\ source'.twice = source.twice /\ worker.pc = "over"
Repeats == source'.twice

LEMMA SourceOverIs ==
  ASSUME Types, NEW code \in Nat, SourceOver(code)
  PROVE  source' \in SourceType /\ source'.pc = "over" /\ source'.twice = source.twice
BY DEF Types, SourceType, SourceOver

LEMMA QueueGrows == ASSUME Types, NEW x \in Item, queue' = Append(queue, x) PROVE queue' \in Seq(Item)
BY AppendProperties DEF Types

LEMMA NextItem ==
  ASSUME Types, source.at < Len(Stream)
  PROVE  Stream[source.at + 1] \in Item /\ Stream[source.at + 1] \notin {<<"eof", 0>>, <<"fail", 0>>}
<1>1. source.at + 1 \in 1..Len(Stream) /\ Stream \in Seq(Item) /\ left \in LoadType
  BY StreamIs, LenProperties DEF Types, SourceType
<1> QED
  BY <1>1, StreamIs, ElementOfSeq

ExecEmitsEffect ==
  /\ source.pc = "run" /\ source' \in SourceType /\ queue' \in Seq(Item)
  /\ Emits \/ EmitsEnd \/ EmitsFail
  /\ UNCHANGED <<sdk, http, control, worker, upload, file>>
LEMMA ExecEmitsDoes ==
  ASSUME Types, ExecEmits
  PROVE  ExecEmitsEffect
<1> USE DEF ExecEmitsEffect
<1>1. /\ source.pc = "run" /\ Exec /\ UNCHANGED <<sdk, http, control, worker, upload, file>>
  BY DEF ExecEmits, sandboxVars
<1>2. CASE /\ source.at < Len(Stream) /\ Emit(Stream[source.at + 1])
           /\ source' = [source EXCEPT !.at = @ + 1]
  <2>1. source' \in SourceType /\ source'.pc = "run" /\ source'.at = source.at + 1 /\ source'.twice = source.twice
    BY <1>1, <1>2 DEF Types, SourceType
  <2> QED
    BY <1>1, <1>2, <2>1, NextItem, QueueGrows DEF Emits, Emit
<1>3. CASE /\ source.at = Len(Stream) /\ Emit(<<"eof", 0>>)
           /\ SourceOver(IF left.kind = "missing" THEN 1 ELSE 0)
  BY <1>1, <1>3, ItemsTyped, QueueGrows, SourceOverIs DEF EmitsEnd, Emit, Types, SourceType
<1>4. CASE /\ Take("fails") /\ SourceOver(1)
           /\ \E how \in {"eof", "fail"} : (how = "eof" => Reading) /\ Emit(<<how, 0>>)
  <2>1. left.fails > 0
    BY <1>4 DEF Take
  <2>2. source' \in SourceType /\ source'.pc = "over" /\ source'.twice = source.twice
    BY <1>4, SourceOverIs
  <2>3. (Reading /\ queue' = Append(queue, <<"eof", 0>>)) \/ queue' = Append(queue, <<"fail", 0>>)
    BY <1>4 DEF Emit
  <2> QED
    BY <1>1, <2>1, <2>2, <2>3, ItemsTyped, QueueGrows DEF EmitsEnd, EmitsFail, Exec
<1>5. \/ source.at < Len(Stream) /\ Emit(Stream[source.at + 1]) /\ source' = [source EXCEPT !.at = @ + 1]
      \/ source.at = Len(Stream) /\ Emit(<<"eof", 0>>) /\ SourceOver(IF left.kind = "missing" THEN 1 ELSE 0)
      \/ Take("fails") /\ SourceOver(1) /\ \E how \in {"eof", "fail"} : (how = "eof" => Reading) /\ Emit(<<how, 0>>)
  BY DEF ExecEmits
<1> QED
  BY <1>2, <1>3, <1>4, <1>5

CopyOffersEffect ==
  /\ source.pc = "run" /\ source' \in SourceType /\ queue' \in Seq(Item)
  /\ Emits \/ EmitsEnd \/ EmitsFail \/ Rests \/ Repeats
  /\ UNCHANGED <<sdk, http, control, worker, upload, file>>
  /\ source.twice => source'.twice
LEMMA CopyOffersDoes ==
  ASSUME Types, CopyOffers
  PROVE  CopyOffersEffect
<1> USE DEF CopyOffersEffect
<1>1. source.pc = "run" /\ UNCHANGED <<sdk, http, control, worker, upload, file>>
  BY DEF CopyOffers, sandboxVars
<1>2. source \in SourceType /\ queue \in Seq(Item) /\ source.at + 1 \in Nat /\ Len(Stream) \in Nat
  BY StreamIs, LenProperties DEF Types, SourceType
<1>3. CopyItem \in Item /\ (source.at < Len(Stream) => CopyItem = Stream[source.at + 1] /\ CopyItem # <<"eof", 0>>)
      /\ (~(source.at < Len(Stream)) => CopyItem = <<"eof", 0>>)
  BY NextItem, ItemsTyped DEF CopyItem
<1>4. CASE source' = [source EXCEPT !.full = TRUE] /\ UNCHANGED queue
  BY <1>1, <1>2, <1>4 DEF SourceType, Rests
<1>5. CASE /\ Emit(CopyItem)
           /\ source' = [source EXCEPT !.at = @ + 1, !.full = FALSE,
                                       !.pc = IF CopyItem = <<"eof", 0>> THEN "over" ELSE "run"]
  <2> DEFINE pc == IF CopyItem = <<"eof", 0>> THEN "over" ELSE "run"
  <2>1. source' = [source EXCEPT !.at = source.at + 1, !.full = FALSE, !.pc = pc] /\ pc \in {"run", "over"}
    BY <1>5
  <2> HIDE DEF pc
  <2>2. source' \in SourceType /\ source'.pc = pc /\ source'.at = source.at + 1 /\ source'.twice = source.twice
    BY <1>2, <2>1 DEF SourceType
  <2>3. queue' = Append(queue, CopyItem) /\ queue' \in Seq(Item)
    BY <1>3, <1>5, QueueGrows DEF Emit
  <2>4. CASE source.at < Len(Stream)
    BY <1>1, <1>3, <2>2, <2>3, <2>4 DEF Emits, pc
  <2>5. CASE ~(source.at < Len(Stream))
    <3>1. source.at >= Len(Stream)
      BY <1>2, <2>5 DEF SourceType
    <3> QED
      BY <1>1, <1>3, <2>2, <2>3, <2>5, <3>1 DEF EmitsEnd, pc
  <2> QED
    BY <2>4, <2>5
<1>6. CASE Emit(CopyItem) /\ source' = [source EXCEPT !.full = FALSE, !.twice = TRUE]
  <2>1. source' \in SourceType /\ source'.twice
    BY <1>2, <1>6 DEF SourceType
  <2> QED
    BY <1>1, <1>3, <1>6, <2>1, QueueGrows DEF Repeats, Emit
<1>7. CASE Emit(<<"fail", 0>>) /\ SourceOver(1)
  BY <1>1, <1>7, ItemsTyped, QueueGrows, SourceOverIs DEF EmitsFail, Emit
<1>8. \/ source' = [source EXCEPT !.full = TRUE] /\ UNCHANGED queue
      \/ /\ Emit(CopyItem)
         /\ source' = [source EXCEPT !.at = @ + 1, !.full = FALSE,
                                     !.pc = IF CopyItem = <<"eof", 0>> THEN "over" ELSE "run"]
      \/ Emit(CopyItem) /\ source' = [source EXCEPT !.full = FALSE, !.twice = TRUE]
      \/ Emit(<<"fail", 0>>) /\ SourceOver(1)
  BY DEF CopyOffers
<1> QED
  BY <1>4, <1>5, <1>6, <1>7, <1>8

CopyStopsEffect ==
  /\ source.pc = "run" /\ source' \in SourceType /\ Stopped
  /\ UNCHANGED <<sdk, http, control, worker, queue, upload, file, left>>
LEMMA CopyStopsDoes ==
  ASSUME Types, CopyStops
  PROVE  CopyStopsEffect
<1> USE DEF CopyStopsEffect
<1>1. /\ source.pc = "run" /\ worker.pc = "over" /\ SourceOver(0)
      /\ UNCHANGED <<sdk, http, control, worker, queue, upload, file, left>>
  BY DEF CopyStops, Abandoned, sandboxVars
<1> QED
  BY <1>1, SourceOverIs DEF Stopped

\* An upload: the directory and the body come first; then tar starts, or the call fails.
StagesEffect ==
  /\ worker' \in WorkerType /\ worker'.pc \in {"mkdir", "body"} /\ worker.pc \in {"start", "mkdir"}
  /\ worker.pc = "start" => Writing
  /\ UNCHANGED <<sdk, http, control, source, queue, upload, file, left>>
LEMMA UploadStages ==
  ASSUME Types, MakeDir \/ MkdirWaited
  PROVE  StagesEffect
<1> USE DEF StagesEffect
<1>1. CASE MakeDir
  BY <1>1, WorkerGoIs DEF MakeDir, WorkerGo, UploadOnly, flow
<1>2. CASE MkdirWaited
  BY <1>2, WorkerGoIs DEF MkdirWaited, WorkerGo, UploadOnly, flow, sandboxVars
<1> QED
  BY <1>1, <1>2

ExtractEffect ==
  /\ worker.pc = "body" /\ upload.worker = left.n
  /\ \/ /\ file' = [new |-> TRUE, blocks |-> 0] /\ worker' \in WorkerType /\ worker'.pc = "tar" /\ http' = http
     \/ file' = file /\ Fails
  /\ UNCHANGED <<sdk, control, source, queue, upload, left>>
LEMMA ExtractDoes ==
  ASSUME Types, Extract
  PROVE  ExtractEffect
<1> USE DEF ExtractEffect
<1>1. worker.pc = "body" /\ upload.worker = left.n /\ UNCHANGED <<sdk, control, source, queue, upload, left>>
  BY DEF Extract, Spooled, UploadOnly, flow
<1>2. CASE mkdir = "yes"
  BY <1>1, <1>2, WorkerGoIs DEF Extract, WorkerGo
<1>3. CASE mkdir # "yes"
  <2>1. WorkerAnswers(Errs(http["worker"], FALSE, "no directory")) /\ file' = file
    BY <1>3 DEF Extract
  <2> QED
    BY <1>1, <2>1, FailsIs DEF Reasons
<1> QED
  BY <1>2, <1>3

TarReadsEffect ==
  /\ worker.pc = "tar"
  /\ \/ /\ file.blocks < upload.worker /\ file' = [file EXCEPT !.blocks = @ + 1] /\ UNCHANGED <<worker, http>>
     \/ /\ file.blocks = upload.worker /\ file' = file
        /\ \E h \in Pipe : /\ h.q = http["worker"].q /\ h.st = "eof" /\ h.why = http["worker"].why /\ Answers(h)
     \/ file' = file /\ Fails
  /\ UNCHANGED <<sdk, control, source, queue, upload>>
LEMMA TarReadsDoes ==
  ASSUME Types, TarReads
  PROVE  TarReadsEffect
<1> USE DEF TarReadsEffect
<1>1. worker.pc = "tar" /\ UNCHANGED <<sdk, control, source, queue, upload>>
  BY DEF TarReads, UploadOnly, flow
<1>2. CASE file.blocks < upload.worker /\ file' = [file EXCEPT !.blocks = @ + 1] /\ UNCHANGED <<worker, http>>
  BY <1>1, <1>2
<1>3. CASE file.blocks = upload.worker /\ file' = file /\ WorkerAnswers(Ends(http["worker"], "eof"))
  <2> DEFINE h == Ends(http["worker"], "eof")
  <2>1. http["worker"] \in Pipe
    BY Connections DEF Connected
  <2>2. h \in Pipe /\ h.q = http["worker"].q /\ h.st = "eof" /\ h.why = http["worker"].why
    BY <2>1, PipeOps
  <2>3. WorkerAnswers(h)
    BY <1>3
  <2> HIDE DEF h
  <2>4. Answers(h)
    BY <2>2, <2>3, AnswersIs
  <2> QED
    BY <1>1, <1>3, <2>2, <2>4
<1>4. CASE file' = file /\ WorkerAnswers(Errs(http["worker"], FALSE, "tar"))
  BY <1>1, <1>4, FailsIs DEF Reasons
<1>5. \/ file.blocks < upload.worker /\ file' = [file EXCEPT !.blocks = @ + 1] /\ UNCHANGED <<worker, http>>
      \/ file.blocks = upload.worker /\ file' = file /\ WorkerAnswers(Ends(http["worker"], "eof"))
      \/ file' = file /\ WorkerAnswers(Errs(http["worker"], FALSE, "tar"))
  BY DEF TarReads
<1> QED
  BY <1>2, <1>3, <1>4, <1>5

CutEffect(c) ==
  /\ http' \in [Conns -> Pipe] /\ http'[c].st = "abort" /\ http'[c].why = "cut" /\ http[c].st \in {"open", "eof"}
  /\ \E k \in 0..Len(http[c].q) : http'[c].q = SubSeq(http[c].q, 1, k)
  /\ \A d \in Conns \ {c} : http'[d] = http[d]
  /\ UNCHANGED <<sdk, control, worker, source, queue, upload, file>>
LEMMA CutDoes ==
  ASSUME Types, NEW c \in Conns, Cut(c)
  PROVE  CutEffect(c)
<1> USE DEF CutEffect
<1>1. http[c].st \in {"open", "eof"} /\ UNCHANGED <<sdk, control, worker, source, queue, upload, file>>
  BY DEF Cut, flow, sandboxVars
<1>2. PICK k \in 0..Len(http[c].q) : SetHttp(c, [q |-> SubSeq(http[c].q, 1, k), st |-> "abort", why |-> "cut"])
  BY DEF Cut
<1> DEFINE h == [q |-> SubSeq(http[c].q, 1, k), st |-> "abort", why |-> "cut"]
<1>3. SubSeq(http[c].q, 1, k) \in Seq(Item)
  <2>1. http[c].q \in Seq(Item)
    BY DEF Types, Pipe
  <2> QED
    BY <2>1, PieceCut
<1>4. h \in Pipe /\ h.q = SubSeq(http[c].q, 1, k) /\ h.st = "abort" /\ h.why = "cut"
  BY <1>3 DEF Pipe, Reasons
<1>5. SetHttp(c, h)
  BY <1>2
<1> HIDE DEF h
<1>6. http' \in [Conns -> Pipe] /\ http'[c] = h /\ \A d \in Conns \ {c} : http'[d] = http[d]
  BY <1>4, <1>5, SetOne DEF Types
<1> QED
  BY <1>1, <1>4, <1>6

\* The others: bodies move on.
IdleEffect ==
  /\ UNCHANGED <<sdk, http, control, worker, source, queue, file>>
  /\ upload' \in [sdk : Nat, control : Nat, worker : Nat]
  /\ upload'.worker = upload.worker \/ worker.pc = "body"

\* Each step has one of these effects, and keeps the load.
Effect ==
  \/ AsksEffect \/ ReceiveEffect \/ (control.pc = "start" /\ ForwardsEffect) \/ ControlPassEffect \/ ControlGoneEffect
  \/ WorkerStartsEffect \/ WorkerCommandEffect \/ WorkerStreamEffect \/ WorkerRefusesEffect
  \/ WorkerPullEffect \/ WorkerGoneEffect \/ ExecEmitsEffect \/ CopyOffersEffect \/ CopyStopsEffect
  \/ StagesEffect \/ ExtractEffect \/ TarReadsEffect \/ IdleEffect \/ \E c \in Conns : CutEffect(c)

LEMMA Loaded == ASSUME Types, [Next]_vars PROVE Same
<1>1. CASE AskFile
  BY <1>1, Taking DEF Types, AskFile, Asks
<1>2. CASE AskCommand
  BY <1>2, Taking DEF Types, AskCommand, Asks
<1>3. CASE AskPage
  BY <1>3, Taking DEF Types, AskPage, Asks
<1>4. CASE Receive
  BY <1>4, Taking DEF Types, Receive, Again, Result, Starting
<1>5. CASE SendBody
  BY <1>5, Taking DEF Types, SendBody
<1>6. CASE ControlUpload
  BY <1>6, Taking DEF Types, ControlUpload, Forwards, ControlOnly
<1>7. CASE ControlDownload
  BY <1>7, Taking DEF Types, ControlDownload, Forwards, ControlOnly
<1>8. CASE ControlCommand
  BY <1>8, Taking DEF Types, ControlCommand, Forwards, ControlOnly, Starting
<1>9. CASE ControlStream
  BY <1>9, Taking DEF Types, ControlStream, Forwards, ControlOnly, Streaming
<1>10. CASE ControlPage
  BY <1>10, Taking DEF Types, ControlPage, Forwards, ControlOnly
<1>11. CASE ControlPass
  BY <1>11, Taking DEF Types, ControlPass
<1>12. CASE PassBody
  BY <1>12, Taking DEF Types, PassBody
<1>13. CASE ControlGone
  BY <1>13, Taking DEF Types, ControlGone
<1>14. CASE WorkerRefuses
  BY <1>14, Taking DEF Types, WorkerRefuses, WorkerAnswers, WorkerEnds, WorkerOnly
<1>15. CASE WorkerDownload
  BY <1>15, Taking DEF Types, WorkerDownload, WorkerOnly, Reading, Files, SourceStarts
<1>16. CASE WorkerCommand
  BY <1>16, Taking DEF Types, WorkerCommand, WorkerAnswers, WorkerEnds, WorkerOnly, Starting, SourceStarts
<1>17. CASE WorkerStream
  BY <1>17, Taking DEF Types, WorkerStream, WorkerOnly, Streaming
<1>18. CASE WorkerPage
  BY <1>18, Taking DEF Types, WorkerPage, WorkerOnly, SourceStarts
<1>19. CASE WorkerPull
  BY <1>19, Taking DEF Types, WorkerPull, WorkerEnds
<1>20. CASE WorkerGone
  BY <1>20, Taking DEF Types, WorkerGone
<1>21. CASE ExecEmits
  BY <1>21, Taking DEF Types, ExecEmits, SourceOver, Emit
<1>22. CASE CopyOffers
  BY <1>22, Taking DEF Types, CopyOffers, SourceOver, Emit
<1>23. CASE CopyStops
  BY <1>23, Taking DEF Types, CopyStops, SourceOver
<1>24. CASE MakeDir
  BY <1>24, Taking DEF Types, MakeDir, WorkerGo, UploadOnly
<1>25. CASE MkdirRuns
  BY <1>25, Taking DEF Types, MkdirRuns, UploadOnly
<1>26. CASE MkdirWaited
  BY <1>26, Taking DEF Types, MkdirWaited, WorkerGo, UploadOnly
<1>27. CASE Spool
  BY <1>27, Taking DEF Types, Spool, UploadOnly
<1>28. CASE Extract
  BY <1>28, Taking DEF Types, Extract, UploadOnly, WorkerGo, WorkerAnswers, WorkerEnds, Spooled
<1>29. CASE TarReads
  BY <1>29, Taking DEF Types, TarReads, UploadOnly, WorkerAnswers, WorkerEnds
<1>30. ASSUME NEW c \in Conns, Cut(c) PROVE Same
  BY <1>30, Taking DEF Types, Cut
<1>31. CASE UNCHANGED vars
  BY <1>31, Taking DEF Types, vars
<1> QED
  BY <1>1, <1>2, <1>3, <1>4, <1>5, <1>6, <1>7, <1>8, <1>9, <1>10, <1>11, <1>12, <1>13, <1>14, <1>15, <1>16,
     <1>17, <1>18, <1>19, <1>20, <1>21, <1>22, <1>23, <1>24, <1>25, <1>26, <1>27, <1>28, <1>29, <1>30, <1>31 DEF
     Next, Step

LEMMA Effects == ASSUME Types, [Next]_vars PROVE Effect
<1>1. CASE AskFile \/ AskCommand \/ AskPage
  BY <1>1, AsksDoes DEF AskFile, AskCommand, AskPage, Effect
<1>2. CASE Receive
  BY <1>2, ReceiveDoes DEF Effect
<1>3. CASE ControlUpload
  <2>1. control.pc = "start" /\ ControlOnly
    BY <1>3 DEF ControlUpload
  <2>2. CASE Forwards(FALSE)
    BY <2>1, <2>2, ForwardsDoes DEF Effect
  <2>3. CASE /\ control' = [control EXCEPT !.pc = "over"] /\ UNCHANGED <<worker, left>>
             /\ SetHttp("api", Errs(http["api"], Gone("api"), "limit"))
    <3>1. Gone("api") \in BOOLEAN
      BY DEF Gone
    <3>2. Refused /\ http' \in [Conns -> Pipe] /\ control' \in ControlType /\ worker' \in WorkerType
      BY <2>3, <3>1, RefusedBy
    <3> QED
      BY <2>1, <3>2 DEF ForwardsEffect, Effect, ControlOnly, flow, sandboxVars
  <2> QED
    BY <1>3, <2>2, <2>3 DEF ControlUpload
<1>4. CASE ControlDownload \/ ControlCommand \/ ControlPage
  <2>1. control.pc = "start" /\ ControlOnly /\ Forwards(FALSE)
    BY <1>4 DEF ControlDownload, ControlCommand, ControlPage
  <2> QED
    BY <2>1, ForwardsDoes DEF Effect
<1>5. CASE ControlStream
  <2>1. control.pc = "start" /\ ControlOnly /\ Forwards(TRUE)
    BY <1>5 DEF ControlStream
  <2> QED
    BY <2>1, ForwardsDoes DEF Effect
<1>6. CASE ControlPass
  BY <1>6, ControlPassDoes DEF Effect
<1>7. CASE ControlGone
  BY <1>7, ControlGoneDoes DEF Effect
<1>8. CASE WorkerDownload \/ WorkerPage \/ (WorkerCommand /\ ~Starting)
  BY <1>8, WorkerStartsDoes DEF Effect
<1>9. CASE WorkerCommand /\ Starting
  BY <1>9, WorkerCommandDoes DEF Effect
<1>10. CASE WorkerStream
  BY <1>10, WorkerStreamDoes DEF Effect
<1>11. CASE WorkerRefuses
  BY <1>11, WorkerRefusesDoes DEF Effect
<1>12. CASE WorkerPull
  BY <1>12, WorkerPullDoes DEF Effect
<1>13. CASE WorkerGone
  BY <1>13, WorkerGoneDoes DEF Effect
<1>14. CASE ExecEmits
  BY <1>14, ExecEmitsDoes DEF Effect
<1>15. CASE CopyOffers
  BY <1>15, CopyOffersDoes DEF Effect
<1>16. CASE CopyStops
  BY <1>16, CopyStopsDoes DEF Effect
<1>17. CASE MakeDir \/ MkdirWaited
  BY <1>17, UploadStages DEF Effect
<1>18. CASE Extract
  BY <1>18, ExtractDoes DEF Effect
<1>19. CASE TarReads
  BY <1>19, TarReadsDoes DEF Effect
<1>20. CASE SendBody \/ PassBody \/ Spool \/ MkdirRuns
  <2>1. IdleEffect
    BY <1>20 DEF SendBody, PassBody, Spool, MkdirRuns, UploadOnly, flow, sandboxVars, IdleEffect, Types
  <2> QED
    BY <2>1 DEF Effect
<1>21. ASSUME NEW c \in Conns, Cut(c) PROVE Effect
  BY <1>21, CutDoes DEF Effect
<1>22. CASE UNCHANGED vars
  BY <1>22 DEF vars, IdleEffect, Effect, Types
<1> QED
  BY <1>1, <1>2, <1>3, <1>4, <1>5, <1>6, <1>7, <1>8, <1>9, <1>10, <1>11, <1>12, <1>13, <1>14, <1>15, <1>16,
     <1>17, <1>18, <1>19, <1>20, <1>21, <1>22 DEF Next, Step

-----------------------------------------------------------------------------
(* The order of the stages *)

\* The stages of a request follow each other.
OneByOne ==
  /\ sdk.pc # "done" => sdk.res = ""
  /\ sdk.pc = "ask" => control.pc = "over" /\ worker.pc = "over"
  /\ control.pc = "start" => worker.pc = "over"
  /\ worker.pc = "start" => worker.seen = 0 /\ worker.rest = -1
\* The control plane works on an open connection, or on one that has broken.
Opened ==
  control.pc \in {"start", "pass"} => http["api"].st = "abort" \/ (http["api"].st = "open" /\ sdk.pc = "wait")
\* An answer that is over is from a handler that is over.
Endings ==
  /\ control.pc = "pass" /\ http["worker"].st \in {"eof", "error"} => worker.pc = "over"
  /\ sdk.pc = "wait" /\ http["api"].st = "eof" => worker.pc = "over"
  /\ sdk.pc = "wait" /\ http["api"].st = "error" /\ http["api"].why = "is_directory" => worker.pc = "over"
\* Who asks twice, and who is pulled.
Twice ==
  /\ sdk.again => Reading \/ left.kind = "events"
  /\ http["api"].why = "is_directory" => Reading
  /\ http["worker"].why = "is_directory" => Reading
  /\ worker.pc = "pull" => ~Writing /\ ~Starting
Order == OneByOne /\ Opened /\ Endings /\ Twice

\* What is being written has arrived in full.
SpooledFirst == file.new => upload.worker = left.n
\* An upload goes once through its stages, and nothing else writes.
Uploads ==
  /\ Writing /\ (sdk.pc = "ask" \/ control.pc = "start" \/ worker.pc \in {"start", "mkdir", "body"}) => ~file.new
  /\ ~Writing => worker.pc \notin {"mkdir", "body", "tar"} /\ ~file.new
  /\ SpooledFirst

Base == Types /\ Order /\ Uploads

LEMMA BaseStep == ASSUME Base, Effect, Same PROVE Base'
<1>0. Types /\ Order /\ Uploads /\ (Writing' <=> Writing)
  BY DEF Base, Same, Writing
<1>1. CASE AsksEffect
  <2>1. Types'
    BY <1>1, <1>0, AskedIs DEF Types, Same, AsksEffect
  <2>2. Order'
    <3>1. OneByOne'
      BY <1>1, <1>0, AskedIs DEF Order, OneByOne, Opened, Endings, AsksEffect
    <3>2. Opened'
      BY <1>1, <1>0, AskedIs DEF Order, OneByOne, Opened, AsksEffect
    <3>3. Endings'
      BY <1>1, <1>0, AskedIs DEF Order, OneByOne, Opened, Endings, AsksEffect
    <3>4. Twice'
      BY <1>1, <1>0, AskedIs DEF Same, Order, OneByOne, Endings, Twice, Starting, Streaming, Writing, Reading,
         Files, AsksEffect
    <3> QED
      BY <3>1, <3>2, <3>3, <3>4 DEF Order
  <2>3. Uploads'
    BY <1>1, <1>0 DEF Types, Same, Order, OneByOne, Twice, Uploads, SpooledFirst, Starting, Reading, Files,
       Writing, AsksEffect
  <2> QED
    BY <2>1, <2>2, <2>3 DEF Base
<1>2. CASE ReceiveEffect
  <2>1. Types'
    BY <1>2, <1>0 DEF Types, Same, ReceiveEffect
  <2>2. Order'
    <3>1. CASE Takes
      <4>1. OneByOne'
        BY <1>2, <3>1, <1>0 DEF Order, OneByOne, Opened, Endings, ReceiveEffect, Takes
      <4>2. Opened'
        BY <1>2, <3>1, <1>0 DEF Order, OneByOne, Opened, ReceiveEffect, Takes
      <4>3. Endings'
        BY <1>2, <3>1, <1>0 DEF Order, OneByOne, Opened, Endings, ReceiveEffect, Takes
      <4>4. Twice'
        BY <1>2, <3>1, <1>0 DEF Same, Order, OneByOne, Endings, Twice, Starting, Streaming, Writing, Reading,
           Files, ReceiveEffect, Takes
      <4> QED
        BY <4>1, <4>2, <4>3, <4>4 DEF Order
    <3>2. CASE AsksAgain
      <4>1. OneByOne'
        BY <1>2, <3>2, <1>0 DEF Types, ControlType, Order, OneByOne, Opened, Endings, ReceiveEffect, AsksAgain
      <4>2. Opened'
        BY <1>2, <3>2, <1>0 DEF Order, OneByOne, Opened, ReceiveEffect, AsksAgain
      <4>3. Endings'
        BY <1>2, <3>2, <1>0 DEF Order, OneByOne, Opened, Endings, ReceiveEffect, AsksAgain
      <4>4. Twice'
        BY <1>2, <3>2, <1>0 DEF Same, Order, OneByOne, Endings, Twice, Starting, Streaming, Writing, Reading,
           Files, ReceiveEffect, AsksAgain
      <4> QED
        BY <4>1, <4>2, <4>3, <4>4 DEF Order
    <3>3. CASE Ended
      <4>1. OneByOne'
        BY <1>2, <3>3, <1>0 DEF Order, OneByOne, Opened, Endings, ReceiveEffect, Ended
      <4>2. Opened'
        BY <1>2, <3>3, <1>0 DEF Order, OneByOne, Opened, ReceiveEffect, Ended
      <4>3. Endings'
        BY <1>2, <3>3, <1>0 DEF Order, OneByOne, Opened, Endings, ReceiveEffect, Ended
      <4>4. Twice'
        BY <1>2, <3>3, <1>0 DEF Same, Order, OneByOne, Endings, Twice, Starting, Streaming, Writing, Reading,
           Files, ReceiveEffect, Ended
      <4> QED
        BY <4>1, <4>2, <4>3, <4>4 DEF Order
    <3> QED
      BY <1>2, <3>1, <3>2, <3>3 DEF ReceiveEffect
  <2>3. Uploads'
    <3>1. CASE Takes
      BY <1>2, <3>1, <1>0 DEF Types, Same, Order, OneByOne, Twice, Uploads, SpooledFirst, Starting, Reading,
         Files, Writing, ReceiveEffect, Takes
    <3>2. CASE AsksAgain
      BY <1>2, <3>2, <1>0 DEF Types, Same, Order, OneByOne, Twice, Uploads, SpooledFirst, Starting, Reading,
         Files, Writing, ReceiveEffect, AsksAgain
    <3>3. CASE Ended
      BY <1>2, <3>3, <1>0 DEF Types, Same, Order, OneByOne, Twice, Uploads, SpooledFirst, Starting, Reading,
         Files, Writing, ReceiveEffect, Ended
    <3> QED
      BY <1>2, <3>1, <3>2, <3>3 DEF ReceiveEffect
  <2> QED
    BY <2>1, <2>2, <2>3 DEF Base
<1>3. CASE control.pc = "start" /\ ForwardsEffect
  <2>1. Types'
    BY <1>3, <1>0, AskedIs DEF Types, Same, ForwardsEffect
  <2>2. Order'
    <3>1. CASE Passes
      <4>1. OneByOne'
        BY <1>3, <3>1, <1>0, AskedIs DEF Order, OneByOne, Opened, Endings, ForwardsEffect, Passes
      <4>2. Opened'
        BY <1>3, <3>1, <1>0, AskedIs DEF Order, OneByOne, Opened, ForwardsEffect, Passes
      <4>3. Endings'
        BY <1>3, <3>1, <1>0, AskedIs DEF Order, OneByOne, Opened, Endings, ForwardsEffect, Passes
      <4>4. Twice'
        BY <1>3, <3>1, <1>0, AskedIs DEF Same, Order, OneByOne, Endings, Twice, Starting, Streaming, Writing,
           Reading, Files, ForwardsEffect, Passes
      <4> QED
        BY <4>1, <4>2, <4>3, <4>4 DEF Order
    <3>2. CASE Refused
      <4>1. OneByOne'
        BY <1>3, <3>2, <1>0, AskedIs DEF Order, OneByOne, Opened, Endings, ForwardsEffect, Refused
      <4>2. Opened'
        BY <1>3, <3>2, <1>0, AskedIs DEF Order, OneByOne, Opened, ForwardsEffect, Refused
      <4>3. Endings'
        BY <1>3, <3>2, <1>0, AskedIs DEF Order, OneByOne, Opened, Endings, ForwardsEffect, Refused
      <4>4. Twice'
        BY <1>3, <3>2, <1>0, AskedIs DEF Same, Order, OneByOne, Endings, Twice, Starting, Streaming, Writing,
           Reading, Files, ForwardsEffect, Refused
      <4> QED
        BY <4>1, <4>2, <4>3, <4>4 DEF Order
    <3> QED
      BY <1>3, <3>1, <3>2 DEF ForwardsEffect
  <2>3. Uploads'
    <3>1. CASE Passes
      BY <1>3, <3>1, <1>0 DEF Types, Same, Order, OneByOne, Twice, Uploads, SpooledFirst, Starting, Reading,
         Files, Writing, ForwardsEffect, Passes
    <3>2. CASE Refused
      BY <1>3, <3>2, <1>0 DEF Types, Same, Order, OneByOne, Twice, Uploads, SpooledFirst, Starting, Reading,
         Files, Writing, ForwardsEffect, Refused
    <3> QED
      BY <1>3, <3>1, <3>2 DEF ForwardsEffect
  <2> QED
    BY <2>1, <2>2, <2>3 DEF Base
<1>4. CASE ControlPassEffect
  <2>1. Types'
    BY <1>4, <1>0 DEF Types, Same, ControlPassEffect
  <2>2. Order'
    <3>1. CASE Moves
      <4>1. OneByOne'
        BY <1>4, <3>1, <1>0 DEF Order, OneByOne, Opened, Endings, ControlPassEffect, Moves
      <4>2. Opened'
        BY <1>4, <3>1, <1>0 DEF Order, OneByOne, Opened, ControlPassEffect, Moves
      <4>3. Endings'
        BY <1>4, <3>1, <1>0 DEF Order, OneByOne, Opened, Endings, ControlPassEffect, Moves
      <4>4. Twice'
        BY <1>4, <3>1, <1>0 DEF Same, Order, OneByOne, Endings, Twice, Starting, Streaming, Writing, Reading,
           Files, ControlPassEffect, Moves
      <4> QED
        BY <4>1, <4>2, <4>3, <4>4 DEF Order
    <3>2. CASE PassesEnd
      <4>1. OneByOne'
        BY <1>4, <3>2, <1>0 DEF Order, OneByOne, Opened, Endings, ControlPassEffect, PassesEnd
      <4>2. Opened'
        BY <1>4, <3>2, <1>0 DEF Order, OneByOne, Opened, ControlPassEffect, PassesEnd
      <4>3. Endings'
        BY <1>4, <3>2, <1>0 DEF Order, OneByOne, Opened, Endings, ControlPassEffect, PassesEnd
      <4>4. Twice'
        BY <1>4, <3>2, <1>0 DEF Same, Order, OneByOne, Endings, Twice, Starting, Streaming, Writing, Reading,
           Files, ControlPassEffect, PassesEnd
      <4> QED
        BY <4>1, <4>2, <4>3, <4>4 DEF Order
    <3> QED
      BY <1>4, <3>1, <3>2 DEF ControlPassEffect
  <2>3. Uploads'
    <3>1. CASE Moves
      BY <1>4, <3>1, <1>0 DEF Types, Same, Order, OneByOne, Twice, Uploads, SpooledFirst, Starting, Reading,
         Files, Writing, ControlPassEffect, Moves
    <3>2. CASE PassesEnd
      BY <1>4, <3>2, <1>0 DEF Types, Same, Order, OneByOne, Twice, Uploads, SpooledFirst, Starting, Reading,
         Files, Writing, ControlPassEffect, PassesEnd
    <3> QED
      BY <1>4, <3>1, <3>2 DEF ControlPassEffect
  <2> QED
    BY <2>1, <2>2, <2>3 DEF Base
<1>5. CASE ControlGoneEffect
  <2>1. Types'
    BY <1>5, <1>0 DEF Types, Same, ControlGoneEffect
  <2>2. Order'
    <3>1. OneByOne'
      BY <1>5, <1>0 DEF Order, OneByOne, Opened, Endings, ControlGoneEffect
    <3>2. Opened'
      BY <1>5, <1>0 DEF Order, OneByOne, Opened, ControlGoneEffect
    <3>3. Endings'
      BY <1>5, <1>0 DEF Order, OneByOne, Opened, Endings, ControlGoneEffect
    <3>4. Twice'
      BY <1>5, <1>0 DEF Same, Order, OneByOne, Endings, Twice, Starting, Streaming, Writing, Reading, Files,
         ControlGoneEffect
    <3> QED
      BY <3>1, <3>2, <3>3, <3>4 DEF Order
  <2>3. Uploads'
    BY <1>5, <1>0 DEF Types, Same, Order, OneByOne, Twice, Uploads, SpooledFirst, Starting, Reading, Files,
       Writing, ControlGoneEffect
  <2> QED
    BY <2>1, <2>2, <2>3 DEF Base
<1>6. CASE WorkerStartsEffect
  <2>1. Types'
    BY <1>6, <1>0 DEF Types, Same, WorkerStartsEffect, Starts
  <2>2. Order'
    <3>1. OneByOne'
      BY <1>6, <1>0 DEF Order, OneByOne, Opened, Endings, WorkerStartsEffect, Starts
    <3>2. Opened'
      BY <1>6, <1>0 DEF Order, OneByOne, Opened, WorkerStartsEffect, Starts
    <3>3. Endings'
      BY <1>6, <1>0 DEF Order, OneByOne, Opened, Endings, WorkerStartsEffect, Starts
    <3>4. Twice'
      BY <1>6, <1>0 DEF Same, Order, OneByOne, Endings, Twice, Starting, Streaming, Writing, Reading, Files,
         WorkerStartsEffect, Starts
    <3> QED
      BY <3>1, <3>2, <3>3, <3>4 DEF Order
  <2>3. Uploads'
    BY <1>6, <1>0 DEF Types, Same, Order, OneByOne, Twice, Uploads, SpooledFirst, Starting, Reading, Files,
       Writing, WorkerStartsEffect, Starts
  <2> QED
    BY <2>1, <2>2, <2>3 DEF Base
<1>7. CASE WorkerCommandEffect
  <2>1. Types'
    BY <1>7, <1>0 DEF Types, Same, WorkerCommandEffect, Answers
  <2>2. Order'
    <3>1. OneByOne'
      BY <1>7, <1>0 DEF Order, OneByOne, Opened, Endings, WorkerCommandEffect, Answers
    <3>2. Opened'
      BY <1>7, <1>0 DEF Order, OneByOne, Opened, WorkerCommandEffect, Answers
    <3>3. Endings'
      BY <1>7, <1>0 DEF Order, OneByOne, Opened, Endings, WorkerCommandEffect, Answers
    <3>4. Twice'
      BY <1>7, <1>0 DEF Same, Order, OneByOne, Endings, Twice, Starting, Streaming, Writing, Reading, Files,
         WorkerCommandEffect, Answers
    <3> QED
      BY <3>1, <3>2, <3>3, <3>4 DEF Order
  <2>3. Uploads'
    BY <1>7, <1>0 DEF Types, Same, Order, OneByOne, Twice, Uploads, SpooledFirst, Starting, Reading, Files,
       Writing, WorkerCommandEffect, Answers
  <2> QED
    BY <2>1, <2>2, <2>3 DEF Base
<1>8. CASE WorkerStreamEffect
  <2>1. Types'
    BY <1>8, <1>0 DEF Types, Same, WorkerStreamEffect
  <2>2. Order'
    <3>1. OneByOne'
      BY <1>8, <1>0 DEF Order, OneByOne, Opened, Endings, WorkerStreamEffect
    <3>2. Opened'
      BY <1>8, <1>0 DEF Order, OneByOne, Opened, WorkerStreamEffect
    <3>3. Endings'
      BY <1>8, <1>0 DEF Order, OneByOne, Opened, Endings, WorkerStreamEffect
    <3>4. Twice'
      BY <1>8, <1>0 DEF Same, Order, OneByOne, Endings, Twice, Starting, Streaming, Writing, Reading, Files,
         WorkerStreamEffect
    <3> QED
      BY <3>1, <3>2, <3>3, <3>4 DEF Order
  <2>3. Uploads'
    BY <1>8, <1>0 DEF Types, Same, Order, OneByOne, Twice, Uploads, SpooledFirst, Starting, Reading, Files,
       Writing, WorkerStreamEffect
  <2> QED
    BY <2>1, <2>2, <2>3 DEF Base
<1>9. CASE WorkerRefusesEffect
  <2>1. Types'
    BY <1>9, <1>0 DEF Types, Same, WorkerRefusesEffect, Fails, Answers
  <2>2. Order'
    <3>1. OneByOne'
      BY <1>9, <1>0 DEF Order, OneByOne, Opened, Endings, WorkerRefusesEffect, Fails, Answers
    <3>2. Opened'
      BY <1>9, <1>0 DEF Order, OneByOne, Opened, WorkerRefusesEffect, Fails, Answers
    <3>3. Endings'
      BY <1>9, <1>0 DEF Order, OneByOne, Opened, Endings, WorkerRefusesEffect, Fails, Answers
    <3>4. Twice'
      BY <1>9, <1>0 DEF Same, Order, OneByOne, Endings, Twice, Starting, Streaming, Writing, Reading, Files,
         WorkerRefusesEffect, Fails, Answers
    <3> QED
      BY <3>1, <3>2, <3>3, <3>4 DEF Order
  <2>3. Uploads'
    BY <1>9, <1>0 DEF Types, Same, Order, OneByOne, Twice, Uploads, SpooledFirst, Starting, Reading, Files,
       Writing, WorkerRefusesEffect, Fails, Answers
  <2> QED
    BY <2>1, <2>2, <2>3 DEF Base
<1>10. CASE WorkerPullEffect
  <2>1. Types'
    BY <1>10, <1>0 DEF Types, Same, WorkerPullEffect, Single
  <2>2. Order'
    <3>1. CASE PullFails(Head(queue))
      <4>1. OneByOne'
        BY <1>10, <3>1, <1>0 DEF Order, OneByOne, Opened, Endings, WorkerPullEffect, Single, PullFails
      <4>2. Opened'
        BY <1>10, <3>1, <1>0 DEF Order, OneByOne, Opened, WorkerPullEffect, Single, PullFails
      <4>3. Endings'
        BY <1>10, <3>1, <1>0 DEF Order, OneByOne, Opened, Endings, WorkerPullEffect, Single, PullFails
      <4>4. Twice'
        BY <1>10, <3>1, <1>0 DEF Same, Order, OneByOne, Endings, Twice, Starting, Streaming, Writing, Reading,
           Files, WorkerPullEffect, Single, PullFails
      <4> QED
        BY <4>1, <4>2, <4>3, <4>4 DEF Order
    <3>2. CASE PullEnds(Head(queue))
      <4>1. OneByOne'
        BY <1>10, <3>2, <1>0 DEF Order, OneByOne, Opened, Endings, WorkerPullEffect, Single, PullEnds
      <4>2. Opened'
        BY <1>10, <3>2, <1>0 DEF Order, OneByOne, Opened, WorkerPullEffect, Single, PullEnds
      <4>3. Endings'
        BY <1>10, <3>2, <1>0 DEF Order, OneByOne, Opened, Endings, WorkerPullEffect, Single, PullEnds
      <4>4. Twice'
        BY <1>10, <3>2, <1>0 DEF Same, Order, OneByOne, Endings, Twice, Starting, Streaming, Writing, Reading,
           Files, WorkerPullEffect, Single, PullEnds
      <4> QED
        BY <4>1, <4>2, <4>3, <4>4 DEF Order
    <3>3. CASE PullPuts(Head(queue))
      <4>1. OneByOne'
        BY <1>10, <3>3, <1>0 DEF Order, OneByOne, Opened, Endings, WorkerPullEffect, Single, PullPuts
      <4>2. Opened'
        BY <1>10, <3>3, <1>0 DEF Order, OneByOne, Opened, WorkerPullEffect, Single, PullPuts
      <4>3. Endings'
        BY <1>10, <3>3, <1>0 DEF Order, OneByOne, Opened, Endings, WorkerPullEffect, Single, PullPuts
      <4>4. Twice'
        BY <1>10, <3>3, <1>0 DEF Same, Order, OneByOne, Endings, Twice, Starting, Streaming, Writing, Reading,
           Files, WorkerPullEffect, Single, PullPuts
      <4> QED
        BY <4>1, <4>2, <4>3, <4>4 DEF Order
    <3>4. CASE PullFile(Head(queue))
      <4>1. OneByOne'
        BY <1>10, <3>4, <1>0 DEF Order, OneByOne, Opened, Endings, WorkerPullEffect, Single, PullFile
      <4>2. Opened'
        BY <1>10, <3>4, <1>0 DEF Order, OneByOne, Opened, WorkerPullEffect, Single, PullFile
      <4>3. Endings'
        BY <1>10, <3>4, <1>0 DEF Order, OneByOne, Opened, Endings, WorkerPullEffect, Single, PullFile
      <4>4. Twice'
        BY <1>10, <3>4, <1>0 DEF Same, Order, OneByOne, Endings, Twice, Starting, Streaming, Writing, Reading,
           Files, WorkerPullEffect, Single, PullFile
      <4> QED
        BY <4>1, <4>2, <4>3, <4>4 DEF Order
    <3> QED
      BY <1>10, <3>1, <3>2, <3>3, <3>4 DEF WorkerPullEffect
  <2>3. Uploads'
    <3>1. CASE PullFails(Head(queue))
      BY <1>10, <3>1, <1>0 DEF Types, Same, Order, OneByOne, Twice, Uploads, SpooledFirst, Starting, Reading,
         Files, Writing, WorkerPullEffect, Single, PullFails
    <3>2. CASE PullEnds(Head(queue))
      BY <1>10, <3>2, <1>0 DEF Types, Same, Order, OneByOne, Twice, Uploads, SpooledFirst, Starting, Reading,
         Files, Writing, WorkerPullEffect, Single, PullEnds
    <3>3. CASE PullPuts(Head(queue))
      BY <1>10, <3>3, <1>0 DEF Types, Same, Order, OneByOne, Twice, Uploads, SpooledFirst, Starting, Reading,
         Files, Writing, WorkerPullEffect, Single, PullPuts
    <3>4. CASE PullFile(Head(queue))
      BY <1>10, <3>4, <1>0 DEF Types, Same, Order, OneByOne, Twice, Uploads, SpooledFirst, Starting, Reading,
         Files, Writing, WorkerPullEffect, Single, PullFile
    <3> QED
      BY <1>10, <3>1, <3>2, <3>3, <3>4 DEF WorkerPullEffect
  <2> QED
    BY <2>1, <2>2, <2>3 DEF Base
<1>11. CASE WorkerGoneEffect
  <2>1. Types'
    BY <1>11, <1>0 DEF Types, Same, WorkerGoneEffect
  <2>2. Order'
    <3>1. OneByOne'
      BY <1>11, <1>0 DEF Order, OneByOne, Opened, Endings, WorkerGoneEffect
    <3>2. Opened'
      BY <1>11, <1>0 DEF Order, OneByOne, Opened, WorkerGoneEffect
    <3>3. Endings'
      BY <1>11, <1>0 DEF Order, OneByOne, Opened, Endings, WorkerGoneEffect
    <3>4. Twice'
      BY <1>11, <1>0 DEF Same, Order, OneByOne, Endings, Twice, Starting, Streaming, Writing, Reading, Files,
         WorkerGoneEffect
    <3> QED
      BY <3>1, <3>2, <3>3, <3>4 DEF Order
  <2>3. Uploads'
    BY <1>11, <1>0 DEF Types, Same, Order, OneByOne, Twice, Uploads, SpooledFirst, Starting, Reading, Files,
       Writing, WorkerGoneEffect
  <2> QED
    BY <2>1, <2>2, <2>3 DEF Base
<1>12. CASE ExecEmitsEffect \/ CopyOffersEffect \/ CopyStopsEffect \/ IdleEffect
  <2>1. /\ UNCHANGED <<sdk, http, control, worker, file>> /\ source' \in SourceType /\ queue' \in Seq(Item)
        /\ upload' \in [sdk : Nat, control : Nat, worker : Nat]
        /\ upload'.worker = upload.worker \/ worker.pc = "body"
    BY <1>0, <1>12 DEF Types, ExecEmitsEffect, CopyOffersEffect, CopyStopsEffect, IdleEffect
  <2>2. Types'
    BY <1>0, <2>1 DEF Types, Same
  <2>3. Order'
    BY <1>0, <2>1 DEF Same, Order, OneByOne, Opened, Endings, Twice, Writing, Starting, Reading
  <2>4. Uploads'
    BY <1>0, <2>1 DEF Same, Uploads, SpooledFirst, Writing
  <2> QED
    BY <2>2, <2>3, <2>4 DEF Base
<1>13. CASE StagesEffect
  <2>1. Types'
    BY <1>13, <1>0 DEF Types, Same, StagesEffect
  <2>2. Order'
    <3>1. OneByOne'
      BY <1>13, <1>0 DEF Order, OneByOne, Opened, Endings, StagesEffect
    <3>2. Opened'
      BY <1>13, <1>0 DEF Order, OneByOne, Opened, StagesEffect
    <3>3. Endings'
      BY <1>13, <1>0 DEF Order, OneByOne, Opened, Endings, StagesEffect
    <3>4. Twice'
      BY <1>13, <1>0 DEF Same, Order, OneByOne, Endings, Twice, Starting, Streaming, Writing, Reading, Files,
         StagesEffect
    <3> QED
      BY <3>1, <3>2, <3>3, <3>4 DEF Order
  <2>3. Uploads'
    BY <1>13, <1>0 DEF Types, Same, Order, OneByOne, Twice, Uploads, SpooledFirst, Starting, Reading, Files,
       Writing, StagesEffect
  <2> QED
    BY <2>1, <2>2, <2>3 DEF Base
<1>14. CASE ExtractEffect
  <2>1. Types'
    <3>1. [new |-> TRUE, blocks |-> 0] \in [new : BOOLEAN, blocks : Nat]
      OBVIOUS
    <3>2. file' \in [new : BOOLEAN, blocks : Nat]
      BY <1>14, <1>0, <3>1 DEF Types, ExtractEffect
    <3>3. http' \in [Conns -> Pipe] /\ worker' \in WorkerType
      BY <1>14, <1>0 DEF Types, ExtractEffect, Fails, Answers
    <3> QED
      BY <1>14, <1>0, <3>2, <3>3 DEF Types, Same, ExtractEffect
  <2>2. Order'
    <3>1. OneByOne'
      BY <1>14, <1>0 DEF Order, OneByOne, Opened, Endings, ExtractEffect, Fails, Answers
    <3>2. Opened'
      BY <1>14, <1>0 DEF Order, OneByOne, Opened, ExtractEffect, Fails, Answers
    <3>3. Endings'
      BY <1>14, <1>0 DEF Order, OneByOne, Opened, Endings, ExtractEffect, Fails, Answers
    <3>4. Twice'
      BY <1>14, <1>0 DEF Same, Order, OneByOne, Endings, Twice, Starting, Streaming, Writing, Reading, Files,
         ExtractEffect, Fails, Answers
    <3> QED
      BY <3>1, <3>2, <3>3, <3>4 DEF Order
  <2>3. Uploads'
    BY <1>14, <1>0 DEF Types, Same, Order, OneByOne, Twice, Uploads, SpooledFirst, Starting, Reading, Files,
       Writing, ExtractEffect, Fails, Answers
  <2> QED
    BY <2>1, <2>2, <2>3 DEF Base
<1>15. CASE TarReadsEffect
  <2>1. Types'
    BY <1>15, <1>0 DEF Types, Same, TarReadsEffect, Fails, Answers
  <2>2. Order'
    <3>1. OneByOne'
      BY <1>15, <1>0 DEF Order, OneByOne, Opened, Endings, TarReadsEffect, Fails, Answers
    <3>2. Opened'
      BY <1>15, <1>0 DEF Order, OneByOne, Opened, TarReadsEffect, Fails, Answers
    <3>3. Endings'
      BY <1>15, <1>0 DEF Order, OneByOne, Opened, Endings, TarReadsEffect, Fails, Answers
    <3>4. Twice'
      BY <1>15, <1>0 DEF Same, Order, OneByOne, Endings, Twice, Starting, Streaming, Writing, Reading, Files,
         TarReadsEffect, Fails, Answers
    <3> QED
      BY <3>1, <3>2, <3>3, <3>4 DEF Order
  <2>3. Uploads'
    BY <1>15, <1>0 DEF Types, Same, Order, OneByOne, Twice, Uploads, SpooledFirst, Starting, Reading, Files,
       Writing, TarReadsEffect, Fails, Answers
  <2> QED
    BY <2>1, <2>2, <2>3 DEF Base
<1>16. ASSUME NEW c \in Conns, CutEffect(c) PROVE Base'
  <2>1. Types'
    BY <1>16, <1>0 DEF Types, Same, CutEffect
  <2>2. Order'
    <3>1. OneByOne'
      BY <1>16, <1>0 DEF Order, OneByOne, Opened, Endings, CutEffect, Conns
    <3>2. Opened'
      BY <1>16, <1>0 DEF Order, OneByOne, Opened, CutEffect, Conns
    <3>3. Endings'
      BY <1>16, <1>0 DEF Order, OneByOne, Opened, Endings, CutEffect, Conns
    <3>4. Twice'
      BY ZenonT(60), <1>16, <1>0 DEF Same, Order, OneByOne, Endings, Twice, Starting, Streaming, Writing, Reading, Files,
         CutEffect, Conns
    <3> QED
      BY <3>1, <3>2, <3>3, <3>4 DEF Order
  <2>3. Uploads'
    BY <1>16, <1>0 DEF Types, Same, Order, OneByOne, Twice, Uploads, SpooledFirst, Starting, Reading, Files,
       Writing, CutEffect
  <2> QED
    BY <2>1, <2>2, <2>3 DEF Base
<1> QED
  BY <1>1, <1>2, <1>3, <1>4, <1>5, <1>6, <1>7, <1>8, <1>9, <1>10, <1>11, <1>12, <1>13, <1>14, <1>15, <1>16 DEF Effect

-----------------------------------------------------------------------------
(* The pieces *)

\* Only a directory is asked for twice, and the events of a command; a tar process
\* that packs a directory does not fail.
Repeating ==
  /\ sdk.again => left.kind \in {"dir", "events"}
  /\ http["api"].why = "is_directory" => left.kind = "dir"
  /\ http["worker"].why = "is_directory" => left.kind = "dir"
  /\ (left.kind = "dir" /\ left.tar) => left.fails = 0

\* What the SDK has and what is under way to it; an answer ends when that is all.
Arrived == Len(sdk.got) + Len(http["api"].q)
Arrive ==
  sdk.pc = "wait" =>
    /\ Piece(sdk.got, 0, Payload) /\ Piece(http["api"].q, Len(sdk.got), Payload)
    /\ http["api"].st = "eof" => Possible /\ Arrived = Len(Payload)

\* What is under way to the control plane, and what the worker has sent.
Sent == IF worker.pc # "pull" \/ (Single /\ worker.rest = -1) THEN 0
        ELSE IF Single THEN worker.seen - 1 ELSE worker.seen
Middle ==
  http["api"].st = "open" =>
    /\ control.pc = "start" => Arrived = 0
    /\ control.pc = "pass" =>
         /\ Piece(http["worker"].q, Arrived, Payload)
         /\ http["worker"].st = "eof" => Possible /\ Arrived + Len(http["worker"].q) = Len(Payload)
         /\ (http["worker"].st = "open" /\ worker.pc \in {"start", "pull"}) =>
              Arrived + Len(http["worker"].q) = Sent

\* The output of a command waits for the second request.
Unread == left.kind = "events" /\ (~sdk.again \/ sdk.pc = "ask" \/ control.pc = "start" \/ worker.pc = "start")
Taken == IF worker.pc = "pull" THEN worker.seen ELSE 0
\* The queue ends in the end of the output, or in a failure.
Stops(i) ==
  /\ i = Len(queue) /\ source.pc = "over"
  /\ queue[i] = <<"fail", 0>> \/ (queue[i] = <<"eof", 0>> /\ (Single \/ Taken + i = Len(Stream) + 1))
Feeding ==
  (worker.pc = "pull" \/ Unread) =>
    /\ \A i \in 1..Len(queue) : (Taken + i <= Len(Stream) /\ queue[i] = Stream[Taken + i]) \/ Stops(i)
    /\ source.pc = "run" => Taken + Len(queue) = source.at
Pulling ==
  worker.pc = "pull" =>
    /\ Single => \/ worker.rest = -1 /\ worker.seen = 0
                 \/ /\ left.kind = "file" /\ worker.rest > 0 /\ worker.seen > 0
                    /\ worker.rest = left.n + 1 - worker.seen
    /\ ~Single => worker.seen <= Len(Stream)
Good == Repeating /\ Arrive /\ Middle /\ Feeding /\ Pulling

Measured ==
  /\ sdk.got \in Seq(Item) /\ http["api"].q \in Seq(Item) /\ http["worker"].q \in Seq(Item) /\ queue \in Seq(Item)
  /\ Payload \in Seq(Item) /\ Stream \in Seq(Item) /\ Len(Payload) \in Nat /\ Len(Stream) \in Nat
  /\ Len(sdk.got) \in Nat /\ Len(http["api"].q) \in Nat /\ Len(http["worker"].q) \in Nat /\ Len(queue) \in Nat
  /\ Arrived \in Nat /\ source.at \in Nat /\ worker.seen \in Nat /\ worker.rest \in Int /\ left.n \in Nat /\ left.kind \in Kinds
LEMMA Sums ==
  /\ \A a, b \in Nat : a + b \in Nat /\ a + (b + 1) = (a + b) + 1
  /\ \A a, b, c \in Nat : b + 1 = c => (a + 1) + b = a + c
OBVIOUS

LEMMA Measures == ASSUME Types PROVE Measured
<1>1. sdk.got \in Seq(Item) /\ queue \in Seq(Item) /\ source.at \in Nat /\ worker.seen \in Nat /\ worker.rest \in Int
  BY DEF Types, SdkType, SourceType, WorkerType
<1>2. http["api"].q \in Seq(Item) /\ http["worker"].q \in Seq(Item)
  BY Connections DEF Connected, Pipe
<1>3. Payload \in Seq(Item) /\ Stream \in Seq(Item) /\ left.n \in Nat /\ left.kind \in Kinds
  BY StreamIs DEF Types, LoadType
<1>4. Len(sdk.got) \in Nat /\ Len(http["api"].q) \in Nat
  BY <1>1, <1>2, LenProperties
<1>5. Arrived \in Nat
  BY <1>4, Sums, Zenon DEF Arrived
<1> QED
  BY <1>1, <1>2, <1>3, <1>4, <1>5, LenProperties DEF Measured

\* What is to be transferred depends on the request, and on it alone.
Stays == Stream' = Stream /\ Payload' = Payload /\ (Possible' <=> Possible) /\ (Single' <=> Single)
LEMMA Staying == ASSUME Same, sdk'.again = sdk.again PROVE Stays
BY Later DEF Same, Stays, Single, Reading

LEMMA NothingAsked ==
  ASSUME Writing \/ Starting
  PROVE  Payload = <<>> /\ Possible
BY DEF Writing, Starting, Payload, Possible, Stream

LEMMA RepeatingKept ==
  ASSUME Repeating, Same, sdk'.again = sdk.again,
         http'["api"].why # "is_directory" \/ http'["api"].why \in {http["api"].why, http["worker"].why},
         http'["worker"].why # "is_directory" \/ http'["worker"].why = http["worker"].why
  PROVE  Repeating'
BY DEF Repeating, Same

LEMMA ArriveKept ==
  ASSUME Arrive, Stays, sdk'.pc = sdk.pc, sdk'.got = sdk.got, http'["api"].q = http["api"].q,
         http'["api"].st = http["api"].st \/ http'["api"].st # "eof"
  PROVE  Arrive'
BY DEF Arrive, Arrived, Stays

\* The queue and its source stay as they are.
LEMMA FeedingKept ==
  ASSUME Feeding, Same, Stream' = Stream, queue' = queue, source' = source,
         (worker'.pc = "pull" \/ Unread') => /\ worker.pc = "pull" \/ Unread
                                             /\ Taken' = Taken /\ (Single' <=> Single)
  PROVE  Feeding'
BY DEF Feeding, Stops

\* A handler of the worker is over, or has not begun to pull.
LEMMA NotPulling ==
  ASSUME worker'.pc # "pull"
  PROVE  Pulling' /\ Taken' = 0
BY DEF Pulling, Taken

\* The SDK and the control plane.
LEMMA GoodAsks ==
  ASSUME Base, Good, Same, AsksEffect
  PROVE  Good'
<1>0. Types /\ Order /\ Measured /\ Stays /\ worker.pc = "over" /\ worker'.pc = "over"
  BY Measures, Staying DEF Base, AsksEffect, Order, OneByOne
<1>1. Repeating'
  BY AskedIs, RepeatingKept DEF Good, AsksEffect
<1>2. Arrive' /\ Middle'
  <2>1. sdk'.got = <<>> /\ http'["api"].q = <<>> /\ http'["api"].st = "open" /\ control'.pc = "start"
    BY AskedIs DEF AsksEffect
  <2>2. Piece(<<>>, 0, Payload) /\ Len(<<>>) = 0
    BY <1>0, PieceNone DEF Measured
  <2> QED
    BY <1>0, <2>1, <2>2 DEF Arrive, Middle, Arrived, Stays
<1>3. Feeding'
  BY <1>0, FeedingKept DEF Good, AsksEffect, Unread, Taken, Stays, Same
<1> QED
  BY <1>0, <1>1, <1>2, <1>3, NotPulling DEF Good

LEMMA GoodReceives ==
  ASSUME Base, Good, Same, ReceiveEffect
  PROVE  Good'
<1>0. Types /\ Order /\ Measured /\ sdk.pc = "wait" /\ http'["worker"] = http["worker"] /\ Stream' = Stream
      /\ UNCHANGED <<control, worker, source, queue, upload, file, left>>
  BY Measures, Later DEF Base, ReceiveEffect, Same
<1>1. CASE Takes
  <2>0. Stays /\ sdk'.pc = "wait" /\ sdk'.again = sdk.again
    BY <1>1, Staying DEF Takes
  <2>1. Repeating'
    BY <1>0, <1>1, <2>0, RepeatingKept DEF Good, Takes
  <2> DEFINE x == Head(http["api"].q)
  <2>2. /\ Piece(sdk.got, 0, Payload) /\ Piece(http["api"].q, Len(sdk.got), Payload)
        /\ http["api"].st = "eof" => Possible /\ Arrived = Len(Payload)
    BY <1>0 DEF Good, Arrive
  <2>3. /\ x = Payload[Len(sdk.got) + 1] /\ x \in Item /\ Len(sdk.got) + 1 <= Len(Payload)
        /\ Len(Tail(http["api"].q)) + 1 = Len(http["api"].q) /\ Len(Tail(http["api"].q)) \in Nat
        /\ Piece(Tail(http["api"].q), Len(sdk.got) + 1, Payload)
    BY <1>0, <1>1, <2>2, PieceTail, LenProperties DEF Measured, Takes
  <2> HIDE DEF x
  <2>4. Piece(Append(sdk.got, x), 0, Payload) /\ Len(Append(sdk.got, x)) = Len(sdk.got) + 1
    <3>1. sdk.got \in Seq(Item) /\ Payload \in Seq(Item) /\ 0 \in Nat /\ Len(sdk.got) \in Nat
      BY <1>0 DEF Measured
    <3>2. 0 + Len(sdk.got) + 1 = Len(sdk.got) + 1
      BY <3>1
    <3>3. 0 + Len(sdk.got) + 1 <= Len(Payload) /\ x = Payload[0 + Len(sdk.got) + 1]
      BY <2>3, <3>2
    <3> QED
      BY <2>2, <2>3, <3>1, <3>3, PieceAppend
  <2>5. sdk'.got = Append(sdk.got, x) /\ http'["api"].q = Tail(http["api"].q) /\ http'["api"].st = http["api"].st
    BY <1>1 DEF Takes, x
  <2>6. Arrived' = Arrived
    <3>1. Len(sdk.got) \in Nat /\ Len(http["api"].q) \in Nat
      BY <1>0 DEF Measured
    <3>3. Len(Tail(http["api"].q)) \in Nat /\ Len(Tail(http["api"].q)) + 1 = Len(http["api"].q)
      BY <2>3
    <3>2. (Len(sdk.got) + 1) + Len(Tail(http["api"].q)) = Len(sdk.got) + Len(http["api"].q)
      <4> DEFINE a == Len(sdk.got)  b == Len(Tail(http["api"].q))  c == Len(http["api"].q)
      <4>1. a \in Nat /\ b \in Nat /\ c \in Nat /\ b + 1 = c
        BY <3>1, <3>3
      <4> HIDE DEF a, b, c
      <4>2. (a + 1) + b = a + c
        BY <4>1
      <4> QED
        BY <4>2 DEF a, b, c
    <3> QED
      BY <2>4, <2>5, <3>2, Zenon DEF Arrived
  <2>7. Arrive'
    BY <1>0, <2>0, <2>2, <2>3, <2>4, <2>5, <2>6 DEF Arrive, Stays
  <2>8. Middle' /\ Pulling'
    BY <1>0, <2>0, <2>5, <2>6 DEF Good, Middle, Pulling, Sent, Stays
  <2>9. Feeding'
    BY <1>0, <2>0, FeedingKept DEF Good, Unread, Taken, Stays
  <2> QED
    BY <2>1, <2>7, <2>8, <2>9 DEF Good
<1>2. CASE AsksAgain
  <2>1. control.pc = "over" /\ worker.pc = "over" /\ left.kind \in {"dir", "events"} /\ http'["api"] = http["api"]
    BY <1>0, <1>2 DEF Good, Repeating, AsksAgain, Starting, Order, Opened, Endings, Types, ControlType
  <2>2. Repeating' /\ Arrive' /\ Middle'
    BY <1>0, <1>2, <2>1 DEF Good, Repeating, Arrive, Middle, AsksAgain
  <2>3. ~(worker'.pc = "pull") /\ (Unread' => Unread /\ Single' = Single /\ Taken' = Taken)
    BY <1>0, <1>2, <2>1 DEF Good, Repeating, AsksAgain, Starting, Unread, Single, Reading, Files, Taken
  <2> QED
    BY <1>0, <2>2, <2>3, FeedingKept, NotPulling DEF Good
<1>3. CASE Ended
  <2>0. Stays /\ sdk'.pc = "done" /\ sdk'.again = sdk.again /\ http'["api"] = http["api"] /\ http["api"].st # "open"
    BY <1>3, Staying DEF Ended
  <2>1. Repeating'
    BY <1>0, <2>0, RepeatingKept DEF Good
  <2>2. Arrive' /\ Middle' /\ Pulling'
    BY <1>0, <2>0 DEF Good, Arrive, Middle, Pulling, Stays
  <2>3. Feeding'
    BY <1>0, <2>0, FeedingKept DEF Good, Unread, Taken, Stays
  <2> QED
    BY <2>1, <2>2, <2>3 DEF Good
<1> QED
  BY <1>1, <1>2, <1>3 DEF ReceiveEffect

LEMMA GoodForwards ==
  ASSUME Base, Good, Same, control.pc = "start", ForwardsEffect
  PROVE  Good'
<1>0. /\ Types /\ Order /\ Measured /\ Stays /\ worker.pc = "over" /\ sdk' = sdk /\ source' = source /\ queue' = queue
      /\ control'.pc # "start" /\ worker'.pc # "pull"
  BY Measures, Staying DEF Base, ForwardsEffect, Order, OneByOne, Passes, Refused
<1>1. Feeding'
  BY <1>0, FeedingKept DEF Good, Unread, Taken, Stays, Same
<1>2. CASE Passes
  <2>1. http'["worker"].q = <<>> /\ http'["worker"].st = "open" /\ http'["api"] = http["api"]
        /\ http'["worker"].why # "is_directory" /\ worker'.pc = "start"
    BY <1>2, AskedIs DEF Passes
  <2>2. Repeating' /\ Arrive'
    BY <1>0, <2>1, RepeatingKept, ArriveKept DEF Good
  <2>3. http["api"].st = "open" => Arrived = 0 /\ Piece(<<>>, 0, Payload) /\ Len(<<>>) = 0
    BY <1>0, PieceNone DEF Good, Middle, Measured
  <2>5. Arrived' = Arrived /\ Sent' = 0
    BY <1>0, <2>1 DEF Arrived, Sent
  <2>4. Middle'
    BY <1>0, <2>1, <2>3, <2>5 DEF Middle, Stays
  <2> QED
    BY <1>0, <1>1, <2>2, <2>4, NotPulling DEF Good
<1>3. CASE Refused
  <2>1. Repeating' /\ Arrive'
    BY <1>0, <1>3, RepeatingKept, ArriveKept DEF Good, Refused
  <2>2. Middle'
    BY <1>3 DEF Middle, Refused
  <2> QED
    BY <1>0, <1>1, <2>1, <2>2, NotPulling DEF Good
<1> QED
  BY <1>2, <1>3 DEF ForwardsEffect

LEMMA GoodPasses ==
  ASSUME Base, Good, Same, ControlPassEffect
  PROVE  Good'
<1>0. /\ Types /\ Order /\ Measured /\ Stays /\ sdk' = sdk /\ worker' = worker /\ source' = source /\ queue' = queue
      /\ control.pc = "pass" /\ http["api"].st = "open" /\ sdk.pc = "wait" /\ control'.pc # "start"
  BY Measures, Staying DEF Base, ControlPassEffect, Order, Opened, Moves, PassesEnd
<1>1. Feeding' /\ Pulling'
  <2>1. Pulling'
    BY <1>0 DEF Good, Pulling, Stays, Same
  <2> QED
    BY <1>0, <2>1, FeedingKept DEF Good, Unread, Taken, Stays, Same
<1> DEFINE h == http["worker"]
<1>2. /\ Piece(sdk.got, 0, Payload) /\ Piece(http["api"].q, Len(sdk.got), Payload)
      /\ Piece(h.q, Arrived, Payload)
      /\ h.st = "eof" => Possible /\ Arrived + Len(h.q) = Len(Payload)
      /\ (h.st = "open" /\ worker.pc \in {"start", "pull"}) => Arrived + Len(h.q) = Sent
  BY <1>0 DEF Good, Arrive, Middle
<1>3. CASE Moves
  <2> DEFINE x == Head(h.q)
  <2>1. /\ h.q # <<>> /\ http'["worker"].q = Tail(h.q) /\ http'["worker"].st = h.st /\ http'["worker"].why = h.why
        /\ http'["api"].q = Append(http["api"].q, x) /\ http'["api"].st = http["api"].st
        /\ http'["api"].why = http["api"].why
    BY <1>3 DEF Moves
  <2>2. Arrived \in Nat /\ Arrived = Len(sdk.got) + Len(http["api"].q)
    BY <1>0 DEF Measured, Arrived
  <2>3. /\ x = Payload[Arrived + 1] /\ x \in Item /\ Arrived + 1 <= Len(Payload)
        /\ Len(Tail(h.q)) + 1 = Len(h.q) /\ Len(Tail(h.q)) \in Nat /\ Piece(Tail(h.q), Arrived + 1, Payload)
    BY <1>0, <1>2, <2>1, <2>2, PieceTail, LenProperties DEF Measured
  <2> HIDE DEF x
  <2>4. /\ Piece(Append(http["api"].q, x), Len(sdk.got), Payload)
        /\ Len(Append(http["api"].q, x)) = Len(http["api"].q) + 1
    <3>1. http["api"].q \in Seq(Item) /\ Payload \in Seq(Item) /\ Len(sdk.got) \in Nat
      BY <1>0 DEF Measured
    <3>2. /\ Len(sdk.got) + Len(http["api"].q) + 1 <= Len(Payload)
          /\ x = Payload[Len(sdk.got) + Len(http["api"].q) + 1]
      BY <2>2, <2>3, Zenon
    <3> QED
      BY <1>2, <2>3, <3>1, <3>2, PieceAppend
  <2>5. Arrived' = Arrived + 1
    <3>1. Len(sdk.got) \in Nat /\ Len(http["api"].q) \in Nat
      BY <1>0 DEF Measured
    <3>2. Len(sdk.got) + (Len(http["api"].q) + 1) = (Len(sdk.got) + Len(http["api"].q)) + 1
      BY <3>1, Sums, Zenon
    <3>3. sdk'.got = sdk.got /\ Len(http'["api"].q) = Len(http["api"].q) + 1
      BY <1>0, <2>1, <2>4
    <3> QED
      BY <3>2, <3>3, Zenon DEF Arrived
  <2>6. Repeating'
    BY <1>0, <2>1, RepeatingKept DEF Good
  <2>7. Arrive'
    BY <1>0, <1>2, <2>1, <2>4 DEF Arrive, Stays
  <2>8. Sent' = Sent
    BY <1>0 DEF Sent, Stays
  <2>9. (Arrived + 1) + Len(Tail(h.q)) = Arrived + Len(h.q)
    <3>1. Len(h.q) \in Nat
      BY <1>0 DEF Measured
    <3> QED
      BY <2>2, <2>3, <3>1, Sums, ZenonT(60)
  <2>10. Middle'
    <3>1. Arrived' + Len(http'["worker"].q) = Arrived + Len(h.q)
      BY <2>1, <2>5, <2>9
    <3>2. Piece(http'["worker"].q, Arrived', Payload')
      BY <1>0, <2>1, <2>3, <2>5 DEF Stays
    <3> QED
      BY <1>0, <1>2, <2>1, <2>8, <3>1, <3>2 DEF Middle, Stays
  <2> QED
    BY <1>1, <2>6, <2>7, <2>10 DEF Good
<1>4. CASE PassesEnd
  <2>1. /\ http'["api"].q = http["api"].q /\ http'["api"].st # "open"
        /\ http'["api"].st = "eof" => h.q = <<>> /\ h.st = "eof"
        /\ http'["worker"].why = h.why
        /\ http'["api"].why \in {http["api"].why, h.why} \/ http'["api"].why # "is_directory"
    BY <1>4 DEF PassesEnd
  <2>2. Repeating'
    BY <1>0, <2>1, RepeatingKept DEF Good
  <2>3. Arrived' = Arrived /\ (h.q = <<>> => Len(h.q) = 0) /\ Arrived \in Nat
    BY <1>0, <2>1 DEF Arrived, Measured
  <2>4. Arrive'
    BY <1>0, <1>2, <2>1, <2>3 DEF Arrive, Stays
  <2> QED
    BY <1>1, <2>1, <2>2, <2>4 DEF Good, Middle
<1> QED
  BY <1>3, <1>4 DEF ControlPassEffect

LEMMA GoodGoes ==
  ASSUME Base, Good, Same, ControlGoneEffect
  PROVE  Good'
<1>0. /\ Stays /\ sdk' = sdk /\ worker' = worker /\ source' = source /\ queue' = queue /\ left' = left
      /\ control'.pc = "over" /\ http'["api"] = http["api"] /\ http'["worker"].why = http["worker"].why
  BY Staying DEF ControlGoneEffect
<1>1. Repeating' /\ Arrive'
  BY <1>0, RepeatingKept, ArriveKept DEF Good
<1>2. Middle' /\ Pulling'
  BY <1>0 DEF Good, Middle, Pulling, Stays
<1>3. Feeding'
  BY <1>0, FeedingKept DEF Good, Unread, Taken, Stays
<1> QED
  BY <1>1, <1>2, <1>3 DEF Good

\* The worker.
LEMMA GoodStarts ==
  ASSUME Base, Good, Same, WorkerStartsEffect \/ WorkerStreamEffect
  PROVE  Good'
<1>0. /\ Types /\ Order /\ Measured /\ Stays /\ UNCHANGED <<sdk, http, control>>
      /\ worker.pc = "start" /\ worker'.pc = "pull" /\ worker.seen = 0 /\ worker.rest = -1
      /\ worker'.seen = 0 /\ worker'.rest = -1 /\ Taken = 0 /\ Taken' = 0
  BY Measures, Staying DEF Base, WorkerStartsEffect, Starts, WorkerStreamEffect, Order, OneByOne, Taken
<1>1. Repeating' /\ Arrive'
  BY <1>0, RepeatingKept, ArriveKept DEF Good
<1>2. Middle'
  <2>1. Sent = 0 /\ Sent' = 0 /\ Arrived' = Arrived
    BY <1>0 DEF Sent, Arrived
  <2> QED
    BY <1>0, <2>1 DEF Good, Middle, Stays
<1>3. Pulling'
  BY <1>0 DEF Pulling, Measured, Stays
<1>4. Feeding'
  <2>1. CASE WorkerStartsEffect
    <3>1. queue' = <<>> /\ Len(queue') = 0 /\ source'.at = 0
      BY <2>1 DEF WorkerStartsEffect, Starts
    <3> QED
      BY <1>0, <3>1 DEF Feeding
  <2>2. CASE WorkerStreamEffect
    BY <1>0, <2>2, FeedingKept DEF Good, WorkerStreamEffect, Streaming, Unread, Stays
  <2> QED
    BY <2>1, <2>2
<1> QED
  BY <1>1, <1>2, <1>3, <1>4 DEF Good

\* A handler that ends with an answer of which nothing is content, or everything has been sent.
LEMMA GoodAnswers ==
  ASSUME Base, Good, Same, worker'.pc # "pull", worker'.pc # "start", UNCHANGED <<sdk, control>>,
         http'["api"] = http["api"], http'["worker"].why # "is_directory" \/ http'["worker"].why = http["worker"].why,
         http'["worker"].q = http["worker"].q,
         http'["worker"].st = "eof" => http["worker"].st = "eof" \/ Writing \/ Starting
  PROVE  Repeating' /\ Arrive' /\ Middle' /\ Pulling' /\ Stays
<1>0. Types /\ Measured /\ Stays
  BY Measures, Staying DEF Base
<1>1. Repeating' /\ Arrive'
  BY <1>0, RepeatingKept, ArriveKept DEF Good
<1>2. Middle'
  <2>1. Arrived' = Arrived
    BY DEF Arrived
  <2>2. ASSUME Writing \/ Starting, Piece(http["worker"].q, Arrived, Payload)
        PROVE  Possible /\ Arrived + Len(http["worker"].q) = Len(Payload)
    <3>1. Len(Payload) = 0 /\ Possible /\ Arrived + Len(http["worker"].q) <= Len(Payload)
      BY <2>2, NothingAsked DEF Piece
    <3>2. \A a, b \in Nat : a + b <= 0 => a + b = 0
      OBVIOUS
    <3>3. Arrived \in Nat /\ Len(http["worker"].q) \in Nat
      BY <1>0 DEF Measured
    <3> QED
      BY <3>1, <3>2, <3>3, Zenon
  <2>3. ASSUME http["api"].st = "open", control.pc = "pass"
        PROVE  /\ Piece(http["worker"].q, Arrived, Payload)
               /\ http'["worker"].st = "eof" => Possible /\ Arrived + Len(http["worker"].q) = Len(Payload)
    BY <2>2, <2>3 DEF Good, Middle
  <2> QED
    BY <1>0, <2>1, <2>3 DEF Good, Middle, Stays
<1> QED
  BY <1>0, <1>1, <1>2, NotPulling

LEMMA GoodCommands ==
  ASSUME Base, Good, Same, WorkerCommandEffect
  PROVE  Good'
<1>1. /\ worker'.pc = "over" /\ UNCHANGED <<sdk, control>> /\ http'["api"] = http["api"]
      /\ http'["worker"].q = http["worker"].q /\ http'["worker"].why = http["worker"].why /\ Starting
  BY DEF WorkerCommandEffect, Answers
<1>2. Repeating' /\ Arrive' /\ Middle' /\ Pulling'
  BY <1>1, GoodAnswers
<1>3. Feeding'
  <2>1. queue' = <<>> /\ Len(queue') = 0 /\ source'.at = 0 /\ Taken' = 0
    BY <1>1, NotPulling DEF WorkerCommandEffect
  <2> QED
    BY <2>1 DEF Feeding
<1> QED
  BY <1>2, <1>3 DEF Good

LEMMA GoodRefuses ==
  ASSUME Base, Good, Same, WorkerRefusesEffect \/ WorkerGoneEffect
  PROVE  Good'
<1>1. /\ worker'.pc = "over" /\ UNCHANGED <<sdk, control, source, queue>> /\ http'["api"] = http["api"]
      /\ http'["worker"].q = http["worker"].q /\ http'["worker"].st # "eof"
      /\ http'["worker"].why # "is_directory" \/ http'["worker"].why = http["worker"].why
  BY DEF WorkerRefusesEffect, WorkerGoneEffect, Fails, Answers
<1>2. Repeating' /\ Arrive' /\ Middle' /\ Pulling' /\ Stays
  BY <1>1, GoodAnswers
<1>3. Feeding'
  <2>1. Unread' => Unread /\ worker.pc # "pull"
    BY <1>1 DEF Base, Order, OneByOne, Twice, Starting, Unread, Same
  <2> QED
    BY <1>1, <1>2, <2>1, FeedingKept DEF Good, Stays, Taken
<1> QED
  BY <1>2, <1>3 DEF Good

\* An upload.
LEMMA GoodUploads ==
  ASSUME Base, Good, Same, StagesEffect \/ ExtractEffect \/ TarReadsEffect
  PROVE  Good'
<1>1. Writing
  BY DEF Base, Uploads, StagesEffect, ExtractEffect, TarReadsEffect
<1>2. /\ worker'.pc # "pull" /\ worker'.pc # "start" /\ UNCHANGED <<sdk, control>> /\ http'["api"] = http["api"]
      /\ http'["worker"].q = http["worker"].q
      /\ http'["worker"].why # "is_directory" \/ http'["worker"].why = http["worker"].why
  BY DEF StagesEffect, ExtractEffect, TarReadsEffect, Fails, Answers
<1>3. Repeating' /\ Arrive' /\ Middle' /\ Pulling'
  BY <1>1, <1>2, GoodAnswers
<1>4. Feeding'
  BY <1>1, <1>2 DEF Feeding, Unread, Same, Writing
<1> QED
  BY <1>3, <1>4 DEF Good

\* The source, which only adds to the queue.
LEMMA Appended ==
  ASSUME NEW q \in Seq(Item), NEW x \in Item
  PROVE  /\ Len(Append(q, x)) = Len(q) + 1
         /\ \A i \in 1..Len(Append(q, x)) :
              (i \in 1..Len(q) /\ Append(q, x)[i] = q[i]) \/ (i = Len(q) + 1 /\ Append(q, x)[i] = x)
BY AppendProperties, LenProperties

LEMMA FeedingGrows ==
  ASSUME Feeding, Measured, Stays, Same, UNCHANGED <<sdk, control, worker>>, source.pc = "run",
         NEW x \in Item, queue' = Append(queue, x),
         worker.pc = "pull" \/ Unread =>
           \/ /\ source'.pc = "run" /\ source'.at = source.at + 1 /\ source.at < Len(Stream)
              /\ x = Stream[source.at + 1]
           \/ /\ source'.pc = "over"
              /\ x = <<"fail", 0>> \/ (x = <<"eof", 0>> /\ (Single \/ source.at = Len(Stream)))
  PROVE  Feeding'
<1> SUFFICES ASSUME worker.pc = "pull" \/ Unread
             PROVE  /\ \A i \in 1..Len(queue') : (Taken + i <= Len(Stream) /\ queue'[i] = Stream[Taken + i])
                                                 \/ Stops(i)'
                    /\ source'.pc = "run" => Taken + Len(queue') = source'.at
  BY DEF Feeding, Unread, Taken, Same, Stays
<1>1. /\ \A i \in 1..Len(queue) : Taken + i <= Len(Stream) /\ queue[i] = Stream[Taken + i]
      /\ Taken + Len(queue) = source.at /\ Taken' = Taken
  BY DEF Feeding, Stops, Taken
<1>2. /\ Len(queue') = Len(queue) + 1
      /\ \A i \in 1..Len(queue') :
           (i \in 1..Len(queue) /\ queue'[i] = queue[i]) \/ (i = Len(queue) + 1 /\ queue'[i] = x)
  BY Appended DEF Measured
<1>3. Taken \in Nat /\ Len(queue) \in Nat /\ source.at \in Nat
  BY DEF Taken, Measured
<1> DEFINE t == Taken  n == Len(queue)
<1> HIDE DEF t, n
<1>4. t \in Nat /\ n \in Nat /\ t + n = source.at /\ t + (n + 1) = source.at + 1
  BY <1>1, <1>3 DEF t, n
<1>5. ASSUME NEW i \in 1..Len(queue')
      PROVE  (Taken + i <= Len(Stream) /\ queue'[i] = Stream[Taken + i]) \/ Stops(i)'
  <2>1. CASE i \in 1..Len(queue) /\ queue'[i] = queue[i]
    BY <1>1, <2>1
  <2>2. CASE i = Len(queue) + 1 /\ queue'[i] = x
    <3>1. Taken + i = source.at + 1
      BY <1>4, <2>2 DEF t, n
    <3>2. CASE source'.pc = "run" /\ source.at < Len(Stream) /\ x = Stream[source.at + 1]
      <4>1. source.at + 1 <= Len(Stream)
        BY <1>3, <3>2 DEF Measured
      <4> QED
        BY <2>2, <3>1, <3>2, <4>1
    <3>3. CASE /\ source'.pc = "over"
               /\ x = <<"fail", 0>> \/ (x = <<"eof", 0>> /\ (Single \/ source.at = Len(Stream)))
      <4>1. source.at = Len(Stream) => Taken' + i = Len(Stream') + 1
        BY <1>1, <3>1 DEF Stays
      <4> QED
        BY <1>2, <2>2, <3>3, <4>1 DEF Stops, Stays
    <3> QED
      BY <3>2, <3>3
  <2> QED
    BY <1>2, <2>1, <2>2
<1>6. source'.pc = "run" => Taken + Len(queue') = source'.at
  BY <1>2, <1>4 DEF t, n
<1> QED
  BY <1>5, <1>6

LEMMA GoodSource ==
  ASSUME Base, Good, Same, ExecEmitsEffect \/ CopyOffersEffect \/ CopyStopsEffect \/ IdleEffect
  PROVE  source'.twice \/ Good'
<1>0. Types /\ Measured /\ Stays /\ UNCHANGED <<sdk, http, control, worker>>
  BY Measures, Staying DEF Base, ExecEmitsEffect, CopyOffersEffect, CopyStopsEffect, IdleEffect
<1>1. Repeating' /\ Arrive' /\ Middle' /\ Pulling'
  <2>1. Repeating' /\ Arrive'
    BY <1>0, RepeatingKept, ArriveKept DEF Good
  <2>2. Middle'
    BY <1>0 DEF Good, Middle, Arrived, Sent, Stays
  <2>3. Pulling'
    BY <1>0 DEF Good, Pulling, Stays, Same
  <2> QED
    BY <2>1, <2>2, <2>3
<1>2. CASE UNCHANGED <<source, queue>>
  BY <1>0, <1>1, <1>2, FeedingKept DEF Good, Unread, Taken, Stays, Same
<1>3. CASE source.pc = "run" /\ (Rests \/ Stopped)
  <2>1. queue' = queue /\ Taken' = Taken /\ (Unread' <=> Unread) /\ (source'.pc = "run" => source'.at = source.at)
    BY <1>0, <1>3 DEF Rests, Stopped, Taken, Unread, Same
  <2>2. worker.pc = "pull" \/ Unread =>
          /\ \A i \in 1..Len(queue) : Taken + i <= Len(Stream) /\ queue[i] = Stream[Taken + i]
          /\ Taken + Len(queue) = source.at
    BY <1>3 DEF Good, Feeding, Stops
  <2>3. Feeding'
    BY <1>0, <2>1, <2>2 DEF Feeding, Stays
  <2> QED
    BY <1>1, <2>3 DEF Good
<1>4. CASE source.pc = "run" /\ Emits
  <2>1. source.at < Len(Stream) /\ Stream[source.at + 1] \in Item
    BY <1>0, <1>4, NextItem DEF Emits
  <2>2. Feeding'
    BY <1>0, <1>4, <2>1, FeedingGrows DEF Good, Emits
  <2> QED
    BY <1>1, <2>2 DEF Good
<1>5. CASE source.pc = "run" /\ EmitsFail
  <2>1. Feeding'
    BY <1>0, <1>5, ItemsTyped, FeedingGrows DEF Good, EmitsFail
  <2> QED
    BY <1>1, <2>1 DEF Good
<1>6. CASE source.pc = "run" /\ EmitsEnd
  <2>1. ASSUME worker.pc = "pull" \/ Unread PROVE Single \/ source.at = Len(Stream)
    <3>1. CASE Reading /\ left.tar /\ left.fails > 0
      <4>1. left.kind # "dir" /\ ~Unread
        BY <1>0, <3>1 DEF Good, Repeating, Unread, Reading, Files
      <4> QED
        BY <2>1, <3>1, <4>1 DEF Good, Repeating, Single, Reading, Files
    <3>2. CASE source.at >= Len(Stream) /\ ~Single
      <4>1. /\ \A i \in 1..Len(queue) : Taken + i <= Len(Stream)
            /\ Taken + Len(queue) = source.at
        BY <1>6, <2>1 DEF Good, Feeding, Stops
      <4>2. Taken <= Len(Stream) /\ Taken \in Nat /\ Len(queue) \in Nat /\ Len(Stream) \in Nat
        BY <1>0, <3>2 DEF Good, Pulling, Taken, Measured
      <4>3. Taken + Len(queue) <= Len(Stream)
        <5>1. CASE Len(queue) = 0
          BY <4>2, <5>1
        <5>2. CASE Len(queue) # 0
          BY <4>1, <4>2, <5>2
        <5> QED
          BY <5>1, <5>2
      <4> QED
        BY <1>0, <3>2, <4>1, <4>3 DEF Measured
    <3> QED
      BY <1>6, <3>1, <3>2 DEF EmitsEnd
  <2>2. Feeding'
    BY <1>0, <1>6, <2>1, ItemsTyped, FeedingGrows DEF Good, EmitsEnd
  <2> QED
    BY <1>1, <2>2 DEF Good
<1> QED
  BY <1>2, <1>3, <1>4, <1>5, <1>6 DEF ExecEmitsEffect, CopyOffersEffect, CopyStopsEffect, IdleEffect, Repeats

\* A connection that breaks loses the end of what is under way.
LEMMA GoodCuts ==
  ASSUME Base, Good, Same, NEW c \in Conns, CutEffect(c)
  PROVE  Good'
<1>0. Types /\ Measured /\ Stays /\ UNCHANGED <<sdk, control, worker, source, queue>>
  BY Measures, Staying DEF Base, CutEffect
<1>1. Feeding' /\ Pulling'
  <2>1. Pulling'
    BY <1>0 DEF Good, Pulling, Stays, Same
  <2> QED
    BY <1>0, <2>1, FeedingKept DEF Good, Unread, Taken, Stays, Same
<1>2. Repeating'
  BY <1>0, RepeatingKept DEF Good, CutEffect, Conns
<1>3. PICK k \in 0..Len(http[c].q) : http'[c].q = SubSeq(http[c].q, 1, k)
  BY DEF CutEffect
<1>4. CASE c = "api"
  <2>1. http'["api"].st = "abort"
    BY <1>4 DEF CutEffect
  <2>2. Piece(http["api"].q, Len(sdk.got), Payload) => Piece(http'["api"].q, Len(sdk.got), Payload)
    <3>1. /\ http["api"].q \in Seq(Item) /\ Payload \in Seq(Item) /\ Len(sdk.got) \in Nat
          /\ k \in 0..Len(http["api"].q) /\ http'["api"].q = SubSeq(http["api"].q, 1, k)
      BY <1>0, <1>3, <1>4 DEF Measured
    <3> QED
      BY <3>1, PieceCut
  <2>3. Arrive' /\ Middle'
    BY <1>0, <2>1, <2>2 DEF Good, Arrive, Middle, Stays
  <2> QED
    BY <1>1, <1>2, <2>3 DEF Good
<1>5. CASE c = "worker"
  <2>1. http'["worker"].st = "abort" /\ http'["api"] = http["api"]
    BY <1>5 DEF CutEffect, Conns
  <2>2. Piece(http["worker"].q, Arrived, Payload) => Piece(http'["worker"].q, Arrived, Payload)
    <3>1. /\ http["worker"].q \in Seq(Item) /\ Payload \in Seq(Item) /\ Arrived \in Nat
          /\ k \in 0..Len(http["worker"].q) /\ http'["worker"].q = SubSeq(http["worker"].q, 1, k)
      BY <1>0, <1>3, <1>5 DEF Measured
    <3> QED
      BY <3>1, PieceCut
  <2>3. Arrive'
    BY <1>0, <2>1, ArriveKept DEF Good
  <2>4. Arrived' = Arrived
    BY <1>0, <2>1 DEF Arrived
  <2>5. Middle'
    BY <1>0, <2>1, <2>2, <2>4 DEF Good, Middle, Stays
  <2> QED
    BY <1>1, <1>2, <2>3, <2>5 DEF Good
<1> QED
  BY <1>4, <1>5 DEF Conns

\* What the worker takes from its queue.
LEMMA PullsNext ==
  ASSUME Base, Good, worker.pc = "pull", queue # <<>>
  PROVE  /\ Head(queue) \in Item /\ Len(queue) >= 1 /\ Len(Tail(queue)) + 1 = Len(queue) /\ Len(Tail(queue)) \in Nat
         /\ \A i \in 1..Len(Tail(queue)) : i + 1 \in 1..Len(queue) /\ Tail(queue)[i] = queue[i + 1]
         /\ \/ worker.seen + 1 <= Len(Stream) /\ Head(queue) = Stream[worker.seen + 1]
               /\ Head(queue) \notin {<<"fail", 0>>, <<"eof", 0>>}
            \/ Head(queue) = <<"fail", 0>>
            \/ Head(queue) = <<"eof", 0>> /\ (Single \/ worker.seen = Len(Stream))
<1>1. Measured /\ left \in LoadType
  BY Measures DEF Base, Types
<1>2. /\ Head(queue) = queue[1] /\ Len(queue) \in Nat \ {0} /\ Len(Tail(queue)) = Len(queue) - 1
      /\ \A i \in 1..Len(Tail(queue)) : Tail(queue)[i] = queue[i + 1]
  BY <1>1, HeadTailProperties, EmptySeq, LenProperties DEF Measured
<1>3. Head(queue) \in Item
  BY <1>1, <1>2, ElementOfSeq DEF Measured
<1>4. (worker.seen + 1 <= Len(Stream) /\ queue[1] = Stream[worker.seen + 1]) \/ Stops(1)
  BY <1>2 DEF Good, Feeding, Taken
<1>5. CASE worker.seen + 1 <= Len(Stream) /\ queue[1] = Stream[worker.seen + 1]
  <2>1. worker.seen + 1 \in 1..Len(Stream)
    BY <1>1, <1>5 DEF Measured
  <2> QED
    BY <1>1, <1>2, <1>3, <1>5, <2>1, StreamIs
<1>6. CASE Stops(1)
  <2>1. worker.seen + 1 = Len(Stream) + 1 => worker.seen = Len(Stream)
    BY <1>1 DEF Measured
  <2> QED
    BY <1>2, <1>3, <1>6, <2>1 DEF Stops, Taken
<1> QED
  BY <1>4, <1>5, <1>6

\* Who sends all that the source emits.
LEMMA Whole ==
  ASSUME Base, Good, worker.pc = "pull", ~Single
  PROVE  Payload = Stream /\ Possible
<1>1. left.kind # "events" \/ sdk.again
  BY DEF Base, Order, Twice, Starting
<1>2. left.kind \notin {"file", "missing"} /\ (left.kind = "dir" => sdk.again)
  BY DEF Good, Repeating, Single, Reading, Files
<1> QED
  BY <1>1, <1>2 DEF Payload, Possible

\* A plain read: what it can meet is the file's entry, and then its blocks.
LEMMA Reads ==
  ASSUME Base, Good, worker.pc = "pull", Single, NEW x,
         worker.seen + 1 <= Len(Stream), x = Stream[worker.seen + 1]
  PROVE  \/ left.kind = "dir" /\ x = Dir
         \/ /\ left.kind = "file" /\ worker.rest = -1 /\ worker.seen = 0 /\ x = File(left.n)
         \/ /\ left.kind = "file" /\ worker.rest = left.n + 1 - worker.seen /\ worker.seen \in 1..left.n
            /\ x = Block(worker.seen) /\ x = Payload[worker.seen] /\ worker.rest # -1
<1>1. Measured /\ left \in LoadType /\ left.kind \in {"file", "dir", "missing"}
  BY Measures DEF Base, Types, Single, Reading, Files
<1>2. CASE left.kind = "file"
  <2>1. /\ Stream[1] = File(left.n)
        /\ \A i \in 1..left.n : Stream[i + 1] = Block(i) /\ Payload[i] = Block(i)
    BY <1>1, <1>2, StreamIs
  <2>2. CASE worker.rest = -1 /\ worker.seen = 0
    BY <1>2, <2>1, <2>2
  <2>3. CASE worker.rest > 0 /\ worker.seen > 0 /\ worker.rest = left.n + 1 - worker.seen
    <3>1. worker.seen \in 1..left.n /\ worker.rest # -1
      BY <1>1, <2>3 DEF Measured
    <3> QED
      BY <1>2, <2>1, <2>3, <3>1
  <2> QED
    BY <2>2, <2>3 DEF Good, Pulling
<1>3. CASE left.kind = "dir"
  <2>1. worker.seen = 0
    BY <1>3 DEF Good, Pulling
  <2> QED
    BY <1>1, <1>3, <2>1, StreamIs
<1>4. CASE left.kind = "missing"
  <2>1. Len(Stream) = 0
    BY <1>1, <1>4, StreamIs
  <2> QED
    BY <1>1, <2>1 DEF Measured
<1> QED
  BY <1>1, <1>2, <1>3, <1>4

LEMMA GoodPulls ==
  ASSUME Base, Good, Same, WorkerPullEffect
  PROVE  Good'
<1> DEFINE x == Head(queue)
<1>0. /\ Types /\ Measured /\ Stays /\ UNCHANGED <<sdk, control, source>> /\ http'["api"] = http["api"]
      /\ worker.pc = "pull" /\ http["worker"].st = "open" /\ queue # <<>> /\ queue' = Tail(queue)
      /\ worker' \in WorkerType /\ control.pc # "start"
  BY Measures, Staying DEF Base, WorkerPullEffect, Order, OneByOne
<1>1. /\ x \in Item /\ Len(queue) >= 1 /\ Len(Tail(queue)) + 1 = Len(queue) /\ Len(Tail(queue)) \in Nat
      /\ \A i \in 1..Len(Tail(queue)) : i + 1 \in 1..Len(queue) /\ Tail(queue)[i] = queue[i + 1]
      /\ \/ worker.seen + 1 <= Len(Stream) /\ x = Stream[worker.seen + 1] /\ x \notin {<<"fail", 0>>, <<"eof", 0>>}
         \/ x = <<"fail", 0>>
         \/ x = <<"eof", 0>> /\ (Single \/ worker.seen = Len(Stream))
  BY <1>0, PullsNext
<1> HIDE DEF x
<1>2. PullFails(x) \/ PullEnds(x) \/ PullPuts(x) \/ PullFile(x)
  BY DEF WorkerPullEffect, x
\* A plain read meets the entry of the directory, the entry of the file, or a block.
<1>3. ASSUME Single, worker.seen + 1 <= Len(Stream), x = Stream[worker.seen + 1]
      PROVE  \/ left.kind = "dir" /\ x = Dir
             \/ left.kind = "file" /\ worker.rest = -1 /\ worker.seen = 0 /\ x = File(left.n)
             \/ /\ left.kind = "file" /\ worker.rest = left.n + 1 - worker.seen /\ worker.seen \in 1..left.n
                /\ x = Block(worker.seen) /\ x = Payload[worker.seen] /\ worker.rest # -1
  BY <1>0, <1>3, Reads
<1>4. Repeating'
  <2>1. http'["worker"].why = "is_directory" => left.kind = "dir" \/ http'["worker"].why = http["worker"].why
    <3>1. CASE PullFails(x)
      BY <1>1, <1>3, <3>1 DEF PullFails, Dir, File, Block
    <3>2. CASE PullEnds(x) \/ PullPuts(x) \/ PullFile(x)
      BY <3>2 DEF PullEnds, PullPuts, PullFile
    <3> QED
      BY <1>2, <3>1, <3>2
  <2> QED
    BY <1>0, <2>1 DEF Good, Repeating, Same
<1>5. Arrive' /\ Arrived' = Arrived
  BY <1>0, ArriveKept DEF Good, Arrived
<1>6. ~Unread'
  BY <1>0, <1>2 DEF Base, Order, OneByOne, Twice, Starting, Unread, Same, PullFails, PullEnds, PullPuts, PullFile
\* What has been sent so far.
<1> DEFINE q == http["worker"].q
<1>7. ASSUME http["api"].st = "open", control.pc = "pass"
      PROVE  Piece(q, Arrived, Payload) /\ Arrived + Len(q) = Sent
  BY <1>0, <1>7 DEF Good, Middle
<1>8. q \in Seq(Item) /\ Len(q) \in Nat /\ Arrived \in Nat /\ worker.seen \in Nat /\ left.n \in Nat
  BY <1>0 DEF Measured
\* The handler is over.
<1>9. CASE PullFails(x)
  <2>1. worker'.pc # "pull" /\ http'["worker"].q = q /\ http'["worker"].st # "open" /\ http'["worker"].st # "eof"
    BY <1>9 DEF PullFails
  <2>2. Middle'
    BY <1>0, <1>5, <1>7, <2>1 DEF Good, Middle, Stays
  <2>3. Feeding'
    BY <1>6, <2>1 DEF Feeding
  <2> QED
    BY <1>4, <1>5, <2>1, <2>2, <2>3, NotPulling DEF Good
<1>10. CASE PullEnds(x)
  <2>1. worker'.pc # "pull" /\ http'["worker"].q = q /\ http'["worker"].st # "open"
    BY <1>10 DEF PullEnds
  <2>2. ASSUME http["api"].st = "open", control.pc = "pass" PROVE Possible /\ Sent = Len(Payload)
    <3>1. CASE Single
      <4>1. x # <<"eof", 0>>
        BY <1>0, <1>10, <3>1 DEF PullEnds, Good, Pulling, Measured
      <4>2. x[1] = "file" /\ worker.rest = -1 /\ x[2] = 0
        BY <1>10, <4>1 DEF PullEnds
      <4>3. left.kind = "file" /\ x = File(left.n)
        BY <1>1, <1>3, <3>1, <4>1, <4>2 DEF Dir, Block
      <4>4. left.n = 0
        BY <4>2, <4>3 DEF File
      <4>5. left \in LoadType
        BY <1>0 DEF Types
      <4> QED
        BY <1>0, <3>1, <4>2, <4>3, <4>4, <4>5, StreamIs DEF Sent, Possible
    <3>2. CASE ~Single
      <4>1. worker.seen = Len(Stream)
        BY <1>1, <1>10, <3>2 DEF PullEnds
      <4> QED
        BY <1>0, <3>2, <4>1, Whole DEF Sent
    <3> QED
      BY <3>1, <3>2
  <2>3. Middle'
    BY <1>0, <1>5, <1>7, <2>1, <2>2 DEF Middle, Stays
  <2>4. Feeding'
    BY <1>6, <2>1 DEF Feeding
  <2> QED
    BY <1>4, <1>5, <2>1, <2>3, <2>4, NotPulling DEF Good
\* It goes on.
<1>11. ASSUME worker'.pc = "pull", worker'.seen = worker.seen + 1 PROVE Feeding'
  <2>1. Taken = worker.seen /\ Taken' = worker.seen + 1
    BY <1>0, <1>11 DEF Taken
  <2>2. ASSUME NEW i \in 1..Len(Tail(queue))
        PROVE  (Taken' + i <= Len(Stream') /\ queue'[i] = Stream'[Taken' + i]) \/ Stops(i)'
    <3>4. i \in Nat /\ (worker.seen + 1) + i = worker.seen + (i + 1)
      BY <1>1, <1>8, <2>2
    <3>1. i + 1 \in 1..Len(queue) /\ queue'[i] = queue[i + 1] /\ Taken' + i = Taken + (i + 1)
      BY <1>0, <1>1, <2>1, <2>2, <3>4
    <3>2. (Taken + (i + 1) <= Len(Stream) /\ queue[i + 1] = Stream[Taken + (i + 1)]) \/ Stops(i + 1)
      BY <1>0, <3>1 DEF Good, Feeding
    <3>3. i + 1 = Len(queue) => i = Len(queue')
      <4> DEFINE n == Len(Tail(queue))
      <4>1. n \in Nat /\ n + 1 = Len(queue) /\ Len(queue') = n
        BY <1>0, <1>1
      <4> HIDE DEF n
      <4>2. i + 1 = n + 1 => i = n
        BY <3>4, <4>1
      <4> QED
        BY <4>1, <4>2
    <3> QED
      BY <1>0, <3>1, <3>2, <3>3 DEF Stops, Stays
  <2>3. source'.pc = "run" => Taken' + Len(queue') = source'.at
    BY <1>0, <1>1, <1>8, <2>1 DEF Good, Feeding, Measured
  <2> QED
    BY <1>0, <2>2, <2>3 DEF Feeding
<1>12. CASE PullFile(x)
  <2>1. /\ worker'.pc = "pull" /\ worker'.seen = worker.seen + 1 /\ worker'.rest = x[2] /\ x[2] # 0
        /\ Single /\ x[1] = "file" /\ worker.rest = -1 /\ http'["worker"] = http["worker"]
    BY <1>12 DEF PullFile
  <2>2. left.kind = "file" /\ worker.seen = 0 /\ x[2] = left.n
    BY <1>1, <1>3, <2>1 DEF Dir, File, Block
  <2>3. Sent = 0 /\ Sent' = 0 /\ Single'
    BY <1>0, <1>8, <2>1, <2>2 DEF Sent, Stays
  <2>4. Middle'
    BY <1>0, <1>5, <1>7, <2>1, <2>3 DEF Middle, Stays
  <2>5. Pulling'
    BY <1>8, <2>1, <2>2, <2>3 DEF Pulling, Same
  <2> QED
    BY <1>4, <1>5, <1>11, <2>1, <2>4, <2>5 DEF Good
<1>13. CASE PullPuts(x)
  <2>1. worker.seen + 1 <= Len(Stream) /\ x = Stream[worker.seen + 1] /\ http'["worker"].q = Append(q, x)
    BY <1>1, <1>13 DEF PullPuts
  \* The item is the next of what is to be transferred.
  <2>2. /\ Sent \in Nat /\ Sent + 1 <= Len(Payload) /\ x = Payload[Sent + 1]
        /\ Single => /\ left.kind = "file" /\ worker.rest = left.n + 1 - worker.seen /\ worker.seen \in 1..left.n
                     /\ x[1] = "block"
    <3>1. CASE Single
      <4>1. /\ left.kind = "file" /\ worker.rest = left.n + 1 - worker.seen /\ worker.seen \in 1..left.n
            /\ x = Block(worker.seen) /\ x = Payload[worker.seen] /\ worker.rest # -1
        BY <1>3, <1>13, <2>1, <3>1 DEF PullPuts, Dir, File
      <4>2. Len(Payload) = left.n
        BY <1>0, <4>1, StreamIs DEF Types
      <4>3. Sent = worker.seen - 1
        BY <1>0, <3>1, <4>1 DEF Sent
      <4> QED
        BY SMTT(40), <1>8, <4>1, <4>2, <4>3 DEF Block
    <3>2. CASE ~Single
      BY <1>0, <1>8, <2>1, <3>2, Whole DEF Sent
    <3> QED
      BY <3>1, <3>2
  <2>3. ASSUME http["api"].st = "open", control.pc = "pass"
        PROVE  /\ Piece(http'["worker"].q, Arrived, Payload)
               /\ Arrived + Len(http'["worker"].q) = Sent + 1
    <3>1. Piece(q, Arrived, Payload) /\ Arrived + Len(q) = Sent
      BY <1>7, <2>3
    <3>2. Payload \in Seq(Item) /\ Arrived + Len(q) + 1 <= Len(Payload) /\ x = Payload[Arrived + Len(q) + 1]
      BY <1>0, <2>2, <3>1 DEF Measured
    <3>3. Piece(Append(q, x), Arrived, Payload) /\ Len(Append(q, x)) = Len(q) + 1
      BY ZenonT(60), <1>1, <1>8, <3>1, <3>2, PieceAppend
    <3>4. Arrived + (Len(q) + 1) = (Arrived + Len(q)) + 1
      BY <1>8, Sums, Zenon
    <3> QED
      BY <2>1, <3>1, <3>3, <3>4
  <2>4. CASE Single /\ worker.rest = 1 /\ worker'.pc = "over" /\ http'["worker"].st = "eof"
    <3>1. Possible /\ Sent + 1 = Len(Payload)
      <4>1. worker.seen = left.n /\ left.kind = "file" /\ left.n > 0
        BY <1>8, <2>2, <2>4
      <4>2. Len(Payload) = left.n
        BY <1>0, <4>1, StreamIs DEF Types
      <4> QED
        BY <1>0, <1>8, <2>4, <4>1, <4>2 DEF Possible, Sent
    <3>2. Middle'
      BY <1>0, <1>5, <2>3, <2>4, <3>1 DEF Middle, Stays
    <3>3. Feeding'
      BY <1>6, <2>4 DEF Feeding
    <3> QED
      BY <1>4, <1>5, <2>4, <3>2, <3>3, NotPulling DEF Good
  <2>5. CASE /\ worker'.pc = "pull" /\ worker'.seen = worker.seen + 1 /\ http'["worker"].st = "open"
             /\ ~Single \/ (worker'.rest = worker.rest - 1 /\ worker.rest # 1)
    <3>1. Pulling' /\ Sent' = Sent + 1
      <4>1. CASE Single
        <5>1. /\ worker'.rest = left.n + 1 - (worker.seen + 1) /\ worker.seen + 1 \in 2..left.n
              /\ worker'.rest > 0 /\ worker'.rest # -1
          BY SMTT(40), <1>8, <2>2, <2>5, <4>1
        <5>2. Sent = worker.seen - 1 /\ Sent' = (worker.seen + 1) - 1
          BY <1>0, <1>8, <2>2, <2>5, <4>1, <5>1 DEF Sent, Stays
        <5>3. worker.seen + 1 > 0 /\ left'.n = left.n /\ left'.kind = "file" /\ Single'
          BY <1>0, <1>8, <2>2, <4>1 DEF Same, Stays
        <5>4. Pulling'
          BY <2>5, <5>1, <5>3 DEF Pulling
        <5>5. (worker.seen + 1) - 1 = (worker.seen - 1) + 1
          BY <1>8
        <5> QED
          BY <5>2, <5>4, <5>5
      <4>2. CASE ~Single
        BY <1>0, <2>1, <2>5, <4>2 DEF Pulling, Sent, Stays
      <4> QED
        BY <4>1, <4>2
    <3>2. Middle'
      BY <1>0, <1>5, <2>3, <2>5, <3>1 DEF Middle, Stays
    <3> QED
      BY <1>4, <1>5, <1>11, <2>5, <3>1, <3>2 DEF Good
  <2> QED
    BY <1>13, <2>2, <2>4, <2>5 DEF PullPuts
<1> QED
  BY <1>2, <1>9, <1>10, <1>12, <1>13

LEMMA GoodStep == ASSUME Base, Good, Same, Effect PROVE source'.twice \/ Good'
BY GoodAsks, GoodReceives, GoodForwards, GoodPasses, GoodGoes, GoodStarts, GoodCommands, GoodRefuses, GoodPulls,
   GoodSource, GoodUploads, GoodCuts DEF Effect

-----------------------------------------------------------------------------
(* The result *)

Complete == file = [new |-> TRUE, blocks |-> left.n]
\* The worker says that an upload is done when tar has read all of it.
Written ==
  Writing =>
    /\ worker.pc = "tar" => file.new
    /\ (http["worker"].st = "eof" \/ (sdk.pc = "wait" /\ http["api"].st = "eof")) => Complete
\* After a success nobody goes on.
Finished ==
  sdk.res = "ok" => control.pc = "over" /\ worker.pc = "over" /\ (Content \/ source.twice)

LEMMA WrittenStep == ASSUME Base, Written, Same, Effect PROVE Written'
<1> SUFFICES ASSUME Writing PROVE Written'
  BY DEF Written, Same, Writing
<1>0. Types /\ Order /\ Uploads
  BY DEF Base
<1>1. CASE /\ UNCHANGED file
           /\ worker'.pc = "tar" => worker.pc = "tar"
           /\ http'["worker"].st = "eof" => http["worker"].st = "eof"
           /\ (sdk'.pc = "wait" /\ http'["api"].st = "eof") =>
                http["worker"].st = "eof" \/ (sdk.pc = "wait" /\ http["api"].st = "eof")
  BY <1>1 DEF Written, Complete, Same
<1>2. CASE ExtractEffect
  <2>1. CASE file' = [new |-> TRUE, blocks |-> 0] /\ http' = http
    <3>1. ~file.new /\ ~Complete
      BY <1>0, <1>2 DEF ExtractEffect, Uploads, Complete
    <3> QED
      BY <1>2, <2>1, <3>1 DEF Written, ExtractEffect
  <2>2. CASE file' = file /\ Fails
    BY <1>1, <1>2, <2>2 DEF ExtractEffect, Fails, Answers
  <2> QED
    BY <1>2, <2>1, <2>2 DEF ExtractEffect
<1>3. CASE TarReadsEffect
  <2>0. /\ worker.pc = "tar" /\ sdk' = sdk /\ file \in [new : BOOLEAN, blocks : Nat] /\ file.new
        /\ upload.worker = left.n
    BY <1>0, <1>3 DEF TarReadsEffect, Types, Written, Uploads, SpooledFirst
  <2>1. CASE file.blocks < upload.worker /\ file' = [file EXCEPT !.blocks = @ + 1] /\ UNCHANGED <<worker, http>>
    <3>1. ~Complete /\ file'.new
      BY <1>0, <2>0, <2>1 DEF Complete, Types, LoadType
    <3> QED
      BY <2>0, <2>1, <3>1 DEF Written
  <2>2. CASE /\ file.blocks = upload.worker /\ file' = file
             /\ \E h \in Pipe : /\ h.q = http["worker"].q /\ h.st = "eof" /\ h.why = http["worker"].why /\ Answers(h)
    <3>1. Complete'
      BY <2>0, <2>2 DEF Complete, Same
    <3> QED
      BY <2>2, <3>1 DEF Written, Answers
  <2>3. CASE file' = file /\ Fails
    BY <1>1, <1>3, <2>3 DEF TarReadsEffect, Fails, Answers
  <2> QED
    BY <1>3, <2>1, <2>2, <2>3 DEF TarReadsEffect
<1>4. CASE AsksEffect \/ ReceiveEffect
  BY <1>1, <1>4, AskedIs DEF AsksEffect, ReceiveEffect, Takes, AsksAgain, Ended
<1>5. CASE control.pc = "start" /\ ForwardsEffect
  BY <1>0, <1>1, <1>5, AskedIs DEF ForwardsEffect, Passes, Refused, Order, OneByOne
<1>6. CASE ControlPassEffect \/ ControlGoneEffect
  BY <1>1, <1>6 DEF ControlPassEffect, Moves, PassesEnd, ControlGoneEffect
<1>7. CASE WorkerRefusesEffect \/ WorkerGoneEffect \/ StagesEffect
  BY <1>1, <1>7 DEF WorkerRefusesEffect, Fails, Answers, WorkerGoneEffect, StagesEffect
<1>8. CASE WorkerStartsEffect \/ WorkerCommandEffect \/ WorkerStreamEffect \/ WorkerPullEffect
  BY <1>0, <1>8 DEF WorkerStartsEffect, WorkerCommandEffect, WorkerStreamEffect, WorkerPullEffect, Writing, Starting,
     Streaming, Order, Twice
<1>9. CASE ExecEmitsEffect \/ CopyOffersEffect \/ CopyStopsEffect \/ IdleEffect
  BY <1>1, <1>9 DEF ExecEmitsEffect, CopyOffersEffect, CopyStopsEffect, IdleEffect
<1>10. CASE \E c \in Conns : CutEffect(c)
  BY <1>1, <1>10 DEF CutEffect, Conns
<1> QED
  BY <1>2, <1>3, <1>4, <1>5, <1>6, <1>7, <1>8, <1>9, <1>10 DEF Effect

\* What has been offered twice stays so.
LEMMA TwiceStays == ASSUME Effect, source.twice PROVE source'.twice
BY DEF Effect, AsksEffect, ReceiveEffect, ForwardsEffect, ControlPassEffect, ControlGoneEffect,
   WorkerStartsEffect, Starts,
   WorkerCommandEffect, WorkerStreamEffect, WorkerRefusesEffect, WorkerPullEffect, WorkerGoneEffect,
   ExecEmitsEffect, Emits, EmitsEnd, EmitsFail, CopyOffersEffect, CopyStopsEffect, Stopped,
   StagesEffect, ExtractEffect, TarReadsEffect, IdleEffect, CutEffect

\* The SDK has received an answer that has ended.
LEMMA Received ==
  ASSUME Base, Good, Written, sdk.pc = "wait", http["api"].q = <<>>, http["api"].st = "eof", ~Starting
  PROVE  Content
<1>1. Measured /\ left \in LoadType /\ left.kind \in Kinds
  BY Measures DEF Base, Types, Measured
<1>2. Possible /\ Piece(sdk.got, 0, Payload) /\ Arrived = Len(Payload)
  BY DEF Good, Arrive
<1>3. Len(sdk.got) = Len(Payload)
  <2>1. Len(http["api"].q) = 0 /\ Len(sdk.got) \in Nat
    BY <1>1 DEF Measured
  <2>2. \A a \in Nat : a + 0 = a
    OBVIOUS
  <2> QED
    BY <1>2, <2>1, <2>2, Zenon DEF Arrived
<1>4. sdk.got = Payload
  BY <1>1, <1>2, <1>3, PieceWhole DEF Measured
<1>5. CASE left.kind = "file"
  BY <1>4, <1>5 DEF Payload, Content
<1>6. CASE left.kind = "write"
  BY <1>6 DEF Written, Writing, Complete, Content
<1>7. CASE left.kind \notin {"file", "write", "missing"}
  <2>1. Payload = Stream
    BY <1>2, <1>7 DEF Payload, Possible, Starting
  <2> QED
    BY <1>4, <1>7, <2>1 DEF Content
<1> QED
  BY <1>2, <1>5, <1>6, <1>7 DEF Possible

LEMMA ContentStays ==
  ASSUME Content, Same, sdk'.got = sdk.got, file' = file
  PROVE  Content'
BY Later DEF Content, Same

LEMMA FinishedStep == ASSUME Base, Written, source.twice \/ Good, Finished, Same, Effect PROVE Finished'
<1>0. Types /\ Order /\ Uploads
  BY DEF Base
<1>1. CASE ReceiveEffect /\ Ended /\ sdk'.res = "ok"
  <2>1. /\ sdk.pc = "wait" /\ http["api"].q = <<>> /\ http["api"].st = "eof" /\ ~Starting /\ sdk'.got = sdk.got
        /\ UNCHANGED <<control, worker, source, file>>
    BY <1>1 DEF ReceiveEffect, Ended
  <2>2. control.pc = "over" /\ worker.pc = "over"
    BY <1>0, <2>1 DEF Order, Opened, Endings, Types, ControlType
  <2>3. Content \/ source.twice
    BY <2>1, Received
  <2>4. Content' \/ source'.twice
    BY <2>1, <2>3, ContentStays
  <2> QED
    BY <2>1, <2>2, <2>4 DEF Finished
<1>2. ASSUME ~(ReceiveEffect /\ Ended /\ sdk'.res = "ok"), sdk'.res = "ok"
      PROVE  /\ sdk.res = "ok" /\ sdk.pc = "done" /\ control.pc = "over" /\ worker.pc = "over"
             /\ Content \/ source.twice
  <2>1. sdk'.res = sdk.res
    BY <1>2 DEF Effect, AsksEffect, ReceiveEffect, Takes, AsksAgain, Ended, ForwardsEffect, ControlPassEffect,
       ControlGoneEffect, WorkerStartsEffect, WorkerCommandEffect, WorkerStreamEffect, WorkerRefusesEffect,
       WorkerPullEffect, WorkerGoneEffect, ExecEmitsEffect, CopyOffersEffect, CopyStopsEffect,
       StagesEffect, ExtractEffect, TarReadsEffect, IdleEffect, CutEffect
  <2> QED
    BY <1>0, <1>2, <2>1 DEF Finished, Order, OneByOne
<1>3. ASSUME sdk.res = "ok", sdk.pc = "done", control.pc = "over", worker.pc = "over"
      PROVE  sdk'.got = sdk.got /\ file' = file /\ control'.pc = "over" /\ worker'.pc = "over"
  BY <1>3 DEF Effect, AsksEffect, ReceiveEffect, ControlPassEffect, ControlGoneEffect, WorkerStartsEffect,
     WorkerCommandEffect, WorkerStreamEffect, WorkerRefusesEffect, WorkerPullEffect, WorkerGoneEffect,
     ExecEmitsEffect, CopyOffersEffect, CopyStopsEffect, StagesEffect, ExtractEffect, TarReadsEffect,
     IdleEffect, CutEffect
<1> QED
  BY <1>1, <1>2, <1>3, ContentStays, TwiceStays DEF Finished

-----------------------------------------------------------------------------
(* The theorems *)

LEMMA Begins == Init => Base /\ Written /\ Finished
<1> SUFFICES ASSUME Init PROVE Base /\ Written /\ Finished
  OBVIOUS
<1>1. left \in LoadType
  BY TransfersAssumption DEF Init, LoadType
<1>2. http \in [Conns -> Pipe] /\ \A c \in Conns : http[c].st = "closed" /\ http[c].why = ""
  <2>1. Closed \in Pipe /\ Closed.st = "closed" /\ Closed.why = ""
    BY EmptySeq DEF Closed, Pipe, Reasons
  <2> QED
    BY <2>1 DEF Init
<1>3. Types
  <2>1. sdk \in SdkType
    BY EmptySeq DEF Init, SdkType
  <2>2. control \in ControlType /\ source \in SourceType
    BY DEF Init, ControlType, SourceType
  <2>5. worker \in WorkerType
    <3>1. worker = [pc |-> "over", seen |-> 0, begun |-> FALSE, rest |-> -1]
      BY DEF Init
    <3> DEFINE w == [pc |-> "over", seen |-> 0, begun |-> FALSE, rest |-> -1]
    <3>2. w \in WorkerType
      BY DEF WorkerType
    <3> QED
      BY <3>1, <3>2
  <2>3. upload \in [sdk : Nat, control : Nat, worker : Nat] /\ file \in [new : BOOLEAN, blocks : Nat]
    BY DEF Init
  <2>4. queue \in Seq(Item)
    BY EmptySeq DEF Init
  <2> QED
    BY <1>1, <1>2, <2>1, <2>2, <2>3, <2>4, <2>5 DEF Types
<1>4. Order /\ Uploads
  BY <1>2 DEF Init, Conns, Order, OneByOne, Opened, Endings, Twice, Uploads, SpooledFirst
<1> QED
  BY <1>2, <1>3, <1>4 DEF Init, Base, Written, Finished, Conns

\* The loads the second theorem is about: a tar process that packs a directory does not
\* fail midway. The worker does not look at its exit code once something has come, and an
\* archive that stops between two members is taken for whole (_extract_directory).
Clean == \A l \in Loads : (l.kind = "dir" /\ l.tar) => l.fails = 0

LEMMA BeginsWell == ASSUME Clean PROVE Init => Good
<1> SUFFICES ASSUME Init PROVE Good
  OBVIOUS
<1>1. http["api"] = Closed /\ http["worker"] = Closed /\ Closed.why = "" /\ Closed.st = "closed"
  BY DEF Init, Conns, Closed
<1>2. /\ sdk.pc = "ask" /\ ~sdk.again /\ worker.pc = "over" /\ source.pc = "over" /\ queue = <<>>
      /\ left \in Loads
  BY DEF Init
<1>3. Repeating
  BY <1>1, <1>2 DEF Clean, Repeating
<1>4. Feeding
  <2>1. 1..Len(queue) = {} /\ source.pc # "run"
    BY <1>2
  <2> QED
    BY <2>1 DEF Feeding
<1>5. Arrive /\ Middle /\ Pulling
  BY <1>1, <1>2 DEF Arrive, Middle, Pulling
<1> QED
  BY <1>3, <1>4, <1>5 DEF Good

\* A call that reports success has transferred all there is: no refusal, broken
\* connection, limit or failed source is taken for the end of the content, on either hop and
\* in either direction (ControlPass, WorkerPull, first_regular_file, _proxy_stream).
THEOREM SuccessComplete == ASSUME Clean PROVE Spec => []SuccessIsWhole
<1> DEFINE I == Base /\ Written /\ Finished /\ (source.twice \/ Good)
<1>1. Init => I
  BY Begins, BeginsWell
<1>2. I /\ [Next]_vars => I'
  <2> SUFFICES ASSUME I, [Next]_vars PROVE I'
    OBVIOUS
  <2>1. Same /\ Effect
    BY Effects, Loaded DEF Base
  <2>2. Base' /\ Written' /\ Finished'
    BY <2>1, BaseStep, WrittenStep, FinishedStep
  <2>3. source'.twice \/ Good'
    BY <2>1, GoodStep, TwiceStays
  <2> QED
    BY <2>2, <2>3
<1>3. I => SuccessIsWhole
  BY DEF Finished, SuccessIsWhole
<1> QED
  BY <1>1, <1>2, <1>3, PTL DEF Spec
=====
