----------------------------- MODULE RelayProofs -----------------------------
(***************************************************************************)
(* Theorems about Relay, for every load: what has arrived at an end is what   *)
(* the other has sent, from the first frame on and without a gap, and an end  *)
(* that only listens and finds the connection closed has got everything.      *)
(* The argument follows a direction from the end that listens to the one that *)
(* speaks: as long as nobody on the way has stopped, the frames on the three  *)
(* links and in the two tasks continue each other; and where one has stopped  *)
(* although nothing went wrong, it had nothing more to pass on.               *)
(***************************************************************************)
EXTENDS Relay, SequenceTheorems, TLAPS

(* A piece of a direction: what is under way on a link, and the task that puts it there *)

Bare(q) == \A i \in 1..Len(q) : q[i] # Close
\* Up to the close frame, the frames of q are those after the n-th.
Follows(q, n) == \A i \in 1..Len(q) : (\A k \in 1..i : q[k] # Close) => q[i] = n + i
\* The close frame comes after a frame that may be the last.
Ends(q, n, last) ==
  \A i \in 1..Len(q) : (q[i] = Close /\ \A k \in 1..(i - 1) : q[k] # Close) => n + i - 1 \in last

\* c: whoever reads q has read the first n frames and reads on; b, h: what the task that
\* writes q is doing and holds.
Piece(c, n, q, b, h, last) ==
  /\ c => Follows(q, n) /\ Ends(q, n, last)
  /\ (c /\ Bare(q)) => /\ h # Nothing => h = n + Len(q) + 1
                       /\ b = "done" => n + Len(q) \in last
\* If the task stops, its reader has got or will get all that may come.
Through(c, n, q, last) == (c /\ Bare(q)) => n + Len(q) \in last
\* Whoever writes q will read on as well, and what it has read.
On(c, q, b) == c /\ Bare(q) /\ b \in {"wait", "run"}
Base(n, q, h) == n + Len(q) + IF h = Nothing THEN 0 ELSE 1

\* The link on which the end speaks, m frames so far.
Source(c, n, q, m, last) ==
  /\ c => Follows(q, n) /\ Ends(q, n, last)
  /\ (c /\ Bare(q)) => m = n + Len(q)

\* A direction, from the end that listens to the one that speaks: g frames have arrived, y
\* says that this end reads on.
Flow(g, y, q2, b2, h2, q1, b1, h1, q0, m, last) ==
  LET c1 == On(y, q2, b2)      n1 == Base(g, q2, h2)
      c0 == On(c1, q1, b1)     n0 == Base(n1, q1, h1)
  IN /\ ~y => g \in last
     /\ Piece(y, g, q2, b2, h2, last)
     /\ Piece(c1, n1, q1, b1, h1, last)
     /\ Source(c0, n0, q0, m, last)

-----------------------------------------------------------------------------
(* The invariant *)

Opposite(d) == IF d = "down" THEN "up" ELSE "down"
Near(d) == IF d = "down" THEN 1 ELSE 2      \* the relay next to the end that speaks
Far(d) == IF d = "down" THEN 2 ELSE 1

Before == {"idle", "check", "connect"}
Doing(r, d) == CASE relay[r] \in Before -> "wait"
                 [] Running(r, d) -> "run"
                 [] relay[r] \in {"relay", "close"} /\ ~Running(r, d) -> "done"
                 [] OTHER -> "over"
\* An end has left, or its connection will never be open.
Silent(d) == \/ Sender(d) \in gone[EndOf(d)]
             \/ d = "down" /\ (link[0] = "refused" \/ (link[0] # "open" /\ link[1] = "refused"))
\* The frames that a relay may end after: the last there will be; once something has gone
\* wrong, any.
MayEnd(d) == IF ~Listens(d) THEN Nat ELSE IF Silent(d) THEN {sent[d]} ELSE {}

\* The end that a direction leads to has not closed.
Reads(d) == Receiver(d) \notin gone[2 - EndOf(d)]

FlowOf(d) ==
  Flow(Len(got[d]), Reads(d),
       wire[2 - EndOf(d)][d], Doing(Far(d), d), held[Far(d)][d],
       wire[1][d], Doing(Near(d), d), held[Near(d)][d],
       wire[EndOf(d)][d], sent[d], MayEnd(d))
FlowInv == \A d \in Dirs : FlowOf(d)

Types ==
  /\ link \in [Links -> {"none", "asked", "open", "refused"}]
  /\ gone \in [Links -> SUBSET Sides]
  /\ wire \in [Links -> [Dirs -> Seq(Nat)]]
  /\ relay \in [Relays -> Before \cup {"relay", "close", "over"}]
  /\ pump \in [Relays -> [Dirs -> {"run", "over"}]]
  /\ held \in [Relays -> [Dirs -> Nat]]
  /\ sent \in [Dirs -> Nat] /\ got \in [Dirs -> Seq(Nat)]
  /\ quit \subseteq Dirs \cup {"cut"}
  /\ left \in [down : Nat, up : Nat, refuses : Nat, slow : Nat, cuts : Nat]

\* How far the opening has come.
Opening ==
  /\ link[0] = "none" => relay[1] = "idle"
  /\ relay[1] \in {"idle", "check"} => relay[2] = "idle" /\ link[1] = "none"
  /\ relay[1] \in {"check", "connect"} => link[0] = "asked"
  /\ relay[1] \in {"relay", "close"} => link[0] = "open"
  /\ link[0] = "open" => link[1] = "open" /\ relay[1] \notin Before
  /\ link[0] = "refused" => relay[1] = "over"
  /\ relay[2] = "idle" => link[1] = "none"
  /\ relay[2] \in {"check", "connect"} => link[1] = "asked"
  /\ link[1] = "none" => relay[2] = "idle" /\ relay[1] \in {"idle", "check", "over"}
  /\ link[1] = "open" => relay[2] \in {"relay", "close", "over"}
  /\ link[1] = "refused" => relay[2] = "over"
  /\ link[0] # "open" => sent["down"] = 0

Tasks ==
  /\ \A r \in Relays, d \in Dirs : held[r][d] # Nothing => Running(r, d)
  /\ \A r \in Relays, d \in Dirs :
       Receiver(d) \in gone[In(r, d)] => relay[r] \notin Before /\ ~Running(r, d)

\* Every frame was sent.
Sound(q, m) == \A i \in 1..Len(q) : q[i] <= m
Counted(s) == s = [i \in 1..Len(s) |-> i]
Frames ==
  /\ \A d \in Dirs, l \in Links : Sound(wire[l][d], sent[d])
  /\ \A d \in Dirs, r \in Relays : held[r][d] <= sent[d]
  /\ \A d \in Dirs : Counted(got[d]) /\ Len(got[d]) <= sent[d]

\* An end that only listens gives the relays no reason to stop.
CalmOf(d) ==
  LET o == Opposite(d) IN
  /\ wire[2 - EndOf(d)][o] = <<>>
  /\ relay[Far(d)] = "relay" => pump[Far(d)][o] = "run"
  /\ relay[Far(d)] # "over" =>
       wire[1][o] = <<>> /\ (relay[Near(d)] = "relay" => pump[Near(d)][o] = "run")
Calm == \A d \in Dirs : Listens(d) => CalmOf(d)

RelayInv == Types /\ Opening /\ Tasks /\ Frames /\ Calm /\ FlowInv

-----------------------------------------------------------------------------
(* Sequences of frames *)

LEMMA Tails ==
  ASSUME NEW q \in Seq(Nat), q # <<>>
  PROVE  /\ Len(q) \in Nat \ {0} /\ Head(q) = q[1] /\ Head(q) \in Nat
         /\ Tail(q) \in Seq(Nat) /\ Len(Tail(q)) = Len(q) - 1
         /\ \A i \in 1..Len(Tail(q)) : i + 1 \in 1..Len(q) /\ Tail(q)[i] = q[i + 1]
<1>1. /\ Head(q) = q[1] /\ Len(q) \in Nat \ {0} /\ Tail(q) \in Seq(Nat) /\ Len(Tail(q)) = Len(q) - 1
      /\ \A i \in 1..Len(Tail(q)) : Tail(q)[i] = q[i + 1]
  BY HeadTailProperties, EmptySeq, LenProperties
<1>2. Head(q) \in Nat
  BY <1>1, ElementOfSeq
<1> QED
  BY <1>1, <1>2

LEMMA Appends ==
  ASSUME NEW q \in Seq(Nat), NEW x \in Nat
  PROVE  /\ Append(q, x) \in Seq(Nat) /\ Len(q) \in Nat /\ Len(Append(q, x)) = Len(q) + 1
         /\ Append(q, x)[Len(q) + 1] = x /\ \A i \in 1..Len(q) : Append(q, x)[i] = q[i] /\ q[i] \in Nat
BY AppendProperties, LenProperties, ElementOfSeq

LEMMA FirstFrames ==
  ASSUME NEW q \in Seq(Nat), NEW m \in 0..Len(q)
  PROVE  /\ SubSeq(q, 1, m) \in Seq(Nat) /\ Len(q) \in Nat /\ Len(SubSeq(q, 1, m)) = m
         /\ \A i \in 1..m : SubSeq(q, 1, m)[i] = q[i]
BY SubSeqProperties, LenProperties

\* A frame is put on a link.
LEMMA Put ==
  ASSUME NEW q \in Seq(Nat), NEW x \in Nat, NEW n \in Nat, NEW last
  PROVE  LET a == Append(q, x) IN
         /\ a \in Seq(Nat) /\ Len(a) = Len(q) + 1 /\ Len(q) \in Nat
         /\ Bare(a) <=> (Bare(q) /\ x # Close)
         /\ (Follows(q, n) /\ (Bare(q) => (x = Close \/ x = n + Len(q) + 1))) => Follows(a, n)
         /\ (Ends(q, n, last) /\ ((Bare(q) /\ x = Close) => n + Len(q) \in last)) => Ends(a, n, last)
<1> DEFINE a == Append(q, x)
<1>1. /\ a \in Seq(Nat) /\ Len(q) \in Nat /\ Len(a) = Len(q) + 1
      /\ a[Len(q) + 1] = x /\ \A i \in 1..Len(q) : a[i] = q[i] /\ q[i] \in Nat
  BY Appends
<1> HIDE DEF a
<1>2. \A i \in 1..Len(a) : i \in 1..Len(q) \/ i = Len(q) + 1
  BY <1>1
<1>3. Bare(a) <=> (Bare(q) /\ x # Close)
  <2>1. ASSUME Bare(a) PROVE Bare(q) /\ x # Close
    BY <1>1, <2>1 DEF Bare
  <2>2. ASSUME Bare(q), x # Close PROVE Bare(a)
    BY <1>1, <1>2, <2>2 DEF Bare
  <2> QED
    BY <2>1, <2>2
<1>4. ASSUME Follows(q, n), Bare(q) => (x = Close \/ x = n + Len(q) + 1) PROVE Follows(a, n)
  <2> SUFFICES ASSUME NEW i \in 1..Len(a), \A k \in 1..i : a[k] # Close PROVE a[i] = n + i
    BY DEF Follows
  <2>1. CASE i \in 1..Len(q)
    <3>1. \A k \in 1..i : q[k] # Close
      BY SMTT(40), <1>1, <2>1
    <3> QED
      BY <1>1, <1>4, <2>1, <3>1 DEF Follows
  <2>2. CASE i = Len(q) + 1
    <3>1. Bare(q)
      BY <1>1, <2>2 DEF Bare
    <3>2. a[i] # Close
      BY <1>1, <2>2
    <3> QED
      BY <1>1, <1>4, <2>2, <3>1, <3>2
  <2> QED
    BY <1>2, <2>1, <2>2
<1>5. ASSUME Ends(q, n, last), (Bare(q) /\ x = Close) => n + Len(q) \in last PROVE Ends(a, n, last)
  <2> SUFFICES ASSUME NEW i \in 1..Len(a), a[i] = Close, \A k \in 1..(i - 1) : a[k] # Close
               PROVE  n + i - 1 \in last
    BY DEF Ends
  <2>1. CASE i \in 1..Len(q)
    <3>1. q[i] = Close
      BY <1>1, <2>1
    <3>2. \A k \in 1..(i - 1) : k \in 1..Len(q) /\ k \in 1..Len(a) /\ q[k] # Close
      BY <1>1, <2>1
    <3> QED
      BY <1>5, <2>1, <3>1, <3>2 DEF Ends
  <2>2. CASE i = Len(q) + 1
    <3>1. Bare(q) /\ x = Close
      BY <1>1, <2>2 DEF Bare
    <3> QED
      BY <1>1, <1>5, <2>2, <3>1
  <2> QED
    BY <1>2, <2>1, <2>2
<1> QED
  BY <1>1, <1>3, <1>4, <1>5 DEF a

\* A frame is taken from a link.
LEMMA Taken ==
  ASSUME NEW q \in Seq(Nat), q # <<>>, NEW n \in Nat, NEW last
  PROVE  /\ Tail(q) \in Seq(Nat) /\ Len(Tail(q)) = Len(q) - 1 /\ Len(q) \in Nat /\ Head(q) \in Nat
         /\ Head(q) = Close => (~Bare(q) /\ (Ends(q, n, last) => n \in last))
         /\ Head(q) # Close =>
              /\ Bare(q) <=> Bare(Tail(q))
              /\ Follows(q, n) => (Head(q) = n + 1 /\ Follows(Tail(q), n + 1))
              /\ Ends(q, n, last) => Ends(Tail(q), n + 1, last)
<1> DEFINE t == Tail(q)
<1>1. /\ Len(q) \in Nat \ {0} /\ Head(q) = q[1] /\ Head(q) \in Nat
      /\ t \in Seq(Nat) /\ Len(t) = Len(q) - 1
      /\ \A i \in 1..Len(t) : i + 1 \in 1..Len(q) /\ t[i] = q[i + 1]
  BY Tails
<1> HIDE DEF t
<1>2. ASSUME Head(q) = Close PROVE ~Bare(q) /\ (Ends(q, n, last) => n \in last)
  <2>1. 1 \in 1..Len(q) /\ q[1] = Close /\ \A k \in 1..(1 - 1) : q[k] # Close
    BY <1>1, <1>2
  <2>2. Ends(q, n, last) => n + 1 - 1 \in last
    BY <2>1 DEF Ends
  <2> QED
    BY <2>1, <2>2 DEF Bare
<1>3. ASSUME Head(q) # Close
      PROVE  /\ Bare(q) <=> Bare(t)
             /\ Follows(q, n) => (Head(q) = n + 1 /\ Follows(t, n + 1))
             /\ Ends(q, n, last) => Ends(t, n + 1, last)
  <2>1. \A i \in 1..Len(q) : i = 1 \/ (i - 1 \in 1..Len(t) /\ t[i - 1] = q[i])
    BY <1>1
  <2>2. Bare(q) <=> Bare(t)
    <3>1. ASSUME Bare(q) PROVE Bare(t)
      BY <1>1, <3>1 DEF Bare
    <3>2. ASSUME Bare(t) PROVE Bare(q)
      BY <1>1, <1>3, <2>1, <3>2 DEF Bare
    <3> QED
      BY <3>1, <3>2
  <2>3. ASSUME Follows(q, n) PROVE Head(q) = n + 1 /\ Follows(t, n + 1)
    <3>1. Head(q) = n + 1
      <4>1. 1 \in 1..Len(q) /\ \A k \in 1..1 : q[k] # Close
        BY <1>1, <1>3
      <4> QED
        BY <1>1, <2>3, <4>1 DEF Follows
    <3>2. ASSUME NEW i \in 1..Len(t), \A k \in 1..i : t[k] # Close PROVE t[i] = n + 1 + i
      <4>1. i + 1 \in 1..Len(q) /\ t[i] = q[i + 1]
        BY <1>1
      <4>2. ASSUME NEW k \in 1..(i + 1) PROVE q[k] # Close
        <5>1. CASE k = 1
          BY <1>1, <1>3, <5>1
        <5>2. CASE k # 1
          <6>1. k - 1 \in 1..i /\ k \in 1..Len(q)
            BY <1>1, <5>2
          <6>2. t[k - 1] = q[k]
            BY <2>1, <5>2, <6>1
          <6> QED
            BY <3>2, <6>1, <6>2
        <5> QED
          BY <5>1, <5>2
      <4> QED
        BY <2>3, <4>1, <4>2 DEF Follows
    <3> QED
      BY <3>1, <3>2 DEF Follows
  <2>4. ASSUME Ends(q, n, last) PROVE Ends(t, n + 1, last)
    <3> SUFFICES ASSUME NEW i \in 1..Len(t), t[i] = Close, \A k \in 1..(i - 1) : t[k] # Close
                 PROVE  n + 1 + i - 1 \in last
      BY DEF Ends
    <3>1. i + 1 \in 1..Len(q) /\ q[i + 1] = Close
      BY <1>1
    <3>2. ASSUME NEW k \in 1..((i + 1) - 1) PROVE q[k] # Close
      <4>1. CASE k = 1
        BY <1>1, <1>3, <4>1
      <4>2. CASE k # 1
        <5>1. k - 1 \in 1..(i - 1) /\ k \in 1..Len(q)
          BY <1>1, <4>2
        <5>2. t[k - 1] = q[k]
          BY <2>1, <4>2, <5>1
        <5> QED
          BY <5>1, <5>2
      <4> QED
        BY <4>1, <4>2
    <3>3. n + (i + 1) - 1 \in last
      BY <2>4, <3>1, <3>2 DEF Ends
    <3> QED
      BY <3>3
  <2> QED
    BY <2>2, <2>3, <2>4
<1> QED
  BY <1>1, <1>2, <1>3 DEF t

\* A connection breaks.
LEMMA Severed ==
  ASSUME NEW q \in Seq(Nat), NEW k \in 0..Len(q), NEW n \in Nat
  PROVE  LET a == Append(SubSeq(q, 1, k), Close) IN
         a \in Seq(Nat) /\ ~Bare(a) /\ (Follows(q, n) => Follows(a, n))
<1> DEFINE s == SubSeq(q, 1, k)
<1>1. /\ s \in Seq(Nat) /\ Len(q) \in Nat /\ Len(s) = k /\ \A i \in 1..k : s[i] = q[i]
  BY FirstFrames
<1> HIDE DEF s
<1>2. Follows(q, n) => Follows(s, n)
  <2> SUFFICES ASSUME Follows(q, n), NEW i \in 1..Len(s), \A j \in 1..i : s[j] # Close PROVE s[i] = n + i
    BY DEF Follows
  <2>1. i \in 1..k /\ i \in 1..Len(q)
    BY <1>1
  <2>2. \A j \in 1..i : j \in 1..k /\ q[j] # Close
    BY <1>1, <2>1
  <2> QED
    BY <1>1, <2>1, <2>2 DEF Follows
<1>3. Close \in Nat
  BY DEF Close
<1> QED
  BY <1>1, <1>2, <1>3, Put DEF s

-----------------------------------------------------------------------------
(* What may happen to a piece *)

LEMMA Bases ==
  ASSUME NEW q \in Seq(Nat), NEW n \in Nat, NEW h \in Nat
  PROVE  Len(q) \in Nat /\ Base(n, q, h) \in Nat
BY LenProperties DEF Base

\* Nobody reads it to the end.
LEMMA PieceDead ==
  ASSUME NEW n, NEW q, NEW b, NEW h, NEW m, NEW last
  PROVE  Piece(FALSE, n, q, b, h, last) /\ Source(FALSE, n, q, m, last) /\ On(FALSE, q, b) = FALSE
BY DEF Piece, Source, On

LEMMA PieceWeak ==
  ASSUME NEW c \in BOOLEAN, NEW n \in Nat, NEW q \in Seq(Nat), NEW b, NEW h \in Nat,
         NEW last, NEW more, last \subseteq more
  PROVE  Piece(c, n, q, b, h, last) => Piece(c, n, q, b, h, more)
<1>1. Ends(q, n, last) => Ends(q, n, more)
  BY DEF Ends
<1> QED
  BY <1>1 DEF Piece

LEMMA SourceWeak ==
  ASSUME NEW c \in BOOLEAN, NEW n \in Nat, NEW q \in Seq(Nat), NEW m \in Nat, NEW last, NEW more, last \subseteq more
  PROVE  Source(c, n, q, m, last) => Source(c, n, q, m, more)
<1>1. Ends(q, n, last) => Ends(q, n, more)
  BY DEF Ends
<1> QED
  BY <1>1 DEF Source

\* Its reader takes a frame.
LEMMA PieceTake ==
  ASSUME NEW c \in BOOLEAN, NEW n \in Nat, NEW q \in Seq(Nat), NEW b, NEW h \in Nat,
         NEW last, q # <<>>, Head(q) # Close, Piece(c, n, q, b, h, last)
  PROVE  /\ Piece(c, n + 1, Tail(q), b, h, last) /\ (c => Head(q) = n + 1)
         /\ On(c, Tail(q), b) = On(c, q, b) /\ Base(n + 1, Tail(q), h) = Base(n, q, h)
         /\ Tail(q) \in Seq(Nat) /\ Head(q) \in Nat
<1>1. /\ Tail(q) \in Seq(Nat) /\ Len(Tail(q)) = Len(q) - 1 /\ Len(q) \in Nat /\ Head(q) \in Nat
      /\ Bare(q) <=> Bare(Tail(q))
      /\ Follows(q, n) => (Head(q) = n + 1 /\ Follows(Tail(q), n + 1))
      /\ Ends(q, n, last) => Ends(Tail(q), n + 1, last)
  BY Taken
<1>2. (n + 1) + Len(Tail(q)) = n + Len(q)
  BY <1>1
<1>3. Piece(c, n, q, b, h, last) => Piece(c, n + 1, Tail(q), b, h, last)
  BY <1>1, <1>2 DEF Piece
<1>5. Piece(c, n, q, b, h, last) => (c => Head(q) = n + 1)
  BY <1>1 DEF Piece
<1>6. On(c, Tail(q), b) = On(c, q, b)
  BY <1>1 DEF On
<1>7. Base(n + 1, Tail(q), h) = Base(n, q, h)
  BY <1>1, <1>2 DEF Base
<1> QED
  BY <1>1, <1>3, <1>5, <1>6, <1>7

LEMMA SourceTake ==
  ASSUME NEW c \in BOOLEAN, NEW n \in Nat, NEW q \in Seq(Nat), NEW m \in Nat, NEW last, q # <<>>, Head(q) # Close, Source(c, n, q, m, last)
  PROVE  /\ Source(c, n + 1, Tail(q), m, last) /\ (c => Head(q) = n + 1)
         /\ Tail(q) \in Seq(Nat) /\ Head(q) \in Nat
<1>1. /\ Tail(q) \in Seq(Nat) /\ Len(Tail(q)) = Len(q) - 1 /\ Len(q) \in Nat /\ Head(q) \in Nat
      /\ Bare(q) <=> Bare(Tail(q))
      /\ Follows(q, n) => (Head(q) = n + 1 /\ Follows(Tail(q), n + 1))
      /\ Ends(q, n, last) => Ends(Tail(q), n + 1, last)
  BY Taken
<1>2. (n + 1) + Len(Tail(q)) = n + Len(q)
  BY <1>1
<1> QED
  BY <1>1, <1>2 DEF Source

\* The close frame comes to its reader.
LEMMA PieceClosed ==
  ASSUME NEW c \in BOOLEAN, NEW n \in Nat, NEW q \in Seq(Nat), NEW b, NEW h \in Nat,
         NEW last, q # <<>>, Head(q) = Close,
         Piece(c, n, q, b, h, last)
  PROVE  c => n \in last
BY Taken DEF Piece

LEMMA SourceClosed ==
  ASSUME NEW c \in BOOLEAN, NEW n \in Nat, NEW q \in Seq(Nat), NEW m \in Nat, NEW last, q # <<>>, Head(q) = Close, Source(c, n, q, m, last)
  PROVE  c => n \in last
BY Taken DEF Source

\* Its task sends on what it holds.
LEMMA PieceSend ==
  ASSUME NEW c \in BOOLEAN, NEW n \in Nat, NEW q \in Seq(Nat), NEW b, NEW h \in Nat,
         NEW last, b = "run", h # Nothing, Piece(c, n, q, b, h, last)
  PROVE  /\ Piece(c, n, Append(q, h), b, Nothing, last) /\ Append(q, h) \in Seq(Nat)
         /\ On(c, Append(q, h), b) = On(c, q, b)
         /\ Base(n, Append(q, h), Nothing) = Base(n, q, h)
<1> DEFINE a == Append(q, h)
<1>1. h # Close
  BY DEF Nothing, Close
<1>2. /\ a \in Seq(Nat) /\ Len(a) = Len(q) + 1 /\ Len(q) \in Nat /\ (Bare(a) <=> Bare(q))
      /\ (Follows(q, n) /\ (Bare(q) => h = n + Len(q) + 1)) => Follows(a, n)
      /\ Ends(q, n, last) => Ends(a, n, last)
  BY Put, <1>1
<1> HIDE DEF a
<1>3. Piece(c, n, a, b, Nothing, last)
  BY <1>2 DEF Piece
<1>4. On(c, a, b) = On(c, q, b)
  BY <1>2 DEF On
<1>5. Base(n, a, Nothing) = Base(n, q, h)
  BY <1>2 DEF Base
<1> QED
  BY <1>2, <1>3, <1>4, <1>5 DEF a

\* Its task takes up the next frame.
LEMMA PieceHold ==
  ASSUME NEW c \in BOOLEAN, NEW n \in Nat, NEW q \in Seq(Nat), NEW b, NEW h, NEW x \in Nat,
         NEW last, b = "run", h = Nothing,
         Piece(c, n, q, b, h, last),
         x # Nothing, On(c, q, b) => x = Base(n, q, h) + 1
  PROVE  /\ Piece(c, n, q, b, x, last)
         /\ Base(n, q, x) = Base(n, q, h) + 1
<1>1. Len(q) \in Nat
  BY LenProperties
<1> QED
  BY <1>1 DEF Piece, On, Base

\* Its task is over: for good reason, as long as nothing went wrong.
LEMMA PieceOver ==
  ASSUME NEW c \in BOOLEAN, NEW n \in Nat, NEW q \in Seq(Nat), NEW b, NEW h \in Nat,
         NEW last, Piece(c, n, q, b, h, last), NEW e, NEW g \in Nat,
         g \in {h, Nothing}, e = "done" => ((c /\ Bare(q)) => n + Len(q) \in last)
  PROVE  Piece(c, n, q, e, g, last)
BY DEF Piece, Nothing

\* It is closed.
LEMMA PieceClose ==
  ASSUME NEW c \in BOOLEAN, NEW n \in Nat, NEW q \in Seq(Nat), NEW b, NEW h \in Nat,
         NEW last, Piece(c, n, q, b, h, last), NEW e, NEW g,
         (c /\ Bare(q)) => n + Len(q) \in last
  PROVE  /\ Piece(c, n, Append(q, Close), e, g, last) /\ Append(q, Close) \in Seq(Nat)
         /\ ~On(c, Append(q, Close), e)
<1>1. Close \in Nat
  BY DEF Close
<1>2. /\ Append(q, Close) \in Seq(Nat) /\ ~Bare(Append(q, Close))
      /\ Follows(q, n) => Follows(Append(q, Close), n)
      /\ (Ends(q, n, last) /\ (Bare(q) => n + Len(q) \in last)) => Ends(Append(q, Close), n, last)
  BY <1>1, Put
<1>3. Piece(c, n, Append(q, Close), e, g, last)
  <2>1. ASSUME c PROVE Follows(Append(q, Close), n) /\ Ends(Append(q, Close), n, last)
    BY <1>2, <2>1 DEF Piece
  <2> QED
    BY <1>2, <2>1 DEF Piece
<1> QED
  BY <1>2, <1>3 DEF On

\* It breaks.
LEMMA PieceCut ==
  ASSUME NEW c \in BOOLEAN, NEW n \in Nat, NEW q \in Seq(Nat), NEW b, NEW h \in Nat, NEW k \in 0..Len(q),
         NEW last, last = Nat, Piece(c, n, q, b, h, last)
  PROVE  LET a == Append(SubSeq(q, 1, k), Close) IN
         a \in Seq(Nat) /\ ~On(c, a, b) /\ Piece(c, n, a, b, h, last)
<1> DEFINE a == Append(SubSeq(q, 1, k), Close)
<1>1. a \in Seq(Nat) /\ ~Bare(a) /\ (Follows(q, n) => Follows(a, n))
  BY Severed
<1> HIDE DEF a
<1>2. Ends(a, n, last)
  BY <1>1, LenProperties DEF Ends
<1>3. ~On(c, a, b)
  BY <1>1 DEF On
<1>4. Piece(c, n, a, b, h, last)
  BY <1>1, <1>2 DEF Piece
<1> QED
  BY <1>1, <1>3, <1>4 DEF a

LEMMA SourceCuts ==
  ASSUME NEW c \in BOOLEAN, NEW n \in Nat, NEW q \in Seq(Nat), NEW m \in Nat, NEW k \in 0..Len(q),
         NEW last, last = Nat, Source(c, n, q, m, last)
  PROVE  LET a == Append(SubSeq(q, 1, k), Close) IN a \in Seq(Nat) /\ Source(c, n, a, m, last)
<1> DEFINE a == Append(SubSeq(q, 1, k), Close)
<1>1. a \in Seq(Nat) /\ ~Bare(a) /\ (Follows(q, n) => Follows(a, n))
  BY Severed
<1> HIDE DEF a
<1>2. Ends(a, n, last)
  BY <1>1, LenProperties DEF Ends
<1>3. Source(c, n, a, m, last)
  BY <1>1, <1>2 DEF Source
<1> QED
  BY <1>1, <1>3 DEF a

\* The end speaks.
LEMMA SourceSpeak ==
  ASSUME NEW c \in BOOLEAN, NEW n \in Nat, NEW q \in Seq(Nat), NEW m \in Nat, NEW last,
         Source(c, n, q, m, last)
  PROVE  Source(c, n, Append(q, m + 1), m + 1, last) /\ Append(q, m + 1) \in Seq(Nat)
<1>1. m + 1 # Close /\ m + 1 \in Nat
  BY DEF Close
<1> DEFINE a == Append(q, m + 1)
<1>2. /\ a \in Seq(Nat) /\ Len(a) = Len(q) + 1 /\ Len(q) \in Nat /\ (Bare(a) <=> Bare(q))
      /\ (Follows(q, n) /\ (Bare(q) => m + 1 = n + Len(q) + 1)) => Follows(a, n)
      /\ Ends(q, n, last) => Ends(a, n, last)
  BY Put, <1>1
<1> HIDE DEF a
<1>3. ASSUME c PROVE Follows(a, n) /\ Ends(a, n, last)
  BY <1>2, <1>3 DEF Source
<1>4. ASSUME c, Bare(a) PROVE m + 1 = n + Len(a)
  BY <1>2, <1>4 DEF Source
<1>5. Source(c, n, a, m + 1, last)
  BY <1>3, <1>4 DEF Source
<1> QED
  BY <1>2, <1>5 DEF a

\* The end leaves.
LEMMA SourceLeaves ==
  ASSUME NEW c \in BOOLEAN, NEW n \in Nat, NEW q \in Seq(Nat), NEW m \in Nat, NEW last, m \in last,
         Source(c, n, q, m, last)
  PROVE  Source(c, n, Append(q, Close), m, last) /\ Append(q, Close) \in Seq(Nat)
<1>1. Close \in Nat
  BY DEF Close
<1>2. /\ Append(q, Close) \in Seq(Nat) /\ ~Bare(Append(q, Close))
      /\ Follows(q, n) => Follows(Append(q, Close), n)
      /\ (Ends(q, n, last) /\ (Bare(q) => n + Len(q) \in last)) => Ends(Append(q, Close), n, last)
  BY <1>1, Put
<1> QED
  BY <1>2 DEF Source

-----------------------------------------------------------------------------
(* What may happen to a direction *)

\* Something has gone wrong, or an end has left.
LEMMA FlowWeak ==
  ASSUME NEW g \in Nat, NEW y \in BOOLEAN, NEW q2 \in Seq(Nat), NEW b2, NEW h2 \in Nat,
         NEW q1 \in Seq(Nat), NEW b1, NEW h1 \in Nat, NEW q0 \in Seq(Nat), NEW m \in Nat,
         NEW last, Flow(g, y, q2, b2, h2, q1, b1, h1, q0, m, last),
         NEW more, last \subseteq more
  PROVE  Flow(g, y, q2, b2, h2, q1, b1, h1, q0, m, more)
<1> DEFINE c1 == On(y, q2, b2)   n1 == Base(g, q2, h2)   c0 == On(c1, q1, b1)   n0 == Base(n1, q1, h1)
<1>0. /\ ~y => g \in last
      /\ Piece(y, g, q2, b2, h2, last)
      /\ Piece(c1, n1, q1, b1, h1, last) /\ Source(c0, n0, q0, m, last)
      /\ c1 \in BOOLEAN /\ c0 \in BOOLEAN /\ n1 \in Nat /\ n0 \in Nat
  BY Bases DEF Flow, On
<1>1. /\ Piece(y, g, q2, b2, h2, more) /\ Piece(c1, n1, q1, b1, h1, more)
      /\ Source(c0, n0, q0, m, more)
  <2> HIDE DEF c1, c0, n1, n0
  <2> QED
    BY <1>0, PieceWeak, SourceWeak
<1> QED
  BY <1>0, <1>1 DEF Flow

\* The end that listens reads a frame.
LEMMA Hear ==
  ASSUME NEW g \in Nat, NEW y \in BOOLEAN, NEW q2 \in Seq(Nat), NEW b2, NEW h2 \in Nat,
         NEW q1 \in Seq(Nat), NEW b1, NEW h1 \in Nat, NEW q0 \in Seq(Nat), NEW m \in Nat,
         NEW last, Flow(g, y, q2, b2, h2, q1, b1, h1, q0, m, last),
         y, q2 # <<>>, Head(q2) # Close
  PROVE  Head(q2) = g + 1 /\ Tail(q2) \in Seq(Nat) /\ Flow(g + 1, y, Tail(q2), b2, h2, q1, b1, h1, q0, m, last)
<1> DEFINE c1 == On(y, q2, b2)   n1 == Base(g, q2, h2)   c0 == On(c1, q1, b1)   n0 == Base(n1, q1, h1)
<1>0. /\ ~y => g \in last
      /\ Piece(y, g, q2, b2, h2, last)
      /\ Piece(c1, n1, q1, b1, h1, last) /\ Source(c0, n0, q0, m, last)
      /\ c1 \in BOOLEAN /\ c0 \in BOOLEAN /\ n1 \in Nat /\ n0 \in Nat
  BY Bases DEF Flow, On
<1>1. /\ Piece(y, g + 1, Tail(q2), b2, h2, last) /\ Head(q2) = g + 1 /\ Tail(q2) \in Seq(Nat)
      /\ On(y, Tail(q2), b2) = c1 /\ Base(g + 1, Tail(q2), h2) = n1
  <2>1. Piece(y, g, q2, b2, h2, last)
    BY <1>0
  <2>2. Piece(y, g + 1, Tail(q2), b2, h2, last) /\ Head(q2) = g + 1 /\ Tail(q2) \in Seq(Nat)
    BY ZenonT(40), <2>1, PieceTake
  <2>3. On(y, Tail(q2), b2) = On(y, q2, b2)
    <3>1. Bare(q2) <=> Bare(Tail(q2))
      BY Taken
    <3> QED
      BY <3>1 DEF On
  <2>4. Base(g + 1, Tail(q2), h2) = Base(g, q2, h2)
    BY ZenonT(60), <2>1, PieceTake
  <2> QED
    BY <2>2, <2>3, <2>4
<1> HIDE DEF c1, c0, n1, n0
<1>2. c0 = On(c1, q1, b1) /\ n0 = Base(n1, q1, h1)
  BY DEF c0, n0
<1> QED
  BY <1>0, <1>1, <1>2 DEF Flow

\* It reads the close frame.
LEMMA HearClose ==
  ASSUME NEW g \in Nat, NEW y \in BOOLEAN, NEW q2 \in Seq(Nat), NEW b2, NEW h2 \in Nat,
         NEW q1 \in Seq(Nat), NEW b1, NEW h1 \in Nat, NEW q0 \in Seq(Nat), NEW m \in Nat,
         NEW last, Flow(g, y, q2, b2, h2, q1, b1, h1, q0, m, last),
         y, q2 # <<>>, Head(q2) = Close
  PROVE  g \in last
<1> DEFINE c1 == On(y, q2, b2)   n1 == Base(g, q2, h2)   c0 == On(c1, q1, b1)   n0 == Base(n1, q1, h1)
<1>0. /\ ~y => g \in last
      /\ Piece(y, g, q2, b2, h2, last)
      /\ Piece(c1, n1, q1, b1, h1, last) /\ Source(c0, n0, q0, m, last)
      /\ c1 \in BOOLEAN /\ c0 \in BOOLEAN /\ n1 \in Nat /\ n0 \in Nat
  BY Bases DEF Flow, On
<1> QED
  BY <1>0, PieceClosed

\* The relay next to the end that listens sends on a frame.
LEMMA FarSend ==
  ASSUME NEW g \in Nat, NEW y \in BOOLEAN, NEW q2 \in Seq(Nat), NEW b2, NEW h2 \in Nat,
         NEW q1 \in Seq(Nat), NEW b1, NEW h1 \in Nat, NEW q0 \in Seq(Nat), NEW m \in Nat,
         NEW last, Flow(g, y, q2, b2, h2, q1, b1, h1, q0, m, last),
         b2 = "run", h2 # Nothing
  PROVE  Append(q2, h2) \in Seq(Nat) /\ Flow(g, y, Append(q2, h2), b2, Nothing, q1, b1, h1, q0, m, last)
<1> DEFINE c1 == On(y, q2, b2)   n1 == Base(g, q2, h2)   c0 == On(c1, q1, b1)   n0 == Base(n1, q1, h1)
<1>0. /\ ~y => g \in last
      /\ Piece(y, g, q2, b2, h2, last)
      /\ Piece(c1, n1, q1, b1, h1, last) /\ Source(c0, n0, q0, m, last)
      /\ c1 \in BOOLEAN /\ c0 \in BOOLEAN /\ n1 \in Nat /\ n0 \in Nat
  BY Bases DEF Flow, On
<1>1. /\ Piece(y, g, Append(q2, h2), b2, Nothing, last) /\ Append(q2, h2) \in Seq(Nat)
      /\ On(y, Append(q2, h2), b2) = c1 /\ Base(g, Append(q2, h2), Nothing) = n1
  <2>1. Piece(y, g, q2, b2, h2, last)
    BY <1>0
  <2>2. Piece(y, g, Append(q2, h2), b2, Nothing, last) /\ Append(q2, h2) \in Seq(Nat)
    BY <2>1, PieceSend
  <2>3. On(y, Append(q2, h2), b2) = On(y, q2, b2)
    BY <2>1, PieceSend
  <2>4. Base(g, Append(q2, h2), Nothing) = Base(g, q2, h2)
    <3>1. Len(Append(q2, h2)) = Len(q2) + 1 /\ Len(q2) \in Nat
      BY Appends
    <3> QED
      BY <3>1 DEF Base
  <2> QED
    BY <2>2, <2>3, <2>4
<1> HIDE DEF c1, c0, n1, n0
<1>2. c0 = On(c1, q1, b1) /\ n0 = Base(n1, q1, h1)
  BY DEF c0, n0
<1> QED
  BY <1>0, <1>1, <1>2 DEF Flow

\* Its task is over.
LEMMA FarOver ==
  ASSUME NEW g \in Nat, NEW y \in BOOLEAN, NEW q2 \in Seq(Nat), NEW b2, NEW h2 \in Nat,
         NEW q1 \in Seq(Nat), NEW b1, NEW h1 \in Nat, NEW q0 \in Seq(Nat), NEW m \in Nat,
         NEW last, Flow(g, y, q2, b2, h2, q1, b1, h1, q0, m, last),
         NEW e, NEW h \in Nat, h \in {h2, Nothing}, e \notin {"wait", "run"},
         e = "done" => Through(y, g, q2, last)
  PROVE  Flow(g, y, q2, e, h, q1, b1, h1, q0, m, last)
<1> DEFINE c1 == On(y, q2, b2)   n1 == Base(g, q2, h2)   c0 == On(c1, q1, b1)   n0 == Base(n1, q1, h1)
<1>0. /\ ~y => g \in last
      /\ Piece(y, g, q2, b2, h2, last)
      /\ Piece(c1, n1, q1, b1, h1, last) /\ Source(c0, n0, q0, m, last)
      /\ c1 \in BOOLEAN /\ c0 \in BOOLEAN /\ n1 \in Nat /\ n0 \in Nat
  BY Bases DEF Flow, On
<1>1. Piece(y, g, q2, e, h, last) /\ On(y, q2, e) = FALSE
  <2> QED
    BY <1>0, PieceOver DEF On, Through
<1>2. /\ On(FALSE, q1, b1) = FALSE
      /\ \A n : Piece(FALSE, n, q1, b1, h1, last) /\ Source(FALSE, n, q0, m, last)
  BY PieceDead DEF On
<1> QED
  BY <1>0, <1>1, <1>2 DEF Flow

\* It closes its link.
LEMMA FarClose ==
  ASSUME NEW g \in Nat, NEW y \in BOOLEAN, NEW q2 \in Seq(Nat), NEW b2, NEW h2 \in Nat,
         NEW q1 \in Seq(Nat), NEW b1, NEW h1 \in Nat, NEW q0 \in Seq(Nat), NEW m \in Nat,
         NEW last, Flow(g, y, q2, b2, h2, q1, b1, h1, q0, m, last),
         NEW e, NEW h \in Nat,
         Through(y, g, q2, last)
  PROVE  Append(q2, Close) \in Seq(Nat) /\ Flow(g, y, Append(q2, Close), e, h, q1, b1, h1, q0, m, last)
<1> DEFINE c1 == On(y, q2, b2)   n1 == Base(g, q2, h2)   c0 == On(c1, q1, b1)   n0 == Base(n1, q1, h1)
<1>0. /\ ~y => g \in last
      /\ Piece(y, g, q2, b2, h2, last)
      /\ Piece(c1, n1, q1, b1, h1, last) /\ Source(c0, n0, q0, m, last)
      /\ c1 \in BOOLEAN /\ c0 \in BOOLEAN /\ n1 \in Nat /\ n0 \in Nat
  BY Bases DEF Flow, On
<1>1. /\ Piece(y, g, Append(q2, Close), e, h, last) /\ Append(q2, Close) \in Seq(Nat)
      /\ On(y, Append(q2, Close), e) = FALSE
  <2>1. ~On(y, Append(q2, Close), e) => On(y, Append(q2, Close), e) = FALSE
    BY DEF On
  <2> QED
    BY <1>0, <2>1, PieceClose DEF Through
<1>2. /\ On(FALSE, q1, b1) = FALSE
      /\ \A n : Piece(FALSE, n, q1, b1, h1, last) /\ Source(FALSE, n, q0, m, last)
  BY PieceDead DEF On
<1> QED
  BY <1>0, <1>1, <1>2 DEF Flow

\* Its link breaks.
LEMMA FarCut ==
  ASSUME NEW g \in Nat, NEW y \in BOOLEAN, NEW q2 \in Seq(Nat), NEW b2, NEW h2 \in Nat,
         NEW q1 \in Seq(Nat), NEW b1, NEW h1 \in Nat, NEW q0 \in Seq(Nat), NEW m \in Nat,
         NEW last, Flow(g, y, q2, b2, h2, q1, b1, h1, q0, m, last),
         last = Nat, NEW k \in 0..Len(q2)
  PROVE  Append(SubSeq(q2, 1, k), Close) \in Seq(Nat) /\ Flow(g, y, Append(SubSeq(q2, 1, k), Close), b2, h2, q1, b1, h1, q0, m, last)
<1> DEFINE c1 == On(y, q2, b2)   n1 == Base(g, q2, h2)   c0 == On(c1, q1, b1)   n0 == Base(n1, q1, h1)
<1>0. /\ ~y => g \in last
      /\ Piece(y, g, q2, b2, h2, last)
      /\ Piece(c1, n1, q1, b1, h1, last) /\ Source(c0, n0, q0, m, last)
      /\ c1 \in BOOLEAN /\ c0 \in BOOLEAN /\ n1 \in Nat /\ n0 \in Nat
  BY Bases DEF Flow, On
<1> DEFINE a == Append(SubSeq(q2, 1, k), Close)
<1>1. Piece(y, g, a, b2, h2, last) /\ a \in Seq(Nat) /\ On(y, a, b2) = FALSE
  <2>1. ~On(y, a, b2) => On(y, a, b2) = FALSE
    BY DEF On
  <2> QED
    BY <1>0, <2>1, PieceCut
<1> HIDE DEF a
<1>2. /\ On(FALSE, q1, b1) = FALSE
      /\ \A n : Piece(FALSE, n, q1, b1, h1, last) /\ Source(FALSE, n, q0, m, last)
  BY PieceDead DEF On
<1>3. Flow(g, y, a, b2, h2, q1, b1, h1, q0, m, last)
  BY <1>0, <1>1, <1>2 DEF Flow
<1> QED
  BY <1>1, <1>3 DEF a

\* It reads a frame.
LEMMA FarTake ==
  ASSUME NEW g \in Nat, NEW y \in BOOLEAN, NEW q2 \in Seq(Nat), NEW b2, NEW h2 \in Nat,
         NEW q1 \in Seq(Nat), NEW b1, NEW h1 \in Nat, NEW q0 \in Seq(Nat), NEW m \in Nat,
         NEW last, Flow(g, y, q2, b2, h2, q1, b1, h1, q0, m, last),
         b2 = "run", h2 = Nothing, q1 # <<>>, Head(q1) # Close
  PROVE  Tail(q1) \in Seq(Nat) /\ Head(q1) \in Nat /\ Flow(g, y, q2, b2, Head(q1), Tail(q1), b1, h1, q0, m, last)
<1> DEFINE c1 == On(y, q2, b2)   n1 == Base(g, q2, h2)   c0 == On(c1, q1, b1)   n0 == Base(n1, q1, h1)
<1>0. /\ ~y => g \in last
      /\ Piece(y, g, q2, b2, h2, last)
      /\ Piece(c1, n1, q1, b1, h1, last) /\ Source(c0, n0, q0, m, last)
      /\ c1 \in BOOLEAN /\ c0 \in BOOLEAN /\ n1 \in Nat /\ n0 \in Nat
  BY Bases DEF Flow, On
<1>1. /\ Piece(c1, n1 + 1, Tail(q1), b1, h1, last) /\ (c1 => Head(q1) = n1 + 1)
      /\ Tail(q1) \in Seq(Nat) /\ Head(q1) \in Nat
      /\ On(c1, Tail(q1), b1) = c0 /\ Base(n1 + 1, Tail(q1), h1) = n0
  <2> HIDE DEF c1, n1
  <2> QED
    BY <1>0, PieceTake
<1>2. Piece(y, g, q2, b2, Head(q1), last) /\ Base(g, q2, Head(q1)) = n1 + 1
  <2>1. Head(q1) # Nothing
    BY DEF Nothing, Close
  <2> QED
    BY <1>0, <1>1, <2>1, PieceHold
<1>3. c1 = On(y, q2, b2)
  BY DEF c1
<1> HIDE DEF c1, c0, n1, n0
<1> QED
  BY <1>0, <1>1, <1>2, <1>3 DEF Flow

\* It reads the close frame.
LEMMA FarEnds ==
  ASSUME NEW g \in Nat, NEW y \in BOOLEAN, NEW q2 \in Seq(Nat), NEW b2, NEW h2 \in Nat,
         NEW q1 \in Seq(Nat), NEW b1, NEW h1 \in Nat, NEW q0 \in Seq(Nat), NEW m \in Nat,
         NEW last, Flow(g, y, q2, b2, h2, q1, b1, h1, q0, m, last),
         b2 = "run", h2 = Nothing, q1 # <<>>, Head(q1) = Close
  PROVE  Through(y, g, q2, last)
<1> DEFINE c1 == On(y, q2, b2)   n1 == Base(g, q2, h2)   c0 == On(c1, q1, b1)   n0 == Base(n1, q1, h1)
<1>0. /\ ~y => g \in last
      /\ Piece(y, g, q2, b2, h2, last)
      /\ Piece(c1, n1, q1, b1, h1, last) /\ Source(c0, n0, q0, m, last)
      /\ c1 \in BOOLEAN /\ c0 \in BOOLEAN /\ n1 \in Nat /\ n0 \in Nat
  BY Bases DEF Flow, On
<1>1. c1 => n1 \in last
  <2> HIDE DEF c1, n1
  <2> QED
    BY <1>0, PieceClosed
<1>2. n1 = g + Len(q2)
  BY LenProperties DEF Base
<1> QED
  BY <1>1, <1>2 DEF On, Through

\* It is connected.
LEMMA FarStarts ==
  ASSUME NEW g \in Nat, NEW y \in BOOLEAN, NEW q2 \in Seq(Nat), NEW b2, NEW h2 \in Nat,
         NEW q1 \in Seq(Nat), NEW b1, NEW h1 \in Nat, NEW q0 \in Seq(Nat), NEW m \in Nat,
         NEW last, Flow(g, y, q2, b2, h2, q1, b1, h1, q0, m, last),
         b2 = "wait"
  PROVE  Flow(g, y, q2, "run", h2, q1, b1, h1, q0, m, last)
<1> DEFINE c1 == On(y, q2, b2)   n1 == Base(g, q2, h2)   c0 == On(c1, q1, b1)   n0 == Base(n1, q1, h1)
<1>0. /\ ~y => g \in last
      /\ Piece(y, g, q2, b2, h2, last)
      /\ Piece(c1, n1, q1, b1, h1, last) /\ Source(c0, n0, q0, m, last)
      /\ c1 \in BOOLEAN /\ c0 \in BOOLEAN /\ n1 \in Nat /\ n0 \in Nat
  BY Bases DEF Flow, On
<1>1. Piece(y, g, q2, "run", h2, last) /\ On(y, q2, "run") = c1
  BY <1>0 DEF Piece, On
<1> HIDE DEF c1, c0, n1, n0
<1>2. c0 = On(c1, q1, b1) /\ n0 = Base(n1, q1, h1) /\ n1 = Base(g, q2, h2)
  BY DEF c0, n0, n1
<1> QED
  BY <1>0, <1>1, <1>2 DEF Flow

\* The relay next to the end that speaks sends on a frame.
LEMMA NearSend ==
  ASSUME NEW g \in Nat, NEW y \in BOOLEAN, NEW q2 \in Seq(Nat), NEW b2, NEW h2 \in Nat,
         NEW q1 \in Seq(Nat), NEW b1, NEW h1 \in Nat, NEW q0 \in Seq(Nat), NEW m \in Nat,
         NEW last, Flow(g, y, q2, b2, h2, q1, b1, h1, q0, m, last),
         b1 = "run", h1 # Nothing
  PROVE  Append(q1, h1) \in Seq(Nat) /\ Flow(g, y, q2, b2, h2, Append(q1, h1), b1, Nothing, q0, m, last)
<1> DEFINE c1 == On(y, q2, b2)   n1 == Base(g, q2, h2)   c0 == On(c1, q1, b1)   n0 == Base(n1, q1, h1)
<1>0. /\ ~y => g \in last
      /\ Piece(y, g, q2, b2, h2, last)
      /\ Piece(c1, n1, q1, b1, h1, last) /\ Source(c0, n0, q0, m, last)
      /\ c1 \in BOOLEAN /\ c0 \in BOOLEAN /\ n1 \in Nat /\ n0 \in Nat
  BY Bases DEF Flow, On
<1>1. /\ Piece(c1, n1, Append(q1, h1), b1, Nothing, last) /\ Append(q1, h1) \in Seq(Nat)
      /\ On(c1, Append(q1, h1), b1) = c0 /\ Base(n1, Append(q1, h1), Nothing) = n0
  <2> HIDE DEF c1, n1
  <2> QED
    BY SMTT(30), <1>0, PieceSend
<1>8. c1 = On(y, q2, b2) /\ n1 = Base(g, q2, h2)
  BY DEF c1, n1
<1> HIDE DEF c1, c0, n1, n0
<1> QED
  BY <1>0, <1>1, <1>8 DEF Flow

\* Its task is over.
LEMMA NearOver ==
  ASSUME NEW g \in Nat, NEW y \in BOOLEAN, NEW q2 \in Seq(Nat), NEW b2, NEW h2 \in Nat,
         NEW q1 \in Seq(Nat), NEW b1, NEW h1 \in Nat, NEW q0 \in Seq(Nat), NEW m \in Nat,
         NEW last, Flow(g, y, q2, b2, h2, q1, b1, h1, q0, m, last),
         NEW e, NEW h \in Nat, h \in {h1, Nothing}, e \notin {"wait", "run"},
         e = "done" => Through(On(y, q2, b2), Base(g, q2, h2), q1, last)
  PROVE  Flow(g, y, q2, b2, h2, q1, e, h, q0, m, last)
<1> DEFINE c1 == On(y, q2, b2)   n1 == Base(g, q2, h2)   c0 == On(c1, q1, b1)   n0 == Base(n1, q1, h1)
<1>0. /\ ~y => g \in last
      /\ Piece(y, g, q2, b2, h2, last)
      /\ Piece(c1, n1, q1, b1, h1, last) /\ Source(c0, n0, q0, m, last)
      /\ c1 \in BOOLEAN /\ c0 \in BOOLEAN /\ n1 \in Nat /\ n0 \in Nat
  BY Bases DEF Flow, On
<1>8. c1 = On(y, q2, b2) /\ n1 = Base(g, q2, h2)
  BY DEF c1, n1
<1>1. Piece(c1, n1, q1, e, h, last) /\ On(c1, q1, e) = FALSE
  <2> HIDE DEF c1, n1
  <2> QED
    BY <1>0, <1>8, PieceOver DEF On, Through
<1>2. \A n : Source(FALSE, n, q0, m, last)
  BY PieceDead
<1> HIDE DEF c1, c0, n1, n0
<1> QED
  BY <1>0, <1>1, <1>2, <1>8 DEF Flow

\* It closes its link.
LEMMA NearClose ==
  ASSUME NEW g \in Nat, NEW y \in BOOLEAN, NEW q2 \in Seq(Nat), NEW b2, NEW h2 \in Nat,
         NEW q1 \in Seq(Nat), NEW b1, NEW h1 \in Nat, NEW q0 \in Seq(Nat), NEW m \in Nat,
         NEW last, Flow(g, y, q2, b2, h2, q1, b1, h1, q0, m, last),
         NEW e, NEW h \in Nat,
         Through(On(y, q2, b2), Base(g, q2, h2), q1, last)
  PROVE  Append(q1, Close) \in Seq(Nat) /\ Flow(g, y, q2, b2, h2, Append(q1, Close), e, h, q0, m, last)
<1> DEFINE c1 == On(y, q2, b2)   n1 == Base(g, q2, h2)   c0 == On(c1, q1, b1)   n0 == Base(n1, q1, h1)
<1>0. /\ ~y => g \in last
      /\ Piece(y, g, q2, b2, h2, last)
      /\ Piece(c1, n1, q1, b1, h1, last) /\ Source(c0, n0, q0, m, last)
      /\ c1 \in BOOLEAN /\ c0 \in BOOLEAN /\ n1 \in Nat /\ n0 \in Nat
  BY Bases DEF Flow, On
<1>8. c1 = On(y, q2, b2) /\ n1 = Base(g, q2, h2)
  BY DEF c1, n1
<1>1. /\ Piece(c1, n1, Append(q1, Close), e, h, last) /\ Append(q1, Close) \in Seq(Nat)
      /\ On(c1, Append(q1, Close), e) = FALSE
  <2> HIDE DEF c1, n1
  <2>1. ~On(c1, Append(q1, Close), e) => On(c1, Append(q1, Close), e) = FALSE
    BY DEF On
  <2> QED
    BY <1>0, <1>8, <2>1, PieceClose DEF Through
<1>2. \A n : Source(FALSE, n, q0, m, last)
  BY PieceDead
<1> HIDE DEF c1, c0, n1, n0
<1> QED
  BY <1>0, <1>1, <1>2, <1>8 DEF Flow

\* Its link breaks.
LEMMA NearCut ==
  ASSUME NEW g \in Nat, NEW y \in BOOLEAN, NEW q2 \in Seq(Nat), NEW b2, NEW h2 \in Nat,
         NEW q1 \in Seq(Nat), NEW b1, NEW h1 \in Nat, NEW q0 \in Seq(Nat), NEW m \in Nat,
         NEW last, Flow(g, y, q2, b2, h2, q1, b1, h1, q0, m, last),
         last = Nat, NEW k \in 0..Len(q1)
  PROVE  Append(SubSeq(q1, 1, k), Close) \in Seq(Nat) /\ Flow(g, y, q2, b2, h2, Append(SubSeq(q1, 1, k), Close), b1, h1, q0, m, last)
<1> DEFINE c1 == On(y, q2, b2)   n1 == Base(g, q2, h2)   c0 == On(c1, q1, b1)   n0 == Base(n1, q1, h1)
<1>0. /\ ~y => g \in last
      /\ Piece(y, g, q2, b2, h2, last)
      /\ Piece(c1, n1, q1, b1, h1, last) /\ Source(c0, n0, q0, m, last)
      /\ c1 \in BOOLEAN /\ c0 \in BOOLEAN /\ n1 \in Nat /\ n0 \in Nat
  BY Bases DEF Flow, On
<1>8. c1 = On(y, q2, b2) /\ n1 = Base(g, q2, h2)
  BY DEF c1, n1
<1> DEFINE a == Append(SubSeq(q1, 1, k), Close)
<1>1. Piece(c1, n1, a, b1, h1, last) /\ a \in Seq(Nat) /\ On(c1, a, b1) = FALSE
  <2> HIDE DEF c1, n1
  <2>1. ~On(c1, a, b1) => On(c1, a, b1) = FALSE
    BY DEF On
  <2>2. Piece(c1, n1, q1, b1, h1, last) /\ c1 \in BOOLEAN /\ n1 \in Nat
    BY <1>0
  <2>3. Piece(c1, n1, a, b1, h1, last) /\ a \in Seq(Nat) /\ ~On(c1, a, b1)
    BY <2>2, PieceCut
  <2> QED
    BY <2>1, <2>3
<1> HIDE DEF a
<1>2. \A n : Source(FALSE, n, q0, m, last)
  BY PieceDead
<1>3. Flow(g, y, q2, b2, h2, a, b1, h1, q0, m, last)
  <2> HIDE DEF c1, c0, n1, n0
  <2> QED
    BY <1>0, <1>1, <1>2, <1>8 DEF Flow
<1> QED
  BY <1>1, <1>3 DEF a

\* It reads a frame.
LEMMA NearTake ==
  ASSUME NEW g \in Nat, NEW y \in BOOLEAN, NEW q2 \in Seq(Nat), NEW b2, NEW h2 \in Nat,
         NEW q1 \in Seq(Nat), NEW b1, NEW h1 \in Nat, NEW q0 \in Seq(Nat), NEW m \in Nat,
         NEW last, Flow(g, y, q2, b2, h2, q1, b1, h1, q0, m, last),
         b1 = "run", h1 = Nothing, q0 # <<>>, Head(q0) # Close
  PROVE  Tail(q0) \in Seq(Nat) /\ Head(q0) \in Nat /\ Flow(g, y, q2, b2, h2, q1, b1, Head(q0), Tail(q0), m, last)
<1> DEFINE c1 == On(y, q2, b2)   n1 == Base(g, q2, h2)   c0 == On(c1, q1, b1)   n0 == Base(n1, q1, h1)
<1>0. /\ ~y => g \in last
      /\ Piece(y, g, q2, b2, h2, last)
      /\ Piece(c1, n1, q1, b1, h1, last) /\ Source(c0, n0, q0, m, last)
      /\ c1 \in BOOLEAN /\ c0 \in BOOLEAN /\ n1 \in Nat /\ n0 \in Nat
  BY Bases DEF Flow, On
<1>8. c1 = On(y, q2, b2) /\ n1 = Base(g, q2, h2)
  BY DEF c1, n1
<1>1. /\ Source(c0, n0 + 1, Tail(q0), m, last) /\ (c0 => Head(q0) = n0 + 1)
      /\ Tail(q0) \in Seq(Nat) /\ Head(q0) \in Nat
  <2> HIDE DEF c0, n0
  <2> QED
    BY <1>0, SourceTake
<1>2. Piece(c1, n1, q1, b1, Head(q0), last) /\ Base(n1, q1, Head(q0)) = n0 + 1
  <2>1. Head(q0) # Nothing
    BY DEF Nothing, Close
  <2> HIDE DEF c1, n1
  <2> QED
    BY <1>0, <1>1, <2>1, PieceHold
<1>3. c0 = On(c1, q1, b1)
  BY DEF c0
<1> HIDE DEF c1, c0, n1, n0
<1> QED
  BY <1>0, <1>1, <1>2, <1>3, <1>8 DEF Flow

\* It reads the close frame.
LEMMA NearEnds ==
  ASSUME NEW g \in Nat, NEW y \in BOOLEAN, NEW q2 \in Seq(Nat), NEW b2, NEW h2 \in Nat,
         NEW q1 \in Seq(Nat), NEW b1, NEW h1 \in Nat, NEW q0 \in Seq(Nat), NEW m \in Nat,
         NEW last, Flow(g, y, q2, b2, h2, q1, b1, h1, q0, m, last),
         b1 = "run", h1 = Nothing, q0 # <<>>, Head(q0) = Close
  PROVE  Through(On(y, q2, b2), Base(g, q2, h2), q1, last)
<1> DEFINE c1 == On(y, q2, b2)   n1 == Base(g, q2, h2)   c0 == On(c1, q1, b1)   n0 == Base(n1, q1, h1)
<1>0. /\ ~y => g \in last
      /\ Piece(y, g, q2, b2, h2, last)
      /\ Piece(c1, n1, q1, b1, h1, last) /\ Source(c0, n0, q0, m, last)
      /\ c1 \in BOOLEAN /\ c0 \in BOOLEAN /\ n1 \in Nat /\ n0 \in Nat
  BY Bases DEF Flow, On
<1>1. c0 => n0 \in last
  <2> HIDE DEF c0, n0
  <2> QED
    BY <1>0, SourceClosed
<1> HIDE DEF c1, n1
<1>2. n0 = n1 + Len(q1)
  BY <1>0, LenProperties DEF Base
<1>3. c0 = (c1 /\ Bare(q1))
  BY DEF On
<1> QED
  BY <1>1, <1>2, <1>3 DEF c1, n1, Through

\* It is connected.
LEMMA NearStarts ==
  ASSUME NEW g \in Nat, NEW y \in BOOLEAN, NEW q2 \in Seq(Nat), NEW b2, NEW h2 \in Nat,
         NEW q1 \in Seq(Nat), NEW b1, NEW h1 \in Nat, NEW q0 \in Seq(Nat), NEW m \in Nat,
         NEW last, Flow(g, y, q2, b2, h2, q1, b1, h1, q0, m, last),
         b1 = "wait"
  PROVE  Flow(g, y, q2, b2, h2, q1, "run", h1, q0, m, last)
<1> DEFINE c1 == On(y, q2, b2)   n1 == Base(g, q2, h2)   c0 == On(c1, q1, b1)   n0 == Base(n1, q1, h1)
<1>0. /\ ~y => g \in last
      /\ Piece(y, g, q2, b2, h2, last)
      /\ Piece(c1, n1, q1, b1, h1, last) /\ Source(c0, n0, q0, m, last)
      /\ c1 \in BOOLEAN /\ c0 \in BOOLEAN /\ n1 \in Nat /\ n0 \in Nat
  BY Bases DEF Flow, On
<1>8. c1 = On(y, q2, b2) /\ n1 = Base(g, q2, h2)
  BY DEF c1, n1
<1>1. Piece(c1, n1, q1, "run", h1, last) /\ On(c1, q1, "run") = c0
  BY <1>0 DEF Piece, On
<1>2. n0 = Base(n1, q1, h1)
  BY DEF n0
<1> HIDE DEF c1, c0, n1, n0
<1> QED
  BY <1>0, <1>1, <1>2, <1>8 DEF Flow

\* What its being over says.
LEMMA FarDone ==
  ASSUME NEW g \in Nat, NEW y \in BOOLEAN, NEW q2 \in Seq(Nat), NEW b2, NEW h2 \in Nat,
         NEW q1 \in Seq(Nat), NEW b1, NEW h1 \in Nat, NEW q0 \in Seq(Nat), NEW m \in Nat,
         NEW last, Flow(g, y, q2, b2, h2, q1, b1, h1, q0, m, last),
         b2 = "done"
  PROVE  Through(y, g, q2, last)
<1> DEFINE c1 == On(y, q2, b2)   n1 == Base(g, q2, h2)   c0 == On(c1, q1, b1)   n0 == Base(n1, q1, h1)
<1>0. /\ ~y => g \in last
      /\ Piece(y, g, q2, b2, h2, last)
      /\ Piece(c1, n1, q1, b1, h1, last) /\ Source(c0, n0, q0, m, last)
      /\ c1 \in BOOLEAN /\ c0 \in BOOLEAN /\ n1 \in Nat /\ n0 \in Nat
  BY Bases DEF Flow, On
<1> QED
  BY <1>0 DEF Piece, Through

\* What its being over says.
LEMMA NearDone ==
  ASSUME NEW g \in Nat, NEW y \in BOOLEAN, NEW q2 \in Seq(Nat), NEW b2, NEW h2 \in Nat,
         NEW q1 \in Seq(Nat), NEW b1, NEW h1 \in Nat, NEW q0 \in Seq(Nat), NEW m \in Nat,
         NEW last, Flow(g, y, q2, b2, h2, q1, b1, h1, q0, m, last),
         b1 = "done"
  PROVE  Through(On(y, q2, b2), Base(g, q2, h2), q1, last)
<1> DEFINE c1 == On(y, q2, b2)   n1 == Base(g, q2, h2)   c0 == On(c1, q1, b1)   n0 == Base(n1, q1, h1)
<1>0. /\ ~y => g \in last
      /\ Piece(y, g, q2, b2, h2, last)
      /\ Piece(c1, n1, q1, b1, h1, last) /\ Source(c0, n0, q0, m, last)
      /\ c1 \in BOOLEAN /\ c0 \in BOOLEAN /\ n1 \in Nat /\ n0 \in Nat
  BY Bases DEF Flow, On
<1> HIDE DEF c1, n1
<1>1. (c1 /\ Bare(q1)) => n1 + Len(q1) \in last
  BY <1>0 DEF Piece
<1> QED
  BY <1>1 DEF c1, n1, Through

\* The end speaks.
LEMMA Spoken ==
  ASSUME NEW g \in Nat, NEW y \in BOOLEAN, NEW q2 \in Seq(Nat), NEW b2, NEW h2 \in Nat,
         NEW q1 \in Seq(Nat), NEW b1, NEW h1 \in Nat, NEW q0 \in Seq(Nat), NEW m \in Nat,
         NEW last, Flow(g, y, q2, b2, h2, q1, b1, h1, q0, m, last)
  PROVE  Append(q0, m + 1) \in Seq(Nat) /\ Flow(g, y, q2, b2, h2, q1, b1, h1, Append(q0, m + 1), m + 1, last)
<1> DEFINE c1 == On(y, q2, b2)   n1 == Base(g, q2, h2)   c0 == On(c1, q1, b1)   n0 == Base(n1, q1, h1)
<1>0. /\ ~y => g \in last
      /\ Piece(y, g, q2, b2, h2, last)
      /\ Piece(c1, n1, q1, b1, h1, last) /\ Source(c0, n0, q0, m, last)
      /\ c1 \in BOOLEAN /\ c0 \in BOOLEAN /\ n1 \in Nat /\ n0 \in Nat
  BY Bases DEF Flow, On
<1>8. c1 = On(y, q2, b2) /\ n1 = Base(g, q2, h2)
  BY DEF c1, n1
<1>9. c0 = On(c1, q1, b1) /\ n0 = Base(n1, q1, h1)
  BY DEF c0, n0
<1> HIDE DEF c1, c0, n1, n0
<1>1. Source(c0, n0, Append(q0, m + 1), m + 1, last) /\ Append(q0, m + 1) \in Seq(Nat)
  BY <1>0, SourceSpeak
<1> QED
  BY <1>0, <1>1, <1>8, <1>9 DEF Flow

\* The end leaves.
LEMMA Departed ==
  ASSUME NEW g \in Nat, NEW y \in BOOLEAN, NEW q2 \in Seq(Nat), NEW b2, NEW h2 \in Nat,
         NEW q1 \in Seq(Nat), NEW b1, NEW h1 \in Nat, NEW q0 \in Seq(Nat), NEW m \in Nat,
         NEW last, Flow(g, y, q2, b2, h2, q1, b1, h1, q0, m, last),
         m \in last
  PROVE  Append(q0, Close) \in Seq(Nat) /\ Flow(g, y, q2, b2, h2, q1, b1, h1, Append(q0, Close), m, last)
<1> DEFINE c1 == On(y, q2, b2)   n1 == Base(g, q2, h2)   c0 == On(c1, q1, b1)   n0 == Base(n1, q1, h1)
<1>0. /\ ~y => g \in last
      /\ Piece(y, g, q2, b2, h2, last)
      /\ Piece(c1, n1, q1, b1, h1, last) /\ Source(c0, n0, q0, m, last)
      /\ c1 \in BOOLEAN /\ c0 \in BOOLEAN /\ n1 \in Nat /\ n0 \in Nat
  BY Bases DEF Flow, On
<1>8. c1 = On(y, q2, b2) /\ n1 = Base(g, q2, h2)
  BY DEF c1, n1
<1>9. c0 = On(c1, q1, b1) /\ n0 = Base(n1, q1, h1)
  BY DEF c0, n0
<1> HIDE DEF c1, c0, n1, n0
<1>1. Source(c0, n0, Append(q0, Close), m, last) /\ Append(q0, Close) \in Seq(Nat)
  BY <1>0, SourceLeaves
<1> QED
  BY <1>0, <1>1, <1>8, <1>9 DEF Flow

\* Its link breaks.
LEMMA SourceCut ==
  ASSUME NEW g \in Nat, NEW y \in BOOLEAN, NEW q2 \in Seq(Nat), NEW b2, NEW h2 \in Nat,
         NEW q1 \in Seq(Nat), NEW b1, NEW h1 \in Nat, NEW q0 \in Seq(Nat), NEW m \in Nat,
         NEW last, Flow(g, y, q2, b2, h2, q1, b1, h1, q0, m, last),
         last = Nat, NEW k \in 0..Len(q0)
  PROVE  Append(SubSeq(q0, 1, k), Close) \in Seq(Nat) /\ Flow(g, y, q2, b2, h2, q1, b1, h1, Append(SubSeq(q0, 1, k), Close), m, last)
<1> DEFINE c1 == On(y, q2, b2)   n1 == Base(g, q2, h2)   c0 == On(c1, q1, b1)   n0 == Base(n1, q1, h1)
<1>0. /\ ~y => g \in last
      /\ Piece(y, g, q2, b2, h2, last)
      /\ Piece(c1, n1, q1, b1, h1, last) /\ Source(c0, n0, q0, m, last)
      /\ c1 \in BOOLEAN /\ c0 \in BOOLEAN /\ n1 \in Nat /\ n0 \in Nat
  BY Bases DEF Flow, On
<1>8. c1 = On(y, q2, b2) /\ n1 = Base(g, q2, h2)
  BY DEF c1, n1
<1>9. c0 = On(c1, q1, b1) /\ n0 = Base(n1, q1, h1)
  BY DEF c0, n0
<1> HIDE DEF c1, c0, n1, n0
<1>1. /\ Source(c0, n0, Append(SubSeq(q0, 1, k), Close), m, last)
      /\ Append(SubSeq(q0, 1, k), Close) \in Seq(Nat)
  BY <1>0, SourceCuts
<1> QED
  BY <1>0, <1>1, <1>8, <1>9 DEF Flow

-----------------------------------------------------------------------------
(* Where a direction leads, and what the operations do to the links *)

LEMMA Places ==
  ASSUME NEW d \in Dirs
  PROVE  /\ EndOf(d) \in Links /\ 2 - EndOf(d) \in Links /\ EndOf(d) # 2 - EndOf(d)
         /\ EndOf(d) # 1 /\ 2 - EndOf(d) # 1 /\ 1 \in Links
         /\ Near(d) \in Relays /\ Far(d) \in Relays /\ Near(d) # Far(d)
         /\ In(Near(d), d) = EndOf(d) /\ Out(Near(d), d) = 1
         /\ In(Far(d), d) = 1 /\ Out(Far(d), d) = 2 - EndOf(d)
         /\ \A r \in Relays : r = Near(d) \/ r = Far(d)
         /\ \A l \in Links : l \in {EndOf(d), 1, 2 - EndOf(d)}
BY DEF EndOf, Near, Far, In, Out, Relays, Links, Dirs

LEMMA Opposites ==
  ASSUME NEW d \in Dirs
  PROVE  LET o == Opposite(d) IN
         /\ o \in Dirs /\ o # d /\ (\A x \in Dirs : x = d \/ x = o) /\ Opposite(o) = d
         /\ EndOf(o) = 2 - EndOf(d) /\ 2 - EndOf(o) = EndOf(d) /\ Near(o) = Far(d) /\ Far(o) = Near(d)
         /\ Receiver(o) = Sender(d) /\ Sender(o) = Receiver(d) /\ Receiver(d) # Sender(d)
         /\ Way(Receiver(d)) = o /\ Way(Sender(d)) = d /\ Receiver(d) \in Sides /\ Sender(d) \in Sides
         /\ o = (IF d = "down" THEN "up" ELSE "down")
BY DEF Opposite, EndOf, Near, Far, Receiver, Sender, Way, Dirs, Sides

LEMMA Updated ==
  ASSUME NEW A, NEW B, NEW S, NEW t \in [A -> [B -> S]], NEW a \in A, NEW b \in B, NEW v \in S
  PROVE  /\ [t EXCEPT ![a][b] = v] \in [A -> [B -> S]]
         /\ \A i \in A, j \in B : [t EXCEPT ![a][b] = v][i][j] = IF i = a /\ j = b THEN v ELSE t[i][j]
OBVIOUS

LEMMA LinkRange ==
  ASSUME NEW r \in Relays, NEW d \in Dirs
  PROVE  In(r, d) \in Links /\ Out(r, d) \in Links /\ r \in Links /\ r - 1 \in Links /\ In(r, d) # Out(r, d)
BY DEF Relays, Links, Dirs, In, Out

Wires == [Links -> [Dirs -> Seq(Nat)]]

LEMMA ToldIs ==
  ASSUME NEW w \in Wires, NEW side \in Sides, NEW l \in Links
  PROVE  /\ Told(w, side, {l}) \in Wires
         /\ \A k \in Links, d \in Dirs :
              Told(w, side, {l})[k][d] = IF k = l /\ side \notin gone[l] /\ d = Way(side)
                                         THEN Append(w[k][d], Close) ELSE w[k][d]
<1>1. Way(side) \in Dirs /\ Close \in Nat
  BY DEF Way, Dirs, Close
<1>2. ASSUME NEW k \in Links
      PROVE  /\ Told(w, side, {l})[k] \in [Dirs -> Seq(Nat)]
             /\ \A d \in Dirs : Told(w, side, {l})[k][d] = IF k = l /\ side \notin gone[l] /\ d = Way(side)
                                                           THEN Append(w[k][d], Close) ELSE w[k][d]
  <2>1. w[k] \in [Dirs -> Seq(Nat)] /\ w[k][Way(side)] \in Seq(Nat)
    BY <1>1 DEF Wires
  <2>2. Append(w[k][Way(side)], Close) \in Seq(Nat)
    BY <1>1, <2>1, Appends
  <2>3. Told(w, side, {l})[k] = IF k = l /\ side \notin gone[l]
                                THEN [w[k] EXCEPT ![Way(side)] = Append(@, Close)] ELSE w[k]
    BY DEF Told
  <2> QED
    BY <1>1, <2>1, <2>2, <2>3
<1>3. Told(w, side, {l}) = [k \in Links |-> Told(w, side, {l})[k]]
  BY DEF Told
<1> QED
  BY <1>2, <1>3 DEF Wires

LEMMA ClosesIs ==
  ASSUME NEW g \in [Links -> SUBSET Sides], NEW side \in Sides, NEW l \in Links
  PROVE  /\ Closes(g, side, {l}) \in [Links -> SUBSET Sides]
         /\ \A k \in Links : Closes(g, side, {l})[k] = IF k = l THEN g[k] \union {side} ELSE g[k]
BY DEF Closes

LEMMA CloseBothIs ==
  ASSUME Types, NEW r \in Relays, CloseBoth(r)
  PROVE  /\ wire' \in Wires /\ gone' \in [Links -> SUBSET Sides]
         /\ \A l \in Links : gone'[l] = gone[l] \union (IF l = r THEN {"client"} ELSE IF l = r - 1 THEN {"server"} ELSE {})
         /\ \A l \in Links, d \in Dirs :
              wire'[l][d] = IF l = Out(r, d) /\ Sender(d) \notin gone[l] THEN Append(wire[l][d], Close) ELSE wire[l][d]
<1>1. r \in Links /\ r - 1 \in Links /\ r # r - 1 /\ "client" \in Sides /\ "server" \in Sides
  BY DEF Relays, Links, Sides
<1>2. wire \in Wires /\ gone \in [Links -> SUBSET Sides]
  BY DEF Types, Wires
<1> DEFINE w == Told(wire, "client", {r})
           g == Closes(gone, "client", {r})
<1>3. wire' = Told(w, "server", {r - 1}) /\ gone' = Closes(g, "server", {r - 1})
  BY DEF CloseBoth
<1>4. /\ w \in Wires
      /\ \A k \in Links, d \in Dirs :
           w[k][d] = IF k = r /\ "client" \notin gone[r] /\ d = Way("client") THEN Append(wire[k][d], Close) ELSE wire[k][d]
  BY <1>1, <1>2, ToldIs
<1>5. /\ g \in [Links -> SUBSET Sides]
      /\ \A k \in Links : g[k] = IF k = r THEN gone[k] \union {"client"} ELSE gone[k]
  BY <1>1, <1>2, ClosesIs
<1> HIDE DEF w, g
<1>6. /\ wire' \in Wires
      /\ \A k \in Links, d \in Dirs :
           wire'[k][d] = IF k = r - 1 /\ "server" \notin gone[r - 1] /\ d = Way("server") THEN Append(w[k][d], Close) ELSE w[k][d]
  BY <1>1, <1>3, <1>4, ToldIs
<1>7. /\ gone' \in [Links -> SUBSET Sides]
      /\ \A k \in Links : gone'[k] = IF k = r - 1 THEN g[k] \union {"server"} ELSE g[k]
  <2>1. /\ Closes(g, "server", {r - 1}) \in [Links -> SUBSET Sides]
        /\ \A k \in Links : Closes(g, "server", {r - 1})[k] = IF k = r - 1 THEN g[k] \union {"server"} ELSE g[k]
    BY <1>1, <1>5, ClosesIs
  <2> QED
    BY <1>3, <2>1
<1>8. ASSUME NEW l \in Links, NEW d \in Dirs
      PROVE  wire'[l][d] = IF l = Out(r, d) /\ Sender(d) \notin gone[l] THEN Append(wire[l][d], Close) ELSE wire[l][d]
  <2>1. CASE d = "down"
    <3>1. Out(r, d) = r /\ Sender(d) = "client" /\ d = Way("client") /\ d # Way("server")
      BY <2>1 DEF Out, Sender, Way
    <3> QED
      BY <1>1, <1>4, <1>6, <3>1
  <2>2. CASE d = "up"
    <3>1. Out(r, d) = r - 1 /\ Sender(d) = "server" /\ d # Way("client") /\ d = Way("server")
      BY <2>2 DEF Out, Sender, Way
    <3> QED
      BY <1>1, <1>4, <1>6, <3>1
  <2> QED
    BY <2>1, <2>2 DEF Dirs
<1>9. ASSUME NEW l \in Links
      PROVE  gone'[l] = gone[l] \union (IF l = r THEN {"client"} ELSE IF l = r - 1 THEN {"server"} ELSE {})
  BY <1>1, <1>5, <1>7
<1> QED
  BY <1>6, <1>7, <1>8, <1>9

LEMMA LeaveIs ==
  ASSUME Types, NEW d \in Dirs, Leave(d)
  PROVE  /\ wire' \in Wires /\ gone' \in [Links -> SUBSET Sides]
         /\ \A l \in Links : gone'[l] = IF l = EndOf(d) THEN gone[l] \union {Sender(d)} ELSE gone[l]
         /\ \A l \in Links, x \in Dirs :
              wire'[l][x] = IF l = EndOf(d) /\ x = d THEN Append(wire[l][x], Close) ELSE wire[l][x]
<1>1. wire \in Wires /\ gone \in [Links -> SUBSET Sides]
  BY DEF Types, Wires
<1>2. EndOf(d) \in Links /\ Sender(d) \in Sides /\ Way(Sender(d)) = d
  BY Places, Opposites
<1>3. /\ wire' = Told(wire, Sender(d), {EndOf(d)}) /\ gone' = Closes(gone, Sender(d), {EndOf(d)})
      /\ Sender(d) \notin gone[EndOf(d)]
  BY DEF Leave
<1>4. /\ wire' \in Wires
      /\ \A k \in Links, x \in Dirs :
           wire'[k][x] = IF k = EndOf(d) /\ Sender(d) \notin gone[EndOf(d)] /\ x = d
                         THEN Append(wire[k][x], Close) ELSE wire[k][x]
  BY <1>1, <1>2, <1>3, ToldIs
<1>5. /\ gone' \in [Links -> SUBSET Sides]
      /\ \A k \in Links : gone'[k] = IF k = EndOf(d) THEN gone[k] \union {Sender(d)} ELSE gone[k]
  <2>1. /\ Closes(gone, Sender(d), {EndOf(d)}) \in [Links -> SUBSET Sides]
        /\ \A k \in Links : Closes(gone, Sender(d), {EndOf(d)})[k] =
                              IF k = EndOf(d) THEN gone[k] \union {Sender(d)} ELSE gone[k]
    BY <1>1, <1>2, ClosesIs
  <2> QED
    BY <1>3, <2>1
<1> QED
  BY <1>3, <1>4, <1>5

LEMMA SlowIs ==
  ASSUME Types, NEW r \in Relays,
         gone' = Closes(gone, "client", {r}), wire' = Told(wire, "client", {r})
  PROVE  /\ wire' \in Wires /\ gone' \in [Links -> SUBSET Sides]
         /\ \A l \in Links : gone'[l] = IF l = r THEN gone[l] \union {"client"} ELSE gone[l]
         /\ \A l \in Links, d \in Dirs :
              wire'[l][d] = IF l = r /\ d = "down" /\ "client" \notin gone[r] THEN Append(wire[l][d], Close) ELSE wire[l][d]
<1>1. wire \in Wires /\ gone \in [Links -> SUBSET Sides] /\ r \in Links /\ "client" \in Sides /\ Way("client") = "down"
  BY DEF Types, Wires, Relays, Links, Sides, Way
<1>2. /\ wire' \in Wires
      /\ \A k \in Links, d \in Dirs :
           wire'[k][d] = IF k = r /\ "client" \notin gone[r] /\ d = "down" THEN Append(wire[k][d], Close) ELSE wire[k][d]
  BY <1>1, ToldIs
<1>3. /\ gone' \in [Links -> SUBSET Sides]
      /\ \A k \in Links : gone'[k] = IF k = r THEN gone[k] \union {"client"} ELSE gone[k]
  BY <1>1, ClosesIs
<1> QED
  BY <1>2, <1>3

LEMMA CutIs ==
  ASSUME Types, NEW l \in Links, Cut(l)
  PROVE  /\ wire' \in Wires
         /\ \A k \in Links, d \in Dirs : k # l => wire'[k][d] = wire[k][d]
         /\ \A d \in Dirs : \E n \in 0..Len(wire[l][d]) : wire'[l][d] = Append(SubSeq(wire[l][d], 1, n), Close)
<1>1. wire \in Wires /\ \A d \in Dirs : wire[l][d] \in Seq(Nat)
  BY DEF Types, Wires
<1>2. PICK down \in 0..Len(wire[l]["down"]), up \in 0..Len(wire[l]["up"]) :
        wire' = [wire EXCEPT ![l] = [d \in Dirs |->
          Append(SubSeq(wire[l][d], 1, [x \in Dirs |-> IF x = "down" THEN down ELSE up][d]), Close)]]
  BY DEF Cut
<1>3. ASSUME NEW d \in Dirs
      PROVE  \E n \in 0..Len(wire[l][d]) :
               wire'[l][d] = Append(SubSeq(wire[l][d], 1, n), Close) /\ wire'[l][d] \in Seq(Nat)
  <2>1. /\ wire'[l][d] = Append(SubSeq(wire[l][d], 1, IF d = "down" THEN down ELSE up), Close)
        /\ (IF d = "down" THEN down ELSE up) \in 0..Len(wire[l][d])
    BY <1>1, <1>2 DEF Wires, Dirs
  <2>2. \A n \in 0..Len(wire[l][d]) : Append(SubSeq(wire[l][d], 1, n), Close) \in Seq(Nat)
    BY <1>1, Severed
  <2> QED
    BY <2>1, <2>2
<1>4. wire' \in [Links -> [Dirs -> Seq(Nat)]]
  <2>1. wire'[l] \in [Dirs -> Seq(Nat)]
    <3>1. wire'[l] = [d \in Dirs |-> wire'[l][d]]
      BY <1>1, <1>2 DEF Wires
    <3> QED
      BY <1>3, <3>1
  <2>2. wire' = [wire EXCEPT ![l] = wire'[l]]
    BY <1>1, <1>2 DEF Wires
  <2> QED
    BY <1>1, <2>1, <2>2 DEF Wires
<1> QED
  BY <1>1, <1>2, <1>3, <1>4 DEF Wires

LEMMA PumpSendIs ==
  ASSUME NEW r \in Relays, NEW x \in Dirs, PumpSend(r, x)
  PROVE  /\ Running(r, x) /\ held[r][x] # Nothing /\ held' = [held EXCEPT ![r][x] = Nothing]
         /\ \/ /\ Sender(x) \notin gone[Out(r, x)] /\ pump' = pump
               /\ wire' = [wire EXCEPT ![Out(r, x)][x] = Append(@, held[r][x])]
            \/ /\ MayBeClosed(Out(r, x), Sender(x), x) /\ wire' = wire
               /\ pump' = [pump EXCEPT ![r][x] = "over"]
         /\ UNCHANGED <<link, gone, relay, sent, got, left, quit>>
BY DEF PumpSend

LEMMA ListenIs ==
  ASSUME NEW x \in Dirs, Listen(x)
  PROVE  LET l == 2 - EndOf(x) IN
         /\ Receiver(x) \notin gone[l] /\ wire[l][x] # <<>> /\ wire' = [wire EXCEPT ![l][x] = Tail(@)]
         /\ \/ Head(wire[l][x]) = Close /\ gone' = Closes(gone, Receiver(x), {l}) /\ got' = got
            \/ Head(wire[l][x]) # Close /\ gone' = gone /\ got' = [got EXCEPT ![x] = Append(@, Head(wire[l][x]))]
         /\ UNCHANGED <<link, relay, pump, held, sent, left, quit>>
BY DEF Listen

\* The link and the side from which each task reads is its own, and not an end's.
LEMMA WhoReads ==
  ASSUME NEW k \in Relays, NEW d \in Dirs
  PROVE  /\ \A r \in Relays, x \in Dirs : (In(k, d) = In(r, x) /\ Receiver(d) = Receiver(x)) => (k = r /\ d = x)
         /\ \A x \in Dirs : Receiver(d) = Receiver(x) => In(k, d) # 2 - EndOf(x)
         /\ \A x \in Dirs : Receiver(d) = Sender(x) => In(k, d) # EndOf(x)
         /\ \A r \in Relays : (In(k, d) = r /\ Receiver(d) = "client") => (k = r /\ d = "up")
         /\ \A r \in Relays : (In(k, d) = r - 1 /\ Receiver(d) = "server") => (k = r /\ d = "down")
BY DEF In, Receiver, Sender, EndOf, Relays, Dirs

LEMMA ReceiveIs ==
  ASSUME Types, NEW r \in Relays, NEW x \in Dirs, Receive(r, x)
  PROVE  LET q == wire[In(r, x)][x] IN
         /\ Running(r, x) /\ held[r][x] = Nothing /\ q \in Seq(Nat) /\ q # <<>> /\ Head(q) # Close /\ Head(q) \in Nat
         /\ \A l \in Links, d \in Dirs : wire'[l][d] = IF l = In(r, x) /\ d = x THEN Tail(q) ELSE wire[l][d]
         /\ \A k \in Relays, d \in Dirs : held'[k][d] = IF k = r /\ d = x THEN Head(q) ELSE held[k][d]
         /\ UNCHANGED <<link, gone, relay, pump, sent, got, left, quit>>
<1> DEFINE q == wire[In(r, x)][x]
<1>1. In(r, x) \in Links /\ wire \in [Links -> [Dirs -> Seq(Nat)]] /\ held \in [Relays -> [Dirs -> Nat]]
  BY LinkRange DEF Types
<1>2. /\ Running(r, x) /\ held[r][x] = Nothing /\ q # <<>> /\ Head(q) # Close /\ q \in Seq(Nat)
      /\ held' = [held EXCEPT ![r][x] = Head(q)]
      /\ UNCHANGED <<link, gone, relay, pump, sent, got, left, quit>>
  BY <1>1 DEF Receive, Ready
<1>3. wire' = [wire EXCEPT ![In(r, x)][x] = Tail(q)]
  BY <1>1 DEF Receive
<1>4. Tail(q) \in Seq(Nat) /\ Head(q) \in Nat
  BY <1>2, Tails
<1>5. \A l \in Links, d \in Dirs : wire'[l][d] = IF l = In(r, x) /\ d = x THEN Tail(q) ELSE wire[l][d]
  BY <1>1, <1>3, <1>4, Updated
<1>6. \A k \in Relays, d \in Dirs : held'[k][d] = IF k = r /\ d = x THEN Head(q) ELSE held[k][d]
  BY <1>1, <1>2, <1>4, Updated
<1> QED
  BY <1>2, <1>4, <1>5, <1>6

LEMMA ReceiveEndsIs ==
  ASSUME Types, NEW r \in Relays, NEW x \in Dirs, ReceiveEnds(r, x)
  PROVE  /\ Running(r, x) /\ held[r][x] = Nothing
         /\ AtEnd(wire[In(r, x)][x]) \/ Receiver(x) \in gone[In(r, x)]
         /\ \A k \in Relays, d \in Dirs : pump'[k][d] = IF k = r /\ d = x THEN "over" ELSE pump[k][d]
         /\ \A l \in Links : gone'[l] = IF l = In(r, x) THEN gone[l] \union {Receiver(x)} ELSE gone[l]
         /\ UNCHANGED <<link, wire, relay, held, sent, got, left, quit>>
<1>1. /\ In(r, x) \in Links /\ pump \in [Relays -> [Dirs -> {"run", "over"}]] /\ "over" \in {"run", "over"}
      /\ gone \in [Links -> SUBSET Sides] /\ Receiver(x) \in Sides
  BY LinkRange, Opposites DEF Types
<1>2. /\ Running(r, x) /\ held[r][x] = Nothing
      /\ AtEnd(wire[In(r, x)][x]) \/ Receiver(x) \in gone[In(r, x)]
      /\ pump' = [pump EXCEPT ![r][x] = "over"]
      /\ gone' = Closes(gone, Receiver(x), {In(r, x)})
      /\ UNCHANGED <<link, wire, relay, held, sent, got, left, quit>>
  BY DEF ReceiveEnds, Ready
<1>3. \A k \in Relays, d \in Dirs : pump'[k][d] = IF k = r /\ d = x THEN "over" ELSE pump[k][d]
  BY <1>1, <1>2, Updated
<1>4. \A l \in Links : Closes(gone, Receiver(x), {In(r, x)})[l] =
                         IF l = In(r, x) THEN gone[l] \union {Receiver(x)} ELSE gone[l]
  BY <1>1, ClosesIs
<1> QED
  BY <1>2, <1>3, <1>4

LEMMA PumpSendDoes ==
  ASSUME Types, NEW r \in Relays, NEW x \in Dirs, PumpSend(r, x)
  PROVE  /\ \A k \in Relays, d \in Dirs : held'[k][d] = IF k = r /\ d = x THEN Nothing ELSE held[k][d]
         /\ \/ /\ Sender(x) \notin gone[Out(r, x)] /\ pump' = pump
               /\ \A l \in Links, d \in Dirs : wire'[l][d] =
                    IF l = Out(r, x) /\ d = x THEN Append(wire[l][d], held[r][x]) ELSE wire[l][d]
            \/ /\ MayBeClosed(Out(r, x), Sender(x), x) /\ wire' = wire
               /\ \A k \in Relays, d \in Dirs : pump'[k][d] = IF k = r /\ d = x THEN "over" ELSE pump[k][d]
<1>1. /\ Out(r, x) \in Links /\ pump \in [Relays -> [Dirs -> {"run", "over"}]] /\ "over" \in {"run", "over"}
      /\ wire \in [Links -> [Dirs -> Seq(Nat)]] /\ held \in [Relays -> [Dirs -> Nat]] /\ Nothing \in Nat
  BY LinkRange DEF Types, Nothing
<1>2. Append(wire[Out(r, x)][x], held[r][x]) \in Seq(Nat)
  BY <1>1, Appends
<1>3. \A k \in Relays, d \in Dirs : held'[k][d] = IF k = r /\ d = x THEN Nothing ELSE held[k][d]
  <2>1. held' = [held EXCEPT ![r][x] = Nothing]
    BY PumpSendIs
  <2> QED
    BY <1>1, <2>1, Updated
<1>4. CASE /\ Sender(x) \notin gone[Out(r, x)] /\ pump' = pump
           /\ wire' = [wire EXCEPT ![Out(r, x)][x] = Append(@, held[r][x])]
  <2>1. wire' = [wire EXCEPT ![Out(r, x)][x] = Append(wire[Out(r, x)][x], held[r][x])]
    BY <1>1, <1>4
  <2>2. \A l \in Links, d \in Dirs : wire'[l][d] =
          IF l = Out(r, x) /\ d = x THEN Append(wire[Out(r, x)][x], held[r][x]) ELSE wire[l][d]
    BY <1>1, <1>2, <2>1, Updated
  <2> QED
    BY <1>3, <1>4, <2>2
<1>5. CASE /\ MayBeClosed(Out(r, x), Sender(x), x) /\ wire' = wire
           /\ pump' = [pump EXCEPT ![r][x] = "over"]
  <2>1. \A k \in Relays, d \in Dirs : pump'[k][d] = IF k = r /\ d = x THEN "over" ELSE pump[k][d]
    BY <1>1, <1>5, Updated
  <2> QED
    BY <1>3, <1>5, <2>1
<1> QED
  BY <1>4, <1>5, PumpSendIs

LEMMA SpeakIs ==
  ASSUME Types, NEW x \in Dirs, Speak(x)
  PROVE  /\ Present(x) /\ \A d \in Dirs : sent'[d] = IF d = x THEN sent[d] + 1 ELSE sent[d]
         /\ \A l \in Links, d \in Dirs : wire'[l][d] =
              IF l = EndOf(x) /\ d = x THEN Append(wire[l][d], sent[x] + 1) ELSE wire[l][d]
         /\ UNCHANGED <<link, gone, relay, pump, held, got, left, quit>>
<1>1. EndOf(x) \in Links /\ wire \in [Links -> [Dirs -> Seq(Nat)]] /\ sent \in [Dirs -> Nat]
  BY Places DEF Types
<1>2. Append(wire[EndOf(x)][x], sent[x] + 1) \in Seq(Nat)
  BY <1>1, Appends
<1>3. wire' = [wire EXCEPT ![EndOf(x)][x] = Append(wire[EndOf(x)][x], sent[x] + 1)]
  BY <1>1 DEF Speak
<1>4. \A l \in Links, d \in Dirs : wire'[l][d] =
        IF l = EndOf(x) /\ d = x THEN Append(wire[EndOf(x)][x], sent[x] + 1) ELSE wire[l][d]
  BY <1>1, <1>2, <1>3, Updated
<1>5. \A d \in Dirs : sent'[d] = IF d = x THEN sent[d] + 1 ELSE sent[d]
  BY <1>1 DEF Speak
<1> QED
  BY <1>4, <1>5 DEF Speak

LEMMA ListenDoes ==
  ASSUME Types, NEW x \in Dirs, Listen(x)
  PROVE  LET l == 2 - EndOf(x)  q == wire[2 - EndOf(x)][x] IN
         /\ Receiver(x) \notin gone[l] /\ q \in Seq(Nat) /\ q # <<>> /\ Head(q) \in Nat
         /\ \A k \in Links, d \in Dirs : wire'[k][d] = IF k = l /\ d = x THEN Tail(q) ELSE wire[k][d]
         /\ \/ /\ Head(q) = Close /\ got' = got
               /\ \A k \in Links : gone'[k] = IF k = l THEN gone[k] \union {Receiver(x)} ELSE gone[k]
            \/ /\ Head(q) # Close /\ gone' = gone
               /\ \A d \in Dirs : got'[d] = IF d = x THEN Append(got[d], Head(q)) ELSE got[d]
         /\ UNCHANGED <<link, relay, pump, held, sent, left, quit>>
<1> DEFINE l == 2 - EndOf(x)  q == wire[2 - EndOf(x)][x]
<1>1. /\ l \in Links /\ wire \in [Links -> [Dirs -> Seq(Nat)]] /\ q \in Seq(Nat)
      /\ gone \in [Links -> SUBSET Sides] /\ Receiver(x) \in Sides /\ got \in [Dirs -> Seq(Nat)]
  BY Places, Opposites DEF Types
<1>2. /\ Receiver(x) \notin gone[l] /\ q # <<>>
      /\ UNCHANGED <<link, relay, pump, held, sent, left, quit>>
  BY ListenIs
<1>3. Tail(q) \in Seq(Nat) /\ Head(q) \in Nat
  BY <1>1, <1>2, Tails
<1>4. wire' = [wire EXCEPT ![l][x] = Tail(q)]
  <2>1. wire' = [wire EXCEPT ![l][x] = Tail(@)]
    BY ListenIs
  <2> QED
    BY <1>1, <2>1
<1>5. \A k \in Links, d \in Dirs : wire'[k][d] = IF k = l /\ d = x THEN Tail(q) ELSE wire[k][d]
  BY <1>1, <1>3, <1>4, Updated
<1>6. \/ Head(q) = Close /\ gone' = Closes(gone, Receiver(x), {l}) /\ got' = got
      \/ Head(q) # Close /\ gone' = gone /\ got' = [got EXCEPT ![x] = Append(@, Head(q))]
  BY ListenIs
<1>7. \A k \in Links : Closes(gone, Receiver(x), {l})[k] = IF k = l THEN gone[k] \union {Receiver(x)} ELSE gone[k]
  BY <1>1, ClosesIs
<1>8. got' = [got EXCEPT ![x] = Append(@, Head(q))] =>
        \A d \in Dirs : got'[d] = IF d = x THEN Append(got[d], Head(q)) ELSE got[d]
  BY <1>1
<1> HIDE DEF l, q
<1>9. \/ /\ Head(q) = Close /\ got' = got
         /\ \A k \in Links : gone'[k] = IF k = l THEN gone[k] \union {Receiver(x)} ELSE gone[k]
      \/ /\ Head(q) # Close /\ gone' = gone
         /\ \A d \in Dirs : got'[d] = IF d = x THEN Append(got[d], Head(q)) ELSE got[d]
  BY <1>6, <1>7, <1>8
<1> QED
  BY <1>1, <1>2, <1>3, <1>5, <1>9 DEF l, q

LEMMA CancelIs ==
  ASSUME Types, NEW r \in Relays, Cancel(r)
  PROVE  /\ relay[r] = "relay" /\ Ended(r) /\ relay' = [relay EXCEPT ![r] = "close"]
         /\ \A k \in Relays, d \in Dirs : pump'[k][d] = IF k = r THEN "over" ELSE pump[k][d]
         /\ \A k \in Relays, d \in Dirs : held'[k][d] = IF k = r THEN Nothing ELSE held[k][d]
         /\ UNCHANGED <<link, gone, wire, sent, got, left, quit>>
BY DEF Types, Cancel

LEMMA ConnectedIs ==
  ASSUME Types, NEW r \in Relays, Connected(r)
  PROVE  /\ relay[r] = "connect" /\ link[r] = "open" /\ relay' = [relay EXCEPT ![r] = "relay"]
         /\ \A k \in Relays, d \in Dirs : pump'[k][d] = IF k = r THEN "run" ELSE pump[k][d]
         /\ link' = [link EXCEPT ![r - 1] = "open"]
         /\ UNCHANGED <<gone, wire, held, sent, got, left, quit>>
BY DEF Types, Connected

-----------------------------------------------------------------------------
(* The invariant's parts, one after the other *)

LoadType == [down : Nat, up : Nat, refuses : Nat, slow : Nat, cuts : Nat]
LEMMA Taking ==
  ASSUME left \in LoadType, NEW what \in {"refuses", "slow", "cuts"}, Take(what) PROVE left' \in LoadType
BY DEF Take, LoadType

LEMMA TypesStep == ASSUME Types, [Next]_vars PROVE Types'
<1>1. ASSUME Open PROVE Types'
  BY <1>1 DEF Types, Open, Links, Relays, Before
<1>2. ASSUME ServerAnswers PROVE Types'
  <2>1. link' \in [Links -> {"none", "asked", "open", "refused"}]
    BY <1>2 DEF Types, ServerAnswers
  <2>2. left' \in [down : Nat, up : Nat, refuses : Nat, slow : Nat, cuts : Nat]
    BY <1>2, Taking DEF Types, ServerAnswers, LoadType
  <2> QED
    BY <1>2, <2>1, <2>2 DEF Types, ServerAnswers
<1>3. ASSUME NEW r \in Relays, Check(r) PROVE Types'
  BY <1>3 DEF Types, Check, Before
<1>4. ASSUME NEW r \in Relays, Refuse(r) PROVE Types'
  <2>1. left' \in [down : Nat, up : Nat, refuses : Nat, slow : Nat, cuts : Nat]
    BY <1>4, Taking DEF Types, Refuse, LoadType
  <2> QED
    BY <1>4, <2>1 DEF Types, Refuse, Before
<1>5. ASSUME NEW r \in Relays, Connected(r) PROVE Types'
  BY <1>5 DEF Types, Connected, Before
<1>6. ASSUME NEW r \in Relays, ConnectFails(r) PROVE Types'
  <2>1. CASE link[r] = "refused" /\ UNCHANGED <<gone, wire, left>>
    BY <1>6, <2>1 DEF Types, ConnectFails, Before
  <2>2. CASE /\ link[r] = "asked" /\ Take("slow")
             /\ gone' = Closes(gone, "client", {r}) /\ wire' = Told(wire, "client", {r})
    <3>1. wire' \in Wires /\ gone' \in [Links -> SUBSET Sides]
      BY <2>2, SlowIs
    <3>2. left' \in [down : Nat, up : Nat, refuses : Nat, slow : Nat, cuts : Nat]
      BY <2>2, Taking DEF Types, LoadType
    <3> QED
      BY <1>6, <3>1, <3>2 DEF Types, ConnectFails, Before, Wires
  <2> QED
    BY <1>6, <2>1, <2>2 DEF ConnectFails
<1>7. ASSUME NEW r \in Relays, Cancel(r) PROVE Types'
  <2>1. pump' \in [Relays -> [Dirs -> {"run", "over"}]] /\ held' \in [Relays -> [Dirs -> Nat]]
    BY <1>7 DEF Types, Cancel, Nothing
  <2> QED
    BY <1>7, <2>1 DEF Types, Cancel, Before
<1>8. ASSUME NEW r \in Relays, CloseBoth(r) PROVE Types'
  <2>1. wire' \in Wires /\ gone' \in [Links -> SUBSET Sides]
    BY <1>8, CloseBothIs
  <2> QED
    BY <1>8, <2>1 DEF Types, CloseBoth, Before, Wires
<1>9. ASSUME NEW r \in Relays, NEW x \in Dirs, Receive(r, x) PROVE Types'
  <2>1. wire[In(r, x)][x] \in Seq(Nat) /\ In(r, x) \in Links
    BY LinkRange DEF Types
  <2>2. Head(wire[In(r, x)][x]) \in Nat /\ Tail(wire[In(r, x)][x]) \in Seq(Nat)
    BY <1>9, <2>1, Tails DEF Receive
  <2>3. wire' \in [Links -> [Dirs -> Seq(Nat)]]
    BY <1>9, <2>1, <2>2 DEF Types, Receive
  <2>4. held' \in [Relays -> [Dirs -> Nat]]
    BY <1>9, <2>2 DEF Types, Receive
  <2> QED
    BY <1>9, <2>3, <2>4 DEF Types, Receive
<1>10. ASSUME NEW r \in Relays, NEW x \in Dirs, ReceiveEnds(r, x) PROVE Types'
  <2>1. gone' \in [Links -> SUBSET Sides]
    <3>1. In(r, x) \in Links /\ Receiver(x) \in Sides
      BY LinkRange, Opposites
    <3>2. gone \in [Links -> SUBSET Sides]
      BY DEF Types
    <3>3. Closes(gone, Receiver(x), {In(r, x)}) \in [Links -> SUBSET Sides]
      BY <3>1, <3>2, ClosesIs
    <3> QED
      BY <1>10, <3>3 DEF ReceiveEnds
  <2> QED
    BY <1>10, <2>1 DEF Types, ReceiveEnds
<1>11. ASSUME NEW r \in Relays, NEW x \in Dirs, PumpSend(r, x) PROVE Types'
  <2>1. wire[Out(r, x)][x] \in Seq(Nat) /\ Out(r, x) \in Links /\ held[r][x] \in Nat
    BY LinkRange DEF Types
  <2>2. Append(wire[Out(r, x)][x], held[r][x]) \in Seq(Nat)
    BY <2>1, Appends
  <2>3. wire' = wire \/ wire' = [wire EXCEPT ![Out(r, x)][x] = Append(wire[Out(r, x)][x], held[r][x])]
    BY <1>11, <2>1, PumpSendIs DEF Types
  <2>4. wire' \in [Links -> [Dirs -> Seq(Nat)]]
    <3>1. wire \in [Links -> [Dirs -> Seq(Nat)]]
      BY DEF Types
    <3>2. [wire EXCEPT ![Out(r, x)][x] = Append(wire[Out(r, x)][x], held[r][x])] \in [Links -> [Dirs -> Seq(Nat)]]
      BY <1>11, <2>1, <2>2, <3>1, Updated
    <3> QED
      BY <2>3, <3>1, <3>2
  <2>5. pump' = pump \/ pump' = [pump EXCEPT ![r][x] = "over"]
    BY <1>11, PumpSendIs
  <2>6. pump' \in [Relays -> [Dirs -> {"run", "over"}]]
    <3>1. pump \in [Relays -> [Dirs -> {"run", "over"}]] /\ "over" \in {"run", "over"}
      BY DEF Types
    <3> QED
      BY <1>11, <2>5, <3>1, Updated
  <2>8. held' = [held EXCEPT ![r][x] = Nothing]
    BY <1>11, PumpSendIs
  <2>7. held' \in [Relays -> [Dirs -> Nat]]
    BY <1>11, <2>8 DEF Types, Nothing
  <2> QED
    BY <1>11, <2>4, <2>6, <2>7, PumpSendIs DEF Types
<1>12. ASSUME NEW x \in Dirs, Speak(x) PROVE Types'
  <2>1. wire[EndOf(x)][x] \in Seq(Nat) /\ EndOf(x) \in Links /\ sent[x] + 1 \in Nat
    BY Places DEF Types
  <2>2. Append(wire[EndOf(x)][x], sent[x] + 1) \in Seq(Nat)
    BY <2>1, Appends
  <2>3. wire' \in [Links -> [Dirs -> Seq(Nat)]] /\ sent' \in [Dirs -> Nat]
    BY <1>12, <2>1, <2>2 DEF Types, Speak
  <2> QED
    BY <1>12, <2>3 DEF Types, Speak
<1>13. ASSUME NEW x \in Dirs, Listen(x) PROVE Types'
  <2> DEFINE k == 2 - EndOf(x)
  <2>1. wire[k][x] \in Seq(Nat) /\ k \in Links /\ got[x] \in Seq(Nat) /\ Receiver(x) \in Sides
    BY Places, Opposites DEF Types
  <2>2. Head(wire[k][x]) \in Nat /\ Tail(wire[k][x]) \in Seq(Nat)
    BY <1>13, <2>1, Tails DEF Listen
  <2>3. Append(got[x], Head(wire[k][x])) \in Seq(Nat)
    BY <2>1, <2>2, Appends
  <2>4. wire' \in [Links -> [Dirs -> Seq(Nat)]]
    BY <1>13, <2>1, <2>2 DEF Types, Listen
  <2>6. got' \in [Dirs -> Seq(Nat)]
    BY <1>13, <2>3 DEF Types, Listen
  <2>5. gone' \in [Links -> SUBSET Sides]
    <3>1. gone \in [Links -> SUBSET Sides]
      BY DEF Types
    <3>2. Closes(gone, Receiver(x), {k}) \in [Links -> SUBSET Sides]
      BY <2>1, <3>1, ClosesIs
    <3> QED
      BY <1>13, <3>1, <3>2 DEF Listen
  <2> QED
    BY <1>13, <2>4, <2>5, <2>6 DEF Types, Listen
<1>14. ASSUME NEW x \in Dirs, Leave(x) PROVE Types'
  <2>1. wire' \in Wires /\ gone' \in [Links -> SUBSET Sides]
    BY <1>14, LeaveIs
  <2> QED
    BY <1>14, <2>1 DEF Types, Leave, Wires
<1>15. ASSUME NEW l \in Links, Cut(l) PROVE Types'
  <2>1. wire' \in Wires
    BY <1>15, CutIs
  <2>2. left' \in [down : Nat, up : Nat, refuses : Nat, slow : Nat, cuts : Nat]
    BY <1>15, Taking DEF Types, Cut, LoadType
  <2> QED
    BY <1>15, <2>1, <2>2 DEF Types, Cut, Wires
<1>16. ASSUME UNCHANGED vars PROVE Types'
  BY <1>16 DEF Types, vars
<1> QED
  BY <1>1, <1>2, <1>3, <1>4, <1>5, <1>6, <1>7, <1>8, <1>9, <1>10, <1>11, <1>12, <1>13, <1>14, <1>15, <1>16 DEF Next, Serve, Pump

LEMMA OpeningStep == ASSUME Types, Opening, [Next]_vars PROVE Opening'
<1>1. ASSUME Open PROVE Opening'
  BY <1>1 DEF Opening, Open, Types, Relays, Links, Before
<1>2. ASSUME ServerAnswers PROVE Opening'
  BY SMTT(30), <1>2 DEF Opening, ServerAnswers, Types, Relays, Links, Before
<1>3. ASSUME NEW r \in Relays, Check(r) PROVE Opening'
  <2>1. r = 1 \/ r = 2
    BY DEF Relays
  <2> QED
    BY <1>3, <2>1 DEF Opening, Check, Types, Relays, Links, Before
<1>4. ASSUME NEW r \in Relays, Refuse(r) PROVE Opening'
  <2>1. r = 1 \/ r = 2
    BY DEF Relays
  <2> QED
    BY <1>4, <2>1 DEF Opening, Refuse, Types, Relays, Links, Before
<1>5. ASSUME NEW r \in Relays, Connected(r) PROVE Opening'
  <2>1. r = 1 \/ r = 2
    BY DEF Relays
  <2> QED
    BY <1>5, <2>1 DEF Opening, Connected, Types, Relays, Links, Before
<1>6. ASSUME NEW r \in Relays, ConnectFails(r) PROVE Opening'
  <2>1. r = 1 \/ r = 2
    BY DEF Relays
  <2>2. link[r] \in {"refused", "asked"}
    BY <1>6 DEF ConnectFails
  <2>3. /\ relay[r] = "connect" /\ link' = [link EXCEPT ![r - 1] = "refused"]
        /\ relay' = [relay EXCEPT ![r] = "over"] /\ UNCHANGED sent
    BY <1>6 DEF ConnectFails
  <2> QED
    BY <2>1, <2>2, <2>3 DEF Opening, Types, Relays, Links, Before
<1>7. ASSUME NEW r \in Relays, Cancel(r) PROVE Opening'
  <2>1. r = 1 \/ r = 2
    BY DEF Relays
  <2>2. link' = link /\ sent' = sent /\ \E p \in {"close", "over"} : relay' = [relay EXCEPT ![r] = p]
    BY <1>7 DEF Cancel
  <2>3. relay[r] \in {"relay", "close"}
    BY <1>7 DEF Cancel
  <2> QED
    BY <2>1, <2>2, <2>3 DEF Opening, Types, Relays, Links, Before
<1>8. ASSUME NEW r \in Relays, CloseBoth(r) PROVE Opening'
  <2>1. r = 1 \/ r = 2
    BY DEF Relays
  <2>2. link' = link /\ sent' = sent /\ \E p \in {"close", "over"} : relay' = [relay EXCEPT ![r] = p]
    BY <1>8 DEF CloseBoth
  <2>3. relay[r] \in {"relay", "close"}
    BY <1>8 DEF CloseBoth
  <2> QED
    BY <2>1, <2>2, <2>3 DEF Opening, Types, Relays, Links, Before
<1>9. ASSUME NEW r \in Relays, NEW x \in Dirs, Receive(r, x) PROVE Opening'
  BY <1>9 DEF Opening, Receive
<1>10. ASSUME NEW r \in Relays, NEW x \in Dirs, ReceiveEnds(r, x) PROVE Opening'
  BY <1>10 DEF Opening, ReceiveEnds
<1>11. ASSUME NEW r \in Relays, NEW x \in Dirs, PumpSend(r, x) PROVE Opening'
  BY <1>11 DEF Opening, PumpSend
<1>12. ASSUME NEW x \in Dirs, Speak(x) PROVE Opening'
  <2>1. CASE x = "down"
    BY <1>12, <2>1 DEF Opening, Speak, Present, EndOf, Types, Dirs
  <2>2. CASE x = "up"
    BY <1>12, <2>2 DEF Opening, Speak, Types, Dirs
  <2> QED
    BY <2>1, <2>2 DEF Dirs
<1>13. ASSUME NEW x \in Dirs, Listen(x) PROVE Opening'
  BY <1>13 DEF Opening, Listen
<1>14. ASSUME NEW x \in Dirs, Leave(x) PROVE Opening'
  BY <1>14 DEF Opening, Leave
<1>15. ASSUME NEW l \in Links, Cut(l) PROVE Opening'
  BY <1>15 DEF Opening, Cut
<1>16. ASSUME UNCHANGED vars PROVE Opening'
  BY <1>16 DEF Opening, vars
<1> QED
  BY <1>1, <1>2, <1>3, <1>4, <1>5, <1>6, <1>7, <1>8, <1>9, <1>10, <1>11, <1>12, <1>13, <1>14, <1>15, <1>16 DEF Next, Serve, Pump

LEMMA TasksStep == ASSUME Types, Opening, Tasks, [Next]_vars PROVE Tasks'
<1>1. ASSUME Open PROVE Tasks'
  <2>1. relay' = [relay EXCEPT ![1] = "check"] /\ UNCHANGED <<gone, pump, held>> /\ relay[1] = "idle"
    BY <1>1 DEF Open, Opening
  <2>2. \A k \in Relays : relay'[k] = IF k = 1 THEN "check" ELSE relay[k]
    BY <2>1 DEF Types
  <2>3. \A k \in Relays, d \in Dirs : Running(k, d)' = Running(k, d)
    BY <2>1, <2>2 DEF Running
  <2> QED
    BY <2>1, <2>2, <2>3 DEF Tasks, Before
<1>2. ASSUME ServerAnswers PROVE Tasks'
  BY <1>2 DEF Tasks, ServerAnswers, Running
<1>3. ASSUME NEW r \in Relays, Check(r) PROVE Tasks'
  BY <1>3 DEF Tasks, Opening, Check, Types, Running, Before, Relays
<1>4. ASSUME NEW r \in Relays, Refuse(r) PROVE Tasks'
  BY <1>4 DEF Tasks, Refuse, Types, Running, Before
<1>5. ASSUME NEW r \in Relays, Connected(r) PROVE Tasks'
  <2>1. /\ relay[r] = "connect" /\ relay' = [relay EXCEPT ![r] = "relay"] /\ gone' = gone /\ held' = held
        /\ \A k \in Relays, d \in Dirs : pump'[k][d] = IF k = r THEN "run" ELSE pump[k][d]
    BY <1>5, ConnectedIs
  <2> QED
    BY <1>5, <2>1 DEF Tasks, Types, Running, Before
<1>6. ASSUME NEW r \in Relays, ConnectFails(r) PROVE Tasks'
  <2>1. relay[r] = "connect" /\ relay' = [relay EXCEPT ![r] = "over"] /\ UNCHANGED <<pump, held>>
    BY <1>6 DEF ConnectFails
  <2>2. CASE gone' = gone
    BY <1>6, <2>1, <2>2 DEF Tasks, Types, Running, Before
  <2>3. CASE \A l \in Links : gone'[l] = IF l = r THEN gone[l] \union {"client"} ELSE gone[l]
    <3>1. ASSUME NEW k \in Relays, NEW d \in Dirs, k # r, Receiver(d) \in gone'[In(k, d)]
          PROVE  Receiver(d) \in gone[In(k, d)]
      BY <2>3, <3>1, <1>6, WhoReads, LinkRange
    <3> QED
      BY <1>6, <2>1, <3>1 DEF Tasks, Types, Running, Before
  <2> QED
    BY <1>6, <2>2, <2>3, SlowIs DEF ConnectFails
<1>7. ASSUME NEW r \in Relays, Cancel(r) PROVE Tasks'
  <2>1. /\ relay[r] = "relay" /\ relay' = [relay EXCEPT ![r] = "close"] /\ gone' = gone
        /\ \A k \in Relays, d \in Dirs : pump'[k][d] = IF k = r THEN "over" ELSE pump[k][d]
        /\ \A k \in Relays, d \in Dirs : held'[k][d] = IF k = r THEN Nothing ELSE held[k][d]
    BY <1>7, CancelIs
  <2> QED
    BY <1>7, <2>1 DEF Tasks, Types, Running, Before
<1>8. ASSUME NEW r \in Relays, CloseBoth(r) PROVE Tasks'
  <2>1. relay[r] = "close" /\ relay' = [relay EXCEPT ![r] = "over"] /\ UNCHANGED <<pump, held>>
    BY <1>8 DEF CloseBoth
  <2>2. ASSUME NEW k \in Relays, NEW d \in Dirs, k # r, Receiver(d) \in gone'[In(k, d)]
        PROVE  Receiver(d) \in gone[In(k, d)]
    <3>1. gone'[In(k, d)] = gone[In(k, d)] \union
            (IF In(k, d) = r THEN {"client"} ELSE IF In(k, d) = r - 1 THEN {"server"} ELSE {})
      BY <1>8, CloseBothIs, LinkRange
    <3> QED
      BY <1>8, <2>2, <3>1, WhoReads
  <2> QED
    BY <1>8, <2>1, <2>2 DEF Tasks, Types, Running, Before
<1>9. ASSUME NEW r \in Relays, NEW x \in Dirs, Receive(r, x) PROVE Tasks'
  <2>1. /\ Running(r, x) /\ UNCHANGED <<relay, pump, gone>>
        /\ \A k \in Relays, d \in Dirs : (k # r \/ d # x) => held'[k][d] = held[k][d]
    BY <1>9, ReceiveIs
  <2> QED
    BY <1>9, <2>1 DEF Tasks, Running
<1>10. ASSUME NEW r \in Relays, NEW x \in Dirs, ReceiveEnds(r, x) PROVE Tasks'
  <2>1. /\ held[r][x] = Nothing /\ UNCHANGED <<relay, held>> /\ relay[r] = "relay"
        /\ \A k \in Relays, d \in Dirs : pump'[k][d] = IF k = r /\ d = x THEN "over" ELSE pump[k][d]
        /\ \A l \in Links : gone'[l] = IF l = In(r, x) THEN gone[l] \union {Receiver(x)} ELSE gone[l]
    BY <1>10, ReceiveEndsIs DEF Running
  <2>2. ASSUME NEW k \in Relays, NEW d \in Dirs, k # r \/ d # x, Receiver(d) \in gone'[In(k, d)]
        PROVE  Receiver(d) \in gone[In(k, d)]
    <3>1. In(k, d) \in Links
      BY LinkRange
    <3>2. CASE In(k, d) # In(r, x)
      BY <2>1, <2>2, <3>1, <3>2
    <3>3. CASE In(k, d) = In(r, x)
      <4>1. Receiver(d) # Receiver(x)
        BY <1>10, <2>2, <3>3, WhoReads
      <4> QED
        BY <2>1, <2>2, <3>1, <3>3, <4>1
    <3> QED
      BY <3>2, <3>3
  <2> QED
    BY <1>10, <2>1, <2>2 DEF Tasks, Running, Before
<1>11. ASSUME NEW r \in Relays, NEW x \in Dirs, PumpSend(r, x) PROVE Tasks'
  <2>1. /\ Running(r, x) /\ UNCHANGED <<relay, gone>>
        /\ \A k \in Relays, d \in Dirs : held'[k][d] = IF k = r /\ d = x THEN Nothing ELSE held[k][d]
        /\ \A k \in Relays, d \in Dirs : (k # r \/ d # x) => pump'[k][d] = pump[k][d]
    BY <1>11, PumpSendIs, PumpSendDoes
  <2>2. ASSUME Receiver(x) \in gone'[In(r, x)] PROVE FALSE
    BY <1>11, <2>1, <2>2 DEF Tasks
  <2> QED
    BY <1>11, <2>1, <2>2 DEF Tasks, Running, Before
<1>12. ASSUME NEW x \in Dirs, Speak(x) PROVE Tasks'
  <2>1. UNCHANGED <<relay, pump, held, gone>>
    BY <1>12, SpeakIs
  <2> QED
    BY <1>12, <2>1 DEF Tasks, Running
<1>13. ASSUME NEW x \in Dirs, Listen(x) PROVE Tasks'
  <2>1. UNCHANGED <<relay, pump, held>>
    BY <1>13, ListenIs
  <2>2. ASSUME NEW k \in Relays, NEW d \in Dirs, Receiver(d) \in gone'[In(k, d)] PROVE Receiver(d) \in gone[In(k, d)]
    <3>1. \/ gone' = gone
          \/ \A l \in Links : gone'[l] = IF l = 2 - EndOf(x) THEN gone[l] \union {Receiver(x)} ELSE gone[l]
      BY <1>13, ListenDoes
    <3> QED
      BY <1>13, <2>2, <3>1, WhoReads, LinkRange
  <2> QED
    BY <1>13, <2>1, <2>2 DEF Tasks, Running
<1>14. ASSUME NEW x \in Dirs, Leave(x) PROVE Tasks'
  <2>1. UNCHANGED <<relay, pump, held>>
    BY <1>14 DEF Leave
  <2>2. ASSUME NEW k \in Relays, NEW d \in Dirs, Receiver(d) \in gone'[In(k, d)] PROVE Receiver(d) \in gone[In(k, d)]
    <3>1. \A l \in Links : gone'[l] = IF l = EndOf(x) THEN gone[l] \union {Sender(x)} ELSE gone[l]
      BY <1>14, LeaveIs
    <3> QED
      BY <1>14, <2>2, <3>1, WhoReads, LinkRange
  <2> QED
    BY <1>14, <2>1, <2>2 DEF Tasks, Running
<1>15. ASSUME NEW l \in Links, Cut(l) PROVE Tasks'
  BY <1>15 DEF Tasks, Cut, Running
<1>16. ASSUME UNCHANGED vars PROVE Tasks'
  BY <1>16 DEF Tasks, Running, vars
<1> QED
  BY <1>1, <1>2, <1>3, <1>4, <1>5, <1>6, <1>7, <1>8, <1>9, <1>10, <1>11, <1>12, <1>13, <1>14, <1>15, <1>16 DEF Next, Serve, Pump

\* What has gone wrong has gone wrong, and who is silent stays so.
Grows == /\ quit \subseteq quit' /\ \A d \in Dirs : sent[d] <= sent'[d]
         /\ \A d \in Dirs : Silent(d) => (Silent(d)' /\ sent'[d] = sent[d])

LEMMA GrowsStep == ASSUME Types, Opening, [Next]_vars PROVE Grows
<1>1. ASSUME Open PROVE Grows
  <2>1. UNCHANGED <<gone, sent, quit>> /\ link[0] = "none" /\ link' = [link EXCEPT ![0] = "asked"]
    BY <1>1 DEF Open
  <2> QED
    BY <2>1 DEF Grows, Silent, Types, Opening, Links
<1>2. ASSUME ServerAnswers PROVE Grows
  <2>1. UNCHANGED <<gone, sent, quit>> /\ \A l \in {0, 1} : link'[l] = link[l]
    BY <1>2 DEF ServerAnswers, Types, Links
  <2> QED
    BY <2>1 DEF Grows, Silent, Types
<1>3. ASSUME NEW r \in Relays, Check(r) PROVE Grows
  <2>1. UNCHANGED <<gone, sent, quit>> /\ relay[r] = "check" /\ link' = [link EXCEPT ![r] = "asked"]
    BY <1>3 DEF Check
  <2>2. r = 1 \/ r = 2
    BY DEF Relays
  <2> QED
    BY <2>1, <2>2 DEF Grows, Silent, Types, Opening, Links
<1>4. ASSUME NEW r \in Relays, Refuse(r) PROVE Grows
  <2>1. UNCHANGED <<gone, sent, quit>> /\ relay[r] = "check" /\ link' = [link EXCEPT ![r - 1] = "refused"]
    BY <1>4 DEF Refuse
  <2>2. r = 1 \/ r = 2
    BY DEF Relays
  <2> QED
    BY <2>1, <2>2 DEF Grows, Silent, Types, Opening, Links
<1>5. ASSUME NEW r \in Relays, Connected(r) PROVE Grows
  <2>1. /\ UNCHANGED <<gone, sent, quit>> /\ relay[r] = "connect" /\ link[r] = "open"
        /\ link' = [link EXCEPT ![r - 1] = "open"]
    BY <1>5 DEF Connected
  <2>2. r = 1 \/ r = 2
    BY DEF Relays
  <2> QED
    BY <2>1, <2>2 DEF Grows, Silent, Types, Opening, Links
<1>6. ASSUME NEW r \in Relays, ConnectFails(r) PROVE Grows
  <2>1. UNCHANGED <<sent, quit>> /\ relay[r] = "connect" /\ link' = [link EXCEPT ![r - 1] = "refused"]
    BY <1>6 DEF ConnectFails
  <2>2. r = 1 \/ r = 2
    BY DEF Relays
  <2>3. \A l \in Links : gone[l] \subseteq gone'[l]
    BY <1>6, SlowIs DEF ConnectFails
  <2>4. \A d \in Dirs : Sender(d) \in gone[EndOf(d)] => Sender(d) \in gone'[EndOf(d)]
    BY <2>3, Places
  <2> QED
    BY <2>1, <2>2, <2>4 DEF Grows, Silent, Types, Opening, Links
<1>7. ASSUME NEW r \in Relays, Cancel(r) PROVE Grows
  <2>1. UNCHANGED <<link, gone, sent, quit>>
    BY <1>7, CancelIs
  <2> QED
    BY <2>1 DEF Grows, Silent, Types
<1>8. ASSUME NEW r \in Relays, CloseBoth(r) PROVE Grows
  <2>1. UNCHANGED <<link, sent>> /\ quit \subseteq quit' /\ \A l \in Links : gone[l] \subseteq gone'[l]
    BY <1>8, CloseBothIs DEF CloseBoth
  <2>2. \A d \in Dirs : Sender(d) \in gone[EndOf(d)] => Sender(d) \in gone'[EndOf(d)]
    BY <2>1, Places
  <2> QED
    BY <2>1, <2>2 DEF Grows, Silent, Types
<1>9. ASSUME NEW r \in Relays, NEW x \in Dirs, Receive(r, x) PROVE Grows
  <2>1. UNCHANGED <<link, gone, sent, quit>>
    BY <1>9, ReceiveIs
  <2> QED
    BY <2>1 DEF Grows, Silent, Types
<1>10. ASSUME NEW r \in Relays, NEW x \in Dirs, ReceiveEnds(r, x) PROVE Grows
  <2>1. UNCHANGED <<link, sent>> /\ quit \subseteq quit' /\ \A l \in Links : gone[l] \subseteq gone'[l]
    BY <1>10, ReceiveEndsIs
  <2>2. \A d \in Dirs : Sender(d) \in gone[EndOf(d)] => Sender(d) \in gone'[EndOf(d)]
    BY <2>1, Places
  <2> QED
    BY <2>1, <2>2 DEF Grows, Silent, Types
<1>11. ASSUME NEW r \in Relays, NEW x \in Dirs, PumpSend(r, x) PROVE Grows
  <2>1. UNCHANGED <<link, gone, sent, quit>>
    BY <1>11, PumpSendIs
  <2> QED
    BY <2>1 DEF Grows, Silent, Types
<1>12. ASSUME NEW x \in Dirs, Speak(x) PROVE Grows
  <2>1. UNCHANGED <<link, gone, quit>> /\ Present(x) /\ \A d \in Dirs : sent'[d] = IF d = x THEN sent[d] + 1 ELSE sent[d]
    BY <1>12, SpeakIs
  <2>2. ~Silent(x)
    BY <2>1 DEF Silent, Present, Opening, EndOf
  <2>3. \A d \in Dirs : sent[d] <= sent'[d]
    <3>1. \A d \in Dirs : sent[d] \in Nat /\ sent'[d] = IF d = x THEN sent[d] + 1 ELSE sent[d]
      BY <2>1 DEF Types
    <3> QED
      BY <3>1
  <2>4. \A d \in Dirs : Silent(d) => (Silent(d)' /\ sent'[d] = sent[d])
    <3> TAKE d \in Dirs
    <3>1. Silent(d)' = Silent(d)
      BY <2>1 DEF Silent
    <3> QED
      BY <2>1, <2>2, <3>1
  <2> QED
    BY <2>1, <2>3, <2>4 DEF Grows
<1>13. ASSUME NEW x \in Dirs, Listen(x) PROVE Grows
  <2>1. UNCHANGED <<link, sent>> /\ quit \subseteq quit' /\ \A l \in Links : gone[l] \subseteq gone'[l]
    BY <1>13, ListenDoes
  <2>2. \A d \in Dirs : Sender(d) \in gone[EndOf(d)] => Sender(d) \in gone'[EndOf(d)]
    BY <2>1, Places
  <2> QED
    BY <2>1, <2>2 DEF Grows, Silent, Types
<1>14. ASSUME NEW x \in Dirs, Leave(x) PROVE Grows
  <2>1. UNCHANGED <<link, sent>> /\ quit \subseteq quit' /\ \A l \in Links : gone[l] \subseteq gone'[l]
    BY <1>14, LeaveIs DEF Leave
  <2>2. \A d \in Dirs : Sender(d) \in gone[EndOf(d)] => Sender(d) \in gone'[EndOf(d)]
    BY <2>1, Places
  <2> QED
    BY <2>1, <2>2 DEF Grows, Silent, Types
<1>15. ASSUME NEW l \in Links, Cut(l) PROVE Grows
  <2>1. UNCHANGED <<link, gone, sent>> /\ quit \subseteq quit'
    BY <1>15 DEF Cut
  <2> QED
    BY <2>1 DEF Grows, Silent, Types
<1>16. ASSUME UNCHANGED vars PROVE Grows
  BY <1>16 DEF Grows, Silent, Types, vars
<1> QED
  BY <1>1, <1>2, <1>3, <1>4, <1>5, <1>6, <1>7, <1>8, <1>9, <1>10, <1>11, <1>12, <1>13, <1>14, <1>15, <1>16 DEF Next, Serve, Pump

LEMMA MayEndGrows ==
  ASSUME Types, Types', Grows, NEW d \in Dirs
  PROVE  /\ Listens(d)' => Listens(d)
         /\ MayEnd(d) \subseteq MayEnd(d)'
         /\ Listens(d) = (sent[Opposite(d)] = 0 /\ quit \intersect {Opposite(d), "cut"} = {})
<1>1. Way(Receiver(d)) = Opposite(d) /\ Opposite(d) \in Dirs
  BY Opposites
<1>2. /\ Listens(d) = (sent[Opposite(d)] = 0 /\ quit \intersect {Opposite(d), "cut"} = {})
      /\ Listens(d)' = (sent'[Opposite(d)] = 0 /\ quit' \intersect {Opposite(d), "cut"} = {})
  BY <1>1 DEF Listens
<1>3. sent[d] \in Nat /\ sent[Opposite(d)] \in Nat /\ sent'[Opposite(d)] \in Nat
  BY <1>1 DEF Types
<1>4. Listens(d)' => Listens(d)
  <2>1. sent[Opposite(d)] <= sent'[Opposite(d)] /\ quit \subseteq quit'
    BY <1>1 DEF Grows
  <2>2. sent'[Opposite(d)] = 0 => sent[Opposite(d)] = 0
    BY <1>3, <2>1
  <2> QED
    BY <1>2, <2>1, <2>2
<1>5. MayEnd(d) \subseteq MayEnd(d)'
  BY <1>3, <1>4 DEF MayEnd, Grows
<1> QED
  BY <1>2, <1>4, <1>5

LEMMA SoundIs ==
  ASSUME NEW q \in Seq(Nat), NEW m \in Nat, Sound(q, m)
  PROVE  /\ \A v \in Nat : v <= m => Sound(Append(q, v), m)
         /\ q # <<>> => Sound(Tail(q), m) /\ Head(q) <= m
         /\ \A k \in 0..Len(q) : Sound(Append(SubSeq(q, 1, k), Close), m)
         /\ \A n \in Nat : m <= n => Sound(q, n)
<1>1. ASSUME NEW s \in Seq(Nat), Sound(s, m), NEW v \in Nat, v <= m PROVE Sound(Append(s, v), m)
  <2>1. /\ Len(s) \in Nat /\ Len(Append(s, v)) = Len(s) + 1 /\ Append(s, v)[Len(s) + 1] = v
        /\ \A i \in 1..Len(s) : Append(s, v)[i] = s[i] /\ s[i] \in Nat
    BY Appends
  <2>2. \A i \in 1..(Len(s) + 1) : i \in 1..Len(s) \/ i = Len(s) + 1
    BY <2>1
  <2> QED
    BY <1>1, <2>1, <2>2 DEF Sound
<1>2. ASSUME q # <<>> PROVE Sound(Tail(q), m) /\ Head(q) <= m
  <2>1. /\ Len(q) \in Nat \ {0} /\ Head(q) = q[1] /\ Len(Tail(q)) = Len(q) - 1
        /\ \A i \in 1..Len(Tail(q)) : i + 1 \in 1..Len(q) /\ Tail(q)[i] = q[i + 1]
    BY <1>2, Tails
  <2> QED
    BY <2>1 DEF Sound
<1>3. ASSUME NEW k \in 0..Len(q) PROVE Sound(Append(SubSeq(q, 1, k), Close), m)
  <2>1. /\ SubSeq(q, 1, k) \in Seq(Nat) /\ Len(q) \in Nat /\ Len(SubSeq(q, 1, k)) = k
        /\ \A i \in 1..k : SubSeq(q, 1, k)[i] = q[i]
    BY FirstFrames
  <2>2. Sound(SubSeq(q, 1, k), m)
    BY <2>1 DEF Sound
  <2>3. Close \in Nat /\ Close <= m
    BY DEF Close
  <2> QED
    BY <1>1, <2>1, <2>2, <2>3
<1>4. ASSUME NEW n \in Nat, m <= n PROVE Sound(q, n)
  <2>1. Len(q) \in Nat /\ \A i \in 1..Len(q) : q[i] \in Nat
    BY Appends
  <2> QED
    BY <1>4, <2>1 DEF Sound
<1> QED
  BY <1>1, <1>2, <1>3, <1>4

LEMMA Counting ==
  ASSUME NEW s \in Seq(Nat), Counted(s) PROVE Counted(Append(s, Len(s) + 1))
<1>1. Len(s) \in Nat /\ Len(s) + 1 \in Nat
  BY LenProperties
<1> DEFINE a == Append(s, Len(s) + 1)
<1>2. /\ a \in Seq(Nat) /\ Len(a) = Len(s) + 1 /\ a[Len(s) + 1] = Len(s) + 1
      /\ \A i \in 1..Len(s) : a[i] = s[i]
  BY <1>1, Appends
<1> HIDE DEF a
<1>3. \A i \in 1..Len(s) : s[i] = i
  BY DEF Counted
<1>4. \A i \in 1..Len(a) : i \in 1..Len(s) \/ i = Len(s) + 1
  BY <1>1, <1>2
<1>5. \A i \in 1..Len(a) : a[i] = i
  BY <1>2, <1>3, <1>4
<1>6. a = [i \in 1..Len(a) |-> a[i]]
  BY <1>2, SeqDef
<1> QED
  BY <1>5, <1>6 DEF Counted, a

LEMMA FlowTypes ==
  ASSUME Types, NEW d \in Dirs
  PROVE  /\ Len(got[d]) \in Nat /\ got[d] \in Seq(Nat) /\ Reads(d) \in BOOLEAN /\ sent[d] \in Nat
         /\ wire[2 - EndOf(d)][d] \in Seq(Nat) /\ wire[1][d] \in Seq(Nat) /\ wire[EndOf(d)][d] \in Seq(Nat)
         /\ held[Far(d)][d] \in Nat /\ held[Near(d)][d] \in Nat
BY Places, LenProperties DEF Types, Reads

LEMMA FramesOnLinks ==
  ASSUME Types, Frames, sent' = sent,
         \A d \in Dirs, l \in Links : wire'[l][d] = wire[l][d] \/ wire'[l][d] = Append(wire[l][d], Close)
  PROVE  \A d \in Dirs, l \in Links : Sound(wire'[l][d], sent'[d])
<1> TAKE d \in Dirs, l \in Links
<1>1. wire[l][d] \in Seq(Nat) /\ sent[d] \in Nat /\ Sound(wire[l][d], sent[d])
  BY DEF Types, Frames
<1>2. Close \in Nat /\ Close <= sent[d]
  BY <1>1 DEF Close
<1>3. Sound(Append(wire[l][d], Close), sent[d])
  BY <1>1, <1>2, SoundIs
<1> QED
  BY <1>1, <1>3

LEMMA NextFrame ==
  ASSUME Types, NEW x \in Dirs, FlowOf(x), Reads(x),
         wire[2 - EndOf(x)][x] # <<>>, Head(wire[2 - EndOf(x)][x]) # Close
  PROVE  Head(wire[2 - EndOf(x)][x]) = Len(got[x]) + 1
BY FlowTypes, Hear DEF FlowOf

LEMMA FramesStep == ASSUME Types, Frames, FlowInv, [Next]_vars PROVE Frames'
<1>1. ASSUME Open PROVE Frames'
  BY <1>1 DEF Frames, Open
<1>2. ASSUME ServerAnswers PROVE Frames'
  BY <1>2 DEF Frames, ServerAnswers
<1>3. ASSUME NEW r \in Relays, Check(r) PROVE Frames'
  BY <1>3 DEF Frames, Check
<1>4. ASSUME NEW r \in Relays, Refuse(r) PROVE Frames'
  BY <1>4 DEF Frames, Refuse
<1>5. ASSUME NEW r \in Relays, Connected(r) PROVE Frames'
  BY <1>5, ConnectedIs DEF Frames
<1>6. ASSUME NEW r \in Relays, ConnectFails(r) PROVE Frames'
  <2>1. UNCHANGED <<held, sent, got>>
    BY <1>6 DEF ConnectFails
  <2>2. ASSUME NEW d \in Dirs, NEW l \in Links PROVE wire'[l][d] = wire[l][d] \/ wire'[l][d] = Append(wire[l][d], Close)
    BY <1>6, SlowIs DEF ConnectFails
  <2> QED
    BY <2>1, <2>2, FramesOnLinks DEF Frames
<1>7. ASSUME NEW r \in Relays, Cancel(r) PROVE Frames'
  <2>1. UNCHANGED <<wire, sent, got>>
    BY <1>7, CancelIs
  <2>2. \A d \in Dirs, k \in Relays : held'[k][d] \in {held[k][d], Nothing}
    BY <1>7, CancelIs
  <2>3. \A d \in Dirs : sent[d] \in Nat
    BY DEF Types
  <2>4. \A d \in Dirs, k \in Relays : held'[k][d] <= sent[d]
    BY <2>2, <2>3 DEF Frames, Nothing
  <2> QED
    BY <2>1, <2>4 DEF Frames
<1>8. ASSUME NEW r \in Relays, CloseBoth(r) PROVE Frames'
  <2>1. UNCHANGED <<held, sent, got>>
    BY <1>8 DEF CloseBoth
  <2>2. ASSUME NEW d \in Dirs, NEW l \in Links PROVE wire'[l][d] = wire[l][d] \/ wire'[l][d] = Append(wire[l][d], Close)
    BY <1>8, CloseBothIs
  <2> QED
    BY <2>1, <2>2, FramesOnLinks DEF Frames
<1>9. ASSUME NEW r \in Relays, NEW x \in Dirs, Receive(r, x) PROVE Frames'
  <2>1. UNCHANGED <<sent, got>>
    BY <1>9, ReceiveIs
  <2>2. In(r, x) \in Links /\ sent[x] \in Nat /\ Sound(wire[In(r, x)][x], sent[x])
    BY LinkRange DEF Types, Frames
  <2>3. /\ wire[In(r, x)][x] \in Seq(Nat) /\ wire[In(r, x)][x] # <<>>
        /\ \A l \in Links, d \in Dirs :
             wire'[l][d] = IF l = In(r, x) /\ d = x THEN Tail(wire[In(r, x)][x]) ELSE wire[l][d]
        /\ \A k \in Relays, d \in Dirs :
             held'[k][d] = IF k = r /\ d = x THEN Head(wire[In(r, x)][x]) ELSE held[k][d]
    BY <1>9, ReceiveIs
  <2>4. Sound(Tail(wire[In(r, x)][x]), sent[x]) /\ Head(wire[In(r, x)][x]) <= sent[x]
    BY <2>2, <2>3, SoundIs
  <2>5. \A d \in Dirs, l \in Links : Sound(wire'[l][d], sent'[d])
    BY <2>1, <2>3, <2>4 DEF Frames
  <2>6. \A d \in Dirs, k \in Relays : held'[k][d] <= sent'[d]
    BY <2>1, <2>3, <2>4 DEF Frames
  <2> QED
    BY <2>1, <2>5, <2>6 DEF Frames
<1>10. ASSUME NEW r \in Relays, NEW x \in Dirs, ReceiveEnds(r, x) PROVE Frames'
  BY <1>10 DEF Frames, ReceiveEnds
<1>11. ASSUME NEW r \in Relays, NEW x \in Dirs, PumpSend(r, x) PROVE Frames'
  <2>1. UNCHANGED <<sent, got>>
    BY <1>11, PumpSendIs
  <2>2. /\ Out(r, x) \in Links /\ sent[x] \in Nat /\ Sound(wire[Out(r, x)][x], sent[x])
        /\ wire[Out(r, x)][x] \in Seq(Nat) /\ held[r][x] \in Nat /\ held[r][x] <= sent[x]
    BY LinkRange DEF Types, Frames
  <2>3. Sound(Append(wire[Out(r, x)][x], held[r][x]), sent[x])
    BY <2>2, SoundIs
  <2>4. \A d \in Dirs, l \in Links : Sound(wire'[l][d], sent'[d])
    <3>1. \/ wire' = wire
          \/ \A l \in Links, d \in Dirs : wire'[l][d] =
               IF l = Out(r, x) /\ d = x THEN Append(wire[l][d], held[r][x]) ELSE wire[l][d]
      BY <1>11, PumpSendDoes
    <3> QED
      BY <2>1, <2>3, <3>1 DEF Frames
  <2>5. \A d \in Dirs, k \in Relays : held'[k][d] <= sent'[d]
    <3>1. \A k \in Relays, d \in Dirs : held'[k][d] \in {held[k][d], Nothing}
      BY <1>11, PumpSendDoes
    <3>2. \A d \in Dirs : sent[d] \in Nat
      BY DEF Types
    <3> QED
      BY <2>1, <3>1, <3>2 DEF Frames, Nothing
  <2> QED
    BY <2>1, <2>4, <2>5 DEF Frames
<1>12. ASSUME NEW x \in Dirs, Speak(x) PROVE Frames'
  <2>1. UNCHANGED <<held, got>>
    BY <1>12, SpeakIs
  <2>2. \A d \in Dirs : sent[d] \in Nat /\ sent'[d] \in Nat /\ sent[d] <= sent'[d]
    <3>1. \A d \in Dirs : sent[d] \in Nat /\ sent'[d] = IF d = x THEN sent[d] + 1 ELSE sent[d]
      BY <1>12, SpeakIs DEF Types
    <3> QED
      BY <3>1
  <2>3. ASSUME NEW d \in Dirs, NEW l \in Links PROVE Sound(wire'[l][d], sent'[d])
    <3>1. Sound(wire[l][d], sent'[d]) /\ wire[l][d] \in Seq(Nat)
      BY <2>2, SoundIs DEF Types, Frames
    <3>2. wire'[l][d] = wire[l][d] \/ wire'[l][d] = Append(wire[l][d], sent'[d])
      <4>1. /\ wire'[l][d] = IF l = EndOf(x) /\ d = x THEN Append(wire[l][d], sent[x] + 1) ELSE wire[l][d]
            /\ sent'[x] = sent[x] + 1
        BY <1>12, SpeakIs
      <4> QED
        BY <4>1
    <3>3. sent'[d] \in Nat /\ sent'[d] <= sent'[d]
      BY <2>2
    <3>4. Sound(Append(wire[l][d], sent'[d]), sent'[d])
      BY <3>1, <3>3, SoundIs
    <3> QED
      BY <3>1, <3>2, <3>4
  <2>4. ASSUME NEW d \in Dirs, NEW k \in Relays PROVE held'[k][d] <= sent'[d]
    <3>1. held[k][d] \in Nat /\ held[k][d] <= sent[d]
      BY DEF Types, Frames
    <3> QED
      BY <2>1, <2>2, <3>1
  <2>5. ASSUME NEW d \in Dirs PROVE Counted(got'[d]) /\ Len(got'[d]) <= sent'[d]
    <3>1. Counted(got[d]) /\ Len(got[d]) \in Nat /\ Len(got[d]) <= sent[d]
      BY FlowTypes DEF Frames
    <3> QED
      BY <2>1, <2>2, <3>1
  <2> QED
    BY <2>3, <2>4, <2>5 DEF Frames
<1>13. ASSUME NEW x \in Dirs, Listen(x) PROVE Frames'
  <2> DEFINE q == wire[2 - EndOf(x)][x]
  <2>1. /\ UNCHANGED <<held, sent>> /\ q \in Seq(Nat) /\ q # <<>> /\ Reads(x)
        /\ \A k \in Links, d \in Dirs : wire'[k][d] = IF k = 2 - EndOf(x) /\ d = x THEN Tail(q) ELSE wire[k][d]
        /\ \/ got' = got
           \/ /\ Head(q) # Close
              /\ \A d \in Dirs : got'[d] = IF d = x THEN Append(got[d], Head(q)) ELSE got[d]
    BY <1>13, ListenDoes DEF Reads
  <2>2. 2 - EndOf(x) \in Links /\ sent[x] \in Nat /\ Sound(q, sent[x])
    BY Places DEF Types, Frames
  <2>3. Sound(Tail(q), sent[x]) /\ Head(q) <= sent[x]
    BY <2>1, <2>2, SoundIs
  <2>4. Head(q) # Close => Head(q) = Len(got[x]) + 1
    <3>1. FlowOf(x)
      BY DEF FlowInv
    <3> QED
      BY <2>1, <3>1, NextFrame
  <2> HIDE DEF q
  <2>5. \A d \in Dirs, l \in Links : Sound(wire'[l][d], sent'[d])
    BY <2>1, <2>3 DEF Frames
  <2>6. ASSUME NEW d \in Dirs PROVE Counted(got'[d]) /\ Len(got'[d]) <= sent'[d]
    <3>1. Counted(got[d]) /\ Len(got[d]) \in Nat /\ got[d] \in Seq(Nat) /\ Len(got[d]) <= sent[d]
      BY FlowTypes DEF Frames
    <3>2. CASE got'[d] = got[d]
      BY <2>1, <3>1, <3>2
    <3>3. CASE d = x /\ Head(q) # Close /\ got'[d] = Append(got[d], Head(q))
      <4>1. Head(q) = Len(got[d]) + 1
        BY <2>4, <3>3
      <4>2. Counted(got'[d])
        BY <3>1, <3>3, <4>1, Counting
      <4>3. Len(got'[d]) = Len(got[d]) + 1
        BY <3>1, <3>3, <4>1, Appends
      <4> QED
        BY <2>1, <2>3, <3>3, <4>1, <4>2, <4>3
    <3> QED
      BY <2>1, <3>2, <3>3
  <2> QED
    BY <2>1, <2>5, <2>6 DEF Frames
<1>14. ASSUME NEW x \in Dirs, Leave(x) PROVE Frames'
  <2>1. UNCHANGED <<held, sent, got>>
    BY <1>14 DEF Leave
  <2>2. ASSUME NEW d \in Dirs, NEW l \in Links PROVE wire'[l][d] = wire[l][d] \/ wire'[l][d] = Append(wire[l][d], Close)
    BY <1>14, LeaveIs
  <2> QED
    BY <2>1, <2>2, FramesOnLinks DEF Frames
<1>15. ASSUME NEW l \in Links, Cut(l) PROVE Frames'
  <2>1. UNCHANGED <<held, sent, got>>
    BY <1>15 DEF Cut
  <2>2. ASSUME NEW d \in Dirs, NEW k \in Links PROVE Sound(wire'[k][d], sent'[d])
    <3>1. wire[k][d] \in Seq(Nat) /\ sent[d] \in Nat /\ Sound(wire[k][d], sent[d])
      BY DEF Types, Frames
    <3>2. \/ wire'[k][d] = wire[k][d]
          \/ \E n \in 0..Len(wire[k][d]) : wire'[k][d] = Append(SubSeq(wire[k][d], 1, n), Close)
      BY <1>15, CutIs
    <3>3. \A n \in 0..Len(wire[k][d]) : Sound(Append(SubSeq(wire[k][d], 1, n), Close), sent[d])
      BY <3>1, SoundIs
    <3> QED
      BY <2>1, <3>1, <3>2, <3>3
  <2> QED
    BY <2>1, <2>2 DEF Frames
<1>16. ASSUME UNCHANGED vars PROVE Frames'
  BY <1>16 DEF Frames, vars
<1> QED
  BY <1>1, <1>2, <1>3, <1>4, <1>5, <1>6, <1>7, <1>8, <1>9, <1>10, <1>11, <1>12, <1>13, <1>14, <1>15, <1>16 DEF Next, Serve, Pump

LEMMA CalmFrames ==
  ASSUME Types, Frames, NEW d \in Dirs, Listens(d)
  PROVE  LET o == Opposite(d) IN
         sent[o] = 0 /\ o \notin quit /\ "cut" \notin quit /\ \A r \in Relays : held[r][o] = Nothing
<1>1. Opposite(d) \in Dirs /\ Way(Receiver(d)) = Opposite(d)
  BY Opposites
<1>2. sent[Opposite(d)] = 0 /\ Opposite(d) \notin quit /\ "cut" \notin quit
  BY <1>1 DEF Listens
<1>3. \A r \in Relays : held[r][Opposite(d)] \in Nat /\ held[r][Opposite(d)] <= sent[Opposite(d)]
  BY <1>1 DEF Types, Frames
<1> QED
  BY <1>2, <1>3 DEF Nothing

LEMMA CalmKeeps ==
  ASSUME NEW d \in Dirs, CalmOf(d),
         wire'[2 - EndOf(d)][Opposite(d)] = wire[2 - EndOf(d)][Opposite(d)],
         relay'[Far(d)] # "over" =>
           relay[Far(d)] # "over" /\ wire'[1][Opposite(d)] = wire[1][Opposite(d)],
         \A r \in Relays : relay'[r] = "relay" =>
           \/ pump'[r][Opposite(d)] = "run"
           \/ relay[r] = "relay" /\ pump'[r][Opposite(d)] = pump[r][Opposite(d)]
  PROVE  CalmOf(d)'
BY Places DEF CalmOf

LEMMA CalmStep ==
  ASSUME Types, Types', Opening, Tasks, Frames, Calm, Grows, [Next]_vars PROVE Calm'
<1>1. ASSUME Open PROVE Calm'
  <2> SUFFICES ASSUME NEW d \in Dirs, Listens(d), Listens(d)' PROVE CalmOf(d)'
    BY MayEndGrows DEF Calm
  <2>0. /\ CalmOf(d) /\ Opposite(d) \in Dirs
        /\ Far(d) \in Relays /\ Near(d) \in Relays /\ 1 \in Links /\ 2 - EndOf(d) \in Links
    BY Places, Opposites DEF Calm
  <2>1. UNCHANGED <<wire, pump>>
    BY <1>1 DEF Open
  <2>2. \A k \in Relays : (relay'[k] = "relay" => relay[k] = "relay") /\ (relay'[k] # "over" => relay[k] # "over")
    BY <1>1 DEF Open, Opening, Types
  <2> QED
    BY <2>0, <2>1, <2>2, CalmKeeps
<1>2. ASSUME ServerAnswers PROVE Calm'
  <2> SUFFICES ASSUME NEW d \in Dirs, Listens(d), Listens(d)' PROVE CalmOf(d)'
    BY MayEndGrows DEF Calm
  <2>0. /\ CalmOf(d) /\ Opposite(d) \in Dirs
        /\ Far(d) \in Relays /\ Near(d) \in Relays /\ 1 \in Links /\ 2 - EndOf(d) \in Links
    BY Places, Opposites DEF Calm
  <2>1. UNCHANGED <<wire, pump>>
    BY <1>2 DEF ServerAnswers
  <2>2. \A k \in Relays : (relay'[k] = "relay" => relay[k] = "relay") /\ (relay'[k] # "over" => relay[k] # "over")
    BY <1>2 DEF ServerAnswers, Types
  <2> QED
    BY <2>0, <2>1, <2>2, CalmKeeps
<1>3. ASSUME NEW r \in Relays, Check(r) PROVE Calm'
  <2> SUFFICES ASSUME NEW d \in Dirs, Listens(d), Listens(d)' PROVE CalmOf(d)'
    BY MayEndGrows DEF Calm
  <2>0. /\ CalmOf(d) /\ Opposite(d) \in Dirs
        /\ Far(d) \in Relays /\ Near(d) \in Relays /\ 1 \in Links /\ 2 - EndOf(d) \in Links
    BY Places, Opposites DEF Calm
  <2>1. UNCHANGED <<wire, pump>>
    BY <1>3 DEF Check
  <2>2. \A k \in Relays : (relay'[k] = "relay" => relay[k] = "relay") /\ (relay'[k] # "over" => relay[k] # "over")
    BY <1>3 DEF Check, Opening, Types, Relays
  <2> QED
    BY <2>0, <2>1, <2>2, CalmKeeps
<1>4. ASSUME NEW r \in Relays, Refuse(r) PROVE Calm'
  <2> SUFFICES ASSUME NEW d \in Dirs, Listens(d), Listens(d)' PROVE CalmOf(d)'
    BY MayEndGrows DEF Calm
  <2>0. /\ CalmOf(d) /\ Opposite(d) \in Dirs
        /\ Far(d) \in Relays /\ Near(d) \in Relays /\ 1 \in Links /\ 2 - EndOf(d) \in Links
    BY Places, Opposites DEF Calm
  <2>1. UNCHANGED <<wire, pump>>
    BY <1>4 DEF Refuse
  <2>2. \A k \in Relays : (relay'[k] = "relay" => relay[k] = "relay") /\ (relay'[k] # "over" => relay[k] # "over")
    BY <1>4 DEF Refuse, Types
  <2> QED
    BY <2>0, <2>1, <2>2, CalmKeeps
<1>5. ASSUME NEW r \in Relays, Connected(r) PROVE Calm'
  <2> SUFFICES ASSUME NEW d \in Dirs, Listens(d), Listens(d)' PROVE CalmOf(d)'
    BY MayEndGrows DEF Calm
  <2>0. /\ CalmOf(d) /\ Opposite(d) \in Dirs
        /\ Far(d) \in Relays /\ Near(d) \in Relays /\ 1 \in Links /\ 2 - EndOf(d) \in Links
    BY Places, Opposites DEF Calm
  <2>1. /\ wire' = wire /\ relay[r] = "connect" /\ relay' = [relay EXCEPT ![r] = "relay"]
        /\ \A k \in Relays, e \in Dirs : pump'[k][e] = IF k = r THEN "run" ELSE pump[k][e]
    BY <1>5, ConnectedIs
  <2>2. \A k \in Relays : relay'[k] = IF k = r THEN "relay" ELSE relay[k]
    BY <2>1 DEF Types
  <2> QED
    BY <2>0, <2>1, <2>2, CalmKeeps
<1>6. ASSUME NEW r \in Relays, ConnectFails(r) PROVE Calm'
  <2> SUFFICES ASSUME NEW d \in Dirs, Listens(d), Listens(d)' PROVE CalmOf(d)'
    BY MayEndGrows DEF Calm
  <2>0. /\ CalmOf(d) /\ Opposite(d) \in Dirs
        /\ Far(d) \in Relays /\ Near(d) \in Relays /\ 1 \in Links /\ 2 - EndOf(d) \in Links
    BY Places, Opposites DEF Calm
  <2>1. pump' = pump /\ relay[r] = "connect" /\ relay' = [relay EXCEPT ![r] = "over"]
    BY <1>6 DEF ConnectFails
  <2>2. \A k \in Relays : relay'[k] = IF k = r THEN "over" ELSE relay[k]
    BY <2>1 DEF Types
  <2>3. \A l \in Links, e \in Dirs : wire'[l][e] # wire[l][e] => l = r /\ e = "down"
    BY <1>6, SlowIs DEF ConnectFails
  <2>4. wire'[2 - EndOf(d)][Opposite(d)] = wire[2 - EndOf(d)][Opposite(d)]
    BY <1>6, <2>0, <2>3 DEF Opposite, EndOf, Relays, Dirs
  <2>5. relay'[Far(d)] # "over" => wire'[1][Opposite(d)] = wire[1][Opposite(d)]
    BY <1>6, <2>0, <2>2, <2>3 DEF Opposite, Far, Relays, Dirs
  <2> QED
    BY <2>0, <2>1, <2>2, <2>4, <2>5, CalmKeeps
<1>7. ASSUME NEW r \in Relays, Cancel(r) PROVE Calm'
  <2> SUFFICES ASSUME NEW d \in Dirs, Listens(d), Listens(d)' PROVE CalmOf(d)'
    BY MayEndGrows DEF Calm
  <2>0. /\ CalmOf(d) /\ Opposite(d) \in Dirs
        /\ Far(d) \in Relays /\ Near(d) \in Relays /\ 1 \in Links /\ 2 - EndOf(d) \in Links
    BY Places, Opposites DEF Calm
  <2>1. wire' = wire /\ relay[r] = "relay" /\ relay' = [relay EXCEPT ![r] = "close"]
        /\ \A k \in Relays, e \in Dirs : k # r => pump'[k][e] = pump[k][e]
    BY <1>7, CancelIs
  <2>2. \A k \in Relays : relay'[k] = IF k = r THEN "close" ELSE relay[k]
    BY <2>1 DEF Types
  <2> QED
    BY <2>0, <2>1, <2>2, CalmKeeps
<1>8. ASSUME NEW r \in Relays, CloseBoth(r) PROVE Calm'
  <2> SUFFICES ASSUME NEW d \in Dirs, Listens(d), Listens(d)' PROVE CalmOf(d)'
    BY MayEndGrows DEF Calm
  <2>0. /\ CalmOf(d) /\ Opposite(d) \in Dirs
        /\ Far(d) \in Relays /\ Near(d) \in Relays /\ 1 \in Links /\ 2 - EndOf(d) \in Links
    BY Places, Opposites DEF Calm
  <2>1. pump' = pump /\ relay[r] = "close" /\ relay' = [relay EXCEPT ![r] = "over"]
    BY <1>8 DEF CloseBoth
  <2>2. \A k \in Relays : relay'[k] = IF k = r THEN "over" ELSE relay[k]
    BY <2>1 DEF Types
  <2>3. \A l \in Links, e \in Dirs : wire'[l][e] # wire[l][e] => l = Out(r, e)
    BY <1>8, CloseBothIs
  <2>4. wire'[2 - EndOf(d)][Opposite(d)] = wire[2 - EndOf(d)][Opposite(d)]
    BY <1>8, <2>0, <2>3 DEF Opposite, EndOf, Out, Relays, Dirs
  <2>5. relay'[Far(d)] # "over" => wire'[1][Opposite(d)] = wire[1][Opposite(d)]
    BY <1>8, <2>0, <2>2, <2>3 DEF Opposite, Far, Out, Relays, Dirs
  <2> QED
    BY <2>0, <2>1, <2>2, <2>4, <2>5, CalmKeeps
<1>9. ASSUME NEW r \in Relays, NEW x \in Dirs, Receive(r, x) PROVE Calm'
  <2> SUFFICES ASSUME NEW d \in Dirs, Listens(d), Listens(d)' PROVE CalmOf(d)'
    BY MayEndGrows DEF Calm
  <2>0. /\ CalmOf(d) /\ Opposite(d) \in Dirs
        /\ Far(d) \in Relays /\ Near(d) \in Relays /\ 1 \in Links /\ 2 - EndOf(d) \in Links
    BY Places, Opposites DEF Calm
  <2>1. /\ UNCHANGED <<relay, pump>> /\ Running(r, x) /\ wire[In(r, x)][x] # <<>>
        /\ \A l \in Links, e \in Dirs : wire'[l][e] # wire[l][e] => l = In(r, x) /\ e = x
    BY <1>9, ReceiveIs
  <2>2. /\ wire'[2 - EndOf(d)][Opposite(d)] = wire[2 - EndOf(d)][Opposite(d)]
    BY <1>9, <2>0, <2>1 DEF CalmOf
  <2>3. relay'[Far(d)] # "over" => wire'[1][Opposite(d)] = wire[1][Opposite(d)]
    BY <1>9, <2>0, <2>1 DEF CalmOf
  <2> QED
    BY <2>0, <2>1, <2>2, <2>3, CalmKeeps
<1>10. ASSUME NEW r \in Relays, NEW x \in Dirs, ReceiveEnds(r, x) PROVE Calm'
  <2> SUFFICES ASSUME NEW d \in Dirs, Listens(d), Listens(d)' PROVE CalmOf(d)'
    BY MayEndGrows DEF Calm
  <2>0. /\ CalmOf(d) /\ Opposite(d) \in Dirs
        /\ Far(d) \in Relays /\ Near(d) \in Relays /\ 1 \in Links /\ 2 - EndOf(d) \in Links
    BY Places, Opposites DEF Calm
  <2>1. /\ UNCHANGED <<relay, wire>> /\ Running(r, x)
        /\ AtEnd(wire[In(r, x)][x]) \/ Receiver(x) \in gone[In(r, x)]
        /\ \A k \in Relays, e \in Dirs : pump'[k][e] = IF k = r /\ e = x THEN "over" ELSE pump[k][e]
    BY <1>10, ReceiveEndsIs
  <2>2. AtEnd(wire[In(r, x)][x]) /\ wire[In(r, x)][x] # <<>>
    BY <1>10, <2>1 DEF Tasks, AtEnd
  <2>3. CASE x # Opposite(d)
    BY <2>0, <2>1, <2>3, CalmKeeps
  <2>4. CASE x = Opposite(d) /\ r = Far(d)
    <3>1. In(r, x) = 2 - EndOf(d)
      BY <2>4 DEF In, Far, Opposite, EndOf, Dirs
    <3> QED
      BY <2>0, <2>2, <2>4, <3>1 DEF CalmOf
  <2>5. CASE x = Opposite(d) /\ r = Near(d)
    <3>1. In(r, x) = 1
      BY <2>5 DEF In, Near, Opposite, EndOf, Dirs
    <3>2. relay[Far(d)] = "over"
      BY <2>0, <2>2, <2>5, <3>1 DEF CalmOf
    <3>3. Near(d) # Far(d)
      BY Places
    <3> QED
      BY <2>0, <2>1, <2>5, <3>2, <3>3 DEF CalmOf
  <2> QED
    BY <1>10, <2>3, <2>4, <2>5, Places
<1>11. ASSUME NEW r \in Relays, NEW x \in Dirs, PumpSend(r, x) PROVE Calm'
  <2> SUFFICES ASSUME NEW d \in Dirs, Listens(d), Listens(d)' PROVE CalmOf(d)'
    BY MayEndGrows DEF Calm
  <2>0. /\ CalmOf(d) /\ Opposite(d) \in Dirs
        /\ Far(d) \in Relays /\ Near(d) \in Relays /\ 1 \in Links /\ 2 - EndOf(d) \in Links
    BY Places, Opposites DEF Calm
  <2>1. /\ held[r][x] # Nothing /\ relay' = relay
        /\ \A k \in Relays, e \in Dirs : (k # r \/ e # x) => pump'[k][e] = pump[k][e]
        /\ \A l \in Links, e \in Dirs : e # x => wire'[l][e] = wire[l][e]
    BY <1>11, PumpSendIs, PumpSendDoes
  <2>2. x # Opposite(d)
    BY <1>11, <2>1, CalmFrames
  <2> QED
    BY <2>0, <2>1, <2>2, CalmKeeps
<1>12. ASSUME NEW x \in Dirs, Speak(x) PROVE Calm'
  <2> SUFFICES ASSUME NEW d \in Dirs, Listens(d), Listens(d)' PROVE CalmOf(d)'
    BY MayEndGrows DEF Calm
  <2>0. /\ CalmOf(d) /\ Opposite(d) \in Dirs
        /\ Far(d) \in Relays /\ Near(d) \in Relays /\ 1 \in Links /\ 2 - EndOf(d) \in Links
    BY Places, Opposites DEF Calm
  <2>1. /\ UNCHANGED <<relay, pump>> /\ sent'[x] = sent[x] + 1
        /\ \A l \in Links, e \in Dirs : e # x => wire'[l][e] = wire[l][e]
    BY <1>12, SpeakIs
  <2>2. sent[x] \in Nat /\ sent'[Opposite(d)] = 0
    BY Opposites DEF Types, Listens
  <2>3. x # Opposite(d)
    BY <2>1, <2>2
  <2> QED
    BY <2>0, <2>1, <2>3, CalmKeeps
<1>13. ASSUME NEW x \in Dirs, Listen(x) PROVE Calm'
  <2> SUFFICES ASSUME NEW d \in Dirs, Listens(d), Listens(d)' PROVE CalmOf(d)'
    BY MayEndGrows DEF Calm
  <2>0. /\ CalmOf(d) /\ Opposite(d) \in Dirs
        /\ Far(d) \in Relays /\ Near(d) \in Relays /\ 1 \in Links /\ 2 - EndOf(d) \in Links
    BY Places, Opposites DEF Calm
  <2>1. /\ UNCHANGED <<relay, pump>>
        /\ \A l \in Links, e \in Dirs : wire'[l][e] # wire[l][e] => e = x /\ l = 2 - EndOf(x)
    BY <1>13, ListenDoes
  <2>2. 2 - EndOf(d) # 2 - EndOf(Opposite(d)) /\ 1 # 2 - EndOf(Opposite(d))
    BY Places, Opposites
  <2>3. /\ wire'[2 - EndOf(d)][Opposite(d)] = wire[2 - EndOf(d)][Opposite(d)]
        /\ wire'[1][Opposite(d)] = wire[1][Opposite(d)]
    BY <1>13, <2>0, <2>1, <2>2
  <2> QED
    BY <2>0, <2>1, <2>3, CalmKeeps
<1>14. ASSUME NEW x \in Dirs, Leave(x) PROVE Calm'
  <2> SUFFICES ASSUME NEW d \in Dirs, Listens(d), Listens(d)' PROVE CalmOf(d)'
    BY MayEndGrows DEF Calm
  <2>0. /\ CalmOf(d) /\ Opposite(d) \in Dirs
        /\ Far(d) \in Relays /\ Near(d) \in Relays /\ 1 \in Links /\ 2 - EndOf(d) \in Links
    BY Places, Opposites DEF Calm
  <2>1. UNCHANGED <<relay, pump>> /\ x \in quit'
    BY <1>14 DEF Leave
  <2>2. x # Opposite(d)
    BY <2>1, Opposites DEF Listens
  <2>3. \A l \in Links, e \in Dirs : e # x => wire'[l][e] = wire[l][e]
    BY <1>14, LeaveIs
  <2> QED
    BY <2>0, <2>1, <2>2, <2>3, CalmKeeps
<1>15. ASSUME NEW l \in Links, Cut(l) PROVE Calm'
  <2> SUFFICES ASSUME NEW d \in Dirs, Listens(d)' PROVE FALSE
    BY DEF Calm
  <2>1. "cut" \in quit'
    BY <1>15 DEF Cut
  <2> QED
    BY <2>1 DEF Listens
<1>16. ASSUME UNCHANGED vars PROVE Calm'
  <2> SUFFICES ASSUME NEW d \in Dirs, Listens(d), Listens(d)' PROVE CalmOf(d)'
    BY MayEndGrows DEF Calm
  <2>0. /\ CalmOf(d) /\ Opposite(d) \in Dirs
        /\ Far(d) \in Relays /\ Near(d) \in Relays /\ 1 \in Links /\ 2 - EndOf(d) \in Links
    BY Places, Opposites DEF Calm
  <2>1. UNCHANGED <<wire, pump>>
    BY <1>16 DEF vars
  <2>2. \A k \in Relays : (relay'[k] = "relay" => relay[k] = "relay") /\ (relay'[k] # "over" => relay[k] # "over")
    BY <1>16 DEF vars, Types
  <2> QED
    BY <2>0, <2>1, <2>2, CalmKeeps
<1> QED
  BY <1>1, <1>2, <1>3, <1>4, <1>5, <1>6, <1>7, <1>8, <1>9, <1>10, <1>11, <1>12, <1>13, <1>14, <1>15, <1>16 DEF Next, Serve, Pump

-----------------------------------------------------------------------------
(* A direction, step by step *)

\* The direction as it is, with the frames the relays may end after in the next state.
Due(d, last) ==
  Flow(Len(got[d]), Reads(d),
       wire[2 - EndOf(d)][d], Doing(Far(d), d), held[Far(d)][d],
       wire[1][d], Doing(Near(d), d), held[Near(d)][d],
       wire[EndOf(d)][d], sent[d], last)

LEMMA FlowLater ==
  ASSUME Types, Types', Grows, NEW d \in Dirs, FlowOf(d)
  PROVE  Due(d, MayEnd(d)')
<1>1. MayEnd(d) \subseteq MayEnd(d)'
  BY MayEndGrows
<1> QED
  BY <1>1, FlowTypes, FlowWeak DEF FlowOf, Due

LEMMA DoingIs ==
  ASSUME Types, NEW r \in Relays, NEW d \in Dirs
  PROVE  /\ relay[r] \in Before => Doing(r, d) = "wait"
         /\ Running(r, d) => Doing(r, d) = "run"
         /\ (relay[r] \in {"relay", "close"} /\ ~Running(r, d)) => Doing(r, d) = "done"
         /\ relay[r] = "over" => Doing(r, d) = "over"
BY DEF Doing, Running, Before, Types

SameEnds(d) == got'[d] = got[d] /\ Reads(d)' = Reads(d) /\ sent'[d] = sent[d]
SameAt(r, d) == Doing(r, d)' = Doing(r, d) /\ held'[r][d] = held[r][d]
SameOn(l, d) == wire'[l][d] = wire[l][d]

LEMMA SameDoing ==
  ASSUME NEW r \in Relays, NEW d \in Dirs, relay'[r] = relay[r], pump'[r][d] = pump[r][d]
  PROVE  Doing(r, d)' = Doing(r, d)
BY DEF Doing, Running

LEMMA FlowKeeps ==
  ASSUME NEW d \in Dirs, Due(d, MayEnd(d)'), SameEnds(d),
         \A r \in Relays : SameAt(r, d), \A l \in Links : SameOn(l, d)
  PROVE  FlowOf(d)'
BY Places DEF Due, FlowOf, SameEnds, SameAt, SameOn

FarThrough(d) == Through(Reads(d), Len(got[d]), wire[2 - EndOf(d)][d], MayEnd(d)')
NearThrough(d) ==
  Through(On(Reads(d), wire[2 - EndOf(d)][d], Doing(Far(d), d)),
          Base(Len(got[d]), wire[2 - EndOf(d)][d], held[Far(d)][d]), wire[1][d], MayEnd(d)')

\* The events above, read off a step: what it leaves as it is and what it changes, first for
\* the relay next to the end that listens, then for the one next to the end that speaks.
LEMMA FarSends ==
  ASSUME Types, NEW d \in Dirs, Due(d, MayEnd(d)'),
         SameEnds(d), SameOn(1, d), SameOn(EndOf(d), d), SameAt(Near(d), d),
         Doing(Far(d), d) = "run",
         held[Far(d)][d] # Nothing,
         wire'[2 - EndOf(d)][d] = Append(wire[2 - EndOf(d)][d], held[Far(d)][d]),
         Doing(Far(d), d)' = "run",
         held'[Far(d)][d] = Nothing
  PROVE  FlowOf(d)'
BY SMTT(40), FlowTypes, FarSend DEF Due, FlowOf, SameEnds, SameAt, SameOn

LEMMA FarReads ==
  ASSUME Types, NEW d \in Dirs, Due(d, MayEnd(d)'),
         SameEnds(d), SameOn(2 - EndOf(d), d), SameOn(EndOf(d), d), SameAt(Near(d), d),
         Doing(Far(d), d) = "run",
         held[Far(d)][d] = Nothing,
         wire[1][d] # <<>>,
         Head(wire[1][d]) # Close,
         wire'[1][d] = Tail(wire[1][d]),
         Doing(Far(d), d)' = "run",
         held'[Far(d)][d] = Head(wire[1][d])
  PROVE  FlowOf(d)'
BY SMTT(40), FlowTypes, FarTake DEF Due, FlowOf, SameEnds, SameAt, SameOn

LEMMA FarRuns ==
  ASSUME Types, NEW d \in Dirs, Due(d, MayEnd(d)'),
         SameEnds(d), SameOn(1, d), SameOn(EndOf(d), d), SameAt(Near(d), d),
         SameOn(2 - EndOf(d), d),
         Doing(Far(d), d) = "wait",
         Doing(Far(d), d)' = "run",
         held'[Far(d)][d] = held[Far(d)][d]
  PROVE  FlowOf(d)'
BY FlowTypes, FarStarts DEF Due, FlowOf, SameEnds, SameAt, SameOn

LEMMA FarStops ==
  ASSUME Types, NEW d \in Dirs, Due(d, MayEnd(d)'),
         SameEnds(d), SameOn(1, d), SameOn(EndOf(d), d), SameAt(Near(d), d),
         SameOn(2 - EndOf(d), d),
         Doing(Far(d), d)' \notin {"wait", "run"},
         held'[Far(d)][d] \in {held[Far(d)][d], Nothing},
         held'[Far(d)][d] \in Nat,
         Doing(Far(d), d)' = "done" => FarThrough(d)
  PROVE  FlowOf(d)'
BY SMTT(40), FlowTypes, FarOver DEF FarThrough, Due, FlowOf, SameEnds, SameAt, SameOn

LEMMA FarShuts ==
  ASSUME Types, NEW d \in Dirs, Due(d, MayEnd(d)'),
         SameEnds(d), SameOn(1, d), SameOn(EndOf(d), d), SameAt(Near(d), d),
         wire'[2 - EndOf(d)][d] = Append(wire[2 - EndOf(d)][d], Close),
         held'[Far(d)][d] \in Nat,
         FarThrough(d)
  PROVE  FlowOf(d)'
BY SMTT(40), FlowTypes, FarClose DEF FarThrough, Due, FlowOf, SameEnds, SameAt, SameOn

LEMMA NearSends ==
  ASSUME Types, NEW d \in Dirs, Due(d, MayEnd(d)'),
         SameEnds(d), SameOn(2 - EndOf(d), d), SameOn(EndOf(d), d), SameAt(Far(d), d),
         Doing(Near(d), d) = "run",
         held[Near(d)][d] # Nothing,
         wire'[1][d] = Append(wire[1][d], held[Near(d)][d]),
         Doing(Near(d), d)' = "run",
         held'[Near(d)][d] = Nothing
  PROVE  FlowOf(d)'
BY SMTT(40), FlowTypes, NearSend DEF Due, FlowOf, SameEnds, SameAt, SameOn

LEMMA NearReads ==
  ASSUME Types, NEW d \in Dirs, Due(d, MayEnd(d)'),
         SameEnds(d), SameOn(2 - EndOf(d), d), SameOn(1, d), SameAt(Far(d), d),
         Doing(Near(d), d) = "run",
         held[Near(d)][d] = Nothing,
         wire[EndOf(d)][d] # <<>>,
         Head(wire[EndOf(d)][d]) # Close,
         wire'[EndOf(d)][d] = Tail(wire[EndOf(d)][d]),
         Doing(Near(d), d)' = "run",
         held'[Near(d)][d] = Head(wire[EndOf(d)][d])
  PROVE  FlowOf(d)'
BY SMTT(40), FlowTypes, NearTake DEF Due, FlowOf, SameEnds, SameAt, SameOn

LEMMA NearRuns ==
  ASSUME Types, NEW d \in Dirs, Due(d, MayEnd(d)'),
         SameEnds(d), SameOn(2 - EndOf(d), d), SameOn(EndOf(d), d), SameAt(Far(d), d),
         SameOn(1, d),
         Doing(Near(d), d) = "wait",
         Doing(Near(d), d)' = "run",
         held'[Near(d)][d] = held[Near(d)][d]
  PROVE  FlowOf(d)'
BY FlowTypes, NearStarts DEF Due, FlowOf, SameEnds, SameAt, SameOn

LEMMA NearStops ==
  ASSUME Types, NEW d \in Dirs, Due(d, MayEnd(d)'),
         SameEnds(d), SameOn(2 - EndOf(d), d), SameOn(EndOf(d), d), SameAt(Far(d), d),
         SameOn(1, d),
         Doing(Near(d), d)' \notin {"wait", "run"},
         held'[Near(d)][d] \in {held[Near(d)][d], Nothing},
         held'[Near(d)][d] \in Nat,
         Doing(Near(d), d)' = "done" => NearThrough(d)
  PROVE  FlowOf(d)'
<1> DEFINE g == Len(got[d])                  y == Reads(d)            m == sent[d]
           q2 == wire[2 - EndOf(d)][d]      b2 == Doing(Far(d), d)   h2 == held[Far(d)][d]
           q1 == wire[1][d]                 b1 == Doing(Near(d), d)  h1 == held[Near(d)][d]
           q0 == wire[EndOf(d)][d]          last == MayEnd(d)'
           e == Doing(Near(d), d)'  h == held'[Near(d)][d]
<1>1. /\ g \in Nat /\ y \in BOOLEAN /\ m \in Nat /\ h2 \in Nat /\ h1 \in Nat
      /\ q2 \in Seq(Nat) /\ q1 \in Seq(Nat) /\ q0 \in Seq(Nat)
  BY FlowTypes
<1>2. Flow(g, y, q2, b2, h2, q1, b1, h1, q0, m, last)
  BY DEF Due
<1>3. h \in {h1, Nothing} /\ h \in Nat /\ e \notin {"wait", "run"} /\ (e = "done" => Through(On(y, q2, b2), Base(g, q2, h2), q1, last))
  BY DEF NearThrough
<1> HIDE DEF g, y, m, q2, b2, h2, q1, b1, h1, q0, last, e, h
<1>4. Flow(g, y, q2, b2, h2, q1, e, h, q0, m, last)
  BY <1>1, <1>2, <1>3, NearOver
<1> QED
  BY <1>3, <1>4, Places DEF FlowOf, SameEnds, SameAt, SameOn, g, y, m, q2, b2, h2, q1, b1, h1, q0, last, e, h

LEMMA NearShuts ==
  ASSUME Types, NEW d \in Dirs, Due(d, MayEnd(d)'),
         SameEnds(d), SameOn(2 - EndOf(d), d), SameOn(EndOf(d), d), SameAt(Far(d), d),
         wire'[1][d] = Append(wire[1][d], Close),
         held'[Near(d)][d] \in Nat,
         NearThrough(d)
  PROVE  FlowOf(d)'
<1> DEFINE g == Len(got[d])                  y == Reads(d)            m == sent[d]
           q2 == wire[2 - EndOf(d)][d]      b2 == Doing(Far(d), d)   h2 == held[Far(d)][d]
           q1 == wire[1][d]                 b1 == Doing(Near(d), d)  h1 == held[Near(d)][d]
           q0 == wire[EndOf(d)][d]          last == MayEnd(d)'
           e == Doing(Near(d), d)'  h == held'[Near(d)][d]
<1>1. /\ g \in Nat /\ y \in BOOLEAN /\ m \in Nat /\ h2 \in Nat /\ h1 \in Nat
      /\ q2 \in Seq(Nat) /\ q1 \in Seq(Nat) /\ q0 \in Seq(Nat)
  BY FlowTypes
<1>2. Flow(g, y, q2, b2, h2, q1, b1, h1, q0, m, last)
  BY DEF Due
<1>3. h \in Nat /\ Through(On(y, q2, b2), Base(g, q2, h2), q1, last)
  BY DEF NearThrough
<1> HIDE DEF g, y, m, q2, b2, h2, q1, b1, h1, q0, last, e, h
<1>4. Flow(g, y, q2, b2, h2, Append(q1, Close), e, h, q0, m, last)
  BY <1>1, <1>2, <1>3, NearClose
<1> QED
  BY <1>3, <1>4, Places DEF FlowOf, SameEnds, SameAt, SameOn, g, y, m, q2, b2, h2, q1, b1, h1, q0, last, e, h

\* For the two ends, and for a link that breaks.
LEMMA EndSpeaks ==
  ASSUME Types, NEW d \in Dirs, Due(d, MayEnd(d)'),
         got'[d] = got[d] /\ Reads(d)' = Reads(d) /\ sent'[d] = sent[d] + 1,
         SameOn(2 - EndOf(d), d), SameOn(1, d), \A r \in Relays : SameAt(r, d),
         wire'[EndOf(d)][d] = Append(wire[EndOf(d)][d], sent[d] + 1)
  PROVE  FlowOf(d)'
<1>1. Flow(Len(got[d]), Reads(d), wire[2 - EndOf(d)][d], Doing(Far(d), d), held[Far(d)][d],
          wire[1][d], Doing(Near(d), d), held[Near(d)][d], Append(wire[EndOf(d)][d], sent[d] + 1), sent[d] + 1, MayEnd(d)')
  BY FlowTypes, Spoken DEF Due
<1> QED
  BY <1>1, Places DEF FlowOf, SameEnds, SameAt, SameOn

LEMMA EndLeaves ==
  ASSUME Types, NEW d \in Dirs, Due(d, MayEnd(d)'),
         SameEnds(d), SameOn(2 - EndOf(d), d), SameOn(1, d), \A r \in Relays : SameAt(r, d),
         sent[d] \in MayEnd(d)',
         wire'[EndOf(d)][d] = Append(wire[EndOf(d)][d], Close)
  PROVE  FlowOf(d)'
<1>1. Flow(Len(got[d]), Reads(d), wire[2 - EndOf(d)][d], Doing(Far(d), d), held[Far(d)][d],
          wire[1][d], Doing(Near(d), d), held[Near(d)][d], Append(wire[EndOf(d)][d], Close), sent[d], MayEnd(d)')
  BY FlowTypes, Departed DEF Due
<1> QED
  BY <1>1, Places DEF FlowOf, SameEnds, SameAt, SameOn

LEMMA EndHears ==
  ASSUME Types, NEW d \in Dirs, Due(d, MayEnd(d)'),
         Reads(d), Reads(d)', sent'[d] = sent[d],
         SameOn(1, d), SameOn(EndOf(d), d), \A r \in Relays : SameAt(r, d),
         wire[2 - EndOf(d)][d] # <<>>, Head(wire[2 - EndOf(d)][d]) # Close,
         wire'[2 - EndOf(d)][d] = Tail(wire[2 - EndOf(d)][d]), Len(got'[d]) = Len(got[d]) + 1
  PROVE  FlowOf(d)'
<1> DEFINE g == Len(got[d])                  y == Reads(d)            m == sent[d]
           q2 == wire[2 - EndOf(d)][d]      b2 == Doing(Far(d), d)   h2 == held[Far(d)][d]
           q1 == wire[1][d]                 b1 == Doing(Near(d), d)  h1 == held[Near(d)][d]
           q0 == wire[EndOf(d)][d]          last == MayEnd(d)'
<1>1. /\ g \in Nat /\ y \in BOOLEAN /\ m \in Nat /\ h2 \in Nat /\ h1 \in Nat
      /\ q2 \in Seq(Nat) /\ q1 \in Seq(Nat) /\ q0 \in Seq(Nat)
  BY FlowTypes
<1>2. Flow(g, y, q2, b2, h2, q1, b1, h1, q0, m, last)
  BY DEF Due
<1>3. y /\ q2 # <<>> /\ Head(q2) # Close
  OBVIOUS
<1> HIDE DEF g, y, m, q2, b2, h2, q1, b1, h1, q0, last
<1>4. y = TRUE
  BY <1>1, <1>3
<1>5. Flow(g, TRUE, q2, b2, h2, q1, b1, h1, q0, m, last)
  BY <1>2, <1>4
<1>6. Flow(g + 1, TRUE, Tail(q2), b2, h2, q1, b1, h1, q0, m, last)
  BY <1>1, <1>3, <1>5, Hear
<1> QED
  BY <1>3, <1>4, <1>6, Places DEF FlowOf, SameEnds, SameAt, SameOn, g, y, m, q2, b2, h2, q1, b1, h1, q0, last

LEMMA EndDeaf ==
  ASSUME Types, NEW d \in Dirs, Due(d, MayEnd(d)'),
         Reads(d)' = FALSE, got'[d] = got[d], sent'[d] = sent[d],
         SameOn(1, d), SameOn(EndOf(d), d), \A r \in Relays : SameAt(r, d),
         Len(got[d]) \in MayEnd(d)'
  PROVE  FlowOf(d)'
<1>1. Flow(Len(got[d]), FALSE, wire'[2 - EndOf(d)][d], Doing(Far(d), d), held[Far(d)][d],
          wire[1][d], Doing(Near(d), d), held[Near(d)][d], wire[EndOf(d)][d], sent[d], MayEnd(d)')
  <2>1. \A q, b : On(FALSE, q, b) = FALSE
    BY DEF On
  <2> QED
    BY <2>1, PieceDead DEF Flow
<1> QED
  BY <1>1, Places DEF FlowOf, SameEnds, SameAt, SameOn

LEMMA FarBreaks ==
  ASSUME Types, NEW d \in Dirs, Due(d, MayEnd(d)'),
         SameEnds(d), SameOn(1, d), SameOn(EndOf(d), d), \A r \in Relays : SameAt(r, d),
         MayEnd(d)' = Nat,
         NEW k \in 0..Len(wire[2 - EndOf(d)][d]),
         wire'[2 - EndOf(d)][d] = Append(SubSeq(wire[2 - EndOf(d)][d], 1, k), Close)
  PROVE  FlowOf(d)'
<1>1. Flow(Len(got[d]), Reads(d), Append(SubSeq(wire[2 - EndOf(d)][d], 1, k), Close), Doing(Far(d), d), held[Far(d)][d],
          wire[1][d], Doing(Near(d), d), held[Near(d)][d], wire[EndOf(d)][d], sent[d], MayEnd(d)')
  BY FlowTypes, FarCut DEF Due
<1> QED
  BY <1>1, Places DEF FlowOf, SameEnds, SameAt, SameOn

LEMMA MiddleBreaks ==
  ASSUME Types, NEW d \in Dirs, Due(d, MayEnd(d)'),
         SameEnds(d), SameOn(2 - EndOf(d), d), SameOn(EndOf(d), d), \A r \in Relays : SameAt(r, d),
         MayEnd(d)' = Nat,
         NEW k \in 0..Len(wire[1][d]),
         wire'[1][d] = Append(SubSeq(wire[1][d], 1, k), Close)
  PROVE  FlowOf(d)'
<1>1. Flow(Len(got[d]), Reads(d), wire[2 - EndOf(d)][d], Doing(Far(d), d), held[Far(d)][d],
          Append(SubSeq(wire[1][d], 1, k), Close), Doing(Near(d), d), held[Near(d)][d], wire[EndOf(d)][d], sent[d], MayEnd(d)')
  BY FlowTypes, NearCut DEF Due
<1> QED
  BY <1>1, Places DEF FlowOf, SameEnds, SameAt, SameOn

LEMMA SourceBreaks ==
  ASSUME Types, NEW d \in Dirs, Due(d, MayEnd(d)'),
         SameEnds(d), SameOn(2 - EndOf(d), d), SameOn(1, d), \A r \in Relays : SameAt(r, d),
         MayEnd(d)' = Nat,
         NEW k \in 0..Len(wire[EndOf(d)][d]),
         wire'[EndOf(d)][d] = Append(SubSeq(wire[EndOf(d)][d], 1, k), Close)
  PROVE  FlowOf(d)'
<1>1. Flow(Len(got[d]), Reads(d), wire[2 - EndOf(d)][d], Doing(Far(d), d), held[Far(d)][d],
          wire[1][d], Doing(Near(d), d), held[Near(d)][d], Append(SubSeq(wire[EndOf(d)][d], 1, k), Close), sent[d], MayEnd(d)')
  BY FlowTypes, SourceCut DEF Due
<1> QED
  BY <1>1, Places DEF FlowOf, SameEnds, SameAt, SameOn

\* The same for the two tasks alike.
Enough(r, d) == IF r = Far(d) THEN FarThrough(d) ELSE NearThrough(d)

LEMMA DoneEnough ==
  ASSUME Types, NEW d \in Dirs, NEW r \in Relays, Due(d, MayEnd(d)'), Doing(r, d) = "done" PROVE Enough(r, d)
<1>1. CASE r = Far(d)
  <2>1. FarThrough(d)
    BY <1>1, FlowTypes, FarDone DEF Due, FarThrough
  <2> QED
    BY <1>1, <2>1 DEF Enough
<1>2. CASE r = Near(d)
  <2>1. NearThrough(d)
    BY <1>2, FlowTypes, NearDone DEF Due, NearThrough
  <2> QED
    BY <1>2, <2>1, Places DEF Enough
<1> QED
  BY <1>1, <1>2, Places

LEMMA ReadEnough ==
  ASSUME Types, NEW d \in Dirs, NEW r \in Relays, Due(d, MayEnd(d)'), Doing(r, d) = "run", held[r][d] = Nothing,
         wire[In(r, d)][d] # <<>>, Head(wire[In(r, d)][d]) = Close
  PROVE  Enough(r, d)
<1>1. CASE r = Far(d)
  <2>1. FarThrough(d)
    BY <1>1, FlowTypes, FarEnds, Places DEF Due, FarThrough
  <2> QED
    BY <1>1, <2>1 DEF Enough
<1>2. CASE r = Near(d)
  <2>1. NearThrough(d)
    BY <1>2, FlowTypes, NearEnds, Places DEF Due, NearThrough
  <2> QED
    BY <1>2, <2>1, Places DEF Enough
<1> QED
  BY <1>1, <1>2, Places

LEMMA TaskSends ==
  ASSUME Types, NEW d \in Dirs, NEW r \in Relays, Due(d, MayEnd(d)'), SameEnds(d),
         \A k \in Relays \ {r} : SameAt(k, d),
         \A l \in Links \ {Out(r, d)} : SameOn(l, d),
         Doing(r, d) = "run", held[r][d] # Nothing,
         wire'[Out(r, d)][d] = Append(wire[Out(r, d)][d], held[r][d]),
         Doing(r, d)' = "run", held'[r][d] = Nothing
  PROVE  FlowOf(d)'
<1>1. CASE r = Far(d)
  BY <1>1, FarSends, Places DEF Enough
<1>2. CASE r = Near(d)
  BY <1>2, NearSends, Places DEF Enough
<1> QED
  BY <1>1, <1>2, Places

LEMMA TaskReads ==
  ASSUME Types, NEW d \in Dirs, NEW r \in Relays, Due(d, MayEnd(d)'), SameEnds(d),
         \A k \in Relays \ {r} : SameAt(k, d),
         \A l \in Links \ {In(r, d)} : SameOn(l, d),
         Doing(r, d) = "run", held[r][d] = Nothing,
         wire[In(r, d)][d] # <<>>, Head(wire[In(r, d)][d]) # Close,
         wire'[In(r, d)][d] = Tail(wire[In(r, d)][d]),
         Doing(r, d)' = "run", held'[r][d] = Head(wire[In(r, d)][d])
  PROVE  FlowOf(d)'
<1>1. CASE r = Far(d)
  BY <1>1, FarReads, Places DEF Enough
<1>2. CASE r = Near(d)
  BY <1>2, NearReads, Places DEF Enough
<1> QED
  BY <1>1, <1>2, Places

LEMMA TaskRuns ==
  ASSUME Types, NEW d \in Dirs, NEW r \in Relays, Due(d, MayEnd(d)'), SameEnds(d),
         \A k \in Relays \ {r} : SameAt(k, d),
         \A l \in Links : SameOn(l, d),
         Doing(r, d) = "wait", Doing(r, d)' = "run", held'[r][d] = held[r][d]
  PROVE  FlowOf(d)'
<1>1. CASE r = Far(d)
  BY <1>1, FarRuns, Places DEF Enough
<1>2. CASE r = Near(d)
  BY <1>2, NearRuns, Places DEF Enough
<1> QED
  BY <1>1, <1>2, Places

LEMMA TaskStops ==
  ASSUME Types, NEW d \in Dirs, NEW r \in Relays, Due(d, MayEnd(d)'), SameEnds(d),
         \A k \in Relays \ {r} : SameAt(k, d),
         \A l \in Links : SameOn(l, d),
         Doing(r, d)' \in {"done", "over"}, held'[r][d] \in {held[r][d], Nothing},
         Doing(r, d)' = "done" => Enough(r, d)
  PROVE  FlowOf(d)'
<1>1. CASE r = Far(d)
  <2>1. held'[r][d] \in Nat
    BY DEF Types, Nothing
  <2> QED
    BY <1>1, <2>1, FarStops, Places DEF Enough
<1>2. CASE r = Near(d)
  <2>1. held'[r][d] \in Nat
    BY DEF Types, Nothing
  <2> QED
    BY <1>2, <2>1, NearStops, Places DEF Enough
<1> QED
  BY <1>1, <1>2, Places

LEMMA TaskShuts ==
  ASSUME Types, NEW d \in Dirs, NEW r \in Relays, Due(d, MayEnd(d)'), SameEnds(d),
         \A k \in Relays \ {r} : SameAt(k, d),
         \A l \in Links \ {Out(r, d)} : SameOn(l, d),
         wire'[Out(r, d)][d] = Append(wire[Out(r, d)][d], Close),
         held'[r][d] = held[r][d], Enough(r, d)
  PROVE  FlowOf(d)'
<1>1. CASE r = Far(d)
  <2>1. held'[r][d] \in Nat
    BY DEF Types
  <2> QED
    BY <1>1, <2>1, FarShuts, Places DEF Enough
<1>2. CASE r = Near(d)
  <2>1. held'[r][d] \in Nat
    BY DEF Types
  <2> QED
    BY <1>2, <2>1, NearShuts, Places DEF Enough
<1> QED
  BY <1>1, <1>2, Places

-----------------------------------------------------------------------------
(* Why a relay may stop *)

\* Something has gone wrong: after any frame.
LEMMA AnyEnough ==
  ASSUME Types, NEW d \in Dirs, NEW r \in Relays, MayEnd(d)' = Nat PROVE Enough(r, d)
<1>1. /\ Len(got[d]) + Len(wire[2 - EndOf(d)][d]) \in Nat
      /\ Base(Len(got[d]), wire[2 - EndOf(d)][d], held[Far(d)][d]) + Len(wire[1][d]) \in Nat
  <2>1. /\ Len(got[d]) \in Nat /\ Len(wire[2 - EndOf(d)][d]) \in Nat /\ Len(wire[1][d]) \in Nat
    BY FlowTypes, LenProperties
  <2>2. Base(Len(got[d]), wire[2 - EndOf(d)][d], held[Far(d)][d]) \in Nat
    BY FlowTypes, Bases
  <2>3. \A a, b \in Nat : a + b \in Nat
    OBVIOUS
  <2> QED
    BY <2>1, <2>2, <2>3, Zenon
<1> QED
  BY <1>1 DEF Enough, FarThrough, NearThrough, Through

\* Nothing has been sent, and nothing will be.
LEMMA NothingBare ==
  ASSUME NEW q \in Seq(Nat), Sound(q, 0), Bare(q) PROVE Len(q) = 0
<1>1. Len(q) \in Nat /\ \A i \in 1..Len(q) : q[i] \in Nat
  BY Appends
<1> QED
  BY <1>1 DEF Sound, Bare, Close

LEMMA NoneEnough ==
  ASSUME Types, Frames, NEW d \in Dirs, NEW r \in Relays, sent[d] = 0, 0 \in MayEnd(d)' PROVE Enough(r, d)
<1> DEFINE g == Len(got[d])
           q2 == wire[2 - EndOf(d)][d]
           q1 == wire[1][d]
           h == held[Far(d)][d]
<1>1. /\ g \in Nat /\ g <= 0 /\ h \in Nat /\ h <= 0
      /\ q2 \in Seq(Nat) /\ Sound(q2, 0) /\ q1 \in Seq(Nat) /\ Sound(q1, 0)
  BY FlowTypes, Places DEF Frames
<1>2. FarThrough(d)
  <2> SUFFICES ASSUME Bare(q2) PROVE g + Len(q2) \in MayEnd(d)'
    BY DEF FarThrough, Through
  <2>1. Len(q2) = 0
    BY <1>1, NothingBare
  <2> QED
    BY <1>1, <2>1
<1>3. NearThrough(d)
  <2> SUFFICES ASSUME Bare(q2), Bare(q1) PROVE Base(g, q2, h) + Len(q1) \in MayEnd(d)'
    BY DEF NearThrough, Through, On
  <2>1. Len(q2) = 0 /\ Len(q1) = 0
    BY <1>1, NothingBare
  <2>2. Base(g, q2, h) = 0
    <3>1. g = 0 /\ h = 0
      BY <1>1
    <3> HIDE DEF g, q2, h
    <3> QED
      BY <2>1, <3>1 DEF Base, Nothing
  <2> QED
    BY <2>1, <2>2
<1> QED
  BY <1>2, <1>3 DEF Enough

\* It learns that the other side of a link has closed, or its other task is over: that end
\* has closed or said something, or the other relay is over and reads no more.
LEMMA ReasonEnough ==
  ASSUME Types, Types', Tasks, Calm, Grows, NEW d \in Dirs, NEW r \in Relays, relay[r] = "relay",
         \/ pump[r][Opposite(d)] = "over"
         \/ Sender(d) \in gone[Out(r, d)]
         \/ wire[Out(r, d)][Opposite(d)] # <<>>
  PROVE  Enough(r, d)
<1>1. CASE ~Listens(d)'
  <2>1. MayEnd(d)' = Nat
    BY <1>1 DEF MayEnd
  <2> QED
    BY <2>1, AnyEnough
<1>2. CASE r = Near(d) /\ relay[Far(d)] = "over"
  <2>1. Doing(Far(d), d) = "over" /\ Far(d) # Near(d)
    BY <1>2, DoingIs, Places
  <2>2. NearThrough(d)
    BY <2>1 DEF NearThrough, Through, On
  <2> QED
    BY <1>2, <2>1, <2>2 DEF Enough
<1>3. CASE Listens(d)' /\ ~(r = Near(d) /\ relay[Far(d)] = "over")
  <2>1. CalmOf(d) /\ (r = Near(d) \/ r = Far(d)) /\ Out(Near(d), d) = 1 /\ Out(Far(d), d) = 2 - EndOf(d)
    BY <1>3, MayEndGrows, Places DEF Calm
  <2>2. pump[r][Opposite(d)] = "run" /\ wire[Out(r, d)][Opposite(d)] = <<>>
    BY <1>3, <2>1 DEF CalmOf
  <2>3. In(r, Opposite(d)) = Out(r, d) /\ Receiver(Opposite(d)) = Sender(d) /\ Opposite(d) \in Dirs
    BY DEF In, Out, Opposite, Receiver, Sender, Dirs
  <2>4. Sender(d) \notin gone[Out(r, d)]
    BY <2>2, <2>3 DEF Tasks, Running
  <2> QED
    BY <2>2, <2>4
<1> QED
  BY <1>1, <1>2, <1>3

LEMMA DoingNext ==
  ASSUME NEW r \in Relays, NEW d \in Dirs
  PROVE  /\ Running(r, d)' => Doing(r, d)' = "run"
         /\ (relay'[r] \in {"relay", "close"} /\ ~Running(r, d)') => Doing(r, d)' = "done"
         /\ relay'[r] = "over" => Doing(r, d)' = "over"
BY DEF Doing, Running, Before

LEMMA NoneContained == ASSUME NEW q, Contains(q, Close) PROVE q # <<>>
BY DEF Contains

LEMMA FlowStep ==
  ASSUME Types, Types', Opening, Tasks, Frames, Calm, FlowInv, Grows, [Next]_vars PROVE FlowInv'
<1>1. ASSUME Open PROVE FlowInv'
  <2> SUFFICES ASSUME NEW d \in Dirs PROVE FlowOf(d)'
    BY DEF FlowInv
  <2>0. Due(d, MayEnd(d)')
    BY FlowLater DEF FlowInv
  <2>1. UNCHANGED <<gone, wire, pump, held, sent, got>>
    BY <1>1 DEF Open
  <2>2. \A k \in Relays : Doing(k, d)' = Doing(k, d)
    BY SMTT(30), <1>1 DEF Doing, Running, Open, Opening, Types, Before
  <2> QED
    BY <2>0, <2>1, <2>2, FlowKeeps DEF SameEnds, SameAt, SameOn, Reads
<1>2. ASSUME ServerAnswers PROVE FlowInv'
  <2> SUFFICES ASSUME NEW d \in Dirs PROVE FlowOf(d)'
    BY DEF FlowInv
  <2>0. Due(d, MayEnd(d)')
    BY FlowLater DEF FlowInv
  <2>1. UNCHANGED <<gone, wire, pump, held, sent, got>>
    BY <1>2 DEF ServerAnswers
  <2>2. \A k \in Relays : Doing(k, d)' = Doing(k, d)
    BY SMTT(30), <1>2 DEF Doing, Running, ServerAnswers, Types
  <2> QED
    BY <2>0, <2>1, <2>2, FlowKeeps DEF SameEnds, SameAt, SameOn, Reads
<1>3. ASSUME NEW r \in Relays, Check(r) PROVE FlowInv'
  <2> SUFFICES ASSUME NEW d \in Dirs PROVE FlowOf(d)'
    BY DEF FlowInv
  <2>0. Due(d, MayEnd(d)')
    BY FlowLater DEF FlowInv
  <2>1. UNCHANGED <<gone, wire, pump, held, sent, got>>
    BY <1>3 DEF Check
  <2>2. \A k \in Relays : Doing(k, d)' = Doing(k, d)
    BY SMTT(30), <1>3 DEF Doing, Running, Check, Opening, Types, Before, Relays
  <2> QED
    BY <2>0, <2>1, <2>2, FlowKeeps DEF SameEnds, SameAt, SameOn, Reads
<1>4. ASSUME NEW r \in Relays, Refuse(r) PROVE FlowInv'
  <2> SUFFICES ASSUME NEW d \in Dirs PROVE FlowOf(d)'
    BY DEF FlowInv
  <2>0. Due(d, MayEnd(d)')
    BY FlowLater DEF FlowInv
  <2>1. /\ UNCHANGED <<gone, wire, pump, held, sent, got>>
        /\ relay'[r] = "over" /\ \A k \in Relays \ {r} : relay'[k] = relay[k]
    BY <1>4 DEF Refuse, Types
  <2>2. \A k \in Relays \ {r} : Doing(k, d)' = Doing(k, d)
    BY <2>1, SameDoing
  <2>3. Doing(r, d)' = "over"
    BY <1>4, <2>1, DoingNext
  <2> QED
    BY <1>4, <2>0, <2>1, <2>2, <2>3, TaskStops DEF SameEnds, SameAt, SameOn, Reads
<1>5. ASSUME NEW r \in Relays, Connected(r) PROVE FlowInv'
  <2> SUFFICES ASSUME NEW d \in Dirs PROVE FlowOf(d)'
    BY DEF FlowInv
  <2>0. Due(d, MayEnd(d)')
    BY FlowLater DEF FlowInv
  <2>1. /\ UNCHANGED <<gone, wire, held, sent, got>> /\ relay[r] = "connect"
        /\ relay'[r] = "relay" /\ pump'[r][d] = "run"
        /\ \A k \in Relays \ {r} : relay'[k] = relay[k] /\ pump'[k][d] = pump[k][d]
    <3>1. /\ UNCHANGED <<gone, wire, held, sent, got>> /\ relay[r] = "connect" /\ relay' = [relay EXCEPT ![r] = "relay"]
          /\ \A k \in Relays, e \in Dirs : pump'[k][e] = IF k = r THEN "run" ELSE pump[k][e]
      BY <1>5, ConnectedIs
    <3>2. relay'[r] = "relay" /\ \A k \in Relays \ {r} : relay'[k] = relay[k]
      BY <1>5, <3>1 DEF Types
    <3> QED
      BY <1>5, <3>1, <3>2
  <2>2. \A k \in Relays \ {r} : Doing(k, d)' = Doing(k, d)
    BY <2>1, SameDoing
  <2>3. Doing(r, d) = "wait" /\ Doing(r, d)' = "run"
    <3>1. Running(r, d)'
      BY <2>1 DEF Running
    <3> QED
      BY <1>5, <2>1, <3>1, DoingIs, DoingNext DEF Before
  <2> QED
    BY <1>5, <2>0, <2>1, <2>2, <2>3, TaskRuns DEF SameEnds, SameAt, SameOn, Reads
<1>6. ASSUME NEW r \in Relays, ConnectFails(r) PROVE FlowInv'
  <2> SUFFICES ASSUME NEW d \in Dirs PROVE FlowOf(d)'
    BY DEF FlowInv
  <2>0. Due(d, MayEnd(d)')
    BY FlowLater DEF FlowInv
  <2>1. /\ UNCHANGED <<pump, held, sent, got>> /\ relay[r] = "connect" /\ relay'[r] = "over"
        /\ \A k \in Relays \ {r} : relay'[k] = relay[k]
    BY <1>6 DEF ConnectFails, Types
  <2>2. \A k \in Relays \ {r} : Doing(k, d)' = Doing(k, d)
    BY <2>1, SameDoing
  <2>3. Doing(r, d)' = "over"
    BY <1>6, <2>1, DoingNext
  <2>4. Reads(d)' = Reads(d)
    <3>1. gone' = gone \/ \A l \in Links : gone'[l] = IF l = r THEN gone[l] \union {"client"} ELSE gone[l]
      BY <1>6, SlowIs DEF ConnectFails
    <3>2. 2 - EndOf(d) \in Links /\ ~(2 - EndOf(d) = r /\ Receiver(d) = "client")
      BY <1>6 DEF EndOf, Receiver, Dirs, Links, Relays
    <3> QED
      BY <3>1, <3>2 DEF Reads
  <2>5. CASE \A l \in Links : SameOn(l, d)
    BY <1>6, <2>0, <2>1, <2>2, <2>3, <2>4, <2>5, TaskStops DEF SameEnds, SameAt
  <2>6. CASE ~\A l \in Links : SameOn(l, d)
    <3>1. \A l \in Links : wire'[l][d] = IF l = r /\ d = "down" /\ "client" \notin gone[r] THEN Append(wire[l][d], Close) ELSE wire[l][d]
      BY <1>6, <2>6, SlowIs DEF ConnectFails, SameOn
    <3>2. d = "down" /\ Out(r, d) = r
      BY <2>6, <3>1 DEF SameOn, Out
    <3>3. wire'[Out(r, d)][d] = Append(wire[Out(r, d)][d], Close) /\ \A l \in Links \ {Out(r, d)} : SameOn(l, d)
      BY <1>6, <2>6, <3>1, <3>2, LinkRange DEF SameOn
    <3>4. sent[d] = 0 /\ Silent(d)'
      <4>1. (r = 1 \/ r = 2) /\ link' = [link EXCEPT ![r - 1] = "refused"]
        BY <1>6 DEF ConnectFails, Relays
      <4>2. CASE r = 1
        BY SMTT(30), <2>1, <3>2, <4>1, <4>2 DEF Opening, Types, Links, Silent
      <4>3. CASE r = 2
        BY SMTT(30), <2>1, <3>2, <4>1, <4>3 DEF Opening, Types, Links, Silent
      <4> QED
        BY <4>1, <4>2, <4>3
    <3>5. 0 \in MayEnd(d)'
      BY <2>1, <3>4 DEF MayEnd
    <3>6. Enough(r, d)
      BY <1>6, <3>4, <3>5, NoneEnough
    <3> QED
      BY <1>6, <2>0, <2>1, <2>2, <2>3, <2>4, <3>3, <3>6, TaskShuts DEF SameEnds, SameAt
  <2> QED
    BY <2>5, <2>6
<1>7. ASSUME NEW r \in Relays, Cancel(r) PROVE FlowInv'
  <2> SUFFICES ASSUME NEW d \in Dirs PROVE FlowOf(d)'
    BY DEF FlowInv
  <2>0. Due(d, MayEnd(d)')
    BY FlowLater DEF FlowInv
  <2>1. /\ UNCHANGED <<gone, wire, sent, got>> /\ relay[r] = "relay" /\ Ended(r)
        /\ relay'[r] = "close" /\ pump'[r][d] = "over" /\ held'[r][d] = Nothing
        /\ \A k \in Relays \ {r} : relay'[k] = relay[k] /\ pump'[k][d] = pump[k][d] /\ held'[k][d] = held[k][d]
    <3>1. /\ UNCHANGED <<gone, wire, sent, got>> /\ relay[r] = "relay" /\ Ended(r) /\ relay' = [relay EXCEPT ![r] = "close"]
          /\ \A k \in Relays, e \in Dirs : pump'[k][e] = IF k = r THEN "over" ELSE pump[k][e]
          /\ \A k \in Relays, e \in Dirs : held'[k][e] = IF k = r THEN Nothing ELSE held[k][e]
      BY <1>7, CancelIs
    <3>2. relay'[r] = "close" /\ \A k \in Relays \ {r} : relay'[k] = relay[k]
      BY <1>7, <3>1 DEF Types
    <3> QED
      BY <1>7, <3>1, <3>2
  <2>2. \A k \in Relays \ {r} : Doing(k, d)' = Doing(k, d)
    BY <2>1, SameDoing
  <2>3. Doing(r, d)' = "done"
    BY <1>7, <2>1, DoingNext DEF Running
  <2>4. Enough(r, d)
    <3>1. CASE ~Running(r, d)
      <4>1. Doing(r, d) = "done"
        BY <1>7, <2>1, <3>1, DoingIs
      <4> QED
        BY <1>7, <2>0, <4>1, DoneEnough
    <3>2. CASE Running(r, d)
      <4>1. pump[r][Opposite(d)] = "over"
        BY <2>1, <3>2, Opposites DEF Running, Ended
      <4> QED
        BY <1>7, <2>1, <4>1, ReasonEnough
    <3> QED
      BY <3>1, <3>2
  <2> QED
    BY <1>7, <2>0, <2>1, <2>2, <2>3, <2>4, TaskStops DEF SameEnds, SameAt, SameOn, Reads
<1>8. ASSUME NEW r \in Relays, CloseBoth(r) PROVE FlowInv'
  <2> SUFFICES ASSUME NEW d \in Dirs PROVE FlowOf(d)'
    BY DEF FlowInv
  <2>0. Due(d, MayEnd(d)')
    BY FlowLater DEF FlowInv
  <2>1. /\ UNCHANGED <<pump, held, sent, got>> /\ relay[r] = "close" /\ relay'[r] = "over"
        /\ \A k \in Relays \ {r} : relay'[k] = relay[k]
    BY <1>8 DEF CloseBoth, Types
  <2>2. \A k \in Relays \ {r} : Doing(k, d)' = Doing(k, d)
    BY <2>1, SameDoing
  <2>3. Doing(r, d)' = "over"
    BY <1>8, <2>1, DoingNext
  <2>4. Reads(d)' = Reads(d)
    <3>1. \A l \in Links : gone'[l] = gone[l] \union (IF l = r THEN {"client"} ELSE IF l = r - 1 THEN {"server"} ELSE {})
      BY <1>8, CloseBothIs
    <3>2. 2 - EndOf(d) \in Links /\ ~(2 - EndOf(d) = r /\ Receiver(d) = "client") /\ ~(2 - EndOf(d) = r - 1 /\ Receiver(d) = "server")
      BY <1>8 DEF EndOf, Receiver, Dirs, Links, Relays
    <3> QED
      BY <3>1, <3>2 DEF Reads
  <2>5. Enough(r, d)
    <3>1. Doing(r, d) = "done"
      BY <1>8, <2>1, DoingIs DEF Running
    <3> QED
      BY <1>8, <2>0, <3>1, DoneEnough
  <2>6. /\ Out(r, d) \in Links
        /\ \A l \in Links :
             wire'[l][d] = IF l = Out(r, d) /\ Sender(d) \notin gone[l] THEN Append(wire[l][d], Close) ELSE wire[l][d]
    BY <1>8, CloseBothIs, LinkRange
  <2>7. CASE Sender(d) \in gone[Out(r, d)]
    <3>1. \A l \in Links : SameOn(l, d)
      BY <2>6, <2>7 DEF SameOn
    <3> QED
      BY <1>8, <2>0, <2>1, <2>2, <2>3, <2>4, <2>5, <3>1, TaskStops DEF SameEnds, SameAt
  <2>8. CASE Sender(d) \notin gone[Out(r, d)]
    <3>1. wire'[Out(r, d)][d] = Append(wire[Out(r, d)][d], Close) /\ \A l \in Links \ {Out(r, d)} : SameOn(l, d)
      BY <2>6, <2>8 DEF SameOn
    <3> QED
      BY <1>8, <2>0, <2>1, <2>2, <2>4, <2>5, <3>1, TaskShuts DEF SameEnds, SameAt
  <2> QED
    BY <2>7, <2>8
<1>9. ASSUME NEW r \in Relays, NEW x \in Dirs, Receive(r, x) PROVE FlowInv'
  <2> SUFFICES ASSUME NEW d \in Dirs PROVE FlowOf(d)'
    BY DEF FlowInv
  <2>0. Due(d, MayEnd(d)')
    BY FlowLater DEF FlowInv
  <2>1. /\ UNCHANGED <<gone, relay, pump, sent, got>> /\ Running(r, x) /\ held[r][x] = Nothing
        /\ wire[In(r, x)][x] # <<>> /\ Head(wire[In(r, x)][x]) # Close
        /\ \A l \in Links, e \in Dirs :
             wire'[l][e] = IF l = In(r, x) /\ e = x THEN Tail(wire[In(r, x)][x]) ELSE wire[l][e]
        /\ \A k \in Relays, e \in Dirs :
             held'[k][e] = IF k = r /\ e = x THEN Head(wire[In(r, x)][x]) ELSE held[k][e]
    BY <1>9, ReceiveIs
  <2>2. \A k \in Relays : Doing(k, d)' = Doing(k, d)
    BY <2>1, SameDoing
  <2>3. CASE d # x
    BY <2>0, <2>1, <2>2, <2>3, FlowKeeps DEF SameEnds, SameAt, SameOn, Reads
  <2>4. CASE d = x
    <3>1. Doing(r, d) = "run" /\ In(r, d) \in Links
      BY <1>9, <2>1, <2>4, DoingIs, LinkRange
    <3>2. SameEnds(d) /\ (\A k \in Relays \ {r} : SameAt(k, d)) /\ \A l \in Links \ {In(r, d)} : SameOn(l, d)
      BY <2>1, <2>2, <2>4 DEF SameEnds, SameAt, SameOn, Reads
    <3>3. wire'[In(r, d)][d] = Tail(wire[In(r, d)][d]) /\ held'[r][d] = Head(wire[In(r, d)][d])
      BY <1>9, <2>1, <2>4, <3>1
    <3> QED
      BY <1>9, <2>0, <2>1, <2>2, <2>4, <3>1, <3>2, <3>3, TaskReads
  <2> QED
    BY <2>3, <2>4
<1>10. ASSUME NEW r \in Relays, NEW x \in Dirs, ReceiveEnds(r, x) PROVE FlowInv'
  <2> SUFFICES ASSUME NEW d \in Dirs PROVE FlowOf(d)'
    BY DEF FlowInv
  <2>0. Due(d, MayEnd(d)')
    BY FlowLater DEF FlowInv
  <2>1. /\ UNCHANGED <<wire, relay, held, sent, got>> /\ Running(r, x) /\ held[r][x] = Nothing
        /\ AtEnd(wire[In(r, x)][x]) \/ Receiver(x) \in gone[In(r, x)]
        /\ \A k \in Relays, e \in Dirs : pump'[k][e] = IF k = r /\ e = x THEN "over" ELSE pump[k][e]
        /\ \A l \in Links : gone'[l] = IF l = In(r, x) THEN gone[l] \union {Receiver(x)} ELSE gone[l]
    BY <1>10, ReceiveEndsIs
  <2>2. \A k \in Relays : (k # r \/ d # x) => Doing(k, d)' = Doing(k, d)
    BY <2>1, SameDoing
  <2>3. Reads(d)' = Reads(d)
    <3>1. 2 - EndOf(d) \in Links /\ ~(2 - EndOf(d) = In(r, x) /\ Receiver(d) = Receiver(x))
      BY <1>10, Places, WhoReads
    <3>2. gone'[2 - EndOf(d)] = gone[2 - EndOf(d)] \/ gone'[2 - EndOf(d)] = gone[2 - EndOf(d)] \union {Receiver(x)}
      BY <2>1, <3>1
    <3>3. Receiver(d) \in gone'[2 - EndOf(d)] <=> Receiver(d) \in gone[2 - EndOf(d)]
      BY <2>1, <3>1, <3>2
    <3> QED
      BY <3>3 DEF Reads
  <2>4. CASE d # x
    BY <2>0, <2>1, <2>2, <2>3, <2>4, FlowKeeps DEF SameEnds, SameAt, SameOn
  <2>5. CASE d = x
    <3>1. Doing(r, d) = "run" /\ Doing(r, d)' = "done"
      BY <1>10, <2>1, <2>5, DoingIs, DoingNext DEF Running
    <3>2. wire[In(r, d)][d] # <<>> /\ Head(wire[In(r, d)][d]) = Close
      BY <1>10, <2>1, <2>5 DEF AtEnd, Tasks
    <3>3. Enough(r, d)
      BY <1>10, <2>0, <2>1, <2>5, <3>1, <3>2, ReadEnough
    <3> QED
      BY <1>10, <2>0, <2>1, <2>2, <2>3, <3>1, <3>3, TaskStops DEF SameEnds, SameAt, SameOn
  <2> QED
    BY <2>4, <2>5
<1>11. ASSUME NEW r \in Relays, NEW x \in Dirs, PumpSend(r, x) PROVE FlowInv'
  <2> SUFFICES ASSUME NEW d \in Dirs PROVE FlowOf(d)'
    BY DEF FlowInv
  <2>0. Due(d, MayEnd(d)')
    BY FlowLater DEF FlowInv
  <2>1. UNCHANGED <<gone, relay, sent, got>> /\ Running(r, x) /\ held[r][x] # Nothing
    BY <1>11, PumpSendIs
  <2>2. \A k \in Relays, e \in Dirs : held'[k][e] = IF k = r /\ e = x THEN Nothing ELSE held[k][e]
    BY <1>11, PumpSendDoes
  <2>3. Doing(r, x) = "run"
    BY <1>11, <2>1, DoingIs
  <2>4. CASE /\ pump' = pump
             /\ \A l \in Links, e \in Dirs : wire'[l][e] =
                  IF l = Out(r, x) /\ e = x THEN Append(wire[l][e], held[r][x]) ELSE wire[l][e]
    <3>1. \A k \in Relays : Doing(k, d)' = Doing(k, d)
      BY <2>1, <2>4, SameDoing
    <3>2. CASE d # x
      BY <2>0, <2>1, <2>2, <2>4, <3>1, <3>2, FlowKeeps DEF SameEnds, SameAt, SameOn, Reads
    <3>3. CASE d = x
      <4>1. SameEnds(d) /\ (\A k \in Relays \ {r} : SameAt(k, d)) /\ \A l \in Links \ {Out(r, d)} : SameOn(l, d)
        BY <2>1, <2>2, <2>4, <3>1, <3>3 DEF SameEnds, SameAt, SameOn, Reads
      <4>2. wire'[Out(r, d)][d] = Append(wire[Out(r, d)][d], held[r][d]) /\ held'[r][d] = Nothing
        BY <1>11, <2>2, <2>4, <3>3, LinkRange
      <4> QED
        BY <1>11, <2>0, <2>1, <2>3, <3>1, <3>3, <4>1, <4>2, TaskSends
    <3> QED
      BY <3>2, <3>3
  <2>5. CASE /\ MayBeClosed(Out(r, x), Sender(x), x) /\ wire' = wire
             /\ \A k \in Relays, e \in Dirs : pump'[k][e] = IF k = r /\ e = x THEN "over" ELSE pump[k][e]
    <3>1. \A k \in Relays : (k # r \/ d # x) => Doing(k, d)' = Doing(k, d)
      BY <2>1, <2>5, SameDoing
    <3>2. CASE d # x
      BY <2>0, <2>1, <2>2, <2>5, <3>1, <3>2, FlowKeeps DEF SameEnds, SameAt, SameOn, Reads
    <3>3. CASE d = x
      <4>1. Doing(r, d)' = "done"
        BY <1>11, <2>1, <2>5, <3>3, DoingNext DEF Running
      <4>2. Sender(d) \in gone[Out(r, d)] \/ wire[Out(r, d)][Opposite(d)] # <<>>
        BY <2>5, <3>3, NoneContained DEF MayBeClosed, Opposite
      <4>3. Enough(r, d)
        BY <1>11, <2>1, <4>2, ReasonEnough DEF Running
      <4> QED
        BY <1>11, <2>0, <2>1, <2>2, <2>5, <3>1, <3>3, <4>1, <4>3, TaskStops DEF SameEnds, SameAt, SameOn, Reads
    <3> QED
      BY <3>2, <3>3
  <2> QED
    BY <1>11, <2>4, <2>5, PumpSendDoes
<1>12. ASSUME NEW x \in Dirs, Speak(x) PROVE FlowInv'
  <2> SUFFICES ASSUME NEW d \in Dirs PROVE FlowOf(d)'
    BY DEF FlowInv
  <2>0. Due(d, MayEnd(d)')
    BY FlowLater DEF FlowInv
  <2>1. /\ UNCHANGED <<gone, relay, pump, held, got>>
        /\ \A e \in Dirs : sent'[e] = IF e = x THEN sent[e] + 1 ELSE sent[e]
        /\ \A l \in Links, e \in Dirs : wire'[l][e] =
             IF l = EndOf(x) /\ e = x THEN Append(wire[l][e], sent[x] + 1) ELSE wire[l][e]
    BY <1>12, SpeakIs
  <2>2. \A k \in Relays : SameAt(k, d)
    BY <2>1, SameDoing DEF SameAt
  <2>3. CASE d # x
    BY <2>0, <2>1, <2>2, <2>3, FlowKeeps DEF SameEnds, SameOn, Reads
  <2>4. CASE d = x
    <3>1. SameOn(2 - EndOf(d), d) /\ SameOn(1, d) /\ wire'[EndOf(d)][d] = Append(wire[EndOf(d)][d], sent[d] + 1)
      BY <2>1, <2>4, Places DEF SameOn
    <3>2. got'[d] = got[d] /\ Reads(d)' = Reads(d) /\ sent'[d] = sent[d] + 1
      BY <2>1, <2>4 DEF Reads
    <3> QED
      BY <2>0, <2>2, <3>1, <3>2, EndSpeaks
  <2> QED
    BY <2>3, <2>4
<1>13. ASSUME NEW x \in Dirs, Listen(x) PROVE FlowInv'
  <2> SUFFICES ASSUME NEW d \in Dirs PROVE FlowOf(d)'
    BY DEF FlowInv
  <2>0. Due(d, MayEnd(d)')
    BY FlowLater DEF FlowInv
  <2>1. /\ UNCHANGED <<relay, pump, held, sent>> /\ Receiver(x) \notin gone[2 - EndOf(x)] /\ wire[2 - EndOf(x)][x] # <<>>
        /\ \A l \in Links, e \in Dirs : wire'[l][e] = IF l = 2 - EndOf(x) /\ e = x THEN Tail(wire[2 - EndOf(x)][x]) ELSE wire[l][e]
    BY <1>13, ListenDoes
  <2>2. \A k \in Relays : SameAt(k, d)
    BY <2>1, SameDoing DEF SameAt
  <2>3. \/ /\ Head(wire[2 - EndOf(x)][x]) = Close /\ got' = got
           /\ \A k \in Links : gone'[k] = IF k = 2 - EndOf(x) THEN gone[k] \union {Receiver(x)} ELSE gone[k]
        \/ /\ Head(wire[2 - EndOf(x)][x]) # Close /\ gone' = gone
           /\ \A e \in Dirs : got'[e] = IF e = x THEN Append(got[e], Head(wire[2 - EndOf(x)][x])) ELSE got[e]
    BY <1>13, ListenDoes
  <2>4. CASE d # x
    <3>1. Reads(d)' = Reads(d)
      <4>1. 2 - EndOf(d) \in Links /\ 2 - EndOf(d) # 2 - EndOf(x)
        BY <2>4 DEF EndOf, Dirs, Links
      <4> QED
        BY <2>3, <4>1 DEF Reads
    <3>2. got'[d] = got[d]
      BY <2>3, <2>4
    <3> QED
      BY <2>0, <2>1, <2>2, <2>4, <3>1, <3>2, FlowKeeps DEF SameEnds, SameOn
  <2>5. CASE d = x
    <3>1. /\ SameOn(1, d) /\ SameOn(EndOf(d), d) /\ 2 - EndOf(d) \in Links
          /\ wire'[2 - EndOf(d)][d] = Tail(wire[2 - EndOf(d)][d])
      BY <2>1, <2>5, Places DEF SameOn
    <3>2. Reads(d) /\ sent'[d] = sent[d]
      BY <2>1, <2>5 DEF Reads
    <3>3. CASE Head(wire[2 - EndOf(d)][d]) = Close
      <4>1. got'[d] = got[d] /\ Reads(d)' = FALSE
        BY <2>3, <2>5, <3>1, <3>3 DEF Reads
      <4>2. Len(got[d]) \in MayEnd(d)'
        BY <2>0, <2>1, <2>5, <3>2, <3>3, FlowTypes, HearClose DEF Due
      <4> QED
        BY <2>0, <2>2, <3>1, <3>2, <4>1, <4>2, EndDeaf
    <3>4. CASE Head(wire[2 - EndOf(d)][d]) # Close
      <4>1. Reads(d)' /\ got'[d] = Append(got[d], Head(wire[2 - EndOf(d)][d]))
        BY <2>1, <2>3, <2>5, <3>4 DEF Reads
      <4>2. Head(wire[2 - EndOf(d)][d]) \in Nat /\ got[d] \in Seq(Nat)
        BY <2>1, <2>5, FlowTypes, Tails
      <4>3. Len(got'[d]) = Len(got[d]) + 1
        BY <4>1, <4>2, Appends
      <4> QED
        BY <2>0, <2>1, <2>2, <2>5, <3>1, <3>2, <3>4, <4>1, <4>3, EndHears
    <3> QED
      BY <3>3, <3>4
  <2> QED
    BY <2>4, <2>5
<1>14. ASSUME NEW x \in Dirs, Leave(x) PROVE FlowInv'
  <2> SUFFICES ASSUME NEW d \in Dirs PROVE FlowOf(d)'
    BY DEF FlowInv
  <2>0. Due(d, MayEnd(d)')
    BY FlowLater DEF FlowInv
  <2>1. UNCHANGED <<relay, pump, held, sent, got>> /\ x \in quit'
    BY <1>14 DEF Leave
  <2>2. \A k \in Relays : SameAt(k, d)
    BY <2>1, SameDoing DEF SameAt
  <2>3. /\ \A l \in Links : gone'[l] = IF l = EndOf(x) THEN gone[l] \union {Sender(x)} ELSE gone[l]
        /\ \A l \in Links, e \in Dirs :
             wire'[l][e] = IF l = EndOf(x) /\ e = x THEN Append(wire[l][e], Close) ELSE wire[l][e]
    BY <1>14, LeaveIs
  <2>4. CASE d = x
    <3>1. SameOn(2 - EndOf(d), d) /\ SameOn(1, d) /\ wire'[EndOf(d)][d] = Append(wire[EndOf(d)][d], Close)
      BY <2>3, <2>4, Places DEF SameOn
    <3>2. SameEnds(d)
      BY <2>1, <2>3, <2>4, Places DEF SameEnds, Reads
    <3>3. Silent(d)'
      BY <2>3, <2>4, Places DEF Silent
    <3>4. sent[d] \in MayEnd(d)'
      BY <2>1, <3>3, FlowTypes DEF MayEnd
    <3> QED
      BY <2>0, <2>2, <3>1, <3>2, <3>4, EndLeaves
  <2>5. CASE d # x
    <3>1. x = Opposite(d) /\ EndOf(x) = 2 - EndOf(d) /\ Sender(x) = Receiver(d) /\ 2 - EndOf(d) \in Links
      BY <2>5, Opposites, Places
    <3>2. Reads(d)' = FALSE
      BY <2>3, <3>1 DEF Reads
    <3>3. SameOn(1, d) /\ SameOn(EndOf(d), d) /\ got'[d] = got[d] /\ sent'[d] = sent[d]
      BY <2>1, <2>3, <2>5, Places DEF SameOn
    <3>4. ~Listens(d)'
      BY <2>1, <3>1, Opposites DEF Listens
    <3>5. Len(got[d]) \in MayEnd(d)'
      BY <3>4, FlowTypes DEF MayEnd
    <3> QED
      BY <2>0, <2>2, <3>2, <3>3, <3>5, EndDeaf
  <2> QED
    BY <2>4, <2>5
<1>15. ASSUME NEW l \in Links, Cut(l) PROVE FlowInv'
  <2> SUFFICES ASSUME NEW d \in Dirs PROVE FlowOf(d)'
    BY DEF FlowInv
  <2>0. Due(d, MayEnd(d)')
    BY FlowLater DEF FlowInv
  <2>1. UNCHANGED <<gone, relay, pump, held, sent, got>> /\ "cut" \in quit'
    BY <1>15 DEF Cut
  <2>2. (\A k \in Relays : SameAt(k, d)) /\ SameEnds(d)
    BY <2>1, SameDoing DEF SameAt, SameEnds, Reads
  <2>3. \A k \in Links \ {l} : SameOn(k, d)
    BY <1>15, CutIs DEF SameOn
  <2>4. PICK n \in 0..Len(wire[l][d]) : wire'[l][d] = Append(SubSeq(wire[l][d], 1, n), Close)
    BY <1>15, CutIs
  <2>5. MayEnd(d)' = Nat
    BY <2>1 DEF MayEnd, Listens
  <2>6. CASE l = 2 - EndOf(d)
    BY <2>0, <2>2, <2>3, <2>4, <2>5, <2>6, Places, FarBreaks
  <2>7. CASE l = 1
    BY <2>0, <2>2, <2>3, <2>4, <2>5, <2>7, Places, MiddleBreaks
  <2>8. CASE l = EndOf(d)
    BY <2>0, <2>2, <2>3, <2>4, <2>5, <2>8, Places, SourceBreaks
  <2> QED
    BY <1>15, <2>6, <2>7, <2>8, Places
<1>16. ASSUME UNCHANGED vars PROVE FlowInv'
  <2> SUFFICES ASSUME NEW d \in Dirs PROVE FlowOf(d)'
    BY DEF FlowInv
  <2>0. Due(d, MayEnd(d)')
    BY FlowLater DEF FlowInv
  <2>1. UNCHANGED <<gone, wire, pump, held, sent, got>>
    BY <1>16 DEF vars
  <2>2. \A k \in Relays : Doing(k, d)' = Doing(k, d)
    BY SMTT(30), <1>16 DEF Doing, Running, vars, Types
  <2> QED
    BY <2>0, <2>1, <2>2, FlowKeeps DEF SameEnds, SameAt, SameOn, Reads
<1> QED
  BY <1>1, <1>2, <1>3, <1>4, <1>5, <1>6, <1>7, <1>8, <1>9, <1>10, <1>11, <1>12, <1>13, <1>14, <1>15, <1>16 DEF Next, Serve, Pump

-----------------------------------------------------------------------------
(* The theorems *)

LEMMA RelayInit == Init => RelayInv
<1> SUFFICES ASSUME Init PROVE RelayInv
  OBVIOUS
<1>1. Types
  BY RelayAssumption DEF Init, Types, Before, Nothing
<1>2. Opening
  BY DEF Init, Opening, Relays, Links, Before, Dirs
<1>3. Tasks
  BY LinkRange DEF Init, Tasks, Nothing
<1>4. Frames
  <2>1. Sound(<<>>, 0) /\ Counted(<<>>) /\ Len(<<>>) = 0
    BY DEF Sound, Counted
  <2> QED
    BY <2>1 DEF Init, Frames, Nothing
<1>5. Calm
  <2> SUFFICES ASSUME NEW d \in Dirs PROVE CalmOf(d)
    BY DEF Calm
  <2> QED
    BY Places, Opposites DEF Init, CalmOf
<1>6. FlowInv
  <2> SUFFICES ASSUME NEW d \in Dirs PROVE FlowOf(d)
    BY DEF FlowInv
  <2>1. /\ \A n, last : Follows(<<>>, n) /\ Ends(<<>>, n, last)
        /\ Bare(<<>>) /\ Len(<<>>) = 0
    BY DEF Follows, Ends, Bare
  <2>2. \A c, last : Piece(c, 0, <<>>, "wait", Nothing, last) /\ Source(c, 0, <<>>, 0, last)
    BY <2>1 DEF Piece, Source
  <2>3. Base(0, <<>>, Nothing) = 0
    BY <2>1 DEF Base
  <2>4. Reads(d) = TRUE
    BY Places DEF Init, Reads
  <2>5. Flow(0, TRUE, <<>>, "wait", Nothing, <<>>, "wait", Nothing, <<>>, 0, MayEnd(d))
    BY <2>2, <2>3 DEF Flow
  <2>6. \A r \in Relays : Doing(r, d) = "wait"
    BY <1>1, DoingIs DEF Init, Before
  <2>7. /\ Len(got[d]) = 0 /\ sent[d] = 0 /\ (\A l \in Links : wire[l][d] = <<>>)
        /\ \A r \in Relays : held[r][d] = Nothing
    BY <2>1 DEF Init
  <2> QED
    BY <2>4, <2>5, <2>6, <2>7, Places DEF FlowOf
<1> QED
  BY <1>1, <1>2, <1>3, <1>4, <1>5, <1>6 DEF RelayInv

LEMMA RelayStep == RelayInv /\ [Next]_vars => RelayInv'
<1> SUFFICES ASSUME RelayInv, [Next]_vars PROVE RelayInv'
  OBVIOUS
<1>1. Types /\ Opening /\ Tasks /\ Frames /\ Calm /\ FlowInv
  BY DEF RelayInv
<1>2. Types' /\ Opening' /\ Tasks' /\ Frames' /\ Grows
  BY <1>1, TypesStep, OpeningStep, TasksStep, FramesStep, GrowsStep
<1>3. Calm' /\ FlowInv'
  BY <1>1, <1>2, CalmStep, FlowStep
<1> QED
  BY <1>2, <1>3 DEF RelayInv

\* The inductive invariant: how far the opening has come, what the tasks may hold, that every
\* frame was sent, that an end which only listens disturbs nobody, and each direction's pieces.
THEOREM RelayInvariant == Spec => []RelayInv
BY RelayInit, RelayStep, PTL DEF Spec

\* Whatever is refused, closed or cut and however often: an end has got what the other has
\* sent, from the first frame on, without a gap and nothing twice (proxy_websocket's two
\* tasks, in the control plane and in the worker).
THEOREM FramesStayInOrder == Spec => []FramesInOrder
<1>1. RelayInv => FramesInOrder
  BY DEF RelayInv, Frames, Counted, FramesInOrder
<1> QED
  BY <1>1, RelayInvariant, PTL

\* An end that has said nothing, stays until it is told and finds the connection closed has
\* got every frame: no relay closes in front of a frame that it still had to send on.
THEOREM CloseComesLast == Spec => []CloseIsTheEnd
<1>1. RelayInv => CloseIsTheEnd
  <2> SUFFICES ASSUME RelayInv, NEW d \in Dirs, Listens(d), Receiver(d) \in gone[2 - EndOf(d)]
               PROVE  Len(got[d]) = sent[d]
    BY DEF CloseIsTheEnd
  <2>1. Reads(d) = FALSE
    BY DEF Reads
  <2>2. FlowOf(d)
    BY DEF RelayInv, FlowInv
  <2>3. ~Reads(d) => Len(got[d]) \in MayEnd(d)
    BY <2>2 DEF FlowOf, Flow
  <2> QED
    BY <2>1, <2>3 DEF MayEnd
<1> QED
  BY <1>1, RelayInvariant, PTL

\* What the run checks of a WebSocket, for every load.
THEOREM FramesAreDelivered == Spec => []Delivered
<1>1. FramesInOrder /\ CloseIsTheEnd => Delivered
  BY DEF Delivered
<1> QED
  BY <1>1, FramesStayInOrder, CloseComesLast, PTL
=============================================================================
