-------------------------------- MODULE Relay --------------------------------
(***************************************************************************)
(* A WebSocket from a browser to a port of a sandbox.  It is relayed twice,  *)
(* by the control plane (api/routes/proxy.py) and by the worker              *)
(* (worker/app.py), with the same code (utils/proxy.py, proxy_websocket):    *)
(* connect upstream, accept, one task per direction, and when the first of   *)
(* the two is over cancel both and close both connections.                   *)
(* Relay r takes what comes on Link r - 1 and has opened Link r.             *)
(***************************************************************************)
EXTENDS Naturals, Sequences, SequencesExt

CONSTANTS Loads    \* frames each end sends, refusals, time-outs and cuts, one of these

Relays == 1..2
Links == 0..2
Dirs == {"down", "up"}       \* to the sandbox, to the browser
Sides == {"client", "server"}

ASSUME RelayAssumption ==
  Loads \subseteq [down : Nat, up : Nat, refuses : Nat, slow : Nat, cuts : Nat]

VARIABLES
  link,     \* none, asked, open, refused
  gone,     \* the sides of each link that have closed it or have noticed that it is closed
  wire,     \* what is under way on each link, in each direction
  relay,    \* check, connect, relay, close, over
  pump,     \* the two tasks of each relay: run, over
  held,     \* the frame a task has received and not yet sent on
  sent, got,
  quit,     \* the directions whose sender has left by itself; "cut" once a connection broke
  left

vars == <<link, gone, wire, relay, pump, held, sent, got, quit, left>>

Close == 0     \* the close frame, after everything its side has sent
Nothing == 0
Take(what) == left[what] > 0 /\ left' = [left EXCEPT ![what] = @ - 1]

In(r, d) == IF d = "down" THEN r - 1 ELSE r
Out(r, d) == IF d = "down" THEN r ELSE r - 1
\* The side of a link that receives what goes in a direction.
Receiver(d) == IF d = "down" THEN "server" ELSE "client"
Sender(d) == IF d = "down" THEN "client" ELSE "server"

\* A side closes a link: nothing more is read there, and the other side is told after what
\* it has been sent.  A link that is not open yet is only left.
Way(side) == IF side = "client" THEN "down" ELSE "up"
Closes(g, side, ls) == [l \in Links |-> IF l \in ls THEN g[l] \union {side} ELSE g[l]]
Told(w, side, ls) ==
  [l \in Links |-> IF l \in ls /\ side \notin gone[l] THEN [w[l] EXCEPT ![Way(side)] = Append(@, Close)] ELSE w[l]]

-----------------------------------------------------------------------------
(* Opening *)

\* The browser opens the signed URL.
Open ==
  /\ link[0] = "none" /\ link' = [link EXCEPT ![0] = "asked"] /\ relay' = [relay EXCEPT ![1] = "check"]
  /\ UNCHANGED <<gone, wire, pump, held, sent, got, left, quit>>

\* ws_proxy: the token, the sandbox and its address are fine, or the socket is closed.
Check(r) ==
  /\ relay[r] = "check" /\ link' = [link EXCEPT ![r] = "asked"]
  /\ relay' = [k \in Relays |-> IF k = r THEN "connect" ELSE IF k = r + 1 THEN "check" ELSE relay[k]]
  /\ UNCHANGED <<gone, wire, pump, held, sent, got, quit, left>>
\* A token that is malformed, forged, expired or another's; a sandbox that does not run.
Refuse(r) ==
  /\ relay[r] = "check" /\ Take("refuses")
  /\ link' = [link EXCEPT ![r - 1] = "refused"] /\ relay' = [relay EXCEPT ![r] = "over"]
  /\ UNCHANGED <<gone, wire, pump, held, sent, got, quit>>

\* The program in the sandbox.
ServerAnswers ==
  /\ link[2] = "asked"
  /\ \/ link' = [link EXCEPT ![2] = "open"] /\ UNCHANGED left
     \/ Take("refuses") /\ link' = [link EXCEPT ![2] = "refused"]
  /\ UNCHANGED <<gone, wire, relay, pump, held, sent, got, quit>>

\* connect, accept.  A client that has left in the meantime is noticed by the task that
\* reads from it.
Connected(r) ==
  /\ relay[r] = "connect" /\ link[r] = "open"
  /\ link' = [link EXCEPT ![r - 1] = "open"] /\ relay' = [relay EXCEPT ![r] = "relay"]
  /\ pump' = [pump EXCEPT ![r] = [d \in Dirs |-> "run"]]
  /\ UNCHANGED <<gone, wire, held, sent, got, left, quit>>

\* Refused, or not open after ten seconds: close the client's socket.
ConnectFails(r) ==
  /\ relay[r] = "connect"
  /\ \/ link[r] = "refused" /\ UNCHANGED <<gone, wire, left>>
     \/ /\ link[r] = "asked" /\ Take("slow")
        /\ gone' = Closes(gone, "client", {r}) /\ wire' = Told(wire, "client", {r})
  /\ link' = [link EXCEPT ![r - 1] = "refused"] /\ relay' = [relay EXCEPT ![r] = "over"]
  /\ UNCHANGED <<pump, held, sent, got, quit>>

-----------------------------------------------------------------------------
(* Relaying *)

Running(r, d) == relay[r] = "relay" /\ pump[r][d] = "run"

\* A frame is sent on before the next is read.
Ready(r, d) == Running(r, d) /\ held[r][d] = Nothing

Receive(r, d) ==
  /\ Ready(r, d)
  /\ wire[In(r, d)][d] # <<>> /\ Head(wire[In(r, d)][d]) # Close
  /\ held' = [held EXCEPT ![r][d] = Head(wire[In(r, d)][d])]
  /\ wire' = [wire EXCEPT ![In(r, d)][d] = Tail(@)]
  /\ UNCHANGED <<link, gone, relay, pump, sent, got, left, quit>>

\* The task is over once it has read everything up to the close frame.
\* Mutant: as soon as the connection is known to be closed.
MutAtEnd(q) == Contains(q, Close)
AtEnd(q) == q # <<>> /\ Head(q) = Close
ReceiveEnds(r, d) ==
  /\ Ready(r, d)
  /\ \/ AtEnd(wire[In(r, d)][d]) \/ Receiver(d) \in gone[In(r, d)]
  /\ pump' = [pump EXCEPT ![r][d] = "over"]
  /\ gone' = Closes(gone, Receiver(d), {In(r, d)})
  /\ UNCHANGED <<link, wire, relay, held, sent, got, left, quit>>

\* The other side has closed, and this one may know it: send raises and the task is over.
MayBeClosed(l, side, d) == side \in gone[l] \/ Contains(wire[l][IF d = "down" THEN "up" ELSE "down"], Close)
PumpSend(r, d) ==
  LET l == Out(r, d)  f == held[r][d] IN
  /\ Running(r, d) /\ f # Nothing
  /\ held' = [held EXCEPT ![r][d] = Nothing]
  /\ \/ /\ Sender(d) \notin gone[l]
        /\ wire' = [wire EXCEPT ![l][d] = Append(@, f)] /\ UNCHANGED pump
     \/ MayBeClosed(l, Sender(d), d) /\ pump' = [pump EXCEPT ![r][d] = "over"] /\ UNCHANGED wire
  /\ UNCHANGED <<link, gone, relay, sent, got, left, quit>>

\* asyncio.wait(FIRST_COMPLETED), cancel.  Mutant: ALL_COMPLETED.
MutEnded(r) == \A d \in Dirs : pump[r][d] = "over"
Ended(r) == \E d \in Dirs : pump[r][d] = "over"
Cancel(r) ==
  /\ relay[r] = "relay" /\ Ended(r)
  /\ relay' = [relay EXCEPT ![r] = "close"]
  /\ pump' = [pump EXCEPT ![r] = [d \in Dirs |-> "over"]] /\ held' = [held EXCEPT ![r] = [d \in Dirs |-> Nothing]]
  /\ UNCHANGED <<link, gone, wire, sent, got, left, quit>>

\* upstream.close(), client_ws.close().
CloseBoth(r) ==
  /\ relay[r] = "close" /\ relay' = [relay EXCEPT ![r] = "over"]
  /\ gone' = Closes(Closes(gone, "client", {r}), "server", {r - 1})
  /\ wire' = Told(Told(wire, "client", {r}), "server", {r - 1})
  /\ UNCHANGED <<link, pump, held, sent, got, left, quit>>

-----------------------------------------------------------------------------
(* The ends: the browser on Link 0, the program on Link 2 *)

EndOf(d) == IF d = "down" THEN 0 ELSE 2        \* the link on which a direction starts
Present(d) == link[EndOf(d)] = "open" /\ Sender(d) \notin gone[EndOf(d)]
Speak(d) ==
  /\ Present(d) /\ sent[d] < left[d] /\ sent' = [sent EXCEPT ![d] = @ + 1]
  /\ wire' = [wire EXCEPT ![EndOf(d)][d] = Append(@, sent[d] + 1)]
  /\ UNCHANGED <<link, gone, relay, pump, held, got, left, quit>>
Listen(d) ==
  LET l == 2 - EndOf(d)  q == wire[l][d] IN
  /\ Receiver(d) \notin gone[l] /\ q # <<>>
  /\ IF Head(q) = Close THEN gone' = Closes(gone, Receiver(d), {l}) /\ UNCHANGED got
     ELSE got' = [got EXCEPT ![d] = Append(@, Head(q))] /\ UNCHANGED gone
  /\ wire' = [wire EXCEPT ![l][d] = Tail(@)]
  /\ UNCHANGED <<link, relay, pump, held, sent, left, quit>>

\* An end leaves; the browser may do so before the socket is open.
Leave(d) ==
  LET l == EndOf(d) IN
  /\ link[l] = "open" \/ (d = "down" /\ link[l] = "asked")
  /\ Sender(d) \notin gone[l] /\ quit' = quit \union {d}
  /\ gone' = Closes(gone, Sender(d), {l}) /\ wire' = Told(wire, Sender(d), {l})
  /\ UNCHANGED <<link, relay, pump, held, sent, got, left>>

\* A connection breaks (the tunnel, the sandbox): some of what is under way is lost, and
\* both sides find it closed.
Cut(l) ==
  /\ link[l] = "open" /\ gone[l] = {} /\ Take("cuts") /\ quit' = quit \union {"cut"}
  /\ \E down \in 0..Len(wire[l]["down"]), up \in 0..Len(wire[l]["up"]) :
       LET kept == [d \in Dirs |-> IF d = "down" THEN down ELSE up]
       IN wire' = [wire EXCEPT ![l] = [d \in Dirs |-> Append(SubSeq(wire[l][d], 1, kept[d]), Close)]]
  /\ UNCHANGED <<link, gone, relay, pump, held, sent, got>>

-----------------------------------------------------------------------------

Init ==
  /\ link = [l \in Links |-> "none"] /\ gone = [l \in Links |-> {}]
  /\ wire = [l \in Links |-> [d \in Dirs |-> <<>>]]
  /\ relay = [r \in Relays |-> "idle"] /\ pump = [r \in Relays |-> [d \in Dirs |-> "over"]]
  /\ held = [r \in Relays |-> [d \in Dirs |-> Nothing]]
  /\ sent = [d \in Dirs |-> 0] /\ got = [d \in Dirs |-> <<>>] /\ quit = {} /\ left \in Loads

Serve(r) ==
  \/ Check(r) \/ Refuse(r) \/ Connected(r) \/ ConnectFails(r) \/ Cancel(r) \/ CloseBoth(r)
Pump(r, d) == Receive(r, d) \/ ReceiveEnds(r, d) \/ PumpSend(r, d)

Next ==
  \/ Open \/ ServerAnswers
  \/ \E r \in Relays : Serve(r) \/ \E d \in Dirs : Pump(r, d)
  \/ \E d \in Dirs : Speak(d) \/ Listen(d) \/ Leave(d)
  \/ \E l \in Links : Cut(l)

Spec == Init /\ [][Next]_vars

\* The tasks run and the ends read; nobody has to speak, to leave or to fail.
Fairness ==
  /\ WF_vars(ServerAnswers)
  /\ \A r \in Relays : WF_vars(Serve(r)) /\ \A d \in Dirs : WF_vars(Pump(r, d))
  /\ \A d \in Dirs : WF_vars(Listen(d))
FairSpec == Spec /\ Fairness

-----------------------------------------------------------------------------
(* Properties *)

\* Whatever is refused, closed or cut: what has arrived at an end is what the other has
\* sent, from the first frame on, none missing in between, none twice (one task per
\* direction, which sends a frame on before it reads the next and is not resumed after a
\* frame it could not send).
FramesInOrder ==
  \A d \in Dirs : got[d] = [i \in 1..Len(got[d]) |-> i] /\ Len(got[d]) <= sent[d]

\* The end that a direction leads to has stayed and said nothing itself, and nothing broke.
Listens(d) == LET o == Way(Receiver(d)) IN sent[o] = 0 /\ quit \intersect {o, "cut"} = {}

\* An end that only listens and finds the connection closed has got all that the other
\* has sent: neither relay closes before what it still had to read has been sent on.
CloseIsTheEnd ==
  \A d \in Dirs :
    (Listens(d) /\ Receiver(d) \in gone[2 - EndOf(d)]) => Len(got[d]) = sent[d]

\* Both: what has arrived is a beginning of what was sent, and all of it where a listener
\* finds the connection closed.  With RelayEnds, the last frames before a close arrive: the
\* task that reads the closing side reads on to the close frame before the relay cancels
\* the other (proxy_websocket), twice on the way.
Delivered == FramesInOrder /\ CloseIsTheEnd

Left(side) == side \in gone[IF side = "client" THEN 0 ELSE 2]
Broken == \/ \E l \in Links : gone[l] # {} \/ link[l] = "refused"
          \/ \E l \in Links : \E d \in Dirs : Contains(wire[l][d], Close)
AllOver == /\ \A r \in Relays : relay[r] \in {"idle", "over"}
           /\ link[0] # "open" \/ Left("client")
           /\ link[2] # "open" \/ Left("server")

\* When the browser or the program leaves, is refused or is cut off, nothing stays: both
\* relays end and both ends learn it (proxy_websocket's finally).
RelayEnds == Broken ~> AllOver
=============================================================================
