--------------------------- MODULE CommandPromise ---------------------------
(***************************************************************************)
(* What the command manager of a worker promises of one command, whoever    *)
(* drives, kills or watches it: a numbered stream of events whose last one  *)
(* is the end, one outcome that never changes, a bounded memory of the      *)
(* latest events, and readers that go forward through it.                   *)
(***************************************************************************)
EXTENDS Naturals

CONSTANT Subs
VARIABLES
  outcome,   \* <<>>, or the final status and exit code
  emitted,   \* events so far: they have the numbers 0..(emitted - 1)
  oldest,    \* the first event that is still remembered
  reader     \* of each subscriber: whether it has come, the number it expects next

pvars == <<outcome, emitted, oldest, reader>>

Outcomes == {<<"EXITED", 0>>, <<"EXITED", 255>>, <<"KILLED", 137>>, <<"TIMED_OUT", 137>>, <<"FAILED", 0>>}

Begin == outcome = <<>> /\ emitted = 0 /\ oldest = 0 /\ reader = [s \in Subs |-> [on |-> FALSE, next |-> 0]]

\* One more event; some of the oldest may be forgotten, the newest never is.
Grow == outcome = <<>> /\ emitted' = emitted + 1 /\ oldest' \in oldest..emitted
Emit == Grow /\ UNCHANGED <<outcome, reader>>
End == Grow /\ outcome' \in Outcomes /\ UNCHANGED reader

Come(s) == ~reader[s].on /\ reader' = [reader EXCEPT ![s].on = TRUE] /\ UNCHANGED <<outcome, emitted, oldest>>

\* The next event, or the first after it that has not been forgotten.
Read(s) ==
  /\ reader[s].on /\ UNCHANGED <<outcome, emitted, oldest>>
  /\ \E n \in reader[s].next..(emitted - 1) :
       n <= (IF oldest > reader[s].next THEN oldest ELSE reader[s].next)
       /\ reader' = [reader EXCEPT ![s].next = n + 1]

Step == Emit \/ End \/ \E s \in Subs : Come(s) \/ Read(s)

\* A reader of a command that has ended comes to its last event.
ReadersEnd == \A s \in Subs : (outcome # <<>> /\ reader[s].on) ~> reader[s].next = emitted

\* What may happen, and what must.
SafePromise == Begin /\ [][Step]_pvars
Promise == SafePromise /\ ReadersEnd
=============================================================================
