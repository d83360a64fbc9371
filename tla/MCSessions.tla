----------------------------- MODULE MCSessions -----------------------------
(* Sessions with the loads its runs explore. *)
EXTENDS Sessions

Calm == [fresh |-> FALSE, crashes |-> {}, stops |-> {}, slow |-> {}, weeks |-> 0, fails |-> 0, late |-> {}, reuses |-> 0]
\* On a database that an earlier control plane has left: a daemon that crashes anywhere;
\* one that crashes early and whose pid file is cleared, perhaps once the pid is another program's;
\* a stop of a daemon that serves; one of a daemon that starts, SIGKILL included; a start
\* that takes longer than the caller waits.  On a new one: a sandbox that fails and is
\* forgotten.
CrashLoad == [Calm EXCEPT !.crashes = {"boot", "open", "recover", "bind", "serve", "exit"}]
TroubleLoads ==
  {CrashLoad,
   [Calm EXCEPT !.crashes = {"open"}, !.stops = {"dead", "ghost"}, !.reuses = 1],
   [Calm EXCEPT !.stops = {"serve"}],
   [Calm EXCEPT !.stops = {"dead", "bind"}, !.slow = {"bind"}],
   [Calm EXCEPT !.late = {"open"}],
   [Calm EXCEPT !.fresh = TRUE, !.weeks = 1, !.fails = 1]}
CrashLoads == {CrashLoad}
=============================================================================
