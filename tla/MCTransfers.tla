----------------------------- MODULE MCTransfers -----------------------------
(* Transfers with the loads its run explores. *)
EXTENDS Transfers

Plain(kind) == [kind |-> kind, n |-> 2, limit |-> 3, tar |-> TRUE, made |-> TRUE, fails |-> 0, cuts |-> 0, slow |-> 0]
\* Each kind with a connection that breaks and, but for a directory, a tar process that
\* fails; images without tar; content over the limit; an upload to a new directory.
MixedLoads ==
  {[Plain(kind) EXCEPT !.fails = 1, !.cuts = 1] : kind \in Kinds \ {"dir"}}
  \union {[Plain(kind) EXCEPT !.tar = FALSE, !.fails = 1, !.cuts = 1, !.slow = 1] : kind \in {"file", "missing"}}
  \union {[Plain("dir") EXCEPT !.tar = tar, !.limit = 6, !.cuts = 1] : tar \in BOOLEAN}
  \union {[Plain(kind) EXCEPT !.limit = 1] : kind \in {"file", "dir", "write"}}
  \union {[Plain("file") EXCEPT !.n = 0], [Plain("write") EXCEPT !.made = FALSE]}
=============================================================================
