---------------------------- MODULE MCHttpServer ----------------------------
(* Model values and symmetry for the runs of HttpServer. *)
EXTENDS HttpServer, TLC

CONSTANTS w1, w2, f1, f2, f3

TwoWorkers == {w1, w2}
TwoFds     == {f1, f2}
ThreeFds   == {f1, f2, f3}
Symmetry   == Permutations(Workers) \union Permutations(Fds)
=============================================================================
