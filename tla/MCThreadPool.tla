---------------------------- MODULE MCThreadPool ----------------------------
(* Model values and symmetry for the runs of ThreadPool. *)
EXTENDS ThreadPool, TLC

CONSTANTS t1, t2, t3, k1, k2, k3, k4, c1, c2

TwoTids   == {t1, t2}
ThreeTids == {t1, t2, t3}
TwoTasks   == {k1, k2}
ThreeTasks == {k1, k2, k3}
FourTasks  == {k1, k2, k3, k4}
OneClient  == {c1}
TwoClients == {c1, c2}

Symmetry == Permutations(Tids) \union Permutations(Tasks) \union Permutations(Clients)
=============================================================================
