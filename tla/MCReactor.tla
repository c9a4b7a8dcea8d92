------------------------------ MODULE MCReactor ------------------------------
(* The descriptors of the runs of Reactor: one more than there are records, or  *)
(* as many.                                                                     *)
EXTENDS Reactor

TwoFds   == {11, 12}
ThreeFds == {11, 12, 13}
=============================================================================
