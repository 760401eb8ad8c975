------------------------------ MODULE MCRunLoop ------------------------------
(* Instances of RunLoop for TLC.  Two threads post two events, so that one  *)
(* Schedule can be waiting for the lock while another, or Expire, holds it. *)
EXTENDS RunLoop, TLC

CONSTANTS t1, t2, e1, e2

OneThread == {t1}
TwoThreads == {t1, t2}
OneEvent == {e1}
TwoEvents == {e1, e2}
CostsOneTwo == {1, 2}
Frames == {1, 3}
Symmetric == Permutations(TwoThreads) \cup Permutations(TwoEvents)
=============================================================================
