---------------------------- MODULE MCLfdsQueue ----------------------------
(* LfdsQueue with two writers, both of which read too, and three elements.  *)
EXTENDS LfdsQueue

CONSTANTS t1, t2
TwoThreads == {t1, t2}
=============================================================================
