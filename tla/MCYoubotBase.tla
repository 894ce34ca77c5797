---------------------------- MODULE MCYoubotBase ----------------------------
(***************************************************************************)
(* YoubotBase with two wheels and a clock of half seconds that stops after *)
(* MaxSec seconds, long enough for two timeouts in a row.                  *)
(***************************************************************************)
EXTENDS YoubotBase, TLC

CONSTANTS w1, w2
TwoWheels == {w1, w2}
Symmetry  == Permutations(TwoWheels)
=============================================================================
