--------------------------- MODULE MCIndexUpdater ---------------------------
(***************************************************************************)
(* Instances of IndexUpdater with one updater, as in the server, and with  *)
(* two.                                                                    *)
(***************************************************************************)
EXTENDS IndexUpdater, TLC

CONSTANTS u1, u2

OneUpdater == {u1}
TwoUpdaters == {u1, u2}
Symmetry == Permutations(TwoUpdaters)
=============================================================================
