---------------------------- MODULE MCCiftBuffer ----------------------------
(* Instances of CiftBuffer for TLC.                                        *)
EXTENDS CiftBuffer, TLC

MCDataFields == {"context", "func_called"}

(* The threads are alike, and no property names one.                       *)
MCSymmetry == Permutations(Threads)

=============================================================================
