---------------------------- MODULE MCSymbolFile ----------------------------
(* The instance of SymbolFile for TLC: two runs of the Java dumper, since  *)
(* the first one only ever leaves the file for the second.                 *)
EXTENDS SymbolFile, TLC

CONSTANTS c1, j1, j2
MCCiftDumps   == {c1}
MCJavaDumpers == {j1, j2}
MCSymmetry    == Permutations(MCJavaDumpers)

=============================================================================
