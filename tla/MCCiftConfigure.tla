--------------------------- MODULE MCCiftConfigure ---------------------------
(* Instances of CiftConfigure for TLC.                                     *)
EXTENDS CiftConfigure

(* Too small for a header; room for no event, and for two with a byte to   *)
(* spare.  The default has room for two.                                   *)
MCSizes == {2, 4, 8}

MCDefaultBytes == 7

(* In these builds malloc may fail: only the one that does not make the    *)
(* default buffer, or both.                                                *)
MCExplicitOnly == {FALSE}
MCEveryBuild   == BOOLEAN

=============================================================================
