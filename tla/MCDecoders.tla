----------------------------- MODULE MCDecoders -----------------------------
(* The instance of Decoders for TLC.                                       *)
EXTENDS Decoders, MCCiftDumpTool
=============================================================================
