------------------------------ MODULE Decoders ------------------------------
(***************************************************************************)
(* The two programs that decode: when cift-dump has ended, its user runs   *)
(* the Java dumper on the same executable, and it reads the symbols that   *)
(* cift-dump had nm write (CIFT_Dumper.main, readCIFTFile).  It goes no    *)
(* further than its symbols: it does not read the dump it is given.        *)
(* How the file of nm passes between programs is left to SymbolFile.       *)
(***************************************************************************)
EXTENDS CiftDumpTool, JavaSymbols

decodersVars == <<vars, javaVars>>

DecodersInit == Init /\ JavaInit

RunCiftDump == Next /\ UNCHANGED javaVars

RunJavaDumper ==
  /\ at \in {"done", "failed"}
  /\ JavaReadLine
  /\ UNCHANGED vars

(* The file that the Java dumper wrote is read by the parser that          *)
(* cift-dump keeps for it.  Its only call is commented out                 *)
(* (nm-symbol-extractor.cpp:57-58): this is what the call would do.        *)
ParseOutFile ==
  /\ ParseOutLine
  /\ UNCHANGED vars

DecodersNext == RunCiftDump \/ RunJavaDumper \/ ParseOutFile

DecodersSpec == DecodersInit /\ [][DecodersNext]_decodersVars

=============================================================================
