--------------------------- MODULE MCCiftFileDump ---------------------------
(* Instances of CiftFileDump for TLC.                                      *)
EXTENDS CiftFileDump, TLC

MCDataFields == {}

(* The first chunk ends inside the event of slot 0, as 4K do inside an     *)
(* event.                                                                  *)
MCChunks ==
  LET first == {IndexCell, TotalCell, <<0, "event_id">>}
  IN << first, Cells \ first >>

MCSymmetry == Permutations(Threads)

=============================================================================
