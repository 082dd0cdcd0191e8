--------------------------- MODULE MCCiftDumpTool ---------------------------
(* Instances of CiftDumpTool for TLC.                                      *)
EXTENDS CiftDumpTool, TLC

(* Lines without size, and with a size and perhaps a source line.  With 3  *)
(* as the greatest int, 4 is no int, and the end of a range may be none.   *)
MCLines ==
  [address : {Absent, 0, 1, 2, 3}, size : {Absent}, type : {"T"}, located : {FALSE}]
    \union [address : 0 .. 3, size : {0, 2}, type : {"T"}, located : BOOLEAN]
    \union [address : {4}, size : {2}, type : {"T"}, located : {TRUE}]
    \union [address : {2}, size : {Absent}, type : {"D"}, located : {FALSE}]

Key(line) == IF line.address = Absent THEN -1 ELSE line.address

(* Outputs of nm of up to three lines, sorted as nm sorts them.            *)
MCFiles ==
  {f \in UNION {[1 .. n -> MCLines] : n \in 0 .. 3} :
     \A m, n \in DOMAIN f : m < n => Key(f[m]) <= Key(f[n])}

(* Traces of two threads, whose numbers have one low byte.  A thread leaves*)
(* only what it has entered, and a thread that was stopped has no event    *)
(* after its invalid one.                                                  *)
MCThreads == {1, Base + 1}

MCCalls == [context : MCThreads, event_id : {"FUNC_ENTER", "FUNC_EXIT"}, func : {1}]

Of(s, n, t, event_id) ==
  Cardinality({k \in 1 .. n : s[k].context = t /\ s[k].event_id = event_id})

MCTraces ==
  {s \in UNION {[1 .. n -> MCCalls] : n \in 0 .. 4} :
     \A n \in DOMAIN s, t \in MCThreads :
       Of(s, n, t, "FUNC_ENTER") >= Of(s, n, t, "FUNC_EXIT")}

MCDump == [has_header |-> TRUE, has_magic |-> TRUE, foreign |-> FALSE, big_endian |-> FALSE,
           circular |-> TRUE, max_event_count |-> 2, stored |-> 2, bytes |-> 0,
           before |-> 0, uncounted |-> 0,
           calls |-> << [context |-> 1, event_id |-> "FUNC_ENTER", func |-> 1] >>]

(* What is no dump at all.                                                 *)
MCNoDumps ==
  {[MCDump EXCEPT !.has_header = b, !.has_magic = FALSE, !.calls = << >>] : b \in BOOLEAN}

(* Dumps of either mode and byte order.                                    *)
MCWholeDumps ==
  {d \in [has_header : {TRUE}, has_magic : {TRUE}, foreign : BOOLEAN,
          big_endian : {FALSE}, circular : BOOLEAN, max_event_count : {2, 3},
          stored : {2, 3}, bytes : {0}, before : {0}, uncounted : {0},
          calls : MCTraces] :
     /\ d.stored = d.max_event_count
     /\ ~ d.circular => Len(d.calls) <= d.max_event_count}

(* With one event invalid, which shows either thread's context, and which  *)
(* may not have been counted.                                              *)
MCStoppedDumps ==
  {[d EXCEPT !.calls[Len(d.calls) - k] = [context |-> t, event_id |-> "INVALID", func |-> 1],
             !.uncounted = u] :
     d \in {e \in MCWholeDumps :
             /\ Len(e.calls) = IF e.circular THEN 4 ELSE 3
             /\ ~ e.foreign
             /\ e.calls[Len(e.calls) - 1].context # e.calls[Len(e.calls)].context},
     k \in {0, 1}, t \in MCThreads, u \in {0, 1}}

(* Cut short, anywhere in a slot.                                          *)
MCShortDumps ==
  {[d EXCEPT !.stored = n, !.bytes = b, !.big_endian = high] :
     d \in {e \in MCWholeDumps : /\ e.max_event_count = 3 /\ ~ e.foreign
                                  /\ Len(e.calls) \in {2, 4}},
     n \in {0, 1, 2}, b \in 0 .. 6, high \in BOOLEAN}

(* After so many calls that the count comes round, or is about to.         *)
MCLongDumps ==
  {[d EXCEPT !.before = n] :
     d \in {e \in MCWholeDumps : e.circular /\ Len(e.calls) \in {3, 4}},
     n \in Base * Base - 3 .. Base * Base}

MCDumps == MCNoDumps \union MCWholeDumps \union MCStoppedDumps
             \union MCShortDumps \union MCLongDumps

MCFile == << [address |-> 1, size |-> 2, type |-> "T", located |-> TRUE] >>

(* Every file with one dump, and every dump with one file.                 *)
MCInputs ==
  {[file |-> f, dump |-> MCDump] : f \in MCFiles}
    \union {[file |-> MCFile, dump |-> d] : d \in MCDumps}

=============================================================================
