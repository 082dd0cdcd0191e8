------------------------------ MODULE TraceLog ------------------------------
(***************************************************************************)
(* What the trace buffer of the CIFT library promises, with no buffer in   *)
(* it: one log of the instrumented calls, to which a call is appended in a *)
(* single step, at most once, and in the program order of its thread.      *)
(*                                                                         *)
(* In the circular mode ("flight recorder mode", cift.h:119) every call is *)
(* accepted, and in the fill-and-stop mode the first MaxEventCount calls   *)
(* are accepted and each one after them is counted as dropped.             *)
(*                                                                         *)
(* CiftBuffer implements this specification: see its definition Log.       *)
(***************************************************************************)
EXTENDS Integers, Sequences

CONSTANTS
  Threads,        \* The threads of the instrumented application.
  MaxCalls,       \* Bound: the calls of one thread.
  MaxEventCount,  \* The number of events the log keeps (max_event_count).
  FillAndStop     \* TRUE for the fill-and-stop mode, FALSE for circular.

VARIABLES
  log,            \* The accepted calls, as pairs <<thread, call number>>.
  discarded       \* How many calls were turned away.

logVars == <<log, discarded>>

Full ==
  /\ Len(log) >= MaxEventCount
  /\ FillAndStop \/ MaxEventCount = 0

Init ==
  /\ log = << >>
  /\ discarded = 0

(* The n-th call of thread t enters the log after t's earlier calls.       *)
Record(t, n) ==
  /\ ~ Full
  /\ \A k \in 1 .. Len(log) : log[k][1] = t => log[k][2] < n
  /\ log' = Append(log, <<t, n>>)
  /\ UNCHANGED discarded

Discard ==
  /\ Full
  /\ discarded' = discarded + 1
  /\ UNCHANGED log

Next ==
  \/ \E t \in Threads, n \in 1 .. MaxCalls : Record(t, n)
  \/ Discard

Spec == Init /\ [][Next]_logVars

=============================================================================
