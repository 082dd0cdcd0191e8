---------------------------- MODULE CiftDumpTool ----------------------------
(***************************************************************************)
(* The program cift-dump (cift-dump/src/cift-dump.cpp): it loads the       *)
(* symbols of the traced program, and prints the events of a binary dump   *)
(* oldest first, each with the level of its thread's call stack.           *)
(*                                                                         *)
(* The file is the copy of a buffer to which no event was added meanwhile  *)
(* (CiftFileDump has the other cases), but some threads may have been      *)
(* stopped before they completed or even counted theirs, and the file may  *)
(* have been cut short at any byte.  It may come from a machine of the     *)
(* other byte order, and then every word is swapped when it is read.       *)
(***************************************************************************)
EXTENDS SymbolLookup

CONSTANTS
  Inputs,       \* What the program is run on: a file of nm and a dump.
  Base          \* The values of a byte; a word has two.

(* The calls that may be in a dump: what the slot of a claim shows.  That  *)
(* of a stopped thread may be marked invalid, or still show what was there *)
(* before the mark.                                                        *)
Calls == [context : Nat, event_id : {"FUNC_ENTER", "FUNC_EXIT", "INVALID"},
          func : Addresses]

(* A dump: is it longer than a header, and does it begin with the magic;   *)
(* is its byte order foreign, and do its words begin with the high byte;   *)
(* buffer_mode, max_event_count; the calls that were traced, in the order  *)
(* of their claims, how many went before them, and how many of all were    *)
(* claimed but not counted; how many slots are in the file, and how many   *)
(* bytes of event_id, context and func_called of the slot after them.      *)
ASSUME InputsAssumption ==
  /\ Base \in Nat \ {0}
  /\ \A input \in Inputs :
       LET dump == input.dump IN
       /\ IsOutput(input.file)
       /\ {dump.has_header, dump.has_magic, dump.foreign, dump.big_endian,
           dump.circular} \subseteq BOOLEAN
       /\ dump.max_event_count \in 1 .. Base - 1
       /\ dump.stored \in 0 .. dump.max_event_count
       /\ dump.bytes \in 0 .. 6
       /\ dump.calls \in Seq(Calls)
       /\ dump.before \in Nat
       /\ dump.uncounted \in 0 .. dump.before + Len(dump.calls)
       /\ dump.before # 0 => dump.circular /\ Len(dump.calls) >= dump.max_event_count
       /\ ~ dump.circular => Len(dump.calls) <= dump.max_event_count

VARIABLES
  dump,
  at,           \* Where the program is.
  fd_open, mapped,
  endian_swap,
  index, eventsInBuffers,
  level,        \* threadToStackLevelMap
  rows          \* What it has printed.

toolVars == <<dump, at, fd_open, mapped, endian_swap, index, eventsInBuffers,
              level, rows>>
vars     == <<symbolVars, toolVars>>

Init ==
  /\ \E input \in Inputs : SymbolInit(input.file) /\ dump = input.dump
  /\ at = "symbols"
  /\ fd_open = FALSE
  /\ mapped = FALSE
  /\ endian_swap = FALSE
  /\ index = 0
  /\ eventsInBuffers = 0
  /\ level = [t \in {} |-> 0]
  /\ rows = << >>

-----------------------------------------------------------------------------
(* The dump as the library leaves it.                                      *)

Claims == dump.before + Len(dump.calls)
Slots  == dump.max_event_count

(* total_events_added: a word holds two bytes.  A thread that was stopped  *)
(* between its claim and its count left it behind.                         *)
Total == (Claims - dump.uncounted) % (Base * Base)

(* The index after that many claims.                                       *)
NextEventIndex == IF dump.circular THEN Claims % Slots ELSE Claims

(* What a slot holds that was never claimed.                               *)
Unwritten == [context |-> 0, event_id |-> "INVALID", func |-> 0]

(* The slot of the n-th of the calls.                                      *)
SlotOf(n) == (dump.before + n - 1) % Slots

(* The call in a slot: the newest that was given it.                       *)
Slot(i) ==
  LET given == {n \in DOMAIN dump.calls : SlotOf(n) = i}
  IN IF given = {} THEN Unwritten ELSE dump.calls[Max(given)]

(* A word of which that many bytes are in the file and zeros follow.       *)
Part(n, bytes) ==
  CASE bytes <= 0 -> 0
    [] bytes = 1  -> IF dump.big_endian THEN n - (n % Base) ELSE n % Base
    [] bytes >= 2 -> n

(* The call in the slot that is only partly in the file.  The number that  *)
(* says what event it is fits in a byte, the low one.                      *)
Cut(c) ==
  [context  |-> Part(c.context, dump.bytes - 2),
   event_id |-> IF dump.bytes = 0 \/ (dump.bytes = 1 /\ dump.big_endian)
                  THEN "INVALID" ELSE c.event_id,
   func     |-> Part(c.func, dump.bytes - 4)]

(* A word in the other byte order.                                         *)
Swap(n) == (n % Base) * Base + n \div Base

(* A word of the file, as this machine reads it.                           *)
Word(n) == IF dump.foreign THEN Swap(n) ELSE n

Extract_Never(word) == word

(* ExtractU32, ExtractU64, ExtractUINTPTR                                  *)
Extract(word) == IF endian_swap THEN Swap(word) ELSE word

-----------------------------------------------------------------------------
Goto(from, to) ==
  /\ at = from
  /\ at' = to

(* main() loads the symbols, whatever comes of it: nm may not be there.    *)
LoadSymbols ==
  /\ at = "symbols"
  /\ LoadStep
  /\ UNCHANGED toolVars

LoadFails ==
  /\ Goto("symbols", "open")
  /\ line_no = 1
  /\ UNCHANGED <<symbolVars, dump, fd_open, mapped, endian_swap, index,
                 eventsInBuffers, level, rows>>

SymbolsDone ==
  /\ Loaded
  /\ Goto("symbols", "open")
  /\ UNCHANGED <<symbolVars, dump, fd_open, mapped, endian_swap, index,
                 eventsInBuffers, level, rows>>

(* The file is opened, or the program fails.                               *)
Open ==
  /\ \/ Goto("open", "stat") /\ fd_open' = TRUE
     \/ Goto("open", "failed") /\ UNCHANGED fd_open
  /\ UNCHANGED <<symbolVars, dump, mapped, endian_swap, index,
                 eventsInBuffers, level, rows>>

(* It is too short, or mapped, or cannot be mapped.                        *)
Map ==
  /\ \/ /\ dump.has_header
        /\ Goto("stat", "magic")
        /\ mapped' = TRUE
        /\ UNCHANGED fd_open
     \/ /\ Goto("stat", "failed")
        /\ fd_open' = FALSE
        /\ UNCHANGED mapped
  /\ UNCHANGED <<symbolVars, dump, endian_swap, index, eventsInBuffers,
                 level, rows>>

CheckMagic_KeepsOpen ==
  /\ IF dump.has_magic
       THEN /\ Goto("magic", "window")
            /\ endian_swap' = dump.foreign
            /\ UNCHANGED <<fd_open, mapped>>
       ELSE /\ Goto("magic", "failed")
            /\ mapped' = FALSE
            /\ UNCHANGED <<fd_open, endian_swap>>
  /\ UNCHANGED <<symbolVars, dump, index, eventsInBuffers, level, rows>>

(* The magic is checked, and the byte order is found out.                  *)
CheckMagic ==
  /\ IF dump.has_magic
       THEN /\ Goto("magic", "window")
            /\ endian_swap' = dump.foreign
            /\ UNCHANGED <<fd_open, mapped>>
       ELSE /\ Goto("magic", "failed")
            /\ mapped' = FALSE
            /\ fd_open' = FALSE
            /\ UNCHANGED endian_swap
  /\ UNCHANGED <<symbolVars, dump, index, eventsInBuffers, level, rows>>

(* Which events are printed.  The count of a buffer that has not wrapped   *)
(* is read from the file as it is.                                         *)
Window ==
  LET wrapped == Extract(Word(Total)) > Extract(Word(Slots)) IN
  /\ Goto("window", "rows")
  /\ index' = IF dump.circular /\ wrapped THEN Extract(Word(NextEventIndex)) ELSE 0
  /\ eventsInBuffers' = IF ~ dump.circular THEN Extract(Word(Total))
                        ELSE IF wrapped THEN Extract(Word(Slots))
                        ELSE Word(NextEventIndex)
  /\ UNCHANGED <<symbolVars, dump, fd_open, mapped, endian_swap, level, rows>>

NewLevel_NotKept(t, event_id) ==
  IF t \notin DOMAIN level THEN 0 ELSE IF event_id = "FUNC_ENTER" THEN 1 ELSE -1

(* The level of a thread's first event is 0, whatever it is.  What is not  *)
(* an entry counts as an exit.                                             *)
NewLevel(t, event_id) ==
  IF t \notin DOMAIN level THEN 0
  ELSE IF event_id = "FUNC_ENTER" THEN level[t] + 1 ELSE level[t] - 1

Row(c) ==
  LET n == NewLevel(c.context, c.event_id)
  IN /\ eventsInBuffers # 0
     /\ Goto("rows", "rows")
     /\ level' = [t \in DOMAIN level \union {c.context} |->
                    IF t = c.context THEN n ELSE level[t]]
     /\ rows' = Append(rows, [call |-> c, level |-> n,
                              name |-> StringForAddress(c.func)])
     /\ eventsInBuffers' = eventsInBuffers - 1
     /\ index' = (index + 1) % Extract(Word(Slots))
     /\ UNCHANGED <<symbolVars, dump, fd_open, mapped, endian_swap>>

(* One event is printed, and the index moves on.  Past the end of the file *)
(* the last page of the mapping reads as zeros.                            *)
PrintEvent ==
  \/ index < dump.stored /\ Row(Slot(index))
  \/ index = dump.stored /\ Row(Cut(Slot(index)))
  \/ index > dump.stored /\ Row(Unwritten)

(* There are no pages past that one.                                       *)
Killed ==
  /\ eventsInBuffers # 0
  /\ index >= dump.stored
  /\ Goto("rows", "killed")
  /\ UNCHANGED <<symbolVars, dump, fd_open, mapped, endian_swap, index,
                 eventsInBuffers, level, rows>>

Close ==
  /\ eventsInBuffers = 0
  /\ Goto("rows", "done")
  /\ mapped' = FALSE
  /\ fd_open' = FALSE
  /\ UNCHANGED <<symbolVars, dump, endian_swap, index, eventsInBuffers, level,
                 rows>>

Next ==
  \/ LoadSymbols \/ LoadFails \/ SymbolsDone
  \/ Open \/ Map \/ CheckMagic \/ Window \/ PrintEvent \/ Killed \/ Close

Spec == Init /\ [][Next]_vars

-----------------------------------------------------------------------------
Kept == IF Claims < Slots THEN Claims ELSE Slots

(* How many rows there are to be.  In fill-and-stop as many as were        *)
(* counted, be it that a later claim was completed.                        *)
Shown == IF dump.circular THEN Kept ELSE Claims - dump.uncounted

(* The call that the k-th row is to show.                                  *)
Newest(k) == Len(dump.calls) - Kept + k

(* The count of a circular buffer that was filled is not above max_event_  *)
(* count: it was filled once exactly, or it has only just wrapped and some *)
(* claims are not counted, or the count has come round.  Or the dump is of *)
(* the other byte order and the buffer was not filled.                     *)
Excepted ==
  /\ dump.circular
  /\ \/ Claims >= Slots /\ Total <= Slots
     \/ Claims < Slots /\ dump.foreign

(* The program prints the newest calls that fit in the buffer, in the      *)
(* order of their claims (cift-dump.cpp:202-285), from either byte order,  *)
(* also when the count of all calls has come round.  In fill-and-stop it   *)
(* prints the first calls, and as many fewer than were claimed as were not *)
(* counted.  Of a file that was cut short it prints those that are there,  *)
(* each in its place; the one that is partly there as its first fields and *)
(* zeros, its event_id before all others; and for the rest an event that   *)
(* is marked invalid, as far as it gets.                                   *)
PrintsNewest ==
  ~ Excepted =>
    /\ at = "done" => Len(rows) = Shown
    /\ \A k \in DOMAIN rows :
         LET slot == SlotOf(Newest(k))
             call == dump.calls[Newest(k)]
         IN /\ k <= Shown
            /\ slot < dump.stored => rows[k].call = call
            /\ slot = dump.stored => rows[k].call = Cut(call)
            /\ slot > dump.stored => rows[k].call = Unwritten

(* The depth of the call stack after the n-th of the calls.                *)
Depth(n) ==
  LET of(event_id) == {k \in 1 .. n : /\ dump.calls[k].context = dump.calls[n].context
                                      /\ dump.calls[k].event_id = event_id}
  IN Cardinality(of("FUNC_ENTER")) - Cardinality(of("FUNC_EXIT"))

(* Invalid events count as exits of the thread they show.                  *)
Clean(context) ==
  \A k \in DOMAIN rows :
    rows[k].call.context = context => rows[k].call.event_id # "INVALID"

(* The levels tell how deep a call is nested (cift-dump.cpp:242-255): the  *)
(* difference of two levels of one thread is that of the depths, although  *)
(* the calls of the threads alternate and the trace may begin in the       *)
(* middle of a call.  Only the threads that an invalid event shows are     *)
(* excepted, not those beside them.  What a stopped thread's slot shows    *)
(* counts as its call, be it an older one.                                 *)
LevelsShowNesting ==
  (at = "done" /\ ~ Excepted /\ dump.stored = Slots) =>
    \A j, k \in DOMAIN rows :
      (rows[j].call.context = rows[k].call.context /\ Clean(rows[k].call.context)) =>
        rows[k].level - rows[j].level = Depth(Newest(k)) - Depth(Newest(j))

(* Whatever fails, the program has closed and unmapped what it opened when *)
(* it returns (cift-dump.cpp:127-169, 289-294).                            *)
LeavesNothingOpen ==
  at \in {"done", "failed"} => ~ fd_open /\ ~ mapped

(* "if true we are going to endian convert" (cift-dump.cpp:47): a dump of  *)
(* the other byte order has no more events than it has slots.              *)
ForeignIsConverted ==
  (dump.foreign /\ at = "rows") => eventsInBuffers <= Slots

=============================================================================
