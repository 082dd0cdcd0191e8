---------------------------- MODULE CiftFileDump ----------------------------
(***************************************************************************)
(* The dumps of the event buffer (cift/cift_file_dump.c), running while    *)
(* the threads of the application go on logging.                           *)
(*                                                                         *)
(* cift_dump_to_text_file prints the events that a window over the buffer  *)
(* selects, oldest first; cift_dump_to_bin_file copies the buffer, header  *)
(* first, in chunks, and cift-dump later applies the same window to the    *)
(* copy.  Both close the cift_enabled gate and never reopen it, and        *)
(* neither waits for the hooks that are past the gate.                     *)
(*                                                                         *)
(* A behavior has one dump of either kind, at any time, and ends with it:  *)
(* what a dump does depends on nothing that an earlier one leaves but the  *)
(* gate, which the application may move at any time.                       *)
(***************************************************************************)
EXTENDS CiftBuffer, Functions

CONSTANT
  Chunks  \* What each 4K write of the binary dump copies: a sequence of
          \* sets of cells.

(* A cell is a field of a slot, or of the header, which comes before the   *)
(* slots in memory.  The cells that cift-dump does not read are left out.  *)
Header    == -1
CellNames == DataFields \union {"event_id"}
IndexCell == <<Header, "next_event_index">>
TotalCell == <<Header, "total_events_added">>
Cells     == (Slots \X CellNames) \union {IndexCell, TotalCell}

ASSUME ChunksAssumption ==
  /\ Chunks \in Seq(SUBSET Cells)
  /\ UNION Range(Chunks) = Cells
  /\ \A m, n \in DOMAIN Chunks : m # n => Chunks[m] \intersect Chunks[n] = {}

VARIABLES
  dump,       \* Where the dumping thread is.
  kind,       \* "text" or "bin".
  index,      \* The slot the text dump reads next.
  left,       \* eventsInBuffers: the events it has still to print.
  row,        \* The fields of the current event read so far.
  rows,       \* The events printed.
  chunk,      \* The chunk the binary dump copies.
  image,      \* The file it writes: a function from the cells copied.
  quiet,      \* History: no hook has been on its way since the dump began.
  closed_at   \* History: the number of claims when the gate was closed.

dumpVars == <<dump, kind, index, left, row, rows, chunk, image>>
allVars  == <<vars, dumpVars, quiet, closed_at>>

Empty == [f \in {} |-> 0]

DumpInit ==
  /\ Init
  /\ dump = "none"
  /\ kind = "text"
  /\ index = 0
  /\ left = 0
  /\ row = Empty
  /\ rows = << >>
  /\ chunk = 1
  /\ image = Empty
  /\ quiet = FALSE
  /\ closed_at = 0

Goto(from, to) ==
  /\ dump = from
  /\ dump' = to

-----------------------------------------------------------------------------
(* The gate is closed, "do not allow modification of the structures while  *)
(* we are iterating them".                                                 *)
Disable ==
  /\ Goto("none", "open")
  /\ kind' \in {"text", "bin"}
  /\ SetEnable(FALSE)
  /\ UNCHANGED <<index, left, row, rows, chunk, image>>

(* fopen fails, and the dump returns 0 with the gate left closed.          *)
OpenFails ==
  /\ Goto("open", "failed")
  /\ UNCHANGED <<vars, kind, index, left, row, rows, chunk, image>>

Open ==
  /\ Goto("open", IF kind = "text" THEN "total" ELSE "copy")
  /\ UNCHANGED <<vars, kind, index, left, row, rows, chunk, image>>

HasWrapped_Never(total) == FALSE

(* Has the circular buffer begun to overwrite its oldest events?  The dump *)
(* and cift-dump both ask whether more were added than there are slots.    *)
HasWrapped(total) == total > MaxEventCount

ReadTotal_AllSlots ==
  /\ Goto("total", IF FillAndStop THEN "rows"
                   ELSE IF HasWrapped(total_events_added) THEN "start"
                   ELSE "count")
  /\ left' = IF FillAndStop THEN MaxEventCount ELSE 0
  /\ UNCHANGED <<vars, kind, index, row, rows, chunk, image>>

ReadTotal_WaitsForHooks ==
  /\ AtRest
  /\ Goto("total", IF FillAndStop THEN "rows"
                   ELSE IF HasWrapped(total_events_added) THEN "start"
                   ELSE "count")
  /\ left' = IF FillAndStop THEN total_events_added ELSE 0
  /\ UNCHANGED <<vars, kind, index, row, rows, chunk, image>>

(* The text dump reads total_events_added to choose its window.            *)
ReadTotal ==
  /\ Goto("total", IF FillAndStop THEN "rows"
                   ELSE IF HasWrapped(total_events_added) THEN "start"
                   ELSE "count")
  /\ left' = IF FillAndStop THEN total_events_added ELSE 0
  /\ UNCHANGED <<vars, kind, index, row, rows, chunk, image>>

(* "we did not wrap, start at 0 and the count is the next index"           *)
ReadCount ==
  /\ Goto("count", "rows")
  /\ left' = next_event_index
  /\ UNCHANGED <<vars, kind, index, row, rows, chunk, image>>

ReadStart_AllAdded ==
  /\ Goto("start", "rows")
  /\ index' = next_event_index
  /\ left' = total_events_added
  /\ UNCHANGED <<vars, kind, row, rows, chunk, image>>

(* "we wrapped [...] the oldest data is at next_event_index"               *)
ReadStart ==
  /\ Goto("start", "rows")
  /\ index' = next_event_index
  /\ left' = MaxEventCount
  /\ UNCHANGED <<vars, kind, row, rows, chunk, image>>

(* One field of the event at index is read.  With the last one the event   *)
(* is printed, whatever its event_id, and the index moves on.              *)
ReadField ==
  /\ Goto("rows", "rows")
  /\ left > 0
  /\ \E f \in Fields \ DOMAIN row :
       LET read == [g \in DOMAIN row \union {f} |->
                      IF g = f THEN event_buffer[index][f] ELSE row[g]]
       IN IF DOMAIN read # Fields
            THEN /\ row' = read
                 /\ UNCHANGED <<index, left, rows>>
            ELSE /\ row' = Empty
                 /\ rows' = Append(rows, read)
                 /\ left' = left - 1
                 /\ index' = (index + 1) % MaxEventCount
  /\ UNCHANGED <<vars, kind, chunk, image>>

TextDone ==
  /\ Goto("rows", "done")
  /\ left = 0
  /\ UNCHANGED <<vars, kind, index, left, row, rows, chunk, image>>

CellValue(cell) ==
  CASE cell = IndexCell -> next_event_index
    [] cell = TotalCell -> total_events_added
    [] OTHER -> event_buffer[cell[1]][cell[2]]

(* The binary dump copies one cell of the current chunk, in no given       *)
(* order, and goes on to the next chunk when fwrite returns.               *)
Copy ==
  /\ Goto("copy", "copy")
  /\ chunk <= Len(Chunks)
  /\ \E cell \in Chunks[chunk] \ DOMAIN image :
       LET copied == DOMAIN image \union {cell} IN
          /\ image' = [c \in copied |->
                         IF c = cell THEN CellValue(cell) ELSE image[c]]
          /\ chunk' = IF Chunks[chunk] \subseteq copied THEN chunk + 1 ELSE chunk
  /\ UNCHANGED <<vars, kind, index, left, row, rows>>

(* fwrite writes less than it was given: the rest is not written.          *)
ShortWrite ==
  /\ Goto("copy", "failed")
  /\ chunk <= Len(Chunks)
  /\ UNCHANGED <<vars, kind, index, left, row, rows, chunk, image>>

BinDone ==
  /\ Goto("copy", "done")
  /\ chunk > Len(Chunks)
  /\ UNCHANGED <<vars, kind, index, left, row, rows, chunk, image>>

DumpStep ==
  \/ Disable \/ OpenFails \/ Open
  \/ ReadTotal \/ ReadCount \/ ReadStart \/ ReadField \/ TextDone
  \/ Copy \/ ShortWrite \/ BinDone

DumpNext ==
  /\ \/ dump \notin {"done", "failed"} /\ Next /\ UNCHANGED dumpVars
     \/ DumpStep
  /\ quiet' = (dump' # "none" /\ (dump = "none" \/ quiet) /\ AtRest /\ AtRest')
  /\ closed_at' = IF cift_enabled' THEN 0
                  ELSE IF cift_enabled THEN Len(claims) ELSE closed_at

DumpSpec == DumpInit /\ [][DumpNext]_allVars

(* The thread that dumps is scheduled, and nothing in the dump blocks.     *)
(* Nothing is assumed of the others: they may have been stopped in a hook. *)
FairDumpSpec == DumpSpec /\ WF_dumpVars(dump # "none" /\ DumpStep)

-----------------------------------------------------------------------------
(* What cift-dump prints of the file (cift-dump.cpp:203-285).              *)
Report ==
  LET next  == image[IndexCell]
      total == image[TotalCell]
      start == IF ~ FillAndStop /\ HasWrapped(total) THEN next ELSE 0
      count == IF FillAndStop THEN total
               ELSE IF HasWrapped(total) THEN MaxEventCount ELSE next
  IN [k \in 1 .. count |->
        [f \in CellNames |-> image[<<(start + k - 1) % MaxEventCount, f>>]]]

Printed == IF kind = "text" THEN rows ELSE Report

(* The number of claims that are still in the buffer.                      *)
Kept == IF Len(claims) < MaxEventCount THEN Len(claims) ELSE MaxEventCount

ExactlyFull == ~ FillAndStop /\ Len(claims) = MaxEventCount

(* A dump that no hook overlaps prints the newest events that fit in the   *)
(* buffer, in the order of their claims, each whole unless its slot was    *)
(* lapped (cift_file_dump.c:84-135, and cift-dump.cpp:202-285 for a        *)
(* binary dump).  The circular buffer that has just been filled, and has   *)
(* overwritten nothing, is the exception: see ExactlyFullIsDumped.         *)
QuietDumpIsNewest ==
  (dump = "done" /\ quiet /\ ~ ExactlyFull) =>
    /\ Len(Printed) = Kept
    /\ \A k \in 1 .. Kept :
         LET n == Len(claims) - Kept + k IN
         SlotOf(n) \notin lapped =>
           \A f \in CellNames : Printed[k][f] = claims[n]

(* "dump the entire buffer" (cift.h:211), "we did not wrap, start at 0     *)
(* and the count is the next index" (cift_file_dump.c:90): a circular      *)
(* buffer in which every slot was used once is dumped like any other.      *)
ExactlyFullIsDumped ==
  (dump = "done" /\ quiet /\ ExactlyFull) => Len(Printed) = Kept

(* However hooks interleave with the dump, it reads only slots of the      *)
(* buffer, and no more rows than there are slots (cift_file_dump.c:84-134: *)
(* the counters of the window are read one after the other, while they     *)
(* move).                                                                  *)
WindowInBuffer ==
  /\ dump = "rows" => /\ left + Len(rows) <= MaxEventCount
                      /\ left > 0 => index \in Slots
  /\ (dump = "done" /\ kind = "bin") => Len(Report) <= MaxEventCount

(* However hooks interleave with the dump, no call is printed twice: the   *)
(* event ids of different rows differ (cift_file_dump.c:114-135).          *)
NoCallTwice ==
  dump = "done" =>
    \A m, n \in DOMAIN Printed :
      (m # n /\ Printed[m]["event_id"] \in Calls)
        => Printed[m]["event_id"] # Printed[n]["event_id"]

(* Closing the gate does not stop the hooks that are past it, but at most  *)
(* one of each thread: the buffer that is being dumped loses no more than  *)
(* that many of its oldest events (cift.c:192-217, cift_file_dump.c:55-57).*)
OneLateClaimEach ==
  ~ cift_enabled =>
    \A m, n \in closed_at + 1 .. Len(claims) :
      m # n => claims[m][1] # claims[n][1]

(* A dump that has begun ends, whatever the hooks do meanwhile.            *)
DumpEnds == dump # "none" ~> dump \in {"done", "failed"}

=============================================================================
