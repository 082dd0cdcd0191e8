# A TLA+ model of CIFT

CIFT is a compiler instrumentation function tracer: a C library whose hooks gcc
calls at the entry and the exit of every function compiled with
`-finstrument-functions`, and programs that decode what it recorded. The hooks of
all threads write into one lock-free buffer; the buffer is dumped to a text file
or, as it is, to a binary file; `cift-dump` reads the binary file later, names
its addresses with the symbols it gets from `nm`, and prints one line per event
with a call stack level. A Java program is meant to do the same: it gets the symbols
from the same file of `nm`, writes them to a file of its own, and ends there, without
reading the dump. The repository traces a multi-threaded card game as its
demonstration.

This directory models these parts in TLA+, checks small instances with TLC and
proves with TLAPS that every invariant and every action property these runs check holds
for every value of the constants.

## 1. The system

| component | source | state | operations | module |
|---|---|---|---|---|
| event buffer | `cift/cift.c` 86-222, `cift.h` 113-179 | `cift_enabled`, header of `CIFT_EVENT_BUFFER`, the slots; per thread the locals of a hook | the two gcc hooks, `cift_get_next_event`, `cift_set_enable` | CiftBuffer, TraceLog |
| buffer configuration | `cift/cift.c` 146-165, 224-284 | the global pointer `cift_event_buffer`, the memory it points to, the header fields, whether the exit handler is registered | `cift_configure`, `cift_default_init` from the hooks, the exit | CiftConfigure |
| file dump | `cift/cift_file_dump.c` | window (`startingIndex`, `eventsInBuffers`, `index`), the file | `cift_dump_to_text_file`, `cift_dump_to_bin_file`, exit handler | CiftFileDump |
| symbol lookup | `cift-dump/src/nm-symbol-extractor.cpp`, `address-range-lookup.h` | `rangeVector`, `waitingForEndOfRange`, `functionInfo` | parsing one line of `nm`, `insertRange`, `findRange`; parsing the Java dumper's file | SymbolLookup, JavaSymbols |
| cift-dump | `cift-dump/src/cift-dump.cpp` | file descriptor, mapping, `endian_swap`, window, `threadToStackLevelMap` | `main`, `cift_dump_plain_to_stdout`, `Extract*` | CiftDumpTool |
| parallel_speed demo | `demo/parallel_speed/` | hands, draw, play and replenish piles, a mutex per pile, player states, ready bits, two flags | `threaded_player`, `threaded_referee`, `play`, `turn_cards`, `deal`; the operations of a stack | StackOfCards, CardGame, ParallelSpeed |
| Java dumper | `cift-dump-java/` | its own range list | parse a line of `nm`, `addRange`, `lookupRange`, write its file | JavaSymbols, Decoders |
| symbol file | `nm-symbol-extractor.cpp` 49-85, `NMSymbolExtractor.java` 23-123 | `<executable>.nmsymbols`, its time and the executable's; the `nm` processes | remove it, have it written, find it newer than the executable, parse it | SymbolFile |
| callStackTest demo | `demo/callStackTest/` | none | calls functions | not modelled |
| regular expressions, timestamps | `cift-dump/src/re2/`, `cift/cycle.h` | - | third-party code | not modelled |

How they interact. The hooks of all threads share the buffer and nothing else;
there is no lock, and the two `__sync` builtins are the only ordering. The
application's calls (`cift_set_enable`, `cift_configure`, the dumps) work on the
same memory without waiting for hooks that are past the `cift_enabled` gate. The
first hook of a build that traces from the start (`CIFT_DEFAULT_ENABLE`) calls
`cift_configure` itself. `cift-dump` has only the binary file: it repeats the
window computation of the text dump on the copy. The two decoders share
`<executable>.nmsymbols`: each starts `nm` in a process of its own to write it, and
neither can tell whether another does so at the same moment.

What is hard, and therefore modelled step by step:

- interleavings of hooks in `cift_get_next_event` with a stale copy of the index;
- plain stores of an event that the compiler and the processor may reorder;
- a writer that sleeps while the circular buffer goes round (it is *lapped*);
- a dump that reads counters and slots while hooks move them;
- initialisation by the first hooks, and a buffer that moves when it is resized;
- off-by-one cases: the last slot, the exactly full buffer, no slot at all;
- the byte orders of the binary file, and events of threads that alternate;
- a dump that was cut short, with events that were never completed, or with a count
  that came round;
- symbols without size, aliases, overlaps and empty ranges, and addresses in the
  signed 32 bits of Java;
- a file of symbols that a left-behind `nm` still writes, that an older build left, or
  whose time is too coarse to tell;
- in the demo, state read without a lock, several mutexes, and termination.

What makes each component correct:

- *event buffer*: it behaves like one log to which each call is appended in a
  single step; no call is lost or counted twice; an event is whole once its
  `event_id` is set; a call always returns;
- *configuration*: a hook works only on the live buffer, inside the memory that
  was allocated, with a header that belongs to it, and at the exit all of it is dumped;
- *file dump* and *cift-dump*: the newest events that fit, oldest first, each once;
- *symbol lookup*: an address gets the name of the first symbol that covers it, and
  the programs agree on it;
- *symbol file*: a program loads the symbols of the executable as it is, whole;
- *parallel_speed*: no card is lost or doubled, plays are legal, the game ends.

`PROJECT.json` lists the places where these could go wrong ("hazards"), each with
the properties that would show it.

## 2. The modules

**TraceLog** is the abstract specification of the buffer: a sequence of accepted
calls and a number of discarded ones. A call enters after its thread's earlier
calls; when the log is full and the mode is fill-and-stop (or there is no slot at
all) a call is discarded.

**CiftBuffer** is `cift.c` from the gate to the last store. Each access to shared
memory is an action: `Hook` (past the gate), `Load` (copy the index, compare with
the end), `Claim` and `Retry` (the compare-and-swap), `Fill` (one plain store
before the barrier, in any order), `Count` (the fetch-and-add), `Publish` (one of
the stores of `event_count` and `event_id`, in any order), `Drop`. A call is a
pair <<thread, number>> that stands for all the values the call stores, so a slot
whose fields come from two calls shows. `claims`, `claim_no`, `counted`, `holder`
and `lapped` are history variables: they record what happened and no guard reads
them. `Log == INSTANCE TraceLog` maps `log` to `claims` and `discarded` to
`total_events_dropped`.

Operators named `Action_Slip` (here and in the other modules) are what a
definition would be with a plausible mistake in the code. The specifications do
not use them; they are there to see that the properties notice.

**CiftFileDump** extends CiftBuffer with one thread that dumps. The text dump
reads the counters of its window one after the other and each event field by
field; the binary dump copies the memory cell by cell in chunks, in no fixed order
within a chunk, and `Report` is the window cift-dump later computes on the copy.
Opening the file may fail, and a write may be short. The hooks go on throughout.

**CiftConfigure** is `cift_configure` and the hooks again, seen from the memory
they use: blocks with a size, a header and a free/allocated state instead of the
contents of slots. The pointer is stored at the allocation and the header field by
field after it, in any order, as in the code; every place where a hook reads the
pointer is a read of the variable. `realloc` may move the buffer; `malloc` may
fail in the builds named by `FailingBuilds`. `QuietOnly` and `MainFirst` say how
careful the application is. `Register` comes last, and `Exit` is the return of `main`: with
the handler registered it closes the gate, and `ExitDumpsBuffer` says what it then
writes (the dump itself is CiftFileDump's). That each configuration registers the
handler once more, so that the same file is written again, is abstracted to whether
it is registered.

**SymbolLookup** reads an `nm` file line by line; **CiftDumpTool** extends it to the
whole program. A line is an address, a size, a type letter and a name; its name is
its line number. `UnitCount` does what `strtoull` does to the field after the
address: a missing size followed by a type letter A to D is read as a number. A
word of a dump is a number of two bytes of `Base` values, and `Swap` exchanges them.
Addresses go up to `MaxAddress`, which is where the program's memory ends and not a bound
on the file: a file may have any number of lines.
The dumps are those the library leaves once no event is added: whole or cut short
(`stored` slots came into the file and `bytes` of the next one; what lies behind reads as
zeros or kills the program), and with `before` calls ahead of those that are listed, so
that `total_events_added` has come round. A thread that was stopped in a hook leaves a
slot that is marked invalid, or still shows what was there before, and, if it was stopped
between its claim and its count (`cift.c:137`, 181), a claim that `total_events_added`
lacks (`uncounted`). The slot that is cut has its `event_id`, the first field
(`cift.h:149`), before any other, so that it may be printed as an event whose later
fields are zero (`Cut`); which bytes of a word are there depends on its byte order
(`big_endian`). Of an event the three fields are kept that the properties speak of.

**JavaSymbols** is the parser and the range list of the Java dumper on the same file
of `nm`: which lines it takes, `Integer.parseInt` and the sum of two ints, the overlap
rule of `RangeLookup.addRange`, and the file it writes; `ParseOutLine` is one line of that
file read by cift-dump's other parser (`SymbolLookup::parseSymbolFile`), into a vector of
its own. The code has that parser, but its only call is commented out
(`nm-symbol-extractor.cpp:57-58`): `DecodersAgree` says that it would name what the others
do. **Decoders** composes it with CiftDumpTool: the user runs the one and then the
other on one executable.

**SymbolFile** is the file between the programs. Names and inodes are apart, since an `nm`
that was left behind goes on writing a file whose name is gone. `RemoveFile`,
`RemoveFails` (nobody looks at what `remove` returns), `CheckFile`, `SpawnNm`, `AwaitNm`,
`OpenFile`, `ReadBlock` and `EndOfFile` are the steps of a program; `ShellOpens` (which
empties the file), `NmReads`, `NmWrites` and `NmFails` those of the process it started;
`Rebuild` and `Tick` those of the world. A block of the file is the number of the build it
tells of. `spoiled` and `excused` are history variables: the files that no `nm` wrote
alone, to the end and from the last build, and the runs whose file somebody else meddled
with.

**StackOfCards** is the linked list of cards, which the header selects: a stack is a
sequence, drawn from and added to at its end, scanned from its front, and `remove` takes
out the first card that is equal. **CardGame** states the rules with no threads in it: a
card is played (`Play`), one is drawn for it (`Draw`), cards are turned (`Turn`), the game
ends (`End`), each in one step. **ParallelSpeed** is the demo with its threads, and
implements CardGame (`ImplementsGame`): `Link`, `Draw`, `TurnCards` and the setting of
`game_over` are the moves, all other steps change no card, and a player is owed a card
from `Link` to `Draw`. `Lock` to `Draw` are the steps of `play`, adding a card is two
steps as in the linked list (find the tail, link); the pile is unlocked before the draw
(`Unlock`, `main.cpp:131`), so the referee may turn cards while a player is owed one.
`CountOne` reads one player's
state, so the referee's counts can be stale. A deal is any member of `Deals`, each of them
an order of the same deck. Cards are numbers, the rank is the remainder by `Ranks`.
`CheckDeck` is the program's own check of the stacks.

**RingArithmetic**, **CiftBufferProofs**, **CiftFileDumpProofs**,
**CiftConfigureProofs**, **SymbolFileProofs**, **ParallelSpeedProofs**, **SymbolProofs**
and **DecodersProofs** hold the lemmas and theorems.
The modules whose names begin with MC give the constants values for TLC.

## 3. What TLC checks

All runs terminate with the whole state space explored (the violations stop at the
first counterexample). Bounds are constants of the modules or of the MC modules.

| run | instance | result |
|---|---|---|
| buffer_circular | 2 threads, 3 calls each, 2 slots, circular | holds: `IntactUnlessLapped`, `ExclusiveUnlessLapped`, `MarkedUntilComplete`, `RingHoldsNewest`, `NothingLost`, `ImplementsLog` |
| buffer_fill_and_stop | 3 threads, 2 calls each, 2 slots, fill-and-stop, fair | holds: `TypeOK`, `ExclusiveUnlessLapped`, `CompleteIsIntact`, `NothingLost`, `ImplementsLog`, `EveryCallReturns` |
| dump_circular | one dump of either kind among 2 threads with 2 calls, 2 slots | holds: `QuietDumpIsNewest`, `WindowInBuffer`, `NoCallTwice`, `OneLateClaimEach` |
| dump_fill_and_stop | the same in fill-and-stop, the dumping thread fair | holds: `QuietDumpIsNewest`, `WindowInBuffer`, `DumpEnds` |
| dump_exactly_full | the same, circular | **violated**: `ExactlyFullIsDumped` |
| configure_quiet | 2 threads, 2 calls each, a size below that of the header and sizes with room for 0 and 2 events, 2 blocks; configuration with no hook running | holds: `OnlyLiveBlocks`, `WritesInRoom`, `DropMeansFull`, `CountersOfThisBuffer`, `ExitDumpsBuffer` |
| configure_in_flight | first calls of two threads at once | **violated**: `DropMeansFull` |
| dump_tool | every `nm` file of up to 3 lines, read by both programs; every dump of up to 4 calls of 2 threads, 2 or 3 slots, both modes and byte orders; those dumps cut short at any byte of a slot, with invalid events and claims not counted, or with a count that comes round; every failure | holds: `NamedByFirstCover`, `RangesDisjoint`, `DecodersAgree`, `PrintsNewest`, `LevelsShowNesting`, `LeavesNothingOpen` |
| dump_foreign | the same, cift-dump alone | **violated**: `ForeignIsConverted` |
| symbol_file | a run of cift-dump and two of the Java dumper, files of 2 blocks, 2 builds, a clock of 3 values, every failure of `nm` and of removing the file | holds: `CiftDumpIsCurrent`, `JavaIsCurrent` |
| speed_game | 2 players, 4 deals of 10 cards, fair | holds: `DeckComplete`, `PlaysAreLegal`, `TurnFindsCards`, `EndIsJustified`, `ImplementsGame`, `GameEnds`, no deadlock |
| speed_start | the same | **violated**: `PlayersWaitForStart` |

Why the bounds are enough. Two slots and six claims let the circular buffer go round three
times. While one thread sleeps the other claims up to three slots: after two the index is
back where the sleeper read it, so its compare-and-swap succeeds although the buffer went
round, and with the third a writer is lapped and lapped again. In the fill-and-stop mode
six calls meet two slots, so four are dropped, and three threads can fail the same
compare-and-swap. A dump needs more claims than slots, which four calls in two slots are.
An event has one or two data fields (none in the dump runs, where `event_id` stands for
all): two suffice to tell a mixed event from a whole one. A configuration run has two
blocks because `realloc` needs the old and the new one, and the sizes are one that is too
small for the header, one with room for no event and one with a byte to spare. `cift-dump`
needs a trace longer than two slots and two threads; three lines are what `waiting`
connects, with one to come between, and two ranges that overlap in every way with a third
between them. A byte has 16 values, and the numbers of the two threads have the low one in
common, so that a word cut in two shows; a count comes round at 256 and the long dumps
begin just before that; the last address is 8, and the greatest int is 3, so that an
address, a size and their sum can each pass it. Of the two runs of the Java dumper the
first finds no file and dies, and the second finds what the first one's `nm` has written
so far; two blocks make a file that is partly written, two builds one that is out of date,
and with three values of the clock a build falls in the same tick as a write, before it
and after it. The four deals make both players want the same pile at once, let cards be
played only after a turn, let a player win, and let nobody play.

Deadlock is not checked where the system may stop: an application need not call, a
dump or a program ends. In the demo it is checked, and only the end of all threads
may be the last state.

**Fairness.** `EveryCallReturns` assumes weak fairness of each thread's steps inside
the hook: the operating system runs every thread again and again, and no step of the
hook waits for another. It is not assumed that the application calls or enables.
The calls being bounded matters here: with unboundedly many calls of the others a
compare-and-swap could fail for ever, which is what lock-free means; the run shows
that the loop starts over only because of another's claim. `DumpEnds` assumes fairness of
the dumping thread alone: hooks may be suspended for ever. `GameEnds` assumes weak
fairness of each thread and strong fairness of taking a mutex, that is, a mutex
which is released again and again is not withheld from a waiting thread for ever.
POSIX does not promise that for `pthread_mutex_lock`; without it the players who try
again and again could keep the referee out, so the result is relative to it.

## 4. What the counterexamples say

- `dump_exactly_full`: a circular buffer filled exactly once has its index back at 0 and
  has not "wrapped" by the test `total_events_added <= max_event_count`
  (`cift_file_dump.c:88`, `cift-dump.cpp:206`), so the dump prints nothing.
- `configure_in_flight`: the pointer is published before the header (`cift.c:244`,
  253-266). A second thread's first hook finds a buffer with `max_event_count` 0 and
  drops its event in the circular mode.
- `dump_foreign`: one of the words of a dump of the other byte order is read
  unconverted (`cift-dump.cpp:210`).
- `speed_start`: `while (!p->start_game)` tests a pointer (`main.cpp:161`); players do
  not wait for the referee.

The properties that hold name the cases they leave out, so that everything else is
covered:

- `lapped` (CiftBuffer): in the circular mode a slot can be claimed while its previous
  claimer still writes there. If the slower one is overtaken by a whole buffer of
  claims, the slot can end with `event_id` set and fields of both. `IntactUnlessLapped`
  holds in both modes, and `CompleteIsIntact` without exception in fill-and-stop.
  `MarkedUntilComplete` has the same exception, and promises a reader no more than it
  says. The stores before the fetch-and-add have no order among them, so data may be
  there ahead of the invalid mark, under an older event's `event_id`; and `event_id` may
  be there ahead of `event_count`. A reader who drops what is marked invalid
  (`cift.c:139`) can still take half of an event while its writer is at work.
- `ExactlyFull` (CiftFileDump) and `Excepted` (CiftDumpTool): the cases of
  `dump_exactly_full` and `dump_foreign`, and a count of 32 bits that came round to
  something no greater than `max_event_count`, or a buffer that has just wrapped while
  some claims are not counted: these dumps take the buffer for one that has not wrapped.
  In fill-and-stop a claim that is not counted costs a row at the end: the rows are as
  many as were counted (`Shown`), be it that a later event was completed.
- `TooSmall` (CiftConfigure): `totalBytes` is less than the size of the header. The
  unsigned difference of `cift.c:232` wraps to a huge `max_event_count`, and nothing
  refuses it.
- `Misread` (SymbolLookup): a symbol without size whose type letter is A to D, for
  which `strtoull` returns 10 to 13.
- `EmptyAtZero` and a negative end (JavaSymbols): the ends of a range are ints.
- `excused` (SymbolFile): the executable was built, or its file of symbols removed or
  opened by another program, during the run; or the name could not be removed while
  another `nm` writes that file. The Java dumper is excused also where it
  accepts a file that is newer than the executable and partly written or out of date.
  That is no rare case: `p.wait(5)` (`NMSymbolExtractor.java:78`) throws for want of the
  monitor, so the run that starts `nm` always dies, and the next one finds whatever is
  there by then.

## 5. What is proved

CiftBufferProofs, for every finite set of threads, every number of slots and of calls,
both modes:

| theorem | says |
|---|---|
| `TypeCorrect` | `Spec => []TypeOK`; with it, every slot that is claimed or written is in the buffer |
| `Invariance` | `Spec => []IInv`, the inductive invariant |
| `Intactness` | `Spec => []IntactUnlessLapped` |
| `Exclusion` | `Spec => []ExclusiveUnlessLapped` |
| `Marking` | `Spec => []MarkedUntilComplete` |
| `RingOrder` | `Spec => []RingHoldsNewest` |
| `Completeness` | `FillAndStop => (Spec => []CompleteIsIntact)` |
| `Accounting` | `Spec => []NothingLost` |
| `Refinement` | `Spec => ImplementsLog` |

The assumptions are `BufferAssumption` (the constants' types, and that the threads are
finitely many) and `ValueAssumption` (the invalid mark and what malloc leaves differ
from what a call stores). TLC evaluates both in every buffer run.

The argument. None of the properties is inductive: `IntactUnlessLapped` says nothing
of a slot that is being written, and everything depends on how far its writer is. `IInv` adds
`IndexInv` (the index is the number of claims, modulo the slots in the circular mode),
`ClaimInv` (a writer's slot is the slot of its claim), `HolderInv` (a writer that was
not lapped is the last claimer of its slot, so two such writers have two slots),
`CountInv` (the number of a counted event is its place in `counted`), `ContentInv`
(which stores of a writer are already in its slot), `DropInv` (a full buffer stays
full) and `LappedInv` (nobody is lapped in fill-and-stop). With `HolderInv`, a store of
one writer leaves the slot of another alone, and `ContentInv` and `IntactUnlessLapped`
carry over. `Exclusion` follows from `ClaimInv` and the lemma `ModGap`: two claims of
one slot are a whole ring apart. `RingOrder` rests on `ModNext`: the index after a
claim is the slot of the next one, which is the only place where the wrap of
`cift.c:123-128` matters. `Completeness` adds that a slot never claimed is as
`malloc` left it. `Refinement` maps `Claim` to an append and `Drop` to a discard, by
`IndexInv` and `DropInv`; `OrderInv` gives the program order within a thread.
`Accounting` has two halves. Every call that was made has claimed a slot, was dropped or
is looking for one (`AccountStep`): the set of calls made grows by one with each hook, and
the set of threads that look is one larger. And every claim was counted but those of the
threads that fill their slots (`ClaimsCounted`). Both compare cardinalities of sets that
a step changes by one element, so nothing is summed.

CiftFileDumpProofs, besides for every list of chunks of the file:

| theorem | says |
|---|---|
| `BufferInvariance` | `DumpSpec => [](IInv /\ EveryClaimCounted)` |
| `LateClaims` | `DumpSpec => []OneLateClaimEach` |
| `Window` | `DumpSpec => []WindowInBuffer` |
| `NoneTwice` | `DumpSpec => []NoCallTwice` |
| `QuietNewest` | `DumpSpec => []QuietDumpIsNewest` |

A step of a dump is a step of the application (`Disable`) or leaves the buffer alone
(`DumpNextIsNext`), so what was proved of the buffer carries over. `LateInv` adds that a
thread that claimed since the gate was closed is past the gate's loop: its next call finds
the gate closed. `WindowInv` and `ImageInv` say that each counter is in its range at the
moment it is read or copied (`CountersInRange`); as the number of rows is computed from
them alone, it does not matter that they are read at different moments. In the
fill-and-stop mode this needs `ClaimsCounted`: the rows are as many as
`total_events_added`, which never passes the number of claims. `NoneTwice` has two halves.
A call claims once (`ClaimedOnce`, from the program order in `OrderInv`) and stores its
event id only in the slot of that claim, so a slot, or what was read of one however long
ago, shows no call but those at home there (`HomeInv`, `RowsInv`, `CopiedInv`); lapping
does not matter. And the rows come from one slot after the other and are no more than the
slots, so no slot is read twice (`OneRowEach`, by `ModGap`). For `QuietNewest`: while no
hook is on its way the memory stands still, so that what a dump has read or copied is
still there (`QuietInv`). The counters then are the claims, exactly (`RestIsCounted`), the
window computed from them has the newest claims in their order (`RestWindow`, by
`RingHoldsNewest`), and each slot of it is the whole event of its claim (`RestContents`,
by `IntactUnlessLapped`: a slot whose last claim lapped a writer is excepted there and
here). The assumption is `ChunksAssumption`: the chunks of the binary file cover the
buffer.

CiftConfigureProofs, for any number of threads, blocks and calls, and any sizes:

| theorem | says |
|---|---|
| `Invariance` | `Careful => (Spec => []IInv)` |
| `LiveBlocks` | `Careful => (Spec => []OnlyLiveBlocks)` |
| `SlotsInRoom` | `Careful => (Spec => []WritesInRoom)` |
| `DropsAreDue` | `Careful => (Spec => []DropMeansFull)` |
| `CountersBelong` | `Careful => (Spec => []CountersOfThisBuffer)` |
| `ExitDumps` | `Careful => (Spec => []ExitDumpsBuffer)` |

`Careful` is what the application must see to, and what `configure_quiet` checks: it
configures only while no hook is running, `main` is the first function that is traced,
and memory for the default buffer of a build that traces from the start is there.
`configure_in_flight` shows that it is needed. Why a configuration is alone is not the
same in the two builds (`AloneInv`): an application's call runs with tracing off, so
that no hook begins; that of a first hook runs before `main` has begun (`StartInv`), so
there is no other thread. From then on every hook holds the pointer as it is now
(`BufferInv`), the header fields not yet stored are the only ones that may differ from
the memory (`HeaderInv`), and an index that a hook has copied is old but one of this
buffer (`HookInv`). Lemma `Fits` is the arithmetic of `cift.c:232`: as many slots as
`MaxEvents` says lie in the bytes after the header, and there are none only if not one
fits; it is used where the size is not `TooSmall`. The assumption is
`ConfigureAssumption`: a size is at least 1 and less than a word holds (what `malloc` and
`realloc` do with a size of 0 is the C library's choice).

SymbolFileProofs, for any number of runs of both programs, of builds, of blocks of the
file, and any clock:

| theorem | says |
|---|---|
| `Invariance` | `Spec => []IInv` |
| `CiftDumpsAreCurrent` | `Spec => CiftDumpIsCurrent` |
| `JavaDumpersAreCurrent` | `Spec => JavaIsCurrent` |

`ContentInv` is the heart of `IInv`: a file that is not spoiled has one writer, and what
is in it is what that writer has written of the last build, or it has none and, if it
is newer than the executable, is whole. `CiftInv` follows the name: while cift-dump waits,
the name is gone, or could not be removed but nobody writes that file (`RemovedInv`,
`NoWriterStep`), until its own shell opens it, and then it is the file its `nm` writes;
an `nm` that was left behind has another inode. `ReaderInv` says that what has been read
is the beginning of a whole file. That another program's step cannot spoil the file of
one that is not excused is lemma `Others`. That there is a free inode whenever a shell
opens one (`Fresh`) is the pigeonhole principle: each program has at most one open, and
the one whose shell opens has none. The comparison `modified > exe.time` is strict,
which is what makes coarse times harmless: in a tick in which the executable was built
no file is accepted. The assumption is `SymbolFileAssumption`.

ParallelSpeedProofs, for any number of players and any deal:

| theorem | says |
|---|---|
| `Invariance` | `Spec => []IInv` |
| `DeckIsComplete` | `Spec => []DeckComplete` |
| `LegalPlays` | `Spec => []PlaysAreLegal` |
| `TurnsFindCards` | `Spec => []TurnFindsCards` |
| `EndsAreJustified` | `Spec => []EndIsJustified` |
| `FollowsTheRules` | `Spec => ImplementsGame` |

`LockInv` says which mutexes are held at which step: a player holds its pile's from the
look to the link, the referee all of them when it turns. So the tail that a player has
found is still the tail when it links (`Fits` of `PileInv`), also while other players play
on other piles. `DeckComplete` says of every place of every stack that no other place has
the same card; it is a part of `IInv`, not a consequence, because `remove` finds the card
by its value and takes the right one only if no other is equal (`RemoveOne`). Every step
that moves cards moves the card of one place to the end of another stack (`MoveOne`); the
turn of the referee does so for each player at once (`Moves`). `TurnInv`: the replenish
piles are equally long at every moment, because one step draws from all of them under all
mutexes; testing the first is enough. `EndInv` carries the referee's stale count: a player
it counted as done is still done, as nobody leaves that state, and a player who is done
has an empty hand unless the game was already over. The count of stuck players needs no
such thing: what follows from it is decided by the replenish pile itself.

`FollowsTheRules` maps every step to a move of CardGame or to none, under `IInv` and
`OverInv` (the referee has left its loop when the game is over). `LinkPlays` needs that
the card the player looked at still lies on the pile and that its own is in its hand
(`Fits`); `TurnTurns` that the game is not over when cards are turned (`OverInv`);
`EndEnds` that the rule for the end holds in the state in which `game_over` is set
(`EndInv` after the step). `SameRules` says that the two modules mean the same by a stack.
The refinement is of what the threads may do: that the game ends is `GameEnds`, which TLC
checks.

The assumption is `DealsAssumption`, which gives the replenish piles of a deal equal
lengths and each play pile a card, as `deal` does, and makes every deal an order of one
deck, as `shuffle` does.

DecodersProofs, with the lemmas of SymbolProofs, for every set of inputs: any file of
`nm` and any dump the library can leave, any size of a byte, any last address, and any
greatest int of Java:

| theorem | says |
|---|---|
| `NamesAreFirst` | `DecodersSpec => []NamedByFirstCover` |
| `RangesAreDisjoint` | `DecodersSpec => []RangesDisjoint` |
| `NamesAgree` | `DecodersSpec => []DecodersAgree` |
| `RowsAreNewest` | `DecodersSpec => []PrintsNewest` |
| `LevelsNest` | `DecodersSpec => []LevelsShowNesting` |
| `NothingIsLeftOpen` | `DecodersSpec => []LeavesNothingOpen` |

The names. `SymbolInv` says that at every line of the file the vector names each address
by the first of the *complete* symbols that covers it; a symbol that waits for its end is
not complete, and `waiting` and `functionInfo` are about the last line and no other. That
an insertion in the middle cannot take an address from an older symbol is lemma
`Inserted`: a new range goes before another only if it ends before that one begins, and
no later line begins before an older one, as `nm` sorts them (`NoneAfter`). `JavaInv` is
the same of the Java dumper's list with `Disjoint`, and `NotRejected` says that a function
which shares no address with another symbol is never rejected; `OutInv` is that of the
file it writes and of the parser that reads it. `FindRange` takes the least index of a
set, so every statement about it rests on `Least`: a set of naturals that is not empty
has a least element (well-founded induction, from the library).

The rows. `RowsInv` ties the index to the number of rows printed (`RowSlot`): the next
slot is that of the next call due, modulo the slots. `WindowIs` is the arithmetic of
`cift-dump.cpp:202-225` in both modes and byte orders, with `SwapSwap` for the words of
the other order; the case it cannot cover is `Excepted`. `RowCall`: what is in a slot is
the newest call that fell on it, so a call that is due is still there. How many are due is
`Shown`, and of the slot that is cut `CutIsCall` says that it shows a part of its own call.

The levels. `LevelsShowNesting` speaks of the end and is not inductive. `LevelInv` says
of every moment that between any row and now the level of its thread has changed as its
depth has (`Nest`). A row changes both for one thread and by the same amount
(`DepthNext`), provided the event is valid, and neither for the others; the level of a
thread's first row does not matter, as only differences are compared.

The assumptions are `InputsAssumption` (what a dump of the library can be), what `IsOutput`
says of `nm` (undefined symbols first, then by address, no symbol beyond the last
address), and the types of the other constants.

## 6. What is only model-checked, and what is not modelled

Model-checked only: liveness (`EveryCallReturns`, `DumpEnds`, `GameEnds`), which the
prover does not reach, as its rules for fairness need ENABLED; and that the properties of
section 4 are violated. No invariant and no action property of the runs is left to TLC
alone, except that `CompleteIsIntact` is stated of the fill-and-stop mode and what
`configure_quiet` checks is stated of a careful application, as in the runs.

Left out of the models:

- printing and formats, program arguments, the names of symbols and their source files;
- the width of the counters in CiftBuffer and CiftFileDump (a `CIFT_COUNT` is a
  `uintptr_t`: 64 bits do not come round, 32 bits can). CiftConfigure has the width
  in `MaxEvents`, where a size below the header wraps, but not what follows from that: the
  stores past the end of so small a block, of the header and of slots. CiftDumpTool reads
  counts that came round;
- the context of an event, which is `pthread_self` cut to 32 bits: two threads of a
  64-bit process may share it, and `cift-dump` then mixes their levels;
- a dump of a machine with pointers of another size, which `cift-dump` reads through
  its own struct layout;
- hardware that reorders across a `__sync` builtin (they are full barriers), and signal
  handlers that call instrumented functions (to the buffer, a hook inside a hook is
  another thread's hook);
- `CIFT_Dumper.cift_dump_plain_to_stdout` of the Java program, which nothing calls, and
  which would always fail because the length of the file stays 0;
- the shuffle of the demo, which is any member of `Deals`. `random.cpp:15` scales
  `rand()` so that the upper end itself could be drawn; `DealsAssumption` excludes it.
  Further a `pthread_create` or `malloc` that fails there, which ends the process, and
  the Windows build;
- callStackTest, which has no state, and the vendored `re2/` and `cycle.h`.

## 7. Plan

Modules in the order in which they were written:

1. TraceLog, CiftBuffer, MCCiftBuffer: the claim and the stores, both modes.
2. CiftBufferProofs, RingArithmetic: types, the inductive invariant, the refinement.
3. CiftFileDump (extends CiftBuffer): both dumps among the hooks.
4. CiftFileDumpProofs: the window of a dump, the late claims, and no call twice.
5. CiftConfigure: initialisation, reconfiguration, the exit.
6. SymbolLookup, CiftDumpTool (extends SymbolLookup): the decoder.
7. ParallelSpeed: the traced demo.
8. JavaSymbols, Decoders: the Java dumper, against the same symbols and after cift-dump.
9. SymbolFile, SymbolFileProofs: the file that the two decoders share.
10. ParallelSpeedProofs: what the mutexes are good for, and how a game ends.
11. CiftConfigureProofs: the buffer of a careful application.
12. SymbolProofs, DecodersProofs: the names, the rows and the levels of both decoders.
13. StackOfCards: the linked list of the demo, so that a card's place can be proved about.
14. CardGame: the rules of the game, which ParallelSpeed is proved to implement.

What is left to do:

- The counters of CiftBuffer modulo their width, for machines of 32 bits: what of
  `IntactUnlessLapped` survives when the number of an event comes round.
- `cift_configure` by an application that is not careful: which of the five properties of
  CiftConfigure still hold, and of which hooks.
