---------------------------- MODULE CiftConfigure ----------------------------
(***************************************************************************)
(* How the event buffer comes to be (cift/cift.c): cift_configure, called  *)
(* by the application or, in a build that traces from the start, by the    *)
(* first hooks; and the hooks seen from the memory they work on.           *)
(*                                                                         *)
(* cift_event_buffer is a plain global pointer.  A hook reads it when it   *)
(* tests it, after every failed compare-and-swap and once more after the   *)
(* successful one; cift_configure stores it before the block it points to  *)
(* has a header.  What a hook stores in a slot is left to CiftBuffer: here *)
(* it matters only which slot of which block it is.                        *)
(***************************************************************************)
EXTENDS Integers, FiniteSets, FiniteSetsExt

CONSTANTS
  Threads,
  Main,          \* The thread of main().
  HeaderBytes,   \* sizeof(CIFT_EVENT_BUFFER)
  EventBytes,    \* sizeof(CIFT_EVENT)
  WordSize,      \* The number of values of CIFT_COUNT.
  Sizes,         \* The totalBytes that the application asks for.  (What the
                 \* allocator returns for 0 bytes is not modelled.)
  DefaultBytes,  \* CIFT_DEFAULT_MAX_BYTES; the mode of that is circular.
  Junk,          \* What a header may hold besides 0 before it is stored.
  QuietOnly,     \* The application configures only while no hook is running.
  MainFirst,     \* main() is instrumented, and starts the other threads.
  FailingBuilds, \* The values of lazy_init with which malloc may fail.
  MaxCalls,      \* Bound: the instrumented calls of one thread.
  MaxBlocks      \* Bound: the blocks of memory in one behavior.

ASSUME ConfigureAssumption ==
  /\ Main \in Threads
  /\ HeaderBytes \in Nat /\ EventBytes \in Nat \ {0} /\ WordSize \in Nat
  /\ Sizes \union {DefaultBytes} \subseteq 1 .. WordSize - 1
  /\ Junk \in Nat
  /\ QuietOnly \in BOOLEAN /\ MainFirst \in BOOLEAN
  /\ FailingBuilds \subseteq BOOLEAN
  /\ MaxCalls \in Nat /\ MaxBlocks \in Nat

NULL         == 0
Blocks       == 1 .. MaxBlocks
Modes        == {"circular", "fill_and_stop"}
HeaderFields == {"total_bytes", "buffer_mode", "max_event_count",
                 "next_event_index", "total_events_added",
                 "total_events_dropped"}

VARIABLES
  lazy_init,          \* CIFT_DEFAULT_ENABLE, of the build.
  cift_enabled,
  cift_event_buffer,  \* NULL or a block.
  room,               \* The bytes of each block, 0 if it is not allocated.
  header,             \* The header of each block.
  pc,
  call,               \* How many hook calls each thread has made.
  block,              \* The block a thread works on.
  next_index,         \* The slot a hook is to claim, or has claimed.
  new_next_index,
  request,            \* The totalBytes and bufferMode of a configuration.
  pending,            \* The header fields it has still to store.
  hook,               \* Is the thread inside a hook?
  at_exit,            \* Is the exit handler registered?
  since               \* History: the hooks counted since the counters were
                      \* last reset.

heap   == <<cift_event_buffer, room, header>>
locals == <<call, block, next_index, new_next_index, request, pending, hook>>
vars   == <<lazy_init, cift_enabled, heap, pc, locals, at_exit, since>>

NoRequest == <<DefaultBytes, "circular">>

AtRest == \A t \in Threads : pc[t] = "idle"

Step(t, from, to) ==
  /\ pc[t] = from
  /\ pc' = [pc EXCEPT ![t] = to]

Init ==
  /\ lazy_init \in BOOLEAN
  /\ cift_enabled = lazy_init
  /\ cift_event_buffer = NULL
  /\ room = [b \in Blocks |-> 0]
  /\ \E mode \in Modes, n \in {0, Junk} :
       header = [b \in Blocks |->
                   [f \in HeaderFields |-> IF f = "buffer_mode" THEN mode ELSE n]]
  /\ pc = [t \in Threads |-> "idle"]
  /\ call = [t \in Threads |-> 0]
  /\ block = [t \in Threads |-> NULL]
  /\ next_index = [t \in Threads |-> 0]
  /\ new_next_index = [t \in Threads |-> 0]
  /\ request = [t \in Threads |-> NoRequest]
  /\ pending = [t \in Threads |-> {}]
  /\ hook = [t \in Threads |-> FALSE]
  /\ at_exit = FALSE
  /\ since = 0

(* main() has been entered, and so may start threads and call the library. *)
Begun ==
  (lazy_init /\ MainFirst) =>
    \/ call[Main] > 1
    \/ call[Main] = 1 /\ (pc[Main] \in {"idle", "exit"} \/ ~ hook[Main])

Configuring == \E t \in Threads : pc[t] # "idle" /\ ~ hook[t]

-----------------------------------------------------------------------------
MaxEvents_WithHeader(totalBytes) == totalBytes \div EventBytes

(* maxEventCount, in the unsigned arithmetic of CIFT_COUNT: what is too    *)
(* small for a header seems to have room for very many events.             *)
MaxEvents(totalBytes) == ((totalBytes - HeaderBytes) % WordSize) \div EventBytes

ResetFields_NoIndex   == HeaderFields \ {"next_event_index"}
ResetFields_NoDropped == HeaderFields \ {"total_events_dropped"}
ResetFields_NoBytes   == HeaderFields \ {"total_bytes"}

(* The fields that cift_configure stores in the header.                    *)
ResetFields == HeaderFields

(* Tracing is switched on or off.  The application heeds that it must not  *)
(* be on during a configuration.                                           *)
SetEnable(enabled) ==
  /\ Begun
  /\ ~ (enabled /\ Configuring)
  /\ cift_enabled' = enabled
  /\ UNCHANGED <<lazy_init, heap, pc, locals, at_exit, since>>

(* main() calls cift_configure, "while tracing is disabled".               *)
Configure(totalBytes, bufferMode) ==
  /\ Begun
  /\ ~ cift_enabled
  /\ QuietOnly => AtRest
  /\ Step(Main, "idle", "configure")
  /\ request' = [request EXCEPT ![Main] = <<totalBytes, bufferMode>>]
  /\ hook' = [hook EXCEPT ![Main] = FALSE]
  /\ UNCHANGED <<lazy_init, cift_enabled, heap, call, block, next_index,
                 new_next_index, pending, at_exit, since>>

(* Is there a buffer to be resized?                                        *)
Choose(t) ==
  /\ Step(t, "configure", "allocate")
  /\ block' = [block EXCEPT ![t] = cift_event_buffer]
  /\ UNCHANGED <<lazy_init, cift_enabled, heap, call, next_index,
                 new_next_index, request, pending, hook, at_exit, since>>

(* malloc finds a free block, or realloc leaves the buffer where it is or  *)
(* moves it to a free block.  (To resize what another thread has already   *)
(* resized is a double free, and the process may end there.)               *)
Allocate(t) ==
  LET old == block[t] IN
  /\ Step(t, "allocate", "print")
  /\ old # NULL => room[old] > 0
  /\ \E b \in {c \in Blocks : room[c] = 0} \union ({old} \ {NULL}) :
       /\ cift_event_buffer' = b
       /\ room' = [c \in Blocks |-> IF c = b THEN request[t][1]
                                    ELSE IF c = old THEN 0 ELSE room[c]]
       /\ header' = IF old = NULL THEN header
                    ELSE [header EXCEPT ![b] = header[old]]
  /\ UNCHANGED <<lazy_init, cift_enabled, locals, at_exit, since>>

ReturnTo(t) == IF hook[t] THEN "retest" ELSE "idle"

(* There is no memory.  A buffer that was to be resized is lost.           *)
AllocateFails(t) ==
  /\ lazy_init \in FailingBuilds
  /\ Step(t, "allocate", ReturnTo(t))
  /\ cift_event_buffer' = NULL
  /\ request' = [request EXCEPT ![t] = NoRequest]
  /\ block' = [block EXCEPT ![t] = NULL]
  /\ UNCHANGED <<lazy_init, cift_enabled, room, header, call, next_index,
                 new_next_index, pending, hook, at_exit, since>>

(* After printf the pointer is read again.                                 *)
Reload(t) ==
  /\ Step(t, "print", "header")
  /\ block' = [block EXCEPT ![t] = cift_event_buffer]
  /\ pending' = [pending EXCEPT ![t] = ResetFields]
  /\ UNCHANGED <<lazy_init, cift_enabled, heap, call, next_index,
                 new_next_index, request, hook, at_exit, since>>

(* One of the stores to the header, in any order.  (Of a block that is too *)
(* small for a header, what else they overwrite is not modelled.)          *)
StoreHeader(t) ==
  LET value(f) == CASE f = "total_bytes"     -> request[t][1]
                    [] f = "buffer_mode"     -> request[t][2]
                    [] f = "max_event_count" -> MaxEvents(request[t][1])
                    [] OTHER                 -> 0
  IN \E f \in pending[t] :
       /\ block[t] # NULL
       /\ Step(t, "header", IF pending[t] = {f} THEN "register" ELSE "header")
       /\ header' = [header EXCEPT ![block[t]][f] = value(f)]
       /\ pending' = [pending EXCEPT ![t] = @ \ {f}]
       /\ since' = IF pending[t] = {f} THEN 0 ELSE since
       /\ UNCHANGED <<lazy_init, cift_enabled, cift_event_buffer, room, call,
                      block, next_index, new_next_index, request, hook, at_exit>>

(* At last the exit handler is registered, once more if it is already: at  *)
(* the exit it would then write the same file again.                       *)
Register(t) ==
  /\ Step(t, "register", ReturnTo(t))
  /\ at_exit' = TRUE
  /\ request' = [request EXCEPT ![t] = NoRequest]
  /\ block' = [block EXCEPT ![t] = NULL]
  /\ UNCHANGED <<lazy_init, cift_enabled, heap, call, next_index,
                 new_next_index, pending, hook, since>>

(* main() returns.  The exit handler, if there is one, closes the gate and *)
(* dumps the buffer, total_bytes of it (CiftFileDump); hooks of the other  *)
(* threads go on meanwhile.                                                *)
Exit ==
  /\ Begun
  /\ Step(Main, "idle", "exit")
  /\ cift_enabled' = (cift_enabled /\ ~ at_exit)
  /\ UNCHANGED <<lazy_init, heap, locals, at_exit, since>>

-----------------------------------------------------------------------------
(* A hook passes the cift_enabled gate.                                    *)
Hook(t) ==
  /\ t # Main => Begun
  /\ cift_enabled
  /\ call[t] < MaxCalls
  /\ Step(t, "idle", "test")
  /\ call' = [call EXCEPT ![t] = @ + 1]
  /\ hook' = [hook EXCEPT ![t] = TRUE]
  /\ UNCHANGED <<lazy_init, cift_enabled, heap, block, next_index,
                 new_next_index, request, pending, at_exit, since>>

Test_Unchecked(t) ==
  /\ Step(t, "test", IF cift_event_buffer = NULL /\ lazy_init THEN "configure"
                     ELSE "load")
  /\ block' = [block EXCEPT ![t] = cift_event_buffer]
  /\ request' = [request EXCEPT ![t] = NoRequest]
  /\ UNCHANGED <<lazy_init, cift_enabled, heap, call, next_index,
                 new_next_index, pending, hook, at_exit, since>>

(* It looks whether there is a buffer.  If not, it makes the default one,  *)
(* in a build that does so, or else it gives up.                           *)
Test(t) ==
  /\ Step(t, "test", IF cift_event_buffer # NULL THEN "load"
                     ELSE IF lazy_init THEN "configure" ELSE "idle")
  /\ block' = [block EXCEPT ![t] = cift_event_buffer]
  /\ request' = [request EXCEPT ![t] = NoRequest]
  /\ UNCHANGED <<lazy_init, cift_enabled, heap, call, next_index,
                 new_next_index, pending, hook, at_exit, since>>

(* It looks again once it has made the default buffer.                     *)
Retest(t) ==
  /\ Step(t, "retest", IF cift_event_buffer # NULL THEN "load" ELSE "idle")
  /\ block' = [block EXCEPT ![t] = cift_event_buffer]
  /\ UNCHANGED <<lazy_init, cift_enabled, heap, call, next_index,
                 new_next_index, request, pending, hook, at_exit, since>>

Load(t) ==
  /\ Step(t, "load", "check")
  /\ block[t] # NULL
  /\ next_index' = [next_index EXCEPT ![t] = header[block[t]].next_event_index]
  /\ UNCHANGED <<lazy_init, cift_enabled, heap, call, block, new_next_index,
                 request, pending, hook, at_exit, since>>

(* Is the index past the end of the buffer?  If not, what comes after it?  *)
Check(t) ==
  LET h == header[block[t]]
      n == next_index[t]
  IN /\ pc[t] = "check"
     /\ Step(t, "check", IF n >= h.max_event_count THEN "drop" ELSE "cas")
     /\ new_next_index' =
          [new_next_index EXCEPT ![t] =
             IF n >= h.max_event_count THEN @
             ELSE IF n + 1 >= h.max_event_count /\ h.buffer_mode = "circular" THEN 0
             ELSE n + 1]
     /\ UNCHANGED <<lazy_init, cift_enabled, heap, call, block, next_index,
                    request, pending, hook, at_exit, since>>

Claim(t) ==
  /\ Step(t, "cas", "fill")
  /\ header[block[t]].next_event_index = next_index[t]
  /\ header' = [header EXCEPT ![block[t]].next_event_index = new_next_index[t]]
  /\ new_next_index' = [new_next_index EXCEPT ![t] = 0]
  /\ UNCHANGED <<lazy_init, cift_enabled, cift_event_buffer, room, call, block,
                 next_index, request, pending, hook, at_exit, since>>

(* The compare-and-swap fails.  It was a barrier, so the pointer is read   *)
(* again, but it is not tested.                                            *)
Retry(t) ==
  /\ Step(t, "cas", "load")
  /\ header[block[t]].next_event_index # next_index[t]
  /\ block' = [block EXCEPT ![t] = cift_event_buffer]
  /\ UNCHANGED <<lazy_init, cift_enabled, heap, call, next_index,
                 new_next_index, request, pending, hook, at_exit, since>>

(* What a hook held in locals is of no use once it returns.                *)
Return(t) ==
  /\ block' = [block EXCEPT ![t] = NULL]
  /\ next_index' = [next_index EXCEPT ![t] = 0]
  /\ new_next_index' = [new_next_index EXCEPT ![t] = 0]
  /\ UNCHANGED <<call, request, pending, hook>>

(* An atomic addition to a counter of what cift_event_buffer points to now.*)
Increment(counter) ==
  /\ cift_event_buffer # NULL
  /\ header' = [header EXCEPT ![cift_event_buffer][counter] = @ + 1]
  /\ since' = since + 1
  /\ UNCHANGED <<lazy_init, cift_enabled, cift_event_buffer, room, at_exit>>

(* The slot has been filled, and the event is counted.                     *)
Count(t) ==
  /\ Step(t, "fill", "publish")
  /\ Increment("total_events_added")
  /\ UNCHANGED locals

(* The last stores to the slot.                                            *)
Publish(t) ==
  /\ Step(t, "publish", "idle")
  /\ Return(t)
  /\ UNCHANGED <<lazy_init, cift_enabled, heap, at_exit, since>>

Drop(t) ==
  /\ Step(t, "drop", "idle")
  /\ Increment("total_events_dropped")
  /\ Return(t)

Next ==
  \/ \E enabled \in BOOLEAN : SetEnable(enabled)
  \/ \E totalBytes \in Sizes, mode \in Modes : Configure(totalBytes, mode)
  \/ Exit
  \/ \E t \in Threads :
       \/ Choose(t) \/ Allocate(t) \/ AllocateFails(t) \/ Reload(t)
       \/ StoreHeader(t) \/ Register(t)
       \/ Hook(t) \/ Test(t) \/ Retest(t) \/ Load(t) \/ Check(t) \/ Claim(t)
       \/ Retry(t) \/ Count(t) \/ Publish(t) \/ Drop(t)

Spec == Init /\ [][Next]_vars

-----------------------------------------------------------------------------
(* No hook and no configuration works on NULL or on memory that realloc    *)
(* has freed (cift.c:151-163, 238-249): once a hook has seen a buffer,     *)
(* the pointer is not tested again.                                        *)
OnlyLiveBlocks ==
  \A t \in Threads :
    pc[t] \in {"header", "load", "check", "cas", "fill", "publish"}
      => block[t] # NULL /\ room[block[t]] > 0

(* The slot that a hook writes lies in the memory that was allocated       *)
(* (cift.c:226-244, 131): max_event_count is what fits in totalBytes.  The *)
(* exception is a totalBytes below the size of a header: the unsigned      *)
(* difference of cift.c:232 comes round, the test that would refuse it is  *)
(* missing, and max_event_count is no bound.                               *)
TooSmall(b) == room[b] < HeaderBytes

WritesInRoom ==
  \A t \in Threads :
    (pc[t] \in {"fill", "publish"} /\ block[t] # NULL /\ ~ TooSmall(block[t])) =>
      HeaderBytes + (next_index[t] + 1) * EventBytes <= room[block[t]]

(* "if this is ever the case, it means we are in a non-circular mode and   *)
(* are out of events" (cift.c:117): a hook finds the index past the end    *)
(* only when the buffer has been filled, or has room for no event at all.  *)
DropMeansFull ==
  \A t \in Threads :
    pc[t] = "drop" =>
      LET h == header[block[t]] IN
      \/ h.buffer_mode = "fill_and_stop" /\ h.next_event_index >= h.max_event_count
      \/ room[block[t]] < HeaderBytes + EventBytes

(* At rest the counters add up to the hooks that were counted since the    *)
(* last configuration (cift.c:240, 264-266): what realloc copied into the  *)
(* header of the resized buffer is gone.                                   *)
CountersOfThisBuffer ==
  (AtRest /\ cift_event_buffer # NULL) =>
    LET h == header[cift_event_buffer] IN
    h.total_events_added + h.total_events_dropped = since

(* When main() returns, a buffer that has counted hooks is dumped, and all *)
(* of it that was allocated and no more (cift.c:244, 261, 275, cift_file_  *)
(* dump.c:181-191): the exit handler is registered, and the header tells   *)
(* the size of the buffer as it was last resized.                          *)
ExitDumpsBuffer ==
  (pc[Main] = "exit" /\ cift_event_buffer # NULL /\ since > 0) =>
    at_exit /\ header[cift_event_buffer].total_bytes = room[cift_event_buffer]

=============================================================================
