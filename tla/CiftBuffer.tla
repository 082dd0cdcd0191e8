----------------------------- MODULE CiftBuffer -----------------------------
(***************************************************************************)
(* The lock-free event buffer of the CIFT library (cift/cift.c), written   *)
(* by every thread of an application compiled with -finstrument-functions. *)
(*                                                                         *)
(* A hook call passes the cift_enabled gate, claims a slot by a            *)
(* compare-and-swap on next_event_index, writes the fields of the event    *)
(* with plain stores, takes its number from total_events_added by an       *)
(* atomic fetch-and-add, and stores event_id last.                         *)
(*                                                                         *)
(* Every read or write of shared memory is a step of its own.  The two     *)
(* __sync builtins are full barriers; the plain stores between them are a  *)
(* data race by the language and may be reordered by the -O3 build, so     *)
(* they are performed in any order, but never across a barrier.            *)
(*                                                                         *)
(* The buffer has been configured before the first hook runs, and is not   *)
(* configured again: CiftConfigure models cift_configure.                *)
(***************************************************************************)
EXTENDS Integers, Sequences, FiniteSets

CONSTANTS
  Threads,        \* The threads that run instrumented functions.
  DataFields,     \* timestamp, context, called_from, func_called.
  MaxEventCount,  \* max_event_count, the number of slots.
  FillAndStop,    \* buffer_mode = CIFT_BUFFER_MODE_FILL_AND_STOP.
  MaxCalls,       \* Bound: the instrumented calls of one thread.
  Invalid,        \* CIFT_EVENT_TYPE_INVALID.
  Garbage         \* What malloc leaves in memory.

ASSUME BufferAssumption ==
  /\ MaxEventCount \in Nat
  /\ FillAndStop \in BOOLEAN
  /\ MaxCalls \in Nat
  /\ "event_id" \notin DataFields
  /\ "event_count" \notin DataFields
  /\ IsFiniteSet(Threads)

Slots  == 0 .. MaxEventCount - 1
Fields == DataFields \union {"event_id", "event_count"}

(* The n-th hook call of thread t.  The pair stands for the values the     *)
(* call stores: its event id (enter or exit), timestamp, context, caller   *)
(* and callee.                                                             *)
Calls == Threads \X (1 .. MaxCalls)

ASSUME ValueAssumption ==
  /\ Invalid \notin Calls \union Nat \union {Garbage}
  /\ Garbage \notin Calls \union Nat

VARIABLES
  cift_enabled,
  next_event_index,
  total_events_added,
  total_events_dropped,
  event_buffer,   \* The slots, each a function from Fields to values.
  pc,             \* Where each thread is in cift_log_function_event.
  call,           \* How many hook calls each thread has made.
  next_index,     \* Local of cift_get_next_event: the slot to claim.
  pending,        \* The stores a thread has still to perform.
  event_count,    \* The number the fetch-and-add returned.
  claims,         \* History: the calls whose claim succeeded, in order.
  claim_no,       \* History: the number of each thread's last claim.
  counted,        \* History: the calls that were counted, in order.
  holder,         \* History: the call that claimed each slot last.
  lapped          \* History: the slots whose last claim found another
                  \* call still writing its event there.

shared  == <<next_event_index, total_events_added, total_events_dropped,
             event_buffer>>
history == <<claims, claim_no, counted, holder, lapped>>
vars    == <<cift_enabled, shared, pc, call, next_index, pending,
             event_count, history>>

Call(t)     == <<t, call[t]>>
Writing(t)  == pc[t] \in {"fill", "publish"}
Writers(i)  == {t \in Threads : Writing(t) /\ next_index[t] = i}
AtRest      == \A t \in Threads : pc[t] = "idle"

Step(t, from, to) ==
  /\ pc[t] = from
  /\ pc' = [pc EXCEPT ![t] = to]

Init ==
  /\ cift_enabled \in BOOLEAN
  /\ next_event_index = 0
  /\ total_events_added = 0
  /\ total_events_dropped = 0
  /\ event_buffer = [i \in Slots |-> [f \in Fields |-> Garbage]]
  /\ pc = [t \in Threads |-> "idle"]
  /\ call = [t \in Threads |-> 0]
  /\ next_index = [t \in Threads |-> 0]
  /\ pending = [t \in Threads |-> {}]
  /\ event_count = [t \in Threads |-> 0]
  /\ claims = << >>
  /\ claim_no = [t \in Threads |-> 0]
  /\ counted = << >>
  /\ holder = [i \in Slots |-> Garbage]
  /\ lapped = {}
-----------------------------------------------------------------------------
(***************************************************************************)
(* Some actions are preceded by definitions named Action_Slip: what the    *)
(* action would be if the code had a plausible slip.  The specification    *)
(* does not use them; they show what the properties would catch.           *)
(***************************************************************************)

IsPastEnd_OffByOne(n) == n > MaxEventCount

(* The check of cift_get_next_event before it claims.                      *)
IsPastEnd(n) == n >= MaxEventCount

NewNextIndex_AlwaysWraps(n) == IF n + 1 >= MaxEventCount THEN 0 ELSE n + 1

NewNextIndex_NeverWraps(n) == n + 1

(* The index that the claim of slot n leaves behind.                       *)
NewNextIndex(n) ==
  IF n + 1 >= MaxEventCount /\ ~ FillAndStop THEN 0 ELSE n + 1

(* cift_set_enable, called by the application at any time.                 *)
SetEnable(enabled) ==
  /\ cift_enabled' = enabled
  /\ UNCHANGED <<shared, pc, call, next_index, pending, event_count, history>>

Hook_NoGate(t) ==
  /\ call[t] < MaxCalls
  /\ Step(t, "idle", "load")
  /\ call' = [call EXCEPT ![t] = @ + 1]
  /\ UNCHANGED <<cift_enabled, shared, next_index, pending, event_count,
                 history>>

(* __cyg_profile_func_enter and __cyg_profile_func_exit: past the gate     *)
(* (with the gate closed they return, a stuttering step), the timestamp is *)
(* taken and the call is on its way.                                       *)
Hook(t) ==
  /\ cift_enabled
  /\ call[t] < MaxCalls
  /\ Step(t, "idle", "load")
  /\ call' = [call EXCEPT ![t] = @ + 1]
  /\ UNCHANGED <<cift_enabled, shared, next_index, pending, event_count,
                 history>>

(* The top of the loop: copy the index and look whether it is past the end *)
(* of the buffer.                                                          *)
Load(t) ==
  /\ Step(t, "load", IF IsPastEnd(next_event_index) THEN "drop" ELSE "cas")
  /\ next_index' = [next_index EXCEPT ![t] = next_event_index]
  /\ UNCHANGED <<cift_enabled, shared, call, pending, event_count, history>>

(* Thread t is given slot next_index[t], and is to perform these stores    *)
(* before the next barrier.                                                *)
Take(t, stores) ==
  LET i == next_index[t] IN
  /\ Step(t, "cas", "fill")
  /\ next_event_index' = NewNextIndex(i)
  /\ pending' = [pending EXCEPT ![t] = stores]
  /\ claims' = Append(claims, Call(t))
  /\ claim_no' = [claim_no EXCEPT ![t] = Len(claims) + 1]
  /\ holder' = [holder EXCEPT ![i] = Call(t)]
  /\ lapped' = IF Writers(i) = {} THEN lapped \ {i} ELSE lapped \union {i}
  /\ UNCHANGED <<cift_enabled, total_events_added, total_events_dropped,
                 event_buffer, call, next_index, event_count, counted>>

Claim_NoCompare(t) == Take(t, DataFields \union {"event_id"})

Claim_NoMark(t) ==
  /\ next_event_index = next_index[t]
  /\ Take(t, DataFields)

(* The compare-and-swap succeeds.  The stores that follow set event_id     *)
(* invalid and the other fields to the values of the call.                 *)
Claim(t) ==
  /\ next_event_index = next_index[t]
  /\ Take(t, DataFields \union {"event_id"})

Retry_Hoisted(t) ==
  /\ next_event_index # next_index[t]
  /\ Step(t, "cas", "cas")
  /\ UNCHANGED <<cift_enabled, shared, call, next_index, pending,
                 event_count, history>>

(* The compare-and-swap fails: another thread moved the index, so the loop *)
(* starts over.                                                            *)
Retry(t) ==
  /\ next_event_index # next_index[t]
  /\ Step(t, "cas", "load")
  /\ UNCHANGED <<cift_enabled, shared, call, next_index, pending,
                 event_count, history>>

(* Thread t performs one of its pending stores, of value v to field f.     *)
Store(t, f, v) ==
  /\ f \in pending[t]
  /\ event_buffer' = [event_buffer EXCEPT ![next_index[t]][f] = v]
  /\ pending' = [pending EXCEPT ![t] = @ \ {f}]
  /\ UNCHANGED <<cift_enabled, next_event_index, total_events_added,
                 total_events_dropped, call, next_index, event_count,
                 history>>

(* A store between the claim and the fetch-and-add.                        *)
Fill(t) ==
  /\ Step(t, "fill", "fill")
  /\ \E f \in pending[t] :
       Store(t, f, IF f = "event_id" THEN Invalid ELSE Call(t))

(* Thread t is numbered from total_events_added, which becomes `total'.    *)
Number(t, total) ==
  /\ pending[t] = {}
  /\ Step(t, "fill", "publish")
  /\ event_count' = [event_count EXCEPT ![t] = total_events_added]
  /\ total_events_added' = total
  /\ pending' = [pending EXCEPT ![t] = {"event_count", "event_id"}]
  /\ counted' = Append(counted, Call(t))
  /\ UNCHANGED <<cift_enabled, next_event_index, total_events_dropped,
                 event_buffer, call, next_index, claims, claim_no, holder,
                 lapped>>

Count_LostUpdate(t) ==
  \E total \in {total_events_added, total_events_added + 1} : Number(t, total)

(* The fetch-and-add on total_events_added, a full barrier.                *)
Count(t) == Number(t, total_events_added + 1)

(* A store after the fetch-and-add of t's event, numbered n.  The hook     *)
(* returns after the second one.                                           *)
Finish(t, n) ==
  \E f \in pending[t] :
    /\ Step(t, "publish", IF pending[t] = {f} THEN "idle" ELSE "publish")
    /\ Store(t, f, IF f = "event_id" THEN Call(t) ELSE n)

Publish_ReadsTotal(t) == Finish(t, total_events_added - 1)

(* The stores of event_count and, "last to mark the event as complete", of *)
(* event_id.                                                               *)
Publish(t) == Finish(t, event_count[t])

Drop_Uncounted(t) ==
  /\ Step(t, "drop", "idle")
  /\ UNCHANGED <<cift_enabled, shared, call, next_index, pending,
                 event_count, history>>

Drop_CountedAsAdded(t) ==
  /\ Step(t, "drop", "idle")
  /\ total_events_added' = total_events_added + 1
  /\ UNCHANGED <<cift_enabled, next_event_index, total_events_dropped,
                 event_buffer, call, next_index, pending, event_count,
                 history>>

(* No slot was to be had: the event is counted as dropped.                 *)
Drop(t) ==
  /\ Step(t, "drop", "idle")
  /\ total_events_dropped' = total_events_dropped + 1
  /\ UNCHANGED <<cift_enabled, next_event_index, total_events_added,
                 event_buffer, call, next_index, pending, event_count,
                 history>>

LogStep(t) ==
  \/ Load(t)
  \/ Claim(t)
  \/ Retry(t)
  \/ Fill(t)
  \/ Count(t)
  \/ Publish(t)
  \/ Drop(t)

Next ==
  \/ \E enabled \in BOOLEAN : SetEnable(enabled)
  \/ \E t \in Threads : Hook(t) \/ LogStep(t)

Spec == Init /\ [][Next]_vars

(* The scheduler of the operating system runs every thread again and       *)
(* again, and nothing in the hook blocks.  The application is not obliged  *)
(* to call, or to enable tracing.                                          *)
Fairness == \A t \in Threads : WF_vars(LogStep(t))

FairSpec == Spec /\ Fairness

-----------------------------------------------------------------------------
(* The fields that a thread may have to store where it is.                 *)
MayStore(where) ==
  CASE where = "fill" -> DataFields \union {"event_id"}
    [] where = "publish" -> {"event_count", "event_id"}
    [] OTHER -> {}

(* The type invariant.  It includes what keeps every write inside the      *)
(* buffer: a thread that claims or writes has the index of a slot.         *)
TypeOK ==
  /\ cift_enabled \in BOOLEAN
  /\ next_event_index \in 0 .. MaxEventCount
  /\ total_events_added \in Nat
  /\ total_events_dropped \in Nat
  /\ event_buffer = [i \in Slots |-> [f \in Fields |-> event_buffer[i][f]]]
  /\ \A i \in Slots, f \in Fields :
       event_buffer[i][f] \in IF f = "event_count" THEN Nat \union {Garbage}
                             ELSE Calls \union {Invalid, Garbage}
  /\ pc \in [Threads -> {"idle", "load", "cas", "fill", "publish", "drop"}]
  /\ call \in [Threads -> 0 .. MaxCalls]
  /\ next_index \in [Threads -> 0 .. MaxEventCount]
  /\ pending \in [Threads -> SUBSET Fields]
  /\ \A t \in Threads : pending[t] \subseteq MayStore(pc[t])
  /\ event_count \in [Threads -> Nat]
  /\ claims \in Seq(Calls)
  /\ claim_no \in [Threads -> Nat]
  /\ counted \in Seq(Calls)
  /\ holder \in [Slots -> Calls \union {Garbage}]
  /\ lapped \in SUBSET Slots
  /\ \A t \in Threads : pc[t] \in {"cas", "fill", "publish"}
                           => next_index[t] \in Slots
  /\ \A t \in Threads : pc[t] # "idle" => call[t] > 0

(* The event in slot i is the whole event of call c: every field comes     *)
(* from c, and its number is the one c was given when it was counted.      *)
Intact(i, c) ==
  LET e == event_buffer[i] IN
  /\ \A f \in DataFields : e[f] = c
  /\ e["event_id"] = c
  /\ \E k \in 1 .. Len(counted) : counted[k] = c /\ e["event_count"] = k - 1

(* A slot nobody is writing holds the complete event of the call that      *)
(* claimed it last, unless that claim lapped a slower writer (cift.c:139   *)
(* to 183): no other interleaving of the claims and stores mixes two       *)
(* events.                                                                 *)
IntactUnlessLapped ==
  \A i \in Slots :
    (holder[i] # Garbage /\ i \notin lapped /\ Writers(i) = {})
      => Intact(i, holder[i])

(* Two threads write the same slot at the same time only when the buffer   *)
(* went all the way round between their claims, so never in the            *)
(* fill-and-stop mode (cift.c:107-137).                                    *)
ExclusiveUnlessLapped ==
  \A t, u \in Threads :
    (t # u /\ Writing(t) /\ Writing(u) /\ next_index[t] = next_index[u])
      => /\ ~ FillAndStop
         /\ \/ claim_no[t] >= claim_no[u] + MaxEventCount
            \/ claim_no[u] >= claim_no[t] + MaxEventCount

(* Unless its writer was lapped, a slot that was marked invalid stays so   *)
(* until the event is counted and its event_id stored; the data are        *)
(* complete when it is counted, and its number is right when it is stored  *)
(* (cift.c:139-141, 175-183).  More is not promised to a reader: before    *)
(* the fetch-and-add data may be stored ahead of the invalid mark, under   *)
(* an older event_id, and after it event_id ahead of event_count.          *)
MarkedUntilComplete ==
  \A t \in Threads :
    (Writing(t) /\ next_index[t] \notin lapped) =>
      LET e      == event_buffer[next_index[t]]
          stored == {"event_id", "event_count"} \ pending[t]
      IN /\ (pc[t] = "fill" /\ "event_id" \in stored) => e["event_id"] = Invalid
         /\ pc[t] = "publish" =>
              /\ \A f \in DataFields : e[f] = Call(t)
              /\ e["event_id"] = IF "event_id" \in stored THEN Call(t) ELSE Invalid
              /\ "event_count" \in stored => e["event_count"] = event_count[t]

(* The slot of the k-th claim.                                             *)
SlotOf(k) == IF FillAndStop THEN k - 1 ELSE (k - 1) % MaxEventCount

(* The buffer is the tail of the order of claims: a slot belongs to the    *)
(* newest claim that falls on it, and next_event_index is where the next   *)
(* claim will fall (cift.c:110-131).  A compare-and-swap that succeeds     *)
(* after the index went all the way round must not break this.             *)
RingHoldsNewest ==
  /\ next_event_index < MaxEventCount
       => next_event_index = SlotOf(Len(claims) + 1)
  /\ \A i \in Slots :
       \/ /\ holder[i] = Garbage
          /\ \A k \in 1 .. Len(claims) : SlotOf(k) # i
       \/ \E k \in 1 .. Len(claims) :
            /\ SlotOf(k) = i
            /\ holder[i] = claims[k]
            /\ \A m \in k + 1 .. Len(claims) : SlotOf(m) # i

(* The hook calls made so far, and the threads still looking for a slot.   *)
Made    == {c \in Calls : c[2] <= call[c[1]]}
Looking == {t \in Threads : pc[t] \in {"load", "cas", "drop"}}

EveryCallAccounted ==
  Cardinality(Made)
    = Len(claims) + total_events_dropped + Cardinality(Looking)

EveryClaimCounted ==
  Len(claims) = total_events_added
                + Cardinality({t \in Threads : pc[t] = "fill"})

(* No event goes missing: every hook call is claimed, counted as dropped   *)
(* or still looking for a slot, and every claim is counted as added or     *)
(* still being filled (cift.c:169-189).                                    *)
NothingLost == EveryCallAccounted /\ EveryClaimCounted

(* "do this last to mark the event as complete" (cift.c:183): once nobody  *)
(* writes, an event whose event_id is set is all of one call.              *)
CompleteIsIntact ==
  AtRest =>
    \A i \in Slots :
      event_buffer[i]["event_id"] \in Calls =>
        \A f \in DataFields : event_buffer[i][f] = event_buffer[i]["event_id"]

(* Every hook call returns: the busy-wait loop of cift_get_next_event      *)
(* starts over only when some other call has claimed a slot.               *)
EveryCallReturns == \A t \in Threads : pc[t] # "idle" ~> pc[t] = "idle"

(* The buffer implements the log: the step that appends a call is the      *)
(* compare-and-swap, the step that turns one away is the drop.             *)
Log == INSTANCE TraceLog WITH log <- claims, discarded <- total_events_dropped
ImplementsLog == Log!Spec

=============================================================================
