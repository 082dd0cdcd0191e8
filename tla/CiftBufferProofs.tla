-------------------------- MODULE CiftBufferProofs --------------------------
(***************************************************************************)
(* What holds of the event buffer for any number of threads, slots and     *)
(* calls, in both modes.                                                   *)
(***************************************************************************)
EXTENDS CiftBuffer, RingArithmetic, FiniteSetTheorems

(* The slots thread t is about to write lie inside the buffer, and every   *)
(* variable has its type.                                                  *)
LEMMA InitTypeOK == Init => TypeOK
BY BufferAssumption, ValueAssumption
   DEF Init, TypeOK, Slots, Fields, Calls

(* What a thread may have to store, place by place.                        *)
LEMMA MayStoreAt ==
  /\ MayStore("idle") = {}
  /\ MayStore("load") = {}
  /\ MayStore("cas") = {}
  /\ MayStore("drop") = {}
  /\ MayStore("fill") = DataFields \union {"event_id"}
  /\ MayStore("publish") = {"event_count", "event_id"}
BY DEF MayStore

(* A thread past the gate has made a call.                                 *)
LEMMA CallInCalls ==
  ASSUME TypeOK, NEW t \in Threads, pc[t] # "idle"
  PROVE  Call(t) \in Calls
<1>1. call[t] \in 1 .. MaxCalls
  BY BufferAssumption DEF TypeOK
<1> QED BY <1>1 DEF Call, Calls

(* A store changes one field of one slot, to a value of that field.        *)
LEMMA StoreTypeOK ==
  ASSUME TypeOK, NEW t \in Threads, NEW f \in Fields,
         NEW v \in IF f = "event_count" THEN Nat \union {Garbage}
                   ELSE Calls \union {Invalid, Garbage},
         next_index[t] \in Slots,
         event_buffer' = [event_buffer EXCEPT ![next_index[t]][f] = v]
  PROVE  /\ event_buffer' = [i \in Slots |-> [g \in Fields |-> event_buffer'[i][g]]]
         /\ \A i \in Slots, g \in Fields :
              /\ event_buffer'[i][g] =
                   IF i = next_index[t] /\ g = f THEN v ELSE event_buffer[i][g]
              /\ event_buffer'[i][g] \in
                   IF g = "event_count" THEN Nat \union {Garbage}
                   ELSE Calls \union {Invalid, Garbage}
<1>1. event_buffer = [i \in Slots |-> [g \in Fields |-> event_buffer[i][g]]]
  BY DEF TypeOK
<1>2. \A i \in Slots, g \in Fields :
        event_buffer'[i][g] =
          IF i = next_index[t] /\ g = f THEN v ELSE event_buffer[i][g]
  BY <1>1
<1>3. event_buffer' = [i \in Slots |-> [g \in Fields |-> event_buffer'[i][g]]]
  BY <1>1
<1> QED BY <1>2, <1>3 DEF TypeOK

(* A thread with nothing to store may move to where there is nothing to.   *)
LEMMA MoveTypeOK ==
  ASSUME TypeOK, NEW t \in Threads, UNCHANGED pending,
         NEW from \in {"idle", "load", "cas", "drop"},
         NEW to \in {"idle", "load", "cas", "drop"}, Step(t, from, to)
  PROVE  /\ pc' \in [Threads -> {"idle", "load", "cas", "fill", "publish", "drop"}]
         /\ \A u \in Threads : pending'[u] \subseteq MayStore(pc'[u])
BY MayStoreAt DEF TypeOK, Step

(* A thread that moves leaves the buffer and the history alone.            *)
LEMMA ControlTypeOK ==
  ASSUME TypeOK, NEW t \in Threads, UNCHANGED pending,
         NEW from \in {"idle", "load", "cas", "drop"},
         NEW to \in {"idle", "load", "cas", "drop"}, Step(t, from, to),
         UNCHANGED <<cift_enabled, next_event_index, total_events_added,
                     event_buffer, event_count, history>>,
         total_events_dropped' \in Nat,
         call' \in [Threads -> 0 .. MaxCalls],
         next_index' \in [Threads -> 0 .. MaxEventCount],
         \A u \in Threads : pc'[u] \in {"cas", "fill", "publish"}
                               => next_index'[u] \in Slots,
         \A u \in Threads : pc'[u] # "idle" => call'[u] > 0
  PROVE  TypeOK'
<1>1. /\ pc' \in [Threads -> {"idle", "load", "cas", "fill", "publish", "drop"}]
      /\ \A u \in Threads : pending'[u] \subseteq MayStore(pc'[u])
  BY MoveTypeOK
<1> QED BY <1>1 DEF TypeOK, history

(* Each step keeps the types.                                              *)
LEMMA NextTypeOK == TypeOK /\ [Next]_vars => TypeOK'
<1> SUFFICES ASSUME TypeOK, [Next]_vars PROVE TypeOK'
  OBVIOUS
<1> USE BufferAssumption, ValueAssumption
<1>1. ASSUME NEW enabled \in BOOLEAN, SetEnable(enabled) PROVE TypeOK'
  BY <1>1 DEF TypeOK, SetEnable, shared, history
<1>2. ASSUME NEW t \in Threads, Hook(t) PROVE TypeOK'
  <2>1. UNCHANGED pending /\ Step(t, "idle", "load")
    BY <1>2 DEF Hook
  <2>2. /\ call' \in [Threads -> 0 .. MaxCalls]
        /\ \A u \in Threads : pc'[u] # "idle" => call'[u] > 0
    BY <1>2, <2>1, SMTT(30) DEF TypeOK, Hook, Step
  <2>3. UNCHANGED <<cift_enabled, next_index, event_count, shared, history>>
    BY <1>2 DEF Hook
  <2>4. \A u \in Threads :
          pc'[u] \in {"cas", "fill", "publish"} => next_index'[u] \in Slots
    BY <2>1, <2>3 DEF TypeOK, Step
  <2>5. next_index' \in [Threads -> 0 .. MaxEventCount] /\ total_events_dropped' \in Nat
    BY <2>3 DEF TypeOK, shared
  <2> QED BY <2>1, <2>2, <2>3, <2>4, <2>5, ControlTypeOK DEF shared
<1>3. ASSUME NEW t \in Threads, Load(t) PROVE TypeOK'
  <2>1. PICK to \in {"drop", "cas"} :
          /\ UNCHANGED pending /\ Step(t, "load", to)
          /\ to = "cas" => ~ IsPastEnd(next_event_index)
    BY <1>3 DEF Load
  <2>2. /\ UNCHANGED <<cift_enabled, call, event_count, shared, history>>
        /\ next_index' = [next_index EXCEPT ![t] = next_event_index]
    BY <1>3 DEF Load
  <2>3. to = "cas" => next_event_index \in Slots
    BY <2>1 DEF TypeOK, IsPastEnd, Slots
  <2>4. \A u \in Threads :
          pc'[u] \in {"cas", "fill", "publish"} => next_index'[u] \in Slots
    BY <2>1, <2>2, <2>3 DEF TypeOK, Step
  <2>5. \A u \in Threads : pc'[u] # "idle" => call'[u] > 0
    BY <2>1, <2>2 DEF TypeOK, Step
  <2>6. /\ next_index' \in [Threads -> 0 .. MaxEventCount]
        /\ call' \in [Threads -> 0 .. MaxCalls]
        /\ total_events_dropped' \in Nat
    BY <2>2 DEF TypeOK, shared
  <2> QED BY <2>1, <2>2, <2>4, <2>5, <2>6, ControlTypeOK DEF shared
<1>4. ASSUME NEW t \in Threads, Claim(t) PROVE TypeOK'
  <2>1. next_index[t] \in Slots /\ NewNextIndex(next_index[t]) \in 0 .. MaxEventCount
    BY <1>4 DEF TypeOK, Claim, Take, Step, NewNextIndex, Slots
  <2>2. Call(t) \in Calls
    BY <1>4, CallInCalls DEF Claim, Take, Step
  <2>3. /\ claims' \in Seq(Calls)
        /\ claim_no' \in [Threads -> Nat]
        /\ holder' \in [Slots -> Calls \union {Garbage}]
        /\ lapped' \in SUBSET Slots
    BY <1>4, <2>1, <2>2 DEF TypeOK, Claim, Take
  <2>4. /\ pc' = [pc EXCEPT ![t] = "fill"]
        /\ pending' = [pending EXCEPT ![t] = DataFields \union {"event_id"}]
    BY <1>4 DEF Claim, Take, Step
  <2>5. /\ pc' \in [Threads -> {"idle", "load", "cas", "fill", "publish", "drop"}]
        /\ pending' \in [Threads -> SUBSET Fields]
        /\ \A u \in Threads : pending'[u] \subseteq MayStore(pc'[u])
    BY <2>4, MayStoreAt DEF TypeOK, Fields
  <2>6. /\ UNCHANGED <<cift_enabled, total_events_added, total_events_dropped,
                       event_buffer, call, next_index, event_count, counted>>
        /\ next_event_index' \in 0 .. MaxEventCount
    BY <1>4, <2>1 DEF Claim, Take
  <2>7. \A u \in Threads : pc'[u] \in {"cas", "fill", "publish"}
                            => next_index'[u] \in Slots
    BY <2>1, <2>4, <2>6 DEF TypeOK
  <2>8. \A u \in Threads : pc'[u] # "idle" => call'[u] > 0
    BY <1>4, <2>4, <2>6 DEF TypeOK, Claim, Take, Step
  <2> QED BY <2>3, <2>5, <2>6, <2>7, <2>8 DEF TypeOK
<1>5. ASSUME NEW t \in Threads, Retry(t) PROVE TypeOK'
  <2>1. UNCHANGED pending /\ Step(t, "cas", "load")
    BY <1>5 DEF Retry
  <2>2. /\ UNCHANGED <<cift_enabled, next_event_index, total_events_added,
                       event_buffer, call, next_index, event_count, history>>
        /\ total_events_dropped' \in Nat
    BY <1>5 DEF TypeOK, Retry, shared
  <2>3. /\ \A u \in Threads : pc'[u] \in {"cas", "fill", "publish"}
                                => next_index'[u] \in Slots
        /\ \A u \in Threads : pc'[u] # "idle" => call'[u] > 0
    BY <2>1, <2>2 DEF TypeOK, Step
  <2>4. /\ next_index' \in [Threads -> 0 .. MaxEventCount]
        /\ call' \in [Threads -> 0 .. MaxCalls]
    BY <2>2 DEF TypeOK
  <2> QED BY <2>1, <2>2, <2>3, <2>4, ControlTypeOK
<1>6. ASSUME NEW t \in Threads, Fill(t) PROVE TypeOK'
  <2>1. PICK f \in pending[t] :
          Store(t, f, IF f = "event_id" THEN Invalid ELSE Call(t))
    BY <1>6 DEF Fill
  <2>2. /\ next_index[t] \in Slots
        /\ f \in DataFields \union {"event_id"}
        /\ Call(t) \in Calls
    BY <1>6, <2>1, CallInCalls, MayStoreAt DEF TypeOK, Fill, Step
  <2>3. /\ event_buffer' = [i \in Slots |-> [g \in Fields |-> event_buffer'[i][g]]]
        /\ \A i \in Slots, g \in Fields :
             event_buffer'[i][g] \in
               IF g = "event_count" THEN Nat \union {Garbage}
               ELSE Calls \union {Invalid, Garbage}
    BY <2>1, <2>2, StoreTypeOK DEF Store, Fields
  <2> QED BY <1>6, <2>1, <2>2, <2>3, SMTT(30) DEF TypeOK, Fill, Store, Step, history
<1>7. ASSUME NEW t \in Threads, Count(t) PROVE TypeOK'
  <2>1. Call(t) \in Calls
    BY <1>7, CallInCalls DEF Count, Number, Step
  <2>2. /\ pc' = [pc EXCEPT ![t] = "publish"]
        /\ pending' = [pending EXCEPT ![t] = {"event_count", "event_id"}]
    BY <1>7 DEF Count, Number, Step
  <2>3. /\ pc' \in [Threads -> {"idle", "load", "cas", "fill", "publish", "drop"}]
        /\ pending' \in [Threads -> SUBSET Fields]
        /\ \A u \in Threads : pending'[u] \subseteq MayStore(pc'[u])
    BY <2>2, MayStoreAt DEF TypeOK, Fields
  <2>4. /\ counted' \in Seq(Calls)
        /\ total_events_added' \in Nat
        /\ event_count' \in [Threads -> Nat]
    BY <1>7, <2>1 DEF TypeOK, Count, Number
  <2>5. \A u \in Threads : pc'[u] \in {"cas", "fill", "publish"}
                            => next_index'[u] \in Slots
    BY <1>7, <2>2 DEF TypeOK, Count, Number, Step
  <2>6. \A u \in Threads : pc'[u] # "idle" => call'[u] > 0
    BY <1>7, <2>2 DEF TypeOK, Count, Number, Step
  <2>7. UNCHANGED <<cift_enabled, next_event_index, total_events_dropped,
                    event_buffer, call, next_index, claims, claim_no, holder,
                    lapped>>
    BY <1>7 DEF Count, Number
  <2> QED BY <2>3, <2>4, <2>5, <2>6, <2>7 DEF TypeOK
<1>8. ASSUME NEW t \in Threads, Publish(t) PROVE TypeOK'
  <2>1. PICK f \in pending[t] :
          /\ Step(t, "publish", IF pending[t] = {f} THEN "idle" ELSE "publish")
          /\ Store(t, f, IF f = "event_id" THEN Call(t) ELSE event_count[t])
    BY <1>8 DEF Publish, Finish
  <2>2. /\ next_index[t] \in Slots
        /\ f \in {"event_count", "event_id"}
        /\ Call(t) \in Calls
    BY <2>1, CallInCalls, MayStoreAt DEF TypeOK, Step
  <2>3. event_count[t] \in Nat
    BY DEF TypeOK
  <2>4. (IF f = "event_id" THEN Call(t) ELSE event_count[t])
          \in IF f = "event_count" THEN Nat \union {Garbage}
             ELSE Calls \union {Invalid, Garbage}
    BY <2>2, <2>3
  <2>5. /\ event_buffer' = [i \in Slots |-> [g \in Fields |-> event_buffer'[i][g]]]
        /\ \A i \in Slots, g \in Fields :
             event_buffer'[i][g] \in
               IF g = "event_count" THEN Nat \union {Garbage}
               ELSE Calls \union {Invalid, Garbage}
    BY <2>1, <2>2, <2>4, StoreTypeOK, ZenonT(30) DEF Store, Fields
  <2>6. /\ pc' \in [Threads -> {"idle", "load", "cas", "fill", "publish", "drop"}]
        /\ \A u \in Threads : u # t => pc'[u] = pc[u]
        /\ pc'[t] = IF pending[t] = {f} THEN "idle" ELSE "publish"
    BY <2>1 DEF TypeOK, Step
  <2>7. pending' = [pending EXCEPT ![t] = @ \ {f}]
    BY <2>1 DEF Store
  <2>8. /\ pending' \in [Threads -> SUBSET Fields]
        /\ \A u \in Threads : pending'[u] \subseteq MayStore(pc'[u])
    BY <2>1, <2>6, <2>7, MayStoreAt DEF TypeOK, Step
  <2>9. UNCHANGED <<cift_enabled, next_event_index, total_events_added,
                    total_events_dropped, call, next_index, event_count,
                    history>>
    BY <2>1 DEF Store
  <2>10. /\ \A u \in Threads : pc'[u] \in {"cas", "fill", "publish"}
                                 => next_index'[u] \in Slots
         /\ \A u \in Threads : pc'[u] # "idle" => call'[u] > 0
    BY <2>1, <2>2, <2>6, <2>9 DEF TypeOK, Step
  <2> QED BY <2>5, <2>6, <2>8, <2>9, <2>10 DEF TypeOK, history
<1>9. ASSUME NEW t \in Threads, Drop(t) PROVE TypeOK'
  <2>1. UNCHANGED pending /\ Step(t, "drop", "idle")
    BY <1>9 DEF Drop
  <2>2. /\ UNCHANGED <<cift_enabled, next_event_index, total_events_added,
                       event_buffer, call, next_index, event_count, history>>
        /\ total_events_dropped' \in Nat
    BY <1>9 DEF TypeOK, Drop, shared
  <2>3. /\ \A u \in Threads : pc'[u] \in {"cas", "fill", "publish"}
                                => next_index'[u] \in Slots
        /\ \A u \in Threads : pc'[u] # "idle" => call'[u] > 0
    BY <2>1, <2>2 DEF TypeOK, Step
  <2>4. /\ next_index' \in [Threads -> 0 .. MaxEventCount]
        /\ call' \in [Threads -> 0 .. MaxCalls]
    BY <2>2 DEF TypeOK
  <2> QED BY <2>1, <2>2, <2>3, <2>4, ControlTypeOK
<1>10. CASE UNCHANGED vars
  BY <1>10 DEF TypeOK, vars, shared, history
<1> QED BY <1>1, <1>2, <1>3, <1>4, <1>5, <1>6, <1>7, <1>8, <1>9, <1>10
        DEF Next, LogStep

(* Every variable keeps its type, and a thread that claims or writes has   *)
(* the index of a slot: no event is ever written outside the buffer.       *)
THEOREM TypeCorrect == Spec => []TypeOK
<1>1. Init => TypeOK
  BY InitTypeOK
<1>2. TypeOK /\ [Next]_vars => TypeOK'
  BY NextTypeOK
<1> QED BY <1>1, <1>2, PTL DEF Spec

-----------------------------------------------------------------------------
(* The inductive invariant, in parts.                                      *)

(* next_event_index follows from the number of claims.                     *)
IndexInv ==
  /\ FillAndStop => next_event_index = Len(claims)
  /\ (~ FillAndStop /\ MaxEventCount > 0)
       => next_event_index = Len(claims) % MaxEventCount

(* Once a thread found the buffer full it stays full.                      *)
DropInv ==
  \A t \in Threads : pc[t] = "drop" => next_event_index >= MaxEventCount

(* A writer writes the slot of its claim.                                  *)
ClaimInv ==
  \A t \in Threads :
    Writing(t) => /\ claim_no[t] \in 1 .. Len(claims)
                  /\ claims[claim_no[t]] = Call(t)
                  /\ next_index[t] = SlotOf(claim_no[t])

(* A thread that was not lapped is the last to have claimed its slot.      *)
HolderInv ==
  \A t \in Threads :
    (Writing(t) /\ next_index[t] \notin lapped)
      => holder[next_index[t]] = Call(t)

LappedInv == FillAndStop => lapped = {}

(* A counted event has the number of its place among the counted.          *)
CountInv ==
  /\ total_events_added = Len(counted)
  /\ \A t \in Threads :
       pc[t] = "publish" => /\ event_count[t] + 1 \in 1 .. Len(counted)
                            /\ counted[event_count[t] + 1] = Call(t)

(* The stores of a writer that was not lapped are those it has performed.  *)
ContentInv ==
  \A t \in Threads :
    (Writing(t) /\ next_index[t] \notin lapped) =>
      LET e == event_buffer[next_index[t]] IN
      /\ \A f \in DataFields \ pending[t] : e[f] = Call(t)
      /\ "event_id" \notin pending[t] =>
           e["event_id"] = IF pc[t] = "fill" THEN Invalid ELSE Call(t)
      /\ (pc[t] = "publish" /\ "event_id" \in pending[t])
           => e["event_id"] = Invalid
      /\ (pc[t] = "publish" /\ "event_count" \notin pending[t])
           => e["event_count"] = event_count[t]

(* The claims of a thread are in the order of its calls.                   *)
OrderInv ==
  \A t \in Threads, k \in 1 .. Len(claims) :
    claims[k][1] = t =>
      /\ claims[k][2] <= call[t]
      /\ pc[t] \in {"load", "cas", "drop"} => claims[k][2] < call[t]

-----------------------------------------------------------------------------
(* Only a claim changes next_event_index and claims.                       *)
LEMMA OnlyClaimClaims ==
  ASSUME [Next]_vars, ~ \E t \in Threads : Claim(t)
  PROVE  UNCHANGED <<next_event_index, claims, claim_no, holder, lapped>>
BY DEF Next, LogStep, vars, shared, history, SetEnable, Hook, Load, Retry,
       Fill, Store, Count, Number, Publish, Finish, Drop

(* A claim moves next_event_index to the slot of the claim after it.       *)
LEMMA IndexInvStep == TypeOK /\ IndexInv /\ [Next]_vars => IndexInv'
<1> SUFFICES ASSUME TypeOK, IndexInv, [Next]_vars PROVE IndexInv'
  OBVIOUS
<1> USE BufferAssumption
<1>1. ASSUME NEW t \in Threads, Claim(t) PROVE IndexInv'
  <2>1. /\ next_index[t] \in Slots
        /\ next_event_index = next_index[t]
        /\ next_event_index' = NewNextIndex(next_index[t])
        /\ Len(claims') = Len(claims) + 1
        /\ Len(claims) \in Nat
        /\ MaxEventCount \in Nat \ {0}
    BY <1>1 DEF TypeOK, Claim, Take, Step, Slots
  <2>2. ~ FillAndStop => (Len(claims) + 1) % MaxEventCount =
          IF (Len(claims) % MaxEventCount) + 1 >= MaxEventCount
            THEN 0 ELSE (Len(claims) % MaxEventCount) + 1
    BY <2>1, ModNext
  <2> QED BY <2>1, <2>2 DEF IndexInv, NewNextIndex
<1>2. CASE ~ \E t \in Threads : Claim(t)
  BY <1>2, OnlyClaimClaims DEF IndexInv
<1> QED BY <1>1, <1>2

(* The buffer is full for good.                                            *)
LEMMA DropInvStep == TypeOK /\ DropInv /\ [Next]_vars => DropInv'
<1> SUFFICES ASSUME TypeOK, DropInv, [Next]_vars, NEW u \in Threads,
                    pc'[u] = "drop"
             PROVE  next_event_index' >= MaxEventCount
  BY DEF DropInv
<1> USE BufferAssumption
<1>1. ASSUME NEW t \in Threads, Claim(t) PROVE FALSE
  BY <1>1 DEF TypeOK, DropInv, Claim, Take, Step, Slots
<1>2. ASSUME NEW t \in Threads, Load(t) PROVE next_event_index' >= MaxEventCount
  BY <1>2 DEF TypeOK, DropInv, Load, Step, IsPastEnd, shared
<1>3. CASE ~ \E t \in Threads : Claim(t) \/ Load(t)
  <2>1. next_event_index' = next_event_index
    BY <1>3, OnlyClaimClaims
  <2>2. pc[u] = "drop"
    BY <1>3, SMTT(30) DEF TypeOK, Next, LogStep, vars, SetEnable, Hook, Retry, Fill, Count,
            Number, Publish, Finish, Drop, Step
  <2> QED BY <2>1, <2>2 DEF DropInv
<1> QED BY <1>1, <1>2, <1>3

(* Only a claim of its own makes a thread a writer.                        *)
LEMMA WriterWrote ==
  ASSUME TypeOK, [Next]_vars, NEW u \in Threads, Writing(u)', ~ Claim(u)
  PROVE  Writing(u) /\ next_index'[u] = next_index[u] /\ call'[u] = call[u]
<1>1. ASSUME NEW enabled \in BOOLEAN, SetEnable(enabled)
      PROVE  Writing(u) /\ UNCHANGED <<next_index, call>>
  BY <1>1 DEF SetEnable, Writing
<1>2. ASSUME NEW t \in Threads, Hook(t)
      PROVE  Writing(u) /\ next_index' = next_index /\ call'[u] = call[u]
  BY <1>2 DEF TypeOK, Hook, Step, Writing
<1>3. ASSUME NEW t \in Threads, Load(t)
      PROVE  Writing(u) /\ next_index'[u] = next_index[u] /\ call' = call
  BY <1>3 DEF TypeOK, Load, Step, Writing
<1>4. ASSUME NEW t \in Threads, Claim(t)
      PROVE  Writing(u) /\ UNCHANGED <<next_index, call>>
  BY <1>4 DEF TypeOK, Claim, Take, Step, Writing
<1>5. ASSUME NEW t \in Threads, Retry(t)
      PROVE  Writing(u) /\ UNCHANGED <<next_index, call>>
  BY <1>5 DEF TypeOK, Retry, Step, Writing
<1>6. ASSUME NEW t \in Threads, Fill(t)
      PROVE  Writing(u) /\ UNCHANGED <<next_index, call>>
  BY <1>6 DEF TypeOK, Fill, Store, Step, Writing
<1>7. ASSUME NEW t \in Threads, Count(t)
      PROVE  Writing(u) /\ UNCHANGED <<next_index, call>>
  BY <1>7 DEF TypeOK, Count, Number, Step, Writing
<1>8. ASSUME NEW t \in Threads, Publish(t)
      PROVE  Writing(u) /\ UNCHANGED <<next_index, call>>
  BY <1>8 DEF TypeOK, Publish, Finish, Store, Step, Writing
<1>9. ASSUME NEW t \in Threads, Drop(t)
      PROVE  Writing(u) /\ UNCHANGED <<next_index, call>>
  BY <1>9 DEF TypeOK, Drop, Step, Writing
<1>10. CASE UNCHANGED vars
  BY <1>10 DEF vars, Writing
<1> QED BY <1>1, <1>2, <1>3, <1>4, <1>5, <1>6, <1>7, <1>8, <1>9, <1>10
        DEF Next, LogStep

(* The history of the claims is only extended, so a writer's claim stays.  *)
LEMMA ClaimInvStep ==
  TypeOK /\ IndexInv /\ ClaimInv /\ [Next]_vars => ClaimInv'
<1> SUFFICES ASSUME TypeOK, IndexInv, ClaimInv, [Next]_vars,
                    NEW u \in Threads, Writing(u)'
             PROVE  /\ claim_no'[u] \in 1 .. Len(claims')
                    /\ claims'[claim_no'[u]] = Call(u)'
                    /\ next_index'[u] = SlotOf(claim_no'[u])
  BY DEF ClaimInv, SlotOf, Writing, Call
<1> USE BufferAssumption
<1>1. ASSUME NEW t \in Threads, Claim(t)
      PROVE  /\ claim_no'[u] \in 1 .. Len(claims')
             /\ claims'[claim_no'[u]] = Call(u)'
             /\ next_index'[u] = SlotOf(claim_no'[u])
  <2>1. /\ claims' = Append(claims, Call(t))
        /\ Len(claims') = Len(claims) + 1
        /\ \A k \in 1 .. Len(claims) : claims'[k] = claims[k]
        /\ claims'[Len(claims) + 1] = Call(t)
        /\ Len(claims) \in Nat
        /\ UNCHANGED <<next_index, call>>
        /\ next_index[t] \in Slots
        /\ next_event_index = next_index[t]
    BY <1>1 DEF TypeOK, Claim, Take, Step
  <2>2. CASE u = t
    <3>1. claim_no'[t] = Len(claims) + 1
      BY <1>1 DEF TypeOK, Claim, Take
    <3>2. next_index[t] = SlotOf(Len(claims) + 1)
      BY <2>1 DEF IndexInv, SlotOf, Slots
    <3> QED BY <2>1, <2>2, <3>1, <3>2 DEF Call
  <2>3. CASE u # t
    <3>1. claim_no'[u] = claim_no[u] /\ Writing(u)
      BY <1>1, <2>3 DEF TypeOK, Claim, Take, Step, Writing
    <3> QED BY <2>1, <3>1 DEF ClaimInv, Call
  <2> QED BY <2>2, <2>3
<1>2. CASE ~ \E t \in Threads : Claim(t)
  <2>1. UNCHANGED <<claims, claim_no>>
    BY <1>2, OnlyClaimClaims
  <2>2. Writing(u) /\ next_index'[u] = next_index[u] /\ call'[u] = call[u]
    BY <1>2, WriterWrote
  <2> QED BY <2>1, <2>2 DEF ClaimInv, Call
<1> QED BY <1>1, <1>2

(* A step in which nobody claims, stores or counts leaves the buffer and   *)
(* every writer alone.                                                     *)
Quiet ==
  /\ UNCHANGED <<next_event_index, total_events_added, event_buffer, pending,
                 event_count, history>>
  /\ \A u \in Threads :
       \/ /\ pc'[u] = pc[u]
          /\ call'[u] = call[u]
          /\ next_index'[u] = next_index[u]
       \/ ~ Writing(u) /\ ~ Writing(u)'

(* Every step is a quiet one or one of the four that touch a slot.         *)
LEMMA QuietOrWrites ==
  ASSUME TypeOK, [Next]_vars
  PROVE  Quiet \/ \E t \in Threads :
                    Claim(t) \/ Fill(t) \/ Count(t) \/ Publish(t)
<1>1. ASSUME NEW enabled \in BOOLEAN, SetEnable(enabled) PROVE Quiet
  BY <1>1 DEF SetEnable, Quiet, shared, history
<1>2. ASSUME NEW t \in Threads, Hook(t) PROVE Quiet
  BY <1>2 DEF TypeOK, Hook, Step, Quiet, shared, history, Writing
<1>3. ASSUME NEW t \in Threads, Load(t) PROVE Quiet
  BY <1>3 DEF TypeOK, Load, Step, Quiet, shared, history, Writing
<1>4. ASSUME NEW t \in Threads, Retry(t) PROVE Quiet
  BY <1>4 DEF TypeOK, Retry, Step, Quiet, shared, history, Writing
<1>5. ASSUME NEW t \in Threads, Drop(t) PROVE Quiet
  BY <1>5 DEF TypeOK, Drop, Step, Quiet, history, Writing
<1>6. CASE UNCHANGED vars
  BY <1>6 DEF vars, shared, history, Quiet
<1> QED BY <1>1, <1>2, <1>3, <1>4, <1>5, <1>6 DEF Next, LogStep

(* A claim gives the slot to its thread, and laps whoever still writes it. *)
LEMMA ClaimSteals ==
  ASSUME TypeOK, NEW t \in Threads, Claim(t)
  PROVE  /\ next_index[t] \in Slots
         /\ holder' = [holder EXCEPT ![next_index[t]] = Call(t)]
         /\ holder'[next_index[t]] = Call(t)
         /\ \A i \in Slots \ {next_index[t]} :
              holder'[i] = holder[i] /\ (i \in lapped' <=> i \in lapped)
         /\ next_index[t] \notin lapped' <=> Writers(next_index[t]) = {}
         /\ UNCHANGED <<next_index, call, event_buffer, event_count, counted,
                        total_events_added>>
         /\ pending'[t] = DataFields \union {"event_id"} /\ pc'[t] = "fill"
         /\ ~ Writing(t)
         /\ \A u \in Threads \ {t} : pc'[u] = pc[u] /\ pending'[u] = pending[u]
BY DEF TypeOK, Claim, Take, Step, Writing

(* The holder of a slot changes with a claim only.                         *)
LEMMA HolderInvStep == TypeOK /\ HolderInv /\ [Next]_vars => HolderInv'
<1> SUFFICES ASSUME TypeOK, HolderInv, [Next]_vars, NEW u \in Threads,
                    Writing(u)', next_index'[u] \notin lapped'
             PROVE  holder'[next_index'[u]] = Call(u)'
  BY DEF HolderInv, Writing, Call
<1>1. ASSUME NEW t \in Threads, Claim(t)
      PROVE  holder'[next_index'[u]] = Call(u)'
  <2>1. CASE u = t
    BY <1>1, <2>1, ClaimSteals DEF Call
  <2>2. CASE u # t
    <3>1. Writing(u) /\ next_index[u] \in Slots
      BY <1>1, <2>2, ClaimSteals DEF Writing, TypeOK
    <3>2. next_index[u] # next_index[t]
      BY <1>1, <3>1, ClaimSteals DEF Writers
    <3>3. next_index[u] \notin lapped /\ holder'[next_index[u]] = holder[next_index[u]]
      BY <1>1, <3>1, <3>2, ClaimSteals
    <3> QED BY <1>1, <3>1, <3>3, ClaimSteals DEF HolderInv, Call
  <2> QED BY <2>1, <2>2
<1>2. CASE ~ \E t \in Threads : Claim(t)
  <2>1. UNCHANGED <<holder, lapped>>
    BY <1>2, OnlyClaimClaims
  <2>2. Writing(u) /\ next_index'[u] = next_index[u] /\ call'[u] = call[u]
    BY <1>2, WriterWrote
  <2> QED BY <2>1, <2>2 DEF HolderInv, Call
<1> QED BY <1>1, <1>2

(* In the fill-and-stop mode a claim finds nobody in its slot.             *)
LEMMA LappedInvStep ==
  TypeOK /\ IndexInv /\ ClaimInv /\ LappedInv /\ [Next]_vars => LappedInv'
<1> SUFFICES ASSUME TypeOK, IndexInv, ClaimInv, LappedInv, [Next]_vars,
                    FillAndStop
             PROVE  lapped' = {}
  BY DEF LappedInv
<1>1. ASSUME NEW t \in Threads, Claim(t) PROVE lapped' = {}
  <2>1. next_index[t] = Len(claims)
    BY <1>1 DEF Claim, IndexInv
  <2>2. Writers(next_index[t]) = {}
    <3> SUFFICES ASSUME NEW u \in Threads, Writing(u), next_index[u] = next_index[t]
                 PROVE  FALSE
      BY DEF Writers
    <3>1. Len(claims) \in Nat
      BY DEF TypeOK
    <3> QED BY <2>1, <3>1 DEF ClaimInv, SlotOf
  <2> QED BY <1>1, <2>2 DEF LappedInv, Claim, Take
<1>2. CASE ~ \E t \in Threads : Claim(t)
  BY <1>2, OnlyClaimClaims DEF LappedInv
<1> QED BY <1>1, <1>2

(* The fetch-and-add gives each event a number of its own.                 *)
LEMMA CountInvStep == TypeOK /\ CountInv /\ [Next]_vars => CountInv'
<1> SUFFICES ASSUME TypeOK, CountInv, [Next]_vars PROVE CountInv'
  OBVIOUS
<1>0. Len(counted) \in Nat
  BY DEF TypeOK
<1>1. ASSUME NEW t \in Threads, Count(t) PROVE CountInv'
  <2>1. /\ counted' = Append(counted, Call(t))
        /\ Len(counted') = Len(counted) + 1
        /\ counted'[Len(counted) + 1] = Call(t)
        /\ \A k \in 1 .. Len(counted) : counted'[k] = counted[k]
    BY <1>1 DEF TypeOK, Count, Number
  <2>2. /\ total_events_added' = total_events_added + 1
        /\ event_count'[t] = total_events_added
        /\ UNCHANGED call
        /\ \A u \in Threads \ {t} : pc'[u] = pc[u] /\ event_count'[u] = event_count[u]
    BY <1>1 DEF TypeOK, Count, Number, Step
  <2> QED BY <1>0, <2>1, <2>2 DEF CountInv, Call
<1>2. ASSUME NEW t \in Threads, Claim(t) PROVE CountInv'
  BY <1>2, ClaimSteals DEF CountInv, Call
<1>3. ASSUME NEW t \in Threads, Fill(t) PROVE CountInv'
  BY <1>3 DEF TypeOK, CountInv, Fill, Store, Step, history, Call
<1>4. ASSUME NEW t \in Threads, Publish(t) PROVE CountInv'
  BY <1>4 DEF TypeOK, CountInv, Publish, Finish, Store, Step, history, Call
<1>5. CASE Quiet
  BY <1>5 DEF CountInv, Quiet, history, Call, Writing
<1> QED BY <1>1, <1>2, <1>3, <1>4, <1>5, QuietOrWrites

(* A slot that was not lapped has one writer.                              *)
LEMMA OneWriter ==
  ASSUME HolderInv, NEW t \in Threads, NEW u \in Threads, t # u,
         Writing(t), Writing(u), next_index[u] \notin lapped
  PROVE  next_index[t] # next_index[u]
BY DEF HolderInv, Call

(* A store changes one field of one slot.                                  *)
LEMMA StoreChanges ==
  ASSUME TypeOK, NEW t \in Threads, Writing(t), NEW f, NEW v, Store(t, f, v)
  PROVE  /\ f \in pending[t] /\ f \in Fields /\ f \in MayStore(pc[t])
         /\ next_index[t] \in Slots
         /\ pending'[t] = pending[t] \ {f}
         /\ \A u \in Threads \ {t} : pending'[u] = pending[u]
         /\ \A i \in Slots \ {next_index[t]} : event_buffer'[i] = event_buffer[i]
         /\ \A g \in Fields :
              event_buffer'[next_index[t]][g] =
                IF g = f THEN v ELSE event_buffer[next_index[t]][g]
         /\ UNCHANGED <<call, next_index, event_count, history>>
<1>1. event_buffer = [i \in Slots |-> [g \in Fields |-> event_buffer[i][g]]]
  BY DEF TypeOK
<1>2. next_index[t] \in Slots /\ f \in Fields /\ f \in MayStore(pc[t])
  BY DEF TypeOK, Store, Writing
<1>3. event_buffer' = [event_buffer EXCEPT ![next_index[t]][f] = v]
  BY DEF Store
<1>4. /\ \A i \in Slots \ {next_index[t]} : event_buffer'[i] = event_buffer[i]
      /\ \A g \in Fields :
           event_buffer'[next_index[t]][g] =
             IF g = f THEN v ELSE event_buffer[next_index[t]][g]
  BY <1>1, <1>2, <1>3
<1>5. /\ f \in pending[t]
      /\ pending'[t] = pending[t] \ {f}
      /\ \A u \in Threads \ {t} : pending'[u] = pending[u]
      /\ UNCHANGED <<call, next_index, event_count, history>>
  BY DEF TypeOK, Store
<1> QED BY <1>2, <1>4, <1>5

(* What ContentInv says of one thread.                                     *)
Content(t) ==
  LET e == event_buffer[next_index[t]] IN
  /\ \A f \in DataFields \ pending[t] : e[f] = Call(t)
  /\ "event_id" \notin pending[t] =>
       e["event_id"] = IF pc[t] = "fill" THEN Invalid ELSE Call(t)
  /\ (pc[t] = "publish" /\ "event_id" \in pending[t])
       => e["event_id"] = Invalid
  /\ (pc[t] = "publish" /\ "event_count" \notin pending[t])
       => e["event_count"] = event_count[t]

(* While a thread keeps its slot to itself, the slot holds its stores.     *)
LEMMA ContentInvStep ==
  TypeOK /\ HolderInv /\ ContentInv /\ [Next]_vars => ContentInv'
<1> SUFFICES ASSUME TypeOK, HolderInv, ContentInv, [Next]_vars,
                    NEW u \in Threads, Writing(u)', next_index'[u] \notin lapped'
             PROVE  Content(u)'
  BY DEF ContentInv, Content, Writing, Call
<1> USE BufferAssumption
<1>a. \A t \in Threads : Writing(t) /\ next_index[t] \notin lapped => Content(t)
  BY DEF ContentInv, Content
<1>1. ASSUME NEW t \in Threads, Claim(t) PROVE Content(u)'
  <2>1. CASE u = t
    BY <1>1, <2>1, ClaimSteals DEF Content
  <2>2. CASE u # t
    <3>1. Writing(u) /\ next_index[u] \in Slots
      BY <1>1, <2>2, ClaimSteals DEF Writing, TypeOK
    <3>2. next_index[u] # next_index[t]
      BY <1>1, <3>1, ClaimSteals DEF Writers
    <3>3. next_index[u] \notin lapped
      BY <1>1, <3>1, <3>2, ClaimSteals
    <3>4. Content(u)
      BY <1>a, <3>1, <3>3
    <3> QED BY <1>1, <2>2, <3>4, ClaimSteals DEF Content, Call
  <2> QED BY <2>1, <2>2
<1>2. ASSUME NEW t \in Threads, Fill(t) PROVE Content(u)'
  <2>1. PICK f \in pending[t] :
          Store(t, f, IF f = "event_id" THEN Invalid ELSE Call(t))
    BY <1>2 DEF Fill
  <2>2. /\ Writing(t) /\ pc[t] = "fill" /\ UNCHANGED <<pc, lapped>>
        /\ Writing(u) /\ next_index[u] \notin lapped
    BY <1>2, <2>1 DEF TypeOK, Fill, Step, Writing, Store, history
  <2>3. Content(u) /\ next_index[u] \in Slots
    BY <1>a, <2>2 DEF TypeOK, Writing
  <2>4. f \in DataFields \union {"event_id"}
    BY <2>1, <2>2, StoreChanges, MayStoreAt
  <2>5. CASE u = t
    <3>1. \A g \in Fields :
            event_buffer'[next_index[t]][g] =
              IF g = f THEN IF f = "event_id" THEN Invalid ELSE Call(t)
              ELSE event_buffer[next_index[t]][g]
      BY <2>1, <2>2, StoreChanges
    <3>2. /\ pending'[t] = pending[t] \ {f}
          /\ UNCHANGED <<call, next_index, event_count>>
      BY <2>1, <2>2, StoreChanges
    <3> QED BY <2>2, <2>3, <2>4, <2>5, <3>1, <3>2 DEF Content, Call, Fields
  <2>6. CASE u # t
    <3>1. next_index[t] # next_index[u]
      BY <2>2, <2>6, OneWriter
    <3> QED BY <2>1, <2>2, <2>3, <2>6, <3>1, StoreChanges DEF Content, Call
  <2> QED BY <2>5, <2>6
<1>3. ASSUME NEW t \in Threads, Count(t) PROVE Content(u)'
  <2>1. /\ UNCHANGED <<event_buffer, next_index, call, lapped>>
        /\ pc[t] = "fill" /\ pending[t] = {}
        /\ pc'[t] = "publish" /\ pending'[t] = {"event_count", "event_id"}
        /\ \A v \in Threads \ {t} : /\ pc'[v] = pc[v]
                                   /\ pending'[v] = pending[v]
                                   /\ event_count'[v] = event_count[v]
    BY <1>3 DEF TypeOK, Count, Number, Step
  <2>2. Writing(u) /\ Content(u)
    BY <1>a, <2>1 DEF Writing
  <2> QED BY <2>1, <2>2 DEF Content, Call
<1>4. ASSUME NEW t \in Threads, Publish(t) PROVE Content(u)'
  <2>1. PICK f \in pending[t] :
          /\ Step(t, "publish", IF pending[t] = {f} THEN "idle" ELSE "publish")
          /\ Store(t, f, IF f = "event_id" THEN Call(t) ELSE event_count[t])
    BY <1>4 DEF Publish, Finish
  <2>2. /\ Writing(t) /\ pc[t] = "publish" /\ UNCHANGED lapped
        /\ Writing(u) /\ next_index[u] \notin lapped
        /\ pc'[u] = pc[u]
    BY <2>1 DEF TypeOK, Step, Writing, Store, history
  <2>3. Content(u) /\ next_index[u] \in Slots
    BY <1>a, <2>2 DEF TypeOK, Writing
  <2>4. f \in {"event_count", "event_id"}
    BY <2>1, <2>2, StoreChanges, MayStoreAt
  <2>5. CASE u = t
    <3>1. \A g \in Fields :
            event_buffer'[next_index[t]][g] =
              IF g = f THEN IF f = "event_id" THEN Call(t) ELSE event_count[t]
              ELSE event_buffer[next_index[t]][g]
      BY <2>1, <2>2, StoreChanges
    <3>2. /\ pending'[t] = pending[t] \ {f}
          /\ UNCHANGED <<call, next_index, event_count>>
      BY <2>1, <2>2, StoreChanges
    <3> QED BY <2>2, <2>3, <2>4, <2>5, <3>1, <3>2 DEF Content, Call, Fields
  <2>6. CASE u # t
    <3>1. next_index[t] # next_index[u]
      BY <2>2, <2>6, OneWriter
    <3> QED BY <2>1, <2>2, <2>3, <2>6, <3>1, StoreChanges DEF Content, Call
  <2> QED BY <2>5, <2>6
<1>5. CASE Quiet
  <2>1. Writing(u) /\ pc'[u] = pc[u] /\ call'[u] = call[u] /\ next_index'[u] = next_index[u]
    BY <1>5 DEF Quiet, Writing
  <2> QED BY <1>5, <1>a, <2>1 DEF Quiet, Content, Call, history
<1> QED BY <1>1, <1>2, <1>3, <1>4, <1>5, QuietOrWrites

(* A slot left alone keeps the event of the call that claimed it last.     *)
LEMMA IntactStep ==
  /\ TypeOK /\ HolderInv /\ CountInv /\ ContentInv
  /\ IntactUnlessLapped
  /\ [Next]_vars
  => IntactUnlessLapped'
<1> SUFFICES ASSUME TypeOK, HolderInv, CountInv, ContentInv, IntactUnlessLapped,
                    [Next]_vars,
                    NEW i \in Slots, holder'[i] # Garbage, i \notin lapped',
                    Writers(i)' = {}
             PROVE  Intact(i, holder[i])'
  BY DEF IntactUnlessLapped, Intact, Writers, Writing
<1> USE BufferAssumption
<1>1. ASSUME UNCHANGED <<holder, lapped>>, event_buffer'[i] = event_buffer[i],
             Writers(i) = {},
             \A k \in 1 .. Len(counted) :
               k \in 1 .. Len(counted') /\ counted'[k] = counted[k]
      PROVE  Intact(i, holder[i])'
  BY <1>1 DEF IntactUnlessLapped, Intact
<1>2. ASSUME NEW t \in Threads, Claim(t) PROVE Intact(i, holder[i])'
  <2>1. t \in Writers(next_index[t])'
    BY <1>2, ClaimSteals DEF Writers, Writing
  <2>2. i # next_index[t]
    BY <1>2, <2>1, ClaimSteals
  <2>3. Writers(i) = {}
    BY <1>2, <2>2, ClaimSteals DEF Writers, Writing
  <2>4. holder'[i] = holder[i] /\ i \notin lapped
    BY <1>2, <2>2, ClaimSteals
  <2> QED BY <1>2, <2>3, <2>4, ClaimSteals DEF IntactUnlessLapped, Intact
<1>3. ASSUME NEW t \in Threads, Fill(t) PROVE Intact(i, holder[i])'
  <2>1. PICK f \in pending[t] :
          Store(t, f, IF f = "event_id" THEN Invalid ELSE Call(t))
    BY <1>3 DEF Fill
  <2>2. Writing(t) /\ UNCHANGED <<pc, next_index, history>>
    BY <1>3, <2>1 DEF TypeOK, Fill, Step, Writing, Store
  <2>3. Writers(i) = {} /\ next_index[t] # i
    BY <2>2 DEF Writers, Writing
  <2>4. event_buffer'[i] = event_buffer[i]
    BY <2>1, <2>2, <2>3, StoreChanges
  <2> QED BY <1>1, <2>2, <2>3, <2>4 DEF history
<1>4. ASSUME NEW t \in Threads, Count(t) PROVE Intact(i, holder[i])'
  <2>1. UNCHANGED <<event_buffer, holder, lapped, next_index>>
    BY <1>4 DEF Count, Number
  <2>2. Writers(i) = {}
    BY <1>4, <2>1 DEF TypeOK, Count, Number, Step, Writers, Writing
  <2>3. \A k \in 1 .. Len(counted) :
          k \in 1 .. Len(counted') /\ counted'[k] = counted[k]
    BY <1>4 DEF TypeOK, Count, Number
  <2> QED BY <1>1, <2>1, <2>2, <2>3
<1>5. ASSUME NEW t \in Threads, Publish(t) PROVE Intact(i, holder[i])'
  <2>1. PICK f \in pending[t] :
          /\ Step(t, "publish", IF pending[t] = {f} THEN "idle" ELSE "publish")
          /\ Store(t, f, IF f = "event_id" THEN Call(t) ELSE event_count[t])
    BY <1>5 DEF Publish, Finish
  <2>2. Writing(t) /\ UNCHANGED <<next_index, history>> /\ pc[t] = "publish"
    BY <2>1 DEF Step, Writing, Store
  <2>3. \A u \in Threads \ {t} : pc'[u] = pc[u]
    BY <2>1 DEF TypeOK, Step
  <2>4. CASE next_index[t] # i
    <3>1. event_buffer'[i] = event_buffer[i]
      BY <2>1, <2>2, <2>4, StoreChanges
    <3>2. Writers(i) = {}
      BY <2>2, <2>3, <2>4 DEF Writers, Writing
    <3> QED BY <1>1, <2>2, <3>1, <3>2 DEF history
  <2>5. CASE next_index[t] = i
    <3>1. pc'[t] # "publish"
      BY <2>2, <2>5 DEF Writers, Writing
    <3>2. pending[t] = {f}
      BY <2>1, <3>1 DEF Step, TypeOK
    <3>3. i \notin lapped /\ holder'[i] = Call(t)
      BY <2>2, <2>5 DEF HolderInv, history
    <3>4. f \in {"event_count", "event_id"}
      BY <2>1, <2>2, StoreChanges, MayStoreAt
    <3>5. \A g \in Fields :
            event_buffer'[i][g] =
              IF g = f THEN IF f = "event_id" THEN Call(t) ELSE event_count[t]
              ELSE event_buffer[i][g]
      BY <2>1, <2>2, <2>5, StoreChanges
    <3>6. Content(t)
      BY <2>2, <2>5, <3>3 DEF ContentInv, Content
    <3>7. /\ \A g \in DataFields : event_buffer'[i][g] = Call(t)
          /\ event_buffer'[i]["event_id"] = Call(t)
          /\ event_buffer'[i]["event_count"] = event_count[t]
      BY <2>2, <2>5, <3>2, <3>4, <3>5, <3>6 DEF Content, Fields
    <3>8. /\ event_count[t] + 1 \in 1 .. Len(counted)
          /\ counted[event_count[t] + 1] = Call(t)
      BY <2>2 DEF CountInv
    <3>9. event_count[t] = (event_count[t] + 1) - 1
      BY DEF TypeOK
    <3> QED BY <2>2, <3>3, <3>7, <3>8, <3>9 DEF Intact, history
  <2> QED BY <2>4, <2>5
<1>6. CASE Quiet
  BY <1>1, <1>6 DEF Quiet, history, Writers, Writing
<1> QED BY <1>2, <1>3, <1>4, <1>5, <1>6, QuietOrWrites

-----------------------------------------------------------------------------
IInv ==
  /\ TypeOK
  /\ IndexInv
  /\ DropInv
  /\ ClaimInv
  /\ HolderInv
  /\ LappedInv
  /\ CountInv
  /\ ContentInv
  /\ IntactUnlessLapped

(* The inductive invariant holds of a configured, empty buffer.            *)
LEMMA InitIInv == Init => IInv
<1> SUFFICES ASSUME Init PROVE IInv
  OBVIOUS
<1>1. TypeOK
  BY InitTypeOK
<1>2. IndexInv
  BY BufferAssumption, DivMod DEF Init, IndexInv
<1>3. DropInv /\ ClaimInv /\ HolderInv /\ LappedInv /\ CountInv /\ ContentInv
  BY DEF Init, DropInv, ClaimInv, HolderInv, LappedInv, CountInv, ContentInv,
         Writing
<1>4. IntactUnlessLapped
  BY DEF Init, IntactUnlessLapped
<1> QED BY <1>1, <1>2, <1>3, <1>4 DEF IInv

(* Each part is kept by every step, some with the help of the parts above. *)
LEMMA NextIInv == IInv /\ [Next]_vars => IInv'
BY NextTypeOK, IndexInvStep, DropInvStep, ClaimInvStep, HolderInvStep,
   LappedInvStep, CountInvStep, ContentInvStep, IntactStep DEF IInv

(* The parts of the inductive invariant hold together.                     *)
THEOREM Invariance == Spec => []IInv
<1>1. Init => IInv
  BY InitIInv
<1>2. IInv /\ [Next]_vars => IInv'
  BY NextIInv
<1> QED BY <1>1, <1>2, PTL DEF Spec

(* A slot nobody writes holds the whole event of the call that claimed it  *)
(* last, unless that claim lapped a writer.                                *)
THEOREM Intactness == Spec => []IntactUnlessLapped
<1>1. IInv => IntactUnlessLapped
  BY DEF IInv
<1> QED BY <1>1, Invariance, PTL

(* Two threads write one slot together only a whole buffer of claims       *)
(* apart, and never in the fill-and-stop mode.                             *)
THEOREM Exclusion == Spec => []ExclusiveUnlessLapped
<1>1. ASSUME IInv, NEW t \in Threads, NEW u \in Threads, t # u,
             Writing(t), Writing(u), next_index[t] = next_index[u]
      PROVE  /\ ~ FillAndStop
             /\ \/ claim_no[t] >= claim_no[u] + MaxEventCount
                \/ claim_no[u] >= claim_no[t] + MaxEventCount
  <2>a. /\ claim_no[t] \in 1 .. Len(claims) /\ claims[claim_no[t]] = Call(t)
        /\ claim_no[u] \in 1 .. Len(claims) /\ claims[claim_no[u]] = Call(u)
        /\ SlotOf(claim_no[t]) = SlotOf(claim_no[u])
    BY <1>1 DEF IInv, ClaimInv
  <2>b. Len(claims) \in Nat /\ next_index[t] \in Slots
    BY <1>1 DEF IInv, TypeOK, Writing
  <2>1. /\ claim_no[t] \in Nat \ {0}
        /\ claim_no[u] \in Nat \ {0}
        /\ claim_no[t] # claim_no[u]
        /\ SlotOf(claim_no[t]) = SlotOf(claim_no[u])
        /\ MaxEventCount \in Nat \ {0}
    BY <1>1, <2>a, <2>b, BufferAssumption DEF Call, Slots
  <2>2. ~ FillAndStop
    BY <2>1 DEF SlotOf
  <2> DEFINE m == claim_no[t] - 1
             n == claim_no[u] - 1
  <2>3. m \in Nat /\ n \in Nat /\ m # n /\ m % MaxEventCount = n % MaxEventCount
    BY <2>1, <2>2 DEF SlotOf
  <2> HIDE DEF m, n
  <2>4. m < n => n >= m + MaxEventCount
    BY <2>1, <2>3, ModGap
  <2>5. n < m => m >= n + MaxEventCount
    BY <2>1, <2>3, ModGap
  <2>6. claim_no[t] = m + 1 /\ claim_no[u] = n + 1
    BY <2>1 DEF m, n
  <2>7. n + 1 >= (m + 1) + MaxEventCount \/ m + 1 >= (n + 1) + MaxEventCount
    BY <2>1, <2>3, <2>4, <2>5
  <2> QED BY <2>2, <2>6, <2>7
<1>2. IInv => ExclusiveUnlessLapped
  BY <1>1 DEF ExclusiveUnlessLapped
<1> QED BY <1>2, Invariance, PTL

(* An event is marked invalid until its event_id is stored, its data are   *)
(* complete from when it is counted, and what is stored of its number is   *)
(* right, unless its writer was lapped (cift.c:139-141, 175-183).          *)
THEOREM Marking == Spec => []MarkedUntilComplete
<1>1. ASSUME IInv, NEW t \in Threads, Writing(t), next_index[t] \notin lapped
      PROVE  LET e      == event_buffer[next_index[t]]
                 stored == {"event_id", "event_count"} \ pending[t]
             IN /\ (pc[t] = "fill" /\ "event_id" \in stored) => e["event_id"] = Invalid
                /\ pc[t] = "publish" =>
                     /\ \A f \in DataFields : e[f] = Call(t)
                     /\ e["event_id"] = IF "event_id" \in stored THEN Call(t) ELSE Invalid
                     /\ "event_count" \in stored => e["event_count"] = event_count[t]
  <2>1. ASSUME pc[t] = "publish"
        PROVE  pending[t] \subseteq {"event_count", "event_id"}
    BY <1>1, <2>1, MayStoreAt DEF IInv, TypeOK
  <2>2. Content(t)
    BY <1>1 DEF IInv, ContentInv, Content
  <2>3. pc[t] = "publish" => DataFields \ pending[t] = DataFields
    BY <2>1, BufferAssumption
  <2> QED BY <1>1, <2>2, <2>3 DEF Content
<1>2. IInv => MarkedUntilComplete
  BY <1>1 DEF MarkedUntilComplete
<1> QED BY <1>2, Invariance, PTL

-----------------------------------------------------------------------------
(* The claims of each thread are in program order.                         *)
LEMMA OrderInvStep == TypeOK /\ OrderInv /\ [Next]_vars => OrderInv'
<1> SUFFICES ASSUME TypeOK, OrderInv, [Next]_vars,
                    NEW u \in Threads, NEW k \in 1 .. Len(claims'),
                    claims'[k][1] = u
             PROVE  /\ claims'[k][2] <= call'[u]
                    /\ pc'[u] \in {"load", "cas", "drop"} => claims'[k][2] < call'[u]
  BY DEF OrderInv
<1> USE BufferAssumption
<1>0. Len(claims) \in Nat
  BY DEF TypeOK
<1>1. ASSUME NEW t \in Threads, Claim(t)
      PROVE  /\ claims'[k][2] <= call'[u]
             /\ pc'[u] \in {"load", "cas", "drop"} => claims'[k][2] < call'[u]
  <2>1. /\ claims' = Append(claims, Call(t))
        /\ UNCHANGED call
        /\ pc[t] = "cas" /\ pc'[t] = "fill"
        /\ \A v \in Threads \ {t} : pc'[v] = pc[v]
        /\ call[t] \in Nat
    BY <1>1 DEF TypeOK, Claim, Take, Step
  <2>2. CASE k = Len(claims) + 1
    <3>1. claims'[k] = Call(t)
      BY <1>0, <2>1, <2>2 DEF TypeOK
    <3>2. u = t /\ claims'[k][2] = call[t]
      BY <3>1 DEF Call
    <3> QED BY <2>1, <3>2
  <2>3. CASE k # Len(claims) + 1
    <3>1. Len(claims') = Len(claims) + 1
      BY <1>0, <2>1 DEF TypeOK
    <3>2. k \in 1 .. Len(claims)
      BY <1>0, <2>3, <3>1
    <3>3. claims'[k] = claims[k]
      BY <1>0, <2>1, <3>2 DEF TypeOK
    <3> QED BY <2>1, <3>2, <3>3 DEF OrderInv
  <2> QED BY <2>2, <2>3
<1>2. CASE ~ \E t \in Threads : Claim(t)
  <2>1. UNCHANGED claims
    BY <1>2, OnlyClaimClaims
  <2>2. /\ claims[k][2] <= call[u]
        /\ pc[u] \in {"load", "cas", "drop"} => claims[k][2] < call[u]
    BY <2>1 DEF OrderInv
  <2>3. claims[k][2] \in Nat /\ call[u] \in Nat
    <3>1. claims[k] \in Threads \X (1 .. MaxCalls)
      BY <2>1 DEF TypeOK, Calls
    <3> QED BY <3>1, SMTT(30) DEF TypeOK
  <2>4. ASSUME NEW t \in Threads, Hook(t)
        PROVE  /\ claims[k][2] <= call'[u]
               /\ pc'[u] \in {"load", "cas", "drop"} => claims[k][2] < call'[u]
    <3>1. call' = [call EXCEPT ![t] = @ + 1] /\ pc' = [pc EXCEPT ![t] = "load"]
      BY <2>4 DEF Hook, Step
    <3>2. CASE u = t
      <4>1. call'[u] = call[u] + 1
        BY <3>1, <3>2 DEF TypeOK
      <4> QED BY <2>2, <2>3, <4>1
    <3>3. CASE u # t
      <4>1. call'[u] = call[u] /\ pc'[u] = pc[u]
        BY <3>1, <3>3 DEF TypeOK
      <4> QED BY <2>2, <4>1
    <3> QED BY <3>2, <3>3
  <2>5. CASE ~ \E t \in Threads : Hook(t)
    <3>1. UNCHANGED call
      BY <1>2, <2>5 DEF Next, LogStep, vars, SetEnable, Load, Retry, Fill, Store,
                        Count, Number, Publish, Finish, Drop
    <3>2. pc'[u] \in {"load", "cas", "drop"} => pc[u] \in {"load", "cas", "drop"}
      <4>1. ASSUME NEW t \in Threads, Load(t) \/ Retry(t)
            PROVE  pc[t] \in {"load", "cas"} /\ \A v \in Threads \ {t} : pc'[v] = pc[v]
        BY <4>1 DEF TypeOK, Load, Retry, Step
      <4>2. ASSUME NEW t \in Threads, Fill(t) \/ Count(t) \/ Drop(t)
            PROVE  /\ pc'[t] \in {"fill", "publish", "idle"}
                   /\ \A v \in Threads \ {t} : pc'[v] = pc[v]
        BY <4>2 DEF TypeOK, Fill, Count, Number, Drop, Step
      <4>3. ASSUME NEW t \in Threads, Publish(t)
            PROVE  /\ pc'[t] \in {"publish", "idle"}
                   /\ \A v \in Threads \ {t} : pc'[v] = pc[v]
        BY <4>3 DEF TypeOK, Publish, Finish, Step
      <4>4. CASE UNCHANGED pc
        BY <4>4
      <4>5. \/ UNCHANGED pc
            \/ \E t \in Threads : \/ Load(t) \/ Retry(t) \/ Fill(t)
                                  \/ Count(t) \/ Drop(t) \/ Publish(t)
        BY <1>2, <2>5 DEF Next, LogStep, SetEnable, vars
      <4> QED BY <4>1, <4>2, <4>3, <4>4, <4>5
    <3> QED BY <2>1, <2>2, <3>1, <3>2
  <2> QED BY <2>1, <2>4, <2>5
<1> QED BY <1>1, <1>2

(* The buffer is the tail of the order of claims.                          *)
LEMMA RingStep ==
  TypeOK /\ IndexInv /\ RingHoldsNewest /\ [Next]_vars => RingHoldsNewest'
<1> SUFFICES ASSUME TypeOK, IndexInv, RingHoldsNewest, [Next]_vars
             PROVE  RingHoldsNewest'
  OBVIOUS
<1> USE BufferAssumption
<1>1. IndexInv' /\ TypeOK'
  BY IndexInvStep, NextTypeOK
<1>2. (next_event_index < MaxEventCount
         => next_event_index = SlotOf(Len(claims) + 1))'
  BY <1>1 DEF IndexInv, SlotOf, TypeOK
<1>3. ASSUME NEW t \in Threads, Claim(t), NEW i \in Slots
      PROVE  \/ /\ holder'[i] = Garbage
                /\ \A k \in 1 .. Len(claims') : SlotOf(k) # i
             \/ \E k \in 1 .. Len(claims') :
                  /\ SlotOf(k) = i
                  /\ holder'[i] = claims'[k]
                  /\ \A m \in k + 1 .. Len(claims') : SlotOf(m) # i
  <2>1. /\ Len(claims') = Len(claims) + 1
        /\ Len(claims) \in Nat
        /\ claims'[Len(claims) + 1] = Call(t)
        /\ \A k \in 1 .. Len(claims) : claims'[k] = claims[k]
    BY <1>3 DEF TypeOK, Claim, Take
  <2>2. SlotOf(Len(claims) + 1) = next_index[t]
    BY <1>3 DEF TypeOK, Claim, Take, Step, RingHoldsNewest, Slots
  <2>3. CASE i = next_index[t]
    BY <1>3, <2>1, <2>2, <2>3, ClaimSteals
  <2>4. CASE i # next_index[t]
    <3>1. holder'[i] = holder[i] /\ SlotOf(Len(claims) + 1) # i
      BY <1>3, <2>2, <2>4, ClaimSteals
    <3> QED BY <2>1, <3>1 DEF RingHoldsNewest
  <2> QED BY <2>3, <2>4
<1>4. CASE ~ \E t \in Threads : Claim(t)
  BY <1>4, OnlyClaimClaims DEF RingHoldsNewest, SlotOf
<1> QED BY <1>2, <1>3, <1>4 DEF RingHoldsNewest, SlotOf

(* Each slot belongs to the newest claim that falls on it, and the next    *)
(* claim falls on next_event_index.                                        *)
THEOREM RingOrder == Spec => []RingHoldsNewest
<1>1. Init => RingHoldsNewest
  BY BufferAssumption, DivMod DEF Init, RingHoldsNewest, SlotOf
<1>2. RingHoldsNewest /\ IInv /\ [Next]_vars => RingHoldsNewest'
  BY RingStep DEF IInv
<1> QED BY <1>1, <1>2, Invariance, PTL DEF Spec

(* The buffer implements the log: the compare-and-swap appends, the drop   *)
(* discards, and every other step is invisible.                            *)
THEOREM Refinement == Spec => ImplementsLog
<1>1. Init => Log!Init
  BY DEF Init, Log!Init
<1>2. IInv /\ OrderInv /\ [Next]_vars => [Log!Next]_(Log!logVars)
  <2> SUFFICES ASSUME IInv, OrderInv, [Next]_vars PROVE [Log!Next]_(Log!logVars)
    OBVIOUS
  <2> USE BufferAssumption
  <2>0. TypeOK /\ IndexInv /\ DropInv
    BY DEF IInv
  <2>1. ASSUME NEW t \in Threads, Claim(t) PROVE Log!Record(t, call[t])
    <3>1. /\ pc[t] = "cas" /\ next_index[t] \in Slots
          /\ next_event_index = next_index[t]
          /\ claims' = Append(claims, <<t, call[t]>>)
          /\ UNCHANGED total_events_dropped
      BY <2>0, <2>1 DEF TypeOK, Claim, Take, Step, Call
    <3>2. ~ Log!Full
      BY <2>0, <3>1 DEF Log!Full, IndexInv, TypeOK, Slots
    <3>3. \A k \in 1 .. Len(claims) : claims[k][1] = t => claims[k][2] < call[t]
      BY <3>1 DEF OrderInv
    <3> QED BY <3>1, <3>2, <3>3 DEF Log!Record
  <2>2. ASSUME NEW t \in Threads, Drop(t) PROVE Log!Discard
    <3>1. pc[t] = "drop" /\ total_events_dropped' = total_events_dropped + 1
          /\ UNCHANGED claims
      BY <2>2 DEF Drop, Step, history
    <3>2. next_event_index >= MaxEventCount /\ next_event_index \in 0 .. MaxEventCount
      BY <2>0, <3>1 DEF DropInv, TypeOK
    <3>3. Len(claims) \in Nat
      BY <2>0 DEF TypeOK
    <3>4. Log!Full
      <4>1. CASE MaxEventCount = 0
        BY <3>3, <4>1 DEF Log!Full
      <4>2. CASE MaxEventCount > 0 /\ FillAndStop
        BY <2>0, <3>2, <3>3, <4>2 DEF Log!Full, IndexInv
      <4>3. CASE MaxEventCount > 0 /\ ~ FillAndStop
        BY <2>0, <3>2, <3>3, <4>3, DivMod DEF IndexInv
      <4> QED BY <4>1, <4>2, <4>3
    <3> QED BY <3>1, <3>4 DEF Log!Discard
  <2>3. CASE ~ \E t \in Threads : Claim(t) \/ Drop(t)
    <3>1. UNCHANGED claims
      BY <2>3, OnlyClaimClaims
    <3>2. UNCHANGED total_events_dropped
      BY <2>3 DEF Next, LogStep, vars, shared, SetEnable, Hook, Load, Retry, Fill,
                  Store, Count, Number, Publish, Finish
    <3> QED BY <3>1, <3>2 DEF Log!logVars
  <2>4. \A t \in Threads : Claim(t) => call[t] \in 1 .. MaxCalls
    <3> SUFFICES ASSUME NEW t \in Threads, Claim(t) PROVE call[t] \in 1 .. MaxCalls
      OBVIOUS
    <3>1. call[t] \in 0 .. MaxCalls /\ call[t] > 0
      BY <2>0 DEF TypeOK, Claim, Take, Step
    <3> QED BY <3>1
  <2> QED BY <2>1, <2>2, <2>3, <2>4 DEF Log!Next
<1>3. Init => OrderInv
  BY DEF Init, OrderInv
<1>4. OrderInv /\ IInv /\ [Next]_vars => OrderInv'
  BY OrderInvStep DEF IInv
<1> QED BY <1>1, <1>2, <1>3, <1>4, Invariance, PTL DEF Spec, ImplementsLog, Log!Spec

-----------------------------------------------------------------------------
(* A slot that was never claimed is as malloc left it, unless a writer     *)
(* that was lapped still stores there.                                     *)
UntouchedInv ==
  \A i \in Slots :
    (holder[i] = Garbage /\ i \notin lapped)
      => event_buffer[i]["event_id"] = Garbage

(* Only the last to have claimed a slot stores there.                      *)
LEMMA UntouchedInvStep ==
  TypeOK /\ HolderInv /\ LappedInv /\ FillAndStop /\ UntouchedInv /\ [Next]_vars
    => UntouchedInv'
<1> SUFFICES ASSUME TypeOK, HolderInv, LappedInv, FillAndStop, UntouchedInv,
                    [Next]_vars,
                    NEW i \in Slots, holder'[i] = Garbage
             PROVE  event_buffer'[i]["event_id"] = Garbage
  BY DEF UntouchedInv
<1> USE BufferAssumption, ValueAssumption
<1>1. ASSUME UNCHANGED holder, event_buffer'[i] = event_buffer[i]
      PROVE  event_buffer'[i]["event_id"] = Garbage
  BY <1>1 DEF UntouchedInv, LappedInv
<1>2. ASSUME NEW t \in Threads, Claim(t)
      PROVE  event_buffer'[i]["event_id"] = Garbage
  <2>1. Call(t) \in Calls
    BY <1>2, CallInCalls DEF Claim, Take, Step
  <2>2. i # next_index[t]
    BY <1>2, <2>1, ClaimSteals, SMTT(30) DEF TypeOK
  <2>3. holder'[i] = holder[i] /\ event_buffer' = event_buffer
    BY <1>2, <2>2, ClaimSteals DEF Claim, Take, TypeOK
  <2> QED BY <2>3 DEF UntouchedInv, LappedInv
<1>3. ASSUME NEW t \in Threads, NEW f, NEW v, Writing(t), Store(t, f, v)
      PROVE  event_buffer'[i]["event_id"] = Garbage
  <2>1. UNCHANGED holder
    BY <1>3 DEF Store, history
  <2>2. Call(t) \in Calls
    BY <1>3, CallInCalls DEF Writing
  <2>3. next_index[t] # i
    BY <1>3, <2>1, <2>2 DEF HolderInv, LappedInv
  <2>4. event_buffer'[i] = event_buffer[i]
    BY <1>3, <2>3 DEF Store, TypeOK
  <2> QED BY <1>1, <2>1, <2>4
<1>4. ASSUME NEW t \in Threads, Fill(t)
      PROVE  event_buffer'[i]["event_id"] = Garbage
  <2>1. Writing(t)
    BY <1>4 DEF Fill, Step, Writing
  <2> QED BY <1>3, <1>4, <2>1 DEF Fill
<1>5. ASSUME NEW t \in Threads, Count(t)
      PROVE  event_buffer'[i]["event_id"] = Garbage
  BY <1>1, <1>5 DEF Count, Number
<1>6. ASSUME NEW t \in Threads, Publish(t)
      PROVE  event_buffer'[i]["event_id"] = Garbage
  <2>1. Writing(t)
    BY <1>6 DEF Publish, Finish, Step, Writing
  <2> QED BY <1>3, <1>6, <2>1 DEF Publish, Finish
<1>7. CASE Quiet
  BY <1>1, <1>7 DEF Quiet, history
<1> QED BY <1>2, <1>4, <1>5, <1>6, <1>7, QuietOrWrites

(* In the fill-and-stop mode, an event whose event_id is set once nobody   *)
(* writes is all of one call.  The circular mode does not promise that.    *)
THEOREM Completeness == FillAndStop => (Spec => []CompleteIsIntact)
<1> SUFFICES ASSUME FillAndStop PROVE Spec => []CompleteIsIntact
  OBVIOUS
<1>1. Init => UntouchedInv
  BY BufferAssumption DEF Init, UntouchedInv, Fields
<1>2. UntouchedInv /\ IInv /\ [Next]_vars => UntouchedInv'
  BY UntouchedInvStep DEF IInv
<1>3. UntouchedInv /\ IInv => CompleteIsIntact
  <2> SUFFICES ASSUME UntouchedInv, IInv, AtRest, NEW i \in Slots,
                      event_buffer[i]["event_id"] \in Calls
               PROVE  \A f \in DataFields :
                        event_buffer[i][f] = event_buffer[i]["event_id"]
    BY DEF CompleteIsIntact
  <2>1. lapped = {}
    BY DEF IInv, LappedInv
  <2>2. holder[i] # Garbage
    BY <2>1, ValueAssumption DEF UntouchedInv
  <2>3. Writers(i) = {}
    BY DEF AtRest, Writers, Writing
  <2>4. Intact(i, holder[i])
    BY <2>1, <2>2, <2>3 DEF IInv, IntactUnlessLapped
  <2> QED BY <2>4 DEF Intact
<1> QED BY <1>1, <1>2, <1>3, Invariance, PTL DEF Spec

-----------------------------------------------------------------------------
Filling == {t \in Threads : pc[t] = "fill"}

(* A claim adds a thread to those that fill a slot, counting removes one.  *)
LEMMA ClaimCountStep ==
  TypeOK /\ EveryClaimCounted /\ [Next]_vars => EveryClaimCounted'
<1> SUFFICES ASSUME TypeOK, EveryClaimCounted, [Next]_vars
             PROVE  Len(claims)' = total_events_added' + Cardinality(Filling')
  BY DEF EveryClaimCounted, Filling
<1>0. /\ IsFiniteSet(Filling)
      /\ Cardinality(Filling) \in Nat
      /\ Len(claims) \in Nat /\ total_events_added \in Nat
      /\ Len(claims) = total_events_added + Cardinality(Filling)
  <2>1. IsFiniteSet(Filling)
    BY BufferAssumption, FS_Subset DEF Filling
  <2> QED BY <2>1, FS_CardinalityType DEF TypeOK, EveryClaimCounted, Filling
<1>1. ASSUME NEW t \in Threads, Claim(t)
      PROVE  Len(claims)' = total_events_added' + Cardinality(Filling')
  <2>1. Filling' = Filling \union {t} /\ t \notin Filling
    BY <1>1 DEF TypeOK, Claim, Take, Step, Filling
  <2>2. Cardinality(Filling') = Cardinality(Filling) + 1
    BY <1>0, <2>1, FS_AddElement
  <2>3. Len(claims)' = Len(claims) + 1 /\ UNCHANGED total_events_added
    BY <1>1 DEF TypeOK, Claim, Take
  <2> QED BY <1>0, <2>2, <2>3
<1>2. ASSUME NEW t \in Threads, Count(t)
      PROVE  Len(claims)' = total_events_added' + Cardinality(Filling')
  <2>1. Filling' = Filling \ {t} /\ t \in Filling
    BY <1>2 DEF TypeOK, Count, Number, Step, Filling
  <2>2. Cardinality(Filling') = Cardinality(Filling) - 1
    BY <1>0, <2>1, FS_RemoveElement
  <2>3. total_events_added' = total_events_added + 1 /\ UNCHANGED claims
    BY <1>2 DEF Count, Number
  <2> QED BY <1>0, <2>2, <2>3
<1>3. ASSUME UNCHANGED <<claims, total_events_added>>, Filling' = Filling
      PROVE  Len(claims)' = total_events_added' + Cardinality(Filling')
  BY <1>0, <1>3
<1>4. ASSUME NEW t \in Threads, Fill(t)
      PROVE  Len(claims)' = total_events_added' + Cardinality(Filling')
  <2>1. UNCHANGED <<claims, total_events_added>> /\ Filling' = Filling
    BY <1>4 DEF TypeOK, Fill, Store, Step, Filling, history
  <2> QED BY <2>1, <1>3
<1>5. ASSUME NEW t \in Threads, Publish(t)
      PROVE  Len(claims)' = total_events_added' + Cardinality(Filling')
  <2>1. UNCHANGED <<claims, total_events_added>> /\ Filling' = Filling
    BY <1>5 DEF TypeOK, Publish, Finish, Store, Step, Filling, history
  <2> QED BY <2>1, <1>3
<1>6. CASE Quiet
  <2>1. \A u \in Threads : pc'[u] = "fill" <=> pc[u] = "fill"
    BY <1>6 DEF Quiet, Writing
  <2>2. UNCHANGED <<claims, total_events_added>> /\ Filling' = Filling
    BY <1>6, <2>1 DEF Quiet, Filling, history
  <2> QED BY <2>2, <1>3
<1> QED BY <1>1, <1>2, <1>4, <1>5, <1>6, QuietOrWrites

(* Nothing is claimed, counted or filled at first.                         *)
LEMMA InitClaimCount == Init => EveryClaimCounted
<1> SUFFICES ASSUME Init PROVE EveryClaimCounted
  OBVIOUS
<1>1. Filling = {}
  BY DEF Init, Filling
<1>2. Cardinality(Filling) = 0
  BY <1>1, FS_EmptySet
<1>3. Len(claims) = 0 /\ total_events_added = 0
  BY DEF Init
<1>4. Len(claims) = total_events_added + Cardinality(Filling)
  BY <1>2, <1>3
<1> QED BY <1>4 DEF EveryClaimCounted, Filling

(* Every claim has been counted as an added event, but those of threads    *)
(* that are still filling their slots.                                     *)
THEOREM ClaimsCounted == Spec => []EveryClaimCounted
<1>1. Init => EveryClaimCounted
  BY InitClaimCount
<1>2. EveryClaimCounted /\ IInv /\ [Next]_vars => EveryClaimCounted'
  BY ClaimCountStep DEF IInv
<1> QED BY <1>1, <1>2, Invariance, PTL DEF Spec

(* What a step does to the calls made, and to the threads that look for a  *)
(* slot: a hook call adds one of each, a claim or a drop takes a thread    *)
(* that was looking.                                                       *)
LEMMA AccountStep ==
  TypeOK /\ EveryCallAccounted /\ [Next]_vars => EveryCallAccounted'
<1> SUFFICES ASSUME TypeOK, EveryCallAccounted, [Next]_vars
             PROVE  Cardinality(Made') = Len(claims)' + total_events_dropped'
                                         + Cardinality(Looking')
  BY DEF EveryCallAccounted
<1>0. /\ IsFiniteSet(Looking) /\ Cardinality(Looking) \in Nat
      /\ IsFiniteSet(Made) /\ Cardinality(Made) \in Nat
      /\ Len(claims) \in Nat /\ total_events_dropped \in Nat
      /\ Cardinality(Made)
           = Len(claims) + total_events_dropped + Cardinality(Looking)
  <2>1. IsFiniteSet(Looking)
    BY BufferAssumption, FS_Subset DEF Looking
  <2>2. IsFiniteSet(1 .. MaxCalls)
    BY BufferAssumption, FS_Interval
  <2>3. IsFiniteSet(Calls)
    BY <2>2, BufferAssumption, FS_Product DEF Calls
  <2>4. IsFiniteSet(Made)
    BY <2>3, FS_Subset DEF Made
  <2> QED BY <2>1, <2>4, FS_CardinalityType DEF TypeOK, EveryCallAccounted
<1>1. ASSUME NEW t \in Threads, Hook(t)
      PROVE  Cardinality(Made') = Len(claims)' + total_events_dropped'
                                  + Cardinality(Looking')
  <2>1. Looking' = Looking \union {t} /\ t \notin Looking
    BY <1>1 DEF TypeOK, Hook, Step, Looking
  <2>2. Cardinality(Looking') = Cardinality(Looking) + 1
    BY <1>0, <2>1, FS_AddElement
  <2> DEFINE c == <<t, call[t] + 1>>
  <2>3. c \in Calls /\ c \notin Made
    BY <1>1, BufferAssumption DEF TypeOK, Hook, Calls, Made
  <2>4. Made' = Made \union {c}
    BY <1>1, <2>3, SMTT(30) DEF TypeOK, Hook, Calls, Made
  <2>5. Cardinality(Made') = Cardinality(Made) + 1
    BY <1>0, <2>3, <2>4, FS_AddElement
  <2>6. UNCHANGED <<claims, total_events_dropped>>
    BY <1>1 DEF Hook, shared, history
  <2> QED BY <1>0, <2>2, <2>5, <2>6
<1>2. ASSUME NEW t \in Threads, Claim(t)
      PROVE  Cardinality(Made') = Len(claims)' + total_events_dropped'
                                  + Cardinality(Looking')
  <2>1. Looking' = Looking \ {t} /\ t \in Looking
    BY <1>2 DEF TypeOK, Claim, Take, Step, Looking
  <2>2. Cardinality(Looking') = Cardinality(Looking) - 1
    BY <1>0, <2>1, FS_RemoveElement
  <2>3. /\ Len(claims)' = Len(claims) + 1
        /\ UNCHANGED <<call, total_events_dropped>>
    BY <1>2 DEF TypeOK, Claim, Take
  <2>4. Made' = Made
    BY <2>3 DEF Made
  <2> QED BY <1>0, <2>2, <2>3, <2>4
<1>3. ASSUME NEW t \in Threads, Drop(t)
      PROVE  Cardinality(Made') = Len(claims)' + total_events_dropped'
                                  + Cardinality(Looking')
  <2>1. Looking' = Looking \ {t} /\ t \in Looking
    BY <1>3 DEF TypeOK, Drop, Step, Looking
  <2>2. Cardinality(Looking') = Cardinality(Looking) - 1
    BY <1>0, <2>1, FS_RemoveElement
  <2>3. /\ total_events_dropped' = total_events_dropped + 1
        /\ UNCHANGED <<call, claims>>
    BY <1>3 DEF Drop, history
  <2>4. Made' = Made
    BY <2>3 DEF Made
  <2> QED BY <1>0, <2>2, <2>3, <2>4
<1>4. ASSUME UNCHANGED <<call, claims, total_events_dropped>>,
             \A u \in Threads : u \in Looking' <=> u \in Looking
      PROVE  Cardinality(Made') = Len(claims)' + total_events_dropped'
                                  + Cardinality(Looking')
  <2>1. Looking' = Looking /\ Made' = Made
    BY <1>4 DEF Looking, Made
  <2> QED BY <1>0, <1>4, <2>1
<1>5. ASSUME NEW t \in Threads,
             Load(t) \/ Retry(t) \/ Fill(t) \/ Count(t) \/ Publish(t)
      PROVE  /\ UNCHANGED <<call, claims, total_events_dropped>>
             /\ \A u \in Threads : u \in Looking' <=> u \in Looking
  <2>1. CASE Load(t)
    BY <2>1 DEF TypeOK, Load, Step, Looking, shared, history
  <2>2. CASE Retry(t)
    BY <2>2 DEF TypeOK, Retry, Step, Looking, shared, history
  <2>3. CASE Fill(t)
    BY <2>3 DEF TypeOK, Fill, Store, Step, Looking, history
  <2>4. CASE Count(t)
    BY <2>4 DEF TypeOK, Count, Number, Step, Looking
  <2>5. CASE Publish(t)
    BY <2>5 DEF TypeOK, Publish, Finish, Store, Step, Looking, history
  <2> QED BY <1>5, <2>1, <2>2, <2>3, <2>4, <2>5
<1>6. CASE UNCHANGED vars \/ \E enabled \in BOOLEAN : SetEnable(enabled)
  <2>1. /\ UNCHANGED <<call, claims, total_events_dropped>>
        /\ \A u \in Threads : u \in Looking' <=> u \in Looking
    BY <1>6 DEF vars, SetEnable, shared, history, Looking
  <2> QED BY <2>1, <1>4
<1> QED BY <1>1, <1>2, <1>3, <1>4, <1>5, <1>6 DEF Next, LogStep

(* Nobody has called at first.                                             *)
LEMMA InitAccount == Init => EveryCallAccounted
<1> SUFFICES ASSUME Init PROVE EveryCallAccounted
  OBVIOUS
<1>1. Made = {} /\ Looking = {}
  BY BufferAssumption DEF Init, Made, Looking, Calls
<1>2. Cardinality(Made) = 0 /\ Cardinality(Looking) = 0
  BY <1>1, FS_EmptySet
<1>3. Len(claims) = 0 /\ total_events_dropped = 0
  BY DEF Init
<1> QED BY <1>2, <1>3 DEF EveryCallAccounted

(* No event goes missing (cift.c:169-189): every call that passed the gate *)
(* is claimed, dropped and counted so, or looking for a slot; every claim  *)
(* is counted, or being filled.                                            *)
THEOREM Accounting == Spec => []NothingLost
<1>1. Init => EveryCallAccounted
  BY InitAccount
<1>2. EveryCallAccounted /\ IInv /\ [Next]_vars => EveryCallAccounted'
  BY AccountStep DEF IInv
<1>3. EveryCallAccounted /\ EveryClaimCounted => NothingLost
  BY DEF NothingLost
<1> QED BY <1>1, <1>2, <1>3, Invariance, ClaimsCounted, PTL DEF Spec

=============================================================================
