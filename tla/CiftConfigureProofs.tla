-------------------------- MODULE CiftConfigureProofs --------------------------
(***************************************************************************)
(* The buffer of an application that is careful: it configures while no    *)
(* hook is running, its main() is the first to be traced, and the memory   *)
(* of a default buffer is there.  For any number of threads, blocks and    *)
(* calls, and any sizes.                                                   *)
(***************************************************************************)
EXTENDS CiftConfigure, RingArithmetic, TLAPS

Careful == QuietOnly /\ MainFirst /\ FailingBuilds \subseteq {FALSE}

ConfPc == {"configure", "allocate", "print", "header", "register"}
HookPc == {"load", "check", "cas", "fill", "publish", "drop"}
PcType == {"idle", "exit", "test", "retest"} \union ConfPc \union HookPc

Bytes    == 1 .. WordSize - 1
Counters == HeaderFields \ {"buffer_mode"}

TypeOK ==
  /\ lazy_init \in BOOLEAN
  /\ cift_enabled \in BOOLEAN
  /\ cift_event_buffer \in Blocks \union {NULL}
  /\ room \in [Blocks -> Nat]
  /\ DOMAIN header = Blocks
  /\ \A b \in Blocks : /\ DOMAIN header[b] = HeaderFields
                       /\ header[b]["buffer_mode"] \in Modes
                       /\ \A f \in Counters : header[b][f] \in Nat
  /\ pc \in [Threads -> PcType]
  /\ call \in [Threads -> Nat]
  /\ block \in [Threads -> Blocks \union {NULL}]
  /\ next_index \in [Threads -> Nat]
  /\ new_next_index \in [Threads -> Nat]
  /\ request \in [Threads -> (Sizes \union {DefaultBytes}) \X Modes]
  /\ pending \in [Threads -> SUBSET HeaderFields]
  /\ hook \in [Threads -> BOOLEAN]
  /\ at_exit \in BOOLEAN
  /\ since \in Nat

(* Until main() has been entered and its first hook is over, it is alone.  *)
StartInv ==
  ~ Begun => /\ \A t \in Threads \ {Main} : pc[t] = "idle"
             /\ call[Main] = 0 => pc[Main] = "idle"

(* A configuration has the process to itself: it is part of that first     *)
(* hook, or tracing is off and no hook is running.                         *)
AloneInv ==
  \A t \in Threads :
    pc[t] \in ConfPc \union {"retest"} =>
      /\ t = Main
      /\ \A u \in Threads \ {Main} : pc[u] = "idle"
      /\ hook[t] => ~ Begun
      /\ ~ hook[t] => ~ cift_enabled /\ pc[t] # "retest"

(* What the pointer points to, and who works on it.                        *)
BufferInv ==
  /\ cift_event_buffer # NULL => room[cift_event_buffer] \in Bytes
  /\ pc[Main] \in {"print", "header", "register"} => cift_event_buffer # NULL
  /\ lazy_init =>
       \/ cift_event_buffer # NULL
       \/ ~ Begun /\ (call[Main] # 0 => pc[Main] \in {"test", "configure", "allocate"})
  /\ \A t \in Threads :
       pc[t] \in HookPc => cift_event_buffer # NULL /\ block[t] = cift_event_buffer
  /\ pc[Main] \in {"allocate", "header"} => block[Main] = cift_event_buffer
  /\ pc[Main] \in {"print", "header"} => room[cift_event_buffer] = request[Main][1]

(* What cift_configure stores in a field of the header.                    *)
Stored(f) ==
  CASE f = "total_bytes"     -> request[Main][1]
    [] f = "buffer_mode"     -> request[Main][2]
    [] f = "max_event_count" -> MaxEvents(request[Main][1])
    [] OTHER                 -> 0

(* An index of the buffer: past its end only when it is full or has no     *)
(* room.                                                                   *)
InReach(n, h) ==
  /\ n <= h["max_event_count"]
  /\ h["buffer_mode"] = "circular" => n < h["max_event_count"] \/ h["max_event_count"] = 0

(* The header tells of the buffer, but for the fields that are still to be *)
(* stored.                                                                 *)
HeaderInv ==
  cift_event_buffer # NULL =>
    LET h == header[cift_event_buffer] IN
    /\ pc[Main] = "header" => \A f \in HeaderFields \ pending[Main] : h[f] = Stored(f)
    /\ pc[Main] \notin {"print", "header"} =>
         /\ h["total_bytes"] = room[cift_event_buffer]
         /\ h["max_event_count"] = MaxEvents(room[cift_event_buffer])
         /\ InReach(h["next_event_index"], h)
         /\ h["total_events_added"] + h["total_events_dropped"] = since
         /\ pc[Main] # "register" => at_exit

(* A hook's copy of the index is old, but of this buffer.                  *)
HookInv ==
  \A t \in Threads :
    LET h == header[cift_event_buffer] IN
    /\ pc[t] \in {"check", "drop"} =>
         /\ InReach(next_index[t], h)
         /\ h["buffer_mode"] = "fill_and_stop" => next_index[t] <= h["next_event_index"]
    /\ pc[t] = "drop" => next_index[t] >= h["max_event_count"]
    /\ pc[t] \in {"cas", "fill", "publish"} => next_index[t] < h["max_event_count"]
    /\ pc[t] = "cas" =>
         new_next_index[t] =
           IF next_index[t] + 1 >= h["max_event_count"] /\ h["buffer_mode"] = "circular"
             THEN 0 ELSE next_index[t] + 1

IInv == TypeOK /\ StartInv /\ AloneInv /\ BufferInv /\ HeaderInv /\ HookInv

-----------------------------------------------------------------------------
LEMMA Constants ==
  /\ Main \in Threads /\ NULL \notin Blocks
  /\ DefaultBytes \in Bytes /\ Sizes \subseteq Bytes /\ Bytes \subseteq Nat
  /\ "circular" \in Modes /\ "fill_and_stop" \in Modes
BY ConfigureAssumption DEF Bytes, NULL, Blocks, Modes

(* max_event_count is what fits after the header, if that fits itself.     *)
LEMMA Fits ==
  ASSUME NEW n \in Bytes
  PROVE  /\ MaxEvents(n) \in Nat
         /\ n >= HeaderBytes => MaxEvents(n) * EventBytes <= n - HeaderBytes
         /\ MaxEvents(n) = 0 => n < HeaderBytes + EventBytes
<1>0. /\ n \in Nat /\ n < WordSize /\ n - HeaderBytes \in Int
      /\ WordSize \in Nat \ {0} /\ HeaderBytes \in Nat
  BY ConfigureAssumption DEF Bytes
<1>1. n >= HeaderBytes => (n - HeaderBytes) % WordSize = n - HeaderBytes
  BY <1>0
<1>2. (n - HeaderBytes) % WordSize \in Nat /\ EventBytes \in Nat \ {0}
  BY <1>0, ConfigureAssumption
<1>3. PICK m \in Nat : m = (n - HeaderBytes) % WordSize
  BY <1>2
<1>4. PICK q \in Nat, r \in 0 .. EventBytes - 1 :
        /\ q = m \div EventBytes
        /\ m = EventBytes * q + r
  BY <1>2, DivMod
<1>5. MaxEvents(n) = q
  BY <1>3, <1>4 DEF MaxEvents
<1>6. q * EventBytes \in Nat /\ q * EventBytes = EventBytes * q /\ (q = 0 => EventBytes * q = 0)
  BY <1>2, <1>4
<1>7. q * EventBytes <= m /\ (q = 0 => m < EventBytes)
  BY <1>2, <1>4, <1>6
<1>8. n >= HeaderBytes => m = n - HeaderBytes
  BY <1>1, <1>3
<1>9. q = 0 => n < HeaderBytes + EventBytes
  BY <1>0, <1>2, <1>7, <1>8
<1> QED BY <1>0, <1>5, <1>7, <1>8, <1>9

LEMMA SetEnableStep ==
  ASSUME Careful, IInv, NEW enabled \in BOOLEAN, SetEnable(enabled)
  PROVE  IInv'
<1> USE Constants DEF IInv, SetEnable, Step, AtRest, Configuring, Begun, Careful, heap, locals, ConfPc, HookPc, NULL, HeaderFields, Counters
<1>1. TypeOK'
  BY DEF TypeOK, PcType, Modes
<1>2. StartInv'
  BY DEF TypeOK, StartInv, BufferInv
<1>3. AloneInv'
  BY DEF TypeOK, StartInv, AloneInv, BufferInv
<1>4. BufferInv'
  BY DEF TypeOK, StartInv, AloneInv, BufferInv
<1>5. HeaderInv'
  BY DEF TypeOK, AloneInv, BufferInv, HeaderInv, InReach, Stored
<1>6. HookInv'
  BY DEF TypeOK, AloneInv, BufferInv, HeaderInv, HookInv, InReach
<1> QED BY <1>1, <1>2, <1>3, <1>4, <1>5, <1>6

LEMMA ConfigureStep ==
  ASSUME Careful, IInv, NEW totalBytes \in Sizes, NEW mode \in Modes, Configure(totalBytes, mode)
  PROVE  IInv'
<1> USE Constants DEF IInv, Configure, Step, AtRest, Configuring, Begun, Careful, heap, locals, ConfPc, HookPc, NULL, HeaderFields, Counters
<1>1. TypeOK'
  BY DEF TypeOK, PcType, Modes
<1>2. StartInv'
  BY DEF TypeOK, StartInv, BufferInv
<1>3. AloneInv'
  BY DEF TypeOK, StartInv, AloneInv, BufferInv
<1>4. BufferInv'
  BY DEF TypeOK, StartInv, AloneInv, BufferInv
<1>5. HeaderInv'
  BY DEF TypeOK, AloneInv, BufferInv, HeaderInv, InReach, Stored
<1>6. HookInv'
  BY DEF TypeOK, AloneInv, BufferInv, HeaderInv, HookInv, InReach
<1> QED BY <1>1, <1>2, <1>3, <1>4, <1>5, <1>6

LEMMA ExitStep ==
  ASSUME Careful, IInv, Exit
  PROVE  IInv'
<1> USE Constants DEF IInv, Exit, Step, AtRest, Configuring, Begun, Careful, heap, locals, ConfPc, HookPc, NULL, HeaderFields, Counters
<1>1. TypeOK'
  BY DEF TypeOK, PcType, Modes
<1>2. StartInv'
  BY DEF TypeOK, StartInv, BufferInv
<1>3. AloneInv'
  BY DEF TypeOK, StartInv, AloneInv, BufferInv
<1>4. BufferInv'
  BY DEF TypeOK, StartInv, AloneInv, BufferInv
<1>5. HeaderInv'
  BY DEF TypeOK, AloneInv, BufferInv, HeaderInv, InReach, Stored
<1>6. HookInv'
  BY DEF TypeOK, AloneInv, BufferInv, HeaderInv, HookInv, InReach
<1> QED BY <1>1, <1>2, <1>3, <1>4, <1>5, <1>6

LEMMA ChooseStep ==
  ASSUME Careful, IInv, NEW t \in Threads, Choose(t)
  PROVE  IInv'
<1> USE Constants DEF IInv, Choose, Step, AtRest, Configuring, Begun, Careful, heap, locals, ConfPc, HookPc, NULL, HeaderFields, Counters
<1>1. TypeOK'
  BY DEF TypeOK, PcType, Modes
<1>2. StartInv'
  BY DEF TypeOK, StartInv, BufferInv
<1>3. AloneInv'
  BY DEF TypeOK, StartInv, AloneInv, BufferInv
<1>4. BufferInv'
  BY DEF TypeOK, StartInv, AloneInv, BufferInv
<1>5. HeaderInv'
  BY DEF TypeOK, AloneInv, BufferInv, HeaderInv, InReach, Stored
<1>6. HookInv'
  BY DEF TypeOK, AloneInv, BufferInv, HeaderInv, HookInv, InReach
<1> QED BY <1>1, <1>2, <1>3, <1>4, <1>5, <1>6

LEMMA AllocateStep ==
  ASSUME Careful, IInv, NEW t \in Threads, Allocate(t)
  PROVE  IInv'
<1> USE Constants DEF IInv, Allocate, Step, AtRest, Configuring, Begun, Careful, heap, locals, ConfPc, HookPc, NULL, HeaderFields, Counters
<1>1. TypeOK'
  BY DEF TypeOK, PcType, Modes
<1>2. StartInv'
  BY DEF TypeOK, StartInv, BufferInv
<1>3. AloneInv'
  BY DEF TypeOK, StartInv, AloneInv, BufferInv
<1>4. BufferInv'
  <2>1. /\ t = Main /\ pc[Main] = "allocate" /\ pc'[Main] = "print"
        /\ \A u \in Threads \ {Main} : pc'[u] = "idle"
    BY DEF TypeOK, AloneInv
  <2>2. /\ cift_event_buffer' \in Blocks
        /\ room'[cift_event_buffer'] = request[Main][1]
        /\ request' = request
    <3>1. block[Main] \in Blocks \union {NULL}
      BY DEF TypeOK
    <3>2. PICK b \in Blocks :
            /\ cift_event_buffer' = b
            /\ room' = [c \in Blocks |-> IF c = b THEN request[Main][1]
                                         ELSE IF c = block[Main] THEN 0 ELSE room[c]]
      BY <2>1, <3>1
    <3>3. room'[b] = request[Main][1]
      BY <3>2
    <3> QED BY <3>2, <3>3
  <2>3. request[Main][1] \in Bytes
    BY <2>1 DEF TypeOK
  <2> QED BY <2>1, <2>2, <2>3 DEF BufferInv
<1>5. HeaderInv'
  BY DEF TypeOK, AloneInv, BufferInv, HeaderInv, InReach, Stored
<1>6. HookInv'
  BY DEF TypeOK, AloneInv, BufferInv, HeaderInv, HookInv, InReach
<1> QED BY <1>1, <1>2, <1>3, <1>4, <1>5, <1>6

LEMMA AllocateFailsStep ==
  ASSUME Careful, IInv, NEW t \in Threads, AllocateFails(t)
  PROVE  IInv'
<1> USE Constants DEF IInv, AllocateFails, ReturnTo, NoRequest, Step, AtRest, Configuring, Begun, Careful, heap, locals, ConfPc, HookPc, NULL, HeaderFields, Counters
<1>1. TypeOK'
  BY DEF TypeOK, PcType, Modes
<1>2. StartInv'
  BY DEF TypeOK, StartInv, BufferInv
<1>3. AloneInv'
  BY DEF TypeOK, StartInv, AloneInv, BufferInv
<1>4. BufferInv'
  BY DEF TypeOK, StartInv, AloneInv, BufferInv
<1>5. HeaderInv'
  BY DEF TypeOK, AloneInv, BufferInv, HeaderInv, InReach, Stored
<1>6. HookInv'
  BY DEF TypeOK, AloneInv, BufferInv, HeaderInv, HookInv, InReach
<1> QED BY <1>1, <1>2, <1>3, <1>4, <1>5, <1>6

LEMMA ReloadStep ==
  ASSUME Careful, IInv, NEW t \in Threads, Reload(t)
  PROVE  IInv'
<1> USE Constants DEF IInv, Reload, ResetFields, Step, AtRest, Configuring, Begun, Careful, heap, locals, ConfPc, HookPc, NULL, HeaderFields, Counters
<1>1. TypeOK'
  BY DEF TypeOK, PcType, Modes
<1>2. StartInv'
  BY DEF TypeOK, StartInv, BufferInv
<1>3. AloneInv'
  BY DEF TypeOK, StartInv, AloneInv, BufferInv
<1>4. BufferInv'
  BY DEF TypeOK, StartInv, AloneInv, BufferInv
<1>5. HeaderInv'
  BY DEF TypeOK, AloneInv, BufferInv, HeaderInv, InReach, Stored
<1>6. HookInv'
  BY DEF TypeOK, AloneInv, BufferInv, HeaderInv, HookInv, InReach
<1> QED BY <1>1, <1>2, <1>3, <1>4, <1>5, <1>6

(* One store of cift_configure, named by its field.                        *)
StoreField(t, f) ==
  /\ block[t] # NULL
  /\ Step(t, "header", IF pending[t] = {f} THEN "register" ELSE "header")
  /\ header' = [header EXCEPT ![block[t]][f] =
                  CASE f = "total_bytes"     -> request[t][1]
                    [] f = "buffer_mode"     -> request[t][2]
                    [] f = "max_event_count" -> MaxEvents(request[t][1])
                    [] OTHER                 -> 0]
  /\ pending' = [pending EXCEPT ![t] = @ \ {f}]
  /\ since' = IF pending[t] = {f} THEN 0 ELSE since
  /\ UNCHANGED <<lazy_init, cift_enabled, cift_event_buffer, room, call,
                 block, next_index, new_next_index, request, hook, at_exit>>

LEMMA StoreHeaderStep ==
  ASSUME Careful, IInv, NEW t \in Threads, StoreHeader(t)
  PROVE  IInv'
<1> USE Constants DEF IInv, StoreHeader, Step, AtRest, Configuring, Begun, Careful, heap, locals, ConfPc, HookPc, NULL, HeaderFields, Counters
<1> PICK f \in pending[t] : StoreField(t, f)
  BY DEF StoreField
<1> USE DEF StoreField
<1>0. /\ t = Main /\ pc[t] = "header" /\ cift_event_buffer \in Blocks
      /\ block[t] = cift_event_buffer /\ f \in HeaderFields
  BY DEF TypeOK, AloneInv, BufferInv
<1>a. /\ header' = [header EXCEPT ![cift_event_buffer][f] = Stored(f)]
      /\ Stored(f) = Stored(f)'
  BY <1>0 DEF Stored
<1>b. /\ f = "buffer_mode" => Stored(f) \in Modes
      /\ f # "buffer_mode" => Stored(f) \in Nat
  <2>1. request[Main][1] \in Bytes /\ request[Main][2] \in Modes
    BY <1>0 DEF TypeOK
  <2>2. MaxEvents(request[Main][1]) \in Nat
    BY <2>1, Fits
  <2> QED BY <2>1, <2>2, <1>0 DEF Stored
<1>1. TypeOK'
  <2>1. /\ DOMAIN header' = Blocks
        /\ \A b \in Blocks : /\ DOMAIN header'[b] = HeaderFields
                             /\ header'[b]["buffer_mode"] \in Modes
                             /\ \A g \in Counters : header'[b][g] \in Nat
    BY <1>0, <1>a, <1>b DEF TypeOK
  <2>2. pc' \in [Threads -> PcType] /\ pending' \in [Threads -> SUBSET HeaderFields]
    BY <1>0 DEF TypeOK, PcType
  <2> QED BY <2>1, <2>2 DEF TypeOK
<1>2. StartInv'
  BY DEF TypeOK, StartInv, BufferInv
<1>3. AloneInv'
  BY DEF TypeOK, StartInv, AloneInv, BufferInv
<1>4. BufferInv'
  BY DEF TypeOK, StartInv, AloneInv, BufferInv
<1>5. HeaderInv'
  <2> DEFINE h == header[cift_event_buffer]
  <2>1. \A g \in HeaderFields \ pending'[Main] : h'[g] = Stored(g)
    <3> TAKE g \in HeaderFields \ pending'[Main]
    <3>1. CASE g = f
      BY <3>1, <1>0, <1>a DEF TypeOK
    <3>2. CASE g # f
      <4>1. g \in HeaderFields \ pending[Main]
        BY <3>2, <1>0 DEF TypeOK
      <4>2. h'[g] = h[g]
        BY <3>2, <1>0, <1>a DEF TypeOK
      <4> QED BY <4>1, <4>2, <1>0 DEF HeaderInv
    <3> QED BY <3>1, <3>2
  <2>2. \A g : Stored(g)' = Stored(g)
    BY DEF Stored
  <2>3. CASE pending[t] = {f}
    <3>1. pending'[Main] = {} /\ pc'[Main] = "register" /\ since' = 0
      BY <1>0, <2>3 DEF TypeOK
    <3>2. /\ h'["total_bytes"] = request[Main][1]
          /\ h'["max_event_count"] = MaxEvents(request[Main][1])
          /\ h'["next_event_index"] = 0
          /\ h'["total_events_added"] = 0 /\ h'["total_events_dropped"] = 0
      BY <2>1, <3>1 DEF Stored
    <3>3. room'[cift_event_buffer'] = request[Main][1] /\ cift_event_buffer' = cift_event_buffer
      BY <1>0 DEF BufferInv
    <3>4. MaxEvents(request[Main][1]) \in Nat
      BY <1>0, Fits DEF TypeOK
    <3>5. InReach(h'["next_event_index"], h')
      BY <3>2, <3>4 DEF InReach
    <3> HIDE DEF h
    <3> QED BY <3>1, <3>2, <3>3, <3>5 DEF HeaderInv, h
  <2>4. CASE pending[t] # {f}
    BY <2>1, <2>2, <2>4, <1>0 DEF HeaderInv, TypeOK
  <2> QED BY <2>3, <2>4
<1>6. HookInv'
  BY DEF TypeOK, AloneInv, BufferInv, HeaderInv, HookInv, InReach
<1> QED BY <1>1, <1>2, <1>3, <1>4, <1>5, <1>6

LEMMA RegisterStep ==
  ASSUME Careful, IInv, NEW t \in Threads, Register(t)
  PROVE  IInv'
<1> USE Constants DEF IInv, Register, ReturnTo, NoRequest, Step, AtRest, Configuring, Begun, Careful, heap, locals, ConfPc, HookPc, NULL, HeaderFields, Counters
<1>1. TypeOK'
  BY DEF TypeOK, PcType, Modes
<1>2. StartInv'
  BY DEF TypeOK, StartInv, BufferInv
<1>3. AloneInv'
  BY DEF TypeOK, StartInv, AloneInv, BufferInv
<1>4. BufferInv'
  BY DEF TypeOK, StartInv, AloneInv, BufferInv
<1>5. HeaderInv'
  BY DEF TypeOK, AloneInv, BufferInv, HeaderInv, InReach, Stored
<1>6. HookInv'
  BY DEF TypeOK, AloneInv, BufferInv, HeaderInv, HookInv, InReach
<1> QED BY <1>1, <1>2, <1>3, <1>4, <1>5, <1>6

LEMMA HookStep ==
  ASSUME Careful, IInv, NEW t \in Threads, Hook(t)
  PROVE  IInv'
<1> USE Constants DEF IInv, Hook, Step, AtRest, Configuring, Begun, Careful, heap, locals, ConfPc, HookPc, NULL, HeaderFields, Counters
<1>1. TypeOK'
  BY DEF TypeOK, PcType, Modes
<1>2. StartInv'
  BY DEF TypeOK, StartInv, BufferInv
<1>3. AloneInv'
  BY DEF TypeOK, StartInv, AloneInv, BufferInv
<1>4. BufferInv'
  BY DEF TypeOK, StartInv, AloneInv, BufferInv
<1>5. HeaderInv'
  BY DEF TypeOK, AloneInv, BufferInv, HeaderInv, InReach, Stored
<1>6. HookInv'
  BY DEF TypeOK, AloneInv, BufferInv, HeaderInv, HookInv, InReach
<1> QED BY <1>1, <1>2, <1>3, <1>4, <1>5, <1>6

LEMMA TestStep ==
  ASSUME Careful, IInv, NEW t \in Threads, Test(t)
  PROVE  IInv'
<1> USE Constants DEF IInv, Test, NoRequest, Step, AtRest, Configuring, Begun, Careful, heap, locals, ConfPc, HookPc, NULL, HeaderFields, Counters
<1>1. TypeOK'
  BY DEF TypeOK, PcType, Modes
<1>2. StartInv'
  BY DEF TypeOK, StartInv, BufferInv
<1>3. AloneInv'
  <2>1. CASE cift_event_buffer = NULL /\ lazy_init
    <3>1. t = Main /\ ~ Begun /\ pc[Main] = "test"
      BY <2>1 DEF TypeOK, StartInv, BufferInv
    <3>2. /\ pc'[Main] = "configure" /\ hook' = hook /\ call' = call
          /\ \A u \in Threads \ {Main} : pc'[u] = pc[u]
      <4>1. pc' = [pc EXCEPT ![Main] = "configure"]
        BY <2>1, <3>1
      <4> QED BY <4>1 DEF TypeOK
    <3>3. call[Main] = 1 /\ hook[Main]
      <4>1. call[Main] # 0 /\ call[Main] \in Nat
        BY <3>1 DEF StartInv, TypeOK
      <4> QED BY <3>1, <4>1
    <3>4. ~ Begun' /\ \A u \in Threads \ {Main} : pc'[u] = "idle"
      BY <2>1, <3>1, <3>2, <3>3 DEF StartInv
    <3> QED BY <3>2, <3>3, <3>4 DEF AloneInv
  <2>2. CASE ~ (cift_event_buffer = NULL /\ lazy_init)
    <3>1. pc[t] = "test" /\ pc'[t] \in {"load", "idle"}
          /\ \A u \in Threads \ {t} : pc'[u] = pc[u]
      <4>1. CASE cift_event_buffer # NULL
        BY <4>1 DEF TypeOK
      <4>2. CASE cift_event_buffer = NULL /\ ~ lazy_init
        BY <4>2 DEF TypeOK
      <4> QED BY <2>2, <4>1, <4>2
    <3>2. \A u \in Threads : pc[u] \notin ConfPc \union {"retest"}
      BY <3>1 DEF AloneInv
    <3>3. \A u \in Threads : pc'[u] \notin ConfPc \union {"retest"}
      BY <3>1, <3>2
    <3> QED BY <3>3 DEF AloneInv
  <2> QED BY <2>1, <2>2
<1>4. BufferInv'
  <2>1. pc[t] = "test" /\ (t # Main => Begun)
    BY DEF StartInv
  <2>2. CASE cift_event_buffer # NULL
    <3>1. \A u \in Threads :
            pc'[u] \in HookPc => block'[u] = cift_event_buffer'
      BY <2>2 DEF TypeOK, BufferInv
    <3>2. UNCHANGED <<cift_event_buffer, room>> /\ cift_event_buffer' # NULL
      BY <2>2
    <3>3. pc'[Main] \in {"allocate", "header", "print", "register"} =>
            UNCHANGED <<pc[Main], block[Main], request[Main]>>
      BY <2>2 DEF TypeOK
    <3> QED BY <2>2, <3>1, <3>2, <3>3 DEF TypeOK, BufferInv
  <2>3. CASE cift_event_buffer = NULL /\ lazy_init
    <3>1. t = Main /\ ~ Begun /\ pc'[t] = "configure"
      BY <2>1, <2>3 DEF TypeOK, BufferInv, StartInv
    <3>2. ~ Begun'
      BY <3>1, <2>1 DEF TypeOK
    <3>3. \A u \in Threads : pc'[u] \notin HookPc
      BY <3>1 DEF TypeOK, StartInv
    <3> QED BY <2>3, <3>1, <3>2, <3>3 DEF BufferInv
  <2>4. CASE cift_event_buffer = NULL /\ ~ lazy_init
    <3>1. pc'[t] = "idle" /\ \A u \in Threads \ {t} : pc'[u] = pc[u] /\ block'[u] = block[u]
      BY <2>4 DEF TypeOK
    <3>2. \A u \in Threads : pc'[u] \notin HookPc
      BY <2>4, <3>1 DEF BufferInv
    <3> QED BY <2>4, <3>1, <3>2 DEF BufferInv, TypeOK
  <2> QED BY <2>2, <2>3, <2>4 DEF TypeOK
<1>5. HeaderInv'
  BY DEF TypeOK, AloneInv, BufferInv, HeaderInv, InReach, Stored
<1>6. HookInv'
  BY DEF TypeOK, AloneInv, BufferInv, HeaderInv, HookInv, InReach
<1> QED BY <1>1, <1>2, <1>3, <1>4, <1>5, <1>6

LEMMA RetestStep ==
  ASSUME Careful, IInv, NEW t \in Threads, Retest(t)
  PROVE  IInv'
<1> USE Constants DEF IInv, Retest, Step, AtRest, Configuring, Begun, Careful, heap, locals, ConfPc, HookPc, NULL, HeaderFields, Counters
<1>1. TypeOK'
  BY DEF TypeOK, PcType, Modes
<1>2. StartInv'
  BY DEF TypeOK, StartInv, BufferInv
<1>3. AloneInv'
  BY DEF TypeOK, StartInv, AloneInv, BufferInv
<1>4. BufferInv'
  BY DEF TypeOK, StartInv, AloneInv, BufferInv
<1>5. HeaderInv'
  BY DEF TypeOK, AloneInv, BufferInv, HeaderInv, InReach, Stored
<1>6. HookInv'
  BY DEF TypeOK, AloneInv, BufferInv, HeaderInv, HookInv, InReach
<1> QED BY <1>1, <1>2, <1>3, <1>4, <1>5, <1>6

LEMMA LoadStep ==
  ASSUME Careful, IInv, NEW t \in Threads, Load(t)
  PROVE  IInv'
<1> USE Constants DEF IInv, Load, Step, AtRest, Configuring, Begun, Careful, heap, locals, ConfPc, HookPc, NULL, HeaderFields, Counters
<1>1. TypeOK'
  BY DEF TypeOK, PcType, Modes
<1>2. StartInv'
  BY DEF TypeOK, StartInv, BufferInv
<1>3. AloneInv'
  BY DEF TypeOK, StartInv, AloneInv, BufferInv
<1>4. BufferInv'
  BY DEF TypeOK, StartInv, AloneInv, BufferInv
<1>5. HeaderInv'
  BY DEF TypeOK, AloneInv, BufferInv, HeaderInv, InReach, Stored
<1>6. HookInv'
  BY DEF TypeOK, AloneInv, BufferInv, HeaderInv, HookInv, InReach
<1> QED BY <1>1, <1>2, <1>3, <1>4, <1>5, <1>6

LEMMA CheckStep ==
  ASSUME Careful, IInv, NEW t \in Threads, Check(t)
  PROVE  IInv'
<1> USE Constants DEF IInv, Check, Step, AtRest, Configuring, Begun, Careful, heap, locals, ConfPc, HookPc, NULL, HeaderFields, Counters
<1>1. TypeOK'
  BY DEF TypeOK, PcType, Modes
<1>2. StartInv'
  BY DEF TypeOK, StartInv, BufferInv
<1>3. AloneInv'
  BY DEF TypeOK, StartInv, AloneInv, BufferInv
<1>4. BufferInv'
  BY DEF TypeOK, StartInv, AloneInv, BufferInv
<1>5. HeaderInv'
  BY DEF TypeOK, AloneInv, BufferInv, HeaderInv, InReach, Stored
<1>6. HookInv'
  BY DEF TypeOK, AloneInv, BufferInv, HeaderInv, HookInv, InReach
<1> QED BY <1>1, <1>2, <1>3, <1>4, <1>5, <1>6

LEMMA ClaimStep ==
  ASSUME Careful, IInv, NEW t \in Threads, Claim(t)
  PROVE  IInv'
<1> USE Constants DEF IInv, Claim, Step, AtRest, Configuring, Begun, Careful, heap, locals, ConfPc, HookPc, NULL, HeaderFields, Counters
<1>1. TypeOK'
  BY DEF TypeOK, PcType, Modes
<1>2. StartInv'
  BY DEF TypeOK, StartInv, BufferInv
<1>3. AloneInv'
  BY DEF TypeOK, StartInv, AloneInv, BufferInv
<1>4. BufferInv'
  BY DEF TypeOK, StartInv, AloneInv, BufferInv
<1>5. HeaderInv'
  <2> DEFINE h == header[cift_event_buffer]
  <2>1. /\ pc[t] = "cas" /\ pc'[t] = "fill"
        /\ cift_event_buffer \in Blocks /\ block[t] = cift_event_buffer
        /\ pc[Main] \notin ConfPc
        /\ pc'[Main] \notin ConfPc
    BY DEF TypeOK, BufferInv, AloneInv
  <2>2. /\ h' = [h EXCEPT !["next_event_index"] = new_next_index[t]]
        /\ h["next_event_index"] = next_index[t]
    BY <2>1 DEF TypeOK
  <2>3. /\ h'["next_event_index"] = new_next_index[t]
        /\ \A f \in HeaderFields \ {"next_event_index"} : h'[f] = h[f]
    BY <2>1, <2>2 DEF TypeOK
  <2>4. InReach(h'["next_event_index"], h')
    <3>1. /\ next_index[t] < h["max_event_count"]
          /\ new_next_index[t] =
               IF next_index[t] + 1 >= h["max_event_count"] /\ h["buffer_mode"] = "circular"
                 THEN 0 ELSE next_index[t] + 1
      BY <2>1 DEF HookInv
    <3>2. next_index[t] \in Nat /\ h["max_event_count"] \in Nat
      BY <2>1 DEF TypeOK
    <3> HIDE DEF h
    <3> QED BY <2>3, <3>1, <3>2 DEF InReach
  <2>5. cift_event_buffer' = cift_event_buffer /\ UNCHANGED <<room, since, at_exit>>
    OBVIOUS
  <2>6. /\ h["total_bytes"] = room[cift_event_buffer]
        /\ h["max_event_count"] = MaxEvents(room[cift_event_buffer])
        /\ h["total_events_added"] + h["total_events_dropped"] = since
        /\ at_exit
    BY <2>1 DEF HeaderInv
  <2> HIDE DEF h
  <2>7. /\ h'["total_bytes"] = room'[cift_event_buffer']
        /\ h'["max_event_count"] = MaxEvents(room'[cift_event_buffer'])
        /\ h'["total_events_added"] + h'["total_events_dropped"] = since'
    BY <2>3, <2>5, <2>6
  <2> QED BY <2>1, <2>4, <2>5, <2>6, <2>7 DEF HeaderInv, h
<1>6. HookInv'
  BY DEF TypeOK, AloneInv, BufferInv, HeaderInv, HookInv, InReach
<1> QED BY <1>1, <1>2, <1>3, <1>4, <1>5, <1>6

LEMMA RetryStep ==
  ASSUME Careful, IInv, NEW t \in Threads, Retry(t)
  PROVE  IInv'
<1> USE Constants DEF IInv, Retry, Step, AtRest, Configuring, Begun, Careful, heap, locals, ConfPc, HookPc, NULL, HeaderFields, Counters
<1>1. TypeOK'
  BY DEF TypeOK, PcType, Modes
<1>2. StartInv'
  BY DEF TypeOK, StartInv, BufferInv
<1>3. AloneInv'
  BY DEF TypeOK, StartInv, AloneInv, BufferInv
<1>4. BufferInv'
  BY DEF TypeOK, StartInv, AloneInv, BufferInv
<1>5. HeaderInv'
  BY DEF TypeOK, AloneInv, BufferInv, HeaderInv, InReach, Stored
<1>6. HookInv'
  BY DEF TypeOK, AloneInv, BufferInv, HeaderInv, HookInv, InReach
<1> QED BY <1>1, <1>2, <1>3, <1>4, <1>5, <1>6

LEMMA CountStep ==
  ASSUME Careful, IInv, NEW t \in Threads, Count(t)
  PROVE  IInv'
<1> USE Constants DEF IInv, Count, Increment, Step, AtRest, Configuring, Begun, Careful, heap, locals, ConfPc, HookPc, NULL, HeaderFields, Counters
<1>1. TypeOK'
  BY DEF TypeOK, PcType, Modes
<1>2. StartInv'
  BY DEF TypeOK, StartInv, BufferInv
<1>3. AloneInv'
  BY DEF TypeOK, StartInv, AloneInv, BufferInv
<1>4. BufferInv'
  BY DEF TypeOK, StartInv, AloneInv, BufferInv
<1>5. HeaderInv'
  <2> DEFINE h == header[cift_event_buffer]
  <2>1. /\ pc[t] = "fill" /\ pc'[t] = "publish"
        /\ cift_event_buffer \in Blocks
        /\ pc[Main] \notin ConfPc
        /\ pc'[Main] \notin ConfPc
    BY DEF TypeOK, BufferInv, AloneInv
  <2>2. /\ h'["total_events_added"] = h["total_events_added"] + 1
        /\ \A f \in HeaderFields \ {"total_events_added"} : h'[f] = h[f]
    BY <2>1 DEF TypeOK
  <2>3. /\ h["total_bytes"] = room[cift_event_buffer]
        /\ h["max_event_count"] = MaxEvents(room[cift_event_buffer])
        /\ InReach(h["next_event_index"], h)
        /\ h["total_events_added"] + h["total_events_dropped"] = since
        /\ at_exit
    BY <2>1 DEF HeaderInv
  <2>4. h["total_events_added"] \in Nat /\ h["total_events_dropped"] \in Nat
    BY <2>1 DEF TypeOK
  <2>5. /\ cift_event_buffer' = cift_event_buffer /\ since' = since + 1
        /\ UNCHANGED <<room, at_exit>>
    OBVIOUS
  <2> HIDE DEF h
  <2>6. /\ h'["total_bytes"] = room'[cift_event_buffer']
        /\ h'["max_event_count"] = MaxEvents(room'[cift_event_buffer'])
        /\ InReach(h'["next_event_index"], h')
        /\ at_exit'
    BY <2>2, <2>3, <2>5 DEF InReach
  <2>7. h'["total_events_added"] + h'["total_events_dropped"] = since'
    BY <2>2, <2>3, <2>4, <2>5, SMTT(30) DEF TypeOK
  <2> QED BY <2>1, <2>6, <2>7 DEF HeaderInv, h
<1>6. HookInv'
  BY DEF TypeOK, AloneInv, BufferInv, HeaderInv, HookInv, InReach
<1> QED BY <1>1, <1>2, <1>3, <1>4, <1>5, <1>6

LEMMA PublishStep ==
  ASSUME Careful, IInv, NEW t \in Threads, Publish(t)
  PROVE  IInv'
<1> USE Constants DEF IInv, Publish, Return, Step, AtRest, Configuring, Begun, Careful, heap, locals, ConfPc, HookPc, NULL, HeaderFields, Counters
<1>1. TypeOK'
  BY DEF TypeOK, PcType, Modes
<1>2. StartInv'
  BY DEF TypeOK, StartInv, BufferInv
<1>3. AloneInv'
  BY DEF TypeOK, StartInv, AloneInv, BufferInv
<1>4. BufferInv'
  BY DEF TypeOK, StartInv, AloneInv, BufferInv
<1>5. HeaderInv'
  BY DEF TypeOK, AloneInv, BufferInv, HeaderInv, InReach, Stored
<1>6. HookInv'
  BY DEF TypeOK, AloneInv, BufferInv, HeaderInv, HookInv, InReach
<1> QED BY <1>1, <1>2, <1>3, <1>4, <1>5, <1>6

LEMMA DropStep ==
  ASSUME Careful, IInv, NEW t \in Threads, Drop(t)
  PROVE  IInv'
<1> USE Constants DEF IInv, Drop, Return, Increment, Step, AtRest, Configuring, Begun, Careful, heap, locals, ConfPc, HookPc, NULL, HeaderFields, Counters
<1>1. TypeOK'
  BY DEF TypeOK, PcType, Modes
<1>2. StartInv'
  BY DEF TypeOK, StartInv, BufferInv
<1>3. AloneInv'
  BY DEF TypeOK, StartInv, AloneInv, BufferInv
<1>4. BufferInv'
  BY DEF TypeOK, StartInv, AloneInv, BufferInv
<1>5. HeaderInv'
  BY DEF TypeOK, AloneInv, BufferInv, HeaderInv, InReach, Stored
<1>6. HookInv'
  BY DEF TypeOK, AloneInv, BufferInv, HeaderInv, HookInv, InReach
<1> QED BY <1>1, <1>2, <1>3, <1>4, <1>5, <1>6

-----------------------------------------------------------------------------
(* The inductive invariant of a careful application's buffer (cift.c:146-  *)
(* 165, 224-284): a configuration is alone, the pointer and what the hooks *)
(* took from it agree, and the header belongs to the memory.               *)
THEOREM Invariance == Careful => (Spec => []IInv)
<1> SUFFICES ASSUME Careful PROVE Spec => []IInv
  OBVIOUS
<1>1. Init => IInv
  <2> SUFFICES ASSUME Init PROVE IInv
    OBVIOUS
  <2> USE Constants DEF Init, NULL
  <2>1. TypeOK
    <3>1. PICK mode \in Modes, n \in {0, Junk} :
            header = [b \in Blocks |->
                       [f \in HeaderFields |-> IF f = "buffer_mode" THEN mode ELSE n]]
      OBVIOUS
    <3>2. n \in Nat /\ "buffer_mode" \in HeaderFields
      BY ConfigureAssumption DEF HeaderFields
    <3>3. /\ DOMAIN header = Blocks
          /\ \A b \in Blocks : /\ DOMAIN header[b] = HeaderFields
                               /\ header[b]["buffer_mode"] \in Modes
                               /\ \A f \in Counters : header[b][f] \in Nat
      BY <3>1, <3>2 DEF Counters
    <3>4. request \in [Threads -> (Sizes \union {DefaultBytes}) \X Modes]
      BY DEF NoRequest
    <3> QED BY <3>3, <3>4 DEF TypeOK, PcType
  <2>2. Begun => ~ lazy_init
    BY DEF Begun, Careful
  <2>3. StartInv /\ AloneInv
    BY DEF StartInv, AloneInv, ConfPc
  <2>4. BufferInv
    BY <2>2 DEF BufferInv, HookPc
  <2>5. HeaderInv /\ HookInv
    BY DEF HeaderInv, HookInv
  <2> QED BY <2>1, <2>3, <2>4, <2>5 DEF IInv
<1>2. IInv /\ [Next]_vars => IInv'
  <2> SUFFICES ASSUME IInv, [Next]_vars PROVE IInv'
    OBVIOUS
  <2>1. CASE UNCHANGED vars
    BY <2>1 DEF vars, heap, locals, IInv, TypeOK, StartInv, AloneInv, BufferInv, HeaderInv,
                HookInv, InReach, Stored, Begun
  <2>2. CASE \E enabled \in BOOLEAN : SetEnable(enabled)
    BY <2>2, SetEnableStep
  <2>3. CASE \E totalBytes \in Sizes, mode \in Modes : Configure(totalBytes, mode)
    BY <2>3, ConfigureStep
  <2>4. CASE Exit
    BY <2>4, ExitStep
  <2>5. ASSUME NEW t \in Threads,
               \/ Choose(t) \/ Allocate(t) \/ AllocateFails(t) \/ Reload(t)
               \/ StoreHeader(t) \/ Register(t)
        PROVE  IInv'
    BY <2>5, ChooseStep, AllocateStep, AllocateFailsStep, ReloadStep, StoreHeaderStep,
       RegisterStep
  <2>6. ASSUME NEW t \in Threads,
               \/ Hook(t) \/ Test(t) \/ Retest(t) \/ Load(t) \/ Check(t) \/ Claim(t)
               \/ Retry(t) \/ Count(t) \/ Publish(t) \/ Drop(t)
        PROVE  IInv'
    BY <2>6, HookStep, TestStep, RetestStep, LoadStep, CheckStep, ClaimStep, RetryStep,
       CountStep, PublishStep, DropStep
  <2> QED BY <2>1, <2>2, <2>3, <2>4, <2>5, <2>6 DEF Next
<1> QED BY <1>1, <1>2, PTL DEF Spec

(* A careful application's hooks and configurations work on the live       *)
(* buffer only (cift.c:151-163, 238-249).                                  *)
THEOREM LiveBlocks == Careful => (Spec => []OnlyLiveBlocks)
<1>1. IInv => OnlyLiveBlocks
  <2> SUFFICES ASSUME IInv, NEW t \in Threads,
                      pc[t] \in {"header", "load", "check", "cas", "fill", "publish"}
               PROVE  block[t] # NULL /\ room[block[t]] > 0
    BY DEF OnlyLiveBlocks
  <2>1. cift_event_buffer # NULL /\ block[t] = cift_event_buffer
    BY DEF IInv, AloneInv, BufferInv, ConfPc, HookPc
  <2>2. room[cift_event_buffer] \in Bytes
    BY <2>1 DEF IInv, BufferInv
  <2> QED BY <2>1, <2>2, ConfigureAssumption DEF Bytes
<1> QED BY <1>1, Invariance, PTL

(* They write only slots that lie in the memory that was allocated, if     *)
(* that is no less than a header (cift.c:226-244, 131).                    *)
THEOREM SlotsInRoom == Careful => (Spec => []WritesInRoom)
<1>1. IInv => WritesInRoom
  <2> SUFFICES ASSUME IInv, NEW t \in Threads, pc[t] \in {"fill", "publish"},
                      ~ TooSmall(block[t])
               PROVE  HeaderBytes + (next_index[t] + 1) * EventBytes <= room[block[t]]
    BY DEF WritesInRoom
  <2>1. cift_event_buffer # NULL /\ block[t] = cift_event_buffer
    BY DEF IInv, BufferInv, HookPc
  <2>2. pc[Main] \notin {"print", "header"}
    BY Constants DEF IInv, AloneInv, ConfPc
  <2>3. PICK n \in Bytes : n = room[cift_event_buffer]
    BY <2>1 DEF IInv, BufferInv
  <2>9. n >= HeaderBytes
    BY <2>1, <2>3, ConfigureAssumption DEF TooSmall, Bytes
  <2>4. PICK k \in Nat : k = next_index[t]
    BY DEF IInv, TypeOK
  <2>5. PICK m \in Nat : m = MaxEvents(n) /\ m * EventBytes <= n - HeaderBytes
    BY <2>9, Fits
  <2>6. k + 1 <= m
    BY <2>1, <2>2, <2>3, <2>4, <2>5 DEF IInv, HeaderInv, HookInv
  <2>7. (k + 1) * EventBytes <= m * EventBytes
    BY <2>6, ConfigureAssumption
  <2>8. /\ n \in Nat /\ HeaderBytes \in Nat /\ (k + 1) * EventBytes \in Nat
        /\ m * EventBytes \in Nat
    BY ConfigureAssumption DEF Bytes
  <2> QED BY <2>1, <2>3, <2>4, <2>5, <2>7, <2>8
<1> QED BY <1>1, Invariance, PTL

(* They drop an event only if the buffer is full or has room for none      *)
(* (cift.c:115-119).                                                       *)
THEOREM DropsAreDue == Careful => (Spec => []DropMeansFull)
<1>1. IInv => DropMeansFull
  <2> SUFFICES ASSUME IInv, NEW t \in Threads, pc[t] = "drop"
               PROVE  LET h == header[block[t]] IN
                      \/ h.buffer_mode = "fill_and_stop" /\ h.next_event_index >= h.max_event_count
                      \/ room[block[t]] < HeaderBytes + EventBytes
    BY DEF DropMeansFull
  <2> DEFINE h == header[cift_event_buffer]
  <2>1. cift_event_buffer \in Blocks /\ block[t] = cift_event_buffer
    BY Constants DEF IInv, TypeOK, BufferInv, HookPc
  <2>2. pc[Main] \notin {"print", "header"}
    BY Constants DEF IInv, AloneInv, ConfPc
  <2>3. /\ next_index[t] >= h["max_event_count"] /\ InReach(next_index[t], h)
        /\ h["buffer_mode"] = "fill_and_stop" => next_index[t] <= h["next_event_index"]
    BY DEF IInv, HookInv
  <2>4. /\ next_index[t] \in Nat /\ h["max_event_count"] \in Nat
        /\ h["next_event_index"] \in Nat /\ h["buffer_mode"] \in Modes
    BY <2>1 DEF IInv, TypeOK, Counters, HeaderFields
  <2>5. CASE h["buffer_mode"] = "fill_and_stop"
    BY <2>1, <2>3, <2>4, <2>5
  <2>6. CASE h["buffer_mode"] = "circular"
    <3>1. h["max_event_count"] = 0
      BY <2>3, <2>4, <2>6 DEF InReach
    <3>2. room[cift_event_buffer] \in Bytes /\ MaxEvents(room[cift_event_buffer]) = 0
      BY <2>1, <2>2, <3>1, Constants DEF IInv, BufferInv, HeaderInv
    <3> QED BY <2>1, <3>2, Fits
  <2> QED BY <2>4, <2>5, <2>6 DEF Modes
<1> QED BY <1>1, Invariance, PTL

(* At rest the counters add up to the hooks counted since the last         *)
(* configuration (cift.c:240, 264-266).                                    *)
THEOREM CountersBelong == Careful => (Spec => []CountersOfThisBuffer)
<1>1. IInv => CountersOfThisBuffer
  BY Constants DEF IInv, HeaderInv, CountersOfThisBuffer, AtRest
<1> QED BY <1>1, Invariance, PTL

(* When main() returns, the exit handler is there for a buffer, and the    *)
(* header tells it how much to write (cift.c:244, 261, 275).               *)
THEOREM ExitDumps == Careful => (Spec => []ExitDumpsBuffer)
<1>1. IInv => ExitDumpsBuffer
  BY DEF IInv, HeaderInv, ExitDumpsBuffer
<1> QED BY <1>1, Invariance, PTL

================================================================================
