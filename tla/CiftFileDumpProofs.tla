------------------------- MODULE CiftFileDumpProofs -------------------------
(***************************************************************************)
(* What holds of a dump among the hooks of any number of threads, for any  *)
(* number of slots and any chunks.                                         *)
(***************************************************************************)
EXTENDS CiftFileDump, CiftBufferProofs

(* A dump does to the buffer at most what the application may do.          *)
LEMMA DumpNextIsNext == [DumpNext]_allVars => [Next]_vars
<1>1. ASSUME DumpStep PROVE [Next]_vars
  <2>1. CASE Disable
    BY <2>1 DEF Disable, Next
  <2>2. CASE ~ Disable
    BY <1>1, <2>2 DEF DumpStep, OpenFails, Open, ReadTotal, ReadCount, ReadStart,
       ReadField, TextDone, Copy, ShortWrite, BinDone
  <2> QED BY <2>1, <2>2
<1>2. CASE UNCHANGED allVars
  BY <1>2 DEF allVars
<1> QED BY <1>1, <1>2 DEF DumpNext

(* What was proved of the buffer holds while it is dumped: a dump only     *)
(* reads it and clears cift_enabled, so the hooks stay the only writers.   *)
THEOREM BufferInvariance == DumpSpec => [](IInv /\ EveryClaimCounted)
<1>1. DumpInit => IInv /\ EveryClaimCounted
  <2>1. Init => EveryClaimCounted
    BY InitClaimCount
  <2> QED BY <2>1, InitIInv DEF DumpInit
<1>2. IInv /\ EveryClaimCounted /\ [DumpNext]_allVars
        => (IInv /\ EveryClaimCounted)'
  BY DumpNextIsNext, NextIInv, ClaimCountStep DEF IInv
<1> QED BY <1>1, <1>2, PTL DEF DumpSpec

-----------------------------------------------------------------------------
(* While the gate is closed: who has claimed since cannot be on its way to *)
(* another claim.                                                          *)
LateInv ==
  ~ cift_enabled =>
    /\ closed_at \in 0 .. Len(claims)
    /\ \A k \in closed_at + 1 .. Len(claims) :
         pc[claims[k][1]] \notin {"load", "cas"}
    /\ \A m, n \in closed_at + 1 .. Len(claims) :
         m # n => claims[m][1] # claims[n][1]

(* A step of a hook while the gate is closed.                              *)
LEMMA LateStep ==
  ASSUME TypeOK, LateInv, [Next]_vars, ~ cift_enabled, ~ cift_enabled',
         closed_at' = closed_at
  PROVE  LateInv'
<1> USE BufferAssumption
<1>0. /\ closed_at \in 0 .. Len(claims)
      /\ Len(claims) \in Nat
      /\ \A k \in closed_at + 1 .. Len(claims) :
           pc[claims[k][1]] \notin {"load", "cas"} /\ claims[k][1] \in Threads
      /\ \A m, n \in closed_at + 1 .. Len(claims) :
           m # n => claims[m][1] # claims[n][1]
  <2>1. \A k \in 1 .. Len(claims) : claims[k] \in Threads \X (1 .. MaxCalls)
    BY DEF TypeOK, Calls
  <2>2. Len(claims) \in Nat
    BY DEF TypeOK
  <2>3. /\ closed_at \in 0 .. Len(claims)
        /\ \A k \in closed_at + 1 .. Len(claims) :
             pc[claims[k][1]] \notin {"load", "cas"}
        /\ \A m, n \in closed_at + 1 .. Len(claims) :
             m # n => claims[m][1] # claims[n][1]
    BY DEF LateInv
  <2>4. \A k \in closed_at + 1 .. Len(claims) : claims[k][1] \in Threads
    BY <2>1, <2>2, <2>3
  <2> QED BY <2>2, <2>3, <2>4
<1>1. ASSUME NEW t \in Threads, Claim(t) PROVE LateInv'
  <2>1. /\ pc[t] = "cas"
        /\ pc' = [pc EXCEPT ![t] = "fill"]
        /\ claims' = Append(claims, Call(t))
        /\ Len(claims') = Len(claims) + 1
        /\ claims'[Len(claims) + 1][1] = t
        /\ \A k \in 1 .. Len(claims) : claims'[k] = claims[k]
    BY <1>1 DEF TypeOK, Claim, Take, Step, Call
  <2>2. \A k \in closed_at + 1 .. Len(claims) : claims'[k][1] # t
    BY <1>0, <2>1
  <2>3. \A k \in closed_at + 1 .. Len(claims') :
          \/ k = Len(claims) + 1 /\ claims'[k][1] = t
          \/ k \in closed_at + 1 .. Len(claims) /\ claims'[k] = claims[k]
    BY <1>0, <2>1
  <2>4. \A k \in closed_at + 1 .. Len(claims') :
          pc'[claims'[k][1]] \notin {"load", "cas"}
    <3>1. pc'[t] = "fill" /\ \A u \in Threads : u # t => pc'[u] = pc[u]
      BY <2>1 DEF TypeOK
    <3>2. \A k \in closed_at + 1 .. Len(claims) :
            pc'[claims[k][1]] \notin {"load", "cas"}
      BY <1>0, <3>1
    <3> QED BY <2>3, <3>1, <3>2
  <2>5. \A m, n \in closed_at + 1 .. Len(claims') :
          m # n => claims'[m][1] # claims'[n][1]
    BY <1>0, <2>2, <2>3
  <2> QED BY <1>0, <2>1, <2>4, <2>5 DEF LateInv
<1>2. ASSUME UNCHANGED claims,
             \A u \in Threads : pc'[u] \in {"load", "cas"} => pc[u] \in {"load", "cas"}
      PROVE  LateInv'
  BY <1>0, <1>2 DEF LateInv
<1>3. CASE ~ \E t \in Threads : Claim(t)
  <2>1. UNCHANGED claims
    BY <1>3, OnlyClaimClaims
  <2>2. \A u \in Threads : pc'[u] \in {"load", "cas"} => pc[u] \in {"load", "cas"}
    BY <1>3, SMTT(30) DEF TypeOK, Next, LogStep, vars, SetEnable, Hook, Load, Retry, Fill,
       Count, Number, Publish, Finish, Drop, Step
  <2> QED BY <1>2, <2>1, <2>2
<1> QED BY <1>1, <1>3

(* Each thread claims at most once after the gate was closed: a hook that  *)
(* read cift_enabled before the dump cleared it may still take a slot, its *)
(* next call cannot.                                                       *)
THEOREM LateClaims == DumpSpec => []OneLateClaimEach
<1>1. DumpInit => LateInv
  BY DEF DumpInit, Init, LateInv
<1>2. IInv /\ LateInv /\ [DumpNext]_allVars => LateInv'
  <2> SUFFICES ASSUME IInv, LateInv, [DumpNext]_allVars PROVE LateInv'
    OBVIOUS
  <2>0. TypeOK /\ [Next]_vars
    BY DumpNextIsNext DEF IInv
  <2>1. CASE cift_enabled'
    BY <2>1 DEF LateInv
  <2>2. CASE ~ cift_enabled' /\ cift_enabled
    <3>1. closed_at' = Len(claims)
      BY <2>2 DEF DumpNext, allVars, vars
    <3>2. UNCHANGED claims
      BY <2>0, <2>2 DEF Next, LogStep, vars, SetEnable, history, Hook, Load, Retry,
         Fill, Store, Claim, Take, Count, Number, Publish, Finish, Drop
    <3>3. Len(claims) \in Nat
      BY <2>0 DEF TypeOK
    <3> QED BY <3>1, <3>2, <3>3 DEF LateInv
  <2>3. CASE ~ cift_enabled' /\ ~ cift_enabled
    <3>1. closed_at' = closed_at
      BY <2>3 DEF DumpNext, allVars
    <3> QED BY <2>0, <2>3, <3>1, LateStep
  <2> QED BY <2>1, <2>2, <2>3
<1>3. LateInv => OneLateClaimEach
  BY DEF LateInv, OneLateClaimEach
<1> QED BY <1>1, <1>2, <1>3, BufferInvariance, PTL DEF DumpSpec

-----------------------------------------------------------------------------
(* What a slot can hold.                                                   *)
Values == Calls \union {Invalid, Garbage} \union Nat

(* The window of the text dump.  It is empty until all of its counters     *)
(* have been read, and then what is left of it and what was printed are no *)
(* more than the slots.                                                    *)
WindowInv ==
  /\ left \in Nat
  /\ rows \in Seq([Fields -> Values])
  /\ DOMAIN row \subseteq Fields
  /\ \A f \in DOMAIN row : row[f] \in Values
  /\ dump \in {"none", "open", "total", "count", "start"}
       => index = 0 /\ rows = << >>
  /\ dump = "start" => ~ FillAndStop
  /\ dump = "rows" => /\ left + Len(rows) <= MaxEventCount
                      /\ left > 0 => index \in Slots

(* What the counters of the buffer may be at any time.                     *)
LEMMA CountersInRange ==
  ASSUME IInv, EveryClaimCounted
  PROVE  /\ next_event_index \in 0 .. MaxEventCount
         /\ total_events_added \in Nat
         /\ FillAndStop => total_events_added <= MaxEventCount
         /\ (~ FillAndStop /\ MaxEventCount > 0) => next_event_index \in Slots
<1> USE BufferAssumption
<1>1. TypeOK /\ IndexInv
  BY DEF IInv
<1>2. Cardinality(Filling) \in Nat
  <2>1. IsFiniteSet(Filling)
    BY FS_Subset DEF Filling
  <2> QED BY <2>1, FS_CardinalityType
<1>3. Len(claims) = total_events_added + Cardinality(Filling)
  BY DEF EveryClaimCounted, Filling
<1>4. /\ next_event_index \in 0 .. MaxEventCount
      /\ total_events_added \in Nat
      /\ Len(claims) \in Nat
  BY <1>1 DEF TypeOK
<1>5. FillAndStop => next_event_index = Len(claims)
  BY <1>1 DEF IndexInv
<1>6. (~ FillAndStop /\ MaxEventCount > 0) => next_event_index \in Slots
  BY <1>1, <1>4, DivMod DEF IndexInv, Slots
<1> QED BY <1>2, <1>3, <1>4, <1>5, <1>6

(* Reading one field of the row at hand, which may complete it.             *)
LEMMA RowStep ==
  ASSUME TypeOK, WindowInv, ReadField
  PROVE  WindowInv'
<1> USE BufferAssumption
<1>1. /\ dump = "rows" /\ dump' = "rows" /\ left > 0 /\ left \in Nat
      /\ index \in Slots /\ left + Len(rows) <= MaxEventCount
      /\ rows \in Seq([Fields -> Values]) /\ Len(rows) \in Nat
  BY DEF WindowInv, ReadField, Goto
<1>2. \A f \in Fields : event_buffer[index][f] \in Values
  BY <1>1 DEF TypeOK, Values
<1>3. PICK f \in Fields \ DOMAIN row :
        LET read == [g \in DOMAIN row \union {f} |->
                       IF g = f THEN event_buffer[index][f] ELSE row[g]]
        IN IF DOMAIN read # Fields
             THEN /\ row' = read
                  /\ UNCHANGED <<index, left, rows>>
             ELSE /\ row' = Empty
                  /\ rows' = Append(rows, read)
                  /\ left' = left - 1
                  /\ index' = (index + 1) % MaxEventCount
  BY DEF ReadField
<1> DEFINE read == [g \in DOMAIN row \union {f} |->
                      IF g = f THEN event_buffer[index][f] ELSE row[g]]
<1>4. /\ DOMAIN read \subseteq Fields
      /\ \A g \in DOMAIN read : read[g] \in Values
      /\ DOMAIN read = Fields => read \in [Fields -> Values]
  BY <1>2, <1>3 DEF WindowInv
<1> HIDE DEF read
<1>5. CASE DOMAIN read # Fields
  <2>1. row' = read /\ UNCHANGED <<index, left, rows>>
    BY <1>3, <1>5 DEF read
  <2> QED BY <1>1, <1>4, <2>1 DEF WindowInv
<1>6. CASE DOMAIN read = Fields
  <2>1. /\ row' = Empty
        /\ rows' = Append(rows, read)
        /\ left' = left - 1
        /\ index' = (index + 1) % MaxEventCount
    BY <1>3, <1>6 DEF read
  <2>2. rows' \in Seq([Fields -> Values]) /\ Len(rows') = Len(rows) + 1
    BY <1>1, <1>4, <1>6, <2>1
  <2>3. index' \in Slots
    <3>1. index + 1 \in Nat /\ MaxEventCount \in Nat \ {0}
      BY <1>1 DEF Slots
    <3> QED BY <2>1, <3>1, DivMod DEF Slots
  <2>4. DOMAIN row' = {}
    BY <2>1 DEF Empty
  <2> QED BY <1>1, <2>1, <2>2, <2>3, <2>4 DEF WindowInv
<1> QED BY <1>5, <1>6

(* The steps that read the counters.                                       *)
LEMMA CounterStep ==
  ASSUME IInv, EveryClaimCounted, WindowInv, ReadTotal \/ ReadCount \/ ReadStart
  PROVE  WindowInv'
<1> USE BufferAssumption
<1>1. /\ index = 0 /\ rows = << >> /\ UNCHANGED <<row, rows>>
      /\ Len(rows) = 0
      /\ MaxEventCount > 0 => 0 \in Slots
  BY DEF WindowInv, ReadTotal, ReadCount, ReadStart, Goto, Slots
<1>2. CASE ReadTotal
  BY <1>1, <1>2, CountersInRange DEF WindowInv, ReadTotal, Goto
<1>3. CASE ReadCount
  BY <1>1, <1>3, CountersInRange DEF WindowInv, ReadCount, Goto
<1>4. CASE ReadStart
  BY <1>1, <1>4, CountersInRange DEF WindowInv, ReadStart, Goto
<1> QED BY <1>2, <1>3, <1>4

(* Whatever the hooks do meanwhile, the text dump keeps its window.         *)
LEMMA WindowStep ==
  IInv /\ EveryClaimCounted /\ WindowInv /\ [DumpNext]_allVars => WindowInv'
<1> SUFFICES ASSUME IInv, EveryClaimCounted, WindowInv, [DumpNext]_allVars
             PROVE  WindowInv'
  OBVIOUS
<1>1. CASE UNCHANGED dumpVars
  BY <1>1 DEF WindowInv, dumpVars
<1>2. CASE ReadField
  BY <1>2, RowStep DEF IInv
<1>3. CASE ReadTotal \/ ReadCount \/ ReadStart
  BY <1>3, CounterStep
<1>4. ASSUME UNCHANGED <<index, left, row, rows>>,
             dump' \notin {"start", "rows"},
             dump \in {"none", "open"} \/ dump' \notin {"none", "open", "total", "count"}
      PROVE  WindowInv'
  BY <1>4 DEF WindowInv
<1>5. CASE Disable
  BY <1>4, <1>5 DEF Disable, Goto
<1>6. CASE OpenFails \/ Open
  BY <1>4, <1>6 DEF OpenFails, Open, Goto
<1>7. CASE TextDone \/ Copy \/ ShortWrite \/ BinDone
  BY <1>4, <1>7 DEF TextDone, Copy, ShortWrite, BinDone, Goto
<1>8. CASE UNCHANGED allVars
  BY <1>1, <1>8 DEF allVars
<1> QED BY <1>1, <1>2, <1>3, <1>5, <1>6, <1>7, <1>8 DEF DumpNext, DumpStep

-----------------------------------------------------------------------------
(* The binary dump has copied every chunk it is past, and the counters it  *)
(* copied are in their range, whenever that was.                           *)
ImageInv ==
  /\ chunk \in Nat \ {0}
  /\ \A n \in DOMAIN Chunks : n < chunk => Chunks[n] \subseteq DOMAIN image
  /\ IndexCell \in DOMAIN image => image[IndexCell] \in 0 .. MaxEventCount
  /\ TotalCell \in DOMAIN image =>
       /\ image[TotalCell] \in Nat
       /\ FillAndStop => image[TotalCell] <= MaxEventCount
  /\ (dump = "done" /\ kind = "bin") => chunk > Len(Chunks)
  /\ dump \in {"total", "count", "start", "rows"} => kind = "text"

(* Writing one cell of the buffer to the file, in the order of the chunks.  *)
LEMMA CopyStep ==
  ASSUME IInv, EveryClaimCounted, ImageInv, Copy
  PROVE  ImageInv'
<1> USE BufferAssumption
<1>1. dump' = "copy" /\ chunk \in Nat \ {0} /\ UNCHANGED kind
  BY DEF ImageInv, Copy, Goto
<1>2. PICK cell \in Chunks[chunk] \ DOMAIN image :
        LET copied == DOMAIN image \union {cell} IN
           /\ image' = [c \in copied |->
                          IF c = cell THEN CellValue(cell) ELSE image[c]]
           /\ chunk' = IF Chunks[chunk] \subseteq copied THEN chunk + 1 ELSE chunk
  BY DEF Copy
<1>3. /\ DOMAIN image' = DOMAIN image \union {cell}
      /\ \A c \in DOMAIN image : c # cell => image'[c] = image[c]
      /\ cell = IndexCell => image'[cell] = next_event_index
      /\ cell = TotalCell => image'[cell] = total_events_added
      /\ chunk' = IF Chunks[chunk] \subseteq DOMAIN image' THEN chunk + 1 ELSE chunk
  BY <1>2 DEF CellValue, IndexCell, TotalCell
<1>4. \A n \in DOMAIN Chunks : n < chunk' => Chunks[n] \subseteq DOMAIN image'
  <2> SUFFICES ASSUME NEW n \in DOMAIN Chunks, n < chunk'
               PROVE  Chunks[n] \subseteq DOMAIN image'
    OBVIOUS
  <2>1. n \in Nat
    BY ChunksAssumption
  <2>2. CASE n < chunk
    BY <1>3, <2>2 DEF ImageInv
  <2>3. CASE n = chunk
    BY <1>1, <1>3, <2>3
  <2> QED BY <1>1, <1>3, <2>1, <2>2, <2>3
<1>5. chunk' \in Nat \ {0}
  BY <1>1, <1>3
<1>6. IndexCell \in DOMAIN image' => image'[IndexCell] \in 0 .. MaxEventCount
  BY <1>3, CountersInRange DEF ImageInv
<1>7. TotalCell \in DOMAIN image' =>
        /\ image'[TotalCell] \in Nat
        /\ FillAndStop => image'[TotalCell] <= MaxEventCount
  BY <1>3, CountersInRange DEF ImageInv
<1> QED BY <1>1, <1>4, <1>5, <1>6, <1>7 DEF ImageInv

(* Whatever the hooks do meanwhile, the counters in the file are in range.  *)
LEMMA ImageStep ==
  IInv /\ EveryClaimCounted /\ ImageInv /\ [DumpNext]_allVars => ImageInv'
<1> SUFFICES ASSUME IInv, EveryClaimCounted, ImageInv, [DumpNext]_allVars
             PROVE  ImageInv'
  OBVIOUS
<1>1. CASE UNCHANGED dumpVars
  BY <1>1 DEF ImageInv, dumpVars
<1>2. CASE Copy
  BY <1>2, CopyStep
<1>3. CASE Disable
  BY <1>3 DEF ImageInv, Disable, Goto
<1>4. CASE OpenFails \/ Open
  BY <1>4 DEF ImageInv, OpenFails, Open, Goto
<1>5. CASE ReadTotal \/ ReadCount \/ ReadStart
  BY <1>5 DEF ImageInv, ReadTotal, ReadCount, ReadStart, Goto
<1>6. CASE ReadField
  BY <1>6 DEF ImageInv, ReadField, Goto
<1>7. CASE TextDone \/ ShortWrite
  BY <1>7 DEF ImageInv, TextDone, ShortWrite, Goto
<1>8. CASE BinDone
  BY <1>8 DEF ImageInv, BinDone, Goto
<1>9. CASE UNCHANGED allVars
  BY <1>1, <1>9 DEF allVars
<1> QED BY <1>1, <1>2, <1>3, <1>4, <1>5, <1>6, <1>7, <1>8, <1>9
        DEF DumpNext, DumpStep

(* A binary dump that is done has written every cell.                      *)
LEMMA FileComplete ==
  ASSUME ImageInv, dump = "done", kind = "bin"
  PROVE  Cells \subseteq DOMAIN image
<1>1. \A n \in DOMAIN Chunks : Chunks[n] \subseteq DOMAIN image
  BY ChunksAssumption DEF ImageInv
<1>2. UNION Range(Chunks) \subseteq DOMAIN image
  BY <1>1 DEF Range
<1> QED BY <1>2, ChunksAssumption

(* The report that is made of a complete file has no more rows than there  *)
(* are slots.                                                              *)
LEMMA ReportInBuffer ==
  ASSUME ImageInv, dump = "done", kind = "bin"
  PROVE  Len(Report) <= MaxEventCount
<1> USE BufferAssumption
<1>1. Cells \subseteq DOMAIN image
  BY FileComplete
<1>2. IndexCell \in Cells /\ TotalCell \in Cells
  BY DEF Cells, IndexCell, TotalCell
<1>3. /\ image[IndexCell] \in 0 .. MaxEventCount
      /\ image[TotalCell] \in Nat
      /\ FillAndStop => image[TotalCell] <= MaxEventCount
  BY <1>1, <1>2 DEF ImageInv
<1> DEFINE count == IF FillAndStop THEN image[TotalCell]
                    ELSE IF HasWrapped(image[TotalCell]) THEN MaxEventCount
                    ELSE image[IndexCell]
<1>4. count \in 0 .. MaxEventCount
  BY <1>3
<1>5. Len(Report) = count
  <2>1. DOMAIN Report = 1 .. count
    BY DEF Report, IndexCell, TotalCell
  <2> HIDE DEF count
  <2>2. count \in Nat
    BY <1>4
  <2> QED BY <2>1, <2>2
<1> HIDE DEF count
<1> QED BY <1>4, <1>5

LEMMA WindowInit == DumpInit => WindowInv /\ ImageInv
<1> SUFFICES ASSUME DumpInit PROVE WindowInv /\ ImageInv
  OBVIOUS
<1>1. /\ dump = "none" /\ left = 0 /\ index = 0 /\ rows = << >> /\ chunk = 1
      /\ DOMAIN row = {} /\ DOMAIN image = {}
  BY DEF DumpInit, Empty
<1>2. WindowInv
  BY <1>1 DEF WindowInv
<1>3. \A n \in DOMAIN Chunks : ~ (n < 1)
  BY ChunksAssumption
<1> QED BY <1>1, <1>2, <1>3 DEF ImageInv

(* A dump reads only slots of the buffer, and no more rows than there are  *)
(* slots, although the counters of its window move while it reads them.    *)
THEOREM Window == DumpSpec => []WindowInBuffer
<1>1. DumpInit => WindowInv /\ ImageInv
  BY WindowInit
<1>2. IInv /\ EveryClaimCounted /\ WindowInv /\ ImageInv /\ [DumpNext]_allVars
        => (WindowInv /\ ImageInv)'
  BY WindowStep, ImageStep
<1>3. WindowInv /\ ImageInv => WindowInBuffer
  BY ReportInBuffer DEF WindowInv, WindowInBuffer
<1> QED BY <1>1, <1>2, <1>3, BufferInvariance, PTL DEF DumpSpec

-----------------------------------------------------------------------------
(* A call is at home in the slot of its claim, and nowhere else.           *)
Home(v, i) ==
  v \in Calls => \E n \in 1 .. Len(claims) : claims[n] = v /\ SlotOf(n) = i

ClaimedOnce ==
  \A m, n \in 1 .. Len(claims) : claims[m] = claims[n] => m = n

(* A slot shows the event_id of no call that is not at home there, be its  *)
(* writers lapped or not.                                                  *)
HomeInv == \A i \in Slots : Home(event_buffer[i]["event_id"], i)

PlaceInv == OrderInv /\ ClaimedOnce /\ HomeInv

LEMMA OneHome ==
  ASSUME ClaimedOnce, NEW v \in Calls, NEW i, NEW j, Home(v, i), Home(v, j)
  PROVE  i = j
BY DEF ClaimedOnce, Home

(* The claims are only extended.                                           *)
LEMMA ClaimsGrow ==
  ASSUME TypeOK, [Next]_vars
  PROVE  /\ Len(claims) \in Nat /\ Len(claims') \in Nat /\ Len(claims) <= Len(claims')
         /\ \A n \in 1 .. Len(claims) : claims'[n] = claims[n]
<1>1. ASSUME NEW t \in Threads, Claim(t)
      PROVE  /\ Len(claims) \in Nat /\ Len(claims') \in Nat /\ Len(claims) <= Len(claims')
             /\ \A n \in 1 .. Len(claims) : claims'[n] = claims[n]
  BY <1>1 DEF TypeOK, Claim, Take
<1>2. CASE ~ \E t \in Threads : Claim(t)
  BY <1>2, OnlyClaimClaims DEF TypeOK
<1> QED BY <1>1, <1>2

LEMMA HomeStays ==
  ASSUME TypeOK, [Next]_vars, NEW v, NEW i, Home(v, i)
  PROVE  Home(v, i)'
BY ClaimsGrow DEF Home, SlotOf

(* A call that is about to claim has not claimed before, as its number is  *)
(* above those of its thread's claims.                                     *)
LEMMA ClaimedOnceStep ==
  ASSUME TypeOK, OrderInv, ClaimedOnce, [Next]_vars
  PROVE  ClaimedOnce'
<1>1. ASSUME NEW t \in Threads, Claim(t) PROVE ClaimedOnce'
  <2>1. /\ pc[t] = "cas"
        /\ Len(claims) \in Nat
        /\ Len(claims') = Len(claims) + 1
        /\ claims'[Len(claims) + 1] = Call(t)
        /\ \A n \in 1 .. Len(claims) : claims'[n] = claims[n]
    BY <1>1 DEF TypeOK, Claim, Take, Step
  <2>2. \A n \in 1 .. Len(claims) : claims[n] # Call(t)
    <3> SUFFICES ASSUME NEW n \in 1 .. Len(claims), claims[n] = Call(t) PROVE FALSE
      OBVIOUS
    <3>1. claims[n][1] = t /\ claims[n][2] = call[t]
      BY DEF Call
    <3>2. call[t] \in Nat
      BY BufferAssumption DEF TypeOK
    <3> QED BY <2>1, <3>1, <3>2 DEF OrderInv
  <2> QED BY <2>1, <2>2 DEF ClaimedOnce
<1>2. CASE ~ \E t \in Threads : Claim(t)
  BY <1>2, OnlyClaimClaims DEF ClaimedOnce
<1> QED BY <1>1, <1>2

(* A writer stores its event_id where it claimed.                          *)
LEMMA HomeInvStep ==
  ASSUME IInv, HomeInv, [Next]_vars
  PROVE  HomeInv'
<1> USE BufferAssumption, ValueAssumption
<1>0. TypeOK /\ ClaimInv
  BY DEF IInv
<1>1. ASSUME NEW t \in Threads, Writing(t), NEW f, NEW v, Store(t, f, v),
             f = "event_id" => v = Invalid \/ v = Call(t)
      PROVE  HomeInv'
  <2> SUFFICES ASSUME NEW i \in Slots PROVE Home(event_buffer'[i]["event_id"], i)
    <3>1. UNCHANGED claims
      BY <1>1 DEF Store, history
    <3> QED BY <3>1 DEF HomeInv, Home, SlotOf
  <2>1. /\ f \in Fields /\ next_index[t] \in Slots
        /\ \A j \in Slots \ {next_index[t]} : event_buffer'[j] = event_buffer[j]
        /\ \A g \in Fields : event_buffer'[next_index[t]][g] =
                               IF g = f THEN v ELSE event_buffer[next_index[t]][g]
    BY <1>0, <1>1, StoreChanges
  <2>2. CASE i = next_index[t] /\ f = "event_id"
    <3>1. Home(Call(t), i)
      BY <1>0, <1>1, <2>2 DEF Home, ClaimInv
    <3>2. Home(Invalid, i)
      BY DEF Home
    <3> QED BY <1>1, <2>1, <2>2, <3>1, <3>2
  <2>3. CASE ~ (i = next_index[t] /\ f = "event_id")
    <3>1. event_buffer'[i]["event_id"] = event_buffer[i]["event_id"]
      BY <2>1, <2>3 DEF Fields
    <3> QED BY <3>1 DEF HomeInv
  <2> QED BY <2>2, <2>3
<1>2. ASSUME NEW t \in Threads, Fill(t) PROVE HomeInv'
  <2>1. PICK f \in pending[t] :
          Store(t, f, IF f = "event_id" THEN Invalid ELSE Call(t))
    BY <1>2 DEF Fill
  <2>2. Writing(t)
    BY <1>2 DEF Fill, Step, Writing
  <2> QED BY <1>1, <2>1, <2>2
<1>3. ASSUME NEW t \in Threads, Publish(t) PROVE HomeInv'
  <2>1. PICK f \in pending[t] :
          Store(t, f, IF f = "event_id" THEN Call(t) ELSE event_count[t])
    BY <1>3 DEF Publish, Finish
  <2>2. Writing(t)
    BY <1>3 DEF Publish, Finish, Step, Writing
  <2> QED BY <1>1, <2>1, <2>2
<1>4. CASE ~ \E t \in Threads : Fill(t) \/ Publish(t)
  <2>1. UNCHANGED event_buffer
    BY <1>4 DEF Next, LogStep, vars, shared, SetEnable, Hook, Load, Retry, Claim, Take,
       Count, Number, Drop
  <2> QED BY <1>0, <2>1, HomeStays DEF HomeInv
<1> QED BY <1>2, <1>3, <1>4

-----------------------------------------------------------------------------
(* What the text dump has of the buffer: its rows come from slots one      *)
(* after the other, the first of them at `start', and what it has read of  *)
(* the current event is at home at index.                                  *)
RowsFrom(start) ==
  /\ (dump = "rows" /\ left > 0) => index = (start + Len(rows)) % MaxEventCount
  /\ \A k \in 1 .. Len(rows) :
       Home(rows[k]["event_id"], (start + k - 1) % MaxEventCount)

RowsInv ==
  /\ Len(rows) <= MaxEventCount
  /\ dump \in {"none", "open", "total", "count", "start"} => DOMAIN row = {}
  /\ "event_id" \in DOMAIN row => Home(row["event_id"], index)
  /\ \E start \in Nat : RowsFrom(start)

(* What the binary dump has of it.                                         *)
CopiedInv ==
  \A i \in Slots :
    <<i, "event_id">> \in DOMAIN image => Home(image[<<i, "event_id">>], i)

(* What the dump has stays at home while it does something else.           *)
LEMMA RowsStay ==
  ASSUME TypeOK, RowsInv, [Next]_vars, UNCHANGED <<index, row, rows>>,
         (dump' = "rows" /\ left' > 0) => dump = "rows" /\ left > 0,
         dump' \in {"none", "open", "total", "count", "start"}
           => dump \in {"none", "open", "total", "count", "start"}
  PROVE  RowsInv'
<1>1. PICK start \in Nat : RowsFrom(start)
  BY DEF RowsInv
<1>2. \A v, i : Home(v, i) => Home(v, i)'
  BY HomeStays
<1>3. "event_id" \in DOMAIN row' => Home(row["event_id"], index)'
  BY <1>2 DEF RowsInv
<1>4. RowsFrom(start)'
  BY <1>1, <1>2 DEF RowsFrom
<1>5. \E s \in Nat : RowsFrom(s)'
  BY <1>4
<1> QED BY <1>3, <1>5 DEF RowsInv

(* The window is chosen: the first row will come from the slot at index.   *)
LEMMA RowsBegin ==
  ASSUME IInv, EveryClaimCounted, WindowInv, RowsInv,
         ReadTotal \/ ReadCount \/ ReadStart
  PROVE  RowsInv'
<1> USE BufferAssumption
<1>1. /\ rows = << >> /\ UNCHANGED <<row, rows>> /\ Len(rows') = 0
      /\ DOMAIN row' = {}
      /\ index' \in 0 .. MaxEventCount
  BY CountersInRange DEF WindowInv, RowsInv, ReadTotal, ReadCount, ReadStart, Goto
<1>2. WindowInv'
  BY CounterStep
<1>3. ASSUME dump' = "rows", left' > 0
      PROVE  index' = (index' + Len(rows')) % MaxEventCount
  <2> DEFINE i == index'
             n == Len(rows')
  <2>1. i \in 0 .. MaxEventCount - 1 /\ MaxEventCount \in Nat \ {0}
    BY <1>2, <1>3 DEF WindowInv, Slots
  <2>2. n = 0
    BY <1>1
  <2> HIDE DEF i, n
  <2>3. i + n = i
    BY <2>1, <2>2
  <2>4. i % MaxEventCount = i
    BY <2>1, ModSlot
  <2>5. i = (i + n) % MaxEventCount
    BY <2>3, <2>4
  <2> QED BY <2>5 DEF i, n
<1>4. RowsFrom(index)'
  <2>1. \A k \in 1 .. Len(rows') : FALSE
    BY <1>1
  <2> QED BY <1>3, <2>1 DEF RowsFrom
<1>5. \E s \in Nat : RowsFrom(s)'
  BY <1>1, <1>4
<1> QED BY <1>1, <1>5 DEF RowsInv

(* A field is read, and perhaps the row is complete.                       *)
LEMMA RowsGrow ==
  ASSUME TypeOK, WindowInv, HomeInv, RowsInv, ReadField
  PROVE  RowsInv'
<1> USE BufferAssumption
<1>1. /\ dump = "rows" /\ dump' = "rows" /\ left > 0 /\ left \in Nat
      /\ index \in Slots /\ left + Len(rows) <= MaxEventCount
      /\ rows \in Seq([Fields -> Values]) /\ Len(rows) \in Nat
      /\ UNCHANGED claims
  BY DEF WindowInv, ReadField, Goto, vars, history
<1>2. PICK f \in Fields \ DOMAIN row :
        LET read == [g \in DOMAIN row \union {f} |->
                       IF g = f THEN event_buffer[index][f] ELSE row[g]]
        IN IF DOMAIN read # Fields
             THEN /\ row' = read
                  /\ UNCHANGED <<index, left, rows>>
             ELSE /\ row' = Empty
                  /\ rows' = Append(rows, read)
                  /\ left' = left - 1
                  /\ index' = (index + 1) % MaxEventCount
  BY DEF ReadField
<1> DEFINE read == [g \in DOMAIN row \union {f} |->
                      IF g = f THEN event_buffer[index][f] ELSE row[g]]
<1>3. "event_id" \in DOMAIN read => Home(read["event_id"], index)
  BY <1>1 DEF HomeInv, RowsInv
<1>4. "event_id" \in Fields
  BY DEF Fields
<1> HIDE DEF read
<1>5. PICK start \in Nat : RowsFrom(start)
  BY DEF RowsInv
<1>6. index = (start + Len(rows)) % MaxEventCount
  BY <1>1, <1>5 DEF RowsFrom
<1>7. \A v, i : Home(v, i) => Home(v, i)'
  BY <1>1 DEF Home, SlotOf
<1>8. CASE DOMAIN read # Fields
  <2>1. row' = read /\ UNCHANGED <<index, left, rows>>
    BY <1>2, <1>8 DEF read
  <2>2. RowsFrom(start)'
    BY <1>1, <1>5, <1>7, <2>1 DEF RowsFrom
  <2>3. "event_id" \in DOMAIN row' => Home(row["event_id"], index)'
    BY <1>3, <1>7, <2>1
  <2>4. \E s \in Nat : RowsFrom(s)'
    BY <2>2
  <2> QED BY <1>1, <2>1, <2>3, <2>4 DEF RowsInv
<1>9. CASE DOMAIN read = Fields
  <2>1. /\ row' = Empty
        /\ rows' = Append(rows, read)
        /\ left' = left - 1
        /\ index' = (index + 1) % MaxEventCount
    BY <1>2, <1>9 DEF read
  <2>2. /\ Len(rows') = Len(rows) + 1
        /\ rows'[Len(rows) + 1] = read
        /\ \A k \in 1 .. Len(rows) : rows'[k] = rows[k]
        /\ \A k \in 1 .. Len(rows') : k \in 1 .. Len(rows) \/ k = Len(rows) + 1
    BY <1>1, <2>1
  <2>3. index' = (start + Len(rows')) % MaxEventCount
    <3>1. MaxEventCount \in Nat \ {0} /\ start + Len(rows) \in Nat
      BY <1>1 DEF Slots
    <3>2. index' = (start + Len(rows) + 1) % MaxEventCount
      BY <1>6, <2>1, <3>1, ModSucc
    <3>3. start + Len(rows) + 1 = start + Len(rows')
      BY <1>1, <2>2
    <3> QED BY <3>2, <3>3
  <2>4. Home(read["event_id"], (start + (Len(rows) + 1) - 1) % MaxEventCount)
    <3>1. start + (Len(rows) + 1) - 1 = start + Len(rows)
      BY <1>1
    <3> QED BY <1>3, <1>4, <1>6, <1>9, <3>1
  <2>5. \A k \in 1 .. Len(rows') :
          Home(rows'[k]["event_id"], (start + k - 1) % MaxEventCount)
    BY <1>5, <2>2, <2>4 DEF RowsFrom
  <2>6. RowsFrom(start)'
    BY <1>7, <2>3, <2>5 DEF RowsFrom
  <2>7. \E s \in Nat : RowsFrom(s)'
    BY <2>6
  <2>8. DOMAIN row' = {} /\ Len(rows') <= MaxEventCount
    BY <1>1, <2>1, <2>2 DEF Empty
  <2> QED BY <1>1, <2>7, <2>8 DEF RowsInv
<1> QED BY <1>8, <1>9

LEMMA RowsInvStep ==
  ASSUME IInv, EveryClaimCounted, WindowInv, HomeInv, RowsInv, [DumpNext]_allVars
  PROVE  RowsInv'
<1>1. TypeOK /\ [Next]_vars
  BY DumpNextIsNext DEF IInv
<1>2. CASE ReadField
  BY <1>1, <1>2, RowsGrow
<1>3. CASE ReadTotal \/ ReadCount \/ ReadStart
  BY <1>3, RowsBegin
<1>4. CASE UNCHANGED dumpVars
  BY <1>1, <1>4, RowsStay DEF dumpVars
<1>5. CASE Disable \/ OpenFails \/ Open
  BY <1>1, <1>5, RowsStay DEF Disable, OpenFails, Open, Goto
<1>6. CASE TextDone \/ Copy \/ ShortWrite \/ BinDone
  BY <1>1, <1>6, RowsStay DEF TextDone, Copy, ShortWrite, BinDone, Goto
<1> QED BY <1>2, <1>3, <1>4, <1>5, <1>6 DEF DumpNext, DumpStep, allVars

LEMMA CopiedInvStep ==
  ASSUME IInv, HomeInv, CopiedInv, [DumpNext]_allVars
  PROVE  CopiedInv'
<1>1. TypeOK /\ [Next]_vars
  BY DumpNextIsNext DEF IInv
<1>2. CASE UNCHANGED image
  BY <1>1, <1>2, HomeStays DEF CopiedInv
<1>3. CASE Copy
  <2>1. PICK cell \in Chunks[chunk] \ DOMAIN image :
          image' = [c \in DOMAIN image \union {cell} |->
                      IF c = cell THEN CellValue(cell) ELSE image[c]]
    BY <1>3 DEF Copy
  <2>2. \A i \in Slots :
          <<i, "event_id">> \in DOMAIN image' =>
            \/ /\ <<i, "event_id">> \in DOMAIN image
               /\ image'[<<i, "event_id">>] = image[<<i, "event_id">>]
            \/ image'[<<i, "event_id">>] = event_buffer[i]["event_id"]
    BY <2>1 DEF CellValue, IndexCell, TotalCell
  <2>3. \A i \in Slots :
          <<i, "event_id">> \in DOMAIN image' => Home(image'[<<i, "event_id">>], i)
    BY <2>2 DEF CopiedInv, HomeInv
  <2>4. \A v, i : Home(v, i) => Home(v, i)'
    BY <1>1, HomeStays
  <2> QED BY <2>3, <2>4 DEF CopiedInv
<1> QED BY <1>2, <1>3 DEF DumpNext, DumpStep, allVars, dumpVars, Disable, OpenFails,
        Open, ReadTotal, ReadCount, ReadStart, ReadField, TextDone, ShortWrite, BinDone

-----------------------------------------------------------------------------
(* Rows that are no more than the slots, and come from one after the       *)
(* other, come from different slots, so no call is in two of them.         *)
LEMMA OneRowEach ==
  ASSUME ClaimedOnce, NEW start \in Nat, NEW count \in 0 .. MaxEventCount, NEW id,
         \A k \in 1 .. count : Home(id[k], (start + k - 1) % MaxEventCount),
         NEW m \in 1 .. count, NEW n \in 1 .. count, m # n, id[m] \in Calls
  PROVE  id[m] # id[n]
<1> USE BufferAssumption
<1> SUFFICES ASSUME id[m] = id[n] PROVE FALSE
  OBVIOUS
<1>1. MaxEventCount \in Nat \ {0}
  OBVIOUS
<1>2. (start + m - 1) % MaxEventCount = (start + n - 1) % MaxEventCount
  BY OneHome
<1> DEFINE a == start + m - 1
           b == start + n - 1
<1>3. a \in Nat /\ b \in Nat /\ a - b = m - n /\ m - n < MaxEventCount /\ n - m < MaxEventCount
  OBVIOUS
<1>4. a < b \/ b < a
  BY <1>3
<1>5. a % MaxEventCount = b % MaxEventCount
  BY <1>2
<1> HIDE DEF a, b
<1>6. CASE a < b
  <2>1. b >= a + MaxEventCount
    BY <1>1, <1>3, <1>5, <1>6, ModGap
  <2> QED BY <1>1, <1>3, <2>1
<1>7. CASE b < a
  <2>1. a >= b + MaxEventCount
    BY <1>1, <1>3, <1>5, <1>7, ModGap
  <2> QED BY <1>1, <1>3, <2>1
<1> QED BY <1>4, <1>6, <1>7

LEMMA TextNoneTwice ==
  ASSUME ClaimedOnce, WindowInv, RowsInv, dump = "done", kind = "text"
  PROVE  NoCallTwice
<1> DEFINE id == [k \in 1 .. Len(rows) |-> rows[k]["event_id"]]
<1>1. PICK start \in Nat : RowsFrom(start)
  BY DEF RowsInv
<1>2. \A k \in 1 .. Len(rows) : Home(id[k], (start + k - 1) % MaxEventCount)
  BY <1>1 DEF RowsFrom
<1>3. Len(rows) \in 0 .. MaxEventCount /\ DOMAIN rows = 1 .. Len(rows)
  BY BufferAssumption DEF WindowInv, RowsInv
<1>4. \A k \in 1 .. Len(rows) : id[k] = rows[k]["event_id"]
  OBVIOUS
<1> HIDE DEF id
<1>5. \A m, n \in 1 .. Len(rows) : (m # n /\ id[m] \in Calls) => id[m] # id[n]
  BY <1>2, <1>3, OneRowEach
<1> QED BY <1>3, <1>4, <1>5 DEF NoCallTwice, Printed

LEMMA BinNoneTwice ==
  ASSUME ClaimedOnce, ImageInv, CopiedInv, dump = "done", kind = "bin"
  PROVE  NoCallTwice
<1> USE BufferAssumption
<1>1. Cells \subseteq DOMAIN image
  BY FileComplete
<1>2. IndexCell \in Cells /\ TotalCell \in Cells
  BY DEF Cells, IndexCell, TotalCell
<1>3. /\ image[IndexCell] \in 0 .. MaxEventCount
      /\ image[TotalCell] \in Nat
      /\ FillAndStop => image[TotalCell] <= MaxEventCount
  BY <1>1, <1>2 DEF ImageInv
<1> DEFINE start == IF ~ FillAndStop /\ HasWrapped(image[TotalCell])
                      THEN image[IndexCell] ELSE 0
           count == IF FillAndStop THEN image[TotalCell]
                    ELSE IF HasWrapped(image[TotalCell]) THEN MaxEventCount
                    ELSE image[IndexCell]
           slot(k) == (start + k - 1) % MaxEventCount
           id == [k \in 1 .. count |-> Report[k]["event_id"]]
<1>4. count \in 0 .. MaxEventCount /\ start \in Nat
  BY <1>3
<1>5. /\ DOMAIN Report = 1 .. count
      /\ \A k \in 1 .. count : Report[k]["event_id"] = image[<<slot(k), "event_id">>]
  BY DEF Report, IndexCell, TotalCell, CellNames
<1>6. \A k \in 1 .. count : id[k] = Report[k]["event_id"]
  OBVIOUS
<1> HIDE DEF start, count, id
<1>7. \A k \in 1 .. count : Home(id[k], slot(k))
  <2> SUFFICES ASSUME NEW k \in 1 .. count PROVE Home(id[k], slot(k))
    OBVIOUS
  <2>1. start + k - 1 \in Nat /\ MaxEventCount \in Nat \ {0}
    BY <1>4
  <2>2. slot(k) \in Slots
    BY <2>1, DivMod DEF Slots
  <2> HIDE DEF slot
  <2>3. <<slot(k), "event_id">> \in DOMAIN image
    BY <1>1, <2>2 DEF Cells, CellNames
  <2> QED BY <1>5, <1>6, <2>2, <2>3 DEF CopiedInv
<1>8. \A m, n \in 1 .. count : (m # n /\ id[m] \in Calls) => id[m] # id[n]
  BY <1>4, <1>7, OneRowEach
<1> QED BY <1>5, <1>6, <1>8 DEF NoCallTwice, Printed

(* No call is printed twice, however hooks interleave with the dump: the   *)
(* window goes round the ring at most once, and a call that was lapped is  *)
(* still found in no slot but its own.                                     *)
THEOREM NoneTwice == DumpSpec => []NoCallTwice
<1> DEFINE PrintInv == /\ WindowInv /\ ImageInv /\ OrderInv /\ ClaimedOnce
                       /\ HomeInv /\ RowsInv /\ CopiedInv
                       /\ kind \in {"text", "bin"}
<1>1. DumpInit => PrintInv
  <2> SUFFICES ASSUME DumpInit PROVE PrintInv
    OBVIOUS
  <2>1. WindowInv /\ ImageInv
    BY WindowInit
  <2>2. OrderInv /\ ClaimedOnce /\ HomeInv
    BY ValueAssumption
       DEF DumpInit, Init, OrderInv, ClaimedOnce, HomeInv, Home, Fields, Calls
  <2>3. Len(rows) = 0 /\ DOMAIN row = {} /\ dump = "none" /\ DOMAIN image = {}
    BY DEF DumpInit, Empty
  <2>4. RowsInv
    <3>1. RowsFrom(0)
      BY <2>3 DEF RowsFrom
    <3> QED BY <2>3, <3>1, BufferAssumption DEF RowsInv
  <2>5. CopiedInv
    BY <2>3 DEF CopiedInv
  <2> QED BY <2>1, <2>2, <2>4, <2>5 DEF DumpInit
<1>2. IInv /\ EveryClaimCounted /\ PrintInv /\ [DumpNext]_allVars => PrintInv'
  <2> SUFFICES ASSUME IInv, EveryClaimCounted, PrintInv, [DumpNext]_allVars
               PROVE  PrintInv'
    OBVIOUS
  <2>1. TypeOK /\ [Next]_vars
    BY DumpNextIsNext DEF IInv
  <2>2. OrderInv' /\ ClaimedOnce' /\ HomeInv'
    BY <2>1, OrderInvStep, ClaimedOnceStep, HomeInvStep
  <2>3. WindowInv' /\ ImageInv' /\ RowsInv' /\ CopiedInv'
    BY WindowStep, ImageStep, RowsInvStep, CopiedInvStep
  <2>4. kind' \in {"text", "bin"}
    BY DEF DumpNext, DumpStep, allVars, dumpVars, Disable, OpenFails, Open, ReadTotal,
       ReadCount, ReadStart, ReadField, TextDone, Copy, ShortWrite, BinDone
  <2> QED BY <2>2, <2>3, <2>4
<1>3. PrintInv => NoCallTwice
  BY TextNoneTwice, BinNoneTwice DEF NoCallTwice
<1> QED BY <1>1, <1>2, <1>3, BufferInvariance, PTL DEF DumpSpec

-----------------------------------------------------------------------------
(* The window that the counters select while they stand still.             *)
WindowStart ==
  IF ~ FillAndStop /\ HasWrapped(total_events_added) THEN next_event_index ELSE 0

WindowCount ==
  IF FillAndStop THEN total_events_added
  ELSE IF HasWrapped(total_events_added) THEN MaxEventCount
  ELSE next_event_index

WindowSlot(k) == (WindowStart + k - 1) % MaxEventCount

(* Where a dump of each kind may be, and what it starts with.              *)
KindInv ==
  /\ kind \in {"text", "bin"}
  /\ dump = "copy" => kind = "bin"
  /\ dump \in {"none", "open"} => DOMAIN image = {}

(* A dump that no hook overlaps has read what the buffer holds.            *)
QuietWindow ==
  /\ left + Len(rows) = WindowCount
  /\ left > 0 => index = (WindowStart + Len(rows)) % MaxEventCount
  /\ \A k \in 1 .. Len(rows), f \in Fields :
       rows[k][f] = event_buffer[WindowSlot(k)][f]
  /\ \A f \in DOMAIN row : row[f] = event_buffer[index][f]

QuietInv ==
  quiet =>
    /\ AtRest
    /\ dump # "none"
    /\ dump = "count" => ~ FillAndStop /\ ~ HasWrapped(total_events_added)
    /\ dump = "start" => HasWrapped(total_events_added)
    /\ dump = "rows" => QuietWindow
    /\ (dump = "done" /\ kind = "text") => left = 0 /\ QuietWindow
    /\ \A cell \in DOMAIN image : image[cell] = CellValue(cell)

(* Between two states in which no hook is on its way, nothing happened to  *)
(* the buffer.                                                             *)
LEMMA RestIsStill ==
  ASSUME TypeOK, [Next]_vars, AtRest, AtRest'
  PROVE  UNCHANGED <<shared, history, pc>>
<1>1. ASSUME NEW t \in Threads, Hook(t) PROVE FALSE
  <2>1. pc'[t] = "load"
    BY <1>1 DEF TypeOK, Hook, Step
  <2> QED BY <2>1 DEF AtRest
<1>2. ASSUME NEW t \in Threads, LogStep(t) PROVE FALSE
  <2>1. pc[t] # "idle"
    BY <1>2 DEF LogStep, Load, Claim, Take, Retry, Fill, Count, Number, Publish,
       Finish, Drop, Step
  <2> QED BY <2>1 DEF AtRest
<1>3. ASSUME NEW enabled \in BOOLEAN, SetEnable(enabled)
      PROVE  UNCHANGED <<shared, history, pc>>
  BY <1>3 DEF SetEnable
<1>4. CASE UNCHANGED vars
  BY <1>4 DEF vars
<1> QED BY <1>1, <1>2, <1>3, <1>4 DEF Next

LEMMA KindStep ==
  KindInv /\ ImageInv /\ [DumpNext]_allVars => KindInv'
<1> SUFFICES ASSUME KindInv, ImageInv, [DumpNext]_allVars PROVE KindInv'
  OBVIOUS
<1>1. CASE UNCHANGED dumpVars
  BY <1>1 DEF KindInv, dumpVars
<1>2. CASE Disable \/ OpenFails \/ Open
  BY <1>2 DEF KindInv, Disable, OpenFails, Open, Goto
<1>3. CASE ReadTotal \/ ReadCount \/ ReadStart \/ ReadField \/ TextDone
  BY <1>3 DEF KindInv, ReadTotal, ReadCount, ReadStart, ReadField, TextDone, Goto
<1>4. CASE Copy \/ ShortWrite \/ BinDone
  BY <1>4 DEF KindInv, Copy, ShortWrite, BinDone, Goto
<1> QED BY <1>1, <1>2, <1>3, <1>4 DEF DumpNext, DumpStep, allVars, dumpVars

(* What was read stays what the buffer holds while the buffer stands still. *)
LEMMA QuietStays ==
  ASSUME UNCHANGED <<shared, index, row, rows>>, QuietWindow,
         left' = left
  PROVE  QuietWindow'
<1>1. WindowStart' = WindowStart /\ WindowCount' = WindowCount
  BY DEF shared, WindowStart, WindowCount, HasWrapped
<1>2. \A k : WindowSlot(k)' = WindowSlot(k)
  BY <1>1 DEF WindowSlot
<1> QED BY <1>1, <1>2 DEF QuietWindow, shared

(* The counters are read one after the other, but they do not move.        *)
LEMMA QuietBegin ==
  ASSUME IInv, EveryClaimCounted, WindowInv, RowsInv, QuietInv, quiet,
         UNCHANGED shared, ReadTotal \/ ReadCount \/ ReadStart
  PROVE  /\ dump' = "count" => ~ FillAndStop /\ ~ HasWrapped(total_events_added)
         /\ dump' = "start" => HasWrapped(total_events_added)
         /\ dump' = "rows" => QuietWindow'
<1> USE BufferAssumption
<1>1. /\ rows = << >> /\ UNCHANGED <<row, rows>> /\ Len(rows') = 0
      /\ DOMAIN row' = {} /\ index = 0
  BY DEF WindowInv, RowsInv, ReadTotal, ReadCount, ReadStart, Goto
<1>2. /\ dump' = "count" => ~ FillAndStop /\ ~ HasWrapped(total_events_added)
      /\ dump' = "start" => HasWrapped(total_events_added)
  BY DEF ReadTotal, ReadCount, ReadStart, Goto
<1>3. ASSUME dump' = "rows" PROVE QuietWindow'
  <2>1. WindowStart' = WindowStart /\ WindowCount' = WindowCount
    BY DEF shared, WindowStart, WindowCount, HasWrapped
  <2>2. left' = WindowCount
    <3>1. CASE ReadTotal
      BY <1>3, <3>1 DEF ReadTotal, Goto, WindowCount
    <3>2. CASE ReadCount
      BY <3>2 DEF ReadCount, Goto, WindowCount, QuietInv
    <3>3. CASE ReadStart
      BY <3>3 DEF ReadStart, Goto, WindowCount, QuietInv, WindowInv
    <3> QED BY <3>1, <3>2, <3>3
  <2>3. index' = WindowStart
    <3>1. CASE ReadTotal
      BY <1>1, <1>3, <3>1 DEF ReadTotal, Goto, WindowStart
    <3>2. CASE ReadCount
      BY <1>1, <3>2 DEF ReadCount, Goto, WindowStart, QuietInv
    <3>3. CASE ReadStart
      BY <3>3 DEF ReadStart, Goto, WindowStart, QuietInv, WindowInv
    <3> QED BY <3>1, <3>2, <3>3
  <2>4. WindowInv'
    BY CounterStep
  <2>5. ASSUME left' > 0
        PROVE  index' = (WindowStart' + Len(rows')) % MaxEventCount
    <3> DEFINE i == index'
               n == Len(rows')
    <3>1. i \in 0 .. MaxEventCount - 1 /\ MaxEventCount \in Nat \ {0}
      BY <1>3, <2>4, <2>5 DEF WindowInv, Slots
    <3>2. n = 0 /\ i = WindowStart
      BY <1>1, <2>3
    <3> HIDE DEF i, n
    <3>3. i + n = i
      BY <3>1, <3>2
    <3>4. i % MaxEventCount = i
      BY <3>1, ModSlot
    <3>5. i = (WindowStart + n) % MaxEventCount
      BY <3>2, <3>3, <3>4
    <3> QED BY <2>1, <3>5 DEF i, n
  <2>6. left' + Len(rows') = WindowCount'
    <3> DEFINE n == Len(rows')
               l == left'
    <3>1. n = 0
      BY <1>1
    <3>2. l \in Nat
      BY <2>4 DEF WindowInv
    <3> HIDE DEF n, l
    <3>3. l + n = l
      BY <3>1, <3>2
    <3> QED BY <2>1, <2>2, <3>3 DEF n, l
  <2>7. \A k \in 1 .. Len(rows') : FALSE
    BY <1>1
  <2> QED BY <1>1, <2>5, <2>6, <2>7 DEF QuietWindow
<1> QED BY <1>2, <1>3

(* One more field of the buffer as it stands.                              *)
LEMMA QuietReads ==
  ASSUME TypeOK, WindowInv, QuietWindow, UNCHANGED shared, ReadField
  PROVE  QuietWindow'
<1> USE BufferAssumption
<1>1. /\ dump = "rows" /\ left > 0 /\ left \in Nat
      /\ index \in Slots /\ left + Len(rows) <= MaxEventCount
      /\ rows \in Seq([Fields -> Values]) /\ Len(rows) \in Nat
      /\ UNCHANGED event_buffer
  BY DEF WindowInv, ReadField, Goto, shared
<1>2. PICK f \in Fields \ DOMAIN row :
        LET read == [g \in DOMAIN row \union {f} |->
                       IF g = f THEN event_buffer[index][f] ELSE row[g]]
        IN IF DOMAIN read # Fields
             THEN /\ row' = read
                  /\ UNCHANGED <<index, left, rows>>
             ELSE /\ row' = Empty
                  /\ rows' = Append(rows, read)
                  /\ left' = left - 1
                  /\ index' = (index + 1) % MaxEventCount
  BY DEF ReadField
<1> DEFINE read == [g \in DOMAIN row \union {f} |->
                      IF g = f THEN event_buffer[index][f] ELSE row[g]]
<1>3. \A g \in DOMAIN read : read[g] = event_buffer[index][g]
  BY DEF QuietWindow
<1> HIDE DEF read
<1>4. WindowStart' = WindowStart /\ WindowCount' = WindowCount
  BY DEF shared, WindowStart, WindowCount, HasWrapped
<1>5. \A k : WindowSlot(k)' = WindowSlot(k)
  BY <1>4 DEF WindowSlot
<1>6. /\ index = (WindowStart + Len(rows)) % MaxEventCount
      /\ WindowStart \in Nat
  BY <1>1 DEF QuietWindow, WindowStart, TypeOK
<1>7. CASE DOMAIN read # Fields
  <2>1. row' = read /\ UNCHANGED <<index, left, rows>>
    BY <1>2, <1>7 DEF read
  <2> QED BY <1>1, <1>3, <1>4, <1>5, <2>1 DEF QuietWindow
<1>8. CASE DOMAIN read = Fields
  <2>1. /\ row' = Empty
        /\ rows' = Append(rows, read)
        /\ left' = left - 1
        /\ index' = (index + 1) % MaxEventCount
    BY <1>2, <1>8 DEF read
  <2>2. /\ Len(rows') = Len(rows) + 1
        /\ rows'[Len(rows) + 1] = read
        /\ \A k \in 1 .. Len(rows) : rows'[k] = rows[k]
        /\ \A k \in 1 .. Len(rows') : k \in 1 .. Len(rows) \/ k = Len(rows) + 1
    BY <1>1, <2>1
  <2>3. index' = (WindowStart' + Len(rows')) % MaxEventCount
    <3>1. MaxEventCount \in Nat \ {0} /\ WindowStart + Len(rows) \in Nat
      BY <1>1, <1>6 DEF Slots
    <3>2. index' = (WindowStart + Len(rows) + 1) % MaxEventCount
      BY <1>6, <2>1, <3>1, ModSucc
    <3>3. WindowStart + Len(rows) + 1 = WindowStart + Len(rows')
      BY <1>1, <1>6, <2>2
    <3> QED BY <1>4, <3>2, <3>3
  <2>4. WindowSlot(Len(rows) + 1) = index
    <3>1. WindowStart + (Len(rows) + 1) - 1 = WindowStart + Len(rows)
      BY <1>1, <1>6
    <3> QED BY <1>6, <3>1 DEF WindowSlot
  <2>5. \A k \in 1 .. Len(rows'), g \in Fields :
          rows'[k][g] = event_buffer'[WindowSlot(k)'][g]
    BY <1>1, <1>3, <1>5, <1>8, <2>2, <2>4 DEF QuietWindow
  <2>6. DOMAIN row' = {}
    BY <2>1 DEF Empty
  <2>7. left' + Len(rows') = WindowCount'
    BY <1>1, <1>4, <2>1, <2>2 DEF QuietWindow
  <2> QED BY <2>3, <2>5, <2>6, <2>7 DEF QuietWindow
<1> QED BY <1>7, <1>8

(* While no hook is on its way, the dump reads the buffer as it stands.    *)
LEMMA QuietStep ==
  /\ IInv /\ EveryClaimCounted /\ WindowInv /\ ImageInv /\ RowsInv /\ KindInv
  /\ QuietInv
  /\ [DumpNext]_allVars
  => QuietInv'
<1> SUFFICES ASSUME IInv, EveryClaimCounted, WindowInv, ImageInv, RowsInv, KindInv,
                    QuietInv, [DumpNext]_allVars, quiet'
             PROVE  QuietInv'
  BY DEF QuietInv
<1>0. TypeOK /\ [Next]_vars
  BY DumpNextIsNext DEF IInv
<1>1. CASE UNCHANGED allVars
  <2>1. /\ UNCHANGED <<dump, left, row, rows, index, kind, image, quiet, shared>>
        /\ AtRest' <=> AtRest
    BY <1>1 DEF allVars, dumpVars, vars, AtRest
  <2>2. QuietWindow => QuietWindow'
    BY <2>1, QuietStays
  <2>3. total_events_added' = total_events_added
    BY <2>1 DEF shared
  <2>4. \A cell : CellValue(cell)' = CellValue(cell)
    BY <2>1 DEF shared, CellValue
  <2> QED BY <2>1, <2>2, <2>3, <2>4 DEF QuietInv, HasWrapped
<1>2. CASE DumpNext
  <2>1. AtRest /\ AtRest' /\ dump' # "none" /\ (dump = "none" \/ quiet)
    BY <1>2 DEF DumpNext
  <2>2. UNCHANGED shared
    BY <1>0, <2>1, RestIsStill
  <2>3. /\ \A cell : CellValue(cell)' = CellValue(cell)
        /\ HasWrapped(total_events_added') <=> HasWrapped(total_events_added)
    BY <2>2 DEF shared, CellValue
  <2>4. ASSUME UNCHANGED image, dump # "none",
               dump' = "count" => dump = "count",
               dump' = "start" => dump = "start",
               dump' = "rows" => dump = "rows",
               (dump' = "done" /\ kind' = "text")
                 => \/ dump = "done" /\ kind = "text"
                    \/ dump = "rows" /\ left' = 0,
               UNCHANGED <<left, row, rows, index>>
        PROVE  QuietInv'
    <3>1. QuietWindow => QuietWindow'
      BY <2>2, <2>4, QuietStays
    <3> QED BY <2>1, <2>3, <2>4, <3>1 DEF QuietInv
  <2>5. CASE UNCHANGED dumpVars
    BY <2>1, <2>4, <2>5 DEF dumpVars
  <2>6. CASE Disable
    BY <2>1, <2>6 DEF Disable, Goto, KindInv, QuietInv
  <2>7. CASE OpenFails \/ Open
    BY <2>4, <2>7 DEF OpenFails, Open, Goto
  <2>8. CASE ReadTotal \/ ReadCount \/ ReadStart
    <3>1. /\ dump' = "count" => ~ FillAndStop /\ ~ HasWrapped(total_events_added)
          /\ dump' = "start" => HasWrapped(total_events_added)
          /\ dump' = "rows" => QuietWindow'
      <4>1. quiet
        BY <2>1, <2>8 DEF ReadTotal, ReadCount, ReadStart, Goto
      <4> QED BY <2>2, <2>8, <4>1, QuietBegin
    <3>2. UNCHANGED image /\ dump' # "done" /\ dump # "none"
      BY <2>8 DEF ReadTotal, ReadCount, ReadStart, Goto
    <3> QED BY <2>1, <2>3, <3>1, <3>2 DEF QuietInv
  <2>9. CASE ReadField
    <3>1. dump = "rows" /\ dump' = "rows" /\ UNCHANGED image
      BY <2>9 DEF ReadField, Goto
    <3>2. QuietWindow'
      BY <1>0, <2>1, <2>2, <2>9, <3>1, QuietReads DEF QuietInv
    <3> QED BY <2>1, <2>3, <3>1, <3>2 DEF QuietInv
  <2>10. CASE TextDone
    BY <2>4, <2>10 DEF TextDone, Goto
  <2>11. CASE Copy
    <3>1. /\ dump = "copy" /\ dump' = "copy"
          /\ \A cell \in DOMAIN image' :
               \/ cell \in DOMAIN image /\ image'[cell] = image[cell]
               \/ image'[cell] = CellValue(cell)
      <4>1. PICK cell \in Chunks[chunk] \ DOMAIN image :
              image' = [c \in DOMAIN image \union {cell} |->
                          IF c = cell THEN CellValue(cell) ELSE image[c]]
        BY <2>11 DEF Copy
      <4> QED BY <2>11, <4>1 DEF Copy, Goto
    <3> QED BY <2>1, <2>3, <3>1 DEF QuietInv
  <2>12. CASE ShortWrite \/ BinDone
    BY <2>4, <2>12 DEF ShortWrite, BinDone, Goto, KindInv
  <2> QED BY <1>2, <2>5, <2>6, <2>7, <2>8, <2>9, <2>10, <2>11, <2>12
          DEF DumpNext, DumpStep
<1> QED BY <1>1, <1>2

(* With no hook on its way the counters agree: all that was claimed has    *)
(* been counted.                                                           *)
LEMMA RestIsCounted ==
  ASSUME EveryClaimCounted, TypeOK, AtRest
  PROVE  total_events_added = Len(claims)
<1>1. Filling = {}
  BY DEF AtRest, Filling
<1>2. Cardinality(Filling) = 0
  BY <1>1, FS_EmptySet
<1>3. Len(claims) = total_events_added + Cardinality(Filling)
  BY DEF EveryClaimCounted, Filling
<1> QED BY <1>2, <1>3 DEF TypeOK

(* The window of a buffer at rest is that of the newest claims it holds.   *)
LEMMA RestWindow ==
  ASSUME IInv, EveryClaimCounted, AtRest, ~ ExactlyFull
  PROVE  /\ WindowCount = Kept
         /\ Kept \in 0 .. Len(claims)
         /\ \A k \in 1 .. Kept :
              /\ WindowSlot(k) = SlotOf(Len(claims) - Kept + k)
              /\ WindowSlot(k) \in Slots
<1> USE BufferAssumption
<1>1. TypeOK /\ IndexInv
  BY DEF IInv
<1> DEFINE L == Len(claims)
           M == MaxEventCount
<1>2. total_events_added = L /\ L \in Nat
  BY <1>1, RestIsCounted DEF TypeOK
<1>3. CASE FillAndStop
  <2>1. next_event_index = L /\ L <= M
    BY <1>1, <1>3 DEF IndexInv, TypeOK
  <2>2. Kept = L /\ WindowCount = L /\ WindowStart = 0
    BY <1>2, <1>3, <2>1 DEF Kept, WindowCount, WindowStart
  <2>3. ASSUME NEW k \in 1 .. L
        PROVE  WindowSlot(k) = SlotOf(L - L + k) /\ WindowSlot(k) \in Slots
    <3>1. k - 1 \in 0 .. M - 1 /\ M \in Nat \ {0} /\ 0 + k - 1 = k - 1 /\ L - L + k = k
      BY <1>2, <2>1
    <3>2. (k - 1) % M = k - 1
      BY <3>1, ModSlot
    <3> QED BY <1>3, <2>2, <3>1, <3>2 DEF WindowSlot, SlotOf, Slots
  <2> QED BY <1>2, <2>2, <2>3
<1>4. CASE ~ FillAndStop /\ L < M
  <2>1. next_event_index = L % M /\ L \in 0 .. M - 1 /\ M \in Nat \ {0}
    BY <1>1, <1>2, <1>4 DEF IndexInv
  <2>2. next_event_index = L
    BY <2>1, ModSlot
  <2>3. Kept = L /\ WindowCount = L /\ WindowStart = 0
    BY <1>2, <1>4, <2>2 DEF Kept, WindowCount, WindowStart, HasWrapped
  <2>4. ASSUME NEW k \in 1 .. L
        PROVE  WindowSlot(k) = SlotOf(L - L + k) /\ WindowSlot(k) \in Slots
    <3>1. k - 1 \in Nat /\ 0 + k - 1 = k - 1 /\ L - L + k = k
      BY <1>2
    <3>2. (k - 1) % M \in 0 .. M - 1
      BY <2>1, <3>1, DivMod
    <3> QED BY <1>4, <2>3, <3>1, <3>2 DEF WindowSlot, SlotOf, Slots
  <2> QED BY <1>2, <2>3, <2>4
<1>5. CASE ~ FillAndStop /\ L > M
  <2>1. Kept = M /\ WindowCount = M /\ WindowStart = next_event_index
    BY <1>2, <1>5 DEF Kept, WindowCount, WindowStart, HasWrapped
  <2>2. ASSUME NEW k \in 1 .. M
        PROVE  WindowSlot(k) = SlotOf(L - M + k) /\ WindowSlot(k) \in Slots
    <3> DEFINE j == k - 1
               d == L - M + k - 1
    <3>1. M \in Nat \ {0} /\ j \in Nat /\ d \in Nat /\ d + M = L + j
      BY <1>2, <1>5
    <3>2. next_event_index = L % M
      BY <1>1, <1>5, <3>1 DEF IndexInv
    <3>3. ((L % M) + j) % M = (L + j) % M
      <4> HIDE DEF L, M, j
      <4> QED BY <1>2, <3>1, ModShift
    <3>4. (d + M) % M = d % M
      <4> HIDE DEF d, M
      <4> QED BY <3>1, ModRing
    <3>5. d % M \in 0 .. M - 1
      <4> HIDE DEF d, M
      <4> QED BY <3>1, DivMod
    <3>6. next_event_index + k - 1 = (L % M) + j
      BY <1>1, <3>2 DEF TypeOK
    <3>7. WindowSlot(k) = d % M
      BY <2>1, <3>1, <3>3, <3>4, <3>6 DEF WindowSlot
    <3>8. SlotOf(L - M + k) = d % M
      BY <1>5 DEF SlotOf
    <3> QED BY <3>5, <3>7, <3>8 DEF Slots
  <2> QED BY <1>2, <1>5, <2>1, <2>2
<1>6. L = M => FillAndStop
  BY DEF ExactlyFull
<1> QED BY <1>2, <1>3, <1>4, <1>5, <1>6

(* And each of its slots holds the event of its claim.                     *)
LEMMA RestContents ==
  ASSUME IInv, RingHoldsNewest, AtRest,
         NEW n \in 1 .. Len(claims), n > Len(claims) - Kept,
         SlotOf(n) \in Slots, SlotOf(n) \notin lapped
  PROVE  \A f \in CellNames : event_buffer[SlotOf(n)][f] = claims[n]
<1> USE BufferAssumption
<1> DEFINE i == SlotOf(n)
<1>1. Len(claims) \in Nat /\ claims[n] \in Calls
  BY DEF IInv, TypeOK
<1>2. PICK k \in 1 .. Len(claims) :
        /\ SlotOf(k) = i
        /\ holder[i] = claims[k]
        /\ \A m \in k + 1 .. Len(claims) : SlotOf(m) # i
  BY DEF RingHoldsNewest
<1>3. ~ (k < n)
  <2>1. k < n => n \in k + 1 .. Len(claims)
    BY <1>1
  <2> QED BY <1>2, <2>1
<1>4. ~ (n < k)
  <2> SUFFICES ASSUME n < k PROVE FALSE
    OBVIOUS
  <2>1. CASE FillAndStop
    BY <1>2, <2>1 DEF SlotOf
  <2>2. CASE ~ FillAndStop
    <3>1. MaxEventCount \in Nat \ {0}
      BY DEF Slots
    <3> DEFINE a == n - 1
               b == k - 1
    <3>2. a \in Nat /\ b \in Nat /\ a < b
      BY <1>1
    <3>3. a % MaxEventCount = b % MaxEventCount
      BY <1>2, <2>2 DEF SlotOf
    <3>4. b >= a + MaxEventCount
      <4> HIDE DEF a, b
      <4> QED BY <3>1, <3>2, <3>3, ModGap
    <3>5. k >= n + MaxEventCount
      BY <3>4, <1>1
    <3>6. Kept <= MaxEventCount
      BY <1>1 DEF Kept
    <3>7. Kept \in Nat
      BY <1>1 DEF Kept
    <3> QED BY <1>1, <3>5, <3>6, <3>7
  <2> QED BY <2>1, <2>2
<1>5. holder[i] = claims[n]
  <2>1. k = n
    BY <1>1, <1>3, <1>4
  <2> QED BY <1>2, <2>1
<1>6. holder[i] # Garbage
  BY <1>1, <1>5, ValueAssumption
<1>7. Writers(i) = {}
  BY DEF AtRest, Writers, Writing
<1>8. Intact(i, claims[n])
  BY <1>5, <1>6, <1>7 DEF IInv, IntactUnlessLapped
<1> QED BY <1>8 DEF Intact, CellNames

(* What cift-dump prints of a file that was copied from a buffer at rest.  *)
LEMMA RestReport ==
  ASSUME IInv, EveryClaimCounted, ImageInv, AtRest, ~ ExactlyFull,
         dump = "done", kind = "bin",
         \A cell \in DOMAIN image : image[cell] = CellValue(cell)
  PROVE  /\ Len(Report) = WindowCount
         /\ \A k \in 1 .. WindowCount, f \in CellNames :
              Report[k][f] = event_buffer[WindowSlot(k)][f]
<1> USE BufferAssumption
<1>1. Cells \subseteq DOMAIN image
  BY FileComplete
<1>2. IndexCell \in Cells /\ TotalCell \in Cells
  BY DEF Cells, IndexCell, TotalCell
<1>3. /\ image[IndexCell] = next_event_index
      /\ image[TotalCell] = total_events_added
  <2>1. TotalCell # IndexCell
    BY DEF IndexCell, TotalCell
  <2>2. CellValue(IndexCell) = next_event_index
    BY <2>1 DEF CellValue
  <2>3. CellValue(TotalCell) = total_events_added
    BY <2>1 DEF CellValue
  <2> QED BY <1>1, <1>2, <2>2, <2>3
<1>4. Report = [k \in 1 .. WindowCount |->
                  [f \in CellNames |-> image[<<WindowSlot(k), f>>]]]
  BY <1>3 DEF Report, IndexCell, TotalCell, WindowCount, WindowSlot, WindowStart
<1>5. WindowCount = Kept /\ Kept \in Nat
  BY RestWindow DEF IInv, TypeOK
<1>6. Len(Report) = WindowCount
  BY <1>4, <1>5
<1>7. ASSUME NEW k \in 1 .. WindowCount, NEW f \in CellNames
      PROVE  image[<<WindowSlot(k), f>>] = event_buffer[WindowSlot(k)][f]
  <2>1. WindowSlot(k) \in Slots
    BY <1>5, RestWindow
  <2>2. <<WindowSlot(k), f>> \in DOMAIN image
    BY <1>1, <2>1 DEF Cells
  <2>3. CellValue(<<WindowSlot(k), f>>) = event_buffer[WindowSlot(k)][f]
    BY <2>1 DEF CellValue, IndexCell, TotalCell, Header, Slots
  <2> QED BY <2>2, <2>3
<1> QED BY <1>4, <1>6, <1>7

(* A dump that no hook overlapped prints the newest events that fit in the *)
(* buffer, in the order of their claims (cift_file_dump.c:84-135).         *)
THEOREM QuietNewest == DumpSpec => []QuietDumpIsNewest
<1> DEFINE RestInv == /\ WindowInv /\ ImageInv /\ OrderInv /\ ClaimedOnce
                      /\ HomeInv /\ RowsInv /\ KindInv /\ QuietInv
                      /\ RingHoldsNewest
<1>1. DumpInit => RestInv
  <2> SUFFICES ASSUME DumpInit PROVE RestInv
    OBVIOUS
  <2>1. WindowInv /\ ImageInv
    BY WindowInit
  <2>2. OrderInv /\ ClaimedOnce /\ HomeInv
    BY ValueAssumption
       DEF DumpInit, Init, OrderInv, ClaimedOnce, HomeInv, Home, Fields, Calls
  <2>3. Len(rows) = 0 /\ DOMAIN row = {} /\ dump = "none" /\ DOMAIN image = {}
        /\ kind = "text" /\ ~ quiet
    BY DEF DumpInit, Empty
  <2>4. RowsInv
    <3>1. RowsFrom(0)
      BY <2>3 DEF RowsFrom
    <3> QED BY <2>3, <3>1, BufferAssumption DEF RowsInv
  <2>5. KindInv /\ QuietInv
    BY <2>3 DEF KindInv, QuietInv
  <2>6. RingHoldsNewest
    BY BufferAssumption, DivMod DEF DumpInit, Init, RingHoldsNewest, SlotOf
  <2> QED BY <2>1, <2>2, <2>4, <2>5, <2>6
<1>2. IInv /\ EveryClaimCounted /\ RestInv /\ [DumpNext]_allVars => RestInv'
  <2> SUFFICES ASSUME IInv, EveryClaimCounted, RestInv, [DumpNext]_allVars
               PROVE  RestInv'
    OBVIOUS
  <2>1. TypeOK /\ IndexInv /\ [Next]_vars
    BY DumpNextIsNext DEF IInv
  <2>2. OrderInv' /\ ClaimedOnce' /\ HomeInv' /\ RingHoldsNewest'
    BY <2>1, OrderInvStep, ClaimedOnceStep, HomeInvStep, RingStep
  <2>3. WindowInv' /\ ImageInv' /\ RowsInv' /\ KindInv' /\ QuietInv'
    BY WindowStep, ImageStep, RowsInvStep, KindStep, QuietStep
  <2> QED BY <2>2, <2>3
<1>3. IInv /\ EveryClaimCounted /\ RestInv => QuietDumpIsNewest
  <2> SUFFICES ASSUME IInv, EveryClaimCounted, RestInv, dump = "done", quiet,
                      ~ ExactlyFull
               PROVE  /\ Len(Printed) = Kept
                      /\ \A k \in 1 .. Kept :
                           LET n == Len(claims) - Kept + k IN
                           SlotOf(n) \notin lapped =>
                             \A f \in CellNames : Printed[k][f] = claims[n]
    BY DEF QuietDumpIsNewest
  <2>1. AtRest
    BY DEF QuietInv
  <2>2. /\ WindowCount = Kept
        /\ Kept \in 0 .. Len(claims)
        /\ \A k \in 1 .. Kept :
             /\ WindowSlot(k) = SlotOf(Len(claims) - Kept + k)
             /\ WindowSlot(k) \in Slots
    BY <2>1, RestWindow
  <2>3. /\ Len(Printed) = WindowCount
        /\ \A k \in 1 .. WindowCount, f \in CellNames :
             Printed[k][f] = event_buffer[WindowSlot(k)][f]
    <3>1. CASE kind = "text"
      <4>1. left = 0 /\ QuietWindow /\ Printed = rows
        BY <3>1 DEF QuietInv, Printed
      <4>2. Len(rows) = WindowCount
        BY <4>1 DEF QuietWindow, WindowInv
      <4> QED BY <4>1, <4>2 DEF QuietWindow, CellNames, Fields
    <3>2. CASE kind = "bin"
      <4>1. Printed = Report
        BY <3>2 DEF Printed
      <4> QED BY <2>1, <3>2, <4>1, RestReport DEF QuietInv
    <3> QED BY <3>1, <3>2 DEF KindInv
  <2>4. ASSUME NEW k \in 1 .. Kept,
               SlotOf(Len(claims) - Kept + k) \notin lapped,
               NEW f \in CellNames
        PROVE  Printed[k][f] = claims[Len(claims) - Kept + k]
    <3> DEFINE n == Len(claims) - Kept + k
    <3>1. n \in 1 .. Len(claims) /\ n > Len(claims) - Kept
      BY <2>2
    <3>2. WindowSlot(k) = SlotOf(n) /\ SlotOf(n) \in Slots /\ SlotOf(n) \notin lapped
      BY <2>2, <2>4
    <3>3. event_buffer[SlotOf(n)][f] = claims[n]
      <4> HIDE DEF n
      <4> QED BY <2>1, <3>1, <3>2, RestContents
    <3> QED BY <2>2, <2>3, <3>2, <3>3
  <2> QED BY <2>2, <2>3, <2>4
<1> QED BY <1>1, <1>2, <1>3, BufferInvariance, PTL DEF DumpSpec

=============================================================================
