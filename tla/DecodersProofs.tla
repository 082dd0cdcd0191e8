--------------------------- MODULE DecodersProofs ---------------------------
(***************************************************************************)
(* What holds of cift-dump and of the Java dumper after it, for any output *)
(* of nm, any dump, any greatest address and any greatest int.             *)
(***************************************************************************)
EXTENDS Decoders, SymbolProofs, RingArithmetic, FiniteSetTheorems

-----------------------------------------------------------------------------
(* The inputs.                                                             *)

(* What is assumed of a dump.                                              *)
IsDump(d) ==
  /\ d.foreign \in BOOLEAN /\ d.circular \in BOOLEAN
  /\ d.max_event_count \in 1 .. Base - 1
  /\ d.stored \in 0 .. d.max_event_count
  /\ d.bytes \in 0 .. 6
  /\ d.uncounted \in 0 .. d.before + Len(d.calls)
  /\ d.calls \in Seq(Calls)
  /\ d.before \in Nat
  /\ d.before # 0 => d.circular /\ Len(d.calls) >= d.max_event_count
  /\ ~ d.circular => Len(d.calls) <= d.max_event_count

LEMMA InputFacts ==
  ASSUME NEW input \in Inputs
  PROVE  IsOutput(input.file) /\ IsDump(input.dump)
BY InputsAssumption DEF IsDump

(* A step of either program leaves the other one's state alone.            *)
LEMMA CiftDumpSteps ==
  ASSUME Next
  PROVE  /\ file' = file /\ dump' = dump
         /\ LoadStep \/ UNCHANGED symbolVars
BY DEF Next, LoadSymbols, LoadFails, SymbolsDone, Open, Map, CheckMagic, Window,
   PrintEvent, Row, Killed, Close, symbolVars, toolVars, LoadStep, SkipLine, ReadSized,
   ReadSizeless

-----------------------------------------------------------------------------
(* The symbols.                                                            *)
NamesInv == SymbolInv /\ JavaInv /\ OutInv

LEMMA InitNames == DecodersInit => NamesInv
<1> SUFFICES ASSUME DecodersInit PROVE NamesInv
  OBVIOUS
<1>1. PICK input \in Inputs : SymbolInit(input.file)
  BY DEF DecodersInit, Init
<1>2. IsOutput(input.file) /\ JavaInit
  BY InputFacts DEF DecodersInit
<1>3. SymbolInv /\ IsOutput(file)
  BY <1>1, <1>2, SymbolInvInit DEF SymbolInit
<1> QED BY <1>2, <1>3, JavaInvInit, OutInvInit DEF NamesInv

LEMMA StepNames == NamesInv /\ [DecodersNext]_decodersVars => NamesInv'
<1> SUFFICES ASSUME NamesInv, [DecodersNext]_decodersVars PROVE NamesInv'
  OBVIOUS
<1>1. IsOutput(file)
  BY DEF NamesInv, SymbolInv
<1>2. CASE RunCiftDump
  <2>1. /\ file' = file /\ UNCHANGED javaVars
        /\ LoadStep \/ UNCHANGED symbolVars
    BY <1>2, CiftDumpSteps DEF RunCiftDump
  <2>2. SymbolInv'
    BY <2>1, SymbolInvStep, SymbolInvStutter DEF NamesInv
  <2> QED BY <2>1, <2>2, JavaInvStutter, OutInvStutter DEF NamesInv, javaVars
<1>3. CASE RunJavaDumper
  <2>1. file' = file /\ UNCHANGED symbolVars /\ JavaReadLine
    BY <1>3 DEF RunJavaDumper, vars, symbolVars
  <2> QED BY <2>1, SymbolInvStutter, JavaInvStep, OutInvWrite DEF NamesInv
<1>4. CASE ParseOutFile
  <2>1. file' = file /\ UNCHANGED symbolVars /\ ParseOutLine
    BY <1>4 DEF ParseOutFile, vars, symbolVars
  <2>2. UNCHANGED <<java_line, rangeList>>
    BY <2>1 DEF ParseOutLine
  <2> QED BY <1>1, <2>1, <2>2, SymbolInvStutter, JavaInvStutter, OutInvParse DEF NamesInv
<1>5. CASE UNCHANGED decodersVars
  <2>1. file' = file /\ UNCHANGED symbolVars /\ UNCHANGED javaVars
    BY <1>5 DEF decodersVars, vars, symbolVars
  <2> QED BY <2>1, SymbolInvStutter, JavaInvStutter, OutInvStutter DEF NamesInv, javaVars
<1> QED BY <1>2, <1>3, <1>4, <1>5 DEF DecodersNext

THEOREM NamesInvariance == DecodersSpec => []NamesInv
BY InitNames, StepNames, PTL DEF DecodersSpec

(* The name that cift-dump prints beside an address is that of the first   *)
(* symbol of nm's output that covers it (nm-symbol-extractor.cpp:193-291,  *)
(* address-range-lookup.h:84-123), in an output of any length.             *)
THEOREM NamesAreFirst == DecodersSpec => []NamedByFirstCover
<1>1. NamesInv => NamedByFirstCover
  BY SymbolInvNames DEF NamesInv
<1> QED BY <1>1, NamesInvariance, PTL

(* The ranges of the Java dumper share no address, although only the ends  *)
(* of a new one are looked up (RangeLookup.java:49-58).                    *)
THEOREM RangesAreDisjoint == DecodersSpec => []RangesDisjoint
<1>1. NamesInv => RangesDisjoint
  BY JavaInvDisjoint DEF NamesInv
<1> QED BY <1>1, NamesInvariance, PTL

(* The two programs, and cift-dump with the Java dumper's file, have one   *)
(* name for a function that shares no address with another symbol          *)
(* (NMSymbolExtractor.java:189-202, nm-symbol-extractor.cpp:377-423).      *)
THEOREM NamesAgree == DecodersSpec => []DecodersAgree
<1>1. NamesInv => DecodersAgree
  BY SymbolInvNames, Agree DEF NamesInv
<1> QED BY <1>1, NamesInvariance, PTL

-----------------------------------------------------------------------------
(* The file: it is open, or mapped, only between the steps that open it    *)
(* and those that close it.                                                *)
OpenInv ==
  /\ at \in {"symbols", "open", "failed", "done"} => ~ fd_open
  /\ at \in {"symbols", "open", "stat", "failed", "done"} => ~ mapped

LEMMA InitOpen == DecodersInit => OpenInv
BY DEF DecodersInit, Init, OpenInv

LEMMA StepOpen == OpenInv /\ [DecodersNext]_decodersVars => OpenInv'
<1> SUFFICES ASSUME OpenInv, [DecodersNext]_decodersVars PROVE OpenInv'
  OBVIOUS
<1> USE DEF OpenInv, Goto
<1>1. CASE UNCHANGED vars
  BY <1>1 DEF vars, toolVars
<1>2. CASE LoadSymbols
  BY <1>2 DEF LoadSymbols, toolVars
<1>3. CASE LoadFails \/ SymbolsDone
  BY <1>3 DEF LoadFails, SymbolsDone
<1>4. CASE Open
  BY <1>4 DEF Open
<1>5. CASE Map
  BY <1>5 DEF Map
<1>6. CASE CheckMagic
  BY <1>6 DEF CheckMagic
<1>7. CASE Window
  BY <1>7 DEF Window
<1>8. CASE PrintEvent
  BY <1>8 DEF PrintEvent, Row
<1>9. CASE Killed
  BY <1>9 DEF Killed
<1>10. CASE Close
  BY <1>10 DEF Close
<1> QED BY <1>1, <1>2, <1>3, <1>4, <1>5, <1>6, <1>7, <1>8, <1>9, <1>10
        DEF DecodersNext, RunCiftDump, RunJavaDumper, ParseOutFile, Next, decodersVars

(* Every return of cift-dump has closed and unmapped what was opened       *)
(* (cift-dump.cpp:127-169, 289-294).                                       *)
THEOREM NothingIsLeftOpen == DecodersSpec => []LeavesNothingOpen
<1>1. OpenInv => LeavesNothingOpen
  BY DEF OpenInv, LeavesNothingOpen
<1> QED BY <1>1, InitOpen, StepOpen, PTL DEF DecodersSpec

-----------------------------------------------------------------------------
(* Words of either byte order.                                             *)
Words == 0 .. Base * Base - 1

LEMMA SwapSwap ==
  ASSUME NEW n \in Words
  PROVE  Swap(Swap(n)) = n
<1>0. Base \in Nat \ {0} /\ n \in Nat
  BY InputsAssumption DEF Words
<1> DEFINE q == n \div Base
           r == n % Base
           m == Swap(n)
<1>1. n = Base * q + r /\ r \in 0 .. Base - 1 /\ q \in Nat
  BY <1>0, DivMod
<1>2. n < Base * Base
  BY <1>0 DEF Words
<1>3. m = r * Base + q
  BY DEF Swap
<1> HIDE DEF q, r, m
<1>4. q < Base
  <2> SUFFICES ASSUME q >= Base PROVE FALSE
    BY <1>0, <1>1
  <2>1. Base * q >= Base * Base
    BY <1>0, <1>1
  <2> QED BY <1>0, <1>1, <1>2, <2>1
<1>5. m \in Nat /\ m = Base * r + q
  BY <1>0, <1>1, <1>3
<1>6. m = Base * (m \div Base) + (m % Base) /\ m % Base \in 0 .. Base - 1
      /\ m \div Base \in Nat
  BY <1>0, <1>5, DivMod
<1>7. m \div Base = r /\ m % Base = q
  <2> DEFINE s == m \div Base
             t == m % Base
  <2>1. Base * r + q = Base * s + t /\ t \in 0 .. Base - 1 /\ s \in Int
    BY <1>5, <1>6
  <2>2. q \in 0 .. Base - 1 /\ r \in Int
    BY <1>0, <1>1, <1>4
  <2> HIDE DEF s, t
  <2>3. r = s /\ q = t
    BY <1>0, <2>1, <2>2, Uniq
  <2> QED BY <2>3 DEF s, t
<1>8. Swap(m) = q * Base + r
  BY <1>7 DEF Swap
<1>9. q * Base = Base * q
  BY <1>0, <1>1
<1> QED BY <1>1, <1>8, <1>9 DEF m

(* A word that is converted is read as it was written.                     *)
LEMMA Extracted ==
  ASSUME endian_swap = dump.foreign, NEW n \in Words
  PROVE  Extract(Word(n)) = n
BY SwapSwap DEF Extract, Word

-----------------------------------------------------------------------------
(* The slots of a dump.                                                    *)

LEMMA DumpFacts ==
  ASSUME IsDump(dump)
  PROVE  /\ Slots \in Nat \ {0} /\ Slots < Base /\ Base \in Nat
         /\ Len(dump.calls) \in Nat /\ DOMAIN dump.calls = 1 .. Len(dump.calls)
         /\ dump.before \in Nat /\ Claims \in Nat
         /\ Claims = dump.before + Len(dump.calls)
         /\ Kept \in Nat /\ Kept <= Slots /\ Kept <= Len(dump.calls) /\ Kept <= Claims
         /\ Slots \in Words
         /\ Claims - dump.uncounted \in Nat /\ Claims - dump.uncounted <= Claims
         /\ Shown \in Nat /\ Shown <= Kept
<1>1. /\ Slots \in Nat \ {0} /\ Slots < Base /\ Base \in Nat
  BY InputsAssumption DEF IsDump, Slots
<1>2. /\ Len(dump.calls) \in Nat /\ DOMAIN dump.calls = 1 .. Len(dump.calls)
      /\ dump.before \in Nat
  BY DEF IsDump
<1>3. Claims \in Nat /\ Claims = dump.before + Len(dump.calls)
  BY <1>2 DEF Claims
<1>4. dump.before # 0 => Len(dump.calls) >= Slots
  BY DEF IsDump, Slots
<1>5. Kept \in Nat /\ Kept <= Slots /\ Kept <= Claims
  BY <1>1, <1>3 DEF Kept
<1>6. Kept <= Len(dump.calls)
  <2>1. CASE dump.before = 0
    BY <1>2, <1>3, <1>5, <2>1
  <2>2. CASE dump.before # 0
    BY <1>1, <1>2, <1>4, <1>5, <2>2
  <2> QED BY <2>1, <2>2
<1>7. Slots \in Words
  <2>1. Base * Base >= Base
    BY <1>1
  <2> HIDE DEF Slots
  <2> QED BY <1>1, <2>1 DEF Words
<1>8. Claims - dump.uncounted \in Nat /\ Claims - dump.uncounted <= Claims
  <2>1. dump.uncounted \in 0 .. Claims
    BY DEF IsDump, Claims
  <2> QED BY <1>3, <2>1
<1>9. Shown \in Nat /\ Shown <= Kept
  <2>1. CASE dump.circular
    BY <1>5, <2>1 DEF Shown
  <2>2. CASE ~ dump.circular
    <3>1. Claims <= Slots
      BY <1>1, <1>2, <1>3, <2>2 DEF IsDump, Slots
    <3>2. Kept = Claims
      BY <1>1, <1>3, <3>1 DEF Kept
    <3> QED BY <1>8, <2>2, <3>2 DEF Shown
  <2> QED BY <2>1, <2>2
<1> QED BY <1>1, <1>2, <1>3, <1>5, <1>6, <1>7, <1>8, <1>9

(* What is read of a call that is only partly in the file is a call.       *)
LEMMA CutIsCall ==
  ASSUME IsDump(dump), NEW c \in Calls
  PROVE  Cut(c) \in Calls
<1>1. ASSUME NEW n \in Nat, NEW b \in Int
      PROVE  Part(n, b) \in 0 .. n
  <2>1. Base \in Nat \ {0}
    BY InputsAssumption
  <2>2. n = Base * (n \div Base) + (n % Base) /\ n % Base \in 0 .. Base - 1
        /\ n \div Base \in Nat
    BY <2>1, DivMod
  <2> DEFINE q == n \div Base
             r == n % Base
  <2>3. Base * q \in Nat /\ r \in Nat /\ n = Base * q + r
    BY <2>1, <2>2
  <2>4. Part(n, b) \in {0, r, n - r, n}
    <3>1. b <= 0 \/ b = 1 \/ b >= 2
      OBVIOUS
    <3> QED BY <3>1 DEF Part
  <2> HIDE DEF q, r
  <2> QED BY <2>3, <2>4
<1>2. dump.bytes - 2 \in Int /\ dump.bytes - 4 \in Int
  BY DEF IsDump
<1>3. c.context \in Nat /\ c.func \in 0 .. MaxAddress
      /\ c.event_id \in {"FUNC_ENTER", "FUNC_EXIT", "INVALID"}
  BY DEF Calls, Addresses
<1>4. Part(c.context, dump.bytes - 2) \in Nat
  <2>1. Part(c.context, dump.bytes - 2) \in 0 .. c.context
    BY <1>1, <1>2, <1>3
  <2> QED BY <1>3, <2>1
<1>5. Part(c.func, dump.bytes - 4) \in 0 .. MaxAddress
  <2>1. c.func \in Nat
    BY <1>3, MaxAddressAssumption
  <2>2. Part(c.func, dump.bytes - 4) \in 0 .. c.func
    BY <1>1, <1>2, <2>1
  <2> QED BY <1>3, <2>1, <2>2, MaxAddressAssumption
<1> QED BY <1>3, <1>4, <1>5 DEF Cut, Calls, Addresses

(* In which slot the call is that the k-th row is to show.                 *)
RowSlot(k) == SlotOf(Newest(k))

LEMMA RowSlotIs ==
  ASSUME IsDump(dump), NEW k \in Nat \ {0}
  PROVE  /\ RowSlot(k) = (Claims - Kept + (k - 1)) % Slots
         /\ RowSlot(k) \in 0 .. Slots - 1
         /\ Claims - Kept + (k - 1) \in Nat
<1>1. Claims - Kept + (k - 1) \in Nat
  BY DumpFacts
<1>2. dump.before + Newest(k) - 1 = Claims - Kept + (k - 1)
  BY DumpFacts, SMTT(30) DEF Newest
<1>3. RowSlot(k) = (Claims - Kept + (k - 1)) % Slots
  BY <1>2 DEF RowSlot, SlotOf
<1> QED BY <1>1, <1>3, DumpFacts, DivMod

(* The index goes from one to the next.                                    *)
LEMMA RowSlotNext ==
  ASSUME IsDump(dump), NEW k \in Nat \ {0}
  PROVE  (RowSlot(k) + 1) % Slots = RowSlot(k + 1)
<1> DEFINE n == Claims - Kept + (k - 1)
<1>1. n \in Nat /\ Slots \in Nat \ {0} /\ RowSlot(k) = n % Slots
  BY RowSlotIs, DumpFacts
<1>2. Claims - Kept + ((k + 1) - 1) = n + 1 /\ k + 1 \in Nat \ {0}
  BY DumpFacts
<1>3. RowSlot(k + 1) = (n + 1) % Slots
  BY <1>2, RowSlotIs
<1> HIDE DEF n
<1> QED BY <1>1, <1>3, ModSucc

(* And the call there is the newest that was given the slot.               *)
LEMMA RowCall ==
  ASSUME IsDump(dump), NEW k \in 1 .. Kept
  PROVE  /\ Newest(k) \in DOMAIN dump.calls
         /\ Slot(RowSlot(k)) = dump.calls[Newest(k)]
<1> DEFINE n     == Newest(k)
           given == {m \in DOMAIN dump.calls : SlotOf(m) = RowSlot(k)}
<1>0. /\ k \in Nat \ {0} /\ k <= Kept /\ Kept \in Nat /\ Kept <= Slots
      /\ Slots \in Nat \ {0} /\ Len(dump.calls) \in Nat /\ dump.before \in Nat
      /\ Kept <= Len(dump.calls)
      /\ DOMAIN dump.calls = 1 .. Len(dump.calls)
  BY DumpFacts
<1>1. n \in DOMAIN dump.calls /\ n \in Nat /\ n = Len(dump.calls) - Kept + k
  BY <1>0 DEF Newest
<1>2. n \in given
  BY <1>1 DEF RowSlot
<1>3. ASSUME NEW m \in given PROVE m <= n
  <2> SUFFICES ASSUME n < m PROVE FALSE
    BY <1>0, <1>1
  <2>1. m \in Nat /\ m <= Len(dump.calls) /\ m >= 1
    BY <1>0
  <2> DEFINE x == dump.before + n - 1
             y == dump.before + m - 1
  <2>2. x \in Nat /\ y \in Nat /\ x < y
    <3>1. n \in Nat /\ n >= 1 /\ n < m /\ dump.before \in Nat
      BY <1>0, <1>1
    <3> HIDE DEF n, given
    <3> QED BY <2>1, <3>1
  <2>3. x % Slots = y % Slots
    BY DEF RowSlot, SlotOf
  <2> HIDE DEF x, y
  <2>4. y >= x + Slots
    BY <1>0, <2>2, <2>3, ModGap
  <2> QED BY <1>0, <1>1, <2>1, <2>4, SMTT(30) DEF x, y
<1>4. given \subseteq Nat
  BY <1>0
<1> HIDE DEF given, n
<1>5. Max(given) = n
  <2> DEFINE x == Max(given)
  <2>1. x \in given /\ \A m \in given : x >= m
    BY <1>1, <1>2, <1>3, <1>4 DEF Max
  <2>2. x \in Nat /\ x <= n /\ x >= n
    BY <1>2, <1>3, <1>4, <2>1
  <2> HIDE DEF x
  <2>3. x = n
    BY <1>1, <2>2
  <2> QED BY <2>3 DEF x
<1>6. Slot(RowSlot(k)) = IF given = {} THEN Unwritten ELSE dump.calls[Max(given)]
  BY DEF Slot, given
<1> QED BY <1>1, <1>2, <1>5, <1>6 DEF n

(* Where the window begins, and how many events it has.                    *)
LEMMA WindowIs ==
  ASSUME IsDump(dump), ~ Excepted, endian_swap = dump.foreign, Window
  PROVE  eventsInBuffers' = Shown /\ index' = RowSlot(1)
<1> DEFINE wrapped == Extract(Word(Total)) > Extract(Word(Slots))
<1>0. /\ Slots \in Nat \ {0} /\ Slots < Base /\ Base \in Nat /\ Slots \in Words
      /\ Claims \in Nat /\ Len(dump.calls) \in Nat
      /\ Claims = dump.before + Len(dump.calls)
      /\ dump.foreign \in BOOLEAN /\ dump.circular \in BOOLEAN
  BY DumpFacts DEF IsDump
<1>1. Base * Base \in Nat \ {0} /\ Base * Base >= Base
  BY <1>0
<1> DEFINE counted == Claims - dump.uncounted
<1>01. counted \in Nat /\ counted <= Claims
  BY DumpFacts
<1>2. Total \in Words /\ (counted < Base => Total = counted)
  <2> DEFINE M == Base * Base
  <2>1. M \in Nat \ {0} /\ M >= Base
    BY <1>1
  <2>2. Words = 0 .. M - 1 /\ Total = counted % M
    BY DEF Words, Total
  <2> HIDE DEF M, counted
  <2>3. counted % M \in 0 .. M - 1
    BY <1>01, <2>1, DivMod
  <2>4. counted < Base => counted \in 0 .. M - 1
    BY <1>0, <1>01, <2>1
  <2> QED BY <2>1, <2>2, <2>3, <2>4, ModSlot
<1> HIDE DEF counted
<1>3. Extract(Word(Total)) = Total /\ Extract(Word(Slots)) = Slots
  BY <1>0, <1>2, Extracted
<1>4. /\ index' = IF dump.circular /\ wrapped
                    THEN Extract(Word(NextEventIndex)) ELSE 0
      /\ eventsInBuffers' = IF ~ dump.circular THEN Extract(Word(Total))
                            ELSE IF wrapped THEN Extract(Word(Slots))
                            ELSE Word(NextEventIndex)
  BY DEF Window
<1>5. wrapped <=> Total > Slots
  BY <1>3
<1> HIDE DEF wrapped
<1>6. RowSlot(1) = (Claims - Kept) % Slots
  <2>1. 1 \in Nat \ {0} /\ Claims - Kept + (1 - 1) = Claims - Kept
    BY DumpFacts
  <2> QED BY <2>1, RowSlotIs
<1>7. 0 % Slots = 0
  BY <1>0, ModSlot
<1>8. CASE ~ dump.circular
  <2>1. Claims = Len(dump.calls) /\ Claims <= Slots
    BY <1>0, <1>8 DEF IsDump, Slots
  <2>2. Kept = Claims /\ Claims - Kept = 0
    BY <1>0, <2>1 DEF Kept
  <2>3. Total = counted
    BY <1>0, <1>01, <1>2, <2>1
  <2>4. Shown = counted
    BY <1>8 DEF Shown, counted
  <2> QED BY <1>3, <1>4, <1>6, <1>7, <1>8, <2>2, <2>3, <2>4
<1>9. CASE dump.circular /\ Claims < Slots
  <2>1. Kept = Claims /\ Claims - Kept = 0
    BY <1>0, <1>9 DEF Kept
  <2>2. Total = counted /\ Shown = Kept
    BY <1>0, <1>01, <1>2, <1>9 DEF Shown
  <2>3. ~ wrapped
    BY <1>0, <1>01, <1>5, <1>9, <2>2
  <2>4. ~ dump.foreign
    BY <1>9 DEF Excepted
  <2>5. NextEventIndex = Claims
    <3>1. Claims \in 0 .. Slots - 1
      BY <1>0, <1>9
    <3> QED BY <1>0, <1>9, <3>1, ModSlot DEF NextEventIndex
  <2>6. Word(NextEventIndex) = Claims
    BY <2>4, <2>5 DEF Word
  <2> QED BY <1>4, <1>6, <1>7, <1>9, <2>1, <2>2, <2>3, <2>6
<1>10. CASE dump.circular /\ Claims >= Slots
  <2>1. Kept = Slots /\ Shown = Slots
    BY <1>0, <1>10 DEF Kept, Shown
  <2>2. wrapped
    BY <1>0, <1>2, <1>5, <1>10 DEF Excepted, Words
  <2>3. NextEventIndex = Claims % Slots /\ NextEventIndex \in 0 .. Slots - 1
    BY <1>0, <1>10, DivMod DEF NextEventIndex
  <2>4. NextEventIndex \in Words
    <3> DEFINE i == NextEventIndex
               M == Base * Base
    <3>1. i \in 0 .. Slots - 1 /\ Slots < Base /\ M >= Base /\ M \in Nat
      BY <1>0, <1>1, <2>3
    <3>2. Words = 0 .. M - 1
      BY DEF Words
    <3> HIDE DEF i, M
    <3>3. i \in 0 .. M - 1
      BY <1>0, <3>1
    <3> QED BY <3>2, <3>3 DEF i
  <2>5. Extract(Word(NextEventIndex)) = Claims % Slots
    BY <2>3, <2>4, Extracted
  <2>6. (Claims - Slots) % Slots = Claims % Slots
    <3> DEFINE m == Claims - Slots
    <3>1. m \in Nat /\ m + Slots = Claims
      BY <1>0, <1>10
    <3> HIDE DEF m
    <3>2. (m + Slots) % Slots = m % Slots
      BY <1>0, <3>1, ModRing
    <3> QED BY <3>1, <3>2 DEF m
  <2> QED BY <1>3, <1>4, <1>6, <1>10, <2>1, <2>2, <2>5, <2>6
<1> QED BY <1>0, <1>8, <1>9, <1>10

-----------------------------------------------------------------------------
(* The rows.                                                               *)
RowItems == [call : Calls \union {Unwritten}, level : Int, name : Nat]

(* Where the program is before it prints, or when it fails.                *)
Early == {"symbols", "open", "stat", "magic", "window", "failed"}

(* What the k-th row is to show.                                           *)
Due(k) ==
  IF RowSlot(k) < dump.stored THEN dump.calls[Newest(k)]
  ELSE IF RowSlot(k) = dump.stored THEN Cut(dump.calls[Newest(k)]) ELSE Unwritten

RowsInv ==
  /\ IsDump(dump)
  /\ rows \in Seq(RowItems)
  /\ at \in {"window", "rows"} => endian_swap = dump.foreign
  /\ at \in Early => rows = << >>
  /\ level \in [DOMAIN level -> Int]
  /\ \A k \in DOMAIN rows : rows[k].call.context \in DOMAIN level
  /\ (~ Excepted /\ at \notin Early) =>
       /\ eventsInBuffers \in Nat
       /\ Len(rows) + eventsInBuffers = Shown
       /\ index = RowSlot(Len(rows) + 1)
       /\ at = "done" => eventsInBuffers = 0
       /\ \A k \in DOMAIN rows : rows[k].call = Due(k)

LEMMA InitRows == DecodersInit => RowsInv
<1> SUFFICES ASSUME DecodersInit PROVE RowsInv
  OBVIOUS
<1>1. PICK input \in Inputs : dump = input.dump
  BY DEF DecodersInit, Init
<1>2. IsDump(dump)
  BY <1>1, InputFacts
<1>3. rows = << >> /\ at = "symbols" /\ level = [t \in {} |-> 0]
  BY DEF DecodersInit, Init
<1> QED BY <1>2, <1>3 DEF RowsInv, Early

LEMMA SameDump ==
  ASSUME dump' = dump
  PROVE  /\ IsDump(dump)' <=> IsDump(dump)
         /\ Excepted' <=> Excepted
         /\ Kept' = Kept /\ Shown' = Shown /\ Slots' = Slots
         /\ \A k : RowSlot(k)' = RowSlot(k) /\ Newest(k)' = Newest(k) /\ Due(k)' = Due(k)
BY DEF IsDump, Excepted, Kept, Shown, Slots, Part, Cut, Claims, Total, RowSlot, SlotOf, Newest, Due

(* What a printed row leaves behind.                                       *)
Printed(c) ==
  LET n == NewLevel(c.context, c.event_id) IN
  /\ at = "rows" /\ at' = "rows"
  /\ eventsInBuffers # 0 /\ eventsInBuffers' = eventsInBuffers - 1
  /\ index' = (index + 1) % Extract(Word(Slots))
  /\ endian_swap' = endian_swap /\ dump' = dump
  /\ level' = [t \in DOMAIN level \union {c.context} |->
                 IF t = c.context THEN n ELSE level[t]]
  /\ \E name \in Nat : rows' = Append(rows, [call |-> c, level |-> n, name |-> name])

(* The row that is printed next is the one that is due.                    *)
LEMMA NextRow ==
  ASSUME RowsInv, SymbolInv, PrintEvent
  PROVE  \E c \in Calls \union {Unwritten} :
           Printed(c) /\ (~ Excepted => c = Due(Len(rows) + 1))
<1> DEFINE k == Len(rows) + 1
<1>1. /\ IsDump(dump) /\ rows \in Seq(RowItems) /\ Len(rows) \in Nat
      /\ at = "rows" /\ at \notin Early /\ eventsInBuffers # 0
  BY DEF RowsInv, PrintEvent, Row, Goto, Early
<1>2. \A c : Row(c) => Printed(c)
  <2>1. \A a : StringForAddress(a) \in Nat
    <3>1. rangeVector \in Seq(RangeItems)
      BY DEF SymbolInv
    <3>2. \A i \in DOMAIN rangeVector : rangeVector[i].name \in Nat
      <4>1. \A i \in DOMAIN rangeVector : rangeVector[i] \in RangeItems
        BY <3>1
      <4> QED BY <4>1 DEF RangeItems
    <3> QED BY <3>1, <3>2, FindFacts DEF StringForAddress
  <2> QED BY <2>1 DEF Row, Goto, Printed
<1>3. Slot(index) \in Calls \union {Unwritten}
  <2> DEFINE given == {n \in DOMAIN dump.calls : SlotOf(n) = index}
  <2>1. CASE given = {}
    BY <2>1 DEF Slot
  <2>2. CASE given # {}
    <3>1. \A n \in DOMAIN dump.calls : dump.calls[n] \in Calls
      BY <1>1 DEF IsDump
    <3>2. DOMAIN dump.calls = 1 .. Len(dump.calls) /\ Len(dump.calls) \in Nat
      BY <1>1, DumpFacts
    <3>3. Max(given) \in given
      <4> DEFINE L    == Len(dump.calls)
                 back == {L - n : n \in given}
      <4>1. back \in SUBSET Nat /\ back # {}
        <5>1. given \subseteq 1 .. L /\ L \in Nat /\ given # {}
          BY <2>2, <3>2
        <5> HIDE DEF given, L
        <5>2. \A n \in given : L - n \in Nat
          BY <5>1
        <5> QED BY <5>1, <5>2
      <4>2. Min(back) \in back /\ \A x \in back : Min(back) <= x
        <5> HIDE DEF back
        <5> QED BY <4>1, Least
      <4>3. PICK n \in given : Min(back) = L - n
        BY <4>2
      <4>4. given \subseteq Nat /\ L \in Nat
        BY <3>2
      <4>5. \A m \in given : n >= m
        <5> TAKE m \in given
        <5>1. L - m \in back
          OBVIOUS
        <5>2. L - n <= L - m
          BY <4>2, <4>3, <5>1
        <5> HIDE DEF given, L, back
        <5> QED BY <4>4, <5>2
      <4> HIDE DEF given
      <4> QED BY <4>5 DEF Max
    <3>4. Slot(index) = dump.calls[Max(given)]
      BY <2>2 DEF Slot
    <3> QED BY <3>1, <3>3, <3>4
  <2> QED BY <2>1, <2>2
<1>30. Cut(Slot(index)) \in Calls \union {Unwritten}
  <2>1. Unwritten \in Calls
    BY MaxAddressAssumption DEF Unwritten, Calls, Addresses
  <2> QED BY <1>1, <1>3, <2>1, CutIsCall
<1>4. ASSUME ~ Excepted
      PROVE  /\ k \in 1 .. Kept /\ index = RowSlot(k)
             /\ index < dump.stored => Slot(index) = Due(k)
             /\ index = dump.stored => Cut(Slot(index)) = Due(k)
             /\ index > dump.stored => Unwritten = Due(k)
  <2>1. eventsInBuffers \in Nat /\ Len(rows) + eventsInBuffers = Shown /\ index = RowSlot(k)
    BY <1>1, <1>4 DEF RowsInv
  <2>2. k \in 1 .. Kept /\ k \in Nat \ {0}
    <3>1. Shown \in Nat /\ Shown <= Kept /\ Kept \in Nat
      BY <1>1, DumpFacts
    <3> QED BY <1>1, <2>1, <3>1
  <2>3. Slot(index) = dump.calls[Newest(k)]
    BY <1>1, <2>1, <2>2, RowCall
  <2>4. index \in Nat /\ dump.stored \in Nat
    <3>1. Slots \in Nat \ {0}
      BY <1>1, DumpFacts
    <3>2. index \in 0 .. Slots - 1
      <4> HIDE DEF k
      <4> QED BY <1>1, <2>1, <2>2, RowSlotIs
    <3>3. dump.stored \in 0 .. Slots
      BY <1>1 DEF IsDump, Slots
    <3> HIDE DEF Slots
    <3> QED BY <3>1, <3>2, <3>3
  <2> HIDE DEF k
  <2> QED BY <2>1, <2>2, <2>3, <2>4 DEF Due
<1>5. CASE index < dump.stored /\ Row(Slot(index))
  BY <1>2, <1>3, <1>4, <1>5
<1>6. CASE index = dump.stored /\ Row(Cut(Slot(index)))
  BY <1>2, <1>30, <1>4, <1>6
<1>7. CASE index > dump.stored /\ Row(Unwritten)
  BY <1>2, <1>4, <1>7
<1> QED BY <1>5, <1>6, <1>7 DEF PrintEvent

LEMMA PrintedRows ==
  ASSUME RowsInv, NEW c \in Calls \union {Unwritten}, Printed(c)
  PROVE  LET k == Len(rows) + 1 IN
         /\ k \in Nat \ {0} /\ k \notin DOMAIN rows /\ DOMAIN rows = 1 .. Len(rows)
         /\ rows' \in Seq(RowItems) /\ Len(rows') = k
         /\ DOMAIN rows' = DOMAIN rows \union {k}
         /\ \A j \in DOMAIN rows : rows'[j] = rows[j]
         /\ rows'[k].call = c /\ rows'[k].level = NewLevel(c.context, c.event_id)
         /\ DOMAIN level' = DOMAIN level \union {c.context}
         /\ level' \in [DOMAIN level' -> Int]
         /\ level'[c.context] = NewLevel(c.context, c.event_id)
         /\ \A t \in DOMAIN level : t # c.context => level'[t] = level[t]
<1> DEFINE k == Len(rows) + 1
           n == NewLevel(c.context, c.event_id)
<1>1. rows \in Seq(RowItems) /\ Len(rows) \in Nat /\ DOMAIN rows = 1 .. Len(rows)
      /\ level \in [DOMAIN level -> Int]
  BY DEF RowsInv
<1>2. n \in Int
  BY <1>1 DEF NewLevel
<1>3. PICK name \in Nat :
        rows' = Append(rows, [call |-> c, level |-> n, name |-> name])
  BY DEF Printed
<1> DEFINE e == [call |-> c, level |-> n, name |-> name]
<1>4. e \in RowItems /\ e.call = c /\ e.level = n
  BY <1>2 DEF RowItems
<1> HIDE DEF n, e
<1>5. /\ Append(rows, e) \in Seq(RowItems)
      /\ DOMAIN Append(rows, e) = DOMAIN rows \union {k}
      /\ k \in Nat \ DOMAIN rows
      /\ \A j \in DOMAIN rows : Append(rows, e)[j] = rows[j]
      /\ Append(rows, e)[k] = e
      /\ Len(Append(rows, e)) = k
  BY <1>1, <1>4, AppendFacts
<1>6. rows' = Append(rows, e)
  BY <1>3 DEF e
<1>7. level' = [t \in DOMAIN level \union {c.context} |->
                  IF t = c.context THEN n ELSE level[t]]
  BY DEF Printed, n
<1>8. k # 0
  BY <1>1
<1> HIDE DEF k
<1> QED BY <1>1, <1>2, <1>4, <1>5, <1>6, <1>7, <1>8 DEF n, k

LEMMA StepRows == RowsInv /\ NamesInv /\ [DecodersNext]_decodersVars => RowsInv'
<1> SUFFICES ASSUME RowsInv, NamesInv, [DecodersNext]_decodersVars PROVE RowsInv'
  OBVIOUS
<1>1. dump' = dump
  BY CiftDumpSteps DEF DecodersNext, RunCiftDump, RunJavaDumper, ParseOutFile,
     decodersVars, vars, toolVars
<1>2. /\ IsDump(dump)' /\ IsDump(dump)
      /\ Excepted' <=> Excepted
      /\ Kept' = Kept /\ Shown' = Shown /\ Slots' = Slots
      /\ \A k : RowSlot(k)' = RowSlot(k) /\ Due(k)' = Due(k)
  BY <1>1, SameDump DEF RowsInv
<1>3. ASSUME UNCHANGED <<rows, level, endian_swap, index, eventsInBuffers>>,
             at' \in Early => at \in Early,
             at \in Early => at' \in Early,
             at' = at \/ at' \notin {"window", "rows"},
             (at' = "done" /\ at # "done") => eventsInBuffers = 0
      PROVE  RowsInv'
  <2>1. /\ rows' = rows /\ level' = level /\ endian_swap' = endian_swap
        /\ index' = index /\ eventsInBuffers' = eventsInBuffers
    BY <1>3
  <2>2. (at \in {"window", "rows"} => endian_swap = dump.foreign)'
    BY <1>1, <1>3, <2>1 DEF RowsInv
  <2>3. (at \in Early => rows = << >>)'
    BY <1>3, <2>1 DEF RowsInv, Early
  <2>4. (~ Excepted /\ at \notin Early)' =>
          (/\ eventsInBuffers \in Nat
           /\ Len(rows) + eventsInBuffers = Shown
           /\ index = RowSlot(Len(rows) + 1)
           /\ at = "done" => eventsInBuffers = 0
           /\ \A k \in DOMAIN rows : rows[k].call = Due(k))'
    <3> SUFFICES ASSUME ~ Excepted, at \notin Early
                 PROVE  (/\ eventsInBuffers \in Nat
                         /\ Len(rows) + eventsInBuffers = Shown
                         /\ index = RowSlot(Len(rows) + 1)
                         /\ at = "done" => eventsInBuffers = 0
                         /\ \A k \in DOMAIN rows : rows[k].call = Due(k))'
      BY <1>2, <1>3 DEF Early
    <3>1. /\ eventsInBuffers \in Nat
          /\ Len(rows) + eventsInBuffers = Shown
          /\ index = RowSlot(Len(rows) + 1)
          /\ at = "done" => eventsInBuffers = 0
          /\ \A k \in DOMAIN rows : rows[k].call = Due(k)
      BY DEF RowsInv
    <3> QED BY <1>2, <1>3, <2>1, <3>1
  <2>5. /\ rows' \in Seq(RowItems) /\ level' \in [DOMAIN level' -> Int]
        /\ \A k \in DOMAIN rows' : rows'[k].call.context \in DOMAIN level'
    BY <2>1 DEF RowsInv
  <2> QED BY <1>2, <2>2, <2>3, <2>4, <2>5 DEF RowsInv
<1>4. CASE UNCHANGED vars
  BY <1>3, <1>4 DEF vars, toolVars
<1>5. CASE LoadSymbols
  BY <1>3, <1>5 DEF LoadSymbols, toolVars
<1>6. CASE LoadFails \/ SymbolsDone \/ Open \/ Map
  BY <1>3, <1>6 DEF LoadFails, SymbolsDone, Open, Map, Goto, Early
<1>7. CASE CheckMagic
  <2>1. /\ UNCHANGED <<rows, level, index, eventsInBuffers>>
        /\ at = "magic" /\ at' \in {"window", "failed"}
        /\ at' = "window" => endian_swap' = dump.foreign
    BY <1>7 DEF CheckMagic, Goto
  <2>2. rows = << >>
    BY <2>1 DEF RowsInv, Early
  <2>3. (at \in {"window", "rows"} => endian_swap = dump.foreign)'
    BY <1>1, <2>1
  <2> QED BY <1>2, <2>1, <2>2, <2>3 DEF RowsInv, Early
<1>8. CASE Window
  <2>1. /\ rows' = rows /\ level' = level /\ endian_swap' = endian_swap
        /\ at = "window" /\ at' = "rows"
    BY <1>8 DEF Window, Goto
  <2>2. rows = << >> /\ Len(rows) = 0 /\ endian_swap = dump.foreign
    BY <2>1 DEF RowsInv, Early
  <2>3. ~ Excepted => eventsInBuffers' = Shown /\ index' = RowSlot(1)
    BY <1>2, <1>8, <2>2, WindowIs
  <2>4. Shown \in Nat /\ Len(rows) + 1 = 1
    BY <1>2, <2>2, DumpFacts
  <2>5. (at \in {"window", "rows"} => endian_swap = dump.foreign)'
    BY <1>1, <2>1, <2>2
  <2>6. ~ Excepted =>
          /\ eventsInBuffers' \in Nat /\ Len(rows') + eventsInBuffers' = Shown'
          /\ index' = RowSlot(Len(rows) + 1)'
    BY <1>2, <2>1, <2>2, <2>3, <2>4
  <2>7. DOMAIN rows' = {}
    BY <2>1, <2>2
  <2>8. /\ rows' \in Seq(RowItems) /\ level' \in [DOMAIN level' -> Int]
        /\ at' \notin Early /\ at' # "done"
    BY <2>1 DEF RowsInv, Early
  <2> QED BY <1>2, <2>5, <2>6, <2>7, <2>8 DEF RowsInv
<1>9. CASE PrintEvent
  <2> DEFINE k == Len(rows) + 1
  <2>1. PICK c \in Calls \union {Unwritten} : Printed(c) /\ (~ Excepted => c = Due(k))
    BY <1>9, NextRow DEF NamesInv
  <2>2. /\ k \in Nat \ {0} /\ rows' \in Seq(RowItems) /\ Len(rows') = k
        /\ DOMAIN rows' = DOMAIN rows \union {k}
        /\ \A j \in DOMAIN rows : rows'[j] = rows[j]
        /\ rows'[k].call = c
        /\ DOMAIN level' = DOMAIN level \union {c.context}
        /\ level' \in [DOMAIN level' -> Int]
    BY <2>1, PrintedRows
  <2>3. /\ at = "rows" /\ at' = "rows" /\ endian_swap' = endian_swap
        /\ eventsInBuffers # 0 /\ eventsInBuffers' = eventsInBuffers - 1
        /\ index' = (index + 1) % Extract(Word(Slots))
    BY <2>1 DEF Printed
  <2>4. endian_swap = dump.foreign
    BY <2>3 DEF RowsInv
  <2>5. index' = (index + 1) % Slots
    BY <1>2, <2>3, <2>4, Extracted, DumpFacts
  <2>6. \A j \in DOMAIN rows' : rows'[j].call.context \in DOMAIN level'
    BY <2>2 DEF RowsInv
  <2>7. ASSUME ~ Excepted
        PROVE  /\ eventsInBuffers' \in Nat
               /\ k + eventsInBuffers' = Shown
               /\ index' = RowSlot(k + 1)
               /\ \A j \in DOMAIN rows' : rows'[j].call = Due(j)
    <3>1. /\ eventsInBuffers \in Nat /\ Len(rows) + eventsInBuffers = Shown
          /\ index = RowSlot(k) /\ Len(rows) \in Nat
          /\ \A j \in DOMAIN rows : rows[j].call = Due(j)
      BY <2>3, <2>7 DEF RowsInv, Early
    <3>2. eventsInBuffers' \in Nat /\ k + eventsInBuffers' = Shown
      BY <2>3, <3>1
    <3> HIDE DEF k
    <3>3. index' = RowSlot(k + 1)
      BY <1>2, <2>2, <2>5, <3>1, RowSlotNext
    <3> QED BY <2>1, <2>2, <2>7, <3>1, <3>2, <3>3
  <2> HIDE DEF k
  <2>8. (~ Excepted)' =>
          (/\ eventsInBuffers \in Nat
           /\ Len(rows) + eventsInBuffers = Shown
           /\ index = RowSlot(Len(rows) + 1)
           /\ \A j \in DOMAIN rows : rows[j].call = Due(j))'
    BY <1>2, <2>2, <2>7
  <2>9. (at \in {"window", "rows"} => endian_swap = dump.foreign)'
    BY <1>1, <2>3, <2>4
  <2>10. at' \notin Early /\ at' # "done"
    BY <2>3 DEF Early
  <2> QED BY <1>2, <2>2, <2>6, <2>8, <2>9, <2>10 DEF RowsInv
<1>10. CASE Killed \/ Close
  <2>1. /\ UNCHANGED <<rows, level, endian_swap, index, eventsInBuffers>>
        /\ at = "rows" /\ at' \in {"killed", "done"}
        /\ at' = "done" => eventsInBuffers = 0
    BY <1>10 DEF Killed, Close, Goto
  <2> QED BY <1>3, <2>1 DEF Early
<1> QED BY <1>4, <1>5, <1>6, <1>7, <1>8, <1>9, <1>10
        DEF DecodersNext, RunCiftDump, RunJavaDumper, ParseOutFile, Next, decodersVars

THEOREM RowsInvariance == DecodersSpec => []RowsInv
BY InitRows, StepRows, NamesInvariance, PTL DEF DecodersSpec

(* The rows are the newest calls that fit in the buffer, in the order of   *)
(* their claims (cift-dump.cpp:202-285), for any size of the buffer, any   *)
(* number of calls before, either byte order, any number of claims that    *)
(* were not counted, and a file that was cut at any byte.                  *)
THEOREM RowsAreNewest == DecodersSpec => []PrintsNewest
<1>1. RowsInv => PrintsNewest
  <2> SUFFICES ASSUME RowsInv, ~ Excepted
               PROVE  PrintsNewest
    BY DEF PrintsNewest
  <2>1. rows \in Seq(RowItems) /\ Len(rows) \in Nat /\ DOMAIN rows = 1 .. Len(rows)
    BY DEF RowsInv
  <2>2. /\ at = "done" => Len(rows) = Shown
        /\ \A k \in DOMAIN rows : k <= Shown /\ rows[k].call = Due(k)
    <3>1. CASE at \in Early
      BY <3>1 DEF RowsInv, Early
    <3>2. CASE at \notin Early
      <4>1. /\ eventsInBuffers \in Nat /\ Len(rows) + eventsInBuffers = Shown
            /\ at = "done" => eventsInBuffers = 0
            /\ \A k \in DOMAIN rows : rows[k].call = Due(k)
        BY <3>2 DEF RowsInv
      <4>2. Shown \in Nat
        BY <2>1, <4>1
      <4>3. at = "done" => Len(rows) = Shown
        BY <2>1, <4>1
      <4>4. \A k \in DOMAIN rows : k <= Shown
        BY <2>1, <4>1, <4>2
      <4> QED BY <4>1, <4>3, <4>4
    <3> QED BY <3>1, <3>2
  <2>3. \A k \in DOMAIN rows : RowSlot(k) \in Nat /\ dump.stored \in Nat
    <3>1. IsDump(dump) /\ DOMAIN rows \subseteq Nat \ {0}
      BY <2>1 DEF RowsInv
    <3>2. \A k \in DOMAIN rows : RowSlot(k) \in 0 .. Slots - 1
      BY <3>1, RowSlotIs
    <3>3. Slots \in Nat /\ dump.stored \in Nat
      BY <3>1, DumpFacts DEF IsDump
    <3> QED BY <3>2, <3>3
  <2> QED BY <2>2, <2>3 DEF PrintsNewest, Due, RowSlot
<1> QED BY <1>1, RowsInvariance, PTL

-----------------------------------------------------------------------------
(* The depth of a thread's call stack.                                     *)
CallsOf(t, n, event_id) ==
  {k \in 1 .. n : dump.calls[k].context = t /\ dump.calls[k].event_id = event_id}

DepthOf(t, n) ==
  Cardinality(CallsOf(t, n, "FUNC_ENTER")) - Cardinality(CallsOf(t, n, "FUNC_EXIT"))

LEMMA DepthIs == \A n : Depth(n) = DepthOf(dump.calls[n].context, n)
BY DEF Depth, DepthOf, CallsOf

LEMMA OneMore ==
  ASSUME NEW t, NEW n \in Nat, NEW event_id
  PROVE  LET hit == dump.calls[n + 1].context = t
                      /\ dump.calls[n + 1].event_id = event_id
         IN /\ Cardinality(CallsOf(t, n, event_id)) \in Nat
            /\ Cardinality(CallsOf(t, n + 1, event_id)) =
                 Cardinality(CallsOf(t, n, event_id)) + (IF hit THEN 1 ELSE 0)
<1> DEFINE S == CallsOf(t, n, event_id)
           hit == dump.calls[n + 1].context = t /\ dump.calls[n + 1].event_id = event_id
<1>1. IsFiniteSet(S) /\ n + 1 \notin S
  <2>1. IsFiniteSet(1 .. n)
    BY FS_Interval
  <2>2. S \in SUBSET (1 .. n) /\ n + 1 \notin 1 .. n
    BY DEF CallsOf
  <2> HIDE DEF S
  <2> QED BY <2>1, <2>2, FS_Subset
<1>2. 1 .. n + 1 = (1 .. n) \union {n + 1}
  OBVIOUS
<1>3. CallsOf(t, n + 1, event_id) = IF hit THEN S \union {n + 1} ELSE S
  BY <1>2 DEF CallsOf
<1> HIDE DEF S, hit
<1>4. Cardinality(S) \in Nat
  BY <1>1, FS_CardinalityType
<1>5. Cardinality(S \union {n + 1}) = Cardinality(S) + 1
  BY <1>1, FS_AddElement
<1> QED BY <1>3, <1>4, <1>5 DEF S, hit

(* A call changes the depth of its own thread only.                        *)
LEMMA DepthNext ==
  ASSUME NEW t, NEW n \in Nat
  PROVE  LET c == dump.calls[n + 1] IN
         /\ DepthOf(t, n) \in Int
         /\ c.context # t => DepthOf(t, n + 1) = DepthOf(t, n)
         /\ (c.context = t /\ c.event_id = "FUNC_ENTER")
              => DepthOf(t, n + 1) = DepthOf(t, n) + 1
         /\ (c.context = t /\ c.event_id = "FUNC_EXIT")
              => DepthOf(t, n + 1) = DepthOf(t, n) - 1
<1> DEFINE in(m)  == Cardinality(CallsOf(t, m, "FUNC_ENTER"))
           out(m) == Cardinality(CallsOf(t, m, "FUNC_EXIT"))
           c      == dump.calls[n + 1]
<1>1. /\ in(n) \in Nat
      /\ in(n + 1) = in(n) + (IF c.context = t /\ c.event_id = "FUNC_ENTER" THEN 1 ELSE 0)
  BY OneMore
<1>2. /\ out(n) \in Nat
      /\ out(n + 1) = out(n) + (IF c.context = t /\ c.event_id = "FUNC_EXIT" THEN 1 ELSE 0)
  BY OneMore
<1>3. DepthOf(t, n) = in(n) - out(n) /\ DepthOf(t, n + 1) = in(n + 1) - out(n + 1)
  BY DEF DepthOf
<1> HIDE DEF in, out, c
<1> QED BY <1>1, <1>2, <1>3 DEF c

-----------------------------------------------------------------------------
(* The levels.                                                             *)

(* No row shows an invalid event of the thread.                            *)
Valid(rs, t) ==
  \A k \in DOMAIN rs : rs[k].call.context = t => rs[k].call.event_id # "INVALID"

(* From the j-th row of a thread to the n-th of all calls, its level has   *)
(* changed as its depth has.                                               *)
Follows(t, lev, n, row, j) ==
  lev - row.level = DepthOf(t, n) - DepthOf(t, Newest(j))

(* So it is up to now, and between any two rows.                           *)
Nest(rs, lev) ==
  \A j \in DOMAIN rs : LET t == rs[j].call.context IN
    Valid(rs, t) =>
      /\ Follows(t, lev[t], Newest(Len(rs)), rs[j], j)
      /\ \A k \in DOMAIN rs :
           rs[k].call.context = t => Follows(t, rs[k].level, Newest(k), rs[j], j)

LevelInv ==
  (~ Excepted /\ dump.stored = Slots /\ at \notin Early) => Nest(rows, level)

LEMMA InitLevels == DecodersInit => LevelInv
BY DEF DecodersInit, Init, LevelInv, Early

LEMMA SameDepth ==
  ASSUME dump' = dump
  PROVE  /\ \A t, n : DepthOf(t, n)' = DepthOf(t, n)
         /\ \A rs, lev : Nest(rs, lev)' <=> Nest(rs, lev)
BY DEF DepthOf, CallsOf, Nest, Follows, Newest, Kept, Claims, Slots, Valid

LEMMA StepLevels ==
  RowsInv /\ RowsInv' /\ NamesInv /\ LevelInv /\ [DecodersNext]_decodersVars => LevelInv'
<1> SUFFICES ASSUME RowsInv, RowsInv', NamesInv, LevelInv, [DecodersNext]_decodersVars
             PROVE  LevelInv'
  OBVIOUS
<1>1. dump' = dump
  BY CiftDumpSteps DEF DecodersNext, RunCiftDump, RunJavaDumper, ParseOutFile,
     decodersVars, vars, toolVars
<1>2. /\ IsDump(dump)
      /\ Excepted' <=> Excepted
      /\ Slots' = Slots
      /\ \A rs, lev : Nest(rs, lev)' <=> Nest(rs, lev)
  BY <1>1, SameDump, SameDepth DEF RowsInv
<1>3. ASSUME UNCHANGED <<rows, level>>, at' \notin Early => at \notin Early
      PROVE  LevelInv'
  <2>1. rows' = rows /\ level' = level
    BY <1>3
  <2>2. Nest(rows, level)' <=> Nest(rows, level)
    BY <1>1, <2>1 DEF Nest, Follows, Newest, Kept, Claims, Slots, Valid, DepthOf, CallsOf
  <2> QED BY <1>1, <1>2, <1>3, <2>2 DEF LevelInv
<1>4. CASE UNCHANGED vars
  BY <1>3, <1>4 DEF vars, toolVars
<1>5. CASE LoadSymbols
  BY <1>3, <1>5 DEF LoadSymbols, toolVars
<1>6. CASE LoadFails \/ SymbolsDone \/ Open \/ Map \/ CheckMagic
  BY <1>3, <1>6 DEF LoadFails, SymbolsDone, Open, Map, CheckMagic, Goto, Early
<1>7. CASE Window
  <2>1. rows' = rows /\ at = "window"
    BY <1>7 DEF Window, Goto
  <2>2. DOMAIN rows' = {}
    BY <2>1 DEF RowsInv, Early
  <2>3. Nest(rows, level)'
    BY <2>2 DEF Nest
  <2> QED BY <2>3 DEF LevelInv
<1>8. CASE Killed \/ Close
  BY <1>3, <1>8 DEF Killed, Close, Goto, Early
<1>9. CASE PrintEvent
  <2> DEFINE k == Len(rows) + 1
  <2>1. PICK c \in Calls \union {Unwritten} : Printed(c) /\ (~ Excepted => c = Due(k))
    BY <1>9, NextRow DEF NamesInv
  <2>2. /\ k \in Nat \ {0} /\ k \notin DOMAIN rows /\ DOMAIN rows = 1 .. Len(rows)
        /\ Len(rows') = k /\ Len(rows) \in Nat
        /\ DOMAIN rows' = DOMAIN rows \union {k}
        /\ \A j \in DOMAIN rows : rows'[j] = rows[j]
        /\ rows'[k].call = c /\ rows'[k].level = NewLevel(c.context, c.event_id)
        /\ level'[c.context] = NewLevel(c.context, c.event_id)
        /\ \A t \in DOMAIN level : t # c.context => level'[t] = level[t]
    <3>1. Len(rows) \in Nat
      BY DEF RowsInv
    <3> HIDE DEF k
    <3> QED BY <2>1, <3>1, PrintedRows DEF k
  <2>3. /\ at \notin Early
        /\ level \in [DOMAIN level -> Int]
        /\ \A j \in DOMAIN rows : /\ rows[j].call.context \in DOMAIN level
                                  /\ rows[j].level \in Int
    <3>1. at = "rows" /\ rows \in Seq(RowItems)
      BY <2>1 DEF Printed, RowsInv
    <3>2. \A j \in DOMAIN rows : rows[j] \in RowItems
      BY <3>1
    <3> QED BY <3>1, <3>2 DEF RowsInv, RowItems, Early
  <2> DEFINE rs  == rows'
             lev == level'
  <2> SUFFICES ASSUME ~ Excepted, dump.stored = Slots
               PROVE  Nest(rs, lev)
    <3>1. Nest(rs, lev) => Nest(rows, level)'
      BY <1>1 DEF Nest, Follows, Newest, Kept, Claims, Slots, Valid, DepthOf, CallsOf
    <3> QED BY <1>1, <1>2, <3>1 DEF LevelInv
  <2>4. k \in 1 .. Kept
    <3>1. eventsInBuffers \in Nat /\ eventsInBuffers # 0 /\ Len(rows) + eventsInBuffers = Shown
      BY <2>1, <2>3 DEF RowsInv, Printed
    <3>2. Shown \in Nat /\ Shown <= Kept /\ Kept \in Nat
      BY <1>2, DumpFacts
    <3> QED BY <2>2, <3>1, <3>2
  <2> DEFINE n == Newest(Len(rows))
  <2>5. c = dump.calls[Newest(k)] /\ Newest(k) = n + 1 /\ n \in Nat
    <3>1. RowSlot(k) \in 0 .. Slots - 1 /\ Slots \in Nat
      BY <1>2, <2>2, RowSlotIs, DumpFacts
    <3>2. c = dump.calls[Newest(k)]
      <4>1. RowSlot(k) < dump.stored
        BY <3>1
      <4> QED BY <2>1, <4>1 DEF Due
    <3>3. Newest(k) = n + 1 /\ n \in Nat
      <4> DEFINE a == Len(dump.calls)
                 b == Kept
                 r == Len(rows)
      <4>1. a \in Nat /\ b \in Nat /\ b <= a /\ r \in Nat /\ k = r + 1
        BY <1>2, <2>2, DumpFacts
      <4>2. Newest(k) = a - b + k /\ n = a - b + r
        BY DEF Newest
      <4> HIDE DEF a, b, r, k, n
      <4> QED BY <4>1, <4>2
    <3> QED BY <3>2, <3>3
  <2> HIDE DEF k, n
  <2>6. \A t : /\ DepthOf(t, n) \in Int /\ DepthOf(t, n + 1) \in Int
               /\ c.context # t => DepthOf(t, n + 1) = DepthOf(t, n)
               /\ (c.context = t /\ c.event_id = "FUNC_ENTER")
                    => DepthOf(t, n + 1) = DepthOf(t, n) + 1
               /\ (c.context = t /\ c.event_id = "FUNC_EXIT")
                    => DepthOf(t, n + 1) = DepthOf(t, n) - 1
    <3>1. n + 1 \in Nat
      BY <2>5
    <3> QED BY <2>5, <3>1, DepthNext
  <2>7. \A j \in DOMAIN rows : \A t : DepthOf(t, Newest(j)) \in Int
    <3>1. \A j \in DOMAIN rows : Newest(j) \in Nat
      BY <1>2, <2>2, DumpFacts, SMTT(30) DEF Newest
    <3> QED BY <3>1, DepthNext
  <2>8. Nest(rows, level)
    BY <2>3 DEF LevelInv
  <2>9. /\ Len(rs) = k /\ DOMAIN rs = DOMAIN rows \union {k}
        /\ \A j \in DOMAIN rows : rs[j] = rows[j]
        /\ rs[k].call = c /\ rs[k].level = lev[c.context]
        /\ lev[c.context] = NewLevel(c.context, c.event_id)
        /\ \A t \in DOMAIN level : t # c.context => lev[t] = level[t]
    BY <2>2
  <2> HIDE DEF rs, lev
  <2>10. \A t : Valid(rs, t) => /\ Valid(rows, t)
                                /\ c.context = t => c.event_id \in {"FUNC_ENTER", "FUNC_EXIT"}
    <3>1. \A t : Valid(rs, t) => Valid(rows, t)
      BY <2>9 DEF Valid
    <3>2. c.event_id \in {"FUNC_ENTER", "FUNC_EXIT", "INVALID"}
      BY DEF Calls, Unwritten
    <3> QED BY <2>9, <3>1, <3>2 DEF Valid
  <2>11. lev[c.context] \in Int
    BY <2>3, <2>9 DEF NewLevel
  <2>12. ASSUME NEW j \in DOMAIN rows, Valid(rs, rows[j].call.context)
         PROVE  LET t == rows[j].call.context IN
                /\ lev[t] - rows[j].level = DepthOf(t, n + 1) - DepthOf(t, Newest(j))
                /\ \A i \in DOMAIN rows : rows[i].call.context = t =>
                     rows[i].level - rows[j].level = DepthOf(t, Newest(i)) - DepthOf(t, Newest(j))
    <3> DEFINE t == rows[j].call.context
               x == rows[j].level
               y == level[t]
               z == lev[t]
               d == DepthOf(t, n)
               e == DepthOf(t, n + 1)
               b == DepthOf(t, Newest(j))
    <3>1. Valid(rows, t)
      BY <2>10, <2>12
    <3>2. y - x = d - b
      BY <2>8, <3>1 DEF Nest, Follows, n
    <3>3. \A i \in DOMAIN rows : rows[i].call.context = t =>
            rows[i].level - x = DepthOf(t, Newest(i)) - b
      BY <2>8, <3>1 DEF Nest, Follows
    <3>4. /\ y \in Int /\ x \in Int /\ t \in DOMAIN level
          /\ d \in Int /\ e \in Int /\ b \in Int
      BY <2>3, <2>6, <2>7
    <3>5. z - x = e - b
      <4>1. CASE c.context # t
        <5>1. z = y /\ e = d
          BY <2>6, <2>9, <3>4, <4>1
        <5> QED BY <3>2, <5>1
      <4>2. CASE c.context = t
        <5>1. c.event_id \in {"FUNC_ENTER", "FUNC_EXIT"}
          BY <2>10, <2>12, <4>2
        <5>2. \/ z = y + 1 /\ e = d + 1
              \/ z = y - 1 /\ e = d - 1
          BY <2>6, <2>9, <3>4, <4>2, <5>1 DEF NewLevel
        <5> HIDE DEF x, y, z, d, e, b
        <5> QED BY <3>2, <3>4, <5>2
      <4> QED BY <4>1, <4>2
    <3> QED BY <3>3, <3>5
  <2>13. ASSUME NEW j \in DOMAIN rs, Valid(rs, rs[j].call.context)
         PROVE  LET t == rs[j].call.context IN
                /\ lev[t] - rs[j].level = DepthOf(t, n + 1) - DepthOf(t, Newest(j))
                /\ \A i \in DOMAIN rs : rs[i].call.context = t =>
                     rs[i].level - rs[j].level = DepthOf(t, Newest(i)) - DepthOf(t, Newest(j))
    <3> DEFINE t == rs[j].call.context
    <3>1. CASE j \in DOMAIN rows
      <4>1. rs[j] = rows[j] /\ Valid(rs, rows[j].call.context)
        BY <2>9, <2>13, <3>1
      <4>2. /\ lev[t] - rs[j].level = DepthOf(t, n + 1) - DepthOf(t, Newest(j))
            /\ \A i \in DOMAIN rows : rows[i].call.context = t =>
                 rows[i].level - rs[j].level = DepthOf(t, Newest(i)) - DepthOf(t, Newest(j))
        BY <2>12, <3>1, <4>1
      <4>3. rs[k].call.context = t => rs[k].level = lev[t] /\ Newest(k) = n + 1
        BY <2>5, <2>9
      <4> HIDE DEF t
      <4> QED BY <2>9, <4>2, <4>3 DEF t
    <3>2. CASE j = k
      <4>1. t = c.context /\ rs[j].level = lev[t] /\ Newest(j) = n + 1
        BY <2>5, <2>9, <3>2
      <4>2. lev[t] - rs[j].level = DepthOf(t, n + 1) - DepthOf(t, Newest(j))
        BY <2>6, <2>11, <4>1
      <4>3. ASSUME NEW i \in DOMAIN rows, rows[i].call.context = t
            PROVE  rows[i].level - rs[j].level = DepthOf(t, Newest(i)) - DepthOf(t, Newest(j))
        <5> DEFINE x == rows[i].level
                   y == lev[t]
                   d == DepthOf(t, n + 1)
                   e == DepthOf(t, Newest(i))
        <5>1. y - x = d - e
          BY <2>12, <2>13, <4>3
        <5>2. x \in Int /\ y \in Int /\ d \in Int /\ e \in Int
          BY <2>3, <2>6, <2>7, <2>11, <4>1
        <5>3. x - y = e - d
          <6> HIDE DEF x, y, d, e
          <6> QED BY <5>1, <5>2
        <5> QED BY <4>1, <5>3
      <4>4. ASSUME NEW i \in DOMAIN rs, rs[i].call.context = t
            PROVE  rs[i].level - rs[j].level = DepthOf(t, Newest(i)) - DepthOf(t, Newest(j))
        <5>1. CASE i = k
          BY <2>6, <2>11, <3>2, <4>1, <5>1
        <5>2. CASE i \in DOMAIN rows
          BY <2>9, <4>3, <4>4, <5>2
        <5> QED BY <2>9, <5>1, <5>2
      <4> QED BY <4>2, <4>4
    <3> QED BY <2>9, <3>1, <3>2
  <2>14. Newest(Len(rs)) = n + 1
    BY <2>5, <2>9
  <2> QED BY <2>13, <2>14 DEF Nest, Follows
<1> QED BY <1>4, <1>5, <1>6, <1>7, <1>8, <1>9
        DEF DecodersNext, RunCiftDump, RunJavaDumper, ParseOutFile, Next, decodersVars

THEOREM LevelsInvariance == DecodersSpec => [](RowsInv /\ LevelInv)
<1>1. DecodersInit => RowsInv /\ LevelInv /\ NamesInv
  BY InitRows, InitLevels, InitNames
<1>2. RowsInv /\ LevelInv /\ NamesInv /\ [DecodersNext]_decodersVars
        => (RowsInv /\ LevelInv /\ NamesInv)'
  BY StepRows, StepLevels, StepNames
<1> QED BY <1>1, <1>2, PTL DEF DecodersSpec

(* The levels tell how deep a call is nested (cift-dump.cpp:242-255): the  *)
(* levels of two rows of one thread differ as the depths of its stack do   *)
(* after the calls that the rows show, however the calls of the threads    *)
(* alternate and wherever the trace begins.                                *)
THEOREM LevelsNest == DecodersSpec => []LevelsShowNesting
<1>1. RowsInv /\ LevelInv => LevelsShowNesting
  <2> SUFFICES ASSUME RowsInv, LevelInv, at = "done", ~ Excepted, dump.stored = Slots,
                      NEW j \in DOMAIN rows, NEW k \in DOMAIN rows,
                      rows[j].call.context = rows[k].call.context,
                      Clean(rows[k].call.context)
               PROVE  rows[k].level - rows[j].level = Depth(Newest(k)) - Depth(Newest(j))
    BY DEF LevelsShowNesting
  <2> DEFINE t == rows[k].call.context
  <2>1. IsDump(dump) /\ at \notin Early
    BY DEF RowsInv, Early
  <2>2. Nest(rows, level) /\ Valid(rows, t)
    BY <2>1 DEF LevelInv, Clean, Valid
  <2>3. rows[k].level - rows[j].level = DepthOf(t, Newest(k)) - DepthOf(t, Newest(j))
    BY <2>2 DEF Nest, Follows
  <2>4. ASSUME NEW i \in DOMAIN rows
        PROVE  rows[i].call = dump.calls[Newest(i)]
    <3>1. i \in Nat \ {0}
      BY DEF RowsInv
    <3>2. RowSlot(i) \in 0 .. Slots - 1 /\ Slots \in Nat
      BY <2>1, <3>1, RowSlotIs, DumpFacts
    <3>3. rows[i].call = Due(i) /\ RowSlot(i) < dump.stored
      BY <2>1, <3>2 DEF RowsInv
    <3> QED BY <3>3 DEF Due
  <2>5. Depth(Newest(k)) = DepthOf(t, Newest(k)) /\ Depth(Newest(j)) = DepthOf(t, Newest(j))
    BY <2>4, DepthIs
  <2> QED BY <2>3, <2>5
<1> QED BY <1>1, LevelsInvariance, PTL

=============================================================================
