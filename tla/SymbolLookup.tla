---------------------------- MODULE SymbolLookup ----------------------------
(***************************************************************************)
(* The symbols that cift-dump prints beside addresses                      *)
(* (cift-dump/src/nm-symbol-extractor.cpp, address-range-lookup.h): the    *)
(* output of nm is read line by line into a vector of address ranges.      *)
(*                                                                         *)
(* A line has an address, a size, a type letter and a name; nm leaves out  *)
(* the address of an undefined symbol and the size of one without size.    *)
(* The parser takes the second field for a size if it begins like a        *)
(* hexadecimal number.  The name of a line is the number of the line.  A   *)
(* line is located if its name ends with the one closing parenthesis it    *)
(* has and a source file and line follow: cift-dump does without.          *)
(***************************************************************************)
EXTENDS Integers, Sequences, FiniteSets, SequencesExt

CONSTANTS
  Absent,       \* Stands for a field that is not there.
  MaxAddress    \* The last address there is.

ASSUME AbsentAssumption == Absent \notin Nat
ASSUME MaxAddressAssumption == MaxAddress \in Nat

Addresses == 0 .. MaxAddress

(* The type letters that are hexadecimal digits (A, B, C, D), and one that *)
(* is not.                                                                 *)
HexValue == [A |-> 10, B |-> 11, C |-> 12, D |-> 13]
Types    == DOMAIN HexValue \union {"T"}

Lines == [address : Addresses \union {Absent}, size : Nat \union {Absent},
          type : Types, located : BOOLEAN]

(* What nm --numeric-sort writes: undefined symbols first, then by address.*)
(* The end of a symbol is an address.                                      *)
IsOutput(lines) ==
  /\ lines \in Seq(Lines)
  /\ \A n \in DOMAIN lines :
       Absent \notin {lines[n].address, lines[n].size}
         => lines[n].address + lines[n].size <= MaxAddress + 1
  /\ \A m, n \in DOMAIN lines :
       (m < n /\ lines[m].address # Absent)
         => /\ lines[n].address # Absent
            /\ lines[m].address <= lines[n].address

VARIABLES
  file,          \* What nm wrote.
  line_no,       \* The line the parser reads next.
  waiting,       \* waitingForEndOfRange
  functionInfo,  \* The symbol of the last line.
  rangeVector    \* The ranges, in the order of the vector.

symbolVars == <<file, line_no, waiting, functionInfo, rangeVector>>

Info(low, high, name) == [first |-> low, last |-> high, name |-> name]

SymbolInit(f) ==
  /\ file = f
  /\ line_no = 1
  /\ waiting = FALSE
  /\ functionInfo = Info(0, 0, 0)
  /\ rangeVector = << >>

-----------------------------------------------------------------------------
(* RangeItem::operator<                                                    *)
Before(r, s) == r.last < s.first

SameRange(r, s) == r.first = s.first /\ r.last = s.last

(* RangeItem::inRange                                                      *)
InRange(r, address) == r.first <= address /\ address <= r.last

(* A range goes before the first one that lies wholly after it, unless the *)
(* same range is met on the way.                                           *)
InsertRange(ranges, r) ==
  LET stops == {i \in DOMAIN ranges : Before(r, ranges[i]) \/ SameRange(r, ranges[i])}
  IN CASE stops = {} -> Append(ranges, r)
       [] stops # {} /\ Before(r, ranges[Min(stops)]) -> InsertAt(ranges, Min(stops), r)
       [] OTHER -> ranges

(* The first range that holds the address; 0 if there is none.             *)
FindRange(ranges, address) ==
  LET hits == {i \in DOMAIN ranges : InRange(ranges[i], address)}
  IN IF hits = {} THEN 0 ELSE ranges[Min(hits)].name

(* What is printed beside an address: the name of its function, or "?",    *)
(* for which 0 stands.                                                     *)
StringForAddress(address) == FindRange(rangeVector, address)

-----------------------------------------------------------------------------
Line == file[line_no]

(* What the parser makes of the field after the address.                   *)
UnitCount(line) ==
  IF line.size # Absent THEN line.size
  ELSE IF line.type \in DOMAIN HexValue THEN HexValue[line.type] ELSE Absent

(* A line without an address, or with address 0, is dropped.               *)
SkipLine ==
  /\ line_no <= Len(file)
  /\ Line.address \in {Absent, 0}
  /\ line_no' = line_no + 1
  /\ UNCHANGED <<file, waiting, functionInfo, rangeVector>>

(* Other lines end the range of a symbol without size that waits for it.   *)
Ended(low) ==
  IF waiting
    THEN InsertRange(rangeVector,
                     Info(functionInfo.first, low - 1, functionInfo.name))
    ELSE rangeVector

ReadSized_KeepsWaiting ==
  LET low  == Line.address
      info == Info(low, low + UnitCount(Line) - 1, line_no)
  IN /\ line_no <= Len(file)
     /\ Line.address \notin {Absent, 0}
     /\ UnitCount(Line) # Absent
     /\ functionInfo' = info
     /\ rangeVector' = InsertRange(Ended(low), info)
     /\ line_no' = line_no + 1
     /\ UNCHANGED <<file, waiting>>

ReadSized ==
  LET low  == Line.address
      info == Info(low, low + UnitCount(Line) - 1, line_no)
  IN /\ line_no <= Len(file)
     /\ Line.address \notin {Absent, 0}
     /\ UnitCount(Line) # Absent
     /\ functionInfo' = info
     /\ rangeVector' = InsertRange(Ended(low), info)
     /\ waiting' = FALSE
     /\ line_no' = line_no + 1
     /\ UNCHANGED file

(* A symbol without size waits for the address of the next one.            *)
ReadSizeless ==
  /\ line_no <= Len(file)
  /\ Line.address \notin {Absent, 0}
  /\ UnitCount(Line) = Absent
  /\ functionInfo' = Info(Line.address, functionInfo.last, line_no)
  /\ rangeVector' = Ended(Line.address)
  /\ waiting' = TRUE
  /\ line_no' = line_no + 1
  /\ UNCHANGED file

LoadStep == SkipLine \/ ReadSized \/ ReadSizeless

Loaded == line_no > Len(file)

-----------------------------------------------------------------------------
(* What the file says: the lines with an address other than 0, and the     *)
(* addresses of each, which for one without size go up to the next line's. *)
Symbols == {n \in DOMAIN file : file[n].address \notin {Absent, 0}}

Covers(n, address) ==
  /\ file[n].address <= address
  /\ IF file[n].size # Absent
       THEN address < file[n].address + file[n].size
       ELSE n + 1 \in Symbols /\ address < file[n + 1].address

Misread == \E n \in Symbols : file[n].size = Absent /\ file[n].type # "T"

(* An address is printed with the name of the first symbol of the file     *)
(* that covers it, and as unknown if none does (nm-symbol-extractor.cpp:   *)
(* 193-291, address-range-lookup.h:84-123), for symbols with and without   *)
(* size in any order, aliases and overlaps included.  A file that has a    *)
(* symbol without size whose type letter is a hexadecimal digit is         *)
(* excepted: the letter is taken for its size.                             *)
NamedByFirstCover ==
  (Loaded /\ ~ Misread) =>
    \A a \in Addresses :
      LET covering == {n \in Symbols : Covers(n, a)} IN
      StringForAddress(a) = IF covering = {} THEN 0 ELSE Min(covering)

=============================================================================
