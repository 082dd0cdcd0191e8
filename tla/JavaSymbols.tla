---------------------------- MODULE JavaSymbols ----------------------------
(***************************************************************************)
(* The symbols of the Java dumper (cift-dump-java, NMSymbolExtractor and   *)
(* RangeLookup): it reads the file of nm that cift-dump reads, but takes   *)
(* only the functions with a source line, keeps their addresses in 32 bits *)
(* and rejects a range that overlaps an older one.  The lines it has taken *)
(* it also writes, in another format, to a file of its own, for which      *)
(* cift-dump has a parser that is not called (SymbolLookup::               *)
(* parseSymbolFile).                                                       *)
(***************************************************************************)
EXTENDS SymbolLookup

CONSTANT IntMax   \* Integer.MAX_VALUE

ASSUME IntMaxAssumption == IntMax \in Nat

VARIABLES
  java_line,   \* The line that readLine returns next.
  rangeList,   \* The ranges, in the order of the list.
  outFile,     \* What has been written to "<file>.out".
  out_line,    \* The line of it that cift-dump's parser reads next.
  outVector    \* The ranges that the parser has made of it.

javaVars == <<java_line, rangeList, outFile, out_line, outVector>>

JavaInit ==
  /\ java_line = 1
  /\ rangeList = << >>
  /\ outFile = << >>
  /\ out_line = 1
  /\ outVector = << >>

(* The sum of two ints comes round at IntMax.                              *)
ToInt(n) == IF n > IntMax THEN n - 2 * (IntMax + 1) ELSE n

(* lookupRange                                                             *)
InSome(ranges, address) == \E r \in Range(ranges) : InRange(r, address)

Rejected_ByHighAddress(ranges, r) == InSome(ranges, r.last)

(* A new range overlaps an old one if the old one holds one of its ends.   *)
Rejected(ranges, r) == InSome(ranges, r.first) \/ InSome(ranges, r.last)

(* A range goes before the first one that begins after its end.            *)
AddRange(ranges, r) ==
  LET after == {i \in DOMAIN ranges : r.last < ranges[i].first}
  IN IF Rejected(ranges, r) THEN ranges
     ELSE IF after = {} THEN Append(ranges, r) ELSE InsertAt(ranges, Min(after), r)

(* The pattern finds a size, the letter T, and a source file and line.     *)
Matches(line) ==
  /\ line.address # Absent
  /\ line.size # Absent
  /\ line.type = "T"
  /\ line.located

(* Integer.parseInt throws for a number that is no int.                    *)
Parses(line) == line.address <= IntMax /\ line.size <= IntMax

EndAddress_Exclusive(line) == ToInt(line.address + line.size)

EndAddress(line) == ToInt(line.address + line.size - 1)

(* Integer.toHexString writes a negative number as if it had no sign.      *)
Unsigned(n) == IF n < 0 THEN n + 2 * (IntMax + 1) ELSE n

(* A line that does not match, or has a number too large, is left out.  A  *)
(* line whose range is rejected is written to the file all the same.       *)
JavaReadLine ==
  LET line == file[java_line]
      end  == EndAddress(line)
  IN /\ java_line <= Len(file)
     /\ java_line' = java_line + 1
     /\ IF Matches(line) /\ Parses(line)
          THEN /\ rangeList' = AddRange(rangeList, Info(line.address, end, java_line))
               /\ outFile' = Append(outFile, Info(line.address, Unsigned(end), java_line))
          ELSE UNCHANGED <<rangeList, outFile>>
     /\ UNCHANGED <<out_line, outVector>>

JavaLoaded == java_line > Len(file)

(* Cift-dump's parser reads a line of the file that the Java program wrote.*)
ParseOutLine ==
  /\ JavaLoaded
  /\ out_line <= Len(outFile)
  /\ outVector' = InsertRange(outVector, outFile[out_line])
  /\ out_line' = out_line + 1
  /\ UNCHANGED <<java_line, rangeList, outFile>>

OutLoaded == JavaLoaded /\ out_line > Len(outFile)

-----------------------------------------------------------------------------
(* No two ranges of the Java program share an address (RangeLookup.java:   *)
(* 49-58), although only the ends of a new range are looked up: one that   *)
(* holds an old range between its ends would have to begin before it, and  *)
(* nm sorts its lines by address.                                          *)
RangesDisjoint ==
  \A i, j \in DOMAIN rangeList :
    i # j => \A a \in Addresses : ~ (InRange(rangeList[i], a) /\ InRange(rangeList[j], a))

(* The functions that the Java dumper takes and that share no address with *)
(* any other symbol, one at address 0 included.                            *)
Distinct ==
  {n \in Symbols :
     /\ Matches(file[n]) /\ Parses(file[n])
     /\ \A m \in DOMAIN file \ {n} :
          file[m].address # Absent => \A a \in Addresses : ~ (Covers(n, a) /\ Covers(m, a))}

(* A function without size at address 0: the end of its range is -1.       *)
EmptyAtZero ==
  \E n \in DOMAIN file :
    Matches(file[n]) /\ file[n].address = 0 /\ file[n].size = 0

(* A function that shares no address with another symbol has one name,     *)
(* whichever program is asked: cift-dump, the Java dumper, or cift-dump    *)
(* with the file that the Java dumper wrote (NMSymbolExtractor.java:189-   *)
(* 202, nm-symbol-extractor.cpp:377-423); and what the Java dumper names   *)
(* belongs to the function it names.  Other symbols may come in between,   *)
(* rejected, without size or with numbers too large for Java.  Excepted    *)
(* are a file that cift-dump misreads, for the Java dumper a function      *)
(* whose end comes round to a negative number, and for its file one that   *)
(* has a function without size at 0.                                       *)
DecodersAgree ==
  (Loaded /\ JavaLoaded /\ ~ Misread) =>
    /\ \A a \in Addresses :
         LET java == FindRange(rangeList, a) IN java # 0 => Covers(java, a)
    /\ \A n \in Distinct : \A a \in {b \in Addresses : Covers(n, b)} :
         /\ StringForAddress(a) = n
         /\ EndAddress(file[n]) >= 0 => FindRange(rangeList, a) = n
         /\ (OutLoaded /\ ~ EmptyAtZero) => FindRange(outVector, a) = n

=============================================================================
