---------------------------- MODULE SymbolProofs ----------------------------
(***************************************************************************)
(* What the parsers of SymbolLookup and JavaSymbols make of the output of  *)
(* nm: facts about the vector of ranges, for any ranges, and from them one *)
(* invariant for each of the three vectors, kept by each step of its       *)
(* parser.  DecodersProofs puts them together for the programs.            *)
(***************************************************************************)
EXTENDS JavaSymbols, WellFoundedInduction, TLAPS

-----------------------------------------------------------------------------
(* Least elements.                                                         *)

LEMMA Least ==
  ASSUME NEW S \in SUBSET Nat, S # {}
  PROVE  /\ Min(S) \in S
         /\ \A x \in S : Min(S) <= x
<1> DEFINE less == OpToRel(<, Nat)
<1>1. IsWellFoundedOn(less, Nat)
  BY NatLessThanWellFounded
<1>2. \A x, y \in Nat : ~ (<<y, x>> \in less) => x <= y
  BY DEF OpToRel
<1>3. PICK x \in S : \A y \in S : ~ (<<y, x>> \in less)
  <2> HIDE DEF less
  <2> QED BY <1>1, WFMin
<1>4. \A y \in S : x <= y
  BY <1>2, <1>3
<1> QED BY <1>4 DEF Min

(* The first of a set of lines, 0 if it is empty.                          *)
IsFirst(x, S) == IF S = {} THEN x = 0 ELSE x \in S /\ \A y \in S : x <= y

(* A later line is the first only if there is none before it.              *)
LEMMA FirstGrows ==
  ASSUME NEW S \in SUBSET (Nat \ {0}), NEW x, IsFirst(x, S),
         NEW n \in Nat \ {0}, \A y \in S : y < n
  PROVE  IsFirst(IF x # 0 THEN x ELSE n, S \union {n})
<1>1. CASE S = {}
  BY <1>1 DEF IsFirst
<1>2. CASE S # {}
  <2>1. x \in S /\ x # 0 /\ \A y \in S : x <= y
    BY <1>2 DEF IsFirst
  <2>2. x <= n
    BY <2>1
  <2> QED BY <2>1, <2>2 DEF IsFirst
<1> QED BY <1>1, <1>2

-----------------------------------------------------------------------------
(* Vectors of ranges.  A range has the name of a line, and may be empty.   *)
RangeItems == [first : Nat, last : Int, name : Nat \ {0}]

(* Where the first range is that holds the address.                        *)
FoundAt(ranges, address, i) ==
  /\ i \in DOMAIN ranges
  /\ InRange(ranges[i], address)
  /\ \A j \in DOMAIN ranges : j < i => ~ InRange(ranges[j], address)

NotFound(ranges, address) == \A i \in DOMAIN ranges : ~ InRange(ranges[i], address)

LEMMA FoundSomewhere ==
  ASSUME NEW v \in Seq(RangeItems), NEW a, ~ NotFound(v, a)
  PROVE  \E i \in DOMAIN v : FoundAt(v, a, i)
<1> DEFINE hits == {i \in DOMAIN v : InRange(v[i], a)}
<1>1. hits \in SUBSET Nat /\ hits # {}
  BY DEF NotFound
<1>2. Min(hits) \in hits /\ \A i \in hits : Min(hits) <= i
  <2> HIDE DEF hits
  <2> QED BY <1>1, Least
<1>3. PICK i \in hits : \A j \in hits : i <= j
  BY <1>2
<1>4. \A j \in DOMAIN v : j < i => ~ InRange(v[j], a)
  BY <1>3
<1> QED BY <1>3, <1>4 DEF FoundAt

LEMMA FindFound ==
  ASSUME NEW v \in Seq(RangeItems), NEW a, NEW i, FoundAt(v, a, i)
  PROVE  FindRange(v, a) = v[i].name
<1> DEFINE hits == {j \in DOMAIN v : InRange(v[j], a)}
<1>1. hits \in SUBSET Nat /\ i \in hits /\ \A j \in hits : i <= j
  BY DEF FoundAt
<1>2. Min(hits) \in hits /\ \A j \in hits : Min(hits) <= j
  <2> HIDE DEF hits
  <2> QED BY <1>1, Least
<1>3. Min(hits) = i
  <2>1. Min(hits) \in Nat /\ i \in Nat /\ Min(hits) <= i /\ i <= Min(hits)
    <3> HIDE DEF hits
    <3> QED BY <1>1, <1>2
  <2> QED BY <2>1
<1>4. FindRange(v, a) = IF hits = {} THEN 0 ELSE v[Min(hits)].name
  BY DEF FindRange
<1> HIDE DEF hits
<1> QED BY <1>1, <1>3, <1>4

LEMMA FindNotFound ==
  ASSUME NEW v, NEW a, NotFound(v, a)
  PROVE  FindRange(v, a) = 0
BY DEF NotFound, FindRange

(* Nothing but a range that holds the address gives a name.                *)
LEMMA FindFacts ==
  ASSUME NEW v \in Seq(RangeItems), NEW a
  PROVE  \/ FindRange(v, a) = 0 /\ NotFound(v, a)
         \/ \E i \in DOMAIN v : FoundAt(v, a, i) /\ FindRange(v, a) = v[i].name
BY FindNotFound, FoundSomewhere, FindFound

LEMMA FindEmpty == \A a : FindRange(<< >>, a) = 0
BY FindNotFound DEF NotFound

(* A range added at the end names what no other range does.                *)
LEMMA FindAppended ==
  ASSUME NEW v \in Seq(RangeItems), NEW r \in RangeItems, NEW a
  PROVE  FindRange(Append(v, r), a) =
           IF FindRange(v, a) # 0 THEN FindRange(v, a)
           ELSE IF InRange(r, a) THEN r.name ELSE 0
<1> DEFINE w == Append(v, r)
           n == Len(v) + 1
<1>0. w \in Seq(RangeItems)
  OBVIOUS
<1>1. /\ DOMAIN w = DOMAIN v \union {n}
      /\ \A i \in DOMAIN v : w[i] = v[i] /\ i < n
      /\ w[n] = r
      /\ n \in Nat /\ DOMAIN v \subseteq Nat
  OBVIOUS
<1>2. \A i \in DOMAIN v : v[i].name # 0
  <2>1. \A i \in DOMAIN v : v[i] \in RangeItems
    OBVIOUS
  <2> QED BY <2>1 DEF RangeItems
<1> SUFFICES FindRange(w, a) = IF FindRange(v, a) # 0 THEN FindRange(v, a)
                               ELSE IF InRange(r, a) THEN r.name ELSE 0
  OBVIOUS
<1> HIDE DEF w, n
<1>3. CASE \E i \in DOMAIN v : FoundAt(v, a, i) /\ FindRange(v, a) = v[i].name
  <2>1. PICK i \in DOMAIN v : FoundAt(v, a, i) /\ FindRange(v, a) = v[i].name
    BY <1>3
  <2>2. FoundAt(w, a, i)
    BY <2>1, <1>1 DEF FoundAt
  <2>3. FindRange(w, a) = w[i].name
    BY <1>0, <2>2, FindFound
  <2> QED BY <1>1, <1>2, <2>1, <2>3
<1>4. CASE FindRange(v, a) = 0 /\ NotFound(v, a) /\ InRange(r, a)
  <2>1. FoundAt(w, a, n)
    BY <1>4, <1>1 DEF FoundAt, NotFound
  <2>2. FindRange(w, a) = w[n].name
    BY <1>0, <2>1, FindFound
  <2> QED BY <1>1, <1>4, <2>2
<1>5. CASE FindRange(v, a) = 0 /\ NotFound(v, a) /\ ~ InRange(r, a)
  <2>1. NotFound(w, a)
    BY <1>5, <1>1 DEF NotFound
  <2> QED BY <1>5, <2>1, FindNotFound
<1> QED BY <1>3, <1>4, <1>5, FindFacts

LEMMA InsertAtFacts ==
  ASSUME NEW T, NEW v \in Seq(T), NEW r \in T, NEW k \in DOMAIN v
  PROVE  /\ InsertAt(v, k, r) \in Seq(T)
         /\ Len(InsertAt(v, k, r)) = Len(v) + 1
         /\ \A i \in 1 .. Len(v) + 1 :
              InsertAt(v, k, r)[i] = IF i < k THEN v[i]
                                     ELSE IF i = k THEN r ELSE v[i - 1]
<1>1. /\ k \in 1 .. Len(v) /\ Len(v) \in Nat
      /\ SubSeq(v, 1, k - 1) \in Seq(T) /\ Len(SubSeq(v, 1, k - 1)) = k - 1
      /\ \A i \in 1 .. k - 1 : SubSeq(v, 1, k - 1)[i] = v[i]
      /\ SubSeq(v, k, Len(v)) \in Seq(T) /\ Len(SubSeq(v, k, Len(v))) = Len(v) - k + 1
      /\ \A i \in 1 .. Len(v) - k + 1 : SubSeq(v, k, Len(v))[i] = v[k + i - 1]
  OBVIOUS
<1> DEFINE head == SubSeq(v, 1, k - 1)
           tail == SubSeq(v, k, Len(v))
           mid  == head \o <<r>>
<1> HIDE DEF head, tail
<1>2. /\ mid \in Seq(T) /\ Len(mid) = k /\ mid[k] = r
      /\ \A i \in 1 .. k - 1 : mid[i] = v[i]
  <2>1. head \in Seq(T) /\ Len(head) = k - 1 /\ \A i \in 1 .. k - 1 : head[i] = v[i]
    BY <1>1 DEF head
  <2>2. mid = Append(head, r) /\ k = Len(head) + 1
    BY <1>1, <2>1
  <2> HIDE DEF mid
  <2> QED BY <2>1, <2>2
<1> HIDE DEF mid
<1>3. /\ mid \o tail \in Seq(T) /\ Len(mid \o tail) = Len(v) + 1
      /\ \A i \in 1 .. Len(v) + 1 :
           (mid \o tail)[i] = IF i <= k THEN mid[i] ELSE tail[i - k]
  BY <1>1, <1>2, SMTT(30) DEF tail
<1>4. InsertAt(v, k, r) = mid \o tail
  BY DEF InsertAt, mid, head, tail
<1>5. \A i \in 1 .. Len(v) + 1 : i > k => tail[i - k] = v[i - 1]
  <2> TAKE i \in 1 .. Len(v) + 1
  <2> HAVE i > k
  <2>1. i - k \in 1 .. Len(v) - k + 1 /\ k + (i - k) - 1 = i - 1
    BY <1>1
  <2> QED BY <1>1, <2>1 DEF tail
<1> QED BY <1>1, <1>2, <1>3, <1>4, <1>5

(* An empty range changes no name, wherever it goes.                       *)
LEMMA FindInsertedAt ==
  ASSUME NEW v \in Seq(RangeItems), NEW r \in RangeItems, NEW k \in DOMAIN v,
         NEW a, ~ InRange(r, a)
  PROVE  FindRange(InsertAt(v, k, r), a) = FindRange(v, a)
<1> DEFINE w == InsertAt(v, k, r)
<1>1. /\ w \in Seq(RangeItems) /\ DOMAIN w = 1 .. Len(v) + 1 /\ DOMAIN v = 1 .. Len(v)
      /\ Len(v) \in Nat /\ k \in 1 .. Len(v)
      /\ \A i \in 1 .. Len(v) + 1 :
           w[i] = IF i < k THEN v[i] ELSE IF i = k THEN r ELSE v[i - 1]
  <2>1. \A i \in DOMAIN v : v[i] \in RangeItems
    OBVIOUS
  <2>2. w \in Seq(RangeItems) /\ Len(w) = Len(v) + 1
    BY InsertAtFacts
  <2>3. \A i \in 1 .. Len(v) + 1 :
           w[i] = IF i < k THEN v[i] ELSE IF i = k THEN r ELSE v[i - 1]
    BY InsertAtFacts
  <2> HIDE DEF w
  <2> QED BY <2>2, <2>3
<1> HIDE DEF w
<1> SUFFICES FindRange(w, a) = FindRange(v, a)
  BY DEF w
<1>2. CASE \E i \in DOMAIN v : FoundAt(v, a, i) /\ FindRange(v, a) = v[i].name
  <2>1. PICK i \in DOMAIN v : FoundAt(v, a, i) /\ FindRange(v, a) = v[i].name
    BY <1>2
  <2>2. CASE i < k
    <3>1. FoundAt(w, a, i) /\ w[i] = v[i]
      BY <1>1, <2>1, <2>2 DEF FoundAt
    <3> QED BY <1>1, <2>1, <3>1, FindFound
  <2>3. CASE i >= k
    <3>1. i + 1 \in DOMAIN w /\ w[i + 1] = v[i]
      BY <1>1, <2>3
    <3>2. \A j \in DOMAIN w : j < i + 1 => ~ InRange(w[j], a)
      <4> TAKE j \in DOMAIN w
      <4> HAVE j < i + 1
      <4>1. CASE j < k
        BY <4>1, <1>1, <2>1, <2>3 DEF FoundAt
      <4>2. CASE j = k
        BY <4>2, <1>1
      <4>3. CASE j > k
        <5>1. j - 1 \in DOMAIN v /\ j - 1 < i /\ w[j] = v[j - 1]
          BY <4>3, <1>1
        <5> QED BY <5>1, <2>1 DEF FoundAt
      <4> QED BY <4>1, <4>2, <4>3, <1>1
    <3>3. FoundAt(w, a, i + 1)
      BY <2>1, <3>1, <3>2 DEF FoundAt
    <3> QED BY <1>1, <2>1, <3>1, <3>3, FindFound
  <2> QED BY <2>2, <2>3, <1>1
<1>3. CASE FindRange(v, a) = 0 /\ NotFound(v, a)
  <2>1. \A i \in DOMAIN w : ~ InRange(w[i], a)
    <3> TAKE i \in DOMAIN w
    <3>1. i < k => i \in DOMAIN v
      BY <1>1
    <3>2. i > k => i - 1 \in DOMAIN v
      BY <1>1
    <3> QED BY <1>1, <1>3, <3>1, <3>2 DEF NotFound
  <2> QED BY <1>3, <2>1, FindNotFound DEF NotFound
<1> QED BY <1>2, <1>3, FindFacts

-----------------------------------------------------------------------------
(* insertRange, for ranges that come in the order of their first address.  *)

(* No range begins after that address.                                     *)
NoneAfter(v, address) == \A i \in DOMAIN v : v[i].first <= address

LEMMA Inserted ==
  ASSUME NEW v \in Seq(RangeItems), NEW r \in RangeItems, NoneAfter(v, r.first)
  PROVE  \/ InsertRange(v, r) = v /\ \E i \in DOMAIN v : SameRange(r, v[i])
         \/ InsertRange(v, r) = Append(v, r)
         \/ r.last < r.first /\ \E k \in DOMAIN v : InsertRange(v, r) = InsertAt(v, k, r)
<1> DEFINE stops == {i \in DOMAIN v : Before(r, v[i]) \/ SameRange(r, v[i])}
           k     == Min(stops)
<1>1. stops # {} => k \in stops
  <2>1. stops \in SUBSET Nat
    OBVIOUS
  <2> HIDE DEF stops
  <2> QED BY <2>1, Least
<1>2. InsertRange(v, r) = CASE stops = {} -> Append(v, r)
                            [] stops # {} /\ Before(r, v[k]) -> InsertAt(v, k, r)
                            [] OTHER -> v
  BY DEF InsertRange
<1>3. CASE stops = {}
  <2> HIDE DEF stops, k
  <2> QED BY <1>2, <1>3
<1>4. CASE stops # {} /\ Before(r, v[k])
  <2>1. InsertRange(v, r) = InsertAt(v, k, r)
    <3> HIDE DEF stops, k
    <3> QED BY <1>2, <1>4
  <2>2. k \in DOMAIN v
    BY <1>1, <1>4
  <2>3. v[k] \in RangeItems
    <3> HIDE DEF k
    <3> QED BY <2>2
  <2>4. r.last < r.first
    <3> HIDE DEF k
    <3> QED BY <1>4, <2>2, <2>3 DEF Before, NoneAfter, RangeItems
  <2> QED BY <2>1, <2>2, <2>4
<1>5. CASE stops # {} /\ ~ Before(r, v[k])
  <2>1. InsertRange(v, r) = v
    <3> HIDE DEF stops, k
    <3> QED BY <1>2, <1>5
  <2>2. k \in DOMAIN v /\ SameRange(r, v[k])
    BY <1>1, <1>5
  <2> QED BY <2>1, <2>2
<1> QED BY <1>3, <1>4, <1>5

(* What it does to the vector and to the names.                            *)
LEMMA InsertFacts ==
  ASSUME NEW v \in Seq(RangeItems), NEW r \in RangeItems, NoneAfter(v, r.first)
  PROVE  /\ InsertRange(v, r) \in Seq(RangeItems)
         /\ NoneAfter(InsertRange(v, r), r.first)
         /\ \A a \in Int :
              FindRange(InsertRange(v, r), a) =
                IF FindRange(v, a) # 0 THEN FindRange(v, a)
                ELSE IF InRange(r, a) THEN r.name ELSE 0
<1>0. r.first \in Nat /\ r.last \in Int
  BY DEF RangeItems
<1>1. CASE InsertRange(v, r) = v /\ \E i \in DOMAIN v : SameRange(r, v[i])
  <2>1. PICK i \in DOMAIN v : SameRange(r, v[i])
    BY <1>1
  <2>2. \A a \in Int : InRange(r, a) => FindRange(v, a) # 0
    <3> TAKE a \in Int
    <3> HAVE InRange(r, a)
    <3>1. InRange(v[i], a)
      BY <2>1 DEF InRange, SameRange
    <3>2. ~ NotFound(v, a)
      BY <3>1 DEF NotFound
    <3>3. PICK j \in DOMAIN v : FindRange(v, a) = v[j].name
      BY <3>2, FindFacts
    <3>4. v[j] \in RangeItems
      OBVIOUS
    <3> QED BY <3>3, <3>4 DEF RangeItems
  <2> QED BY <1>1, <2>2
<1>2. CASE InsertRange(v, r) = Append(v, r)
  <2>1. Append(v, r) \in Seq(RangeItems)
    OBVIOUS
  <2>2. NoneAfter(Append(v, r), r.first)
    <3>1. \A i \in DOMAIN Append(v, r) :
            \/ Append(v, r)[i] = r
            \/ i \in DOMAIN v /\ Append(v, r)[i] = v[i]
      OBVIOUS
    <3> QED BY <1>0, <3>1 DEF NoneAfter
  <2> QED BY <1>2, <2>1, <2>2, FindAppended
<1>3. CASE r.last < r.first /\ \E k \in DOMAIN v : InsertRange(v, r) = InsertAt(v, k, r)
  <2>1. PICK k \in DOMAIN v : InsertRange(v, r) = InsertAt(v, k, r)
    BY <1>3
  <2> DEFINE w == InsertAt(v, k, r)
  <2>2. /\ w \in Seq(RangeItems)
        /\ Len(w) = Len(v) + 1
        /\ \A i \in 1 .. Len(v) + 1 :
             w[i] = IF i < k THEN v[i] ELSE IF i = k THEN r ELSE v[i - 1]
    BY InsertAtFacts
  <2>3. \A a \in Int : ~ InRange(r, a)
    BY <1>0, <1>3 DEF InRange
  <2>4. NoneAfter(w, r.first)
    <3> HIDE DEF w
    <3> SUFFICES ASSUME NEW i \in 1 .. Len(v) + 1 PROVE w[i].first <= r.first
      BY <2>2 DEF NoneAfter
    <3>1. i < k => i \in DOMAIN v
      OBVIOUS
    <3>2. i > k => i - 1 \in DOMAIN v
      OBVIOUS
    <3>3. \/ i < k /\ w[i] = v[i]
          \/ i = k /\ w[i] = r
          \/ i > k /\ w[i] = v[i - 1]
      BY <2>2
    <3> QED BY <1>0, <3>1, <3>2, <3>3 DEF NoneAfter
  <2>5. \A a \in Int : FindRange(w, a) = FindRange(v, a)
    BY <2>3, FindInsertedAt
  <2>6. \A a \in Int : FindRange(v, a) = 0 \/ FindRange(v, a) # 0
    OBVIOUS
  <2> HIDE DEF w
  <2> QED BY <2>1, <2>2, <2>3, <2>4, <2>5 DEF w
<1> QED BY <1>1, <1>2, <1>3, Inserted

-----------------------------------------------------------------------------
(* The vectors of cift-dump's parsers.                                     *)

(* The vector names each address with the first of the lines that covers it*)
Named(v, lines) ==
  \A a \in Addresses : IsFirst(FindRange(v, a), {n \in lines : Covers(n, a)})

LEMMA NamedGrows ==
  ASSUME NEW v \in Seq(RangeItems), NEW r \in RangeItems, NoneAfter(v, r.first),
         NEW S \in SUBSET (Nat \ {0}), \A m \in S : m < r.name,
         \A a \in Addresses : InRange(r, a) <=> Covers(r.name, a),
         Named(v, S)
  PROVE  Named(InsertRange(v, r), S \union {r.name})
<1> DEFINE n == r.name
<1>1. n \in Nat \ {0}
  BY DEF RangeItems
<1>2. SUFFICES ASSUME NEW a \in Addresses
               PROVE  IsFirst(FindRange(InsertRange(v, r), a),
                              {m \in S \union {n} : Covers(m, a)})
  BY DEF Named
<1> DEFINE T == {m \in S : Covers(m, a)}
<1>3. IsFirst(FindRange(v, a), T)
  BY DEF Named
<1>4. FindRange(InsertRange(v, r), a) =
        IF FindRange(v, a) # 0 THEN FindRange(v, a)
        ELSE IF InRange(r, a) THEN n ELSE 0
  BY MaxAddressAssumption, InsertFacts DEF Addresses
<1>5. CASE InRange(r, a)
  <2>1. {m \in S \union {n} : Covers(m, a)} = T \union {n}
    BY <1>5
  <2>2. IsFirst(IF FindRange(v, a) # 0 THEN FindRange(v, a) ELSE n, T \union {n})
    <3>1. T \in SUBSET (Nat \ {0}) /\ \A m \in T : m < n
      OBVIOUS
    <3> HIDE DEF T, n
    <3> QED BY <1>1, <1>3, <3>1, FirstGrows
  <2> HIDE DEF n
  <2> QED BY <1>4, <1>5, <2>1, <2>2
<1>6. CASE ~ InRange(r, a)
  <2>1. {m \in S \union {n} : Covers(m, a)} = T
    BY <1>6
  <2> HIDE DEF T, n
  <2> QED BY <1>3, <1>4, <1>6, <2>1
<1> QED BY <1>5, <1>6

(* The symbols whose ranges are complete.  One that waits is not.          *)
FirstOpen == IF waiting THEN line_no - 1 ELSE line_no
Complete  == {n \in Symbols : n < FirstOpen}

(* The invariant of the parser of nm's output.                             *)
SymbolInv ==
  /\ IsOutput(file)
  /\ line_no \in 1 .. Len(file) + 1
  /\ waiting \in BOOLEAN
  /\ waiting => /\ line_no - 1 \in Symbols
                /\ file[line_no - 1].size = Absent
                /\ functionInfo.name = line_no - 1
                /\ functionInfo.first = file[line_no - 1].address
  /\ rangeVector \in Seq(RangeItems)
  /\ \A n \in Symbols : n >= FirstOpen => NoneAfter(rangeVector, file[n].address)
  /\ ~ Misread => Named(rangeVector, Complete)

(* What nm's order says of a symbol.                                       *)
LEMMA SymbolFacts ==
  ASSUME IsOutput(file)
  PROVE  /\ Len(file) \in Nat /\ DOMAIN file = 1 .. Len(file)
         /\ \A n \in DOMAIN file : file[n] \in Lines
         /\ Symbols \in SUBSET (Nat \ {0})
         /\ \A n \in Symbols : file[n].address \in Nat \ {0}
         /\ \A n \in Symbols, m \in DOMAIN file :
              n <= m => m \in Symbols /\ file[n].address <= file[m].address
<1>1. /\ file \in Seq(Lines)
      /\ \A m, n \in DOMAIN file :
           (m < n /\ file[m].address # Absent)
             => /\ file[n].address # Absent
                /\ file[m].address <= file[n].address
  BY DEF IsOutput
<1>2. /\ Len(file) \in Nat /\ DOMAIN file = 1 .. Len(file)
      /\ \A n \in DOMAIN file : file[n] \in Lines
  BY <1>1
<1>3. Symbols \in SUBSET (Nat \ {0})
  BY <1>2 DEF Symbols
<1>4. \A n \in Symbols : file[n].address \in Nat \ {0}
  BY <1>2, MaxAddressAssumption DEF Symbols, Lines, Addresses
<1>5. ASSUME NEW n \in Symbols, NEW m \in DOMAIN file, n <= m
      PROVE  m \in Symbols /\ file[n].address <= file[m].address
  <2>1. CASE n = m
    BY <2>1, <1>4
  <2>2. CASE n < m
    <3>1. n \in DOMAIN file /\ file[n].address # Absent
      BY DEF Symbols
    <3>2. file[m].address # Absent /\ file[n].address <= file[m].address
      BY <3>1, <2>2, <1>1
    <3>3. file[m].address \in Nat
      BY <3>2, <1>2, MaxAddressAssumption DEF Lines, Addresses
    <3> QED BY <3>2, <3>3, <1>4, MaxAddressAssumption DEF Symbols
  <2> QED BY <2>1, <2>2, <1>2, <1>3, <1>5
<1> QED BY <1>2, <1>3, <1>4, <1>5

LEMMA SymbolInvInit ==
  ASSUME NEW f, IsOutput(f), SymbolInit(f)
  PROVE  SymbolInv
<1>1. /\ file = f /\ line_no = 1 /\ waiting = FALSE /\ rangeVector = << >>
      /\ IsOutput(file)
  BY DEF SymbolInit
<1>2. Complete = {}
  BY <1>1, SymbolFacts DEF Complete, FirstOpen
<1>3. Named(rangeVector, Complete)
  BY <1>1, <1>2, FindEmpty DEF Named, IsFirst
<1>4. line_no \in 1 .. Len(file) + 1
  BY <1>1, SymbolFacts
<1>5. \A a : NoneAfter(rangeVector, a) /\ rangeVector \in Seq(RangeItems)
  BY <1>1 DEF NoneAfter
<1> QED BY <1>1, <1>3, <1>4, <1>5 DEF SymbolInv

(* When a symbol is read, the one that waits for its address is added.     *)
LEMMA EndedFacts ==
  ASSUME SymbolInv, line_no \in Symbols
  PROVE  LET v == Ended(Line.address) IN
         /\ v \in Seq(RangeItems)
         /\ \A n \in Symbols : n >= line_no => NoneAfter(v, file[n].address)
         /\ ~ Misread => Named(v, {n \in Symbols : n < line_no})
<1> DEFINE low == Line.address
           v   == Ended(low)
           r   == Info(functionInfo.first, low - 1, functionInfo.name)
           k   == line_no - 1
<1>1. IsOutput(file) /\ rangeVector \in Seq(RangeItems) /\ waiting \in BOOLEAN
  BY DEF SymbolInv
<1>2. low \in Nat \ {0} /\ line_no \in Nat \ {0} /\ low = file[line_no].address
  BY <1>1, SymbolFacts DEF Line
<1>3. CASE ~ waiting
  <2>1. v = rangeVector /\ FirstOpen = line_no
    BY <1>3 DEF Ended, FirstOpen
  <2> QED BY <1>1, <2>1 DEF SymbolInv, Complete
<1>4. CASE waiting
  <2>1. /\ k \in Symbols /\ file[k].size = Absent /\ file[k].address \in Nat \ {0}
        /\ functionInfo.name = k /\ functionInfo.first = file[k].address
        /\ FirstOpen = k
    BY <1>1, <1>4, SymbolFacts DEF SymbolInv, FirstOpen
  <2>2. k \in Nat \ {0} /\ k + 1 = line_no /\ k \in DOMAIN file
    BY <1>1, <1>2, <2>1, SymbolFacts DEF Symbols
  <2>3. /\ r \in RangeItems /\ r.first = file[k].address /\ r.last = low - 1
        /\ r.name = k
    BY <1>2, <2>1, <2>2 DEF Info, RangeItems
  <2>4. NoneAfter(rangeVector, r.first)
    BY <2>1, <2>2, <2>3 DEF SymbolInv
  <2>5. v = InsertRange(rangeVector, r)
    BY <1>4 DEF Ended
  <2> HIDE DEF v, r, k, low
  <2>6. v \in Seq(RangeItems) /\ NoneAfter(v, r.first)
    BY <1>1, <2>3, <2>4, <2>5, InsertFacts
  <2>7. ASSUME NEW n \in Symbols, n >= line_no
        PROVE  NoneAfter(v, file[n].address)
    <3>1. /\ n \in Nat /\ n \in DOMAIN file
          /\ file[k].address \in Nat /\ file[n].address \in Nat
      BY <1>1, <2>1, SymbolFacts DEF Symbols
    <3>2. file[k].address <= file[n].address
      BY <1>1, <2>1, <2>2, <2>7, <3>1, SymbolFacts
    <3>3. \A i \in DOMAIN v : v[i].first \in Nat
      <4>1. \A i \in DOMAIN v : v[i] \in RangeItems
        BY <2>6
      <4> QED BY <4>1 DEF RangeItems
    <3> QED BY <2>3, <2>6, <3>1, <3>2, <3>3 DEF NoneAfter
  <2>8. ASSUME ~ Misread
        PROVE  Named(v, {n \in Symbols : n < line_no})
    <3>1. Named(rangeVector, Complete)
      BY <2>8 DEF SymbolInv
    <3>2. \A a \in Addresses : InRange(r, a) <=> Covers(r.name, a)
      BY <1>2, <2>1, <2>2, <2>3, MaxAddressAssumption
         DEF InRange, Covers, Addresses
    <3>3. Complete \in SUBSET (Nat \ {0}) /\ \A m \in Complete : m < r.name
      BY <1>1, <2>1, <2>3, SymbolFacts DEF Complete
    <3>4. Named(v, Complete \union {r.name})
      BY <1>1, <2>3, <2>4, <2>5, <3>1, <3>2, <3>3, NamedGrows
    <3>5. Complete \union {r.name} = {n \in Symbols : n < line_no}
      <4>1. Symbols \in SUBSET Nat
        BY <1>1, SymbolFacts
      <4>2. \A n \in Symbols : n < line_no <=> n < k \/ n = k
        <5> SUFFICES ASSUME NEW n \in Symbols
                     PROVE  n < line_no <=> (n < k \/ n = k)
          OBVIOUS
        <5>1. n \in Nat
          BY <4>1
        <5> QED BY <1>2, <2>2, <5>1
      <4> QED BY <2>1, <2>3, <4>2 DEF Complete
    <3> QED BY <3>4, <3>5
  <2> QED BY <2>6, <2>7, <2>8 DEF v, low
<1> QED BY <1>1, <1>3, <1>4

(* Nothing changes the file.                                               *)
LEMMA SameFile ==
  ASSUME file' = file
  PROVE  /\ Symbols' = Symbols
         /\ Misread' = Misread
         /\ \A v, lines : Named(v, lines)' <=> Named(v, lines)
BY DEF Symbols, Misread, Named, Covers

LEMMA SymbolInvStep ==
  ASSUME SymbolInv, LoadStep
  PROVE  SymbolInv'
<1>1. /\ IsOutput(file) /\ rangeVector \in Seq(RangeItems) /\ waiting \in BOOLEAN
      /\ line_no \in 1 .. Len(file) /\ line_no \in DOMAIN file
      /\ Len(file) \in Nat
  BY SymbolFacts DEF SymbolInv, LoadStep, SkipLine, ReadSized, ReadSizeless
<1>2. file' = file /\ line_no' = line_no + 1 /\ line_no' \in 1 .. Len(file') + 1
  BY <1>1 DEF LoadStep, SkipLine, ReadSized, ReadSizeless
<1>3. IsOutput(file')
  BY <1>1, <1>2
<1>4. Symbols' = Symbols /\ Misread' = Misread
  BY <1>2, SameFile
<1>5. CASE SkipLine
  <2>1. line_no \notin Symbols
    BY <1>5 DEF SkipLine, Symbols, Line
  <2>2. ~ waiting
    <3> SUFFICES ASSUME waiting PROVE FALSE
      OBVIOUS
    <3>1. line_no - 1 \in Symbols
      BY DEF SymbolInv
    <3> QED BY <1>1, <2>1, <3>1, SymbolFacts
  <2>3. waiting' = waiting /\ rangeVector' = rangeVector /\ functionInfo' = functionInfo
    BY <1>5 DEF SkipLine
  <2>4. FirstOpen = line_no /\ FirstOpen' = line_no + 1
    BY <1>2, <2>2, <2>3 DEF FirstOpen
  <2>5. Symbols \in SUBSET Nat
    BY <1>1, SymbolFacts
  <2>6. \A n \in Symbols : n < line_no + 1 <=> n < line_no
    BY <1>1, <2>1, <2>5
  <2>7. Complete' = Complete
    BY <1>4, <2>4, <2>6 DEF Complete
  <2>8. \A n \in Symbols : n >= FirstOpen' => n >= FirstOpen
    BY <1>1, <2>4, <2>5
  <2>9. (~ Misread => Named(rangeVector, Complete))'
    <3>1. ~ Misread => Named(rangeVector, Complete)
      BY DEF SymbolInv
    <3> QED BY <1>2, <1>4, <2>3, <2>7, <3>1 DEF Named, Covers
  <2>10. (\A n \in Symbols : n >= FirstOpen => NoneAfter(rangeVector, file[n].address))'
    BY <1>2, <1>4, <2>3, <2>8 DEF SymbolInv, NoneAfter
  <2> QED BY <1>1, <1>2, <1>3, <2>2, <2>3, <2>9, <2>10 DEF SymbolInv
<1>6. ASSUME ReadSized \/ ReadSizeless
      PROVE  /\ line_no \in Symbols
             /\ Ended(Line.address) \in Seq(RangeItems)
             /\ \A n \in Symbols : n >= line_no
                  => NoneAfter(Ended(Line.address), file[n].address)
             /\ ~ Misread => Named(Ended(Line.address), {n \in Symbols : n < line_no})
             /\ Line = file[line_no] /\ Line \in Lines /\ Line.address \in Nat \ {0}
  <2>1. line_no \in Symbols
    BY <1>1, <1>6 DEF ReadSized, ReadSizeless, Symbols, Line
  <2> QED BY <1>1, <2>1, EndedFacts, SymbolFacts DEF Line
<1>7. CASE ReadSized
  <2> DEFINE low == Line.address
             r   == Info(low, low + UnitCount(Line) - 1, line_no)
             v   == Ended(low)
             before == {n \in Symbols : n < line_no}
  <2>1. /\ waiting' = FALSE
        /\ rangeVector' = InsertRange(v, r)
        /\ UnitCount(Line) \in Nat
    <3>1. UnitCount(Line) \in Nat
      <4>1. UnitCount(Line) # Absent
        BY <1>7 DEF ReadSized
      <4>2. Line.size \in Nat \union {Absent}
        BY <1>6, <1>7 DEF Lines
      <4>3. \A t \in DOMAIN HexValue : HexValue[t] \in Nat
        BY DEF HexValue
      <4> QED BY <4>1, <4>2, <4>3 DEF UnitCount
    <3> QED BY <1>7, <3>1 DEF ReadSized
  <2>2. FirstOpen' = line_no + 1
    BY <1>2, <2>1 DEF FirstOpen
  <2>3. /\ r \in RangeItems /\ r.first = file[line_no].address /\ r.name = line_no
        /\ r.last = low + UnitCount(Line) - 1
    BY <1>1, <1>6, <1>7, <2>1 DEF Info, RangeItems
  <2>4. Symbols \in SUBSET (Nat \ {0}) /\ line_no \in Symbols
    BY <1>1, <1>6, <1>7, SymbolFacts
  <2>5. v \in Seq(RangeItems) /\ NoneAfter(v, r.first)
    BY <1>1, <1>6, <1>7, <2>3, <2>4
  <2>6. ~ Misread => Named(v, before)
    BY <1>6, <1>7
  <2> HIDE DEF v, r
  <2>7. rangeVector' \in Seq(RangeItems) /\ NoneAfter(rangeVector', r.first)
    BY <2>1, <2>3, <2>5, InsertFacts
  <2>8. ASSUME NEW n \in Symbols, n >= line_no + 1
        PROVE  NoneAfter(rangeVector', file[n].address)
    <3>1. /\ n \in DOMAIN file /\ file[n].address \in Nat /\ n \in Nat
          /\ file[line_no].address \in Nat
      BY <1>1, <2>4, SymbolFacts DEF Symbols
    <3>2. file[line_no].address <= file[n].address
      BY <1>1, <2>4, <2>8, <3>1, SymbolFacts
    <3> DEFINE w == rangeVector'
    <3>3. w \in Seq(RangeItems) /\ NoneAfter(w, r.first)
      BY <2>7
    <3> HIDE DEF w
    <3>4. \A i \in DOMAIN w : w[i].first \in Nat
      <4>1. \A i \in DOMAIN w : w[i] \in RangeItems
        BY <3>3
      <4> QED BY <4>1 DEF RangeItems
    <3>5. NoneAfter(w, file[n].address)
      BY <2>3, <3>1, <3>2, <3>3, <3>4 DEF NoneAfter
    <3> QED BY <3>5 DEF w
  <2>9. ASSUME ~ Misread
        PROVE  Named(rangeVector', before \union {line_no})
    <3>1. UnitCount(Line) = file[line_no].size /\ file[line_no].size # Absent
      BY <1>1, <1>6, <1>7, <2>4, <2>9 DEF Misread, UnitCount, Lines, HexValue, ReadSized, Types
    <3>2. \A a \in Addresses : InRange(r, a) <=> Covers(r.name, a)
      BY <1>6, <1>7, <2>1, <2>3, <3>1, MaxAddressAssumption
         DEF InRange, Covers, Addresses
    <3>3. before \in SUBSET (Nat \ {0}) /\ \A m \in before : m < r.name
      BY <2>3, <2>4
    <3>4. Named(v, before)
      BY <2>6, <2>9
    <3> HIDE DEF before
    <3>5. Named(InsertRange(v, r), before \union {r.name})
      BY <2>3, <2>5, <3>2, <3>3, <3>4, NamedGrows
    <3> QED BY <2>1, <2>3, <3>5
  <2>10. Complete' = before \union {line_no}
    <3>1. \A n \in Symbols : n < line_no + 1 <=> n < line_no \/ n = line_no
      BY <2>4
    <3> QED BY <1>4, <2>2, <2>4, <3>1 DEF Complete
  <2>11. (~ Misread => Named(rangeVector, Complete))'
    BY <1>2, <1>4, <2>9, <2>10 DEF Named, Covers
  <2>12. (\A n \in Symbols : n >= FirstOpen => NoneAfter(rangeVector, file[n].address))'
    BY <1>2, <1>4, <2>2, <2>8 DEF NoneAfter
  <2> QED BY <1>2, <1>3, <2>1, <2>7, <2>11, <2>12 DEF SymbolInv
<1>8. CASE ReadSizeless
  <2> DEFINE v == Ended(Line.address)
  <2>1. /\ waiting' = TRUE
        /\ rangeVector' = v
        /\ functionInfo'.name = line_no /\ functionInfo'.first = file[line_no].address
        /\ UnitCount(Line) = Absent
    BY <1>6, <1>8 DEF ReadSizeless, Info
  <2>2. line_no' - 1 = line_no /\ FirstOpen' = line_no
    BY <1>1, <1>2, <2>1 DEF FirstOpen
  <2>3. file[line_no].size = Absent
    BY <1>6, <1>8, <2>1 DEF UnitCount
  <2>4. Complete' = {n \in Symbols : n < line_no}
    BY <1>4, <2>2 DEF Complete
  <2>5. (~ Misread => Named(rangeVector, Complete))'
    BY <1>2, <1>4, <1>6, <1>8, <2>1, <2>4 DEF Named, Covers
  <2>6. (\A n \in Symbols : n >= FirstOpen => NoneAfter(rangeVector, file[n].address))'
    BY <1>2, <1>4, <1>6, <1>8, <2>1, <2>2 DEF NoneAfter
  <2> QED BY <1>2, <1>3, <1>4, <1>6, <1>8, <2>1, <2>2, <2>3, <2>5, <2>6 DEF SymbolInv
<1> QED BY <1>5, <1>7, <1>8 DEF LoadStep

LEMMA SymbolInvStutter ==
  ASSUME SymbolInv, UNCHANGED symbolVars
  PROVE  SymbolInv'
<1>1. /\ file' = file /\ line_no' = line_no /\ waiting' = waiting
      /\ functionInfo' = functionInfo /\ rangeVector' = rangeVector
  BY DEF symbolVars
<1> QED BY <1>1 DEF SymbolInv, Misread, Named, Covers, Complete, FirstOpen, Symbols,
              NoneAfter, IsFirst

(* When all lines are read, the last symbol may still wait: it covers none.*)
LEMMA SymbolInvNames ==
  ASSUME SymbolInv
  PROVE  NamedByFirstCover
<1> SUFFICES ASSUME Loaded, ~ Misread, NEW a \in Addresses
             PROVE  LET covering == {n \in Symbols : Covers(n, a)} IN
                    StringForAddress(a) = IF covering = {} THEN 0 ELSE Min(covering)
  BY DEF NamedByFirstCover
<1> DEFINE covering == {n \in Symbols : Covers(n, a)}
<1>1. IsOutput(file) /\ line_no = Len(file) + 1 /\ Len(file) \in Nat
  BY SymbolFacts DEF SymbolInv, Loaded
<1>2. IsFirst(FindRange(rangeVector, a), {n \in Complete : Covers(n, a)})
  BY DEF SymbolInv, Named
<1>3. ASSUME NEW n \in Symbols, Covers(n, a) PROVE n \in Complete
  <2>1. n \in 1 .. Len(file)
    BY <1>1, SymbolFacts DEF Symbols
  <2>2. CASE ~ waiting
    BY <1>1, <2>1, <2>2 DEF Complete, FirstOpen
  <2>3. CASE waiting
    <3>1. FirstOpen = Len(file) /\ file[Len(file)].size = Absent
      BY <1>1, <2>3 DEF SymbolInv, FirstOpen
    <3>2. Len(file) + 1 \notin Symbols
      BY <1>1, SymbolFacts DEF Symbols
    <3>3. n # Len(file)
      BY <1>3, <3>1, <3>2 DEF Covers
    <3> QED BY <2>1, <3>1, <3>3 DEF Complete
  <2> QED BY <2>2, <2>3
<1>4. {n \in Complete : Covers(n, a)} = covering
  BY <1>3 DEF Complete
<1>5. covering \in SUBSET Nat
  BY <1>1, SymbolFacts
<1> HIDE DEF covering
<1>6. covering # {} => /\ Min(covering) \in covering
                       /\ \A m \in covering : Min(covering) <= m
  BY <1>5, Least
<1>7. FindRange(rangeVector, a) = IF covering = {} THEN 0 ELSE Min(covering)
  <2>1. CASE covering = {}
    BY <1>2, <1>4, <2>1 DEF IsFirst
  <2>2. CASE covering # {}
    <3> DEFINE x == FindRange(rangeVector, a)
               y == Min(covering)
    <3>1. x \in covering /\ \A m \in covering : x <= m
      BY <1>2, <1>4, <2>2 DEF IsFirst
    <3>2. y \in covering /\ y <= x /\ x <= y /\ x \in Nat /\ y \in Nat
      BY <1>5, <1>6, <2>2, <3>1
    <3> HIDE DEF x, y
    <3>3. x = y
      BY <3>2
    <3> QED BY <2>2, <3>3 DEF x, y
  <2> QED BY <2>1, <2>2
<1> QED BY <1>7 DEF StringForAddress, covering

-----------------------------------------------------------------------------
(* AddRange of the Java dumper, for ranges that come in the order of their *)
(* first address.                                                          *)

(* No two ranges share an address.                                         *)
Disjoint(v) ==
  \A i, j \in DOMAIN v : i # j => \A a \in Int : ~ (InRange(v[i], a) /\ InRange(v[j], a))

(* What is in the new vector was in the old one, or is the new range.      *)
LEMMA AddRangeIs ==
  ASSUME NEW v \in Seq(RangeItems), NEW r \in RangeItems, NoneAfter(v, r.first)
  PROVE  \/ Rejected(v, r) /\ AddRange(v, r) = v
         \/ ~ Rejected(v, r) /\ AddRange(v, r) = Append(v, r)
         \/ /\ ~ Rejected(v, r) /\ r.last < r.first
            /\ \E k \in DOMAIN v : AddRange(v, r) = InsertAt(v, k, r)
<1> DEFINE after == {i \in DOMAIN v : r.last < v[i].first}
           k     == Min(after)
<1>1. AddRange(v, r) = IF Rejected(v, r) THEN v
                       ELSE IF after = {} THEN Append(v, r) ELSE InsertAt(v, k, r)
  BY DEF AddRange
<1>2. CASE Rejected(v, r) \/ after = {}
  <2> HIDE DEF after, k
  <2> QED BY <1>1, <1>2
<1>3. CASE ~ Rejected(v, r) /\ after # {}
  <2>1. after \in SUBSET Nat
    OBVIOUS
  <2>2. k \in after
    <3> HIDE DEF after
    <3> QED BY <1>3, <2>1, Least
  <2>3. k \in DOMAIN v /\ r.last < v[k].first
    BY <2>2
  <2>4. AddRange(v, r) = InsertAt(v, k, r)
    <3> HIDE DEF after, k
    <3> QED BY <1>1, <1>3
  <2> HIDE DEF k
  <2>5. v[k] \in RangeItems
    BY <2>3
  <2>6. r.last < r.first
    BY <2>3, <2>5 DEF NoneAfter, RangeItems
  <2> QED BY <1>3, <2>3, <2>4, <2>6
<1> QED BY <1>2, <1>3

LEMMA AppendFacts ==
  ASSUME NEW T, NEW v \in Seq(T), NEW r \in T
  PROVE  /\ Append(v, r) \in Seq(T)
         /\ DOMAIN v \subseteq Nat
         /\ DOMAIN Append(v, r) = DOMAIN v \union {Len(v) + 1}
         /\ Len(v) + 1 \in Nat \ DOMAIN v
         /\ \A i \in DOMAIN v : v[i] \in T /\ Append(v, r)[i] = v[i]
         /\ Append(v, r)[Len(v) + 1] = r
OBVIOUS

(* A range that is not rejected shares no address with an older one that   *)
(* begins before it, since it would share its first.                       *)
LEMMA AddFacts ==
  ASSUME NEW v \in Seq(RangeItems), NEW r \in RangeItems, NoneAfter(v, r.first)
  PROVE  /\ AddRange(v, r) \in Seq(RangeItems)
         /\ \A i \in DOMAIN AddRange(v, r) :
              \/ AddRange(v, r)[i] = r
              \/ \E j \in DOMAIN v : AddRange(v, r)[i] = v[j]
         /\ \A a \in Int :
              FindRange(AddRange(v, r), a) =
                IF FindRange(v, a) # 0 THEN FindRange(v, a)
                ELSE IF ~ Rejected(v, r) /\ InRange(r, a) THEN r.name ELSE 0
         /\ Disjoint(v) => Disjoint(AddRange(v, r))
<1>0. r.first \in Nat /\ r.last \in Int
  BY DEF RangeItems
<1>1. CASE Rejected(v, r) /\ AddRange(v, r) = v
  BY <1>1
<1>2. CASE ~ Rejected(v, r) /\ AddRange(v, r) = Append(v, r)
  <2> DEFINE w == Append(v, r)
             n == Len(v) + 1
  <2>1. /\ w \in Seq(RangeItems) /\ DOMAIN v \subseteq Nat
        /\ DOMAIN w = DOMAIN v \union {n} /\ n \notin DOMAIN v
        /\ \A i \in DOMAIN v : v[i] \in RangeItems /\ w[i] = v[i]
        /\ w[n] = r
    BY AppendFacts
  <2>2. \A a \in Int : FindRange(w, a) = IF FindRange(v, a) # 0 THEN FindRange(v, a)
                                         ELSE IF InRange(r, a) THEN r.name ELSE 0
    BY FindAppended
  <2> HIDE DEF w, n
  <2>3. ASSUME NEW i \in DOMAIN v, NEW a \in Int, InRange(v[i], a), InRange(r, a)
        PROVE  FALSE
    <3>1. v[i].first \in Nat /\ v[i].last \in Int /\ v[i].first <= r.first
      BY <2>1 DEF RangeItems, NoneAfter
    <3>2. InRange(v[i], r.first)
      BY <1>0, <2>3, <3>1 DEF InRange
    <3>3. v[i] \in Range(v)
      BY DEF Range
    <3> QED BY <1>2, <3>2, <3>3 DEF Rejected, InSome
  <2>4. ASSUME Disjoint(v)
        PROVE  Disjoint(w)
    <3> SUFFICES ASSUME NEW i \in DOMAIN w, NEW j \in DOMAIN w, i # j, NEW a \in Int,
                        InRange(w[i], a), InRange(w[j], a)
                 PROVE  FALSE
      BY DEF Disjoint
    <3>1. CASE i \in DOMAIN v /\ j \in DOMAIN v
      BY <2>1, <2>4, <3>1 DEF Disjoint
    <3>2. CASE i \in DOMAIN v /\ j = n
      BY <2>1, <2>3, <3>2
    <3>3. CASE i = n /\ j \in DOMAIN v
      BY <2>1, <2>3, <3>3
    <3> QED BY <2>1, <3>1, <3>2, <3>3
  <2> QED BY <1>2, <2>1, <2>2, <2>4 DEF w
<1>3. CASE /\ ~ Rejected(v, r) /\ r.last < r.first
           /\ \E k \in DOMAIN v : AddRange(v, r) = InsertAt(v, k, r)
  <2>1. PICK k \in DOMAIN v : AddRange(v, r) = InsertAt(v, k, r)
    BY <1>3
  <2> DEFINE w == InsertAt(v, k, r)
             old(i) == IF i < k THEN i ELSE i - 1
  <2>2. /\ w \in Seq(RangeItems)
        /\ Len(w) = Len(v) + 1
        /\ \A i \in 1 .. Len(v) + 1 :
             w[i] = IF i < k THEN v[i] ELSE IF i = k THEN r ELSE v[i - 1]
    BY InsertAtFacts
  <2>3. \A a \in Int : ~ InRange(r, a)
    BY <1>0, <1>3 DEF InRange
  <2>4. \A a \in Int : FindRange(w, a) = FindRange(v, a)
    BY <2>3, FindInsertedAt
  <2>5. Len(v) \in Nat /\ DOMAIN v = 1 .. Len(v) /\ k \in 1 .. Len(v)
    OBVIOUS
  <2> HIDE DEF w
  <2>6. DOMAIN w = 1 .. Len(v) + 1
    BY <2>2, <2>5
  <2>7. \A i \in DOMAIN w : i = k \/ (old(i) \in DOMAIN v /\ w[i] = v[old(i)])
    BY <2>2, <2>5, <2>6
  <2>8. \A i, j \in DOMAIN w : i # k /\ j # k /\ i # j => old(i) # old(j)
    BY <2>5, <2>6
  <2>9. w[k] = r
    BY <2>2, <2>5
  <2> HIDE DEF old
  <2>10. ASSUME Disjoint(v)
         PROVE  Disjoint(w)
    <3> SUFFICES ASSUME NEW i \in DOMAIN w, NEW j \in DOMAIN w, i # j, NEW a \in Int,
                        InRange(w[i], a), InRange(w[j], a)
                 PROVE  FALSE
      BY DEF Disjoint
    <3>1. i # k /\ j # k
      BY <2>3, <2>9
    <3> QED BY <2>7, <2>8, <2>10, <3>1 DEF Disjoint
  <2>11. \A i \in DOMAIN w : w[i] = r \/ \E j \in DOMAIN v : w[i] = v[j]
    BY <2>7, <2>9
  <2>12. \A a \in Int : FindRange(w, a) =
                          IF FindRange(v, a) # 0 THEN FindRange(v, a)
                          ELSE IF ~ Rejected(v, r) /\ InRange(r, a) THEN r.name ELSE 0
    BY <2>3, <2>4
  <2>13. AddRange(v, r) = w
    BY <2>1 DEF w
  <2> QED BY <2>2, <2>10, <2>11, <2>12, <2>13
<1> QED BY <1>1, <1>2, <1>3, AddRangeIs

-----------------------------------------------------------------------------
(* The ranges of the Java dumper.                                          *)

(* The lines that the Java dumper takes.                                   *)
Taken == {n \in DOMAIN file : Matches(file[n]) /\ Parses(file[n])}

(* The end of a range is the last address of its function, or negative.    *)
(* Written as a number without sign, it is that address again, unless the  *)
(* function is without size and at 0.                                      *)
LEMMA TakenFacts ==
  ASSUME IsOutput(file), NEW n \in Taken
  PROVE  LET first == file[n].address
             size  == file[n].size
             end   == EndAddress(file[n])
         IN /\ n \in Nat \ {0} /\ first \in Nat /\ size \in Nat /\ end \in Int
            /\ first # Absent /\ size # Absent
            /\ first + size <= MaxAddress + 1
            /\ end >= 0 => end = first + size - 1
            /\ first + size > 0 => Unsigned(end) = first + size - 1
            /\ Unsigned(end) \in Int
            /\ first + size = 0 => EmptyAtZero
<1> DEFINE first == file[n].address
           size  == file[n].size
           end   == EndAddress(file[n])
<1>1. /\ n \in Nat \ {0} /\ n \in DOMAIN file /\ file[n] \in Lines
      /\ Matches(file[n]) /\ Parses(file[n])
  BY SymbolFacts DEF Taken
<1>2. /\ first # Absent /\ size # Absent /\ first <= IntMax /\ size <= IntMax
  BY <1>1 DEF Matches, Parses
<1>3. first \in Nat /\ size \in Nat
  BY <1>1, <1>2, MaxAddressAssumption DEF Lines, Addresses
<1>4. first + size <= MaxAddress + 1
  BY <1>1, <1>2 DEF IsOutput
<1>5. end = ToInt(first + size - 1)
  BY DEF EndAddress
<1>6. first + size = 0 => EmptyAtZero
  <2>1. first + size = 0 => first = 0 /\ size = 0
    <3> HIDE DEF first, size
    <3> QED BY <1>3
  <2> QED BY <1>1, <2>1 DEF EmptyAtZero
<1> HIDE DEF first, size, end
<1> DEFINE true == first + size - 1
<1>7. true \in Int /\ true >= -1 /\ true <= 2 * IntMax - 1
      /\ (first + size > 0 => true >= 0)
  BY <1>2, <1>3, IntMaxAssumption
<1>8. first + size - 1 = true
  OBVIOUS
<1> HIDE DEF true
<1>9. /\ end \in Int
      /\ end >= 0 => end = true
      /\ true >= 0 => Unsigned(end) = true
      /\ Unsigned(end) \in Int
  BY <1>5, <1>7, <1>8, IntMaxAssumption DEF ToInt, Unsigned
<1> QED BY <1>1, <1>2, <1>3, <1>4, <1>6, <1>7, <1>8, <1>9 DEF first, size, end

(* The lines are in the order of their addresses.                          *)
LEMMA TakenInOrder ==
  ASSUME IsOutput(file), NEW m \in Taken, NEW n \in DOMAIN file, m <= n,
         file[n].address # Absent
  PROVE  file[m].address <= file[n].address
<1>1. file[m].address \in Nat /\ file[m].address # Absent /\ m \in Nat /\ n \in Nat
      /\ m \in DOMAIN file
  BY TakenFacts, SymbolFacts DEF Taken
<1>2. CASE m = n
  BY <1>1, <1>2
<1>3. CASE m < n
  BY <1>1, <1>3 DEF IsOutput
<1> QED BY <1>1, <1>2, <1>3

(* The range that the Java dumper makes of a line.                         *)
JavaRange(n) == Info(file[n].address, EndAddress(file[n]), n)

LEMMA JavaRangeFacts ==
  ASSUME IsOutput(file), NEW n \in Taken
  PROVE  /\ JavaRange(n) \in RangeItems
         /\ JavaRange(n).first = file[n].address
         /\ JavaRange(n).name = n
         /\ \A a \in Int : InRange(JavaRange(n), a)
                             => /\ file[n].address <= a
                                /\ a < file[n].address + file[n].size
                                /\ a \in Addresses
                                /\ Covers(n, a)
         /\ EndAddress(file[n]) >= 0 =>
              \A a \in Int : Covers(n, a) => InRange(JavaRange(n), a)
<1> DEFINE first == file[n].address
           size  == file[n].size
           end   == EndAddress(file[n])
<1>1. /\ n \in Nat \ {0} /\ first \in Nat /\ size \in Nat /\ end \in Int
      /\ first # Absent /\ size # Absent
      /\ first + size <= MaxAddress + 1
      /\ end >= 0 => end = first + size - 1
  BY TakenFacts
<1>2. /\ JavaRange(n) \in RangeItems
      /\ JavaRange(n).first = first /\ JavaRange(n).last = end
      /\ JavaRange(n).name = n
  BY <1>1 DEF JavaRange, Info, RangeItems
<1>3. \A a \in Int : Covers(n, a) <=> first <= a /\ a < first + size
  BY <1>1 DEF Covers
<1> HIDE DEF first, size, end
<1>4. ASSUME NEW a \in Int, InRange(JavaRange(n), a)
      PROVE  first <= a /\ a < first + size /\ a \in Addresses
  <2>1. first <= a /\ a <= end
    BY <1>2, <1>4 DEF InRange
  <2>2. end >= 0 /\ end = first + size - 1
    BY <1>1, <2>1
  <2> QED BY <1>1, <2>1, <2>2, MaxAddressAssumption DEF Addresses
<1>5. ASSUME end >= 0, NEW a \in Int, Covers(n, a)
      PROVE  InRange(JavaRange(n), a)
  BY <1>1, <1>2, <1>3, <1>5 DEF InRange
<1> QED BY <1>2, <1>3, <1>4, <1>5 DEF first, size, end

(* The invariant of the Java dumper's list.                                *)
JavaInv ==
  /\ IsOutput(file)
  /\ java_line \in 1 .. Len(file) + 1
  /\ rangeList \in Seq(RangeItems)
  /\ \A i \in DOMAIN rangeList :
       \E n \in Taken : n < java_line /\ rangeList[i] = JavaRange(n)
  /\ Disjoint(rangeList)
  /\ \A n \in Distinct :
       (n < java_line /\ EndAddress(file[n]) >= 0) =>
         \A a \in Addresses : Covers(n, a) => FindRange(rangeList, a) = n

(* A function that shares no address is not rejected.                      *)
LEMMA NotRejected ==
  ASSUME JavaInv, java_line \in Distinct, EndAddress(file[java_line]) >= 0,
         NEW a \in Addresses, Covers(java_line, a)
  PROVE  /\ ~ Rejected(rangeList, JavaRange(java_line))
         /\ FindRange(rangeList, a) = 0
<1> DEFINE n == java_line
<1>1. /\ IsOutput(file) /\ n \in Taken /\ n \in Symbols /\ n \in Nat
      /\ rangeList \in Seq(RangeItems)
  BY SymbolFacts DEF JavaInv, Distinct, Taken, Symbols
<1>2. \A m \in DOMAIN file \ {n} :
        file[m].address # Absent => \A b \in Addresses : ~ (Covers(n, b) /\ Covers(m, b))
  BY DEF Distinct
<1>3. ASSUME NEW i \in DOMAIN rangeList, NEW b \in Int, InRange(rangeList[i], b)
      PROVE  ~ Covers(n, b)
  <2>1. PICK m \in Taken : m < n /\ rangeList[i] = JavaRange(m)
    BY DEF JavaInv
  <2>2. b \in Addresses /\ Covers(m, b)
    BY <1>1, <1>3, <2>1, JavaRangeFacts
  <2>3. m \in DOMAIN file \ {n} /\ file[m].address # Absent
    BY <1>1, <2>1, TakenFacts DEF Taken
  <2> QED BY <1>2, <2>2, <2>3
<1>4. /\ file[n].address \in Nat /\ file[n].size \in Nat /\ file[n].size # Absent
      /\ EndAddress(file[n]) = file[n].address + file[n].size - 1
  BY <1>1, TakenFacts
<1>5. /\ JavaRange(n).first = file[n].address
      /\ JavaRange(n).last = file[n].address + file[n].size - 1
  BY <1>4 DEF JavaRange, Info
<1>6. a \in Int
  BY MaxAddressAssumption DEF Addresses
<1>7. Covers(n, JavaRange(n).first) /\ Covers(n, JavaRange(n).last)
  BY <1>4, <1>5, <1>6 DEF Covers
<1>8. ~ Rejected(rangeList, JavaRange(n))
  <2> SUFFICES ASSUME Rejected(rangeList, JavaRange(n))
               PROVE  FALSE
    OBVIOUS
  <2>1. PICK b \in {JavaRange(n).first, JavaRange(n).last} : InSome(rangeList, b)
    BY DEF Rejected
  <2>2. b \in Int /\ Covers(n, b)
    BY <1>4, <1>5, <1>7, <2>1
  <2>3. PICK i \in DOMAIN rangeList : InRange(rangeList[i], b)
    BY <2>1 DEF InSome, Range
  <2> QED BY <1>3, <2>2, <2>3
<1>9. FindRange(rangeList, a) = 0
  <2>1. NotFound(rangeList, a)
    BY <1>3, <1>6 DEF NotFound
  <2> QED BY <2>1, FindNotFound
<1> QED BY <1>8, <1>9

LEMMA SameFileJava ==
  ASSUME file' = file
  PROVE  /\ Symbols' = Symbols /\ Misread' = Misread
         /\ Taken' = Taken /\ Distinct' = Distinct
         /\ EmptyAtZero' = EmptyAtZero
         /\ \A n, a : Covers(n, a)' <=> Covers(n, a)
         /\ \A n : JavaRange(n)' = JavaRange(n)
BY DEF Symbols, Misread, Taken, Distinct, EmptyAtZero, Covers, JavaRange

LEMMA JavaInvInit ==
  ASSUME IsOutput(file), JavaInit
  PROVE  JavaInv
<1>1. rangeList = << >> /\ java_line = 1
  BY DEF JavaInit
<1>2. java_line \in 1 .. Len(file) + 1 /\ \A n \in Distinct : n \in Nat \ {0}
  BY <1>1, SymbolFacts DEF Distinct
<1>3. \A n \in Distinct : ~ (n < java_line)
  BY <1>1, <1>2
<1>4. rangeList \in Seq(RangeItems) /\ DOMAIN rangeList = {}
  BY <1>1
<1>5. Disjoint(rangeList)
  BY <1>4 DEF Disjoint
<1> QED BY <1>2, <1>3, <1>4, <1>5 DEF JavaInv

LEMMA JavaInvStep ==
  ASSUME JavaInv, JavaReadLine, file' = file
  PROVE  JavaInv'
<1> DEFINE n == java_line
           r == JavaRange(n)
           v == rangeList
           w == AddRange(v, r)
<1>1. /\ IsOutput(file) /\ v \in Seq(RangeItems) /\ Len(file) \in Nat
      /\ n \in 1 .. Len(file) /\ n \in DOMAIN file /\ n \in Nat
      /\ Disjoint(v)
  BY SymbolFacts DEF JavaInv, JavaReadLine
<1>2. IsOutput(file') /\ n' = n + 1 /\ n' \in 1 .. Len(file') + 1
  BY <1>1 DEF JavaReadLine
<1>3. /\ Taken' = Taken /\ Distinct' = Distinct
      /\ \A m, a : Covers(m, a)' <=> Covers(m, a)
      /\ \A m : JavaRange(m)' = JavaRange(m)
  BY SameFileJava
<1>4. Taken \subseteq Nat /\ Distinct \subseteq Taken
  BY <1>1, SymbolFacts DEF Taken, Distinct, Symbols
<1>5. \A m \in Nat : m < n' <=> (m < n \/ m = n)
  BY <1>1, <1>2
<1>6. CASE n \notin Taken
  <2>1. rangeList' = rangeList
    BY <1>1, <1>6 DEF JavaReadLine, Taken
  <2>2. (\A i \in DOMAIN rangeList :
           \E m \in Taken : m < java_line /\ rangeList[i] = JavaRange(m))'
    BY <2>1, <1>3, <1>4, <1>5 DEF JavaInv
  <2>3. Disjoint(rangeList')
    BY <1>1, <2>1
  <2>4. ASSUME NEW m \in Distinct, m < n', EndAddress(file[m]) >= 0,
               NEW a \in Addresses, Covers(m, a)
        PROVE  FindRange(rangeList', a) = m
    <3>1. m # n /\ m < n
      BY <1>4, <1>5, <1>6, <2>4
    <3> QED BY <2>1, <2>4, <3>1 DEF JavaInv
  <2>5. (\A m \in Distinct :
           (m < java_line /\ EndAddress(file[m]) >= 0) =>
             \A a \in Addresses : Covers(m, a) => FindRange(rangeList, a) = m)'
    BY <1>3, <2>4
  <2> QED BY <1>1, <1>2, <2>1, <2>2, <2>3, <2>5 DEF JavaInv, Disjoint
<1>7. CASE n \in Taken
  <2>1. rangeList' = w
    BY <1>1, <1>7 DEF JavaReadLine, Taken, JavaRange
  <2>2. r \in RangeItems /\ r.first = file[n].address /\ r.name = n
    BY <1>1, <1>7, JavaRangeFacts
  <2>3. NoneAfter(v, r.first)
    <3> SUFFICES ASSUME NEW i \in DOMAIN v PROVE v[i].first <= r.first
      BY DEF NoneAfter
    <3>1. PICK m \in Taken : m < n /\ v[i] = JavaRange(m)
      BY DEF JavaInv
    <3>2. file[n].address # Absent
      BY <1>1, <1>7, TakenFacts
    <3>3. file[m].address <= file[n].address
      BY <1>1, <1>4, <3>1, <3>2, TakenInOrder
    <3> QED BY <1>1, <2>2, <3>1, <3>3, JavaRangeFacts
  <2> HIDE DEF r
  <2>4. /\ w \in Seq(RangeItems)
        /\ \A i \in DOMAIN w : w[i] = r \/ \E j \in DOMAIN v : w[i] = v[j]
        /\ Disjoint(w)
    BY <1>1, <2>2, <2>3, AddFacts
  <2>5. \A a \in Int :
          FindRange(w, a) = IF FindRange(v, a) # 0 THEN FindRange(v, a)
                            ELSE IF ~ Rejected(v, r) /\ InRange(r, a) THEN r.name ELSE 0
    BY <1>1, <2>2, <2>3, AddFacts
  <2> HIDE DEF w
  <2>6. \A i \in DOMAIN w : \E m \in Taken : m < n' /\ w[i] = JavaRange(m)
    <3> TAKE i \in DOMAIN w
    <3>1. CASE w[i] = r
      BY <1>1, <1>5, <1>7, <3>1 DEF r
    <3>2. CASE \E j \in DOMAIN v : w[i] = v[j]
      <4>1. PICK j \in DOMAIN v : w[i] = v[j]
        BY <3>2
      <4>2. PICK m \in Taken : m < n /\ v[j] = JavaRange(m)
        BY DEF JavaInv
      <4> QED BY <1>4, <1>5, <4>1, <4>2
    <3> QED BY <2>4, <3>1, <3>2
  <2>7. (\A i \in DOMAIN rangeList :
           \E m \in Taken : m < java_line /\ rangeList[i] = JavaRange(m))'
    BY <2>1, <2>6, <1>3
  <2>8. ASSUME NEW m \in Distinct, m < n', EndAddress(file[m]) >= 0,
               NEW a \in Addresses, Covers(m, a)
        PROVE  FindRange(w, a) = m
    <3>0. a \in Int
      BY MaxAddressAssumption DEF Addresses
    <3>1. CASE m < n
      <4>1. FindRange(v, a) = m
        BY <2>8, <3>1 DEF JavaInv
      <4>2. m # 0
        BY <1>1, <1>4, TakenFacts
      <4> QED BY <2>5, <3>0, <4>1, <4>2
    <3>2. CASE m = n
      <4>1. ~ Rejected(v, r) /\ FindRange(v, a) = 0
        BY <2>8, <3>2, NotRejected DEF r
      <4>2. InRange(r, a)
        BY <1>1, <1>7, <2>8, <3>0, <3>2, JavaRangeFacts DEF r
      <4> QED BY <2>2, <2>5, <3>0, <3>2, <4>1, <4>2
    <3> QED BY <1>4, <1>5, <2>8, <3>1, <3>2
  <2>9. (\A m \in Distinct :
           (m < java_line /\ EndAddress(file[m]) >= 0) =>
             \A a \in Addresses : Covers(m, a) => FindRange(rangeList, a) = m)'
    BY <1>3, <2>1, <2>8
  <2>10. Disjoint(rangeList)'
    BY <2>1, <2>4 DEF Disjoint, InRange
  <2> QED BY <1>2, <2>1, <2>4, <2>7, <2>9, <2>10 DEF JavaInv
<1> QED BY <1>6, <1>7

(* Steps that leave the Java dumper's list alone.                          *)
LEMMA JavaInvStutter ==
  ASSUME JavaInv, file' = file, UNCHANGED <<java_line, rangeList>>
  PROVE  JavaInv'
BY SameFileJava DEF JavaInv, Disjoint

LEMMA JavaInvDisjoint ==
  ASSUME JavaInv
  PROVE  RangesDisjoint
<1>1. Addresses \subseteq Int
  BY MaxAddressAssumption DEF Addresses
<1> QED BY <1>1 DEF JavaInv, Disjoint, RangesDisjoint

(* What it names belongs to the function it names.                         *)
LEMMA JavaInvNames ==
  ASSUME JavaInv, NEW a \in Addresses, FindRange(rangeList, a) # 0
  PROVE  Covers(FindRange(rangeList, a), a)
<1>1. a \in Int /\ rangeList \in Seq(RangeItems) /\ IsOutput(file)
  BY MaxAddressAssumption DEF Addresses, JavaInv
<1>2. PICK i \in DOMAIN rangeList :
        FoundAt(rangeList, a, i) /\ FindRange(rangeList, a) = rangeList[i].name
  BY <1>1, FindFacts
<1>3. PICK n \in Taken : n < java_line /\ rangeList[i] = JavaRange(n)
  BY DEF JavaInv
<1> QED BY <1>1, <1>2, <1>3, JavaRangeFacts DEF FoundAt

-----------------------------------------------------------------------------
(* The file of the Java dumper, and what cift-dump's parser makes of it.   *)

(* What the Java dumper writes of a line.                                  *)
Written(n) == Info(file[n].address, Unsigned(EndAddress(file[n])), n)

LEMMA WrittenFacts ==
  ASSUME IsOutput(file), NEW n \in Taken
  PROVE  /\ Written(n) \in RangeItems
         /\ Written(n).first = file[n].address
         /\ Written(n).name = n
         /\ ~ EmptyAtZero =>
              \A a \in Addresses : InRange(Written(n), a) <=> Covers(n, a)
<1> DEFINE first == file[n].address
           size  == file[n].size
           end   == Unsigned(EndAddress(file[n]))
<1>1. /\ n \in Nat \ {0} /\ first \in Nat /\ size \in Nat /\ end \in Int
      /\ first # Absent /\ size # Absent
      /\ first + size > 0 => end = first + size - 1
      /\ first + size = 0 => EmptyAtZero
  BY TakenFacts
<1>2. /\ Written(n) \in RangeItems
      /\ Written(n).first = first /\ Written(n).last = end
      /\ Written(n).name = n
  BY <1>1 DEF Written, Info, RangeItems
<1>3. \A a : Covers(n, a) <=> first <= a /\ a < first + size
  BY <1>1 DEF Covers
<1> HIDE DEF first, size, end
<1>4. ASSUME ~ EmptyAtZero, NEW a \in Addresses
      PROVE  InRange(Written(n), a) <=> Covers(n, a)
  <2>1. a \in Int
    BY MaxAddressAssumption DEF Addresses
  <2>2. end = first + size - 1
    BY <1>1, <1>4
  <2> QED BY <1>1, <1>2, <1>3, <2>1, <2>2 DEF InRange
<1> QED BY <1>2, <1>4 DEF first

(* The lines that the parser has read.                                     *)
ReadBack == {outFile[i].name : i \in 1 .. out_line - 1}

(* The invariant of the file and its parser.                               *)
OutInv ==
  /\ outFile \in Seq(RangeItems)
  /\ out_line \in 1 .. Len(outFile) + 1
  /\ out_line > 1 => JavaLoaded
  /\ \A i \in DOMAIN outFile :
       \E n \in Taken : n < java_line /\ outFile[i] = Written(n)
  /\ \A i, j \in DOMAIN outFile : i < j => outFile[i].name < outFile[j].name
  /\ \A n \in Taken : n < java_line => \E i \in DOMAIN outFile : outFile[i].name = n
  /\ outVector \in Seq(RangeItems)
  /\ out_line = 1 => outVector = << >>
  /\ \A i \in DOMAIN outFile : i >= out_line => NoneAfter(outVector, outFile[i].first)
  /\ ~ EmptyAtZero => Named(outVector, ReadBack)

LEMMA OutInvInit ==
  ASSUME IsOutput(file), JavaInit
  PROVE  OutInv
<1>1. outFile = << >> /\ java_line = 1 /\ out_line = 1 /\ outVector = << >>
  BY DEF JavaInit
<1>2. ReadBack = {}
  BY <1>1 DEF ReadBack
<1>3. Named(outVector, ReadBack)
  BY <1>1, <1>2, FindEmpty DEF Named, IsFirst
<1>4. \A n \in Taken : ~ (n < java_line)
  BY <1>1, TakenFacts
<1>5. /\ outFile \in Seq(RangeItems) /\ DOMAIN outFile = {}
      /\ outVector \in Seq(RangeItems)
      /\ out_line \in 1 .. Len(outFile) + 1 /\ ~ (out_line > 1)
  BY <1>1
<1> QED BY <1>1, <1>3, <1>4, <1>5 DEF OutInv

(* The Java dumper writes while the parser has not begun.                  *)
LEMMA OutInvWrite ==
  ASSUME JavaInv, OutInv, JavaReadLine, file' = file
  PROVE  OutInv'
<1> DEFINE n == java_line
           r == Written(n)
           v == outFile
<1>1. /\ IsOutput(file) /\ v \in Seq(RangeItems) /\ Len(file) \in Nat
      /\ n \in 1 .. Len(file) /\ n \in DOMAIN file /\ n \in Nat
  BY SymbolFacts DEF JavaInv, OutInv, JavaReadLine
<1>2. n' = n + 1 /\ out_line' = out_line /\ outVector' = outVector
  BY DEF JavaReadLine
<1>3. /\ Taken' = Taken /\ EmptyAtZero' = EmptyAtZero
      /\ \A m, a : Covers(m, a)' <=> Covers(m, a)
      /\ \A m : Written(m)' = Written(m)
  BY SameFileJava DEF Written
<1>4. Taken \subseteq Nat /\ n' \in Nat
  BY <1>1, <1>2, TakenFacts
<1>5. \A m \in Nat : m < n' <=> (m < n \/ m = n)
  BY <1>1, <1>2
<1>6. out_line = 1 /\ outVector = << >>
  <2>1. ~ JavaLoaded
    BY <1>1 DEF JavaLoaded
  <2> QED BY <1>1, <2>1 DEF OutInv
<1>7. ReadBack = {} /\ ReadBack' = {}
  BY <1>2, <1>6 DEF ReadBack
<1>8. /\ outVector' \in Seq(RangeItems) /\ out_line' = 1
      /\ outVector' = << >>
      /\ \A a : NoneAfter(outVector', a)
  BY <1>2, <1>6 DEF NoneAfter
<1>9. (~ EmptyAtZero => Named(outVector, ReadBack))'
  BY <1>2, <1>3, <1>7 DEF OutInv, Named
<1>10. CASE n \notin Taken
  <2>1. outFile' = outFile
    BY <1>1, <1>10 DEF JavaReadLine, Taken
  <2>2. \A m \in Taken : m < n' <=> m < n
    BY <1>4, <1>5, <1>10
  <2>3. (\A i \in DOMAIN outFile :
           \E m \in Taken : m < java_line /\ outFile[i] = Written(m))'
    BY <2>1, <2>2, <1>3 DEF OutInv
  <2>4. (\A m \in Taken : m < java_line => \E i \in DOMAIN outFile : outFile[i].name = m)'
    BY <2>1, <2>2, <1>3 DEF OutInv
  <2>5. /\ outFile' \in Seq(RangeItems)
        /\ out_line' \in 1 .. Len(outFile') + 1 /\ ~ (out_line' > 1)
        /\ (\A i, j \in DOMAIN outFile : i < j => outFile[i].name < outFile[j].name)'
    BY <1>1, <1>2, <1>6, <2>1 DEF OutInv
  <2> QED BY <1>8, <1>9, <2>3, <2>4, <2>5 DEF OutInv
<1>11. CASE n \in Taken
  <2> DEFINE w == Append(v, r)
             k == Len(v) + 1
  <2>1. outFile' = w
    BY <1>1, <1>11 DEF JavaReadLine, Taken, Written
  <2>2. r \in RangeItems /\ r.name = n
    BY <1>1, <1>11, WrittenFacts
  <2> HIDE DEF r
  <2>3. /\ w \in Seq(RangeItems) /\ DOMAIN v \subseteq Nat
        /\ DOMAIN w = DOMAIN v \union {k} /\ k \in Nat /\ k \notin DOMAIN v
        /\ \A i \in DOMAIN v : v[i] \in RangeItems /\ w[i] = v[i]
        /\ w[k] = r
    BY <1>1, <2>2, AppendFacts
  <2>4. DOMAIN v = 1 .. Len(v) /\ Len(v) \in Nat /\ Len(w) = k
    BY <1>1
  <2>5. \A i \in DOMAIN v : i < k
    BY <2>4
  <2> HIDE DEF w
  <2>6. \A i \in DOMAIN v : \E m \in Taken : m < n /\ v[i] = Written(m) /\ v[i].name = m
    BY <1>1, WrittenFacts DEF OutInv
  <2>7. \A i \in DOMAIN w : \E m \in Taken : m < n' /\ w[i] = Written(m)
    <3> TAKE i \in DOMAIN w
    <3>1. CASE i = k
      BY <1>1, <1>5, <1>11, <2>3, <3>1 DEF r
    <3>2. CASE i \in DOMAIN v
      BY <1>4, <1>5, <2>3, <2>6, <3>2
    <3> QED BY <2>3, <3>1, <3>2
  <2>8. ASSUME NEW i \in DOMAIN w, NEW j \in DOMAIN w, i < j
        PROVE  w[i].name < w[j].name
    <3>1. i \in DOMAIN v
      BY <2>3, <2>5, <2>8
    <3>2. CASE j \in DOMAIN v
      BY <2>3, <2>8, <3>1, <3>2 DEF OutInv
    <3>3. CASE j = k
      BY <2>2, <2>3, <2>6, <3>1, <3>3
    <3> QED BY <2>3, <3>2, <3>3
  <2>9. ASSUME NEW m \in Taken, m < n'
        PROVE  \E i \in DOMAIN w : w[i].name = m
    <3>1. CASE m = n
      BY <2>2, <2>3, <3>1
    <3>2. CASE m < n
      <4>1. PICK i \in DOMAIN v : v[i].name = m
        BY <3>2 DEF OutInv
      <4> QED BY <2>3, <4>1
    <3> QED BY <1>4, <1>5, <2>9, <3>1, <3>2
  <2>10. (\A i \in DOMAIN outFile :
            \E m \in Taken : m < java_line /\ outFile[i] = Written(m))'
    BY <1>3, <2>1, <2>7
  <2>11. (\A m \in Taken : m < java_line => \E i \in DOMAIN outFile : outFile[i].name = m)'
    BY <1>3, <2>1, <2>9
  <2>12. (\A i, j \in DOMAIN outFile : i < j => outFile[i].name < outFile[j].name)'
    BY <2>1, <2>8
  <2>13. /\ outFile' \in Seq(RangeItems)
         /\ out_line' \in 1 .. Len(outFile') + 1 /\ ~ (out_line' > 1)
    BY <1>8, <2>1, <2>3, <2>4
  <2> QED BY <1>8, <1>9, <2>10, <2>11, <2>12, <2>13 DEF OutInv
<1> QED BY <1>10, <1>11

LEMMA OutInvParse ==
  ASSUME IsOutput(file), OutInv, ParseOutLine, file' = file
  PROVE  OutInv'
<1> DEFINE k == out_line
           r == outFile[k]
           v == outVector
           w == InsertRange(v, r)
<1>1. /\ outFile \in Seq(RangeItems) /\ v \in Seq(RangeItems)
      /\ k \in DOMAIN outFile /\ k \in 1 .. Len(outFile) /\ Len(outFile) \in Nat
      /\ DOMAIN outFile = 1 .. Len(outFile)
      /\ r \in RangeItems
  BY DEF OutInv, ParseOutLine
<1>2. /\ outFile' = outFile /\ java_line' = java_line /\ JavaLoaded
      /\ out_line' = k + 1 /\ outVector' = w
  BY DEF ParseOutLine
<1>3. /\ Taken' = Taken /\ EmptyAtZero' = EmptyAtZero
      /\ \A m, a : Covers(m, a)' <=> Covers(m, a)
      /\ \A m : Written(m)' = Written(m)
      /\ JavaLoaded'
  BY <1>2, SameFileJava DEF Written, JavaLoaded
<1>4. NoneAfter(v, r.first)
  BY <1>1 DEF OutInv
<1>5. PICK n \in Taken : n < java_line /\ r = Written(n)
  BY <1>1 DEF OutInv
<1>6. r.name = n /\ r.first = file[n].address
  BY <1>5, WrittenFacts
<1>7. \A i \in DOMAIN outFile : i < k => outFile[i].name < n
  BY <1>1, <1>6 DEF OutInv
<1>8. \A i \in DOMAIN outFile : outFile[i].name \in Taken
  BY WrittenFacts DEF OutInv
<1>9. Taken \subseteq Nat \ {0}
  BY TakenFacts
<1> HIDE DEF r
<1>10. w \in Seq(RangeItems) /\ NoneAfter(w, r.first)
  BY <1>1, <1>4, InsertFacts
<1>11. ReadBack \subseteq Taken /\ \A m \in ReadBack : m < n
  BY <1>1, <1>7, <1>8 DEF ReadBack
<1>12. ReadBack' = ReadBack \union {n}
  <2>1. ReadBack' = {outFile[i].name : i \in 1 .. k}
    BY <1>1, <1>2 DEF ReadBack
  <2>2. 1 .. k = (1 .. k - 1) \union {k}
    BY <1>1
  <2> QED BY <1>6, <2>1, <2>2 DEF ReadBack, r
<1>13. ASSUME ~ EmptyAtZero
       PROVE  Named(w, ReadBack')
  <2>1. Named(v, ReadBack)
    BY <1>13 DEF OutInv
  <2>2. \A a \in Addresses : InRange(r, a) <=> Covers(r.name, a)
    BY <1>5, <1>6, <1>13, WrittenFacts
  <2>3. ReadBack \in SUBSET (Nat \ {0}) /\ \A m \in ReadBack : m < r.name
    BY <1>6, <1>9, <1>11
  <2> HIDE DEF w
  <2>4. Named(w, ReadBack \union {r.name})
    BY <1>1, <1>4, <2>1, <2>2, <2>3, NamedGrows DEF w
  <2> QED BY <1>6, <1>12, <2>4
<1> HIDE DEF w
<1>14. (~ EmptyAtZero => Named(outVector, ReadBack))'
  BY <1>2, <1>3, <1>13 DEF Named
<1>15. ASSUME NEW i \in DOMAIN outFile, i >= k + 1
       PROVE  NoneAfter(w, outFile[i].first)
  <2>1. PICK m \in Taken : outFile[i] = Written(m)
    BY DEF OutInv
  <2>2. outFile[i].first = file[m].address /\ outFile[i].name = m
    BY <2>1, WrittenFacts
  <2>3. n < m
    <3>1. k \in DOMAIN outFile /\ k < i
      BY <1>1, <1>15
    <3>2. outFile[k].name < outFile[i].name
      BY <3>1 DEF OutInv
    <3> QED BY <1>6, <2>2, <3>2 DEF r
  <2>4. /\ m \in DOMAIN file /\ file[m].address # Absent /\ n <= m
        /\ file[m].address \in Nat /\ file[n].address \in Nat
    BY <1>9, <2>3, TakenFacts DEF Taken
  <2>5. file[n].address <= file[m].address
    BY <2>4, TakenInOrder
  <2>6. \A j \in DOMAIN w : w[j].first \in Nat
    <3>1. \A j \in DOMAIN w : w[j] \in RangeItems
      BY <1>10
    <3> QED BY <3>1 DEF RangeItems
  <2> QED BY <1>6, <1>10, <2>2, <2>4, <2>5, <2>6 DEF NoneAfter
<1>16. (\A i \in DOMAIN outFile : i >= out_line => NoneAfter(outVector, outFile[i].first))'
  BY <1>2, <1>15 DEF NoneAfter
<1>17. /\ (\A i \in DOMAIN outFile :
             \E m \in Taken : m < java_line /\ outFile[i] = Written(m))'
       /\ (\A m \in Taken : m < java_line => \E i \in DOMAIN outFile : outFile[i].name = m)'
       /\ (\A i, j \in DOMAIN outFile : i < j => outFile[i].name < outFile[j].name)'
  BY <1>2, <1>3 DEF OutInv
<1>18. /\ outFile' \in Seq(RangeItems) /\ outVector' \in Seq(RangeItems)
       /\ out_line' \in 1 .. Len(outFile') + 1 /\ out_line' # 1
  BY <1>1, <1>2, <1>10
<1> QED BY <1>3, <1>14, <1>16, <1>17, <1>18 DEF OutInv

LEMMA OutInvStutter ==
  ASSUME OutInv, file' = file, UNCHANGED javaVars
  PROVE  OutInv'
<1>1. /\ outFile' = outFile /\ java_line' = java_line /\ out_line' = out_line
      /\ outVector' = outVector
  BY DEF javaVars
<1> QED BY <1>1, SameFileJava, ZenonT(30)
        DEF OutInv, Named, ReadBack, NoneAfter, JavaLoaded, Written

-----------------------------------------------------------------------------
(* A symbol that alone covers an address is the first that does.           *)
LEMMA FirstOfOne ==
  ASSUME NEW S, NEW n, n \in S, \A m \in S : m = n, NEW x, IsFirst(x, S)
  PROVE  x = n
BY DEF IsFirst

LEMMA Agree ==
  ASSUME SymbolInv, NamedByFirstCover, JavaInv, OutInv
  PROVE  DecodersAgree
<1> SUFFICES ASSUME Loaded, JavaLoaded, ~ Misread
             PROVE  /\ \A a \in Addresses :
                         LET java == FindRange(rangeList, a) IN java # 0 => Covers(java, a)
                    /\ \A n \in Distinct : \A a \in {b \in Addresses : Covers(n, b)} :
                         /\ StringForAddress(a) = n
                         /\ EndAddress(file[n]) >= 0 => FindRange(rangeList, a) = n
                         /\ (OutLoaded /\ ~ EmptyAtZero) => FindRange(outVector, a) = n
  BY DEF DecodersAgree
<1>1. IsOutput(file) /\ Len(file) \in Nat /\ java_line = Len(file) + 1
  BY SymbolFacts DEF JavaInv, JavaLoaded
<1>2. SUFFICES ASSUME NEW n \in Distinct, NEW a \in Addresses, Covers(n, a)
               PROVE  /\ StringForAddress(a) = n
                      /\ EndAddress(file[n]) >= 0 => FindRange(rangeList, a) = n
                      /\ (OutLoaded /\ ~ EmptyAtZero) => FindRange(outVector, a) = n
  BY JavaInvNames
<1>3. /\ n \in Taken /\ n \in Symbols /\ n \in 1 .. Len(file)
      /\ \A m \in DOMAIN file : (m # n /\ file[m].address # Absent) => ~ Covers(m, a)
  BY <1>1, <1>2, SymbolFacts DEF Distinct, Taken, Symbols
<1>4. \A m \in Symbols \union Taken : Covers(m, a) => m = n
  BY <1>1, <1>3, TakenFacts DEF Symbols, Taken
<1>5. StringForAddress(a) = n
  <2> DEFINE covering == {m \in Symbols : Covers(m, a)}
  <2>1. StringForAddress(a) = IF covering = {} THEN 0 ELSE Min(covering)
    BY DEF NamedByFirstCover
  <2>2. covering = {n}
    BY <1>2, <1>3, <1>4
  <2>3. Min({n}) = n
    <3>1. {n} \in SUBSET Nat /\ {n} # {}
      BY <1>3
    <3> QED BY <3>1, Least
  <2> HIDE DEF covering
  <2> QED BY <2>1, <2>2, <2>3
<1>6. EndAddress(file[n]) >= 0 => FindRange(rangeList, a) = n
  BY <1>1, <1>2, <1>3 DEF JavaInv
<1>7. ASSUME OutLoaded, ~ EmptyAtZero
      PROVE  FindRange(outVector, a) = n
  <2>1. out_line = Len(outFile) + 1 /\ Len(outFile) \in Nat
        /\ DOMAIN outFile = 1 .. Len(outFile)
    BY <1>7 DEF OutLoaded, OutInv
  <2>2. Taken \subseteq ReadBack
    <3> SUFFICES ASSUME NEW m \in Taken PROVE m \in ReadBack
      OBVIOUS
    <3>1. m < java_line
      BY <1>1, SymbolFacts DEF Taken
    <3>2. PICK i \in DOMAIN outFile : outFile[i].name = m
      BY <3>1 DEF OutInv
    <3>3. i \in 1 .. out_line - 1
      BY <2>1
    <3> QED BY <3>2, <3>3 DEF ReadBack
  <2>3. ReadBack \subseteq Taken
    BY <1>1, <2>1, WrittenFacts DEF OutInv, ReadBack
  <2>4. IsFirst(FindRange(outVector, a), {m \in ReadBack : Covers(m, a)})
    BY <1>7 DEF OutInv, Named
  <2>5. n \in {m \in ReadBack : Covers(m, a)}
        /\ \A m \in {m \in ReadBack : Covers(m, a)} : m = n
    BY <1>2, <1>3, <1>4, <2>2, <2>3
  <2> QED BY <2>4, <2>5, FirstOfOne
<1> QED BY <1>5, <1>6, <1>7

=============================================================================
