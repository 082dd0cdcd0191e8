-------------------------- MODULE SymbolFileProofs --------------------------
(***************************************************************************)
(* Which symbols the programs load, for any number of runs of each         *)
(* program, any number of builds and any length of the file.               *)
(***************************************************************************)
EXTENDS SymbolFile, FiniteSetTheorems, TLAPS

PcType == Ended \union {"ready", "delete", "spawn", "wait", "parse", "reading"}

NmType == [at : {"none", "open", "read", "write", "ended", "failed"},
           fd : Inodes \union {NoFile}, build : Nat, offset : Nat]

TypeOK ==
  /\ now \in Nat
  /\ exe \in [build : Nat, time : Nat]
  /\ path \in Inodes \union {NoFile}
  /\ content \in [Inodes -> Seq(Nat)]
  /\ modified \in [Inodes -> Nat]
  /\ pc \in [Programs -> PcType]
  /\ fd \in [Programs -> Inodes \union {NoFile}]
  /\ got \in [Programs -> Seq(Nat)]
  /\ nm \in [Programs -> NmType]
  /\ spoiled \subseteq Inodes \union {NoFile}
  /\ excused \subseteq Programs

(* What a program has open, and how far its nm may be.                     *)
OpenInv ==
  \A p \in Programs :
    /\ fd[p] # NoFile <=> pc[p] = "reading"
    /\ pc[p] # "reading" => got[p] = << >>
    /\ nm[p].fd # NoFile <=> nm[p].at \in {"read", "write"}
    /\ pc[p] \in {"ready", "delete", "spawn"} => nm[p] = NoNm("none")
    /\ nm[p].at \in {"open", "read", "write"} => pc[p] \in {"wait", "died"}
    /\ pc[p] = "delete" => p \in JavaDumpers
    /\ pc[p] = "wait" => p \in CiftDumps
    /\ pc[p] = "wait" => nm[p].at # "none"

(* A file that nobody writes and that one nm wrote to its end from the     *)
(* last build.                                                             *)
Whole(i) == i \in Inodes /\ Writers(i) = {} /\ content[i] = Output(exe.build)

(* A file of so many blocks from one build.                                *)
Filled(blocks, build) == [k \in 1 .. blocks |-> build]

(* How far an nm has come with its file.                                   *)
Written(p) ==
  LET i == nm[p].fd IN
  /\ nm[p].offset < Blocks
  /\ nm[p].at = "read" => nm[p].offset = 0
  /\ nm[p].at = "write" => nm[p].build = exe.build
  /\ content[i] = Filled(nm[p].offset, nm[p].build)

(* A file that is not spoiled has one writer, or was written to its end;   *)
(* and if it is newer than the executable, it tells of the last build.     *)
ContentInv ==
  \A i \in Inodes \ spoiled :
    /\ \A p \in Writers(i) : Writers(i) = {p} /\ Written(p)
    /\ (Writers(i) = {} /\ modified[i] > exe.time) => Whole(i)

TimeInv == exe.time <= now /\ \A i \in Inodes : modified[i] <= now

(* The way of a run of cift-dump to its file.                              *)
CiftInv ==
  \A p \in CiftDumps \ excused :
    /\ pc[p] = "spawn" => Writers(path) = {}
    /\ (pc[p] = "wait" /\ nm[p].at = "open") => Writers(path) = {}
    /\ (pc[p] = "wait" /\ nm[p].at \in {"read", "write"}) => path = nm[p].fd /\ path \notin spoiled
    /\ (pc[p] = "wait" /\ nm[p].at = "ended") => Whole(path)

(* What a program reads is whole, whoever has had it written.              *)
ReaderInv ==
  \A p \in Programs \ excused :
    /\ pc[p] = "parse" => Whole(path)
    /\ pc[p] = "reading" =>
         /\ Whole(fd[p])
         /\ Len(got[p]) <= Blocks
         /\ got[p] = Filled(Len(got[p]), exe.build)

IInv == TypeOK /\ OpenInv /\ ContentInv /\ TimeInv /\ CiftInv /\ ReaderInv

-----------------------------------------------------------------------------
(* There is always a free inode for the shell: a program has one open at   *)
(* most, to read or to write.                                              *)
LEMMA Fresh ==
  ASSUME TypeOK, OpenInv, NEW p \in Programs, nm[p].at = "open"
  PROVE  \E j \in Inodes : \A q \in Programs : j \notin {nm[q].fd, fd[q]}
<1> SUFFICES ASSUME \A j \in Inodes : \E q \in Programs : j \in {nm[q].fd, fd[q]}
             PROVE  FALSE
  OBVIOUS
<1> DEFINE Holder == [j \in Inodes |-> CHOOSE q \in Programs : j \in {nm[q].fd, fd[q]}]
<1>1. IsFiniteSet(Programs) /\ Cardinality(Programs) \in Nat
  BY SymbolFileAssumption, FS_CardinalityType DEF Programs
<1>2. /\ IsFiniteSet(Programs \ {p})
      /\ Cardinality(Programs \ {p}) = Cardinality(Programs) - 1
  BY <1>1, FS_RemoveElement
<1>3. IsFiniteSet(Inodes) /\ Cardinality(Inodes) = Cardinality(Programs)
  BY <1>1, FS_Interval DEF Inodes
<1>4. nm[p].fd = NoFile /\ fd[p] = NoFile
  BY DEF OpenInv
<1>5. \A j \in Inodes : j # NoFile
  BY <1>1 DEF Inodes, NoFile
<1>6. \A j \in Inodes : Holder[j] \in Programs /\ j \in {nm[Holder[j]].fd, fd[Holder[j]]}
  OBVIOUS
<1>7. Holder \in [Inodes -> Programs \ {p}]
  BY <1>4, <1>5, <1>6
<1> HIDE DEF Holder
<1>8. \E x, y \in Inodes : x # y /\ Holder[x] = Holder[y]
  BY <1>1, <1>2, <1>3, <1>7, FS_PigeonHole
<1>9. PICK x, y \in Inodes : x # y /\ Holder[x] = Holder[y]
  BY <1>8
<1>10. nm[Holder[x]].fd # NoFile /\ fd[Holder[x]] # NoFile
  BY <1>5, <1>6, <1>9
<1>11. Holder[x] \in Programs
  BY <1>6
<1> QED BY <1>10, <1>11 DEF OpenInv

(* The inode that the shell opens.                                         *)
LEMMA ShellFile ==
  ASSUME TypeOK, OpenInv, NEW p \in Programs, ShellOpens(p)
  PROVE  \E i \in Inodes :
           /\ IF path = NoFile THEN \A q \in Programs : i \notin {nm[q].fd, fd[q]}
              ELSE i = path
           /\ path' = i
           /\ nm[p].at = "open"
           /\ nm' = [nm EXCEPT ![p] = [NoNm("read") EXCEPT !.fd = i]]
           /\ content' = [content EXCEPT ![i] = << >>]
           /\ modified' = [modified EXCEPT ![i] = now]
           /\ spoiled' = IF Writers(i) = {} THEN spoiled \ {i} ELSE spoiled \union {i}
           /\ excused' = excused \union (Running \ {p})
           /\ UNCHANGED <<now, exe, pc, fd, got>>
<1> DEFINE i == IF path # NoFile THEN path
                ELSE CHOOSE j \in Inodes : \A q \in Programs : j \notin {nm[q].fd, fd[q]}
<1>1. nm[p].at = "open"
  BY DEF ShellOpens
<1>2. i \in Inodes
      /\ IF path = NoFile THEN \A q \in Programs : i \notin {nm[q].fd, fd[q]}
         ELSE i = path
  <2>1. CASE path = NoFile
    BY <1>1, <2>1, Fresh
  <2>2. CASE path # NoFile
    BY <2>2 DEF TypeOK
  <2> QED BY <2>1, <2>2
<1>3. /\ path' = i
      /\ nm' = [nm EXCEPT ![p] = [NoNm("read") EXCEPT !.fd = i]]
      /\ content' = [content EXCEPT ![i] = << >>]
      /\ modified' = [modified EXCEPT ![i] = now]
      /\ spoiled' = IF Writers(i) = {} THEN spoiled \ {i} ELSE spoiled \union {i}
      /\ excused' = excused \union (Running \ {p})
      /\ UNCHANGED <<now, exe, pc, fd, got>>
  BY DEF ShellOpens, Meddles
<1> HIDE DEF i
<1> QED BY <1>1, <1>2, <1>3

(* What is in the file of an nm after it has written a block: one block    *)
(* more, if nobody else has written there.                                 *)
LEMMA WriteFile ==
  ASSUME TypeOK, OpenInv, NEW p \in Programs, NmWrites(p)
  PROVE  \E i \in Inodes, new \in Seq(Nat) :
           /\ i = nm[p].fd
           /\ content' = [content EXCEPT ![i] = new]
           /\ modified' = [modified EXCEPT ![i] = now]
           /\ content[i] = Filled(nm[p].offset, nm[p].build)
                => new = Filled(nm[p].offset + 1, nm[p].build)
<1> DEFINE i     == nm[p].fd
           place == nm[p].offset + 1
           block == nm[p].build
           old   == content[i]
           end   == IF place > Len(old) THEN place ELSE Len(old)
           new   == Overwrite(old, place, block)
<1>1. nm[p].at = "write" /\ i \in Inodes
  BY DEF NmWrites, OpenInv, TypeOK, NmType
<1>2. content' = [content EXCEPT ![i] = new] /\ modified' = [modified EXCEPT ![i] = now]
  BY DEF NmWrites
<1>3. nm[p].offset \in Nat /\ block \in Nat /\ old \in Seq(Nat) /\ Len(old) \in Nat
  BY <1>1 DEF TypeOK, NmType
<1>4. \A k \in 1 .. Len(old) : old[k] \in Nat
  BY <1>3, SMTT(30)
<1>5. new = [k \in 1 .. end |-> IF k = place THEN block
                                ELSE IF k <= Len(old) THEN old[k] ELSE Hole]
  BY DEF Overwrite
<1> HIDE DEF new
<1>6. new \in Seq(Nat)
  <2>1. end \in Nat
    BY <1>3
  <2>2. new \in [1 .. end -> Nat]
    BY <1>3, <1>4, <1>5 DEF Hole
  <2> QED BY <2>1, <2>2
<1>7. old = [k \in 1 .. nm[p].offset |-> block] => new = [k \in 1 .. place |-> block]
  <2> SUFFICES ASSUME old = [k \in 1 .. nm[p].offset |-> block]
               PROVE  new = [k \in 1 .. place |-> block]
    OBVIOUS
  <2>1. Len(old) = nm[p].offset
    BY <1>3
  <2>2. end = place
    BY <1>3, <2>1
  <2>3. \A k \in 1 .. place : k # place => old[k] = block /\ k <= Len(old)
    BY <1>3, <2>1
  <2> QED BY <1>5, <2>2, <2>3
<1> QED BY <1>1, <1>2, <1>6, <1>7 DEF Filled

-----------------------------------------------------------------------------
LEMMA TypeStep == ASSUME TypeOK, OpenInv, [Next]_vars PROVE TypeOK'
<1> USE DEF NoFile, NoNm
<1>1. CASE Tick
  BY <1>1 DEF Tick, TypeOK
<1>2. CASE Rebuild
  <2>1. spoiled' \subseteq Inodes \union {NoFile} /\ excused' \subseteq Programs
    BY <1>2 DEF Rebuild, TypeOK, Running, NmType
  <2> QED BY <1>2, <2>1 DEF Rebuild, TypeOK
<1>3. ASSUME NEW p \in Programs, ShellOpens(p) PROVE TypeOK'
  <2>1. PICK i \in Inodes :
          /\ path' = i
          /\ nm' = [nm EXCEPT ![p] = [NoNm("read") EXCEPT !.fd = i]]
          /\ content' = [content EXCEPT ![i] = << >>]
          /\ modified' = [modified EXCEPT ![i] = now]
          /\ spoiled' = IF Writers(i) = {} THEN spoiled \ {i} ELSE spoiled \union {i}
          /\ excused' = excused \union (Running \ {p})
          /\ UNCHANGED <<now, exe, pc, fd, got>>
    BY <1>3, ShellFile
  <2>2. nm' \in [Programs -> NmType]
    BY <2>1 DEF TypeOK, NmType
  <2>3. spoiled' \subseteq Inodes \union {NoFile} /\ excused' \subseteq Programs
    BY <2>1 DEF TypeOK, Running
  <2>4. content' \in [Inodes -> Seq(Nat)] /\ modified' \in [Inodes -> Nat]
    BY <2>1 DEF TypeOK
  <2> QED BY <2>1, <2>2, <2>3, <2>4 DEF TypeOK
<1>4. ASSUME NEW p \in Programs, NmReads(p) PROVE TypeOK'
  <2>1. nm[p] \in NmType /\ exe.build \in Nat
    BY DEF TypeOK
  <2>2. nm' \in [Programs -> NmType]
    BY <1>4, <2>1 DEF NmReads, TypeOK, NmType
  <2> QED BY <1>4, <2>2 DEF NmReads, TypeOK
<1>5. ASSUME NEW p \in Programs, NmWrites(p) PROVE TypeOK'
  <2>1. content' \in [Inodes -> Seq(Nat)] /\ modified' \in [Inodes -> Nat]
    BY <1>5, WriteFile, ZenonT(30) DEF TypeOK
  <2>2. nm' \in [Programs -> NmType]
    BY <1>5, SMTT(30) DEF NmWrites, TypeOK, NmType
  <2> QED BY <1>5, <2>1, <2>2 DEF NmWrites, TypeOK
<1>6. ASSUME NEW p \in Programs, NmFails(p) PROVE TypeOK'
  BY <1>6 DEF NmFails, TypeOK, NmType
<1>7. ASSUME NEW p \in Programs, RemoveFile(p) PROVE TypeOK'
  BY <1>7 DEF RemoveFile, Meddles, Running, TypeOK, PcType
<1>70. ASSUME NEW p \in Programs, RemoveFails(p) PROVE TypeOK'
  BY <1>70 DEF RemoveFails, TypeOK, PcType
<1>8. ASSUME NEW p \in Programs, CheckFile(p) PROVE TypeOK'
  BY <1>8 DEF CheckFile, Goto, TypeOK, PcType
<1>9. ASSUME NEW p \in Programs, SpawnNm(p) PROVE TypeOK'
  BY <1>9, ZenonT(30) DEF SpawnNm, Goto, TypeOK, PcType, NmType, Ended
<1>10. ASSUME NEW p \in Programs, AwaitNm(p) PROVE TypeOK'
  BY <1>10 DEF AwaitNm, Goto, TypeOK, PcType, Ended
<1>11. ASSUME NEW p \in Programs, OpenFile(p) PROVE TypeOK'
  BY <1>11 DEF OpenFile, Goto, TypeOK, PcType, Ended
<1>12. ASSUME NEW p \in Programs, ReadBlock(p) PROVE TypeOK'
  <2>1. fd[p] \in Inodes
    BY <1>12 DEF ReadBlock, Goto, OpenInv, TypeOK
  <2>2. got[p] \in Seq(Nat) /\ content[fd[p]] \in Seq(Nat)
    BY <2>1 DEF TypeOK
  <2>3. content[fd[p]][Len(got[p]) + 1] \in Nat
    BY <1>12, <2>2 DEF ReadBlock
  <2>4. got' \in [Programs -> Seq(Nat)]
    BY <1>12, <2>2, <2>3 DEF ReadBlock, TypeOK
  <2> QED BY <1>12, <2>4 DEF ReadBlock, Goto, TypeOK
<1>13. ASSUME NEW p \in Programs, EndOfFile(p) PROVE TypeOK'
  BY <1>13 DEF EndOfFile, Goto, TypeOK, PcType, Ended
<1>14. CASE UNCHANGED vars
  BY <1>14 DEF vars, TypeOK
<1> QED
  BY <1>1, <1>2, <1>3, <1>4, <1>5, <1>6, <1>7, <1>70, <1>8, <1>9, <1>10, <1>11,
     <1>12, <1>13, <1>14 DEF Next, NmStep, ProgramStep

LEMMA OpenStep == ASSUME TypeOK, OpenInv, [Next]_vars PROVE OpenInv'
<1> USE DEF NoFile, NoNm
<1>1. CASE Tick \/ Rebuild
  BY <1>1 DEF Tick, Rebuild, OpenInv
<1>2. ASSUME NEW p \in Programs, ShellOpens(p) PROVE OpenInv'
  <2>1. \A i \in Inodes : i # NoFile
    BY DEF Inodes
  <2>2. PICK i \in Inodes :
          /\ nm[p].at = "open"
          /\ nm' = [nm EXCEPT ![p] = [NoNm("read") EXCEPT !.fd = i]]
          /\ UNCHANGED <<pc, fd, got>>
    BY <1>2, ShellFile
  <2> QED BY <2>1, <2>2 DEF TypeOK, NmType, OpenInv
<1>3. ASSUME NEW p \in Programs, NmReads(p) PROVE OpenInv'
  BY <1>3 DEF NmReads, TypeOK, NmType, OpenInv
<1>4. ASSUME NEW p \in Programs, NmWrites(p) PROVE OpenInv'
  BY <1>4 DEF NmWrites, TypeOK, NmType, OpenInv
<1>5. ASSUME NEW p \in Programs, NmFails(p) PROVE OpenInv'
  BY <1>5 DEF NmFails, TypeOK, NmType, OpenInv
<1>6. ASSUME NEW p \in Programs, RemoveFile(p) PROVE OpenInv'
  BY <1>6 DEF RemoveFile, TypeOK, OpenInv
<1>60. ASSUME NEW p \in Programs, RemoveFails(p) PROVE OpenInv'
  BY <1>60 DEF RemoveFails, TypeOK, OpenInv
<1>7. ASSUME NEW p \in Programs, CheckFile(p) PROVE OpenInv'
  BY <1>7 DEF CheckFile, Goto, TypeOK, OpenInv
<1>8. ASSUME NEW p \in Programs, SpawnNm(p) PROVE OpenInv'
  <2>1. p \notin CiftDumps => p \in JavaDumpers
    BY DEF Programs
  <2> QED BY <1>8, <2>1 DEF SpawnNm, Goto, TypeOK, NmType, OpenInv
<1>9. ASSUME NEW p \in Programs, AwaitNm(p) PROVE OpenInv'
  BY <1>9 DEF AwaitNm, Goto, TypeOK, OpenInv
<1>10. ASSUME NEW p \in Programs, OpenFile(p) PROVE OpenInv'
  BY <1>10 DEF OpenFile, Goto, TypeOK, OpenInv
<1>11. ASSUME NEW p \in Programs, ReadBlock(p) PROVE OpenInv'
  BY <1>11 DEF ReadBlock, Goto, TypeOK, OpenInv
<1>12. ASSUME NEW p \in Programs, EndOfFile(p) PROVE OpenInv'
  BY <1>12 DEF EndOfFile, Goto, TypeOK, OpenInv
<1>13. CASE UNCHANGED vars
  BY <1>13 DEF vars, OpenInv
<1> QED
  BY <1>1, <1>2, <1>3, <1>4, <1>5, <1>6, <1>60, <1>7, <1>8, <1>9, <1>10, <1>11,
     <1>12, <1>13 DEF Next, NmStep, ProgramStep

LEMMA TimeStep == ASSUME TypeOK, OpenInv, TimeInv, [Next]_vars PROVE TimeInv'
<1>1. ASSUME NEW p \in Programs, ShellOpens(p) PROVE TimeInv'
  <2>1. PICK i \in Inodes :
          modified' = [modified EXCEPT ![i] = now] /\ UNCHANGED <<now, exe>>
    BY <1>1, ShellFile
  <2> QED BY <2>1 DEF TypeOK, TimeInv
<1>2. ASSUME NEW p \in Programs, NmWrites(p) PROVE TimeInv'
  BY <1>2 DEF NmWrites, TypeOK, TimeInv
<1>3. CASE Tick \/ Rebuild
  BY <1>3 DEF Tick, Rebuild, TypeOK, TimeInv
<1>4. ASSUME NEW p \in Programs, NmReads(p) \/ NmFails(p) \/ ProgramStep(p) PROVE TimeInv'
  <2>1. UNCHANGED <<now, exe, modified>>
    BY <1>4 DEF ProgramStep, NmReads, NmFails, RemoveFile, RemoveFails, CheckFile, SpawnNm, AwaitNm,
       OpenFile, ReadBlock, EndOfFile
  <2> QED BY <2>1 DEF TimeInv
<1>5. CASE UNCHANGED vars
  BY <1>5 DEF vars, TimeInv
<1> QED BY <1>1, <1>2, <1>3, <1>4, <1>5 DEF Next, NmStep

-----------------------------------------------------------------------------
(* Nothing happens to the files when no nm works and nothing is built.     *)
LEMMA ContentFrame ==
  ASSUME ContentInv, UNCHANGED <<exe, content, modified, nm, spoiled>>
  PROVE  ContentInv'
<1>1. \A i \in Inodes : Writers(i)' = Writers(i)
  BY DEF Writers
<1>2. \A i \in Inodes : Whole(i) => Whole(i)'
  BY <1>1 DEF Whole
<1>3. \A i \in Inodes : \A q \in Writers(i) : Written(q) => Written(q)'
  BY DEF Written
<1> QED BY <1>1, <1>2, <1>3 DEF ContentInv

LEMMA ContentStep ==
  ASSUME TypeOK, OpenInv, ContentInv, TimeInv, [Next]_vars
  PROVE  ContentInv'
<1>0. \A i \in Inodes : i # NoFile
  BY DEF Inodes, NoFile
<1>1. CASE Rebuild
  <2> SUFFICES ASSUME NEW i \in Inodes \ spoiled'
               PROVE  /\ \A q \in Writers(i)' : Writers(i)' = {q} /\ Written(q)'
                      /\ (Writers(i)' = {} /\ modified'[i] > exe'.time) => Whole(i)'
    BY DEF ContentInv
  <2>1. i \notin spoiled /\ \A q \in Programs : nm[q].at = "write" => nm[q].fd # i
    BY <1>1 DEF Rebuild
  <2>2. Writers(i)' = Writers(i)
    BY <1>1 DEF Rebuild, Writers
  <2>3. \A q \in Writers(i) : Written(q)'
    BY <1>1, <2>1 DEF Rebuild, ContentInv, Writers, Written
  <2>4. ~ (modified'[i] > exe'.time)
    BY <1>1 DEF Rebuild, TimeInv, TypeOK
  <2> QED BY <2>1, <2>2, <2>3, <2>4 DEF ContentInv
<1>2. ASSUME NEW p \in Programs, ShellOpens(p) PROVE ContentInv'
  <2>1. PICK i \in Inodes :
          /\ nm[p].at = "open"
          /\ nm' = [nm EXCEPT ![p] = [NoNm("read") EXCEPT !.fd = i]]
          /\ content' = [content EXCEPT ![i] = << >>]
          /\ modified' = [modified EXCEPT ![i] = now]
          /\ spoiled' = IF Writers(i) = {} THEN spoiled \ {i} ELSE spoiled \union {i}
          /\ UNCHANGED <<now, exe, pc, fd, got>>
    BY <1>2, ShellFile
  <2>2. nm'[p] = [at |-> "read", fd |-> i, build |-> 0, offset |-> 0]
    BY <2>1 DEF TypeOK, NoNm
  <2>3. \A q \in Programs \ {p} : nm'[q] = nm[q]
    BY <2>1 DEF TypeOK
  <2> SUFFICES ASSUME NEW j \in Inodes \ spoiled'
               PROVE  /\ \A q \in Writers(j)' : Writers(j)' = {q} /\ Written(q)'
                      /\ (Writers(j)' = {} /\ modified'[j] > exe'.time) => Whole(j)'
    BY DEF ContentInv
  <2>4. CASE j = i
    <3>1. Writers(i) = {}
      BY <2>1, <2>4
    <3>2. Writers(i)' = {p}
      BY <2>2, <2>3, <3>1 DEF Writers
    <3>3. content'[i] = Filled(0, 0)
      BY <2>1 DEF TypeOK, Filled
    <3>4. Written(p)'
      BY <2>2, <3>3, SymbolFileAssumption DEF Written
    <3> QED BY <2>4, <3>2, <3>4
  <2>5. CASE j # i
    <3>1. j \notin spoiled
      BY <2>1, <2>5
    <3>2. Writers(j)' = Writers(j) /\ p \notin Writers(j)
      BY <2>1, <2>2, <2>3, <2>5 DEF Writers
    <3>3. content'[j] = content[j] /\ modified'[j] = modified[j]
      BY <2>1, <2>5 DEF TypeOK
    <3>4. \A q \in Writers(j) : nm'[q] = nm[q] /\ nm[q].fd = j
      BY <2>3, <3>2 DEF Writers
    <3>5. \A q \in Writers(j) : Written(q)'
      <4>1. exe' = exe /\ \A q \in Writers(j) : Written(q)
        BY <2>1, <3>1 DEF ContentInv
      <4> QED BY <3>3, <3>4, <4>1 DEF Written
    <3> QED BY <2>1, <3>1, <3>2, <3>3, <3>5 DEF ContentInv, Whole
  <2> QED BY <2>4, <2>5
<1>3. ASSUME NEW p \in Programs, NmReads(p) PROVE ContentInv'
  <2>1. /\ nm[p].at = "read"
        /\ nm'[p] = [nm[p] EXCEPT !.at = "write", !.build = exe.build]
        /\ UNCHANGED <<exe, content, modified, spoiled>>
    BY <1>3 DEF NmReads, TypeOK
  <2>2. /\ nm'[p].at = "write" /\ nm'[p].fd = nm[p].fd
        /\ nm'[p].build = exe.build /\ nm'[p].offset = nm[p].offset
    BY <2>1 DEF TypeOK, NmType
  <2>3. \A q \in Programs \ {p} : nm'[q] = nm[q]
    BY <1>3 DEF NmReads, TypeOK
  <2>4. \A i \in Inodes : Writers(i)' = Writers(i)
    <3>1. \A q \in Programs : /\ nm'[q].fd = nm[q].fd
                              /\ nm'[q].at \in {"read", "write"} <=> nm[q].at \in {"read", "write"}
      BY <2>1, <2>2, <2>3
    <3> QED BY <3>1 DEF Writers
  <2>5. ASSUME NEW i \in Inodes \ spoiled, NEW q \in Writers(i) PROVE Written(q)'
    <3>1. CASE q # p
      BY <2>1, <2>3, <2>5, <3>1 DEF ContentInv, Writers, Written
    <3>2. CASE q = p
      <4>1. Written(p)
        BY <2>5, <3>2 DEF ContentInv
      <4>2. nm[p].offset = 0
        BY <2>1, <4>1 DEF Written
      <4>3. content[nm[p].fd] = Filled(0, exe.build)
        BY <4>1, <4>2 DEF Written, Filled
      <4>4. /\ nm'[p].offset = 0 /\ nm'[p].build = exe'.build
            /\ content'[nm'[p].fd] = Filled(0, exe.build)
        BY <2>1, <2>2, <4>2, <4>3
      <4> QED BY <2>1, <2>2, <3>2, <4>1, <4>4 DEF Written
    <3> QED BY <3>1, <3>2
  <2> QED BY <2>1, <2>4, <2>5 DEF ContentInv, Whole
<1>4. ASSUME NEW p \in Programs, NmWrites(p) PROVE ContentInv'
  <2>0. PICK place \in Nat : place = nm[p].offset + 1
    BY DEF TypeOK, NmType
  <2>1. PICK i \in Inodes, new \in Seq(Nat) :
          /\ i = nm[p].fd
          /\ content' = [content EXCEPT ![i] = new]
          /\ modified' = [modified EXCEPT ![i] = now]
          /\ content[i] = Filled(nm[p].offset, nm[p].build)
               => new = Filled(place, nm[p].build)
    BY <1>4, <2>0, WriteFile
  <2>2. nm[p].at = "write" /\ UNCHANGED <<exe, spoiled>>
    BY <1>4 DEF NmWrites
  <2>3. \A q \in Programs \ {p} : nm'[q] = nm[q]
    BY <1>4 DEF NmWrites, TypeOK
  <2>4. place = Blocks => nm'[p] = NoNm("ended")
    BY <1>4, <2>0 DEF NmWrites, TypeOK
  <2>5. place # Blocks => /\ nm'[p].at = "write" /\ nm'[p].fd = i
                          /\ nm'[p].build = nm[p].build /\ nm'[p].offset = place
    BY <1>4, <2>0, <2>1 DEF NmWrites, TypeOK, NmType
  <2> SUFFICES ASSUME NEW j \in Inodes \ spoiled'
               PROVE  /\ \A q \in Writers(j)' : Writers(j)' = {q} /\ Written(q)'
                      /\ (Writers(j)' = {} /\ modified'[j] > exe'.time) => Whole(j)'
    BY DEF ContentInv
  <2>6. CASE j = i
    <3>1. Writers(i) = {p} /\ Written(p)
      BY <2>1, <2>2, <2>6 DEF ContentInv, Writers
    <3>2. content'[i] = Filled(place, exe.build) /\ nm[p].build = exe.build
      BY <2>1, <2>2, <3>1 DEF Written, TypeOK
    <3>3. CASE place = Blocks
      <4>1. Writers(i)' = {}
        BY <1>0, <2>3, <2>4, <2>6, <3>1, <3>3 DEF Writers, NoNm
      <4> QED BY <2>1, <2>2, <2>6, <3>2, <3>3, <4>1 DEF Whole, Output, Filled
    <3>4. CASE place # Blocks
      <4>1. Writers(i)' = {p}
        BY <2>3, <2>5, <3>1, <3>4 DEF Writers
      <4>2. place < Blocks
        BY <2>0, <3>1, <3>4, SymbolFileAssumption DEF Written, TypeOK, NmType
      <4>3. Written(p)'
        BY <2>1, <2>2, <2>5, <3>2, <3>4, <4>2 DEF Written
      <4> QED BY <2>6, <4>1, <4>3
    <3> QED BY <3>3, <3>4
  <2>7. CASE j # i
    <3>1. Writers(j)' = Writers(j) /\ p \notin Writers(j)
      BY <1>0, <2>1, <2>3, <2>4, <2>5, <2>7 DEF Writers, NoNm
    <3>2. content'[j] = content[j] /\ modified'[j] = modified[j]
      BY <2>1, <2>7 DEF TypeOK
    <3>3. \A q \in Writers(j) : nm'[q] = nm[q] /\ nm[q].fd = j
      BY <2>3, <3>1 DEF Writers
    <3>4. \A q \in Writers(j) : Written(q)'
      BY <2>2, <3>2, <3>3 DEF ContentInv, Written
    <3> QED BY <2>2, <3>1, <3>2, <3>4 DEF ContentInv, Whole
  <2> QED BY <2>6, <2>7
<1>5. ASSUME NEW p \in Programs, NmFails(p) \/ SpawnNm(p) PROVE ContentInv'
  <2>1. /\ UNCHANGED <<exe, content, modified>>
        /\ spoiled \subseteq spoiled'
        /\ \A q \in Programs \ {p} : nm'[q] = nm[q]
        /\ nm'[p].at \in {"failed", "open"}
    BY <1>5 DEF NmFails, SpawnNm, TypeOK, NoNm, NmType
  <2>2. nm[p].at = "none" \/ nm[p].fd \in spoiled'
    BY <1>5 DEF NmFails, SpawnNm, Goto, OpenInv, NoNm
  <2>3. \A i \in Inodes \ spoiled' : Writers(i)' = Writers(i) /\ p \notin Writers(i)
    BY <2>1, <2>2 DEF Writers
  <2>4. \A i \in Inodes \ spoiled' : \A q \in Writers(i) : nm'[q] = nm[q] /\ Written(q)'
    BY <2>1, <2>3 DEF ContentInv, Writers, Written
  <2> QED BY <2>1, <2>3, <2>4 DEF ContentInv, Whole
<1>6. ASSUME NEW p \in Programs, ProgramStep(p), ~ SpawnNm(p) PROVE ContentInv'
  <2>1. UNCHANGED <<exe, content, modified, nm, spoiled>>
    BY <1>6 DEF ProgramStep, RemoveFile, RemoveFails, CheckFile, AwaitNm, OpenFile,
       ReadBlock, EndOfFile
  <2> QED BY <2>1, ContentFrame
<1>7. CASE Tick \/ UNCHANGED vars
  BY <1>7, ContentFrame DEF Tick, vars
<1> QED BY <1>1, <1>2, <1>3, <1>4, <1>5, <1>6, <1>7 DEF Next, NmStep

-----------------------------------------------------------------------------
(* The steps of a program and its nm but for the opening of the file.      *)
QuietStep(q) == NmReads(q) \/ NmWrites(q) \/ NmFails(q) \/ ProgramStep(q)

Idle == Tick \/ UNCHANGED vars

(* A whole file remains so until the executable is built or a shell opens  *)
(* the file.                                                               *)
LEMMA WholeStep ==
  ASSUME TypeOK, OpenInv, Idle \/ \E q \in Programs : QuietStep(q), NEW i, Whole(i)
  PROVE  Whole(i)'
<1>0. i \in Inodes /\ Writers(i) = {} /\ content[i] = Output(exe.build) /\ i # NoFile
  BY DEF Whole, Inodes, NoFile
<1>1. ASSUME NEW p \in Programs, NmWrites(p) PROVE Whole(i)'
  <2>1. PICK j \in Inodes, new \in Seq(Nat) :
          j = nm[p].fd /\ content' = [content EXCEPT ![j] = new]
    BY <1>1, WriteFile
  <2>2. nm[p].at = "write" /\ nm[p].fd # i
    BY <1>0, <1>1 DEF NmWrites, Writers
  <2>3. content'[i] = content[i] /\ exe' = exe
    BY <1>1, <2>1, <2>2 DEF NmWrites, TypeOK
  <2>4. \A q \in Programs \ {p} : nm'[q] = nm[q]
    BY <1>1 DEF NmWrites, TypeOK
  <2>5. nm'[p].fd # i
    BY <1>0, <1>1, <2>2 DEF NmWrites, TypeOK, NmType, NoNm
  <2>6. Writers(i)' = {}
    BY <1>0, <2>4, <2>5 DEF Writers
  <2> QED BY <1>0, <2>3, <2>6 DEF Whole
<1>2. ASSUME NEW p \in Programs, NmReads(p) \/ NmFails(p) \/ SpawnNm(p) PROVE Whole(i)'
  <2>1. UNCHANGED <<exe, content>>
    BY <1>2 DEF NmReads, NmFails, SpawnNm
  <2>2. \A q \in Programs \ {p} : nm'[q] = nm[q]
    BY <1>2 DEF NmReads, NmFails, SpawnNm, TypeOK
  <2>3. /\ nm'[p].fd = nm[p].fd \/ nm'[p].fd = NoFile
        /\ nm'[p].at \in {"read", "write"} => nm[p].at = "read"
    <3>1. nm[p] \in NmType
      BY DEF TypeOK
    <3>2. CASE NmReads(p)
      BY <3>1, <3>2 DEF NmReads, TypeOK, NmType
    <3>3. CASE NmFails(p)
      BY <3>3 DEF NmFails, TypeOK, NoNm
    <3>4. CASE SpawnNm(p)
      BY <3>1, <3>4 DEF SpawnNm, TypeOK, NmType
    <3> QED BY <1>2, <3>2, <3>3, <3>4
  <2>4. Writers(i)' = {}
    BY <1>0, <2>2, <2>3 DEF Writers
  <2> QED BY <1>0, <2>1, <2>4 DEF Whole
<1>3. CASE UNCHANGED <<exe, content, nm>>
  <2>1. Writers(i)' = {}
    BY <1>0, <1>3 DEF Writers
  <2> QED BY <1>0, <1>3, <2>1 DEF Whole
<1>4. ASSUME NEW p \in Programs, ProgramStep(p), ~ SpawnNm(p) PROVE UNCHANGED <<exe, content, nm>>
  BY <1>4 DEF ProgramStep, RemoveFile, RemoveFails, CheckFile, AwaitNm, OpenFile,
     ReadBlock, EndOfFile
<1>5. CASE Idle
  BY <1>3, <1>5 DEF Idle, Tick, vars
<1> QED BY <1>1, <1>2, <1>3, <1>4, <1>5 DEF QuietStep

(* Nor does a file get a writer by such a step.                            *)
LEMMA NoWriterStep ==
  ASSUME TypeOK, OpenInv, Idle \/ \E q \in Programs : QuietStep(q), NEW i, Writers(i) = {}
  PROVE  Writers(i)' = {}
<1>1. ASSUME NEW p \in Programs, NmReads(p) \/ NmWrites(p) \/ NmFails(p) \/ SpawnNm(p)
      PROVE  Writers(i)' = {}
  <2>1. \A q \in Programs \ {p} : nm'[q] = nm[q]
    BY <1>1 DEF NmReads, NmWrites, NmFails, SpawnNm, TypeOK
  <2>2. nm'[p].at \in {"read", "write"} =>
          nm[p].at \in {"read", "write"} /\ nm'[p].fd = nm[p].fd
    <3>1. nm[p] \in NmType
      BY DEF TypeOK
    <3>2. CASE NmReads(p)
      BY <3>1, <3>2 DEF NmReads, TypeOK, NmType
    <3>3. CASE NmWrites(p)
      BY <3>1, <3>3 DEF NmWrites, TypeOK, NmType, NoNm
    <3>4. CASE NmFails(p)
      BY <3>4 DEF NmFails, TypeOK, NoNm
    <3>5. CASE SpawnNm(p)
      BY <3>1, <3>5 DEF SpawnNm, TypeOK, NmType
    <3> QED BY <1>1, <3>2, <3>3, <3>4, <3>5
  <2> QED BY <2>1, <2>2 DEF Writers
<1>2. CASE UNCHANGED nm
  BY <1>2 DEF Writers
<1>3. ASSUME NEW p \in Programs, ProgramStep(p), ~ SpawnNm(p) PROVE UNCHANGED nm
  BY <1>3 DEF ProgramStep, RemoveFile, RemoveFails, CheckFile, AwaitNm, OpenFile,
     ReadBlock, EndOfFile
<1>4. CASE Idle
  BY <1>2, <1>4 DEF Idle, Tick, vars
<1> QED BY <1>1, <1>2, <1>3, <1>4 DEF QuietStep

(* A quiet step of one does not concern another.                           *)
LEMMA Others ==
  ASSUME TypeOK, NEW p \in Programs, NEW q \in Programs \ {p}, QuietStep(q), ~ RemoveFile(q)
  PROVE  path' = path /\ pc'[p] = pc[p] /\ nm'[p] = nm[p] /\ fd'[p] = fd[p] /\ got'[p] = got[p]
<1>1. CASE NmReads(q) \/ NmFails(q)
  BY <1>1 DEF NmReads, NmFails, TypeOK
<1>2. CASE NmWrites(q)
  BY <1>2 DEF NmWrites, TypeOK
<1>3. CASE ProgramStep(q)
  BY <1>3 DEF ProgramStep, RemoveFails, CheckFile, SpawnNm, AwaitNm, OpenFile, ReadBlock,
     EndOfFile, Goto, TypeOK
<1> QED BY <1>1, <1>2, <1>3 DEF QuietStep

(* Whoever runs while another meddles is excused.                          *)
LEMMA Excused ==
  ASSUME TypeOK, OpenInv, NEW p \in Programs \ excused', pc[p] \notin Ended \union {"ready"},
         [Next]_vars
  PROVE  /\ p \notin excused
         /\ \/ Idle \/ ShellOpens(p)
            \/ \E q \in Programs : QuietStep(q) /\ (RemoveFile(q) => q = p)
<1>1. p \in Running
  BY DEF Running
<1>2. ~ Rebuild
  BY <1>1 DEF Rebuild
<1>3. \A q \in Programs : (ShellOpens(q) \/ RemoveFile(q)) => q = p
  BY <1>1 DEF ShellOpens, RemoveFile, Meddles
<1>4. excused \subseteq excused'
  <2>1. CASE Tick \/ Rebuild \/ UNCHANGED vars
    BY <2>1 DEF Tick, Rebuild, vars
  <2>2. ASSUME NEW q \in Programs, NmStep(q) \/ NmFails(q) PROVE excused \subseteq excused'
    BY <2>2 DEF NmStep, ShellOpens, Meddles, NmReads, NmWrites, NmFails
  <2>3. ASSUME NEW q \in Programs, ProgramStep(q) PROVE excused \subseteq excused'
    BY <2>3 DEF ProgramStep, RemoveFile, Meddles, RemoveFails, CheckFile, SpawnNm, AwaitNm, OpenFile,
       ReadBlock, EndOfFile
  <2> QED BY <2>1, <2>2, <2>3 DEF Next
<1> QED BY <1>2, <1>3, <1>4 DEF Next, NmStep, QuietStep, Idle

(* Whether the old file's name goes or not, nobody writes what has it.     *)
LEMMA RemovedInv ==
  ASSUME TypeOK, OpenInv, NEW p \in Programs \ excused', RemoveFile(p) \/ RemoveFails(p)
  PROVE  pc'[p] = "spawn" /\ Writers(path)' = {}
<1>1. pc'[p] = "spawn" /\ nm' = nm
  BY DEF RemoveFile, RemoveFails, TypeOK
<1>2. Writers(NoFile) = {}
  BY DEF Writers, OpenInv
<1>3. CASE RemoveFile(p)
  BY <1>1, <1>2, <1>3 DEF RemoveFile, Writers
<1>4. CASE RemoveFails(p)
  BY <1>1, <1>4 DEF RemoveFails, Writers
<1> QED BY <1>1, <1>3, <1>4

(* The run of cift-dump keeps its file from its removal to nm's end.       *)
LEMMA CiftStep ==
  ASSUME TypeOK, OpenInv, ContentInv, CiftInv, [Next]_vars
  PROVE  CiftInv'
<1> SUFFICES ASSUME NEW p \in CiftDumps \ excused'
             PROVE  /\ pc'[p] = "spawn" => Writers(path)' = {}
                    /\ (pc'[p] = "wait" /\ nm'[p].at = "open") => Writers(path)' = {}
                    /\ (pc'[p] = "wait" /\ nm'[p].at \in {"read", "write"})
                         => path' = nm'[p].fd /\ path' \notin spoiled'
                    /\ (pc'[p] = "wait" /\ nm'[p].at = "ended") => Whole(path)'
  BY DEF CiftInv
<1>0. p \in Programs /\ p \notin JavaDumpers
  BY SymbolFileAssumption DEF Programs
<1>1. CASE pc[p] \in Ended \union {"ready"}
  <2>1. pc'[p] \notin {"spawn", "wait"} \/ RemoveFile(p) \/ RemoveFails(p)
    <3>1. CASE Tick \/ Rebuild \/ UNCHANGED vars
      BY <1>1, <3>1 DEF Tick, Rebuild, vars, Ended
    <3>2. ASSUME NEW q \in Programs, NmStep(q) \/ NmFails(q) PROVE pc' = pc
      BY <3>2 DEF NmStep, ShellOpens, NmReads, NmWrites, NmFails
    <3>3. ASSUME NEW q \in Programs, ProgramStep(q), q # p PROVE pc'[p] = pc[p]
      <4>1. CASE RemoveFile(q)
        BY <1>0, <3>3, <4>1 DEF RemoveFile, TypeOK
      <4>2. CASE ~ RemoveFile(q)
        BY <1>0, <3>3, <4>2, Others DEF QuietStep
      <4> QED BY <4>1, <4>2
    <3>4. ASSUME ProgramStep(p), ~ RemoveFile(p), ~ RemoveFails(p) PROVE FALSE
      BY <1>0, <1>1, <3>4 DEF ProgramStep, CheckFile, SpawnNm, AwaitNm, OpenFile, ReadBlock,
         EndOfFile, Goto, Ended
    <3> QED BY <1>1, <3>1, <3>2, <3>3, <3>4 DEF Next, Ended
  <2>2. CASE RemoveFile(p)
    BY <1>0, <2>2, RemovedInv
  <2>3. CASE RemoveFails(p)
    BY <1>0, <2>3, RemovedInv
  <2> QED BY <2>1, <2>2, <2>3
<1>2. CASE pc[p] \notin Ended \union {"ready"}
  <2>1. /\ p \notin excused
        /\ \/ Idle \/ ShellOpens(p)
           \/ \E q \in Programs : QuietStep(q) /\ (RemoveFile(q) => q = p)
    BY <1>0, <1>2, Excused
  <2>2. /\ pc[p] = "spawn" => Writers(path) = {}
        /\ (pc[p] = "wait" /\ nm[p].at = "open") => Writers(path) = {}
        /\ (pc[p] = "wait" /\ nm[p].at \in {"read", "write"}) => path = nm[p].fd /\ path \notin spoiled
        /\ (pc[p] = "wait" /\ nm[p].at = "ended") => Whole(path)
    BY <2>1 DEF CiftInv
  <2>3. PICK i : i = path
    OBVIOUS
  <2>4. CASE Idle
    <3>1. UNCHANGED <<path, spoiled, pc, nm>>
      BY <2>4 DEF Idle, Tick, vars
    <3>2. (Whole(i) => Whole(i)') /\ (Writers(i) = {} => Writers(i)' = {})
      BY <2>4, WholeStep, NoWriterStep
    <3> QED BY <2>2, <2>3, <3>1, <3>2
  <2>5. CASE ShellOpens(p)
    <3>1. PICK j \in Inodes :
            /\ IF path = NoFile THEN \A q \in Programs : j \notin {nm[q].fd, fd[q]}
               ELSE j = path
            /\ path' = j
            /\ nm[p].at = "open"
            /\ nm' = [nm EXCEPT ![p] = [NoNm("read") EXCEPT !.fd = j]]
            /\ spoiled' = IF Writers(j) = {} THEN spoiled \ {j} ELSE spoiled \union {j}
            /\ UNCHANGED pc
      BY <1>0, <2>5, ShellFile
    <3>2. pc[p] = "wait" /\ Writers(path) = {}
      BY <1>0, <1>2, <2>2, <3>1 DEF OpenInv, Ended
    <3>3. Writers(j) = {}
      <4>1. CASE path = NoFile
        BY <3>1, <4>1 DEF Writers
      <4>2. CASE path # NoFile
        BY <3>1, <3>2, <4>2
      <4> QED BY <4>1, <4>2
    <3>4. nm'[p].at = "read" /\ nm'[p].fd = j
      BY <1>0, <3>1 DEF TypeOK, NoNm
    <3> QED BY <3>1, <3>2, <3>3, <3>4
  <2>6. ASSUME NEW q \in Programs \ {p}, QuietStep(q), ~ RemoveFile(q)
        PROVE  /\ pc'[p] = "spawn" => Writers(path)' = {}
               /\ (pc'[p] = "wait" /\ nm'[p].at = "open") => Writers(path)' = {}
               /\ (pc'[p] = "wait" /\ nm'[p].at \in {"read", "write"})
                    => path' = nm'[p].fd /\ path' \notin spoiled'
               /\ (pc'[p] = "wait" /\ nm'[p].at = "ended") => Whole(path)'
    <3>1. path' = path /\ pc'[p] = pc[p] /\ nm'[p] = nm[p]
      BY <1>0, <2>6, Others
    <3>2. (Whole(i) => Whole(i)') /\ (Writers(i) = {} => Writers(i)' = {})
      BY <2>6, WholeStep, NoWriterStep
    <3>3. spoiled' = spoiled \/ NmFails(q)
      BY <2>6 DEF QuietStep, ProgramStep, NmReads, NmWrites, RemoveFails, CheckFile, SpawnNm, AwaitNm,
         OpenFile, ReadBlock, EndOfFile
    <3>4. CASE NmFails(q)
      <4> SUFFICES ASSUME pc[p] = "wait", nm[p].at \in {"read", "write"}
                   PROVE  path \notin spoiled'
        BY <2>2, <2>3, <3>1, <3>2
      <4>1. path = nm[p].fd /\ path \notin spoiled
        BY <2>2
      <4>2. path \in Inodes /\ path # NoFile
        BY <1>0, <4>1 DEF OpenInv, TypeOK
      <4>3. p \in Writers(path)
        BY <1>0, <4>1 DEF Writers
      <4>4. q \notin Writers(path)
        BY <2>6, <4>1, <4>2, <4>3 DEF ContentInv
      <4>5. nm[q].fd # path
        BY <3>4, <4>2, <4>4 DEF NmFails, OpenInv, Writers
      <4> QED BY <3>4, <4>1, <4>5 DEF NmFails
    <3> QED BY <2>2, <2>3, <3>1, <3>2, <3>3, <3>4
  <2>7. CASE NmReads(p)
    <3>1. nm[p] \in NmType
      BY <1>0 DEF TypeOK
    <3>2. pc[p] # "spawn" /\ pc' = pc
      BY <1>0, <2>7 DEF NmReads, OpenInv, NoNm
    <3>3. nm'[p].at = "write" /\ nm'[p].fd = nm[p].fd /\ UNCHANGED <<path, spoiled>>
      BY <1>0, <2>7, <3>1 DEF NmReads, TypeOK, NmType
    <3>4. nm[p].at = "read"
      BY <2>7 DEF NmReads
    <3> QED BY <2>2, <3>2, <3>3, <3>4
  <2>8. CASE NmWrites(p)
    <3>1. PICK j \in Inodes, new \in Seq(Nat) :
            /\ j = nm[p].fd
            /\ content' = [content EXCEPT ![j] = new]
            /\ content[j] = Filled(nm[p].offset, nm[p].build)
                 => new = Filled(nm[p].offset + 1, nm[p].build)
      BY <1>0, <2>8, WriteFile
    <3>2. nm[p].at = "write" /\ UNCHANGED <<exe, path, pc, spoiled>>
      BY <2>8 DEF NmWrites
    <3>3. pc[p] = "wait" /\ path = j /\ j \notin spoiled
      BY <1>0, <1>2, <2>2, <3>1, <3>2 DEF OpenInv, Ended
    <3>4. Writers(j) = {p} /\ Written(p)
      BY <1>0, <3>1, <3>2, <3>3 DEF ContentInv, Writers
    <3>5. content'[j] = Filled(nm[p].offset + 1, exe.build)
      BY <3>1, <3>2, <3>4 DEF Written, TypeOK
    <3>6. CASE nm[p].offset + 1 = Blocks
      <4>1. nm'[p] = NoNm("ended")
        BY <1>0, <2>8, <3>6 DEF NmWrites, TypeOK
      <4>2. \A q \in Programs \ {p} : nm'[q] = nm[q]
        BY <2>8 DEF NmWrites, TypeOK
      <4>3. Writers(j)' = {}
        BY <3>4, <4>1, <4>2 DEF Writers, NoNm
      <4>4. Whole(j)'
        BY <3>2, <3>5, <3>6, <4>3 DEF Whole, Output, Filled
      <4> QED BY <3>2, <3>3, <4>1, <4>4 DEF NoNm
    <3>7. CASE nm[p].offset + 1 # Blocks
      <4>1. nm'[p].at = "write" /\ nm'[p].fd = j
        BY <1>0, <2>8, <3>1, <3>2, <3>7 DEF NmWrites, TypeOK, NmType
      <4> QED BY <3>2, <3>3, <4>1
    <3> QED BY <3>6, <3>7
  <2>9. CASE NmFails(p)
    <3>1. nm'[p].at = "failed" /\ pc[p] = "wait" /\ pc' = pc
      BY <1>0, <1>2, <2>9 DEF NmFails, TypeOK, NoNm, OpenInv, Ended
    <3> QED BY <3>1
  <2>10. CASE ProgramStep(p)
    <3>1. CASE RemoveFile(p) \/ RemoveFails(p)
      BY <1>0, <3>1, RemovedInv
    <3>2. CASE SpawnNm(p)
      <4>0. path' = path /\ Writers(i) = {}
        BY <2>2, <2>3, <3>2 DEF SpawnNm, Goto
      <4>00. Writers(i)' = {}
        BY <1>0, <3>2, <4>0, NoWriterStep DEF QuietStep, ProgramStep
      <4>1. pc[p] = "spawn" /\ pc'[p] = "wait" /\ Writers(path)' = {}
        BY <1>0, <2>3, <3>2, <4>0, <4>00 DEF SpawnNm, Goto, TypeOK
      <4>2. nm'[p].at = "open"
        BY <1>0, <3>2 DEF SpawnNm, TypeOK, NmType
      <4> QED BY <4>1, <4>2
    <3>3. CASE CheckFile(p)
      BY <1>0, <3>3 DEF CheckFile
    <3>4. CASE AwaitNm(p) \/ OpenFile(p) \/ ReadBlock(p) \/ EndOfFile(p)
      BY <1>0, <3>4 DEF AwaitNm, OpenFile, ReadBlock, EndOfFile, Goto, TypeOK
    <3> QED BY <2>10, <3>1, <3>2, <3>3, <3>4 DEF ProgramStep
  <2> QED
    <3>1. \A q \in Programs : (QuietStep(q) /\ q # p) => q \in Programs \ {p}
      OBVIOUS
    <3> QED BY <2>1, <2>4, <2>5, <2>6, <2>7, <2>8, <2>9, <2>10, <3>1 DEF QuietStep
<1> QED BY <1>1, <1>2

(* A reader keeps its whole file, and has read of it what it has read.     *)
LEMMA ReaderStep ==
  ASSUME TypeOK, OpenInv, ContentInv, CiftInv, ReaderInv, [Next]_vars
  PROVE  ReaderInv'
<1> DEFINE Reads(p) == /\ pc[p] = "parse" => Whole(path)
                       /\ pc[p] = "reading" =>
                            /\ Whole(fd[p])
                            /\ Len(got[p]) <= Blocks
                            /\ got[p] = Filled(Len(got[p]), exe.build)
<1> SUFFICES ASSUME NEW p \in Programs \ excused'
             PROVE  Reads(p)'
  BY DEF ReaderInv
<1>1. CASE pc[p] \in Ended \union {"ready"}
  <2>1. pc'[p] \notin {"parse", "reading"} \/ CheckFile(p)
    <3>1. CASE Tick \/ Rebuild \/ UNCHANGED vars
      BY <1>1, <3>1 DEF Tick, Rebuild, vars, Ended
    <3>2. ASSUME NEW q \in Programs, NmStep(q) \/ NmFails(q) PROVE pc' = pc
      BY <3>2 DEF NmStep, ShellOpens, NmReads, NmWrites, NmFails
    <3>3. ASSUME NEW q \in Programs, ProgramStep(q), q # p PROVE pc'[p] = pc[p]
      <4>1. CASE RemoveFile(q)
        BY <3>3, <4>1 DEF RemoveFile, TypeOK
      <4>2. CASE ~ RemoveFile(q)
        BY <3>3, <4>2, Others DEF QuietStep
      <4> QED BY <4>1, <4>2
    <3>4. CASE RemoveFile(p) \/ RemoveFails(p)
      BY <3>4 DEF RemoveFile, RemoveFails, TypeOK
    <3>5. ASSUME ProgramStep(p), ~ CheckFile(p), ~ RemoveFile(p), ~ RemoveFails(p)
          PROVE  FALSE
      BY <1>1, <3>5 DEF ProgramStep, SpawnNm, AwaitNm, OpenFile, ReadBlock, EndOfFile, Goto, Ended
    <3> QED BY <1>1, <3>1, <3>2, <3>3, <3>4, <3>5 DEF Next, Ended
  <2>2. CASE CheckFile(p)
    <3>1. pc'[p] # "reading"
      BY <2>2 DEF CheckFile, Goto, TypeOK
    <3> SUFFICES ASSUME pc'[p] = "parse" PROVE Whole(path)'
      BY <3>1
    <3>2. path # NoFile /\ modified[path] > exe.time
      BY <2>2 DEF CheckFile, Goto, TypeOK
    <3>3. path \in Inodes /\ Writers(path) = {} /\ path \notin spoiled
      BY <2>2, <3>2 DEF CheckFile, TypeOK
    <3>4. Whole(path)
      BY <3>2, <3>3 DEF ContentInv
    <3>5. PICK i : i = path
      OBVIOUS
    <3>6. Whole(i)' /\ path' = path
      BY <2>2, <3>4, <3>5, WholeStep DEF QuietStep, ProgramStep, RemoveFails, CheckFile
    <3> QED BY <3>5, <3>6
  <2> QED BY <2>1, <2>2
<1>2. CASE pc[p] \notin Ended \union {"ready"}
  <2>1. /\ p \notin excused
        /\ \/ Idle \/ ShellOpens(p)
           \/ \E q \in Programs : QuietStep(q) /\ (RemoveFile(q) => q = p)
    BY <1>2, Excused
  <2>2. Reads(p)
    BY <2>1 DEF ReaderInv
  <2>3. PICK i, j : i = path /\ j = fd[p]
    OBVIOUS
  <2>4. ASSUME Idle \/ \E q \in Programs : QuietStep(q),
               path' = path, pc'[p] = pc[p], fd'[p] = fd[p], got'[p] = got[p]
        PROVE  Reads(p)'
    <3>1. (Whole(i) => Whole(i)') /\ (Whole(j) => Whole(j)')
      BY <2>4, WholeStep
    <3>2. exe' = exe
      BY <2>4 DEF Idle, Tick, vars, QuietStep, NmReads, NmWrites, NmFails, ProgramStep,
         RemoveFile, RemoveFails, CheckFile, SpawnNm, AwaitNm, OpenFile, ReadBlock, EndOfFile
    <3> QED BY <2>2, <2>3, <2>4, <3>1, <3>2
  <2>5. CASE Idle
    BY <2>4, <2>5 DEF Idle, Tick, vars
  <2>6. ASSUME NEW q \in Programs \ {p}, QuietStep(q), ~ RemoveFile(q) PROVE Reads(p)'
    BY <2>4, <2>6, Others
  <2>7. CASE ShellOpens(p) \/ NmReads(p) \/ NmWrites(p) \/ NmFails(p)
    <3>1. pc' = pc /\ nm[p].at \in {"open", "read", "write"}
      BY <2>7 DEF ShellOpens, NmReads, NmWrites, NmFails
    <3>2. pc[p] \in {"wait", "died"}
      BY <3>1 DEF OpenInv
    <3> QED BY <3>1, <3>2
  <2>8. CASE RemoveFile(p) \/ RemoveFails(p) \/ SpawnNm(p)
    BY <2>8 DEF RemoveFile, RemoveFails, SpawnNm, Goto, TypeOK
  <2>9. CASE CheckFile(p)
    BY <1>2, <2>9 DEF CheckFile, Goto
  <2>10. CASE AwaitNm(p)
    <3>1. p \in CiftDumps
      BY <2>10 DEF AwaitNm, Goto, OpenInv
    <3>2. nm[p].at = "ended" => Whole(i)
      BY <2>1, <2>3, <2>10, <3>1 DEF CiftInv, AwaitNm, Goto
    <3>3. Whole(i) => Whole(i)'
      BY <2>10, WholeStep DEF QuietStep, ProgramStep
    <3> QED BY <2>3, <2>10, <3>2, <3>3 DEF AwaitNm, Goto, TypeOK
  <2>11. CASE OpenFile(p)
    <3>1. pc[p] = "parse" /\ got[p] = << >> /\ Whole(i)
      BY <2>2, <2>3, <2>11 DEF OpenFile, Goto, OpenInv
    <3>2. Whole(i)'
      BY <2>11, <3>1, WholeStep DEF QuietStep, ProgramStep
    <3>3. fd'[p] = i /\ got'[p] = << >> /\ exe' = exe
      BY <2>3, <2>11, <3>1 DEF OpenFile, TypeOK
    <3>4. << >> = Filled(0, exe.build)
      BY DEF Filled
    <3>5. pc'[p] # "parse"
      BY <2>11 DEF OpenFile, Goto, TypeOK
    <3> QED BY <3>2, <3>3, <3>4, <3>5, SymbolFileAssumption
  <2>12. CASE ReadBlock(p)
    <3>1. Whole(j) /\ Len(got[p]) <= Blocks /\ got[p] = Filled(Len(got[p]), exe.build)
      BY <2>2, <2>3, <2>12 DEF ReadBlock, Goto
    <3>2. Whole(j)'
      BY <2>12, <3>1, WholeStep DEF QuietStep, ProgramStep
    <3>3. fd'[p] = j /\ exe' = exe /\ pc'[p] = "reading"
      BY <2>3, <2>12 DEF ReadBlock, Goto, TypeOK
    <3>4. content[j] = Filled(Blocks, exe.build)
      BY <3>1 DEF Whole, Output, Filled
    <3>5. Len(content[j]) = Blocks
      BY <3>4, SymbolFileAssumption DEF Filled
    <3>6. PICK n \in Nat, s \in Seq(Nat) : n = Len(got[p]) /\ s = got[p]
      BY DEF TypeOK
    <3>7. n + 1 <= Blocks /\ got'[p] = Append(s, content[j][n + 1])
      BY <2>3, <2>12, <3>5, <3>6 DEF ReadBlock, TypeOK
    <3>8. content[j][n + 1] = exe.build /\ exe.build \in Nat
      BY <3>4, <3>6, <3>7, SymbolFileAssumption DEF Filled, TypeOK
    <3>9. got'[p] = Filled(n + 1, exe.build) /\ Len(got'[p]) = n + 1
      BY <3>1, <3>6, <3>7, <3>8 DEF Filled
    <3> QED BY <3>2, <3>3, <3>7, <3>9
  <2>13. CASE EndOfFile(p)
    BY <2>13 DEF EndOfFile, Goto, TypeOK
  <2> QED
    <3>1. \A q \in Programs : (QuietStep(q) /\ q # p) => q \in Programs \ {p}
      OBVIOUS
    <3> HIDE DEF Reads
    <3> QED BY <2>1, <2>5, <2>6, <2>7, <2>8, <2>9, <2>10, <2>11, <2>12, <2>13, <3>1
            DEF QuietStep, ProgramStep
<1> QED BY <1>1, <1>2

-----------------------------------------------------------------------------
LEMMA InitIInv == Init => IInv
<1> SUFFICES ASSUME Init PROVE IInv
  OBVIOUS
<1> USE DEF Init, NoFile, NoNm
<1>1. TypeOK
  BY DEF TypeOK, PcType, NmType
<1>2. OpenInv
  BY DEF OpenInv
<1>3. \A i \in Inodes : i # NoFile
  BY DEF Inodes
<1>4. ContentInv
  BY <1>3 DEF ContentInv, Writers
<1>5. TimeInv /\ CiftInv /\ ReaderInv
  BY DEF TimeInv, CiftInv, ReaderInv, Programs
<1> QED BY <1>1, <1>2, <1>4, <1>5 DEF IInv

LEMMA StepIInv == IInv /\ [Next]_vars => IInv'
BY TypeStep, OpenStep, TimeStep, ContentStep, CiftStep, ReaderStep DEF IInv

(* A program that loads is at the end of its file.                         *)
LEMMA LoadStep ==
  ASSUME IInv, Next, NEW p \in Programs \ excused, Loads(p)
  PROVE  got[p] = Output(exe.build)
<1>1. EndOfFile(p)
  <2>1. pc'[p] # pc[p] /\ pc'[p] = "loaded" /\ pc[p] = "reading"
    BY DEF Loads
  <2>2. ~ (Tick \/ Rebuild)
    BY <2>1 DEF Tick, Rebuild
  <2>3. PICK q \in Programs : ProgramStep(q)
    BY <2>1, <2>2 DEF Next, NmStep, ShellOpens, NmReads, NmWrites, NmFails
  <2>4. ~ RemoveFile(q)
    BY <2>1 DEF RemoveFile, IInv, TypeOK
  <2>5. q = p
    BY <2>1, <2>3, <2>4, Others DEF IInv, QuietStep
  <2> QED BY <2>1, <2>3, <2>4, <2>5 DEF ProgramStep, RemoveFails, CheckFile, SpawnNm, AwaitNm, OpenFile,
          ReadBlock, Goto, IInv, TypeOK
<1>2. /\ content[fd[p]] = Filled(Blocks, exe.build)
      /\ Len(got[p]) <= Blocks /\ got[p] = Filled(Len(got[p]), exe.build)
  BY DEF Loads, IInv, ReaderInv, Whole, Output, Filled
<1>3. Len(content[fd[p]]) = Blocks
  BY <1>2, SymbolFileAssumption DEF Filled
<1>4. Len(got[p]) \in Nat
  BY DEF IInv, TypeOK
<1>5. Len(got[p]) = Blocks
  BY <1>1, <1>2, <1>3, <1>4, SymbolFileAssumption DEF EndOfFile
<1> QED BY <1>2, <1>5 DEF Output, Filled

THEOREM Invariance == Spec => []IInv
BY InitIInv, StepIInv, PTL DEF Spec

(* A run of cift-dump that nobody disturbs loads all the symbols of the    *)
(* executable as it is when they are loaded                                *)
(* (nm-symbol-extractor.cpp:64-85).                                        *)
THEOREM CiftDumpsAreCurrent == Spec => CiftDumpIsCurrent
<1>1. IInv /\ [Next]_vars =>
        [\A p \in CiftDumps : (Loads(p) /\ p \notin excused) => got[p] = Output(exe.build)]_vars
  BY LoadStep DEF Programs
<1> QED BY <1>1, Invariance, PTL DEF Spec, CiftDumpIsCurrent

(* So does a run of the Java dumper, with a file that is newer than the    *)
(* executable and that one nm wrote to its end                             *)
(* (NMSymbolExtractor.java:53-65).                                         *)
THEOREM JavaDumpersAreCurrent == Spec => JavaIsCurrent
<1>1. IInv /\ [Next]_vars =>
        [\A p \in JavaDumpers : (Loads(p) /\ p \notin excused) => got[p] = Output(exe.build)]_vars
  BY LoadStep DEF Programs
<1> QED BY <1>1, Invariance, PTL DEF Spec, JavaIsCurrent

=============================================================================
