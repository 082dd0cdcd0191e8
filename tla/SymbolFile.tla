----------------------------- MODULE SymbolFile -----------------------------
(***************************************************************************)
(* The file "<executable>.nmsymbols" between the programs that decode.     *)
(* cift-dump (SymbolLookup::loadSymbolsForExecutable) always has nm write  *)
(* it anew, and waits for nm.  The Java dumper (NMSymbolExtractor.init)    *)
(* keeps a file that is newer than the executable; otherwise it starts nm  *)
(* and calls p.wait(5), which throws for want of p's monitor: the run      *)
(* dies, nm goes on, and the user runs the program again.  Meanwhile the   *)
(* executable may be built anew.                                           *)
(*                                                                         *)
(* A name is removed from the directory at once; who has the file open     *)
(* goes on with it.  A build and its symbols are a number, and a file is   *)
(* a sequence of blocks, each with the build it tells of.  Times are those *)
(* of the file system, as coarse as they are.                              *)
(***************************************************************************)
EXTENDS Integers, Sequences, FiniteSets

CONSTANTS
  CiftDumps,     \* Runs of cift-dump
  JavaDumpers,   \* and of the Java dumper, on one executable.
  Blocks,        \* The blocks of an output of nm.
  MaxBuilds,     \* Bound: the builds of the executable.
  MaxTime        \* Bound: the clock.

ASSUME SymbolFileAssumption ==
  /\ CiftDumps \intersect JavaDumpers = {}
  /\ IsFiniteSet(CiftDumps \union JavaDumpers)
  /\ Blocks \in Nat \ {0} /\ MaxBuilds \in Nat /\ MaxTime \in Nat

Programs == CiftDumps \union JavaDumpers
Inodes   == 1 .. Cardinality(Programs)   \* A run starts nm at most once.
NoFile   == 0
Hole     == 0

VARIABLES
  now,
  exe,       \* The last build of the executable, and its time.
  path,      \* The inode that has the name, or NoFile.
  content,   \* The blocks of each inode,
  modified,  \* and when it was last written.
  pc,
  fd,        \* The inode a program reads,
  got,       \* and the blocks it has read.
  nm,        \* The nm that a program has started.
  spoiled,   \* History: the inodes that no nm wrote alone, to the end and
             \* from the last build;
  excused    \* history: the programs whose file others meddled with.

vars == <<now, exe, path, content, modified, pc, fd, got, nm, spoiled, excused>>

NoNm(at) == [at |-> at, fd |-> NoFile, build |-> 0, offset |-> 0]

Init ==
  /\ now = 0
  /\ exe = [build |-> 1, time |-> 0]
  /\ path = NoFile
  /\ content = [i \in Inodes |-> << >>]
  /\ modified = [i \in Inodes |-> 0]
  /\ pc = [p \in Programs |-> "ready"]
  /\ fd = [p \in Programs |-> NoFile]
  /\ got = [p \in Programs |-> << >>]
  /\ nm = [p \in Programs |-> NoNm("none")]
  /\ spoiled = {}
  /\ excused = {}

-----------------------------------------------------------------------------
Ended   == {"loaded", "unnamed", "died"}
Running == {p \in Programs : pc[p] \notin Ended \union {"ready"}}

(* The runs of nm that have an inode open for writing.                     *)
Writers(i) == {p \in Programs : nm[p].fd = i /\ nm[p].at \in {"read", "write"}}

Goto(p, from, to) ==
  /\ pc[p] = from
  /\ pc' = [pc EXCEPT ![p] = to]

(* What p does to the directory or the executable concerns the others.     *)
Meddles(p) == excused' = excused \union (Running \ {p})

Tick ==
  /\ now < MaxTime
  /\ now' = now + 1
  /\ UNCHANGED <<exe, path, content, modified, pc, fd, got, nm, spoiled, excused>>

Rebuild ==
  /\ exe.build < MaxBuilds
  /\ exe' = [build |-> exe.build + 1, time |-> now]
  /\ spoiled' = spoiled \union {nm[p].fd : p \in {q \in Programs : nm[q].at = "write"}}
  /\ excused' = excused \union Running
  /\ UNCHANGED <<now, path, content, modified, pc, fd, got, nm>>

-----------------------------------------------------------------------------
(* nm --numeric-sort > "<executable>.nmsymbols", by way of the shell.      *)

(* The shell opens the file: it creates it, or empties the one there is.   *)
ShellOpens(p) ==
  LET i == IF path # NoFile THEN path
           ELSE CHOOSE j \in Inodes : \A q \in Programs : j \notin {nm[q].fd, fd[q]}
  IN /\ nm[p].at = "open"
     /\ nm' = [nm EXCEPT ![p] = [NoNm("read") EXCEPT !.fd = i]]
     /\ path' = i
     /\ content' = [content EXCEPT ![i] = << >>]
     /\ modified' = [modified EXCEPT ![i] = now]
     /\ spoiled' = IF Writers(i) = {} THEN spoiled \ {i} ELSE spoiled \union {i}
     /\ Meddles(p)
     /\ UNCHANGED <<now, exe, pc, fd, got>>

(* What is in a file after a block was written at a place.                 *)
Overwrite(old, place, block) ==
  LET end == IF place > Len(old) THEN place ELSE Len(old)
  IN [k \in 1 .. end |-> IF k = place THEN block
                         ELSE IF k <= Len(old) THEN old[k] ELSE Hole]

(* nm reads the symbols, all of them before it can sort them,              *)
NmReads(p) ==
  /\ nm[p].at = "read"
  /\ nm' = [nm EXCEPT ![p] = [@ EXCEPT !.at = "write", !.build = exe.build]]
  /\ UNCHANGED <<now, exe, path, content, modified, pc, fd, got, spoiled, excused>>

(* and writes a block where its last one ended, and ends after the last.   *)
NmWrites(p) ==
  LET i     == nm[p].fd
      place == nm[p].offset + 1
  IN /\ nm[p].at = "write"
     /\ nm' = IF place = Blocks THEN [nm EXCEPT ![p] = NoNm("ended")]
               ELSE [nm EXCEPT ![p].offset = place]
     /\ content' = [content EXCEPT ![i] = Overwrite(@, place, nm[p].build)]
     /\ modified' = [modified EXCEPT ![i] = now]
     /\ UNCHANGED <<now, exe, path, pc, fd, got, spoiled, excused>>

(* It fails at any point: it is not there, the disk is full, it is killed. *)
NmFails(p) ==
  /\ nm[p].at \in {"open", "read", "write"}
  /\ nm' = [nm EXCEPT ![p] = NoNm("failed")]
  /\ spoiled' = spoiled \union {nm[p].fd}
  /\ UNCHANGED <<now, exe, path, content, modified, pc, fd, got, excused>>

-----------------------------------------------------------------------------
RemoveFile_Kept(p) ==
  /\ pc[p] \in {"ready", "delete"}
  /\ p \in CiftDumps \/ pc[p] = "delete"
  /\ pc' = [pc EXCEPT ![p] = "spawn"]
  /\ UNCHANGED <<now, exe, path, content, modified, fd, got, nm, spoiled, excused>>

(* The old file's name goes: first thing in cift-dump, whatever its age.   *)
RemoveFile(p) ==
  /\ pc[p] \in {"ready", "delete"}
  /\ p \in CiftDumps \/ pc[p] = "delete"
  /\ pc' = [pc EXCEPT ![p] = "spawn"]
  /\ path' = NoFile
  /\ Meddles(p)
  /\ UNCHANGED <<now, exe, content, modified, fd, got, nm, spoiled>>

(* It may fail to go, which neither program looks at.  Who is about to     *)
(* have the file written anew, while another nm writes it, is excused.     *)
RemoveFails(p) ==
  /\ pc[p] \in {"ready", "delete"}
  /\ p \in CiftDumps \/ pc[p] = "delete"
  /\ path # NoFile
  /\ pc' = [pc EXCEPT ![p] = "spawn"]
  /\ excused' = IF Writers(path) = {} THEN excused ELSE excused \union {p}
  /\ UNCHANGED <<now, exe, path, content, modified, fd, got, nm, spoiled>>

CheckFile_NotOlder(p) ==
  LET fresh == path # NoFile /\ modified[path] >= exe.time IN
  /\ p \in JavaDumpers
  /\ Goto(p, "ready", CASE fresh -> "parse"
                        [] ~ fresh /\ path # NoFile -> "delete"
                        [] OTHER -> "spawn")
  /\ excused' = IF fresh /\ (Writers(path) # {} \/ path \in spoiled)
                  THEN excused \union {p} ELSE excused
  /\ UNCHANGED <<now, exe, path, content, modified, fd, got, nm, spoiled>>

(* The Java dumper keeps a file that is newer than the executable.  Whether*)
(* it is whole, or is being written, it does not know.                     *)
CheckFile(p) ==
  LET fresh == path # NoFile /\ modified[path] > exe.time IN
  /\ p \in JavaDumpers
  /\ Goto(p, "ready", CASE fresh -> "parse"
                        [] ~ fresh /\ path # NoFile -> "delete"
                        [] OTHER -> "spawn")
  /\ excused' = IF fresh /\ (Writers(path) # {} \/ path \in spoiled)
                  THEN excused \union {p} ELSE excused
  /\ UNCHANGED <<now, exe, path, content, modified, fd, got, nm, spoiled>>

(* system() starts nm and waits for it; exec() starts it, and p.wait(5)    *)
(* ends the run with an exception.                                         *)
SpawnNm(p) ==
  /\ Goto(p, "spawn", IF p \in CiftDumps THEN "wait" ELSE "died")
  /\ nm' = [nm EXCEPT ![p].at = "open"]
  /\ UNCHANGED <<now, exe, path, content, modified, fd, got, spoiled, excused>>

(* Without the symbols of an nm that failed cift-dump does without names.  *)
AwaitNm(p) ==
  /\ nm[p].at \in {"ended", "failed"}
  /\ Goto(p, "wait", IF nm[p].at = "ended" THEN "parse" ELSE "unnamed")
  /\ UNCHANGED <<now, exe, path, content, modified, fd, got, nm, spoiled, excused>>

(* Both parse the file that has the name now, if there is one.             *)
OpenFile(p) ==
  /\ Goto(p, "parse", IF path = NoFile THEN "unnamed" ELSE "reading")
  /\ fd' = [fd EXCEPT ![p] = path]
  /\ UNCHANGED <<now, exe, path, content, modified, got, nm, spoiled, excused>>

ReadBlock(p) ==
  LET here == Len(got[p]) + 1 IN
  /\ Goto(p, "reading", "reading")
  /\ here <= Len(content[fd[p]])
  /\ got' = [got EXCEPT ![p] = Append(@, content[fd[p]][here])]
  /\ UNCHANGED <<now, exe, path, content, modified, fd, nm, spoiled, excused>>

(* At the end of the file its symbols are in the table.                    *)
EndOfFile(p) ==
  /\ Goto(p, "reading", "loaded")
  /\ Len(got[p]) >= Len(content[fd[p]])
  /\ fd' = [fd EXCEPT ![p] = NoFile]
  /\ got' = [got EXCEPT ![p] = << >>]
  /\ UNCHANGED <<now, exe, path, content, modified, nm, spoiled, excused>>

NmStep(p)      == ShellOpens(p) \/ NmReads(p) \/ NmWrites(p)
ProgramStep(p) == \/ RemoveFile(p) \/ RemoveFails(p) \/ CheckFile(p)
                  \/ SpawnNm(p) \/ AwaitNm(p) \/ OpenFile(p) \/ ReadBlock(p) \/ EndOfFile(p)

Next ==
  \/ Tick \/ Rebuild
  \/ \E p \in Programs : NmStep(p) \/ NmFails(p) \/ ProgramStep(p)

Spec == Init /\ [][Next]_vars

-----------------------------------------------------------------------------
(* A whole output of nm for a build.                                       *)
Output(build) == [k \in 1 .. Blocks |-> build]

Loads(p) == pc[p] = "reading" /\ pc'[p] = "loaded"

(* cift-dump loads the symbols of the executable as it is, and all of them *)
(* (nm-symbol-extractor.cpp:64-85): also when an nm that a Java dumper has *)
(* left behind is still writing the file that had the name before.  It is  *)
(* excused if the executable is built, or the name removed or opened by    *)
(* another program, while it runs; or if the name cannot be removed while  *)
(* another nm writes the file.                                             *)
CiftDumpIsCurrent ==
  [][\A p \in CiftDumps : (Loads(p) /\ p \notin excused) => got[p] = Output(exe.build)]_vars

(* The Java dumper too, with a file it did not have written                *)
(* (NMSymbolExtractor.java:53-65): "the symbol file exists and is newer    *)
(* than the executable", be the times as coarse as they are.  It is        *)
(* excused as cift-dump is, and if the file it finds is still being        *)
(* written, or was not written to the end by one nm, or if the executable  *)
(* was built between that nm's reading and its end.                        *)
JavaIsCurrent ==
  [][\A p \in JavaDumpers : (Loads(p) /\ p \notin excused) => got[p] = Output(exe.build)]_vars

=============================================================================
