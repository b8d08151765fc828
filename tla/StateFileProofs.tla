-------------------------- MODULE StateFileProofs --------------------------
(***************************************************************************)
(* Safety of the save protocol for every number of threads, inodes, pieces *)
(* and commits: what holds whoever saves, what holds as long as all saves  *)
(* but the last one of stop() are made under persist_mutex, and that it    *)
(* implements DurableRegister then.                                        *)
(***************************************************************************)
EXTENDS StateFile, TLAPS

Copied == {"create", "write", "readback", "replace"}

\* The mutex admits one session to a save; every writer has an inode of its own,
\* which is not full.
Writing ==
  /\ \A t \in Sessions : pc[t] \in Saving => mutex = t
  /\ \A t \in Threads : pc[t] \in {"committed", "waiting"} => t \in Sessions /\ commit[t] \in Commits
  /\ \A t \in Threads : IF pc[t] = "write" THEN inode[t] \in Inodes /\ disk[inode[t]].written < Pieces
                                            ELSE inode[t] = NoInode
  /\ \A t, u \in Threads : inode[t] = inode[u] /\ inode[t] # NoInode => t = u

\* What has a name is whole or still being written, unless something failed.
NamesWritten ==
  crashes = 0 /\ failures = 0 =>
    \A i \in {temp, path} \ {NoInode} : Whole(i) \/ \E t \in Threads : inode[t] = i

\* What holds whoever saves.
AnyWriters == TypeOK /\ Writing /\ NamesWritten

\* Whose turn it is: stop() saves when every session thread has ended.
Turns ==
  /\ \A t \in Direct : pc[t] \in {"idle"} \cup Saving /\ (pc[t] # "idle" => stopping)
  /\ stopping => \A t, u \in Threads : pc[t] # "idle" /\ pc[u] # "idle" => t = u /\ t \in Direct
  /\ ~running => \A t \in Threads : pc[t] = "idle"

\* The writer's inode is not the authoritative one, and what is renamed is whole.
FilesKept ==
  /\ \A t \in Threads : IF pc[t] = "write"
       THEN /\ inode[t] \in Inodes /\ inode[t] # path /\ temp \in {NoInode, inode[t]}
            /\ disk[inode[t]].state = copy[t] /\ disk[inode[t]].written < Pieces
       ELSE inode[t] = NoInode
  /\ \A t \in Threads : pc[t] \in {"readback", "replace"} /\ temp # NoInode =>
       Whole(temp) /\ disk[temp].state = copy[t]
  /\ temp # NoInode => temp # path
  /\ AuthoritativeWhole

\* From the file over the copies to the registry the commits grow.
CopiesGrow ==
  /\ \A t \in Threads : pc[t] \in Copied => Durable \subseteq copy[t] /\ copy[t] \subseteq memory
  /\ running => Durable \subseteq memory
  /\ saved \subseteq Durable
  /\ \A c \in memory \cup Durable : c <= issued

\* The commit a session works for is in what it has of the registry.
CommitsCopied ==
  /\ \A t \in Sessions : pc[t] # "idle" => commit[t] \in Commits
  /\ \A t \in Sessions : pc[t] \in {"committed", "waiting", "copy"} => commit[t] \in memory
  /\ \A t \in Sessions : pc[t] \in Copied => commit[t] \in copy[t]

OneWriter == TypeOK /\ Writing /\ Turns /\ FilesKept /\ CopiesGrow /\ CommitsCopied /\ AnsweredOnItsWay

SInv == AnyWriters /\ (~overlap => OneWriter)
-----------------------------------------------------------------------------
\* The two outcomes of a step of a save.
Unlink(t) ==
  /\ running /\ pc[t] = "create" /\ temp # NoInode
  /\ temp' = NoInode
  /\ retried' = [retried EXCEPT ![t] = TRUE]
  /\ UNCHANGED <<registry_vars, disk, path, mutex, pc, commit, copy, inode, bounds>>

Verify(t) ==
  /\ running /\ pc[t] = "readback" /\ Verified(temp)
  /\ Move(t, "replace")
  /\ UNCHANGED <<registry_vars, file_vars, mutex, commit, copy, inode, retried, bounds>>

Rename(t) ==
  /\ running /\ pc[t] = "replace" /\ temp # NoInode
  /\ path' = temp /\ temp' = NoInode
  /\ saved' = saved \cup copy[t]
  /\ EndSave(t)
  /\ UNCHANGED <<running, stopping, memory, issued, answered, reported, disk, bounds>>

Fail(t) ==
  /\ running /\ pc[t] \in Copied
  /\ FailSave(t)
  /\ failures' \in {failures, failures + 1} /\ (failures' # failures => failures < MaxFailures)
  /\ pc[t] = "write" => failures' = failures + 1

LEMMA Outcomes ==
  ASSUME NEW t \in Threads, TypeOK
  PROVE /\ UnlinkExisting(t) => Unlink(t) \/ Fail(t)
        /\ ReadBack(t) => Verify(t) \/ Fail(t)
        /\ Replace(t) => Rename(t) \/ Fail(t)
        /\ IOFailure(t) => Fail(t)
  <1>1. UnlinkExisting(t) => Unlink(t) \/ Fail(t)
    BY DEF UnlinkExisting, Unlink, Fail, Copied
  <1>2. ReadBack(t) => Verify(t) \/ Fail(t)
    BY DEF ReadBack, Verify, Fail, Copied
  <1>3. Replace(t) => Rename(t) \/ Fail(t)
    BY DEF Replace, Rename, Fail, Copied
  <1>4. IOFailure(t) => Fail(t)
    BY StateFileAssumption DEF IOFailure, Fail, Copied, Bound, TypeOK
  <1> QED
    BY <1>1, <1>2, <1>3, <1>4

\* The steps by what they do, one thread's and the process's.
Committing(t) == Commit(t) \/ SendOutcome(t)
Entering(t) == PersistIfNeeded(t) \/ SaveDirectly(t)
Filling(t) == Copy(t) \/ CreateTemporary(t) \/ WritePiece(t) \/ Unlink(t) \/ Verify(t)
Ending(t) == Rename(t) \/ Fail(t)
Process == Crash \/ Exit \/ Start \/ Inspect

LEMMA Steps ==
  ASSUME [Next]_vars, TypeOK
  PROVE \/ \E t \in Threads : Committing(t) \/ Entering(t) \/ Filling(t) \/ Ending(t)
        \/ Process \/ UNCHANGED vars
  BY Outcomes DEF Next, ThreadStep, SaveStep, Committing, Entering, Filling, Ending, Process

\* No two threads are in a save.
LEMMA Alone ==
  ASSUME Turns, Writing, TypeOK, NEW t \in Threads, NEW u \in Threads, pc[t] \in Saving, pc[u] \in Saving
  PROVE t = u
  BY DEF Turns, Writing, TypeOK, Threads, Saving

\* A save finds an inode for its file that has no name and no other writer: only
\* the direct writers and one session thread can hold one.
LEMMA FreeInodeIsFree ==
  ASSUME TypeOK, Writing, NEW t \in Threads, pc[t] = "create", temp = NoInode
  PROVE FreeInode \in Inodes /\ FreeInode # path /\ \A u \in Threads : inode[u] # FreeInode
  <1>1. PICK k \in Inodes : TRUE
    BY StateFileAssumption
  <1> DEFINE held(i) == IF i = NoInode THEN k ELSE i
             taken == [d \in Direct \cup {NoThread} |->
                         IF d = NoThread THEN held(path)
                         ELSE IF d # t THEN held(inode[d])
                         ELSE IF mutex \in Sessions THEN held(inode[mutex]) ELSE k]
  <1>2. taken \in [Direct \cup {NoThread} -> Inodes]
    <2>1. \A i \in Inodes \cup {NoInode} : held(i) \in Inodes
      OBVIOUS
    <2>2. path \in Inodes \cup {NoInode} /\ \A u \in Threads : inode[u] \in Inodes \cup {NoInode}
      BY DEF TypeOK
    <2> HIDE DEF held
    <2> QED
      BY <2>1, <2>2 DEF Threads
  <1>3. PICK i \in Inodes : \A d \in Direct \cup {NoThread} : taken[d] # i
    <2> HIDE DEF taken
    <2> QED
      BY <1>2, StateFileAssumption
  <1>4. i # NoInode /\ i # path
    <2>1. taken[NoThread] = held(path) /\ taken[NoThread] # i
      BY <1>3
    <2> QED
      BY <2>1, StateFileAssumption
  <1>5. ASSUME NEW u \in Threads, inode[u] = i PROVE FALSE
    <2>1. u # t /\ pc[u] = "write"
      BY <1>4, <1>5 DEF Writing
    <2>2. CASE u \in Direct
      <3>1. u # NoThread /\ taken[u] = held(inode[u]) /\ taken[u] # i
        BY <1>3, <2>1, <2>2, StateFileAssumption
      <3> QED
        BY <1>4, <1>5, <3>1
    <2>3. CASE u \in Sessions
      <3>1. mutex = u /\ t \in Direct /\ t # NoThread
        BY <2>1, <2>3, StateFileAssumption DEF Writing, Saving, Threads
      <3>2. taken[t] = held(inode[u]) /\ taken[t] # i
        BY <1>3, <2>3, <3>1
      <3> QED
        BY <1>4, <1>5, <3>2
    <2> QED
      BY <2>2, <2>3 DEF Threads
  <1>6. \E j \in Inodes : j \notin {temp, path} /\ \A u \in Threads : inode[u] # j
    BY <1>4, <1>5
  <1> QED
    BY <1>6 DEF FreeInode

\* The invariant holds at the start.
LEMMA InitSInv == Init => SInv
  <1> SUFFICES ASSUME Init PROVE SInv
    OBVIOUS
  <1>0. /\ 0 \in 0 .. MaxCommits /\ 0 \in 0 .. MaxCrashes /\ 0 \in 0 .. MaxFailures
        /\ 0 \in 0 .. MaxInspections /\ 0 \in 0 .. Pieces
    BY StateFileAssumption
  <1>a. disk \in [Inodes -> Files]
    BY <1>0 DEF Init, Files
  <1>b. /\ commit \in [Threads -> 0 .. MaxCommits] /\ copy \in [Threads -> SUBSET Commits]
        /\ pc \in [Threads -> {"idle", "committed", "waiting"} \cup Saving]
        /\ inode \in [Threads -> Inodes \cup {NoInode}] /\ retried \in [Threads -> BOOLEAN]
    BY <1>0 DEF Init
  <1>1. TypeOK
    BY <1>0, <1>a, <1>b DEF Init, TypeOK
  <1>2. Writing /\ NamesWritten
    BY DEF Init, Writing, NamesWritten, Saving, Threads
  <1> QED
    BY <1>1, <1>2 DEF Init, SInv, AnyWriters, OneWriter, Turns, FilesKept, CopiesGrow, CommitsCopied, Durable,
      AuthoritativeWhole, AnsweredOnItsWay, Saving, Copied, Threads
-----------------------------------------------------------------------------
(* The steps *)

\* The end of a save leaves its thread's variables typed.
LEMMA EndTyped ==
  ASSUME TypeOK, NEW t \in Threads, EndSave(t)
  PROVE /\ mutex' \in Threads \cup {NoThread}
        /\ pc' \in [Threads -> {"idle", "committed", "waiting"} \cup Saving]
        /\ commit' \in [Threads -> 0 .. MaxCommits] /\ copy' \in [Threads -> SUBSET Commits]
        /\ inode' \in [Threads -> Inodes \cup {NoInode}] /\ retried' \in [Threads -> BOOLEAN]
  <1>1. 0 \in 0 .. MaxCommits
    BY StateFileAssumption
  <1> QED
    BY <1>1 DEF EndSave, TypeOK, Move

\* Every step keeps the types.
LEMMA StepTyped == ASSUME TypeOK, Writing, [Next]_vars PROVE TypeOK'
  <1> USE DEF TypeOK, Saving, registry_vars, file_vars, thread_vars, bounds
  <1>1. CASE \E t \in Threads : Committing(t) \/ Entering(t) \/ Filling(t) \/ Ending(t)
    <2> PICK t \in Threads : Committing(t) \/ Entering(t) \/ Filling(t) \/ Ending(t)
      BY <1>1
    <2>1. CASE Commit(t)
      <3>1. issued + 1 \in 0 .. MaxCommits /\ issued + 1 \in Commits
        BY <2>1, StateFileAssumption DEF Commit, Commits
      <3> QED
        BY <2>1, <3>1 DEF Commit, Move
    <2>2. CASE SendOutcome(t)
      <3>1. commit[t] \in Commits
        BY <2>2 DEF SendOutcome, Writing
      <3> QED
        BY <2>2, <3>1 DEF SendOutcome, Move
    <2>3. CASE PersistIfNeeded(t)
      BY <2>3 DEF PersistIfNeeded, Move
    <2>4. CASE SaveDirectly(t)
      BY <2>4 DEF SaveDirectly, Move
    <2>5. CASE Copy(t)
      BY <2>5 DEF Copy, Move
    <2>6. CASE CreateTemporary(t)
      <3>1. FreeInode \in Inodes
        BY <2>6, FreeInodeIsFree DEF CreateTemporary
      <3>2. [state |-> copy[t], written |-> 0] \in Files
        BY StateFileAssumption DEF Files
      <3> QED
        BY <2>6, <3>1, <3>2 DEF CreateTemporary, Move
    <2>7. CASE WritePiece(t)
      <3>1. inode[t] \in Inodes /\ disk[inode[t]] \in Files /\ disk[inode[t]].written < Pieces
        BY <2>7 DEF WritePiece, Writing
      <3>2. PICK d \in Files : d = disk[inode[t]]
        BY <3>1
      <3>3. [d EXCEPT !.written = d.written + 1] \in Files
        BY <3>1, <3>2, StateFileAssumption DEF Files
      <3>4. disk' \in [Inodes -> Files]
        BY <2>7, <3>1, <3>2, <3>3 DEF WritePiece
      <3> QED
        BY <2>7, <3>4 DEF WritePiece, Move
    <2>8. CASE Unlink(t)
      BY <2>8 DEF Unlink, Move
    <2>9. CASE Verify(t)
      BY <2>9 DEF Verify, Move
    <2>10. CASE Rename(t)
      <3>1. saved' \in SUBSET Commits
        BY <2>10 DEF Rename
      <3> QED
        BY <2>10, <3>1, EndTyped DEF Rename
    <2>11. CASE Fail(t)
      <3>1. failures' \in 0 .. MaxFailures
        BY <2>11, StateFileAssumption DEF Fail
      <3> QED
        BY <2>11, <3>1, EndTyped DEF Fail, FailSave
    <2> QED
      BY <2>1, <2>2, <2>3, <2>4, <2>5, <2>6, <2>7, <2>8, <2>9, <2>10, <2>11
        DEF Committing, Entering, Filling, Ending
  <1>2. CASE Process
    <2>1. CASE Crash
      <3>1. crashes' \in 0 .. MaxCrashes
        BY <2>1, StateFileAssumption DEF Crash, Bound
      <3>2. 0 \in 0 .. MaxCommits
        BY StateFileAssumption
      <3> QED
        BY <2>1, <3>1, <3>2 DEF Crash
    <2>2. CASE Exit
      BY <2>2 DEF Exit
    <2>3. CASE Start
      <3>1. path # NoInode => disk[path] \in Files
        OBVIOUS
      <3>2. Durable \in SUBSET Commits
        BY <3>1 DEF Durable, Files
      <3> QED
        BY <2>3, <3>2 DEF Start
    <2>4. CASE Inspect
      <3>1. inspections' \in 0 .. MaxInspections
        BY <2>4, StateFileAssumption DEF Inspect, Bound
      <3> QED
        BY <2>4, <3>1 DEF Inspect
    <2> QED
      BY <1>2, <2>1, <2>2, <2>3, <2>4 DEF Process
  <1>3. CASE UNCHANGED vars
    BY <1>3 DEF vars
  <1> QED
    BY <1>1, <1>2, <1>3, Steps

\* The files of the writers, and of a new one, are different.
LEMMA StepWriting == ASSUME AnyWriters, [Next]_vars PROVE Writing' /\ NamesWritten'
  <1> USE DEF AnyWriters, TypeOK, Writing, NamesWritten, Whole, Files, Saving, registry_vars,
    file_vars, thread_vars, bounds
  <1>1. CASE \E t \in Threads : Committing(t) \/ Entering(t) \/ Filling(t) \/ Ending(t)
    <2> PICK t \in Threads : Committing(t) \/ Entering(t) \/ Filling(t) \/ Ending(t)
      BY <1>1
    <2>1. CASE Commit(t)
      <3>1. issued + 1 \in Commits
        BY <2>1, StateFileAssumption DEF Commit, Commits
      <3> QED
        BY <2>1, <3>1 DEF Commit, Move
    <2>2. CASE SendOutcome(t)
      BY <2>2 DEF SendOutcome, Move
    <2>3. CASE PersistIfNeeded(t)
      BY <2>3, StateFileAssumption DEF PersistIfNeeded, Move
    <2>4. CASE SaveDirectly(t)
      BY <2>4, StateFileAssumption DEF SaveDirectly, Move
    <2>5. CASE Copy(t)
      BY <2>5 DEF Copy, Move
    <2>6. CASE CreateTemporary(t)
      <3>1. FreeInode \in Inodes /\ FreeInode # path /\ (\A u \in Threads : inode[u] # FreeInode) /\ FreeInode # NoInode
        BY <2>6, FreeInodeIsFree, StateFileAssumption DEF CreateTemporary
      <3>2. /\ inode' = [inode EXCEPT ![t] = FreeInode] /\ temp' = FreeInode /\ path' = path
            /\ pc' = [pc EXCEPT ![t] = "write"]
            /\ disk' = [disk EXCEPT ![FreeInode] = [state |-> copy[t], written |-> 0]]
            /\ UNCHANGED <<mutex, commit, crashes, failures>>
        BY <2>6 DEF CreateTemporary, Move
      <3>3. disk'[FreeInode].written = 0 /\ \A i \in Inodes : i # FreeInode => disk'[i] = disk[i]
        BY <3>1, <3>2
      <3>4. \A u \in Threads : inode'[u] = IF u = t THEN FreeInode ELSE inode[u]
        BY <3>2
      <3>5. Writing'
        BY <2>6, <3>1, <3>2, <3>3, <3>4, StateFileAssumption DEF CreateTemporary
      <3>6. NamesWritten'
        BY <2>6, <3>1, <3>2, <3>3, <3>4 DEF CreateTemporary
      <3> QED
        BY <3>5, <3>6
    <2>7. CASE WritePiece(t)
      <3>1. /\ inode[t] \in Inodes /\ inode[t] # NoInode
            /\ disk'[inode[t]].written = disk[inode[t]].written + 1
            /\ disk[inode[t]].written \in 0 .. Pieces /\ disk[inode[t]].written < Pieces
            /\ \A i \in Inodes : i # inode[t] => disk'[i] = disk[i]
        BY <2>7, StateFileAssumption DEF WritePiece
      <3>2. /\ UNCHANGED <<temp, path, mutex, commit, crashes, failures>>
            /\ \A u \in Threads : u # t => pc'[u] = pc[u] /\ inode'[u] = inode[u]
            /\ \/ /\ disk'[inode[t]].written = Pieces /\ pc'[t] = "readback" /\ inode'[t] = NoInode
               \/ /\ disk'[inode[t]].written # Pieces /\ pc'[t] = "write" /\ inode'[t] = inode[t]
        BY <2>7 DEF WritePiece, Move
      <3>3. disk'[inode[t]].written # Pieces => disk'[inode[t]].written < Pieces
        <4>1. PICK n \in 0 .. Pieces : n = disk[inode[t]].written /\ n < Pieces /\ disk'[inode[t]].written = n + 1
          BY <3>1
        <4>2. n + 1 # Pieces => n + 1 < Pieces
          BY <4>1, StateFileAssumption
        <4> QED
          BY <4>1, <4>2
      <3>4. Writing'
        <4>1. pc[t] = "write" /\ Sessions \subseteq Threads
          BY <2>7 DEF WritePiece, Threads
        <4>2. \A u \in Threads : IF pc'[u] = "write" THEN inode'[u] \in Inodes /\ disk'[inode'[u]].written < Pieces
                                                   ELSE inode'[u] = NoInode
          <5>1. ASSUME NEW u \in Threads, u # t, pc[u] = "write"
                PROVE inode[u] \in Inodes /\ inode[u] # inode[t] /\ disk'[inode[u]] = disk[inode[u]]
            BY <3>1, <5>1
          <5> QED
            BY <3>1, <3>2, <3>3, <5>1
        <4> QED
          BY <3>2, <4>1, <4>2
      <3>5. NamesWritten'
        BY <3>1, <3>2
      <3> QED
        BY <3>4, <3>5
    <2>8. CASE Unlink(t)
      BY <2>8 DEF Unlink
    <2>9. CASE Verify(t)
      BY <2>9 DEF Verify, Move
    <2>10. CASE Rename(t)
      BY <2>10 DEF Rename, EndSave, Move
    <2>11. CASE Fail(t)
      BY <2>11, StateFileAssumption DEF Fail, FailSave, EndSave, Move
    <2> QED
      BY <2>1, <2>2, <2>3, <2>4, <2>5, <2>6, <2>7, <2>8, <2>9, <2>10, <2>11
        DEF Committing, Entering, Filling, Ending
  <1>2. CASE Process
    <2>1. CASE Crash
      BY <2>1, StateFileAssumption DEF Crash, Threads
    <2>2. CASE Exit
      BY <2>2 DEF Exit
    <2>3. CASE Start
      BY <2>3 DEF Start
    <2>4. CASE Inspect
      BY <2>4 DEF Inspect
    <2> QED
      BY <1>2, <2>1, <2>2, <2>3, <2>4 DEF Process
  <1>3. CASE UNCHANGED vars
    BY <1>3 DEF vars
  <1> QED
    BY <1>1, <1>2, <1>3, Steps

\* A thread enters a save only when no other is in one.
LEMMA StepTurns == ASSUME OneWriter, [Next]_vars, ~overlap PROVE Turns'
  <1> USE DEF OneWriter, TypeOK, Turns, Threads, Saving, Copied, registry_vars, file_vars,
    thread_vars, bounds
  <1>1. CASE \E t \in Threads : Committing(t) \/ Entering(t) \/ Filling(t) \/ Ending(t)
    <2> PICK t \in Threads : Committing(t) \/ Entering(t) \/ Filling(t) \/ Ending(t)
      BY <1>1
    <2>1. CASE Commit(t)
      BY <2>1, StateFileAssumption DEF Commit, Move
    <2>2. CASE SendOutcome(t)
      BY <2>2 DEF SendOutcome, Move
    <2>3. CASE PersistIfNeeded(t)
      BY <2>3, StateFileAssumption DEF PersistIfNeeded, Move
    <2>4. CASE SaveDirectly(t)
      BY <2>4, StateFileAssumption DEF SaveDirectly, Move
    <2>5. CASE Copy(t)
      BY <2>5 DEF Copy, Move
    <2>6. CASE CreateTemporary(t)
      BY <2>6 DEF CreateTemporary, Move
    <2>7. CASE WritePiece(t)
      BY <2>7 DEF WritePiece, Move
    <2>8. CASE Unlink(t)
      BY <2>8 DEF Unlink, Move
    <2>9. CASE Verify(t)
      BY <2>9 DEF Verify, Move
    <2>10. CASE Rename(t)
      BY <2>10 DEF Rename, EndSave, Move
    <2>11. CASE Fail(t)
      BY <2>11 DEF Fail, FailSave, EndSave, Move
    <2> QED
      BY <2>1, <2>2, <2>3, <2>4, <2>5, <2>6, <2>7, <2>8, <2>9, <2>10, <2>11
        DEF Committing, Entering, Filling, Ending
  <1>2. CASE Process
    <2>1. CASE Crash
      BY <2>1 DEF Crash
    <2>2. CASE Exit
      BY <2>2 DEF Exit
    <2>3. CASE Start
      BY <2>3 DEF Start
    <2>4. CASE Inspect
      BY <2>4 DEF Inspect
    <2> QED
      BY <1>2, <2>1, <2>2, <2>3, <2>4 DEF Process
  <1>3. CASE UNCHANGED vars
    BY <1>3 DEF vars
  <1> QED
    BY <1>1, <1>2, <1>3, Steps

\* A writer's file has one name, and only a whole one gets the name of the
\* authoritative file.
LEMMA StepFiles == ASSUME OneWriter, [Next]_vars, ~overlap PROVE FilesKept'
  <1> USE DEF OneWriter, TypeOK, FilesKept, AuthoritativeWhole, Whole, Verified, Files, Copied,
    registry_vars, file_vars, thread_vars, bounds
  <1>1. CASE \E t \in Threads : Committing(t) \/ Entering(t) \/ Filling(t) \/ Ending(t)
    <2> PICK t \in Threads : Committing(t) \/ Entering(t) \/ Filling(t) \/ Ending(t)
      BY <1>1
    <2>1. CASE Commit(t)
      BY <2>1 DEF Commit, Move
    <2>2. CASE SendOutcome(t)
      BY <2>2 DEF SendOutcome, Move
    <2>3. CASE PersistIfNeeded(t)
      BY <2>3 DEF PersistIfNeeded, Move
    <2>4. CASE SaveDirectly(t)
      BY <2>4 DEF SaveDirectly, Move
    <2>5. CASE Copy(t)
      BY <2>5 DEF Copy, Move
    <2>6. CASE CreateTemporary(t)
      <3>1. FreeInode \in Inodes /\ FreeInode # path
        BY <2>6, FreeInodeIsFree DEF CreateTemporary
      <3>2. \A u \in Threads : u # t => pc[u] \notin Saving
        BY <2>6, Alone DEF CreateTemporary, Saving
      <3>3. disk' = [disk EXCEPT ![FreeInode] = [state |-> copy[t], written |-> 0]]
        BY <2>6 DEF CreateTemporary
      <3>4. disk'[FreeInode].state = copy[t] /\ disk'[FreeInode].written = 0
        BY <3>1, <3>3
      <3>5. path # NoInode => disk'[path] = disk[path]
        BY <3>1, <3>3
      <3> QED
        BY <2>6, <3>1, <3>2, <3>4, <3>5, StateFileAssumption DEF CreateTemporary, Move, Saving
    <2>7. CASE WritePiece(t)
      <3>1. inode[t] \in Inodes /\ inode[t] # path /\ temp \in {NoInode, inode[t]}
        BY <2>7 DEF WritePiece
      <3>2. \A u \in Threads : u # t => pc[u] \notin Saving
        BY <2>7, Alone DEF WritePiece, Saving
      <3>3. /\ disk'[inode[t]].state = copy[t]
            /\ disk'[inode[t]].written = disk[inode[t]].written + 1
            /\ disk[inode[t]].written \in 0 .. Pieces
        BY <2>7, <3>1 DEF WritePiece
      <3>4. path # NoInode => disk'[path] = disk[path]
        BY <2>7, <3>1 DEF WritePiece
      <3> QED
        BY <2>7, <3>1, <3>2, <3>3, <3>4, StateFileAssumption DEF WritePiece, Move, Saving
    <2>8. CASE Unlink(t)
      BY <2>8 DEF Unlink, Move
    <2>9. CASE Verify(t)
      BY <2>9 DEF Verify, Move
    <2>10. CASE Rename(t)
      BY <2>10 DEF Rename, EndSave, Move
    <2>11. CASE Fail(t)
      BY <2>11 DEF Fail, FailSave, EndSave, Move
    <2> QED
      BY <2>1, <2>2, <2>3, <2>4, <2>5, <2>6, <2>7, <2>8, <2>9, <2>10, <2>11
        DEF Committing, Entering, Filling, Ending
  <1>2. CASE Process
    <2>1. CASE Crash
      BY <2>1 DEF Crash
    <2>2. CASE Exit
      BY <2>2 DEF Exit
    <2>3. CASE Start
      BY <2>3 DEF Start
    <2>4. CASE Inspect
      BY <2>4 DEF Inspect
    <2> QED
      BY <1>2, <2>1, <2>2, <2>3, <2>4 DEF Process
  <1>3. CASE UNCHANGED vars
    BY <1>3 DEF vars
  <1> QED
    BY <1>1, <1>2, <1>3, Steps

\* A save makes what it copied durable, which holds what was durable before.
LEMMA StepCopies == ASSUME OneWriter, [Next]_vars, ~overlap PROVE CopiesGrow'
  <1> USE DEF OneWriter, TypeOK, FilesKept, CopiesGrow, Durable, Copied, registry_vars,
    file_vars, thread_vars, bounds
  <1>1. CASE \E t \in Threads : Committing(t) \/ Entering(t) \/ Filling(t) \/ Ending(t)
    <2> PICK t \in Threads : Committing(t) \/ Entering(t) \/ Filling(t) \/ Ending(t)
      BY <1>1
    <2>1. CASE Commit(t)
      <3>1. \A c \in memory' \cup Durable' : c <= issued'
        <4>1. path # NoInode => disk[path].state \subseteq Commits
          BY DEF Files
        <4>2. \A c \in Commits : c \in Nat
          BY DEF Commits
        <4> QED
          BY <2>1, <4>1, <4>2 DEF Commit
      <3> QED
        BY <2>1, <3>1 DEF Commit, Move
    <2>2. CASE SendOutcome(t)
      BY <2>2 DEF SendOutcome, Move
    <2>3. CASE PersistIfNeeded(t)
      BY <2>3 DEF PersistIfNeeded, Move
    <2>4. CASE SaveDirectly(t)
      BY <2>4 DEF SaveDirectly, Move
    <2>5. CASE Copy(t)
      BY <2>5 DEF Copy, Move
    <2>6. CASE CreateTemporary(t)
      <3>1. path # NoInode => disk'[path] = disk[path]
        BY <2>6, FreeInodeIsFree DEF CreateTemporary
      <3> QED
        BY <2>6, <3>1 DEF CreateTemporary, Move
    <2>7. CASE WritePiece(t)
      BY <2>7 DEF WritePiece, Move
    <2>8. CASE Unlink(t)
      BY <2>8 DEF Unlink, Move
    <2>9. CASE Verify(t)
      BY <2>9 DEF Verify, Move
    <2>10. CASE Rename(t)
      <3>1. \A u \in Threads : u # t => pc[u] \notin Saving
        BY <2>10, Alone DEF Rename, Saving
      <3>2. Durable' = copy[t]
        BY <2>10 DEF Rename
      <3>3. Durable \subseteq copy[t] /\ copy[t] \subseteq memory
        BY <2>10 DEF Rename
      <3> QED
        BY <2>10, <3>1, <3>2, <3>3 DEF Rename, EndSave, Move, Saving
    <2>11. CASE Fail(t)
      BY <2>11 DEF Fail, FailSave, EndSave, Move
    <2> QED
      BY <2>1, <2>2, <2>3, <2>4, <2>5, <2>6, <2>7, <2>8, <2>9, <2>10, <2>11
        DEF Committing, Entering, Filling, Ending
  <1>2. CASE Process
    <2>1. CASE Crash
      BY <2>1 DEF Crash
    <2>2. CASE Exit
      BY <2>2 DEF Exit
    <2>3. CASE Start
      BY <2>3 DEF Start, Turns
    <2>4. CASE Inspect
      BY <2>4 DEF Inspect
    <2> QED
      BY <1>2, <2>1, <2>2, <2>3, <2>4 DEF Process
  <1>3. CASE UNCHANGED vars
    BY <1>3 DEF vars
  <1> QED
    BY <1>1, <1>2, <1>3, Steps

\* A session's commit is in what it goes on with.
LEMMA StepCommits == ASSUME OneWriter, [Next]_vars, ~overlap PROVE CommitsCopied'
  <1> USE DEF OneWriter, TypeOK, CommitsCopied, Turns, Saving, Copied, Threads, registry_vars,
    file_vars, thread_vars, bounds
  <1>1. CASE \E t \in Threads : Committing(t) \/ Entering(t) \/ Filling(t) \/ Ending(t)
    <2> PICK t \in Threads : Committing(t) \/ Entering(t) \/ Filling(t) \/ Ending(t)
      BY <1>1
    <2>1. CASE Commit(t)
      <3>1. t \in Sessions /\ issued + 1 \in Commits /\ memory \subseteq memory'
        BY <2>1, StateFileAssumption DEF Commit, Commits
      <3> QED
        BY <2>1, <3>1 DEF Commit, Move
    <2>2. CASE SendOutcome(t)
      BY <2>2, StateFileAssumption DEF SendOutcome, Move
    <2>3. CASE PersistIfNeeded(t)
      BY <2>3, StateFileAssumption DEF PersistIfNeeded, Move
    <2>4. CASE SaveDirectly(t)
      BY <2>4, StateFileAssumption DEF SaveDirectly, Move
    <2>5. CASE Copy(t)
      BY <2>5, StateFileAssumption DEF Copy, Move
    <2>6. CASE CreateTemporary(t)
      BY <2>6, StateFileAssumption DEF CreateTemporary, Move
    <2>7. CASE WritePiece(t)
      BY <2>7, StateFileAssumption DEF WritePiece, Move
    <2>8. CASE Unlink(t)
      BY <2>8, StateFileAssumption DEF Unlink, Move
    <2>9. CASE Verify(t)
      BY <2>9, StateFileAssumption DEF Verify, Move
    <2>10. CASE Rename(t)
      BY <2>10, StateFileAssumption DEF Rename, EndSave, Move
    <2>11. CASE Fail(t)
      BY <2>11, StateFileAssumption DEF Fail, FailSave, EndSave, Move
    <2> QED
      BY <2>1, <2>2, <2>3, <2>4, <2>5, <2>6, <2>7, <2>8, <2>9, <2>10, <2>11
        DEF Committing, Entering, Filling, Ending
  <1>2. CASE Process
    <2>1. CASE Crash
      BY <2>1, StateFileAssumption DEF Crash
    <2>2. CASE Exit
      BY <2>2, StateFileAssumption DEF Exit
    <2>3. CASE Start
      BY <2>3, StateFileAssumption DEF Start
    <2>4. CASE Inspect
      BY <2>4, StateFileAssumption DEF Inspect
    <2> QED
      BY <1>2, <2>1, <2>2, <2>3, <2>4 DEF Process
  <1>3. CASE UNCHANGED vars
    BY <1>3 DEF vars
  <1> QED
    BY <1>1, <1>2, <1>3, Steps

\* A commit that is answered stays with its thread until it is in the file.
LEMMA StepAnswers == ASSUME OneWriter, [Next]_vars, ~overlap PROVE AnsweredOnItsWay'
  <1> USE DEF OneWriter, TypeOK, AnsweredOnItsWay, CommitsCopied, Turns, Saving, Copied,
    Threads, Durable, registry_vars, file_vars, thread_vars, bounds
  <1>1. CASE \E t \in Threads : Committing(t) \/ Entering(t) \/ Filling(t) \/ Ending(t)
    <2> PICK t \in Threads : Committing(t) \/ Entering(t) \/ Filling(t) \/ Ending(t)
      BY <1>1
    <2>1. CASE Commit(t)
      BY <2>1, StateFileAssumption DEF Commit, Move
    <2>2. CASE SendOutcome(t)
      BY <2>2, StateFileAssumption DEF SendOutcome, Move
    <2>3. CASE PersistIfNeeded(t)
      BY <2>3, StateFileAssumption DEF PersistIfNeeded, Move
    <2>4. CASE SaveDirectly(t)
      BY <2>4, StateFileAssumption DEF SaveDirectly, Move
    <2>5. CASE Copy(t)
      BY <2>5, StateFileAssumption DEF Copy, Move
    <2>6. CASE CreateTemporary(t)
      <3>1. path # NoInode => disk'[path] = disk[path]
        BY <2>6, FreeInodeIsFree DEF CreateTemporary
      <3> QED
        BY <2>6, <3>1 DEF CreateTemporary, Move
    <2>7. CASE WritePiece(t)
      <3>1. path # NoInode => disk'[path] = disk[path]
        BY <2>7 DEF WritePiece, FilesKept
      <3> QED
        BY <2>7, <3>1 DEF WritePiece, Move
    <2>8. CASE Unlink(t)
      BY <2>8, StateFileAssumption DEF Unlink, Move
    <2>9. CASE Verify(t)
      BY <2>9, StateFileAssumption DEF Verify, Move
    <2>10. CASE Rename(t)
      <3>1. Durable' = copy[t]
        BY <2>10 DEF Rename, FilesKept
      <3>2. Durable \subseteq copy[t]
        BY <2>10 DEF Rename, CopiesGrow
      <3> QED
        BY <2>10, <3>1, <3>2 DEF Rename, EndSave, Move
    <2>11. CASE Fail(t)
      BY <2>11, StateFileAssumption DEF Fail, FailSave, EndSave, Move
    <2> QED
      BY <2>1, <2>2, <2>3, <2>4, <2>5, <2>6, <2>7, <2>8, <2>9, <2>10, <2>11
        DEF Committing, Entering, Filling, Ending
  <1>2. CASE Process
    <2>1. CASE Crash
      BY <2>1, StateFileAssumption DEF Crash
    <2>2. CASE Exit
      BY <2>2, StateFileAssumption DEF Exit
    <2>3. CASE Start
      BY <2>3, StateFileAssumption DEF Start
    <2>4. CASE Inspect
      BY <2>4, StateFileAssumption DEF Inspect
    <2> QED
      BY <1>2, <2>1, <2>2, <2>3, <2>4 DEF Process
  <1>3. CASE UNCHANGED vars
    BY <1>3 DEF vars
  <1> QED
    BY <1>1, <1>2, <1>3, Steps
-----------------------------------------------------------------------------
(* The theorems *)

LEMMA NextSInv == ASSUME SInv, [Next]_vars PROVE SInv'
  <1>1. overlap' = overlap
    BY DEF Next, vars, bounds, ThreadStep, SaveStep, Commit, SendOutcome, PersistIfNeeded,
      SaveDirectly, Copy, CreateTemporary, UnlinkExisting, WritePiece, ReadBack, Replace, IOFailure,
      FailSave, Crash, Exit, Start, Inspect
  <1>2. AnyWriters'
    BY StepTyped, StepWriting DEF SInv, AnyWriters
  <1>3. CASE ~overlap
    BY <1>1, <1>2, <1>3, StepTurns, StepFiles, StepCopies, StepCommits, StepAnswers
      DEF SInv, OneWriter, AnyWriters
  <1>4. CASE overlap
    BY <1>1, <1>2, <1>4 DEF SInv
  <1> QED
    BY <1>3, <1>4

\* The invariant of the save protocol.
LEMMA StateFileInvariant == Spec => []SInv
  BY InitSInv, NextSInv, PTL DEF Spec

\* Every variable has its type, whoever saves: a writer never finds its file full,
\* nor is there none for it.
THEOREM StateFileTyped == Spec => []TypeOK
  <1>1. SInv => TypeOK
    BY DEF SInv, AnyWriters
  <1> QED
    BY <1>1, StateFileInvariant, PTL

\* A file that a second writer left incomplete under the authoritative name is
\* still being written by the thread whose file it is.
THEOREM TornIsBeingWritten == Spec => []TornFileIsBeingWritten
  <1>1. SInv => TornFileIsBeingWritten
    BY DEF SInv, AnyWriters, NamesWritten, TornFileIsBeingWritten, AuthoritativeWhole
  <1> QED
    BY <1>1, StateFileInvariant, PTL

\* The authoritative file is complete at every instant, wherever the process dies
\* or a system call fails, as long as no save bypasses persist_mutex.
THEOREM FileAlwaysWhole == Spec => []OneWriterKeepsFileWhole
  <1>1. SInv => OneWriterKeepsFileWhole
    BY DEF SInv, OneWriter, FilesKept, OneWriterKeepsFileWhole
  <1> QED
    BY <1>1, StateFileInvariant, PTL

\* What a save reported written stays in the authoritative file, through every
\* later save, failure, crash and restart.
THEOREM SavedIsDurable == Spec => []SavedStaysDurable
  <1>1. SInv => SavedStaysDurable
    BY DEF SInv, OneWriter, CopiesGrow, SavedStaysDurable
  <1> QED
    BY <1>1, StateFileInvariant, PTL

\* While no process has died, an answered commit is in the file, on its way there
\* with the thread that answered, or reported failed.
THEOREM AnswersReachTheFile == Spec => []AnsweredOnItsWay
  <1>1. SInv => AnsweredOnItsWay
    BY DEF SInv, OneWriter, AnsweredOnItsWay
  <1> QED
    BY <1>1, StateFileInvariant, PTL

\* The save protocol implements the register: only a rename changes what is
\* durable, to a state that holds it and that the registry had.
THEOREM SavesImplementRegister == Spec => ImplementsRegister
  <1> DEFINE m == IF overlap THEN {} ELSE IF running THEN memory ELSE Durable
             d == IF overlap THEN {} ELSE Durable
  <1>1. Init => Register!Init
    BY DEF Init, Register!Init, Durable
  <1>2. ASSUME SInv, [Next]_vars PROVE [Register!Next]_<<m, d>>
    <2>1. CASE overlap
      BY <2>1, <1>2 DEF Next, vars, bounds, ThreadStep, SaveStep, Commit, SendOutcome,
        PersistIfNeeded, SaveDirectly, Copy, CreateTemporary, UnlinkExisting, WritePiece, ReadBack,
        Replace, IOFailure, FailSave, Crash, Exit, Start, Inspect
    <2>2. CASE ~overlap
      <3> USE <1>2, <2>2 DEF SInv, OneWriter, TypeOK, Durable, registry_vars, file_vars, thread_vars,
        bounds
      <3>1. CASE \E t \in Threads : Committing(t) \/ Entering(t) \/ Filling(t) \/ Ending(t)
        <4> PICK t \in Threads : Committing(t) \/ Entering(t) \/ Filling(t) \/ Ending(t)
          BY <3>1
        <4>1. CASE Commit(t)
          <5>1. issued + 1 \in Commits \ memory
            BY <4>1, StateFileAssumption DEF Commit, Commits, CopiesGrow
          <5>2. Register!Commit
            BY <4>1, <5>1 DEF Commit, Register!Commit
          <5> QED
            BY <5>2 DEF Register!Next
        <4>2. CASE SendOutcome(t) \/ Entering(t)
          BY <4>2 DEF SendOutcome, Entering, PersistIfNeeded, SaveDirectly
        <4>3. CASE Copy(t) \/ Unlink(t) \/ Verify(t)
          BY <4>3 DEF Copy, Unlink, Verify
        <4>4. CASE CreateTemporary(t)
          <5>1. path # NoInode => disk'[path] = disk[path]
            BY <4>4, FreeInodeIsFree DEF CreateTemporary
          <5> QED
            BY <4>4, <5>1 DEF CreateTemporary
        <4>5. CASE WritePiece(t)
          <5>1. path # NoInode => disk'[path] = disk[path]
            BY <4>5 DEF WritePiece, FilesKept
          <5> QED
            BY <4>5, <5>1 DEF WritePiece
        <4>6. CASE Rename(t)
          <5>1. Durable' = copy[t] /\ Durable \subseteq copy[t] /\ copy[t] \subseteq memory
            BY <4>6 DEF Rename, FilesKept, CopiesGrow, Copied
          <5>2. Register!Save
            BY <4>6, <5>1 DEF Rename, Register!Save
          <5> QED
            BY <5>2 DEF Register!Next
        <4>7. CASE Fail(t)
          BY <4>7 DEF Fail, FailSave
        <4> QED
          BY <4>1, <4>2, <4>3, <4>4, <4>5, <4>6, <4>7 DEF Committing, Filling, Ending
      <3>2. CASE Crash \/ Exit
        <4>1. Register!Die
          BY <3>2 DEF Crash, Exit, Register!Die
        <4> QED
          BY <4>1 DEF Register!Next
      <3>3. CASE Start \/ Inspect
        BY <3>3 DEF Start, Inspect
      <3>4. CASE UNCHANGED vars
        BY <3>4 DEF vars
      <3> QED
        BY <3>1, <3>2, <3>3, <3>4, Steps DEF Process
    <2> QED
      BY <2>1, <2>2
  <1> QED
    BY <1>1, <1>2, StateFileInvariant, PTL DEF Spec, ImplementsRegister, Register!Spec,
      Register!register_vars
=============================================================================
