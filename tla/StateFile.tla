----------------------------- MODULE StateFile -----------------------------
(***************************************************************************)
(* How a commit becomes durable.  A session thread commits in the          *)
(* registry, answers its client and then saves the whole registry under    *)
(* persist_mutex: the state is copied, written to <path>.tmp, read back,   *)
(* and renamed over <path>.  The process may die between any two of these  *)
(* steps, and any of the system calls may fail.                            *)
(*                                                                         *)
(* A file is an inode: a descriptor keeps writing to the inode it opened,  *)
(* whatever has become of the name.  The names are the two variables temp  *)
(* and path.  The content is the set of commits that the copied state      *)
(* holds; an image reaches the file in Pieces pieces, and verify_image and *)
(* decode_state accept it only whole.                                      *)
(***************************************************************************)
EXTENDS Naturals, FiniteSets

CONSTANTS
  Sessions,    \* threads that save in persist_if_needed, under persist_mutex
  Direct,      \* threads that save without the mutex
  Overlaps,    \* whether they do so while sessions are served
  Inodes, NoInode, NoThread,
  Pieces,      \* the pieces in which an image is written
  MaxCommits, MaxCrashes, MaxFailures, MaxInspections   \* bounds of the model

ASSUME StateFileAssumption ==
  /\ Sessions \cap Direct = {} /\ NoThread \notin Sessions \cup Direct
  /\ NoInode \notin Inodes /\ Overlaps \subseteq BOOLEAN
  \* Room for the authoritative file, those that are being written, and one more.
  /\ Inodes # {}
  /\ \A taken \in [Direct \cup {NoThread} -> Inodes] :
       \E i \in Inodes : \A t \in Direct \cup {NoThread} : taken[t] # i
  /\ Pieces \in Nat \ {0}
  /\ MaxCommits \in Nat /\ MaxCrashes \in Nat /\ MaxFailures \in Nat /\ MaxInspections \in Nat

Threads == Sessions \cup Direct
Commits == 1 .. MaxCommits

VARIABLES
  running,    \* the process is up
  stopping,   \* stop() has joined the sessions
  memory,     \* the commits the registry in memory holds
  issued,     \* the commits made so far, in any process
  answered,   \* history: commits whose outcome was sent
  saved,      \* history: commits of every state that a save reported written
  reported,   \* history: commits whose save was reported failed
  disk,       \* what each inode holds
  temp,       \* the inode that <path>.tmp names
  path,       \* the inode that <path> names
  mutex,      \* the holder of persist_mutex
  pc,         \* where each thread is
  commit,     \* the commit a session thread is working for
  copy,       \* the state a save has copied
  inode,      \* the inode a save has open
  retried,    \* the save has met an existing temporary file once
  overlap,    \* direct saves are those of save_now, at any time, rather than the
              \* one of stop(), which has joined the session threads first
  crashes, failures, inspections

bounds == <<crashes, failures, inspections, overlap>>
registry_vars == <<running, stopping, memory, issued, answered, saved, reported>>
file_vars == <<disk, temp, path>>
thread_vars == <<mutex, pc, commit, copy, inode, retried>>
vars == <<registry_vars, file_vars, thread_vars, bounds>>

Files == [state : SUBSET Commits, written : 0 .. Pieces]
Saving == {"copy", "create", "write", "readback", "replace"}

\* An inode that no name and no descriptor refers to; which one is all the same.
FreeInode == CHOOSE i \in Inodes : i \notin {temp, path} /\ \A t \in Threads : inode[t] # i

\* Faults are explored for one writer; a second one does its damage without.
Bound(limit) == IF overlap THEN 0 ELSE limit

Whole(i) == disk[i].written = Pieces

\* What read_whole_file and verify_image find under a name.
Verified(name) == name # NoInode /\ Whole(name)

\* The state the next process would recover.
Durable == IF path = NoInode THEN {} ELSE disk[path].state

Move(t, place) == pc' = [pc EXCEPT ![t] = place]
-----------------------------------------------------------------------------
(* A session thread up to its save *)

\* A mutation commits in the registry.
Commit(t) ==
  /\ running /\ ~stopping /\ t \in Sessions /\ pc[t] = "idle" /\ issued < MaxCommits
  /\ issued' = issued + 1
  /\ memory' = memory \cup {issued + 1}
  /\ commit' = [commit EXCEPT ![t] = issued + 1]
  /\ Move(t, "committed")
  /\ UNCHANGED <<running, stopping, answered, saved, reported, file_vars, mutex, copy, inode, retried,
                 bounds>>

\* The outcome is sent, before it is persisted.
SendOutcome(t) ==
  /\ running /\ pc[t] = "committed"
  /\ answered' = answered \cup {commit[t]}
  /\ Move(t, "waiting")
  /\ UNCHANGED <<running, stopping, memory, issued, saved, reported, file_vars, mutex, commit, copy, inode,
                 retried, bounds>>

\* Mutant: the lock guard is missing.
LockSkipped(t) ==
  /\ running /\ pc[t] = "waiting" /\ mutex' = t
  /\ Move(t, "copy")
  /\ UNCHANGED <<registry_vars, file_vars, commit, copy, inode, retried, bounds>>

PersistIfNeeded(t) ==
  /\ running /\ pc[t] = "waiting" /\ mutex = NoThread
  /\ mutex' = t
  /\ Move(t, "copy")
  /\ UNCHANGED <<registry_vars, file_vars, commit, copy, inode, retried, bounds>>

\* save_now, or the last save of stop().
SaveDirectly(t) ==
  /\ running /\ ~stopping /\ t \in Direct /\ pc[t] = "idle"
  /\ overlap \/ \A s \in Sessions : pc[s] = "idle"
  /\ stopping' = ~overlap
  /\ Move(t, "copy")
  /\ UNCHANGED <<running, memory, issued, answered, saved, reported, file_vars, mutex, commit, copy, inode,
                 retried, bounds>>
-----------------------------------------------------------------------------
(* A save *)

\* The registry is copied under its shared lock; the file is written without it.
Copy(t) ==
  /\ running /\ pc[t] = "copy"
  /\ copy' = [copy EXCEPT ![t] = memory]
  /\ Move(t, "create")
  /\ UNCHANGED <<registry_vars, file_vars, mutex, commit, inode, retried, bounds>>

\* Mutant: the mutex is not released.
EndSaveHolding(t) ==
  /\ Move(t, "idle")
  /\ inode' = [inode EXCEPT ![t] = NoInode]
  /\ UNCHANGED mutex
  /\ commit' = [commit EXCEPT ![t] = 0]
  /\ copy' = [copy EXCEPT ![t] = {}]
  /\ retried' = [retried EXCEPT ![t] = FALSE]

\* A save that ends: the descriptor is closed and the mutex released.
EndSave(t) ==
  /\ Move(t, "idle")
  /\ inode' = [inode EXCEPT ![t] = NoInode]
  /\ mutex' = IF mutex = t THEN NoThread ELSE mutex
  /\ commit' = [commit EXCEPT ![t] = 0]
  /\ copy' = [copy EXCEPT ![t] = {}]
  /\ retried' = [retried EXCEPT ![t] = FALSE]

\* Every failure removes whatever the name of the temporary file refers to.
FailSave(t) ==
  /\ temp' = NoInode
  /\ reported' = reported \cup ({commit[t]} \cap Commits)
  /\ EndSave(t)
  /\ UNCHANGED <<running, stopping, memory, issued, answered, saved, disk, path, crashes,
                 inspections, overlap>>

\* Mutant: a file left by a dead writer is taken over instead of replaced.
CreateOver(t) ==
  /\ running /\ pc[t] = "create"
  /\ LET i == IF temp = NoInode THEN FreeInode ELSE temp IN
       /\ disk' = IF temp = NoInode THEN [disk EXCEPT ![i] = [state |-> copy[t], written |-> 0]]
                  ELSE [disk EXCEPT ![i].written = IF @ = Pieces THEN @ ELSE @ + 1]
       /\ temp' = i
       /\ inode' = [inode EXCEPT ![t] = i]
  /\ Move(t, "write")
  /\ UNCHANGED <<registry_vars, path, mutex, commit, copy, retried, bounds>>

\* open(O_CREAT | O_EXCL) of the temporary file.
CreateTemporary(t) ==
  /\ running /\ pc[t] = "create" /\ temp = NoInode
  /\ LET i == FreeInode IN
       /\ disk' = [disk EXCEPT ![i] = [state |-> copy[t], written |-> 0]]
       /\ temp' = i
       /\ inode' = [inode EXCEPT ![t] = i]
  /\ Move(t, "write")
  /\ UNCHANGED <<registry_vars, path, mutex, commit, copy, retried, bounds>>

\* The name exists: it is unlinked and the creation tried once more.
UnlinkExisting(t) ==
  /\ running /\ pc[t] = "create" /\ temp # NoInode
  /\ \/ /\ ~retried[t]
        /\ temp' = NoInode
        /\ retried' = [retried EXCEPT ![t] = TRUE]
        /\ UNCHANGED <<registry_vars, disk, path, mutex, pc, commit, copy, inode, bounds>>
     \/ /\ retried[t]
        /\ FailSave(t) /\ UNCHANGED failures

\* Mutant: a short write is taken for a complete one.
WriteShort(t) ==
  /\ running /\ pc[t] = "write"
  /\ disk' = [disk EXCEPT ![inode[t]].written = @ + 1]
  /\ Move(t, "replace") /\ inode' = [inode EXCEPT ![t] = NoInode]
  /\ UNCHANGED <<registry_vars, temp, path, mutex, commit, copy, retried, bounds>>

\* One more piece reaches the inode the descriptor refers to; after the last
\* one the file is flushed and closed.
WritePiece(t) ==
  /\ running /\ pc[t] = "write"
  /\ disk' = [disk EXCEPT ![inode[t]].written = @ + 1]
  /\ IF disk'[inode[t]].written = Pieces
     THEN Move(t, "readback") /\ inode' = [inode EXCEPT ![t] = NoInode]
     ELSE UNCHANGED <<pc, inode>>
  /\ UNCHANGED <<registry_vars, temp, path, mutex, commit, copy, retried, bounds>>

\* The file the name refers to is read and verified.
ReadBack(t) ==
  /\ running /\ pc[t] = "readback"
  /\ \/ /\ Verified(temp)
        /\ Move(t, "replace")
        /\ UNCHANGED <<registry_vars, file_vars, mutex, commit, copy, inode, retried, bounds>>
     \/ /\ ~Verified(temp)
        /\ FailSave(t) /\ UNCHANGED failures

\* rename(<path>.tmp, <path>): the save reports what it copied as written.
Replace(t) ==
  /\ running /\ pc[t] = "replace"
  /\ \/ /\ temp # NoInode
        /\ path' = temp /\ temp' = NoInode
        /\ saved' = saved \cup copy[t]
        /\ EndSave(t)
        /\ UNCHANGED <<running, stopping, memory, issued, answered, reported, disk, bounds>>
     \/ /\ temp = NoInode
        /\ FailSave(t) /\ UNCHANGED failures

\* A system call of the save fails: no space, an I/O error, a failed flush.
IOFailure(t) ==
  /\ running /\ pc[t] \in {"create", "write", "readback", "replace"} /\ failures < Bound(MaxFailures)
  /\ failures' = failures + 1
  /\ FailSave(t)
-----------------------------------------------------------------------------
(* The process *)

\* The process dies: the threads and the registry are gone, the files are not.
Crash ==
  /\ running /\ crashes < Bound(MaxCrashes)
  /\ crashes' = crashes + 1
  /\ running' = FALSE /\ stopping' = FALSE /\ memory' = {}
  /\ mutex' = NoThread
  /\ pc' = [t \in Threads |-> "idle"]
  /\ commit' = [t \in Threads |-> 0]
  /\ copy' = [t \in Threads |-> {}]
  /\ inode' = [t \in Threads |-> NoInode]
  /\ retried' = [t \in Threads |-> FALSE]
  /\ UNCHANGED <<issued, answered, saved, reported, file_vars, failures, inspections, overlap>>

\* stop() has returned and the process ends.
Exit ==
  /\ running /\ stopping /\ \A t \in Threads : pc[t] = "idle"
  /\ running' = FALSE /\ stopping' = FALSE /\ memory' = {}
  /\ UNCHANGED <<issued, answered, saved, reported, file_vars, thread_vars, bounds>>

\* The command-line tool, in a process of its own, loads the file of a running
\* coordinator; read_state_file takes the temporary file for a leftover.
Inspect ==
  /\ path # NoInode /\ inspections < Bound(MaxInspections)
  /\ inspections' = inspections + 1
  /\ temp' = NoInode
  /\ UNCHANGED <<registry_vars, disk, path, thread_vars, crashes, failures, overlap>>

\* Mutant: the leftover temporary file is the one that is loaded.
StartFromTemporary ==
  /\ ~running /\ running' = TRUE /\ UNCHANGED stopping
  /\ memory' = IF temp # NoInode THEN disk[temp].state ELSE Durable
  /\ temp' = NoInode
  /\ UNCHANGED <<issued, answered, saved, reported, disk, path, thread_vars, bounds>>

\* A new process loads the file that is there.  It starts empty when there is
\* none and leaves a temporary file alone then; it refuses to start when the
\* file is not whole.
Start ==
  /\ ~running /\ (path # NoInode => Whole(path))
  /\ running' = TRUE /\ UNCHANGED stopping
  /\ memory' = Durable
  /\ temp' = IF path = NoInode THEN temp ELSE NoInode
  /\ UNCHANGED <<issued, answered, saved, reported, disk, path, thread_vars, bounds>>
-----------------------------------------------------------------------------
Init ==
  /\ overlap \in Overlaps
  /\ running = TRUE /\ stopping = FALSE /\ memory = {} /\ issued = 0
  /\ answered = {} /\ saved = {} /\ reported = {}
  /\ disk = [i \in Inodes |-> [state |-> {}, written |-> 0]]
  /\ temp = NoInode /\ path = NoInode /\ mutex = NoThread
  /\ pc = [t \in Threads |-> "idle"]
  /\ commit = [t \in Threads |-> 0]
  /\ copy = [t \in Threads |-> {}]
  /\ inode = [t \in Threads |-> NoInode]
  /\ retried = [t \in Threads |-> FALSE]
  /\ crashes = 0 /\ failures = 0 /\ inspections = 0

SaveStep(t) ==
  \/ Copy(t) \/ CreateTemporary(t) \/ UnlinkExisting(t) \/ WritePiece(t)
  \/ ReadBack(t) \/ Replace(t)

ThreadStep(t) == SendOutcome(t) \/ PersistIfNeeded(t) \/ SaveStep(t)

Next ==
  \/ \E t \in Threads : Commit(t) \/ SaveDirectly(t) \/ ThreadStep(t) \/ IOFailure(t)
  \/ Crash \/ Exit \/ Start \/ Inspect

Spec == Init /\ [][Next]_vars

\* A thread that can take a step takes one: nothing in a save waits for
\* anything but the mutex, which is taken by threads in turn.
FairSpec == Spec /\ \A t \in Threads : WF_vars(ThreadStep(t))
-----------------------------------------------------------------------------
(* Properties *)

TypeOK ==
  /\ running \in BOOLEAN /\ stopping \in BOOLEAN /\ memory \in SUBSET Commits
  /\ issued \in 0 .. MaxCommits /\ reported \in SUBSET Commits
  /\ answered \in SUBSET Commits /\ saved \in SUBSET Commits
  /\ disk \in [Inodes -> Files]
  /\ temp \in Inodes \cup {NoInode} /\ path \in Inodes \cup {NoInode}
  /\ mutex \in Threads \cup {NoThread}
  /\ pc \in [Threads -> {"idle", "committed", "waiting"} \cup Saving]
  /\ commit \in [Threads -> 0 .. MaxCommits] /\ copy \in [Threads -> SUBSET Commits]
  /\ inode \in [Threads -> Inodes \cup {NoInode}] /\ retried \in [Threads -> BOOLEAN]
  /\ crashes \in 0 .. MaxCrashes /\ failures \in 0 .. MaxFailures
  /\ inspections \in 0 .. MaxInspections /\ overlap \in Overlaps

\* The authoritative file is complete at every instant: a process that dies
\* anywhere leaves a file that the next one can load.
AuthoritativeWhole == path # NoInode => Whole(path)

\* It is, as long as all saves but the last one of stop() are made under
\* persist_mutex.
OneWriterKeepsFileWhole == ~overlap => AuthoritativeWhole

\* What a save reported written stays written: no later save, failure or crash
\* takes it out of the authoritative file.
SavedStaysDurable == ~overlap => saved \subseteq Durable

\* Even with a second writer the file is incomplete only while some thread
\* still writes to that very inode, unless a crash or an error cut it short.
TornFileIsBeingWritten ==
  crashes = 0 /\ failures = 0 /\ ~AuthoritativeWhole => \E t \in Threads : inode[t] = path

\* While no process has died, an answered commit is in the file, or its thread
\* is on the way to putting it there, or its save was reported failed: an
\* answer is never forgotten in silence.
AnsweredOnItsWay ==
  crashes = 0 /\ ~overlap =>
    \A c \in answered \ (Durable \cup reported) :
      \E t \in Sessions : commit[t] = c /\ pc[t] \in {"waiting"} \cup Saving

\* Every session thread that has answered gets to the end of its save, whoever
\* else is saving and whatever fails, unless the process dies.
EverySaveEnds ==
  \A t \in Sessions : pc[t] = "waiting" ~> pc[t] \in {"idle", "committed"}

\* The save protocol implements the register: the authoritative file is the
\* durable copy.  Nothing is claimed of behaviours with a second writer.
Register == INSTANCE DurableRegister WITH
  memory <- IF overlap THEN {} ELSE IF running THEN memory ELSE Durable,
  durable <- IF overlap THEN {} ELSE Durable

ImplementsRegister == Register!Spec
=============================================================================
