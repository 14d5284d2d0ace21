--------------------------- MODULE ResourceDbProofs ---------------------------
(***************************************************************************)
(* One node's disk and database, for any paths, contents and number of     *)
(* changes: type correctness, and that the manifest tells what is on the   *)
(* disk once every change has reached the database.  The invariant is the  *)
(* backlog: a disk for each command in the channel, from the one that the  *)
(* tables describe to the one that is there, each explained by the command *)
(* between them.                                                           *)
(***************************************************************************)
EXTENDS ResourceDb, ResourceStoreProofs

-----------------------------------------------------------------------------
(* Types *)

TaskType == [kind : EventKind, source : Path, destination : Path \cup {NoPath},
             checksum : Checksum \cup {NoChecksum}, hash : BOOLEAN]

Types ==
    /\ disk \in DiskState
    /\ BagToSet(tasks) \subseteq TaskType
    /\ commands \in Seq(Event)
    /\ store \in Store
    /\ applied \in Nat
    /\ removed \subseteq Path
    /\ ordered \in BOOLEAN /\ single \in BOOLEAN
    /\ changes \in 0..MAX_CHANGES /\ crashes \in 0..MAX_CRASHES

\* What a task records is an event, whatever the file is when it is hashed.
LEMMA EnvelopeType ==
    ASSUME NEW task \in TaskType, disk \in DiskState
    PROVE  Envelope(task) \in Event
<1>1. FinalPath(task) \in Path
    BY DEF FinalPath, TaskType
<1>2. Hash(disk, FinalPath(task)) \in Checksum \cup {NoChecksum}
    BY <1>1 DEF Hash, DiskState
<1> QED
    BY <1>2 DEF Envelope, TaskType, Event

LEMMA TypesSuffice == Types => TypeOK
<1> SUFFICES ASSUME Types PROVE TypeOK
    OBVIOUS
<1>1. ASSUME NEW task \in BagToSet(tasks)
      PROVE  Envelope(task) \in Event /\ task.hash \in BOOLEAN
    BY <1>1, EnvelopeType DEF Types, TaskType
<1> QED
    BY <1>1 DEF Types, TypeOK

\* A change that is well formed.
LEMMA ChangeTypes ==
    ASSUME Types, NEW task \in TaskType, NEW touched, Change(task, touched),
           disk' \in DiskState, removed' \subseteq Path
    PROVE  Types'
<1>1. BagToSet(tasks') \subseteq TaskType
    BY DEF Change, Types, BagToSet, SetToBag, (+)
<1>2. changes' \in 0..MAX_CHANGES
    BY ParametersAssumption DEF Change, Types
<1>3. ordered' \in BOOLEAN /\ single' \in BOOLEAN
    BY DEF Change, Types
<1> QED
    BY <1>1, <1>2, <1>3 DEF Change, Types

-----------------------------------------------------------------------------
(* The backlog *)

\* What is left between the last command and the disk: nothing, or one task.
Pending(d, gone) ==
    \/ tasks = EmptyBag /\ d = disk /\ removed \subseteq gone
    \/ \E task : tasks = SetToBag({task}) /\ Explains(Envelope(task), d, gone, disk, removed)

\* states[i] is what the disk was after the change that the i-th command records,
\* gone[i] the paths whose last change was a deletion by then.
Backlog(states, gone) ==
    /\ states \in [0..Len(commands) -> DiskState]
    /\ gone \in [0..Len(commands) -> SUBSET Path]
    /\ Describes(store, states[0], gone[0])
    /\ \A i \in 1..Len(commands) :
          Explains(commands[i], states[i - 1], gone[i - 1], states[i], gone[i])
    /\ Pending(states[Len(commands)], gone[Len(commands)])

History == ordered /\ single => \E states, gone : Backlog(states, gone)

DbInv == Types /\ History

\* A bag with a task in it is not empty.
LEMMA NoTaskIsEmpty == \A task : SetToBag({task}) # EmptyBag
BY DEF EmptyBag, SetToBag

\* The only task that is taken.
LEMMA OneTaskTaken ==
    ASSUME NEW task
    PROVE  SetToBag({task}) (-) SetToBag({task}) = EmptyBag
BY DEF EmptyBag, SetToBag, (-)

\* A change is made on top of what the commands explain.
LEMMA ChangeHistory ==
    ASSUME DbInv, NEW task, NEW touched, Change(task, touched),
           single' => Explains(Envelope(task)', disk, removed, disk', removed')
    PROVE  History'
<1> SUFFICES ASSUME ordered', single'
             PROVE  \E states, gone : Backlog(states, gone)'
    BY DEF History
<1>1. tasks = EmptyBag /\ ordered /\ single /\ commands' = commands /\ store' = store
    BY DEF Change
<1>2. PICK states, gone : Backlog(states, gone)
    BY <1>1 DEF DbInv, History
<1>3. tasks' = SetToBag({task})
    BY <1>1 DEF Change, EmptyBag, SetToBag, (+)
<1>4. states[Len(commands)] = disk /\ removed \subseteq gone[Len(commands)]
    BY <1>1, <1>2, NoTaskIsEmpty DEF Backlog, Pending
<1>5. Explains(Envelope(task)', states[Len(commands)], gone[Len(commands)], disk', removed')
    BY <1>4 DEF Explains, Forgets
<1>6. Backlog(states, gone)'
    BY <1>1, <1>2, <1>3, <1>5 DEF Backlog, Pending
<1> QED
    BY <1>6

\* The task hashes the file while the disk is as the change left it: its event explains
\* the last change from now on.
LEMMA RecordHistory ==
    ASSUME DbInv, NEW task \in BagToSet(tasks), Record(task)
    PROVE  History'
<1> SUFFICES ASSUME ordered', single'
             PROVE  \E states, gone : Backlog(states, gone)'
    BY DEF History
<1> DEFINE e == Envelope(task)
<1>0. PICK n \in Nat : n = Len(commands)
    BY DEF DbInv, Types
<1>1. /\ ordered /\ single /\ commands' = Append(commands, e) /\ store' = store
      /\ disk' = disk /\ removed' = removed /\ tasks' = tasks (-) SetToBag({task})
    BY DEF Record
<1>2. PICK states, gone : Backlog(states, gone)
    BY <1>1 DEF DbInv, History
<1>3. tasks = SetToBag({task}) /\ Explains(e, states[n], gone[n], disk, removed)
  <2>1. tasks # EmptyBag
      BY DEF BagToSet, EmptyBag, SetToBag
  <2>2. PICK t : tasks = SetToBag({t}) /\ Explains(Envelope(t), states[n], gone[n], disk, removed)
      BY <1>0, <1>2, <2>1 DEF Backlog, Pending
  <2>3. t = task
      BY <2>2 DEF BagToSet, SetToBag
  <2> QED
      BY <2>2, <2>3
<1>4. tasks' = EmptyBag
    BY <1>1, <1>3, OneTaskTaken
<1>5. /\ commands \in Seq(Event) /\ n \in Nat /\ e \in Event
      /\ disk \in DiskState /\ removed \in SUBSET Path
    BY <1>3 DEF DbInv, Types, Explains
<1> HIDE DEF e
<1>6. /\ Len(commands') = n + 1 /\ commands'[n + 1] = e
      /\ \A i \in 1..n : commands'[i] = commands[i]
    BY <1>0, <1>1, <1>5
<1>7. /\ states \in [0..n -> DiskState] /\ gone \in [0..n -> SUBSET Path]
      /\ Describes(store, states[0], gone[0])
      /\ \A i \in 1..n : Explains(commands[i], states[i - 1], gone[i - 1], states[i], gone[i])
    BY <1>0, <1>2 DEF Backlog
<1>8. PICK states2 : states2 = [i \in 0..n + 1 |-> IF i <= n THEN states[i] ELSE disk]
    OBVIOUS
<1>9. PICK gone2 : gone2 = [i \in 0..n + 1 |-> IF i <= n THEN gone[i] ELSE removed]
    OBVIOUS
<1>10. states2 \in [0..n + 1 -> DiskState] /\ gone2 \in [0..n + 1 -> SUBSET Path]
    BY <1>5, <1>7, <1>8, <1>9
<1>11. /\ \A i \in 0..n : states2[i] = states[i] /\ gone2[i] = gone[i]
      /\ states2[n + 1] = disk /\ gone2[n + 1] = removed
    BY <1>8, <1>9
<1>12. Describes(store', states2[0], gone2[0])
    BY <1>1, <1>5, <1>7, <1>11
<1>13. ASSUME NEW i \in 1..n + 1
       PROVE  Explains(commands'[i], states2[i - 1], gone2[i - 1], states2[i], gone2[i])
  <2>1. CASE i = n + 1
    <3>1. i - 1 = n /\ n \in 0..n
        BY <1>5, <2>1
    <3> QED
        BY <1>3, <1>6, <1>11, <2>1, <3>1
  <2>2. CASE i # n + 1
    <3>1. i \in 1..n /\ i - 1 \in 0..n /\ i \in 0..n
        BY <1>5, <2>2
    <3> QED
        BY <1>6, <1>7, <1>11, <3>1
  <2> QED
      BY <2>1, <2>2
<1>14. Pending(states2[n + 1], gone2[n + 1])'
    BY <1>1, <1>4, <1>11 DEF Pending
<1>15. Backlog(states2, gone2)'
  <2>1. Pending(states2[Len(commands)], gone2[Len(commands)])'
      BY <1>6, <1>14
  <2> QED
      BY <1>6, <1>10, <1>12, <1>13, <2>1 DEF Backlog
<1> QED
    BY <1>15

\* The tables follow the first command, and describe the disk after it.
LEMMA WorkerHistory ==
    ASSUME DbInv, WorkerApplies
    PROVE  History'
<1> SUFFICES ASSUME ordered', single'
             PROVE  \E states, gone : Backlog(states, gone)'
    BY DEF History
<1>0. PICK n \in Nat : n = Len(commands)
    BY DEF DbInv, Types
<1>1. /\ ordered /\ single /\ commands # <<>> /\ commands' = Tail(commands)
      /\ store' = apply_event(store, disk, Head(commands), applied + 1)
      /\ disk' = disk /\ removed' = removed /\ tasks' = tasks
    BY DEF WorkerApplies
<1>2. PICK states, gone : Backlog(states, gone)
    BY <1>1 DEF DbInv, History
<1>3. /\ commands \in Seq(Event) /\ store \in Store /\ applied + 1 \in Nat \ {0}
    BY DEF DbInv, Types
<1>4. /\ n \in Nat \ {0} /\ Head(commands) = commands[1] /\ Len(commands') = n - 1
      /\ \A i \in 1..n - 1 : commands'[i] = commands[i + 1]
    BY <1>0, <1>1, <1>3
<1>5. /\ states \in [0..n -> DiskState] /\ gone \in [0..n -> SUBSET Path]
      /\ Describes(store, states[0], gone[0])
      /\ \A i \in 1..n : Explains(commands[i], states[i - 1], gone[i - 1], states[i], gone[i])
      /\ Pending(states[n], gone[n])
    BY <1>0, <1>2 DEF Backlog
<1>6. PICK states2 : states2 = [i \in 0..n - 1 |-> states[i + 1]]
    OBVIOUS
<1>7. PICK gone2 : gone2 = [i \in 0..n - 1 |-> gone[i + 1]]
    OBVIOUS
<1>8. states2 \in [0..n - 1 -> DiskState] /\ gone2 \in [0..n - 1 -> SUBSET Path]
    BY <1>4, <1>5, <1>6, <1>7
<1>9. \A i \in 0..n - 1 : states2[i] = states[i + 1] /\ gone2[i] = gone[i + 1]
    BY <1>6, <1>7
<1>10. Describes(store', states2[0], gone2[0])
  <2>1. /\ 0 \in 0..n - 1 /\ 1 \in 1..n /\ 0 \in 0..n /\ 1 \in 0..n
      BY <1>4
  <2>2. Explains(commands[1], states[0], gone[0], states[1], gone[1])
    <3>1. 1 - 1 = 0
        OBVIOUS
    <3> QED
        BY <1>5, <2>1, <3>1
  <2>3. /\ states[0] \in DiskState /\ gone[0] \in SUBSET Path /\ gone[1] \in SUBSET Path
      BY <1>5, <2>1
  <2>4. Describes(apply_event(store, disk, commands[1], applied + 1), states[1], gone[1])
      BY <1>3, <1>5, <2>2, <2>3, DescribesStep
  <2>5. states2[0] = states[1] /\ gone2[0] = gone[1]
      BY <1>9, <2>1
  <2> QED
      BY <1>1, <1>4, <2>4, <2>5
<1>11. ASSUME NEW i \in 1..n - 1
      PROVE  Explains(commands'[i], states2[i - 1], gone2[i - 1], states2[i], gone2[i])
  <2>1. /\ i + 1 \in 1..n /\ i - 1 \in 0..n - 1 /\ i \in 0..n - 1
        /\ i + 1 - 1 = i /\ i - 1 + 1 = i
      BY <1>4
  <2>2. Explains(commands[i + 1], states[i], gone[i], states[i + 1], gone[i + 1])
      BY <1>5, <2>1
  <2>3. states2[i - 1] = states[i] /\ gone2[i - 1] = gone[i]
        /\ states2[i] = states[i + 1] /\ gone2[i] = gone[i + 1]
      BY <1>9, <2>1
  <2> QED
      BY <1>4, <2>2, <2>3
<1>12. Pending(states2[n - 1], gone2[n - 1])'
  <2>1. states2[n - 1] = states[n] /\ gone2[n - 1] = gone[n]
    <3>1. n - 1 \in 0..n - 1 /\ n - 1 + 1 = n
        BY <1>4
    <3> QED
        BY <1>9, <3>1
  <2>2. Pending(states[n], gone[n])'
      BY <1>1, <1>5 DEF Pending, Envelope
  <2> QED
      BY <2>1, <2>2
<1>13. Backlog(states2, gone2)'
  <2>1. Pending(states2[Len(commands)], gone2[Len(commands)])'
      BY <1>4, <1>12
  <2> QED
      BY <1>4, <1>8, <1>10, <1>11, <2>1 DEF Backlog
<1> QED
    BY <1>13

\* A crash that loses nothing changes nothing.
LEMMA CrashHistory ==
    ASSUME DbInv, Crash
    PROVE  History'
<1> SUFFICES ASSUME ordered', single'
             PROVE  \E states, gone : Backlog(states, gone)'
    BY DEF History
<1>1. /\ ordered /\ single /\ tasks = EmptyBag /\ commands = <<>>
      /\ tasks' = tasks /\ commands' = commands
      /\ store' = store /\ disk' = disk /\ removed' = removed
    BY DEF Crash, Settled
<1>2. PICK states, gone : Backlog(states, gone)
    BY <1>1 DEF DbInv, History
<1> QED
    BY <1>1, <1>2 DEF Backlog, Pending, Envelope

-----------------------------------------------------------------------------
(* The changes of the disk explain their events. *)

\* A path is within itself.
LEMMA WithinSelf ==
    ASSUME NEW path \in Path
    PROVE  path \in Within(path)
<1>1. path \in Seq(STRING)
    BY ParametersAssumption
<1>2. SubSeq(path, 1, Len(path)) = path
    BY <1>1
<1> QED
    BY <1>1, <1>2 DEF Within

\* What is at src goes to dst.
LEMMA RelocatedSelf ==
    ASSUME NEW src \in Path, NEW dst \in Path
    PROVE  Relocated(src, src, dst) = dst
<1>1. src \in Seq(STRING) /\ dst \in Seq(STRING)
    BY ParametersAssumption
<1>2. SubSeq(src, Len(src) + 1, Len(src)) = <<>>
    BY <1>1
<1>3. dst \o <<>> = dst
    BY <1>1
<1> QED
    BY <1>2, <1>3 DEF Relocated

\* A path that is placed alone: what is below it, there and here, does not exist.
LEMMA PlacedAlone ==
    ASSUME disk \in DiskState, NEW src \in Path, NEW dst \in Path, Placeable(src, dst),
           Existing(src) \cup Existing(dst) \subseteq {src, dst}
    PROVE  /\ src # dst /\ disk[src] # Missing /\ dst \in Within(dst)
           /\ Placed(src, dst) = [disk EXCEPT ![dst] = disk[src]]
           /\ Without(Placed(src, dst), Within(src))
                 = [disk EXCEPT ![dst] = disk[src], ![src] = Missing]
<1> DEFINE origin(q) == {r \in Existing(src) : Relocated(r, src, dst) = q}
           d == Placed(src, dst)
<1>1. /\ src \in Within(src) /\ dst \in Within(dst) /\ src # dst
      /\ dst \notin Within(src) /\ src \notin Within(dst) /\ disk[src] # Missing
    BY WithinSelf DEF Placeable
<1>2. Existing(src) = {src}
    BY <1>1 DEF Existing
<1>3. origin(dst) = {src} /\ \A q \in Path : q # dst => origin(q) = {}
    BY <1>2, RelocatedSelf
<1>4. \A q \in Within(dst) : q # dst => disk[q] = Missing
    BY <1>1 DEF Existing
<1>5. d = [q \in Path |-> IF q \in Within(dst)
                          THEN IF origin(q) = {} THEN Missing
                               ELSE disk[CHOOSE r \in origin(q) : TRUE]
                          ELSE disk[q]]
    BY DEF Placed
<1>6. ASSUME NEW q \in Path PROVE d[q] = IF q = dst THEN disk[src] ELSE disk[q]
  <2>1. CASE q = dst
    <3>1. (CHOOSE r \in origin(dst) : TRUE) = src /\ origin(dst) # {}
        BY <1>3
    <3> HIDE DEF origin, d
    <3> QED
        BY <1>1, <1>5, <2>1, <3>1
  <2>2. CASE q # dst
    <3>1. origin(q) = {}
        BY <1>3, <2>2
    <3> HIDE DEF origin, d
    <3> QED
        BY <1>4, <1>5, <2>2, <3>1
  <2> QED
      BY <2>1, <2>2
<1>7. d = [q \in Path |-> d[q]]
  <2> HIDE DEF origin
  <2> QED
      BY <1>5
<1> HIDE DEF d
<1>8. d = [disk EXCEPT ![dst] = disk[src]]
    BY <1>6, <1>7 DEF DiskState
<1>9. \A q \in Within(src) : q # src => d[q] = Missing
    BY <1>1, <1>2, <1>6 DEF Existing, Within
<1>10. Without(d, Within(src)) = [disk EXCEPT ![dst] = disk[src], ![src] = Missing]
  <2>1. \A q \in Path : (IF q \in Within(src) THEN Missing ELSE d[q])
                        = IF q = src THEN Missing ELSE IF q = dst THEN disk[src] ELSE disk[q]
      BY <1>1, <1>6, <1>9
  <2>2. Without(d, Within(src)) = [q \in Path |-> IF q = src THEN Missing
                                                  ELSE IF q = dst THEN disk[src] ELSE disk[q]]
      BY <2>1 DEF Without
  <2> QED
      BY <1>1, <2>2 DEF DiskState
<1> QED
    BY <1>1, <1>8, <1>10 DEF d

\* What a task records is made of the disk that it finds, or of the content that it was
\* given.
LEMMA EnvelopeThen ==
    ASSUME NEW kind, NEW src, NEW dst, NEW checksum, NEW hash
    PROVE  Envelope(Task(kind, src, dst, checksum, hash))'
              = [kind |-> kind, source |-> src, destination |-> dst,
                 checksum |-> IF hash THEN Hash(disk', IF dst = NoPath THEN src ELSE dst)
                                      ELSE checksum]
BY DEF Envelope, Task, FinalPath

\* A file is written, by a client or by a pull.
LEMMA FilePlaced ==
    ASSUME DbInv, NEW path \in Path, NEW c \in Checksum, disk[path] # Dir,
           disk' = [disk EXCEPT ![path] = c], removed' = removed \ {path},
           NEW kind \in {"Created", "Edited"}, NEW checksum \in {c, NoChecksum},
           NEW hash \in BOOLEAN, hash \/ checksum = c, NEW touched,
           Change(Task(kind, path, NoPath, checksum, hash), touched)
    PROVE  DbInv'
<1> DEFINE task == Task(kind, path, NoPath, checksum, hash)
           e == [kind |-> kind, source |-> path, destination |-> NoPath, checksum |-> c]
<1>1. disk \in DiskState /\ disk' \in DiskState /\ disk'[path] = c /\ removed' \subseteq Path
    BY DEF DbInv, Types, DiskState
<1>2. task \in TaskType
    BY DEF Task, TaskType, EventKind
<1>3. Envelope(task)' = e
    BY <1>1, EnvelopeThen DEF Hash
<1>4. Explains(e, disk, removed, disk', removed')
  <2>1. e \in Event
      BY DEF Event, EventKind
  <2>2. Fits(e, disk)
      BY DEF Fits
  <2>3. disk' = Affected(disk, e)
      BY DEF Affected
  <2>4. Forgets(e, removed, removed')
      BY DEF Forgets, FinalPath
  <2> QED
      BY <2>1, <2>2, <2>3, <2>4 DEF Explains
<1>5. Types'
  <2> HIDE DEF task
  <2> QED
      BY <1>1, <1>2, ChangeTypes DEF DbInv, task
<1>6. History'
  <2> HIDE DEF e
  <2>1. Explains(Envelope(task)', disk, removed, disk', removed')
      BY <1>3, <1>4
  <2> QED
      BY <2>1, ChangeHistory
<1> QED
    BY <1>5, <1>6 DEF DbInv

LEMMA PutStep ==
    ASSUME DbInv, NEW path \in Path, NEW c \in Checksum, Put(path, c) \/ Install(path, c)
    PROVE  DbInv'
<1>1. CASE Put(path, c)
  <2>1. WriteKind(path) \in {"Created", "Edited"}
      BY DEF WriteKind
  <2> QED
      BY <1>1, <2>1, FilePlaced DEF Put
<1>2. CASE Install(path, c)
    BY <1>2, FilePlaced DEF Install
<1> QED
    BY <1>1, <1>2

\* A directory is made.
LEMMA MakeCollectionStep ==
    ASSUME DbInv, NEW path \in Path, MakeCollection(path)
    PROVE  DbInv'
<1> DEFINE task == Task("DirCreated", path, NoPath, NoChecksum, FALSE)
           e == [kind |-> "DirCreated", source |-> path, destination |-> NoPath,
                 checksum |-> NoChecksum]
<1>1. /\ disk \in DiskState /\ disk' \in DiskState /\ removed' \subseteq Path
      /\ disk' = [disk EXCEPT ![path] = Dir] /\ disk[path] = Missing
      /\ removed' = removed \ {path} /\ Change(task, {path})
    BY DEF DbInv, Types, DiskState, MakeCollection
<1>2. task \in TaskType
    BY DEF Task, TaskType, EventKind
<1>3. Envelope(task)' = e
    BY DEF Envelope, Task, FinalPath
<1>4. Explains(e, disk, removed, disk', removed')
  <2>1. e \in Event
      BY DEF Event, EventKind
  <2>2. Fits(e, disk)
      BY <1>1 DEF Fits
  <2>3. disk' = Affected(disk, e)
      BY <1>1 DEF Affected
  <2>4. Forgets(e, removed, removed')
      BY <1>1 DEF Forgets, FinalPath
  <2> QED
      BY <2>1, <2>2, <2>3, <2>4 DEF Explains
<1>5. Types'
  <2> HIDE DEF task
  <2> QED
      BY <1>1, <1>2, ChangeTypes DEF DbInv
<1>6. History'
  <2>1. Explains(Envelope(task)', disk, removed, disk', removed')
    <3> HIDE DEF e
    <3> QED
        BY <1>3, <1>4
  <2> QED
      BY <1>1, <2>1, ChangeHistory
<1> QED
    BY <1>5, <1>6 DEF DbInv

\* A path is deleted, alone if nothing below it existed.
LEMMA DeleteStep ==
    ASSUME DbInv, NEW path \in Path, Delete(path)
    PROVE  DbInv'
<1> DEFINE task == Task("Deleted", path, NoPath, NoChecksum, FALSE)
           e == [kind |-> "Deleted", source |-> path, destination |-> NoPath,
                 checksum |-> NoChecksum]
<1>1. /\ disk \in DiskState /\ removed \subseteq Path
      /\ disk[path] # Missing /\ disk' = Without(disk, Within(path))
      /\ removed' = removed \cup Existing(path) /\ Change(task, Existing(path))
    BY DEF DbInv, Types, Delete
<1>2. task \in TaskType
    BY DEF Task, TaskType, EventKind
<1>3. Envelope(task)' = e
    BY DEF Envelope, Task, FinalPath
<1>4. disk' \in DiskState /\ removed' \subseteq Path
    BY <1>1 DEF DiskState, Without, Existing, Within
<1>5. ASSUME single' PROVE Explains(e, disk, removed, disk', removed')
  <2>1. Existing(path) \subseteq {path, NoPath}
      BY <1>1, <1>5 DEF Change, Task
  <2>2. path \in Within(path) /\ Within(path) \subseteq Path /\ NoPath \notin Path
      BY WithinSelf, DistinctMarks DEF Within
  <2>3. \A q \in Within(path) : q # path => disk[q] = Missing
      BY <2>1, <2>2 DEF Existing
  <2>4. \A q \in Path : (IF q \in Within(path) THEN Missing ELSE disk[q])
                        = IF q = path THEN Missing ELSE disk[q]
      BY <2>2, <2>3
  <2>5. disk' = [q \in Path |-> IF q = path THEN Missing ELSE disk[q]]
      BY <1>1, <2>4 DEF Without
  <2>6. disk' = [disk EXCEPT ![path] = Missing]
      BY <1>1, <2>5 DEF DiskState
  <2>7. removed' \subseteq removed \cup {path}
      BY <1>1, <2>1, <2>2 DEF Existing
  <2>8. e \in Event
      BY DEF Event, EventKind
  <2>9. Fits(e, disk)
      BY <1>1 DEF Fits
  <2>10. disk' = Affected(disk, e)
      BY <2>6 DEF Affected
  <2>11. Forgets(e, removed, removed')
      BY <2>7 DEF Forgets
  <2> QED
      BY <2>8, <2>9, <2>10, <2>11 DEF Explains
<1>6. Types'
  <2> HIDE DEF task
  <2> QED
      BY <1>1, <1>2, <1>4, ChangeTypes DEF DbInv
<1>7. History'
  <2>1. single' => Explains(Envelope(task)', disk, removed, disk', removed')
    <3> HIDE DEF e
    <3> QED
        BY <1>3, <1>5
  <2> QED
      BY <1>1, <2>1, ChangeHistory
<1> QED
    BY <1>6, <1>7 DEF DbInv

\* A path is moved or copied, alone if nothing below either of its places existed.
LEMMA PlaceStep ==
    ASSUME DbInv, NEW src \in Path, NEW dst \in Path, MoveTo(src, dst) \/ CopyTo(src, dst)
    PROVE  DbInv'
<1>1. PICK kind \in {"Moved", "Copied"} :
         /\ Placeable(src, dst)
         /\ disk' = IF kind = "Moved" THEN Without(Placed(src, dst), Within(src))
                                      ELSE Placed(src, dst)
         /\ removed' = removed \ Within(dst)
         /\ Change(Task(kind, src, dst, NoChecksum, TRUE), Existing(src) \cup Existing(dst))
    BY DEF MoveTo, CopyTo
<1> DEFINE task == Task(kind, src, dst, NoChecksum, TRUE)
           e == [kind |-> kind, source |-> src, destination |-> dst,
                 checksum |-> Hash(disk', dst)]
<1>2. disk \in DiskState /\ removed \subseteq Path
    BY DEF DbInv, Types
<1>3. task \in TaskType
    BY DEF Task, TaskType, EventKind
<1>4. Envelope(task)' = e
    BY DistinctMarks DEF Envelope, Task, FinalPath
<1>5. disk' \in DiskState /\ removed' \subseteq Path
  <2>1. ASSUME NEW q \in Path PROVE Placed(src, dst)[q] \in Checksum \cup {Dir, Missing}
    <3> DEFINE origin == {r \in Existing(src) : Relocated(r, src, dst) = q}
    <3>1. Placed(src, dst)[q] = IF q \in Within(dst)
                                THEN IF origin = {} THEN Missing
                                     ELSE disk[CHOOSE r \in origin : TRUE]
                                ELSE disk[q]
        BY DEF Placed
    <3>2. origin # {} => (CHOOSE r \in origin : TRUE) \in Path
        BY DEF Existing, Within
    <3> HIDE DEF origin
    <3> QED
        BY <1>2, <3>1, <3>2 DEF DiskState
  <2>2. Placed(src, dst) \in DiskState
    <3>1. Placed(src, dst) = [q \in Path |-> Placed(src, dst)[q]]
        BY DEF Placed
    <3> QED
        BY <2>1, <3>1 DEF DiskState
  <2>3. Without(Placed(src, dst), Within(src)) \in DiskState
      BY <2>1 DEF Without, DiskState
  <2> QED
      BY <1>1, <1>2, <2>2, <2>3
<1>6. ASSUME single' PROVE Explains(e, disk, removed, disk', removed')
  <2>1. Existing(src) \cup Existing(dst) \subseteq {src, dst}
      BY <1>1, <1>6 DEF Change, Task
  <2>2. /\ src # dst /\ disk[src] # Missing /\ dst \in Within(dst)
        /\ Placed(src, dst) = [disk EXCEPT ![dst] = disk[src]]
        /\ Without(Placed(src, dst), Within(src))
              = [disk EXCEPT ![dst] = disk[src], ![src] = Missing]
      BY <1>1, <1>2, <2>1, PlacedAlone
  <2>3. disk'[dst] = disk[src]
      BY <1>1, <1>2, <2>2 DEF DiskState
  <2>4. Hash(disk', dst) = Hash(disk, src)
      BY <2>3 DEF Hash
  <2>5. e \in Event
    <3>1. Hash(disk', dst) \in Checksum \cup {NoChecksum}
        BY <1>5 DEF Hash
    <3> QED
        BY <3>1 DEF Event, EventKind
  <2>6. Fits(e, disk)
      BY <2>2, <2>4 DEF Fits
  <2>7. disk' = Affected(disk, e)
      BY <1>1, <2>2 DEF Affected
  <2>8. Forgets(e, removed, removed')
      BY <1>1, <2>2, DistinctMarks DEF Forgets, FinalPath
  <2> QED
      BY <2>5, <2>6, <2>7, <2>8 DEF Explains
<1>7. Types'
  <2> HIDE DEF task
  <2> QED
      BY <1>1, <1>3, <1>5, ChangeTypes DEF DbInv, task
<1>8. History'
  <2>1. single' => Explains(Envelope(task)', disk, removed, disk', removed')
    <3> HIDE DEF e
    <3> QED
        BY <1>4, <1>6
  <2> QED
      BY <1>1, <2>1, ChangeHistory
<1> QED
    BY <1>7, <1>8 DEF DbInv

-----------------------------------------------------------------------------
(* The invariant *)

\* A node starts with an empty disk and empty tables.
LEMMA InitDb == Init => DbInv
<1> SUFFICES ASSUME Init PROVE DbInv
    OBVIOUS
<1>1. BagToSet(tasks) = {}
    BY DEF Init, EmptyBag, SetToBag, BagToSet
<1>2. disk \in DiskState /\ store \in Store
    BY DEF Init, EmptyStore, Store, DiskState
<1>3. commands \in Seq(Event) /\ Len(commands) = 0
    BY DEF Init
<1>4. Types
    BY <1>1, <1>2, <1>3, ParametersAssumption DEF Init, Types
<1>5. History
  <2> DEFINE states == [i \in 0..0 |-> disk]
             gone == [i \in 0..0 |-> removed]
  <2>1. Describes(store, disk, removed)
      BY DistinctMarks DEF Init, Describes, EmptyStore, RowOf
  <2>2. Backlog(states, gone)
    <3>1. states[0] = disk /\ gone[0] = removed /\ removed \in SUBSET Path
        BY <1>4 DEF Types
    <3>2. Pending(disk, removed)
        BY DEF Init, Pending
    <3>3. states \in [0..0 -> DiskState] /\ gone \in [0..0 -> SUBSET Path]
        BY <1>2, <3>1
    <3> HIDE DEF states, gone
    <3> QED
        BY <1>3, <2>1, <3>1, <3>2, <3>3 DEF Backlog
  <2> QED
      BY <2>2 DEF History
<1> QED
    BY <1>4, <1>5 DEF DbInv

\* The steps after the changes keep the types.
LEMMA StepTypes ==
    ASSUME Types, (\E task \in BagToSet(tasks) : Record(task)) \/ WorkerApplies \/ Crash
    PROVE  Types'
<1>1. ASSUME NEW task \in BagToSet(tasks), Record(task) PROVE Types'
  <2>1. Envelope(task) \in Event
      BY EnvelopeType DEF Types
  <2>2. BagToSet(tasks') \subseteq BagToSet(tasks)
      BY <1>1 DEF Record, BagToSet, SetToBag, (-)
  <2>3. commands' \in Seq(Event)
      BY <1>1, <2>1 DEF Record, Types
  <2>4. UNCHANGED <<disk, store, applied, removed, ordered, single, changes, crashes>>
      BY <1>1 DEF Record
  <2> QED
      BY <2>2, <2>3, <2>4 DEF Types
<1>2. CASE WorkerApplies
  <2>1. Head(commands) \in Event /\ Tail(commands) \in Seq(Event)
      BY <1>2 DEF WorkerApplies, Types
  <2>2. store' \in Store
      BY <1>2, <2>1, ApplyEventType DEF WorkerApplies, Types
  <2> QED
      BY <1>2, <2>1, <2>2 DEF WorkerApplies, Types
<1>3. CASE Crash
  <2>1. BagToSet(tasks') = {} /\ commands' \in Seq(Event)
      BY <1>3 DEF Crash, EmptyBag, SetToBag, BagToSet
  <2>2. crashes' \in 0..MAX_CRASHES
      BY <1>3, ParametersAssumption DEF Crash, Types
  <2> QED
      BY <1>3, <2>1, <2>2 DEF Crash, Types
<1> QED
    BY <1>1, <1>2, <1>3

\* Every step extends the backlog, or takes from it.
LEMMA StepDb == DbInv /\ [Next]_vars => DbInv'
<1> SUFFICES ASSUME DbInv, [Next]_vars PROVE DbInv'
    OBVIOUS
<1>1. CASE UNCHANGED vars
    BY <1>1 DEF vars, DbInv, Types, History, Backlog, Pending, Envelope
<1>2. ASSUME NEW path \in Path, NEW c \in Checksum, Put(path, c) \/ Install(path, c)
      PROVE  DbInv'
    BY <1>2, PutStep
<1>3. ASSUME NEW path \in Path, Delete(path) PROVE DbInv'
    BY <1>3, DeleteStep
<1>4. ASSUME NEW path \in Path, MakeCollection(path) PROVE DbInv'
    BY <1>4, MakeCollectionStep
<1>5. ASSUME NEW src \in Path, NEW dst \in Path, MoveTo(src, dst) \/ CopyTo(src, dst)
      PROVE  DbInv'
    BY <1>5, PlaceStep
<1>6. CASE (\E task \in BagToSet(tasks) : Record(task)) \/ WorkerApplies \/ Crash
  <2>1. Types'
      BY <1>6, StepTypes DEF DbInv
  <2>2. History'
      BY <1>6, RecordHistory, WorkerHistory, CrashHistory
  <2> QED
      BY <2>1, <2>2 DEF DbInv
<1> QED
    BY <1>1, <1>2, <1>3, <1>4, <1>5, <1>6 DEF Next

\* The invariant holds in every reachable state.
LEMMA DbInvariance == Spec => []DbInv
BY InitDb, StepDb, PTL DEF Spec

\* Once every change has reached the database in order, the tables describe the disk.
LEMMA SettledDescribes ==
    ASSUME DbInv, Settled, ordered, single
    PROVE  /\ Describes(store, disk, removed)
           /\ store \in Store /\ disk \in DiskState /\ removed \in SUBSET Path
<1>1. PICK states, gone : Backlog(states, gone)
    BY DEF DbInv, History
<1>2. Len(commands) = 0 /\ tasks = EmptyBag
    BY DEF Settled
<1>3. states[0] = disk /\ removed \subseteq gone[0] /\ Describes(store, states[0], gone[0])
    BY <1>1, <1>2, NoTaskIsEmpty DEF Backlog, Pending
<1>4. Describes(store, disk, removed)
    BY <1>3 DEF Describes
<1> QED
    BY <1>4 DEF DbInv, Types

-----------------------------------------------------------------------------
(* Theorems *)

\* The disk, the tasks, the channel and the tables keep their types, for any paths.
THEOREM TypeCorrect == Spec => []TypeOK
BY DbInvariance, TypesSuffice, PTL DEF DbInv

\* After any number of requests and installed pulls, recorded in the order in which they
\* came, the manifest that peers compare theirs with is true: it lists what is on the disk,
\* with its kind and its content.
THEOREM ManifestIsTrue == Spec => []ManifestMatchesDisk
<1>1. DbInv => ManifestMatchesDisk
  <2> SUFFICES ASSUME DbInv, Settled, ordered, single
               PROVE  LET states == latest_states(manifest)
                          live   == {path \in DOMAIN states : states[path].kind # "deleted"}
                      IN /\ live = {path \in Path : disk[path] # Missing}
                         /\ \A path \in live :
                               /\ states[path].kind = "folder" <=> disk[path] = Dir
                               /\ states[path].checksum = Hash(disk, path)
      BY DEF ManifestMatchesDisk
  <2> DEFINE states == latest_states(manifest)
             live   == {path \in DOMAIN states : states[path].kind # "deleted"}
             there  == {path \in Path : disk[path] # Missing}
  <2>1. /\ DOMAIN manifest.resources = there
        /\ \A path \in DOMAIN manifest.resources :
              /\ manifest.resources[path].kind = IF disk[path] = Dir THEN "folder" ELSE "file"
              /\ manifest.resources[path].checksum = Hash(disk, path)
        /\ DOMAIN manifest.tombstones \subseteq {path \in Path : disk[path] = Missing}
      BY SettledDescribes, DescribedManifest DEF manifest
  <2>2. /\ DOMAIN states = DOMAIN manifest.resources \cup DOMAIN manifest.tombstones
        /\ \A path \in DOMAIN states :
              states[path] = IF path \in DOMAIN manifest.tombstones
                             THEN [kind |-> "deleted", checksum |-> NoChecksum,
                                   updated_at |-> manifest.tombstones[path]]
                             ELSE manifest.resources[path]
      BY DEF latest_states
  <2> HIDE DEF states
  <2>3. \A path \in there : path \in DOMAIN states /\ states[path] = manifest.resources[path]
      BY <2>1, <2>2
  <2>4. ASSUME NEW path \in DOMAIN states, path \notin there PROVE states[path].kind = "deleted"
    <3>1. path \in DOMAIN manifest.tombstones
        BY <2>1, <2>2, <2>4
    <3>2. states[path] = [kind |-> "deleted", checksum |-> NoChecksum,
                          updated_at |-> manifest.tombstones[path]]
        BY <2>2, <3>1
    <3> QED
        BY <3>2
  <2>5. live = there
      BY <2>1, <2>3, <2>4
  <2>6. \A path \in there : /\ states[path].kind = "folder" <=> disk[path] = Dir
                            /\ states[path].checksum = Hash(disk, path)
      BY <2>1, <2>3
  <2> HIDE DEF live
  <2> QED
      BY <2>5, <2>6 DEF states, live
<1> QED
    BY <1>1, DbInvariance, PTL

\* Likewise, whatever was deleted and not made again has a tombstone: a peer that missed
\* the deletion hears of it.
THEOREM DeletionsAreKept == Spec => []DeletedHasTombstone
<1>1. DbInv => DeletedHasTombstone
    BY SettledDescribes, DescribedManifest DEF DeletedHasTombstone, manifest
<1> QED
    BY <1>1, DbInvariance, PTL

\* Likewise, a scan that fails anywhere leaves the manifest as it is.
THEOREM FailedScansAreHarmless == Spec => []ScanErrorsAreHarmless
<1>1. DbInv => ScanErrorsAreHarmless
    BY SettledDescribes, FailedScan DEF ScanErrorsAreHarmless, manifest
<1> QED
    BY <1>1, DbInvariance, PTL

\* At any time, whatever a crash lost and whatever is still on its way, the manifest
\* offers no file that is missing and leaves out nothing that exists.
THEOREM OffersAreThere == Spec => []ManifestOffersWhatExists
<1>1. ManifestOffersWhatExists
    BY OffersWhatExists DEF ManifestOffersWhatExists, manifest
<1> QED
    BY <1>1, PTL
=============================================================================
