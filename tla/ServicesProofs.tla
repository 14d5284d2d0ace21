---------------------------- MODULE ServicesProofs ----------------------------
(***************************************************************************)
(* Proofs about Services, for any number of changes and requests and any   *)
(* capacity, and about Pages, for listings of any length.                  *)
(*                                                                         *)
(* That a manifest is current rests on the order of the channel to the     *)
(* worker: ahead of each question for a manifest are the records of the    *)
(* changes that are due with its answer and that the worker has not got.   *)
(* That paging gets everything rests on the client having the beginning of *)
(* the listing up to its offset.                                           *)
(***************************************************************************)
EXTENDS Services, SequenceTheorems, FiniteSetTheorems, TLAPS

-----------------------------------------------------------------------------
(* The inductive invariant *)

ChannelTypes ==
    /\ loop \in {"starting", "select", "manifest", "ended"}
    /\ commands \in Seq(Command)
    /\ announcements \in Seq(Path)
    /\ due \in [Asker -> SUBSET Path]
    /\ recorded \in SUBSET Path /\ sent \in SUBSET Path
    /\ applied \in SUBSET Path /\ failed \in SUBSET Path

\* A question for a manifest has an asker who waits, and no second one.
QuestionsAreSingle ==
    /\ \A i \in 1..Len(commands) :
          /\ commands[i] = Manifest(Loop) => loop = "manifest"
          /\ commands[i] = Manifest(Pager) => pager = "waiting"
    /\ \A i, j \in 1..Len(commands) :
          commands[i].kind = "manifest" /\ commands[i] = commands[j] => i = j

\* The worker has had the change, or will; the latter before the n-th command.
Known(path) ==
    \/ path \in applied \cup failed
    \/ \E j \in 1..Len(commands) : commands[j] = Record(path)

KnownBefore(path, n) ==
    \/ path \in applied \cup failed
    \/ \E j \in 1..Len(commands) : j < n /\ commands[j] = Record(path)

RecordsAreKept == \A path \in recorded : Known(path)

AnnouncedIsRecorded ==
    /\ sent \subseteq recorded
    /\ \A i \in 1..Len(announcements) : announcements[i] \in recorded

DueIsAhead ==
    \A i \in 1..Len(commands), a \in Asker :
        commands[i] = Manifest(a) => \A path \in due[a] : KnownBefore(path, i)

Current == /\ ChannelTypes /\ QuestionsAreSingle /\ RecordsAreKept
           /\ AnnouncedIsRecorded /\ DueIsAhead

-----------------------------------------------------------------------------
(* Its steps *)

\* What the invariant is about, without the channels to and in the p2p task.
core == <<commands, applied, failed, due, recorded>>

\* The steps that neither ask nor record.
LEMMA CoreUnchanged ==
    ASSUME Current, UNCHANGED <<core, pager>>,
           loop' \in {"starting", "select", "manifest", "ended"},
           loop = "manifest" => loop' = "manifest",
           announcements' \in Seq(Path), sent' \in SUBSET Path,
           AnnouncedIsRecorded'
    PROVE  Current'
BY DEF Current, ChannelTypes, QuestionsAreSingle, RecordsAreKept, DueIsAhead, Known, KnownBefore,
       core

\* A record enters the channel.
LEMMA RecordStep ==
    ASSUME Current, NEW path \in Path, RecordChange(path)
    PROVE  Current'
<1>1. /\ commands \in Seq(Command) /\ Record(path) \in Command
      /\ commands' = Append(commands, Record(path))
      /\ UNCHANGED <<loop, announcements, sent, applied, failed, pager, due>>
      /\ recorded' = recorded \cup {path}
    BY DEF Current, ChannelTypes, RecordChange, task, client, Command, Record
<1>2. /\ Len(commands') = Len(commands) + 1 /\ commands' \in Seq(Command)
      /\ \A i \in 1..Len(commands) : commands'[i] = commands[i]
      /\ commands'[Len(commands) + 1] = Record(path)
    BY <1>1
<1>3. ChannelTypes' /\ AnnouncedIsRecorded'
    BY <1>1, <1>2 DEF Current, ChannelTypes, AnnouncedIsRecorded
<1>4. \A a \in Asker : Record(path) # Manifest(a)
    BY DEF Record, Manifest
<1>5. QuestionsAreSingle'
  <2>1. Record(path).kind = "record"
      BY DEF Record
  <2>2. Len(commands) \in Nat /\ Loop \in Asker /\ Pager \in Asker
      BY <1>1 DEF Asker
  <2>3. \A i \in 1..Len(commands') : i \in 1..Len(commands) \/ i = Len(commands) + 1
      BY <1>2, <2>2
  <2> QED
      BY <1>1, <1>2, <1>4, <2>1, <2>2, <2>3 DEF Current, QuestionsAreSingle
<1>6. ASSUME NEW q \in Path, NEW n \in Nat, KnownBefore(q, n)
      PROVE  KnownBefore(q, n)'
    BY <1>1, <1>2, <1>6 DEF KnownBefore
<1>7. RecordsAreKept'
  <2> SUFFICES ASSUME NEW q \in recorded'
               PROVE  Known(q)'
      BY DEF RecordsAreKept
  <2>1. CASE q = path
      BY <1>1, <1>2, <2>1 DEF Known
  <2>2. CASE q # path
      BY <1>1, <1>2, <2>2 DEF Current, RecordsAreKept, Known
  <2> QED
      BY <2>1, <2>2
<1>8. DueIsAhead'
  <2> SUFFICES ASSUME NEW i \in 1..Len(commands'), NEW a \in Asker,
                      commands'[i] = Manifest(a), NEW q \in due'[a]
               PROVE  KnownBefore(q, i)'
      BY DEF DueIsAhead
  <2>1. i \in 1..Len(commands) /\ commands[i] = Manifest(a)
      BY <1>1, <1>2, <1>4
  <2>2. q \in Path /\ KnownBefore(q, i)
      BY <1>1, <2>1 DEF Current, ChannelTypes, DueIsAhead
  <2> QED
      BY <1>6, <2>1, <2>2
<1> QED
    BY <1>3, <1>5, <1>7, <1>8 DEF Current

\* A question enters the channel: all that is recorded is ahead of it.
LEMMA AskStep ==
    ASSUME Current, NEW asker \in Asker, Ask(asker),
           \A i \in 1..Len(commands) : commands[i] # Manifest(asker),
           NEW paths \in SUBSET recorded, due' = [due EXCEPT ![asker] = paths],
           UNCHANGED <<applied, failed, recorded, sent, announcements>>,
           loop' \in {"starting", "select", "manifest", "ended"},
           loop = "manifest" => loop' = "manifest",
           pager = "waiting" => pager' = "waiting",
           asker = Loop => loop' = "manifest",
           asker = Pager => pager' = "waiting"
    PROVE  Current'
<1>1. /\ commands \in Seq(Command) /\ Manifest(asker) \in Command
      /\ commands' = Append(commands, Manifest(asker))
    BY DEF Current, ChannelTypes, Ask, Command, Manifest
<1>2. /\ Len(commands') = Len(commands) + 1 /\ commands' \in Seq(Command)
      /\ \A i \in 1..Len(commands) : commands'[i] = commands[i]
      /\ commands'[Len(commands) + 1] = Manifest(asker)
      /\ Len(commands) \in Nat
    BY <1>1
<1>3. ChannelTypes' /\ AnnouncedIsRecorded'
    BY <1>1, <1>2 DEF Current, ChannelTypes, AnnouncedIsRecorded
<1>4. \A a \in Asker : Manifest(a) = Manifest(asker) => a = asker
    BY DEF Manifest
<1>5. \A i \in 1..Len(commands') : i \in 1..Len(commands) \/ i = Len(commands) + 1
    BY <1>2
<1>6. QuestionsAreSingle'
  <2>1. Loop \in Asker /\ Pager \in Asker
      BY DEF Asker
  <2>2. \A i \in 1..Len(commands') :
            /\ commands'[i] = Manifest(Loop) => loop' = "manifest"
            /\ commands'[i] = Manifest(Pager) => pager' = "waiting"
      BY <1>2, <1>4, <1>5, <2>1 DEF Current, QuestionsAreSingle
  <2>3. ASSUME NEW i \in 1..Len(commands'), NEW j \in 1..Len(commands'),
               commands'[i].kind = "manifest", commands'[i] = commands'[j]
        PROVE  i = j
    <3>1. CASE i \in 1..Len(commands) /\ j \in 1..Len(commands)
        BY <1>2, <2>3, <3>1 DEF Current, QuestionsAreSingle
    <3>2. CASE i = Len(commands) + 1 \/ j = Len(commands) + 1
        BY <1>2, <1>5, <2>3, <3>2
    <3> QED
        BY <1>5, <3>1, <3>2
  <2> QED
      BY <2>2, <2>3 DEF QuestionsAreSingle
<1>7. ASSUME NEW q \in Path, NEW n \in Nat, KnownBefore(q, n)
      PROVE  KnownBefore(q, n)'
    BY <1>1, <1>2, <1>7 DEF KnownBefore
<1>8. \A q \in recorded : \/ q \in applied' \cup failed'
                           \/ \E j \in 1..Len(commands) : commands'[j] = Record(q)
    BY <1>1, <1>2 DEF Current, RecordsAreKept, Known
<1>9. RecordsAreKept'
    BY <1>2, <1>8 DEF RecordsAreKept, Known
<1>10. DueIsAhead'
  <2> SUFFICES ASSUME NEW i \in 1..Len(commands'), NEW a \in Asker,
                      commands'[i] = Manifest(a), NEW q \in due'[a]
               PROVE  KnownBefore(q, i)'
      BY DEF DueIsAhead
  <2>1. due \in [Asker -> SUBSET Path]
      BY DEF Current, ChannelTypes
  <2>2. CASE i = Len(commands) + 1
    <3>1. a = asker /\ q \in recorded
        BY <1>2, <1>4, <2>1, <2>2
    <3> QED
        BY <1>2, <1>8, <2>2, <3>1 DEF KnownBefore
  <2>3. CASE i \in 1..Len(commands)
    <3>1. commands[i] = Manifest(a) /\ a # asker
        BY <1>2, <2>3
    <3>2. q \in due[a] /\ q \in Path
        BY <2>1, <3>1
    <3> QED
        BY <1>7, <2>3, <3>1, <3>2 DEF Current, DueIsAhead
  <2> QED
      BY <1>5, <2>2, <2>3
<1> QED
    BY <1>3, <1>6, <1>9, <1>10 DEF Current

\* The worker takes a command: a record becomes known, a question is answered.
LEMMA TakeStep ==
    ASSUME Current, commands # <<>>, commands' = Tail(commands),
           applied' \in SUBSET Path, failed' \in SUBSET Path,
           applied \subseteq applied', failed \subseteq failed',
           Head(commands).kind = "record" => Head(commands).of \in applied' \cup failed',
           due' \in [Asker -> SUBSET Path],
           \A a \in Asker : due'[a] \subseteq due[a],
           UNCHANGED <<recorded, sent, announcements>>,
           loop' \in {"starting", "select", "manifest", "ended"},
           loop = "manifest" => loop' = "manifest" \/ Head(commands) = Manifest(Loop),
           pager = "waiting" => pager' = "waiting" \/ Head(commands) = Manifest(Pager)
    PROVE  Current'
<1>1. commands \in Seq(Command) /\ Len(commands) \in Nat /\ Len(commands) > 0
    BY DEF Current, ChannelTypes
<1>2. /\ commands' \in Seq(Command) /\ Len(commands') = Len(commands) - 1
      /\ \A i \in 1..Len(commands') : i + 1 \in 1..Len(commands) /\ commands'[i] = commands[i + 1]
      /\ Head(commands) = commands[1] /\ commands[1] \in Command
    BY <1>1
<1>3. ChannelTypes' /\ AnnouncedIsRecorded'
    BY <1>2 DEF Current, ChannelTypes, AnnouncedIsRecorded
<1>4. QuestionsAreSingle'
  <2>1. \A a \in Asker : Manifest(a).kind = "manifest"
      BY DEF Manifest
  <2>2. \A i \in 1..Len(commands'), a \in Asker :
            commands'[i] = Manifest(a) => Head(commands) # Manifest(a)
      BY <1>1, <1>2, <2>1 DEF Current, QuestionsAreSingle
  <2>3. Loop \in Asker /\ Pager \in Asker
      BY DEF Asker
  <2> QED
      BY <1>1, <1>2, <2>2, <2>3 DEF Current, QuestionsAreSingle
<1>5. ASSUME NEW q \in Path, NEW j \in 1..Len(commands), commands[j] = Record(q)
      PROVE  q \in applied' \cup failed' \/ (j - 1 \in 1..Len(commands') /\ commands'[j - 1] = Record(q))
  <2>1. CASE j = 1
      BY <1>2, <1>5, <2>1 DEF Record
  <2>2. CASE j # 1
      BY <1>1, <1>2, <1>5, <2>2
  <2> QED
      BY <2>1, <2>2
<1>6. RecordsAreKept'
    BY <1>5 DEF Current, ChannelTypes, RecordsAreKept, Known
<1>7. DueIsAhead'
  <2> SUFFICES ASSUME NEW i \in 1..Len(commands'), NEW a \in Asker,
                      commands'[i] = Manifest(a), NEW q \in due'[a]
               PROVE  KnownBefore(q, i)'
      BY DEF DueIsAhead
  <2>1. commands[i + 1] = Manifest(a) /\ i + 1 \in 1..Len(commands) /\ q \in due[a] /\ q \in Path
      BY <1>2 DEF Current, ChannelTypes
  <2>2. KnownBefore(q, i + 1)
      BY <2>1 DEF Current, DueIsAhead
  <2>3. CASE q \in applied \cup failed
      BY <2>3 DEF KnownBefore
  <2>4. CASE \E j \in 1..Len(commands) : j < i + 1 /\ commands[j] = Record(q)
    <3>1. PICK j \in 1..Len(commands) : j < i + 1 /\ commands[j] = Record(q)
        BY <2>4
    <3>2. CASE q \in applied' \cup failed'
        BY <3>2 DEF KnownBefore
    <3>3. CASE j - 1 \in 1..Len(commands') /\ commands'[j - 1] = Record(q)
      <4>1. j - 1 < i
          BY <1>1, <1>2, <3>1
      <4> QED
          BY <3>3, <4>1 DEF KnownBefore, Record
    <3> QED
        BY <1>5, <2>1, <3>1, <3>2, <3>3
  <2> QED
      BY <2>2, <2>3, <2>4 DEF KnownBefore
<1> QED
    BY <1>3, <1>4, <1>6, <1>7 DEF Current

-----------------------------------------------------------------------------
(* The theorems *)

LEMMA CurrentHolds == (Init => Current) /\ (Current /\ [Next]_vars => Current')
<1>1. Init => Current
    BY DEF Init, Current, ChannelTypes, QuestionsAreSingle, RecordsAreKept,
           AnnouncedIsRecorded, DueIsAhead
<1>2. ASSUME Current, [Next]_vars PROVE Current'
  <2>0. ChannelTypes /\ AnnouncedIsRecorded
      BY <1>2 DEF Current
  <2>1. CASE UNCHANGED vars
      BY <1>2, <2>0, <2>1, CoreUnchanged DEF vars, task, worker, changes, client, core,
         ChannelTypes, AnnouncedIsRecorded
  <2>2. ASSUME NEW path \in Path, ChangeDisk(path) PROVE Current'
      BY <1>2, <2>0, <2>2, CoreUnchanged DEF ChangeDisk, task, worker, client, core,
         ChannelTypes, AnnouncedIsRecorded
  <2>3. ASSUME NEW path \in Path, RecordChange(path) PROVE Current'
      BY <1>2, <2>3, RecordStep
  <2>4. ASSUME NEW path \in Path, AnnounceChange(path) PROVE Current'
    <3>1. /\ UNCHANGED <<core, pager, loop, sent, recorded>> /\ path \in recorded
          /\ announcements' \in {announcements, Append(announcements, path)}
        BY <2>4 DEF AnnounceChange, worker, client, core
    <3>2. announcements \in Seq(Path)
          /\ \A i \in 1..Len(announcements) : announcements[i] \in recorded
        BY <2>0 DEF ChannelTypes, AnnouncedIsRecorded
    <3>3. Append(announcements, path) \in Seq(Path)
          /\ \A i \in 1..Len(Append(announcements, path)) :
                Append(announcements, path)[i] \in recorded
        BY <3>1, <3>2
    <3>4. announcements' \in Seq(Path)
          /\ \A i \in 1..Len(announcements') : announcements'[i] \in recorded
        BY <3>1, <3>2, <3>3
    <3> QED
        BY <1>2, <2>0, <3>1, <3>4, CoreUnchanged DEF ChannelTypes, AnnouncedIsRecorded
  <2>5. CASE WorkerApplies
    <3>1. commands \in Seq(Command) /\ commands # <<>> /\ Head(commands) \in Command
        BY <2>0, <2>5 DEF ChannelTypes, WorkerApplies
    <3>2. Head(commands).kind = "record" /\ Head(commands).of \in Path
        BY <2>5, <3>1 DEF WorkerApplies, Command
    <3> QED
        BY <1>2, <2>0, <2>5, <3>1, <3>2, TakeStep
        DEF WorkerApplies, ChannelTypes, task, changes, client
  <2>6. CASE WorkerAnswers
    <3>1. commands \in Seq(Command) /\ commands # <<>> /\ Head(commands) \in Command
        BY <2>0, <2>6 DEF ChannelTypes, WorkerAnswers
    <3>2. /\ Head(commands).kind = "manifest" /\ Head(commands).of \in Asker
          /\ Head(commands) = Manifest(Head(commands).of)
        BY <2>6, <3>1 DEF WorkerAnswers, Command, Manifest
    <3>3. /\ due' \in [Asker -> SUBSET Path] /\ \A a \in Asker : due'[a] \subseteq due[a]
          /\ UNCHANGED <<recorded, sent, announcements, applied, failed>>
          /\ commands' = Tail(commands)
        BY <2>0, <2>6, <3>2
        DEF ChannelTypes, WorkerAnswers, AnswerLoop, AnswerPager, task, changes
    <3>4. /\ loop' \in {"starting", "select", "manifest", "ended"}
          /\ loop = "manifest" => loop' = "manifest" \/ Head(commands) = Manifest(Loop)
          /\ pager = "waiting" => pager' = "waiting" \/ Head(commands) = Manifest(Pager)
        BY <2>0, <2>6, <3>2
        DEF ChannelTypes, WorkerAnswers, AnswerLoop, AnswerPager, task, client
    <3> QED
        BY <1>2, <2>0, <3>1, <3>2, <3>3, <3>4, TakeStep DEF ChannelTypes
  <2>7. CASE LoopStarts \/ LoopEnds
    <3>1. /\ UNCHANGED <<core, pager, sent>> /\ loop # "manifest"
          /\ loop' \in {"select", "ended"}
          /\ announcements' = announcements \/ announcements' = <<>>
        BY <2>7 DEF LoopStarts, LoopEnds, worker, changes, client, core
    <3>2. announcements' \in Seq(Path)
          /\ \A i \in 1..Len(announcements') : announcements'[i] \in recorded
      <4>1. CASE announcements' = announcements
          BY <2>0, <4>1 DEF ChannelTypes, AnnouncedIsRecorded
      <4>2. CASE announcements' = <<>>
          BY <4>2
      <4> QED
          BY <3>1, <4>1, <4>2
    <3>3. sent' \in SUBSET Path /\ AnnouncedIsRecorded'
        BY <2>0, <3>1, <3>2 DEF ChannelTypes, AnnouncedIsRecorded, core
    <3>4. UNCHANGED <<core, pager>>
          /\ loop' \in {"starting", "select", "manifest", "ended"}
          /\ (loop = "manifest" => loop' = "manifest")
        BY <3>1
    <3> QED
        BY <1>2, <3>2, <3>3, <3>4, CoreUnchanged
  <2>8. CASE LoopSendsChange
    <3>1. /\ UNCHANGED <<core, pager, loop>> /\ announcements # <<>>
          /\ announcements' = Tail(announcements) /\ sent' = sent \cup {Head(announcements)}
        BY <2>8 DEF LoopSendsChange, worker, changes, client, core
    <3>2. /\ announcements' \in Seq(Path) /\ Head(announcements) \in recorded
          /\ \A i \in 1..Len(announcements') : announcements'[i] \in recorded
        BY <2>0, <3>1 DEF ChannelTypes, AnnouncedIsRecorded
    <3> QED
        BY <1>2, <2>0, <3>1, <3>2, CoreUnchanged DEF ChannelTypes, AnnouncedIsRecorded, core
  <2>9. CASE LoopNeedsManifest
    <3>1. \A i \in 1..Len(commands) : commands[i] # Manifest(Loop)
        BY <1>2, <2>9 DEF LoopNeedsManifest, Current, QuestionsAreSingle
    <3> QED
        BY <1>2, <2>0, <2>9, <3>1, AskStep, ServicesAssumption
        DEF LoopNeedsManifest, ChannelTypes, AnnouncedIsRecorded, Asker, changes, client,
            ServicesAssumption
  <2>10. CASE AskPage
    <3>1. \A i \in 1..Len(commands) : commands[i] # Manifest(Pager)
        BY <1>2, <2>10 DEF AskPage, Current, QuestionsAreSingle
    <3> QED
        BY <1>2, <2>0, <2>10, <3>1, AskStep, ServicesAssumption
        DEF AskPage, ChannelTypes, AnnouncedIsRecorded, Asker, changes, task,
            ServicesAssumption
  <2>11. ASSUME LoopTakesQuery \/ \E r \in Request : AskLoop(r) \/ Disconnect(r)
         PROVE  Current'
    <3>1. UNCHANGED <<core, pager, loop, sent, announcements>>
        BY <2>11 DEF LoopTakesQuery, AskLoop, Disconnect, worker, changes, client, core
    <3> QED
        BY <1>2, <2>0, <3>1, CoreUnchanged DEF ChannelTypes, AnnouncedIsRecorded, core
  <2> QED
      BY <1>2, <2>1, <2>2, <2>3, <2>4, <2>5, <2>6, <2>7, <2>8, <2>9, <2>10, <2>11 DEF Next
<1> QED
    BY <1>1, <1>2

\* When the worker is about to answer, what is due is known.
LEMMA NothingIsAheadOfTheFirst ==
    ASSUME Current, NEW asker \in Asker, AsksNext(asker)
    PROVE  due[asker] \subseteq applied \cup failed
<1>1. commands \in Seq(Command) /\ commands # <<>> /\ commands[1] = Manifest(asker)
      /\ 1 \in 1..Len(commands)
    BY DEF Current, ChannelTypes, AsksNext
<1>2. \A path \in due[asker] : KnownBefore(path, 1)
    BY <1>1 DEF Current, DueIsAhead
<1> QED
    BY <1>1, <1>2 DEF KnownBefore

\* A page of files has every change that was recorded before the client asked, and a peer
\* finds in the manifest every change that it was told of before it asked, however long
\* the channels are.
THEOREM ManifestsHaveWhatIsDue == Spec => []ManifestsAreCurrent
<1>1. Current => ManifestsAreCurrent
    BY NothingIsAheadOfTheFirst DEF ManifestsAreCurrent
<1> QED
    BY <1>1, CurrentHolds, PTL DEF Spec

-----------------------------------------------------------------------------
(* Failures *)

Causes == /\ errors \in Nat
          /\ request \in [Request -> {"new", "waiting", "answered", "failed", "dropped"}]
          /\ FailuresHaveACause

LEMMA CausesStep ==
    ASSUME Causes, Current, [Next]_vars
    PROVE  Causes'
<1> USE DEF Causes, FailuresHaveACause
<1>1. CASE UNCHANGED vars
    BY <1>1 DEF vars, task, worker, client
<1>2. ASSUME NEW path \in Path, ChangeDisk(path) \/ RecordChange(path) \/ AnnounceChange(path)
      PROVE  Causes'
    BY <1>2 DEF ChangeDisk, RecordChange, AnnounceChange, task, worker, client
<1>3. CASE WorkerApplies
    BY <1>3 DEF WorkerApplies, task, client
<1>4. CASE WorkerAnswers
  <2>1. UNCHANGED request /\ errors' \in Nat /\ (errors > 0 => errors' > 0)
    <3>1. UNCHANGED request
        BY <1>4 DEF WorkerAnswers
    <3>2. errors' = errors \/ errors' = errors + 1
        BY <1>4 DEF WorkerAnswers
    <3> QED
        BY <3>1, <3>2
  <2>2. CASE Head(commands).of = Loop /\ AnswerLoop
    <3>1. commands # <<>> /\ Head(commands).kind = "manifest"
        BY <1>4 DEF WorkerAnswers
    <3>2. commands[1] = Manifest(Loop) /\ 1 \in 1..Len(commands)
        BY <2>2, <3>1 DEF Current, ChannelTypes, Command, Manifest
    <3>3. loop = "manifest"
        BY <3>2 DEF Current, QuestionsAreSingle
    <3> QED
        BY <2>1, <2>2, <3>3 DEF AnswerLoop, client
  <2>3. CASE AnswerPager(TRUE)
      BY <2>1, <2>3 DEF AnswerPager, task
  <2>4. CASE errors' = errors + 1 /\ AnswerPager(FALSE)
      BY <2>1, <2>4 DEF AnswerPager, task
  <2> QED
      BY <1>4, <2>2, <2>3, <2>4 DEF WorkerAnswers
<1>5. CASE LoopStarts \/ LoopEnds \/ LoopNeedsManifest \/ LoopSendsChange
    BY <1>5 DEF LoopStarts, LoopEnds, LoopNeedsManifest, LoopSendsChange, worker, client
<1>6. CASE LoopTakesQuery
    BY <1>6 DEF LoopTakesQuery, worker, client
<1>7. ASSUME NEW r \in Request, AskLoop(r) \/ Disconnect(r)
      PROVE  Causes'
    BY <1>7 DEF AskLoop, Disconnect, Arrives, worker, client
<1>8. CASE AskPage
    BY <1>8 DEF AskPage, task
<1> QED
    BY <1>1, <1>2, <1>3, <1>4, <1>5, <1>6, <1>7, <1>8 DEF Next

\* A query fails only when the p2p task has ended and a page only when SQLite failed,
\* however many requests wait and however small the channel is.
THEOREM FailuresAreCaused == Spec => []FailuresHaveACause
<1>1. Init => Causes
    BY DEF Init, Causes, FailuresHaveACause
<1>2. Causes => FailuresHaveACause
    BY DEF Causes
<1> QED
    BY <1>1, <1>2, CurrentHolds, CausesStep, PTL DEF Spec

-----------------------------------------------------------------------------
(* Replies *)

Waits(s, e) == \E i \in 1..Len(s) : s[i] = e

\* Who waits has a question in a channel, and the channels hold nothing else.
Served ==
    /\ queries \in Seq(Request)
    /\ loop = "manifest" => Waits(commands, Manifest(Loop))
    /\ pager = "waiting" => Waits(commands, Manifest(Pager))
    /\ \A r \in Request : request[r] = "waiting" => loop # "ended" /\ Waits(queries, r)

\* What waits in a channel waits on when something is added.
LEMMA WaitsOn ==
    ASSUME NEW S, NEW s \in Seq(S), NEW x \in S, NEW e
    PROVE  /\ Waits(s, e) => Waits(Append(s, x), e)
           /\ Waits(Append(s, x), x)
<1> DEFINE t == Append(s, x)
<1>1. Len(t) = Len(s) + 1 /\ Len(s) \in Nat /\ t[Len(s) + 1] = x
      /\ \A i \in 1..Len(s) : t[i] = s[i]
    OBVIOUS
<1> QED
    BY <1>1 DEF Waits

\* It waits on when something else is taken from the head, or from the middle.
LEMMA WaitsBehind ==
    ASSUME NEW S, NEW s \in Seq(S), s # <<>>, NEW e, Waits(s, e), e # Head(s)
    PROVE  Waits(Tail(s), e)
<1> DEFINE t == Tail(s)
<1>1. Len(t) = Len(s) - 1 /\ Len(s) \in Nat /\ Head(s) = s[1]
      /\ \A i \in 1..Len(t) : t[i] = s[i + 1]
    OBVIOUS
<1>2. PICK i \in 1..Len(s) : s[i] = e
    BY DEF Waits
<1>3. i - 1 \in 1..Len(t) /\ t[i - 1] = e
    BY <1>1, <1>2
<1> QED
    BY <1>3 DEF Waits

LEMMA Joined ==
    ASSUME NEW S, NEW a \in Seq(S), NEW b \in Seq(S)
    PROVE  /\ a \o b \in Seq(S) /\ Len(a \o b) = Len(a) + Len(b)
           /\ \A i \in 1..Len(a) : (a \o b)[i] = a[i]
           /\ \A i \in 1..Len(b) : (a \o b)[Len(a) + i] = b[i]
    OBVIOUS

LEMMA WaitsBeside ==
    ASSUME NEW S, NEW s \in Seq(S), NEW k \in 1..Len(s), NEW e, Waits(s, e), e # s[k]
    PROVE  Waits(RemoveAt(s, k), e)
<1> DEFINE a == SubSeq(s, 1, k - 1)
           b == SubSeq(s, k + 1, Len(s))
<1>1. /\ a \in Seq(S) /\ Len(a) = k - 1 /\ \A i \in 1..k - 1 : a[i] = s[i]
      /\ b \in Seq(S) /\ Len(b) = Len(s) - k /\ \A i \in 1..Len(s) - k : b[i] = s[k + i]
      /\ Len(s) \in Nat
    OBVIOUS
<1>2. RemoveAt(s, k) = a \o b
    BY DEF RemoveAt
<1> HIDE DEF a, b
<1>3. /\ Len(a \o b) = Len(a) + Len(b)
      /\ \A i \in 1..Len(a) : (a \o b)[i] = a[i]
      /\ \A i \in 1..Len(b) : (a \o b)[Len(a) + i] = b[i]
  <2>1. a \in Seq(S) /\ b \in Seq(S)
      BY <1>1
  <2> QED
      BY <2>1, Joined
<1>4. PICK i \in 1..Len(s) : s[i] = e
    BY DEF Waits
<1>5. CASE i < k
  <2>1. i \in 1..Len(a \o b) /\ (a \o b)[i] = e
      BY <1>1, <1>3, <1>4, <1>5
  <2> QED
      BY <1>2, <2>1 DEF Waits
<1>6. CASE i > k
  <2>1. i - k \in 1..Len(s) - k /\ k - 1 + (i - k) = i - 1 /\ k + (i - k) = i
      BY <1>1, <1>6
  <2>2. i - k \in 1..Len(b) /\ Len(a) + (i - k) = i - 1 /\ i - 1 \in 1..Len(a \o b)
      BY <1>1, <1>3, <2>1
  <2>3. (a \o b)[i - 1] = b[i - k] /\ b[i - k] = s[i]
      BY <1>1, <1>3, <2>1, <2>2
  <2> QED
      BY <1>2, <1>4, <2>2, <2>3 DEF Waits
<1> QED
    BY <1>4, <1>5, <1>6

LEMMA RemoveAtType ==
    ASSUME NEW S, NEW s \in Seq(S), NEW k \in 1..Len(s)
    PROVE  RemoveAt(s, k) \in Seq(S)
<1>1. SubSeq(s, 1, k - 1) \in Seq(S) /\ SubSeq(s, k + 1, Len(s)) \in Seq(S)
    OBVIOUS
<1> QED
    BY <1>1 DEF RemoveAt

LEMMA ServedStep ==
    ASSUME Served, Current, Causes, [Next]_vars
    PROVE  Served'
<1>1. /\ commands \in Seq(Command) /\ queries \in Seq(Request)
      /\ request \in [Request -> {"new", "waiting", "answered", "failed", "dropped"}]
    BY DEF Served, Current, ChannelTypes, Causes
<1>2. CASE UNCHANGED vars
    BY <1>2 DEF Served, Waits, vars, task, worker, client
<1>3. ASSUME NEW path \in Path, ChangeDisk(path) \/ AnnounceChange(path)
      PROVE  Served'
    BY <1>3 DEF ChangeDisk, AnnounceChange, Served, Waits, task, worker, client
<1>4. ASSUME NEW path \in Path, RecordChange(path)
      PROVE  Served'
  <2>1. /\ Record(path) \in Command /\ commands' = Append(commands, Record(path))
        /\ UNCHANGED <<loop, queries, request, pager>>
      BY <1>4 DEF RecordChange, Record, Command, task, client
  <2>2. \A a \in Asker : Waits(commands, Manifest(a)) => Waits(commands', Manifest(a))
      BY <1>1, <2>1, WaitsOn
  <2> QED
      BY <2>1, <2>2 DEF Served, Waits, Asker
<1>5. CASE WorkerApplies
  <2>1. /\ commands # <<>> /\ Head(commands).kind = "record" /\ commands' = Tail(commands)
        /\ UNCHANGED <<loop, queries, request, pager>>
      BY <1>5 DEF WorkerApplies, task, client
  <2>2. \A a \in Asker : Manifest(a) # Head(commands)
      BY <2>1 DEF Manifest
  <2>3. \A a \in Asker : Waits(commands, Manifest(a)) => Waits(commands', Manifest(a))
      BY <1>1, <2>1, <2>2, WaitsBehind
  <2> QED
      BY <2>1, <2>3 DEF Served, Waits, Asker
<1>6. CASE WorkerAnswers
  <2>1. /\ commands # <<>> /\ Head(commands).kind = "manifest" /\ commands' = Tail(commands)
        /\ UNCHANGED <<queries, request>>
      BY <1>6 DEF WorkerAnswers, AnswerLoop, AnswerPager, task
  <2>2. \A a \in Asker :
            Waits(commands, Manifest(a)) /\ a # Head(commands).of => Waits(commands', Manifest(a))
    <3>1. \A a \in Asker : a # Head(commands).of => Manifest(a) # Head(commands)
        BY DEF Manifest
    <3> QED
        BY <1>1, <2>1, <3>1, WaitsBehind
  <2>3. Loop \in Asker /\ Pager \in Asker /\ Loop # Pager
      BY ServicesAssumption DEF Asker, ServicesAssumption
  <2>4. \/ Head(commands).of = Loop /\ loop' = "select" /\ pager' = pager
        \/ Head(commands).of = Pager /\ loop' = loop /\ pager' # "waiting"
      BY <1>6 DEF WorkerAnswers, AnswerLoop, AnswerPager, task, client
  <2> QED
      BY <2>1, <2>2, <2>3, <2>4 DEF Served, Waits
<1>7. CASE LoopStarts \/ LoopSendsChange
    BY <1>7 DEF LoopStarts, LoopSendsChange, Served, Waits, worker, client
<1>8. CASE LoopEnds
  <2>1. /\ loop' = "ended" /\ queries' = <<>> /\ UNCHANGED <<commands, pager>>
        /\ \A r \in Request : request'[r] # "waiting"
      BY <1>8 DEF LoopEnds, worker, client
  <2> QED
      BY <2>1 DEF Served, Waits
<1>9. CASE LoopNeedsManifest
  <2>1. /\ loop = "select" /\ loop' = "manifest" /\ UNCHANGED <<queries, request, pager>>
        /\ commands' = Append(commands, Manifest(Loop)) /\ Manifest(Loop) \in Command
      BY <1>9 DEF LoopNeedsManifest, Ask, Manifest, Command, Asker, client
  <2>2. /\ Waits(commands', Manifest(Loop))
        /\ Waits(commands, Manifest(Pager)) => Waits(commands', Manifest(Pager))
      BY <1>1, <2>1, WaitsOn
  <2> QED
      BY <2>1, <2>2 DEF Served, Waits
<1>10. CASE LoopTakesQuery
  <2>1. /\ queries # <<>> /\ queries' = Tail(queries) /\ UNCHANGED <<loop, commands, pager>>
        /\ Head(queries) \in Request /\ Tail(queries) \in Seq(Request)
        /\ request'[Head(queries)] # "waiting"
        /\ \A r \in Request : r # Head(queries) => request'[r] = request[r]
      BY <1>1, <1>10 DEF LoopTakesQuery, worker, client
  <2>2. \A r \in Request : Waits(queries, r) /\ r # Head(queries) => Waits(queries', r)
      BY <1>1, <2>1, WaitsBehind
  <2> QED
      BY <2>1, <2>2 DEF Served, Waits
<1>11. ASSUME NEW r \in Request, AskLoop(r)
       PROVE  Served'
  <2>1. /\ UNCHANGED <<loop, commands, pager>>
        /\ \A q \in Request : q # r => request'[q] = request[q]
        /\ \/ loop = "ended" /\ request'[r] = "failed" /\ queries' = queries
           \/ loop # "ended" /\ queries' = Append(queries, r)
      BY <1>1, <1>11 DEF AskLoop, worker, client
  <2>2. CASE loop = "ended"
      BY <2>1, <2>2 DEF Served, Waits
  <2>3. CASE loop # "ended"
    <3>1. queries' = Append(queries, r) /\ queries' \in Seq(Request)
      <4>1. queries' = Append(queries, r)
          BY <2>1, <2>3
      <4>2. queries \in Seq(Request)
          BY <1>1
      <4> QED
          BY <4>1, <4>2, AppendProperties
    <3>2. Waits(queries', r) /\ \A q \in Request : Waits(queries, q) => Waits(queries', q)
        BY <1>1, <3>1, WaitsOn
    <3> QED
        BY <2>1, <2>3, <3>1, <3>2 DEF Served, Waits
  <2> QED
      BY <2>2, <2>3
<1>12. ASSUME NEW r \in Request, Disconnect(r)
       PROVE  Served'
  <2>1. /\ UNCHANGED <<loop, commands, pager>>
        /\ request'[r] # "waiting" /\ \A q \in Request : q # r => request'[q] = request[q]
      BY <1>1, <1>12 DEF Disconnect, worker, client
  <2>2. PICK i \in 1..Len(queries) :
            queries[i] = r /\ queries' = IF i > CAPACITY THEN RemoveAt(queries, i) ELSE queries
      BY <1>1, <1>12 DEF Disconnect
  <2>3. queries' \in Seq(Request)
      BY <1>1, <2>2, RemoveAtType
  <2>4. \A q \in Request : Waits(queries, q) /\ q # r => Waits(queries', q)
      BY <1>1, <2>2, WaitsBeside
  <2> QED
      BY <2>1, <2>3, <2>4 DEF Served, Waits
<1>13. CASE AskPage
  <2>1. /\ pager' = "waiting" /\ UNCHANGED <<queries, request, loop>>
        /\ commands' = Append(commands, Manifest(Pager)) /\ Manifest(Pager) \in Command
      BY <1>13 DEF AskPage, Ask, Manifest, Command, Asker, task
  <2>2. /\ Waits(commands', Manifest(Pager))
        /\ Waits(commands, Manifest(Loop)) => Waits(commands', Manifest(Loop))
      BY <1>1, <2>1, WaitsOn
  <2> QED
      BY <2>1, <2>2 DEF Served, Waits
<1> QED
    BY <1>2, <1>3, <1>4, <1>5, <1>6, <1>7, <1>8, <1>9, <1>10, <1>11, <1>12, <1>13 DEF Next

\* Whoever waits for a reply has its question in the channel of a task that has not
\* ended, however many wait, give up or find the channel full.
THEOREM RepliesAreOwed == Spec => []WaitersAreServed
<1>1. Init => Served /\ Causes
    BY DEF Init, Served, Causes, FailuresHaveACause, Waits
<1>2. Served /\ Current => WaitersAreServed
    BY DEF Served, Current, ChannelTypes, Waits, WaitersAreServed, ToSet
<1> QED
    BY <1>1, <1>2, CurrentHolds, CausesStep, ServedStep, PTL DEF Spec

-----------------------------------------------------------------------------
(* Pages *)

LEMMA SkipTake ==
    ASSUME NEW S, NEW s \in Seq(S), NEW k \in Nat, NEW n \in Nat
    PROVE  LET p == Take(Skip(s, k), n) IN
           /\ p \in Seq(S)
           /\ Len(p) = IF k >= Len(s) THEN 0 ELSE LowerOf(n, Len(s) - k)
           /\ \A i \in 1..Len(p) : p[i] = s[k + i]
<1> DEFINE q == SubSeq(s, k + 1, Len(s))
<1>1. q \in Seq(S) /\ Len(q) = (IF k >= Len(s) THEN 0 ELSE Len(s) - k)
      /\ \A i \in 1..Len(q) : q[i] = s[k + i]
    OBVIOUS
<1> HIDE DEF q
<1> DEFINE p == SubSeq(q, 1, LowerOf(n, Len(q)))
<1>2. LowerOf(n, Len(q)) \in 0..Len(q)
    BY <1>1 DEF LowerOf
<1>3. p \in Seq(S) /\ Len(p) = LowerOf(n, Len(q)) /\ \A i \in 1..Len(p) : p[i] = q[i]
    BY <1>1, <1>2
<1>4. p = Take(Skip(s, k), n)
    BY DEF Take, Skip, q, p
<1>5. Len(p) = (IF k >= Len(s) THEN 0 ELSE LowerOf(n, Len(s) - k))
    BY <1>1, <1>3 DEF LowerOf
<1>6. \A i \in 1..Len(p) : p[i] = s[k + i]
    BY <1>1, <1>2, <1>3
<1> QED
    BY <1>3, <1>4, <1>5, <1>6

LEMMA Subtract ==
    ASSUME NEW a \in Nat, NEW b \in Nat
    PROVE  /\ SaturatingSub(a, b) \in Nat
           /\ SaturatingSub(a, b) = IF a > b THEN a - b ELSE 0
    BY DEF SaturatingSub

\* A part of a sequence that lies within it, or is empty.
LEMMA PartOf ==
    ASSUME NEW S, NEW s \in Seq(S), NEW k \in Nat, NEW u \in Nat, u <= Len(s)
    PROVE  /\ SubSeq(s, k + 1, u) \in Seq(S)
           /\ k + Len(SubSeq(s, k + 1, u)) = IF u >= k THEN u ELSE k
           /\ \A i \in 1..Len(SubSeq(s, k + 1, u)) : SubSeq(s, k + 1, u)[i] = s[k + i]
    OBVIOUS

\* The entries of a page, for an offset and a limit that are numbers.
LEMMA PageEntries ==
    ASSUME NEW S, NEW resources \in Seq(S), NEW tombstones \in Seq(S),
           NEW k \in Nat, NEW n \in Nat
    PROVE  LET first  == Take(Skip(resources, k), n)
               second == Take(Skip(tombstones, SaturatingSub(k, Len(resources))),
                              SaturatingSub(n, Len(first)))
           IN  first \o second = Slice(resources \o tombstones, k, n)
<1> DEFINE r == Len(resources)
           t == Len(tombstones)
           first == Take(Skip(resources, k), n)
           f == Len(first)
           skip == SaturatingSub(k, r)
           rest == SaturatingSub(n, f)
           second == Take(Skip(tombstones, skip), rest)
           g == Len(second)
           listing == resources \o tombstones
           u == LowerOf(k + n, r + t)
           slice == SubSeq(listing, k + 1, u)
           page == first \o second
<1>1. r \in Nat
    OBVIOUS
<1>2. t \in Nat
    OBVIOUS
<1>3. first \in Seq(S)
    BY SkipTake
<1>4. f = IF k >= r THEN 0 ELSE LowerOf(n, r - k)
    BY SkipTake
<1>5. \A i \in 1..f : first[i] = resources[k + i]
    BY SkipTake
<1> HIDE DEF first
<1>6. f \in Nat
    BY <1>3
<1>7. listing \in Seq(S)
    OBVIOUS
<1>8. Len(listing) = r + t
    OBVIOUS
<1>9. \A i \in 1..r : listing[i] = resources[i]
    OBVIOUS
<1>10. \A i \in 1..t : listing[r + i] = tombstones[i]
    OBVIOUS
<1>11. slice = Slice(listing, k, n)
    BY <1>8 DEF Slice
<1> HIDE DEF r, f
<1>12. skip \in Nat
    BY <1>1, Subtract
<1>13. skip = IF k > r THEN k - r ELSE 0
    BY <1>1, Subtract
<1>14. rest = n - f
    BY <1>1, <1>4, <1>6 DEF LowerOf, SaturatingSub
<1>15. rest \in Nat
    BY <1>6, Subtract
<1> HIDE DEF skip, rest
<1>16. second \in Seq(S)
    BY <1>12, <1>15, SkipTake
<1>17. g = IF skip >= t THEN 0 ELSE LowerOf(rest, t - skip)
    BY <1>12, <1>15, SkipTake
<1>18. \A i \in 1..g : second[i] = tombstones[skip + i]
    BY <1>12, <1>15, SkipTake
<1> HIDE DEF second
<1>19. g \in Nat
    BY <1>16
<1> HIDE DEF g, t, listing
<1>20. u = IF k + n < r + t THEN k + n ELSE r + t
    BY DEF LowerOf
<1> HIDE DEF u
<1>21. /\ f > 0 => k + f <= r
       /\ g > 0 => k + f = r + skip /\ skip + g <= t
       /\ u \in Nat /\ u <= r + t
       /\ k + f + g = IF u >= k THEN u ELSE k
  <2> USE <1>1, <1>2, <1>6, <1>12, <1>14, <1>19, <1>20
  <2>1. CASE k >= r
    <3>1. f = 0 /\ skip = k - r
        BY <1>4, <1>13, <2>1
    <3>2. g = IF k - r >= t THEN 0 ELSE IF n < t - (k - r) THEN n ELSE t - (k - r)
        BY <1>17, <3>1 DEF LowerOf
    <3> QED
        BY <2>1, <3>1, <3>2
  <2>2. CASE k < r
    <3>1. f = (IF n < r - k THEN n ELSE r - k) /\ skip = 0
        BY <1>4, <1>13, <2>2 DEF LowerOf
    <3>2. g = IF 0 >= t THEN 0 ELSE IF n - f < t THEN n - f ELSE t
        BY <1>17, <3>1 DEF LowerOf
    <3> QED
        BY <2>2, <3>1, <3>2
  <2> QED
      BY <2>1, <2>2
<1>22. f > 0 => k + f <= r
    BY <1>21
<1>23. g > 0 => k + f = r + skip /\ skip + g <= t
    BY <1>21
<1>24. u \in Nat /\ u <= Len(listing)
    BY <1>8, <1>21
<1>25. k + f + g = IF u >= k THEN u ELSE k
    BY <1>21
<1>26. slice \in Seq(S)
    BY <1>7, <1>24, PartOf
<1>27. k + Len(slice) = IF u >= k THEN u ELSE k
    BY <1>7, <1>24, PartOf
<1>28. \A i \in 1..Len(slice) : slice[i] = listing[k + i]
    BY <1>7, <1>24, PartOf
<1> HIDE DEF slice
<1>29. Len(slice) = f + g
    BY <1>6, <1>19, <1>24, <1>25, <1>26, <1>27
<1>30. page \in Seq(S)
    BY <1>3, <1>16
<1>31. Len(page) = f + g
    BY <1>3, <1>16 DEF f, g
<1>32. \A i \in 1..f : page[i] = first[i]
    BY <1>3, <1>16 DEF f
<1>33. \A i \in 1..g : page[f + i] = second[i]
    BY <1>3, <1>16 DEF f, g
<1> HIDE DEF page
<1>34. ASSUME NEW i \in 1..f
       PROVE  page[i] = slice[i]
  <2>1. k + i \in 1..r
      BY <1>1, <1>6, <1>22
  <2>2. i \in 1..Len(slice)
      BY <1>6, <1>19, <1>29
  <2>3. slice[i] = listing[k + i]
      BY <1>28, <2>2
  <2>4. listing[k + i] = resources[k + i]
      BY <1>9, <2>1
  <2>5. resources[k + i] = page[i]
      BY <1>5, <1>32
  <2> QED
      BY <2>3, <2>4, <2>5
<1>35. ASSUME NEW i \in 1..g
       PROVE  page[f + i] = slice[f + i]
  <2>1. k + (f + i) = r + (skip + i)
      BY <1>1, <1>6, <1>12, <1>19, <1>23
  <2>2. skip + i \in 1..t
      BY <1>2, <1>12, <1>19, <1>23
  <2>3. f + i \in 1..Len(slice)
      BY <1>6, <1>19, <1>29
  <2>4. slice[f + i] = listing[k + (f + i)]
      BY <1>28, <2>3
  <2>5. listing[r + (skip + i)] = tombstones[skip + i]
      BY <1>10, <2>2
  <2>6. page[f + i] = tombstones[skip + i]
      BY <1>18, <1>33
  <2> QED
      BY <2>1, <2>4, <2>5, <2>6
<1>36. ASSUME NEW i \in 1..f + g
       PROVE  page[i] = slice[i]
  <2>1. i \in 1..f \/ (i - f \in 1..g /\ i = f + (i - f))
      BY <1>6, <1>19
  <2>2. CASE i \in 1..f
      BY <1>34, <2>2
  <2>3. CASE i - f \in 1..g /\ i = f + (i - f)
      BY <1>35, <2>3
  <2> QED
      BY <2>1, <2>2, <2>3
<1>37. page = slice
    BY <1>26, <1>29, <1>30, <1>31, <1>36, SeqEqual
<1> QED
    BY <1>11, <1>37 DEF page, listing, second, skip, rest, first, f, r

\* For listings of any length and for all parameters, a page is the slice of the
\* listing that the parameters name, and has_more tells whether entries come after it;
\* if the sum of offset and limit overflows it may do so wrongly, of an empty page.
THEOREM AnyPageIsExact ==
    ASSUME NEW S, NEW resources \in Seq(S), NEW tombstones \in Seq(S),
           NEW o \in Nat \cup {NoParam}, NEW l \in Nat \cup {NoParam},
           Len(resources) + Len(tombstones) + MAX_LIMIT <= USIZE
    PROVE  /\ PageIsSlice(resources, tombstones, o, l)
           /\ HasMoreIsTrue(resources, tombstones, o, l)
<1>1. PICK k \in Nat : k = OffsetOf(o)
    BY DEF OffsetOf
<1>2. PICK n \in Nat : n = LimitOf(l) /\ n <= MAX_LIMIT
    BY LimitsAssumption DEF LimitsAssumption, LimitOf, LowerOf
<1>3. PICK r \in Nat, t \in Nat :
          /\ r = Len(resources) /\ t = Len(tombstones)
          /\ Len(resources \o tombstones) = r + t
    OBVIOUS
<1> DEFINE page == FilesPage(resources, tombstones, o, l)
<1>4. /\ page.resources = Take(Skip(resources, k), n)
      /\ page.tombstones = Take(Skip(tombstones, SaturatingSub(k, Len(resources))),
                                SaturatingSub(n, Len(page.resources)))
      /\ page.has_more = HasMore(k, n, r + t)
    BY <1>1, <1>2, <1>3 DEF FilesPage
<1> HIDE DEF page
<1>5. page.resources \o page.tombstones = Slice(resources \o tombstones, k, n)
  <2>1. LET first  == Take(Skip(resources, k), n)
            second == Take(Skip(tombstones, SaturatingSub(k, Len(resources))),
                           SaturatingSub(n, Len(first)))
        IN  first \o second = Slice(resources \o tombstones, k, n)
      BY PageEntries
  <2> QED
      BY <1>4, <2>1
<1>6. k + n < USIZE => (page.has_more <=> k + n < r + t)
  <2>1. k + n < USIZE => (k + n) % USIZE = k + n
      BY LimitsAssumption DEF LimitsAssumption
  <2> QED
      BY <1>4, <2>1 DEF HasMore
<1>7. MAX_LIMIT \in Nat /\ USIZE \in Nat /\ r + t + MAX_LIMIT <= USIZE
    BY <1>3, LimitsAssumption DEF LimitsAssumption
<1>8. ASSUME k + n >= USIZE
      PROVE  page.resources \o page.tombstones = <<>>
  <2>1. k >= r + t
      BY <1>2, <1>7, <1>8
  <2> DEFINE listing == resources \o tombstones
  <2>2. listing \in Seq(S) /\ Len(listing) = r + t
      BY <1>3, ConcatProperties
  <2> HIDE DEF listing
  <2>3. LowerOf(k + n, r + t) = r + t
      BY <2>1 DEF LowerOf
  <2>4. Slice(listing, k, n) \in Seq(S) /\ Len(Slice(listing, k, n)) = 0
    <3>1. /\ SubSeq(listing, k + 1, r + t) \in Seq(S)
          /\ k + Len(SubSeq(listing, k + 1, r + t)) = k
        BY <2>1, <2>2, PartOf
    <3>2. Len(SubSeq(listing, k + 1, r + t)) \in Nat
        BY <3>1
    <3> QED
        BY <2>2, <2>3, <3>1, <3>2 DEF Slice
  <2>5. Slice(listing, k, n) = <<>>
      BY <2>4, EmptySeq
  <2> QED
      BY <1>5, <2>5 DEF listing
<1>9. k + n < r + t => page.has_more
    BY <1>2, <1>6, <1>7
<1>10. page.has_more /\ ~(k + n < r + t) =>
          k + n >= USIZE /\ page.resources \o page.tombstones = <<>>
    BY <1>6, <1>7, <1>8
<1> QED
    BY <1>1, <1>2, <1>3, <1>5, <1>9, <1>10 DEF PageIsSlice, HasMoreIsTrue, page

\* A page of peers is the same slice.
LEMMA PeersPageIsSlice ==
    ASSUME NEW S, NEW peers \in Seq(S), NEW o \in Nat \cup {NoParam}, NEW l \in Nat \cup {NoParam}
    PROVE  PeersPage(peers, o, l).peers = Slice(peers, OffsetOf(o), LimitOf(l))
<1>1. PICK k \in Nat : k = OffsetOf(o)
    BY DEF OffsetOf
<1>2. PICK n \in Nat : n = LimitOf(l)
    BY LimitsAssumption DEF LimitsAssumption, LimitOf, LowerOf
<1>3. PICK r \in Nat : r = Len(peers)
    OBVIOUS
<1>4. PICK u \in Nat : u = LowerOf(k + n, r) /\ u <= r
    BY <1>3 DEF LowerOf
<1> DEFINE p == Take(Skip(peers, k), n)
           slice == SubSeq(peers, k + 1, u)
<1>5. /\ p \in Seq(S) /\ Len(p) = IF k >= r THEN 0 ELSE LowerOf(n, r - k)
      /\ \A i \in 1..Len(p) : p[i] = peers[k + i]
    BY <1>3, SkipTake
<1>6. /\ slice \in Seq(S) /\ k + Len(slice) = IF u >= k THEN u ELSE k
      /\ \A i \in 1..Len(slice) : slice[i] = peers[k + i]
    BY <1>3, <1>4, PartOf
<1>7. slice = Slice(peers, k, n)
    BY <1>3, <1>4 DEF Slice
<1>8. PeersPage(peers, o, l).peers = p
    BY <1>1, <1>2 DEF PeersPage
<1> HIDE DEF p, slice
<1>9. Len(p) = Len(slice)
  <2>1. Len(slice) \in Nat
      BY <1>6
  <2> QED
      BY <1>3, <1>4, <1>5, <1>6, <2>1 DEF LowerOf
<1>10. p = slice
    BY <1>5, <1>6, <1>9, SeqEqual
<1> QED
    BY <1>1, <1>2, <1>7, <1>8, <1>10

-----------------------------------------------------------------------------
(* Listings *)

\* A set of numbers that is not empty has a least one.
LEMMA LeastNumber ==
    ASSUME NEW T \in SUBSET Nat, T # {}
    PROVE  \E m \in T : \A n \in T : m <= n
<1> DEFINE R == OpToRel(<, Nat)
<1>1. IsWellFoundedOn(R, Nat)
    BY NatLessThanWellFounded
<1>2. PICK m \in T : \A n \in T : ~ (<<n, m>> \in R)
    BY <1>1, WFMin
<1>3. \A n \in T : ~ (n < m)
    BY <1>2 DEF OpToRel
<1> QED
    BY <1>3

Increasing(s) == \A i, j \in DOMAIN s : i < j => s[i] < s[j]

Orders(paths) == {s \in [1..Cardinality(paths) -> paths] : Increasing(s)}

\* Every finite set of numbers can be sorted: the least one, and then the others.
LEMMA CanBeSorted ==
    ASSUME NEW paths \in SUBSET Nat, IsFiniteSet(paths)
    PROVE  Orders(paths) # {}
<1> DEFINE Others == {q \in SUBSET paths : Orders(q) = {}}
           Sizes == {Cardinality(q) : q \in Others}
<1>1. \A q \in SUBSET paths : IsFiniteSet(q) /\ Cardinality(q) \in Nat
    BY FS_Subset, FS_CardinalityType
<1> SUFFICES ASSUME Sizes # {} PROVE FALSE
    OBVIOUS
<1>2. Sizes \in SUBSET Nat
    BY <1>1
<1>3. PICK n \in Sizes : \A k \in Sizes : n <= k
    BY <1>2, LeastNumber
<1>4. PICK q \in SUBSET paths : Orders(q) = {} /\ Cardinality(q) = n
    BY <1>3
<1>5. n \in Nat /\ IsFiniteSet(q)
    BY <1>1, <1>4
<1>6. CASE q = {}
  <2>1. n = 0
      BY <1>4, <1>6, FS_EmptySet
  <2>2. [i \in 1..n |-> i] \in Orders(q)
      BY <1>4, <2>1 DEF Orders, Increasing
  <2> QED
      BY <1>4, <2>2
<1>7. CASE q # {}
  <2>1. PICK m \in q : \A k \in q : m <= k
      BY <1>7, LeastNumber
  <2> DEFINE rest == q \ {m}
  <2>2. Cardinality(rest) = n - 1 /\ rest \in SUBSET paths /\ n - 1 \in Nat
    <3>1. Cardinality(rest) = n - 1
        BY <1>4, <1>5, <2>1, FS_RemoveElement
    <3> QED
        BY <1>1, <3>1
  <2>3. Orders(rest) # {}
    <3>1. n - 1 \notin Sizes
        BY <1>3, <1>5, <2>2
    <3> QED
        BY <2>2, <3>1
  <2>4. PICK s \in [1..n - 1 -> rest] : Increasing(s)
      BY <2>2, <2>3 DEF Orders
  <2> DEFINE t == [i \in 1..n |-> IF i = 1 THEN m ELSE s[i - 1]]
  <2>5. \A i \in 1..n : i = 1 \/ i - 1 \in 1..n - 1
      BY <1>5
  <2>6. \A i \in 1..n - 1 : s[i] \in q /\ s[i] # m /\ m < s[i]
    <3>1. \A i \in 1..n - 1 : s[i] \in q /\ s[i] # m
        BY <2>4
    <3>2. \A k \in q : k \in Nat /\ m \in Nat
        BY <2>1
    <3>3. \A k \in q : k # m => m < k
        BY <2>1, <3>2
    <3> QED
        BY <3>1, <3>3
  <2>7. t \in [1..n -> q]
      BY <2>1, <2>5, <2>6
  <2>8. ASSUME NEW i \in 1..n, NEW j \in 1..n, i < j
        PROVE  t[i] < t[j]
    <3>1. j - 1 \in 1..n - 1 /\ j # 1 /\ t[j] = s[j - 1]
        BY <2>5, <2>8
    <3>2. CASE i = 1
        BY <2>6, <3>1, <3>2
    <3>3. CASE i # 1
      <4>1. i - 1 \in 1..n - 1 /\ t[i] = s[i - 1] /\ i - 1 < j - 1
          BY <1>5, <2>5, <2>8, <3>3
      <4>2. DOMAIN s = 1..n - 1
          OBVIOUS
      <4>3. s[i - 1] < s[j - 1]
          BY <2>4, <3>1, <4>1, <4>2 DEF Increasing
      <4> QED
          BY <3>1, <4>1, <4>3
    <3> QED
        BY <3>2, <3>3
  <2> HIDE DEF t
  <2>9. t \in Orders(q)
      BY <1>4, <2>7, <2>8 DEF Orders, Increasing
  <2> QED
      BY <1>4, <2>9
<1> QED
    BY <1>6, <1>7

LEMMA SortedType ==
    ASSUME NEW paths \in SUBSET Path
    PROVE  /\ Sorted(paths) \in Seq(Path) /\ Len(Sorted(paths)) = Cardinality(paths)
           /\ IsFiniteSet(paths) /\ Cardinality(paths) \in Nat
<1>1. IsFiniteSet(paths) /\ Cardinality(paths) \in Nat /\ paths \in SUBSET Nat
    BY ListingAssumption, ServicesAssumption, FS_Subset, FS_CardinalityType
    DEF ListingAssumption, ServicesAssumption
<1>2. PICK n \in Nat : n = Cardinality(paths)
    BY <1>1
<1>3. \E s \in [1..n -> paths] : \A i, j \in DOMAIN s : i < j => s[i] < s[j]
    BY <1>1, <1>2, CanBeSorted DEF Orders, Increasing
<1>4. Sorted(paths) \in [1..n -> paths]
    BY <1>2, <1>3 DEF Sorted
<1>5. PICK s \in [1..n -> paths] : s = Sorted(paths)
    BY <1>4
<1>6. s \in Seq(Path) /\ Len(s) = n
    BY <1>2
<1> QED
    BY <1>1, <1>2, <1>5, <1>6

Listing == Resources \o Tombstones

\* What is recorded is on the disk.
RecordsAreTrue ==
    /\ changed \in SUBSET Path /\ recorded \subseteq changed /\ applied \subseteq recorded
    /\ failed \subseteq recorded
    /\ \A i \in 1..Len(commands) :
          commands[i].kind = "record" => commands[i].of \in recorded

\* A listing has no more entries than there are paths.
LEMMA ListingIsShort ==
    ASSUME RecordsAreTrue
    PROVE  /\ Resources \in Seq(Path) /\ Tombstones \in Seq(Path) /\ Listing \in Seq(Path)
           /\ Len(Listing) = Len(Resources) + Len(Tombstones)
           /\ Len(Listing) <= Cardinality(Path)
<1> DEFINE live == (Created \cap changed) \cup (Deleted \ changed)
           dead == Deleted \cap applied
<1>1. live \in SUBSET Path /\ dead \in SUBSET Path
    BY DEF Path
<1>2. live \cap dead = {}
    BY ServicesAssumption DEF ServicesAssumption, RecordsAreTrue
<1>3. /\ Resources \in Seq(Path) /\ Len(Resources) = Cardinality(live)
      /\ IsFiniteSet(live) /\ Cardinality(live) \in Nat
    BY <1>1, SortedType DEF Resources
<1>4. /\ Tombstones \in Seq(Path) /\ Len(Tombstones) = Cardinality(dead)
      /\ IsFiniteSet(dead) /\ Cardinality(dead) \in Nat
    BY <1>1, SortedType DEF Tombstones
<1> HIDE DEF live, dead
<1>5. Cardinality(live \cup dead) = Cardinality(live) + Cardinality(dead)
  <2>1. Cardinality(live \cup dead)
            = Cardinality(live) + Cardinality(dead) - Cardinality(live \cap dead)
      BY <1>3, <1>4, FS_Union
  <2>2. Cardinality(live \cap dead) = 0
      BY <1>2, FS_EmptySet
  <2> QED
      BY <1>3, <1>4, <2>1, <2>2
<1>6. Cardinality(live \cup dead) <= Cardinality(Path)
    BY <1>1, ListingAssumption, FS_Subset DEF ListingAssumption
<1>7. Listing \in Seq(Path) /\ Len(Listing) = Len(Resources) + Len(Tombstones)
    BY <1>3, <1>4, Joined DEF Listing
<1> QED
    BY <1>3, <1>4, <1>5, <1>6, <1>7

LEMMA RecordsStep ==
    ASSUME RecordsAreTrue, Current, [Next]_vars
    PROVE  RecordsAreTrue'
<1>1. commands \in Seq(Command)
    BY DEF Current, ChannelTypes
<1> USE DEF RecordsAreTrue
<1>2. CASE UNCHANGED vars
    BY <1>2 DEF vars, task, worker, changes
<1>3. ASSUME NEW path \in Path, ChangeDisk(path) PROVE RecordsAreTrue'
    BY <1>3 DEF ChangeDisk, worker
<1>4. ASSUME NEW path \in Path, RecordChange(path) PROVE RecordsAreTrue'
  <2>1. /\ Record(path).kind = "record" /\ Record(path).of = path /\ Record(path) \in Command
        /\ commands' = Append(commands, Record(path)) /\ recorded' = recorded \cup {path}
        /\ path \in changed /\ UNCHANGED <<applied, failed, changed>>
      BY <1>4 DEF RecordChange, Record, Command
  <2>2. /\ Len(commands') = Len(commands) + 1 /\ Len(commands) \in Nat
        /\ \A i \in 1..Len(commands) : commands'[i] = commands[i]
        /\ commands'[Len(commands) + 1] = Record(path)
      BY <1>1, <2>1
  <2>3. ASSUME NEW i \in 1..Len(commands'), commands'[i].kind = "record"
        PROVE  commands'[i].of \in recorded'
    <3>1. CASE i = Len(commands) + 1
        BY <2>1, <2>2, <3>1
    <3>2. CASE i \in 1..Len(commands)
        BY <2>1, <2>2, <2>3, <3>2
    <3> QED
        BY <2>2, <3>1, <3>2
  <2> QED
      BY <2>1, <2>3
<1>5. ASSUME NEW path \in Path, AnnounceChange(path) PROVE RecordsAreTrue'
    BY <1>5 DEF AnnounceChange, worker
<1>6. CASE WorkerApplies \/ WorkerAnswers
  <2>1. /\ commands # <<>> /\ commands' = Tail(commands) /\ UNCHANGED changes
        /\ Head(commands).kind = "record" => Head(commands).of \in recorded
    <3>1. commands # <<>> /\ commands' = Tail(commands) /\ UNCHANGED changes
        BY <1>6 DEF WorkerApplies, WorkerAnswers
    <3>2. Head(commands) = commands[1] /\ 1 \in 1..Len(commands)
        BY <1>1, <3>1
    <3> QED
        BY <3>1, <3>2
  <2>2. \A i \in 1..Len(commands') :
            i + 1 \in 1..Len(commands) /\ commands'[i] = commands[i + 1]
      BY <1>1, <2>1
  <2>3. applied' \subseteq recorded /\ failed' \subseteq recorded
      BY <1>6, <2>1 DEF WorkerApplies, WorkerAnswers
  <2> QED
      BY <2>1, <2>2, <2>3 DEF changes
<1>7. CASE LoopStarts \/ LoopEnds \/ LoopSendsChange \/ LoopTakesQuery
    BY <1>7 DEF LoopStarts, LoopEnds, LoopSendsChange, LoopTakesQuery, worker, changes
<1>8. ASSUME NEW r \in Request, AskLoop(r) \/ Disconnect(r) PROVE RecordsAreTrue'
    BY <1>8 DEF AskLoop, Disconnect, worker, changes
<1>9. CASE LoopNeedsManifest \/ AskPage
  <2>1. PICK a \in Asker : commands' = Append(commands, Manifest(a))
      BY <1>9 DEF LoopNeedsManifest, AskPage, Ask, Asker
  <2>2. Manifest(a).kind = "manifest" /\ UNCHANGED <<applied, failed, changed, recorded>>
      BY <1>9 DEF LoopNeedsManifest, AskPage, Manifest, changes
  <2>3. \A i \in 1..Len(commands') : \/ i \in 1..Len(commands) /\ commands'[i] = commands[i]
                                     \/ commands'[i] = Manifest(a)
      BY <1>1, <2>1
  <2> QED
      BY <2>2, <2>3
<1> QED
    BY <1>2, <1>3, <1>4, <1>5, <1>6, <1>7, <1>8, <1>9 DEF Next

\* The bounds of a listing, as the lemmas about pages need them.
LEMMA ListingFits ==
    ASSUME RecordsAreTrue
    PROVE  /\ Resources \in Seq(Path) /\ Tombstones \in Seq(Path) /\ Listing \in Seq(Path)
           /\ Len(Resources) + Len(Tombstones) + MAX_LIMIT <= USIZE
<1>1. /\ Resources \in Seq(Path) /\ Tombstones \in Seq(Path) /\ Listing \in Seq(Path)
      /\ Len(Listing) <= Cardinality(Path)
    BY ListingIsShort
<1>2. Len(Listing) = Len(Resources) + Len(Tombstones)
    BY <1>1 DEF Listing
<1>3. /\ Cardinality(Path) \in Nat /\ MAX_LIMIT \in Nat /\ USIZE \in Nat
      /\ Cardinality(Path) + MAX_LIMIT <= USIZE
    BY ListingAssumption, FS_CardinalityType, LimitsAssumption
    DEF ListingAssumption, LimitsAssumption
<1> QED
    BY <1>1, <1>2, <1>3

\* Every page of the files and of the peers is exact, whatever its parameters.
THEOREM FilesPagesAreExact == Spec => []PagesAreExact
<1>1. Init => RecordsAreTrue
    BY DEF Init, RecordsAreTrue
<1>2. ASSUME RecordsAreTrue
      PROVE  PagesAreExact
  <2>1. /\ Resources \in Seq(Path) /\ Tombstones \in Seq(Path) /\ Listing \in Seq(Path)
        /\ Len(Resources) + Len(Tombstones) + MAX_LIMIT <= USIZE
      BY <1>2, ListingFits
  <2>2. Parameter \subseteq Nat \cup {NoParam}
    <3>1. USIZE \in Nat
        BY LimitsAssumption DEF LimitsAssumption
    <3> QED
        BY <3>1 DEF Parameter
  <2>3. ASSUME NEW o \in Parameter, NEW l \in Parameter
        PROVE  /\ PageIsSlice(Resources, Tombstones, o, l)
               /\ HasMoreIsTrue(Resources, Tombstones, o, l)
               /\ PeersPage(Listing, o, l).peers = Slice(Listing, OffsetOf(o), LimitOf(l))
    <3>1. o \in Nat \cup {NoParam} /\ l \in Nat \cup {NoParam}
        BY <2>2
    <3>2. PeersPage(Listing, o, l).peers = Slice(Listing, OffsetOf(o), LimitOf(l))
        BY <2>1, <3>1, PeersPageIsSlice
    <3>3. /\ PageIsSlice(Resources, Tombstones, o, l)
          /\ HasMoreIsTrue(Resources, Tombstones, o, l)
        BY <2>1, <3>1, AnyPageIsExact
    <3> QED
        BY <3>2, <3>3
  <2> QED
      BY <2>3 DEF PagesAreExact, Listing
<1> QED
    BY <1>1, <1>2, CurrentHolds, RecordsStep, PTL DEF Spec

-----------------------------------------------------------------------------
(* A client that pages *)

\* The offset never passes the listing by more than a page, and while the listing stays
\* as it was, the entries that the client has are those before the offset.
Paging ==
    /\ pager \in {"new", "paging", "waiting", "done", "failed"}
    /\ offset \in Nat /\ offset <= Cardinality(Path) + DEFAULT_LIMIT
    /\ collected \in Seq(Path)
    /\ calm \in BOOLEAN
    /\ pager = "new" => offset = 0 /\ collected = <<>>
    /\ pager \in {"paging", "waiting"} => offset <= Cardinality(Path)
    /\ calm /\ pager \in {"paging", "waiting"} => collected = Slice(Listing, 0, offset)
    /\ calm /\ pager = "done" => collected = Listing

LEMMA SliceEntries ==
    ASSUME NEW S, NEW s \in Seq(S), NEW o \in Nat, NEW n \in Nat,
           NEW u \in Nat, u = LowerOf(o + n, Len(s))
    PROVE  /\ Slice(s, o, n) \in Seq(S)
           /\ o + Len(Slice(s, o, n)) = IF u >= o THEN u ELSE o
           /\ \A i \in 1..Len(Slice(s, o, n)) : Slice(s, o, n)[i] = s[o + i]
<1>1. u <= Len(s)
    BY DEF LowerOf
<1>2. Slice(s, o, n) = SubSeq(s, o + 1, u)
    BY DEF Slice
<1>3. /\ SubSeq(s, o + 1, u) \in Seq(S)
      /\ o + Len(SubSeq(s, o + 1, u)) = IF u >= o THEN u ELSE o
      /\ \A i \in 1..Len(SubSeq(s, o + 1, u)) : SubSeq(s, o + 1, u)[i] = s[o + i]
    BY <1>1, PartOf
<1> QED
    BY <1>2, <1>3, Zenon

LEMMA SliceType ==
    ASSUME NEW S, NEW s \in Seq(S), NEW o \in Nat, NEW n \in Nat
    PROVE  Slice(s, o, n) \in Seq(S)
<1>1. PICK u \in Nat : u = LowerOf(o + n, Len(s))
    BY DEF LowerOf
<1> QED
    BY <1>1, SliceEntries

LEMMA SliceOfNone ==
    ASSUME NEW S, NEW s \in Seq(S)
    PROVE  Slice(s, 0, 0) = <<>>
<1>1. PICK u \in Nat : u = LowerOf(0 + 0, Len(s)) /\ u = 0
    BY DEF LowerOf
<1> QED
    BY <1>1 DEF Slice

LEMMA SliceOfAll ==
    ASSUME NEW S, NEW s \in Seq(S), NEW n \in Nat, n >= Len(s)
    PROVE  Slice(s, 0, n) = s
<1>1. Len(s) \in Nat /\ LowerOf(0 + n, Len(s)) = Len(s)
    BY DEF LowerOf
<1>2. SubSeq(s, 1, Len(s)) = s
    OBVIOUS
<1> QED
    BY <1>1, <1>2 DEF Slice

\* A page follows on the entries before it.
LEMMA SlicesJoin ==
    ASSUME NEW S, NEW s \in Seq(S), NEW o \in Nat, NEW n \in Nat
    PROVE  Slice(s, 0, o) \o Slice(s, o, n) = Slice(s, 0, o + n)
<1>1. PICK r \in Nat : r = Len(s)
    OBVIOUS
<1>2. PICK u \in Nat : u = LowerOf(0 + o, r) /\ u <= r
    BY <1>1 DEF LowerOf
<1>3. PICK w \in Nat : w = LowerOf(o + n, r) /\ w = LowerOf(0 + (o + n), r) /\ w <= r
    BY <1>1 DEF LowerOf
<1>4. PICK a : a = Slice(s, 0, o)
    OBVIOUS
<1>5. /\ a \in Seq(S) /\ 0 + Len(a) = IF u >= 0 THEN u ELSE 0
      /\ \A i \in 1..Len(a) : a[i] = s[0 + i]
    BY <1>1, <1>2, <1>4, SliceEntries
<1>6. PICK b : b = Slice(s, o, n)
    OBVIOUS
<1>7. /\ b \in Seq(S) /\ o + Len(b) = IF w >= o THEN w ELSE o
      /\ \A i \in 1..Len(b) : b[i] = s[o + i]
    BY <1>1, <1>3, <1>6, SliceEntries
<1>8. PICK c : c = Slice(s, 0, o + n)
    OBVIOUS
<1>9. /\ c \in Seq(S) /\ 0 + Len(c) = IF w >= 0 THEN w ELSE 0
      /\ \A i \in 1..Len(c) : c[i] = s[0 + i]
    BY <1>1, <1>3, <1>8, SliceEntries
<1>10. /\ Len(a) \in Nat /\ Len(b) \in Nat /\ Len(c) \in Nat
      /\ Len(a) + Len(b) = Len(c) /\ (Len(b) > 0 => Len(a) = o)
    BY <1>1, <1>2, <1>3, <1>5, <1>7, <1>9 DEF LowerOf
<1>11. PICK d : d = a \o b
    OBVIOUS
<1>12. /\ d \in Seq(S) /\ Len(d) = Len(a) + Len(b)
       /\ \A i \in 1..Len(a) : d[i] = a[i]
       /\ \A i \in 1..Len(b) : d[Len(a) + i] = b[i]
    BY <1>5, <1>7, <1>11, Joined
<1>13. ASSUME NEW i \in 1..Len(d)
      PROVE  d[i] = c[i]
  <2>1. CASE i \in 1..Len(a)
    <3>1. i \in 1..Len(c)
        BY <1>10, <2>1
    <3> QED
        BY <1>5, <1>9, <1>12, <2>1, <3>1
  <2>2. CASE i \notin 1..Len(a)
    <3>5. /\ i - Len(a) \in 1..Len(b) /\ Len(a) + (i - Len(a)) = i /\ i \in 1..Len(c)
          /\ Len(b) > 0
        BY <1>10, <1>12, <2>2
    <3>1. /\ i - Len(a) \in 1..Len(b) /\ Len(a) + (i - Len(a)) = i /\ i \in 1..Len(c)
          /\ o + (i - Len(a)) = i
        BY <1>10, <3>5
    <3>2. d[i] = b[i - Len(a)]
        BY <1>12, <3>1
    <3>3. b[i - Len(a)] = s[i]
        BY <1>7, <3>1
    <3>4. c[i] = s[i]
        BY <1>9, <3>1
    <3> QED
        BY <3>2, <3>3, <3>4
  <2> QED
      BY <2>1, <2>2
<1>14. d = c
    BY <1>9, <1>10, <1>12, <1>13, SeqEqual
<1> QED
    BY <1>4, <1>6, <1>8, <1>11, <1>14

\* A client asks only when it has nothing, or was told that there is more.
LEMMA AskPageStep ==
    ASSUME Paging, RecordsAreTrue, AskPage
    PROVE  Paging'
<1>1. /\ pager \in {"new", "paging"} /\ pager' = "waiting" /\ calm' = (calm \/ pager = "new")
      /\ UNCHANGED <<offset, collected, changed, applied>>
    BY DEF AskPage, changes
<1>2. Listing' = Listing /\ Listing \in Seq(Path)
    BY <1>1, ListingIsShort DEF Listing, Resources, Tombstones
<1>3. calm' \in BOOLEAN
    BY <1>1
<1>4. calm' => collected' = Slice(Listing', 0, offset')
    BY <1>1, <1>2, SliceOfNone DEF Paging
<1>5. Cardinality(Path) \in Nat
    BY ListingAssumption, FS_CardinalityType DEF ListingAssumption
<1> QED
    BY <1>1, <1>3, <1>4, <1>5 DEF Paging

LEMMA PageStep ==
    ASSUME Paging, RecordsAreTrue, pager = "waiting", AnswerPager(TRUE),
           UNCHANGED <<changed, applied, calm>>
    PROVE  Paging'
<1>1. /\ Resources \in Seq(Path) /\ Tombstones \in Seq(Path) /\ Listing \in Seq(Path)
      /\ Len(Listing) <= Cardinality(Path)
    BY ListingIsShort
<1>2. /\ Cardinality(Path) \in Nat /\ DEFAULT_LIMIT \in Nat /\ USIZE \in Nat
      /\ Cardinality(Path) + DEFAULT_LIMIT < USIZE
    BY ListingAssumption, FS_CardinalityType, LimitsAssumption
    DEF ListingAssumption, LimitsAssumption
<1>3. offset \in Nat /\ offset <= Cardinality(Path) /\ collected \in Seq(Path)
    BY DEF Paging
<1>4. LimitOf(NoParam) = DEFAULT_LIMIT /\ OffsetOf(offset) = offset
    BY <1>3, LimitsAssumption DEF LimitOf, OffsetOf, LimitsAssumption
<1>5. PICK page : page = FilesPage(Resources, Tombstones, offset, NoParam)
    OBVIOUS
<1>6. page.resources \in Seq(Path) /\ page.tombstones \in Seq(Path)
  <2>1. PICK k \in Nat : k = SaturatingSub(offset, Len(Resources))
      BY <1>1, <1>3, Subtract
  <2>2. PICK r \in Seq(Path) : r = Take(Skip(Resources, offset), DEFAULT_LIMIT)
      BY <1>1, <1>2, <1>3, SkipTake
  <2>3. PICK n \in Nat : n = SaturatingSub(DEFAULT_LIMIT, Len(r))
      BY <1>2, Subtract
  <2>4. Take(Skip(Tombstones, k), n) \in Seq(Path)
      BY <1>1, SkipTake
  <2> QED
      BY <1>4, <1>5, <2>1, <2>2, <2>3, <2>4 DEF FilesPage
<1>7. /\ page.resources \o page.tombstones = Slice(Listing, offset, DEFAULT_LIMIT)
      /\ page.has_more <=> offset + DEFAULT_LIMIT < Len(Listing)
  <2>1. /\ PageIsSlice(Resources, Tombstones, offset, NoParam)
        /\ HasMoreIsTrue(Resources, Tombstones, offset, NoParam)
      BY <1>1, <1>3, ListingFits, AnyPageIsExact
  <2>2. ~(offset + DEFAULT_LIMIT >= USIZE)
      BY <1>2, <1>3
  <2> QED
      BY <1>4, <1>5, <2>1, <2>2 DEF PageIsSlice, HasMoreIsTrue, Listing
<1>8. /\ collected' = collected \o page.resources \o page.tombstones
      /\ offset' = offset + DEFAULT_LIMIT
      /\ pager' = IF page.has_more THEN "paging" ELSE "done"
    BY <1>4, <1>5 DEF AnswerPager
<1>9. collected' = collected \o Slice(Listing, offset, DEFAULT_LIMIT)
  <2>1. PICK r \in Seq(Path), t \in Seq(Path) : r = page.resources /\ t = page.tombstones
      BY <1>6
  <2>2. (collected \o r) \o t = collected \o (r \o t)
      BY <1>3, ConcatAssociative
  <2> QED
      BY <1>7, <1>8, <2>1, <2>2
<1>10. collected' \in Seq(Path)
    BY <1>1, <1>2, <1>3, <1>9, SliceType, Joined
<1>11. Listing' = Listing
    BY DEF Listing, Resources, Tombstones
<1>12. calm => collected' = Slice(Listing, 0, offset + DEFAULT_LIMIT)
    BY <1>1, <1>2, <1>3, <1>9, SlicesJoin DEF Paging
<1>13. pager' = "paging" => offset' <= Cardinality(Path)
    BY <1>1, <1>2, <1>3, <1>7, <1>8
<1>14. calm /\ pager' = "done" => collected' = Listing
  <2>1. pager' = "done" => offset + DEFAULT_LIMIT >= Len(Listing)
      BY <1>1, <1>2, <1>3, <1>7, <1>8
  <2> QED
      BY <1>1, <1>2, <1>3, <1>12, <2>1, SliceOfAll
<1>15. pager' \in {"paging", "done"} /\ offset' \in Nat
       /\ offset' <= Cardinality(Path) + DEFAULT_LIMIT
    BY <1>2, <1>3, <1>8
<1>16. calm' = calm /\ calm \in BOOLEAN
    BY DEF Paging
<1>17. calm' /\ pager' \in {"paging", "waiting"} => collected' = Slice(Listing', 0, offset')
  <2> SUFFICES ASSUME calm' PROVE collected' = Slice(Listing', 0, offset')
      OBVIOUS
  <2>1. calm
      BY <1>16
  <2>2. collected' = Slice(Listing, 0, offset + DEFAULT_LIMIT)
      BY <1>12, <2>1
  <2> QED
      BY <1>8, <1>11, <2>2
<1>18. calm' /\ pager' = "done" => collected' = Listing'
    BY <1>11, <1>14, <1>16
<1>19. pager' # "new" /\ pager' # "waiting"
    BY <1>15
<1> QED
    BY <1>10, <1>13, <1>15, <1>16, <1>17, <1>18, <1>19 DEF Paging

LEMMA PagingStep ==
    ASSUME Paging, RecordsAreTrue, Current, [Next]_vars
    PROVE  Paging'
\* The steps of others: the client is as it was, and so is the listing, or it is not calm.
<1>1. ASSUME UNCHANGED client, UNCHANGED <<changed, applied, calm>> \/ calm' = FALSE
      PROVE  Paging'
  <2>1. CASE calm' = FALSE
      BY <1>1, <2>1 DEF Paging, client
  <2>2. CASE UNCHANGED <<changed, applied, calm>>
    <3>1. Listing' = Listing
        BY <2>2 DEF Listing, Resources, Tombstones
    <3> QED
        BY <1>1, <2>2, <3>1 DEF Paging, client
  <2> QED
      BY <1>1, <2>1, <2>2
<1>2. CASE UNCHANGED vars
    BY <1>1, <1>2 DEF vars, worker, changes
<1>3. ASSUME NEW path \in Path, ChangeDisk(path) \/ RecordChange(path) \/ AnnounceChange(path)
      PROVE  Paging'
    BY <1>1, <1>3 DEF ChangeDisk, RecordChange, AnnounceChange, worker
<1>4. CASE WorkerApplies
    BY <1>1, <1>4 DEF WorkerApplies
<1>5. CASE WorkerAnswers
  <2>1. UNCHANGED <<changed, applied, calm>>
      BY <1>5 DEF WorkerAnswers, changes
  <2>2. CASE Head(commands).of = Loop /\ AnswerLoop
      BY <1>1, <2>1, <2>2 DEF AnswerLoop
  <2>3. CASE Head(commands).of = Pager /\ (AnswerPager(TRUE) \/ AnswerPager(FALSE))
    <3>1. commands \in Seq(Command) /\ commands # <<>> /\ Head(commands).kind = "manifest"
        BY <1>5 DEF WorkerAnswers, Current, ChannelTypes
    <3>2. commands[1] = Manifest(Pager) /\ 1 \in 1..Len(commands)
        BY <2>3, <3>1 DEF Command, Manifest
    <3>3. pager = "waiting"
        BY <3>2 DEF Current, QuestionsAreSingle
    <3>4. CASE AnswerPager(TRUE)
        BY <2>1, <3>3, <3>4, PageStep
    <3>5. CASE AnswerPager(FALSE)
        BY <2>1, <3>5 DEF AnswerPager, Paging
    <3> QED
        BY <2>3, <3>4, <3>5
  <2> QED
      BY <1>5, <2>2, <2>3 DEF WorkerAnswers
<1>6. CASE LoopStarts \/ LoopEnds \/ LoopNeedsManifest \/ LoopSendsChange \/ LoopTakesQuery
    BY <1>1, <1>6 DEF LoopStarts, LoopEnds, LoopNeedsManifest, LoopSendsChange, LoopTakesQuery,
                      worker, changes
<1>7. ASSUME NEW r \in Request, AskLoop(r) \/ Disconnect(r)
      PROVE  Paging'
    BY <1>1, <1>7 DEF AskLoop, Disconnect, worker, changes
<1>8. CASE AskPage
    BY <1>8, AskPageStep
<1> QED
    BY <1>2, <1>3, <1>4, <1>5, <1>6, <1>7, <1>8 DEF Next

LEMMA PagingInit == Init => Paging /\ RecordsAreTrue
<1>1. Cardinality(Path) \in Nat /\ DEFAULT_LIMIT \in Nat
    BY ListingAssumption, FS_CardinalityType, LimitsAssumption
    DEF ListingAssumption, LimitsAssumption
<1>2. ASSUME Init PROVE Paging
  <2>1. offset = 0 /\ collected = <<>> /\ calm = FALSE /\ pager = "new"
      BY <1>2 DEF Init
  <2>2. 0 <= Cardinality(Path) + DEFAULT_LIMIT
      BY <1>1
  <2>3. collected \in Seq(Path) /\ offset \in Nat
      BY <2>1
  <2>4. calm \in BOOLEAN
      BY <2>1, Zenon
  <2>5. ~ calm
      BY <2>1
  <2> QED
      BY <2>1, <2>2, <2>3, <2>4, <2>5 DEF Paging
<1>3. Init => RecordsAreTrue
    BY DEF Init, RecordsAreTrue
<1> QED
    BY <1>2, <1>3

\* A client that follows has_more to the end has the whole listing, each entry once and in
\* order, however many pages it takes.
THEOREM PagingGetsEverything == Spec => []PagingIsComplete
<1>1. Paging => PagingIsComplete
    BY DEF Paging, PagingIsComplete, Listing
<1> QED
    BY <1>1, PagingInit, CurrentHolds, RecordsStep, PagingStep, PTL DEF Spec

-----------------------------------------------------------------------------
(* Types *)

\* What is left of the types.
Others ==
    /\ errors \in 0..MAX_ERRORS
    /\ announced \in SUBSET Path

LEMMA OthersStep ==
    ASSUME Others, [Next]_vars
    PROVE  Others'
<1>1. MAX_ERRORS \in Nat
    BY ServicesAssumption DEF ServicesAssumption
<1>2. errors' = errors \/ (errors < MAX_ERRORS /\ errors' = errors + 1)
    BY DEF Next, vars, worker, ChangeDisk, RecordChange, AnnounceChange, WorkerApplies,
           WorkerAnswers, LoopStarts, LoopEnds, LoopNeedsManifest, LoopSendsChange,
           LoopTakesQuery, AskLoop, Disconnect, AskPage
<1>3. announced' = announced \/ \E path \in Path : announced' = announced \cup {path}
    BY DEF Next, vars, changes, ChangeDisk, RecordChange, AnnounceChange, WorkerApplies,
           WorkerAnswers, LoopStarts, LoopEnds, LoopNeedsManifest, LoopSendsChange,
           LoopTakesQuery, AskLoop, Disconnect, AskPage
<1> QED
    BY <1>1, <1>2, <1>3 DEF Others

\* The node keeps its types; above all, no client is sent beyond a page after the end of
\* the listing.
THEOREM TypeCorrect == Spec => []TypeOK
<1>1. Init => Others /\ Served /\ Causes
    BY ServicesAssumption DEF Init, Others, Served, Causes, FailuresHaveACause, Waits,
       ServicesAssumption
<1>2. ASSUME Others, Served, Causes, Current, RecordsAreTrue, Paging
      PROVE  TypeOK
  <2>1. Cardinality(Path) \in Nat /\ DEFAULT_LIMIT \in Nat
      BY ListingAssumption, FS_CardinalityType, LimitsAssumption
      DEF ListingAssumption, LimitsAssumption
  <2>2. offset \in 0..Cardinality(Path) + DEFAULT_LIMIT
      BY <1>2, <2>1 DEF Paging
  <2> QED
      BY <1>2, <2>2 DEF TypeOK, Others, Served, Causes, Current, ChannelTypes, RecordsAreTrue,
         Paging
<1> QED
    BY <1>1, <1>2, PagingInit, CurrentHolds, CausesStep, ServedStep, RecordsStep, PagingStep,
       OthersStep, PTL DEF Spec
=============================================================================
