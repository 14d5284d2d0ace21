-------------------------- MODULE SyncTransferProofs --------------------------
(***************************************************************************)
(* Proofs about SyncTransfer, for every value of its constants.  The       *)
(* inductive invariant IInv has four parts: the types; SyncInv, what every *)
(* operation of SyncState preserves (NoWait, Distinct, Fresh,              *)
(* ExpectedKnown); NetKnown, that a FileStart on its way declares the      *)
(* checksum of a real content; and Integrity itself.                       *)
(***************************************************************************)
EXTENDS SyncTransfer, SequenceTheorems, WellFoundedInduction, TLAPS

\* Induction on the naturals, for a set: from the well-foundedness of <.
LEMMA SetInduction ==
    ASSUME NEW S, 0 \in S, \A n \in Nat : n \in S => n + 1 \in S
    PROVE  Nat \subseteq S
<1> SUFFICES ASSUME Nat \ S # {} PROVE FALSE
    OBVIOUS
<1> DEFINE T == Nat \ S
           R == OpToRel(<, Nat)
<1>1. IsWellFoundedOn(R, Nat)
    BY NatLessThanWellFounded
<1>2. PICK x \in T : \A y \in T : ~ (<<y, x>> \in R)
    BY <1>1, WFMin
<1>3. x \in Nat /\ x \notin S
    BY <1>2
<1>5. x # 0 /\ x - 1 \in Nat
    BY <1>3
<1>4. x - 1 \in S
  <2>1. <<x - 1, x>> \in R
      BY <1>3, <1>5 DEF OpToRel
  <2> QED
      BY <1>2, <1>5, <2>1
<1> QED
  <2>1. (x - 1) + 1 \in S
    BY <1>4, <1>5
  <2> QED
    BY <2>1, <1>3

Distinct(q) == \A i, j \in 1..Len(q) : q[i] = q[j] => i = j

\* Retain is a recursive function: by induction on the length of the queue, its
\* defining equation has a solution, and each prefix is that of the one before it.
LEMMA RetainUnfolds ==
    ASSUME NEW q \in Seq(Job), NEW p
    PROVE  \E kept :
              /\ Retain(q, p) = kept[Len(q)]
              /\ kept[0] = <<>>
              /\ \A n \in 0..Len(q) : n + 1 \in 0..Len(q) =>
                    kept[n + 1] = IF q[n + 1].peer = p THEN kept[n]
                                  ELSE Append(kept[n], q[n + 1])
<1> DEFINE Step(f, n) == IF n = 0 THEN <<>>
                         ELSE IF q[n].peer = p THEN f[n - 1]
                         ELSE Append(f[n - 1], q[n])
           kept == CHOOSE f : f = [n \in 0..Len(q) |-> Step(f, n)]
<1>1. Retain(q, p) = kept[Len(q)]
    BY DEF Retain
<1>2. ASSUME NEW f, NEW g, NEW n \in Nat, n # 0 => f[n - 1] = g[n - 1]
      PROVE  Step(f, n) = Step(g, n)
    BY <1>2
<1> DEFINE Total(f, m) == f = [n \in 0..m |-> Step(f, n)]
           Defined == {m \in Nat : \E f : Total(f, m)}
<1>3. Nat \subseteq Defined
  <2>1. 0 \in Defined
    <3>1. Total([n \in 0..0 |-> <<>>], 0)
        OBVIOUS
    <3> QED
        BY <3>1
  <2>2. ASSUME NEW m \in Nat, m \in Defined
        PROVE  m + 1 \in Defined
    <3>1. PICK g : Total(g, m)
        BY <2>2
    <3> DEFINE f == [n \in 0..(m + 1) |-> IF n <= m THEN g[n] ELSE Step(g, m + 1)]
    <3> HIDE DEF Step
    <3>2. ASSUME NEW n \in 0..(m + 1)
          PROVE  f[n] = Step(f, n)
      <4>1. CASE n <= m
        <5>1. f[n] = Step(g, n)
            BY <3>1, <4>1
        <5>2. n # 0 => f[n - 1] = g[n - 1]
            BY <4>1
        <5> QED
            BY <5>1, <5>2, <1>2
      <4>2. CASE n = m + 1
        <5>1. f[n] = Step(g, n)
            BY <4>2
        <5>2. n # 0 => f[n - 1] = g[n - 1]
            BY <4>2
        <5> QED
            BY <5>1, <5>2, <1>2
      <4> QED
          BY <4>1, <4>2
    <3>3. Total(f, m + 1)
        BY <3>2
    <3>4. \E h : Total(h, m + 1)
      <4> HIDE DEF f, Total
      <4> QED
          BY <3>3
    <3> QED
        BY <3>4
  <2> HIDE DEF Defined
  <2> QED
      BY <2>1, <2>2, SetInduction
<1>4. Total(kept, Len(q))
  <2>1. Len(q) \in Nat
      OBVIOUS
  <2>2. \E f : Total(f, Len(q))
      BY <2>1, <1>3
  <2> QED
      BY <2>2
<1> HIDE DEF kept, Step, Defined
<1>5. \A n \in 0..Len(q) : kept[n] = Step(kept, n)
    BY <1>4
<1> HIDE DEF Total
<1>6. /\ kept[0] = <<>>
      /\ \A n \in 0..Len(q) : n + 1 \in 0..Len(q) =>
            kept[n + 1] = IF q[n + 1].peer = p THEN kept[n]
                          ELSE Append(kept[n], q[n + 1])
  <2>1. kept[0] = <<>>
      BY <1>5 DEF Step
  <2>2. ASSUME NEW n \in 0..Len(q), n + 1 \in 0..Len(q)
        PROVE  kept[n + 1] = IF q[n + 1].peer = p THEN kept[n]
                             ELSE Append(kept[n], q[n + 1])
    <3>1. n + 1 # 0 /\ (n + 1) - 1 = n
        OBVIOUS
    <3>2. kept[n + 1] = Step(kept, n + 1)
        BY <1>5, <2>2
    <3> QED
        BY <3>1, <3>2 DEF Step
  <2> QED
      BY <2>1, <2>2
<1> QED
    BY <1>1, <1>6

\* What retain leaves of a queue is a queue, made of entries of the old one, and
\* still without duplicates.
LEMMA RetainProperties ==
    ASSUME NEW q \in Seq(Job), NEW p
    PROVE  /\ Retain(q, p) \in Seq(Job)
           /\ \A i \in 1..Len(Retain(q, p)) :
                 \E k \in 1..Len(q) : Retain(q, p)[i] = q[k]
           /\ Distinct(q) => Distinct(Retain(q, p))
<1>6. PICK kept :
         /\ Retain(q, p) = kept[Len(q)]
         /\ kept[0] = <<>>
         /\ \A n \in 0..Len(q) : n + 1 \in 0..Len(q) =>
               kept[n + 1] = IF q[n + 1].peer = p THEN kept[n]
                             ELSE Append(kept[n], q[n + 1])
    BY RetainUnfolds
\* What holds of the prefix of length n.
<1> DEFINE Good(n) == /\ kept[n] \in Seq(Job)
                      /\ \A i \in 1..Len(kept[n]) : \E k \in 1..n : kept[n][i] = q[k]
                      /\ Distinct(q) => Distinct(kept[n])
           Goods == {n \in Nat : n <= Len(q) => Good(n)}
<1>7. Nat \subseteq Goods
  <2>1. 0 \in Goods
    <3>1. kept[0] = <<>> /\ Len(kept[0]) = 0 /\ kept[0] \in Seq(Job)
        BY <1>6
    <3>2. Good(0)
      <4> HIDE DEF Good
      <4>1. Distinct(kept[0]) /\ \A i \in 1..Len(kept[0]) : \E k \in 1..0 : kept[0][i] = q[k]
          BY <3>1 DEF Distinct
      <4> QED
          BY <3>1, <4>1 DEF Good
    <3> HIDE DEF Good
    <3> QED
        BY <3>2
  <2>2. ASSUME NEW m \in Nat, m \in Goods
        PROVE  m + 1 \in Goods
    <3> SUFFICES ASSUME m + 1 <= Len(q) PROVE Good(m + 1)
        OBVIOUS
    <3>1. Good(m) /\ q[m + 1] \in Job
        BY <2>2
    <3>4. kept[m + 1] = IF q[m + 1].peer = p THEN kept[m] ELSE Append(kept[m], q[m + 1])
        BY <1>6
    <3>2. CASE q[m + 1].peer = p
      <4>1. kept[m + 1] = kept[m]
          BY <3>4, <3>2
      <4> QED
          BY <3>1, <4>1
    <3>3. CASE q[m + 1].peer # p
      <4>1. kept[m + 1] = Append(kept[m], q[m + 1])
          BY <3>4, <3>3
      <4>2. kept[m + 1] \in Seq(Job) /\ Len(kept[m + 1]) = Len(kept[m]) + 1
          BY <3>1, <4>1
      <4>3. \A i \in 1..Len(kept[m + 1]) :
               kept[m + 1][i] = IF i = Len(kept[m + 1]) THEN q[m + 1] ELSE kept[m][i]
          BY <3>1, <4>1, <4>2
      <4>4. \A i \in 1..Len(kept[m + 1]) : \E k \in 1..(m + 1) : kept[m + 1][i] = q[k]
          BY <3>1, <4>2, <4>3
      <4>5. ASSUME Distinct(q) PROVE Distinct(kept[m + 1])
        <5>1. \A i \in 1..Len(kept[m]) : kept[m][i] # q[m + 1]
            BY <3>1, <4>5 DEF Distinct
        <5>2. Distinct(kept[m])
            BY <3>1, <4>5
        <5>3. ASSUME NEW i \in 1..Len(kept[m + 1]), NEW j \in 1..Len(kept[m + 1]),
                     kept[m + 1][i] = kept[m + 1][j], i < j
              PROVE  FALSE
          <6>1. i \in 1..Len(kept[m]) /\ kept[m + 1][i] = kept[m][i]
              BY <3>1, <4>2, <4>3, <5>3
          <6>2. CASE j = Len(kept[m + 1])
              BY <4>3, <5>1, <5>3, <6>1, <6>2
          <6>3. CASE j # Len(kept[m + 1])
            <7>1. j \in 1..Len(kept[m]) /\ kept[m + 1][j] = kept[m][j]
                BY <3>1, <4>2, <4>3, <6>3
            <7>2. kept[m][i] = kept[m][j]
                BY <5>3, <6>1, <7>1
            <7>3. i = j
                BY <5>2, <6>1, <7>1, <7>2 DEF Distinct
            <7> QED
                BY <5>3, <7>3
          <6> QED
              BY <6>2, <6>3
        <5> QED
            BY <4>2, <5>3 DEF Distinct
      <4> QED
          BY <4>2, <4>4, <4>5
    <3> QED
        BY <3>2, <3>3
  <2> HIDE DEF Goods
  <2> QED
      BY <2>1, <2>2, SetInduction
<1>8. Good(Len(q))
  <2>1. Len(q) \in Nat
      OBVIOUS
  <2> QED
      BY <2>1, <1>7
<1> QED
    BY <1>6, <1>8

-----------------------------------------------------------------------------
(* The bag of exchanges: what a step can add to it. *)

\* Replacing e by the exchanges of es adds no other exchange to the bag.
LEMMA BecomesElements ==
    ASSUME NEW e, NEW es, Becomes(e, es)
    PROVE  BagToSet(net)' \subseteq BagToSet(net) \cup es
BY DEF Becomes, BagToSet, SetToBag, (+), (-)

\* Sending the exchanges of es adds no other exchange to the bag.
LEMMA AddElements ==
    ASSUME NEW es, net' = net (+) SetToBag(es)
    PROVE  BagToSet(net)' \subseteq BagToSet(net) \cup es
BY DEF BagToSet, SetToBag, (+)

\* Closing a connection turns exchanges into failures and adds nothing else.
LEMMA ClosedElements ==
    ASSUME NEW p, NEW lost, ConnectionClosed(p, lost)
    PROVE  BagToSet(net)' \subseteq BagToSet(net) \cup {OutboundFailed(p)}
BY DEF ConnectionClosed, BagToSet, BagOfAll

-----------------------------------------------------------------------------
(* SyncState: what every operation preserves. *)

NoWait(s) == s.current_transfer = NoTransfer => s.queued_pulls = <<>>

Fresh(s) == s.current_transfer # NoTransfer =>
                \A i \in 1..Len(s.queued_pulls) :
                    s.queued_pulls[i] # [peer |-> s.current_transfer.peer,
                                         path |-> s.current_transfer.path]

\* The checksum a FileStart declared is that of a content of the path.
ExpectedKnown(s) == s.current_transfer # NoTransfer /\ s.current_transfer.file # "none"
                    => s.current_transfer.expected \in Versions[s.current_transfer.path]

SyncInv(s) == /\ s \in SyncState
              /\ NoWait(s)
              /\ Distinct(s.queued_pulls)
              /\ Fresh(s)
              /\ ExpectedKnown(s)

Ready(r) == SyncInv(r.state) /\ r.fetch \in SUBSET Path

\* The transfer that start_pull and finish_transfer build from a job is well formed,
\* and its expected checksum is not looked at before a file is open.
LEMMA OpeningTransfer ==
    ASSUME NEW job \in Job
    PROVE  /\ Opening(job) \in ActiveTransfer
           /\ Opening(job) # NoTransfer
           /\ [peer |-> Opening(job).peer, path |-> Opening(job).path] = job
           /\ Opening(job).file = "none"
<1>1. Opening(job) \in ActiveTransfer
    BY DEF Opening, Job, ActiveTransfer, FileHandle
<1>2. [peer |-> Opening(job).peer, path |-> Opening(job).path] = job
    BY DEF Opening, Job
<1> QED
    BY <1>1, <1>2, ConstantsAssumption DEF ConstantsAssumption, Opening

\* The fields of an active transfer, and that it is not the absence of one.
LEMMA TransferFields ==
    ASSUME NEW t \in ActiveTransfer
    PROVE  /\ t.peer \in Peer /\ t.path \in Path /\ t.file \in FileHandle
           /\ t.written \in Seq(Block) /\ t.expected \in Seq(Block)
           /\ t # NoTransfer
BY ConstantsAssumption DEF ConstantsAssumption, ActiveTransfer

\* Assigning queued_pulls leaves the other fields of SyncState alone.
LEMMA WithQueue ==
    ASSUME NEW s \in SyncState, NEW r \in Seq(Job)
    PROVE  LET n == [s EXCEPT !.queued_pulls = r] IN
           /\ n \in SyncState
           /\ n.queued_pulls = r
           /\ n.current_transfer = s.current_transfer
           /\ n.current_retry = s.current_retry
BY DEF SyncState

\* Assigning current_retry leaves the other fields of SyncState alone.
LEMMA WithRetry ==
    ASSUME NEW s \in SyncState, NEW k \in Nat
    PROVE  LET n == [s EXCEPT !.current_retry = k] IN
           /\ n \in SyncState
           /\ n.queued_pulls = s.queued_pulls
           /\ n.current_transfer = s.current_transfer
BY DEF SyncState

\* Assigning current_transfer leaves the other fields of SyncState alone.
LEMMA WithTransfer ==
    ASSUME NEW s \in SyncState, NEW t \in ActiveTransfer
    PROVE  LET n == [s EXCEPT !.current_transfer = t] IN
           /\ n \in SyncState
           /\ n.queued_pulls = s.queued_pulls
           /\ n.current_transfer = t
BY DEF SyncState

\* The tail that finish_transfer, retry_current and cancel_peer share: the head of
\* the queue becomes the transfer, and is not in what remains of the queue.
LEMMA StartNextReady ==
    ASSUME NEW s \in SyncState, Distinct(s.queued_pulls)
    PROVE  Ready(StartNext(s))
<1> DEFINE q == s.queued_pulls
<1>1. q \in Seq(Job) /\ s.current_retry \in Nat
    BY DEF SyncState
<1>2. CASE q = <<>>
  <2> DEFINE n == [s EXCEPT !.current_transfer = NoTransfer]
  <2>1. StartNext(s).state = n /\ StartNext(s).fetch = {}
      BY <1>2 DEF StartNext, Result
  <2>2. n \in SyncState /\ n.current_transfer = NoTransfer /\ n.queued_pulls = <<>>
      BY <1>2 DEF SyncState
  <2> HIDE DEF n
  <2> QED
      BY <2>1, <2>2 DEF Ready, SyncInv, NoWait, Distinct, Fresh, ExpectedKnown
<1>3. CASE q # <<>>
  <2> DEFINE n == [current_transfer |-> Opening(Head(q)), queued_pulls |-> Tail(q),
                   current_retry |-> 0]
  <2>1. StartNext(s).state = n /\ StartNext(s).fetch = {Head(q).path}
      BY <1>3 DEF StartNext, Result
  <2>2. Head(q) \in Job /\ Tail(q) \in Seq(Job) /\ Len(Tail(q)) = Len(q) - 1
      BY <1>1, <1>3
  <2>3. \A i \in 1..Len(Tail(q)) : Tail(q)[i] = q[i + 1] /\ i + 1 \in 1..Len(q)
      BY <1>1, <1>3, <2>2
  <2>4. Head(q) = q[1] /\ Len(q) \in Nat /\ 1 \in 1..Len(q)
      BY <1>1, <1>3
  <2>5. n \in SyncState
      BY <2>2, OpeningTransfer DEF SyncState
  <2>6. Distinct(n.queued_pulls)
    <3>1. ASSUME NEW i \in 1..Len(Tail(q)), NEW j \in 1..Len(Tail(q)), Tail(q)[i] = Tail(q)[j]
          PROVE  i = j
      <4>1. q[i + 1] = q[j + 1] /\ i + 1 \in 1..Len(q) /\ j + 1 \in 1..Len(q)
          BY <2>3, <3>1
      <4>2. i + 1 = j + 1
          BY <4>1 DEF Distinct
      <4> QED
          BY <4>2
    <3> QED
        BY <3>1 DEF Distinct
  <2>7. Fresh(n)
    <3>1. ASSUME NEW i \in 1..Len(Tail(q)), Tail(q)[i] = Head(q)
          PROVE  FALSE
      <4>1. q[i + 1] = q[1] /\ i + 1 \in 1..Len(q)
          BY <2>3, <2>4, <3>1
      <4>2. i + 1 = 1
          BY <2>4, <4>1 DEF Distinct
      <4> QED
          BY <4>2
    <3>2. [peer |-> Opening(Head(q)).peer, path |-> Opening(Head(q)).path] = Head(q)
        BY <2>2, OpeningTransfer
    <3> QED
        BY <3>1, <3>2 DEF Fresh
  <2>8. NoWait(n) /\ ExpectedKnown(n)
      BY <2>2, OpeningTransfer DEF NoWait, ExpectedKnown
  <2>9. {Head(q).path} \in SUBSET Path
      BY <2>2 DEF Job
  <2> HIDE DEF n
  <2> QED
      BY <2>1, <2>5, <2>6, <2>7, <2>8, <2>9 DEF Ready, SyncInv
<1> QED
    BY <1>2, <1>3

\* start_pull keeps SyncInv: a pull is queued only behind an active transfer, and
\* only when neither the transfer nor the queue has it.
LEMMA StartPullReady ==
    ASSUME NEW s, SyncInv(s), NEW p \in Peer, NEW path \in Path
    PROVE  Ready(StartPull(s, p, path))
<1> DEFINE job == [peer |-> p, path |-> path]
           q == s.queued_pulls
<1>1. job \in Job /\ s \in SyncState /\ q \in Seq(Job) /\ s.current_retry \in Nat
    BY DEF Job, SyncInv, SyncState
<1>2. CASE IsPending(s, p, path)
    BY <1>2 DEF StartPull, Result, Ready
<1>3. CASE ~IsPending(s, p, path) /\ s.current_transfer = NoTransfer
  <2> DEFINE n == [s EXCEPT !.current_transfer = Opening(job), !.current_retry = 0]
  <2>1. StartPull(s, p, path) = Result(n, {path})
      BY <1>3 DEF StartPull
  <2>2. n \in SyncState /\ n.queued_pulls = <<>> /\ n.current_transfer = Opening(job)
      BY <1>1, <1>3, OpeningTransfer DEF SyncState, SyncInv, NoWait
  <2> HIDE DEF n
  <2> QED
      BY <1>1, <2>1, <2>2, OpeningTransfer
      DEF Ready, Result, SyncInv, NoWait, Distinct, Fresh, ExpectedKnown
<1>4. CASE ~IsPending(s, p, path) /\ s.current_transfer # NoTransfer
  <2> DEFINE n == [s EXCEPT !.queued_pulls = Append(@, job)]
  <2>1. StartPull(s, p, path) = Result(n, {})
      BY <1>4 DEF StartPull
  <2>2. /\ n \in SyncState
        /\ n.queued_pulls = Append(q, job)
        /\ n.current_transfer = s.current_transfer
    <3>1. Append(q, job) \in Seq(Job)
        BY <1>1
    <3> QED
        BY <1>1, <3>1, WithQueue
  <2>3. /\ Len(Append(q, job)) = Len(q) + 1
        /\ \A i \in 1..Len(q) : Append(q, job)[i] = q[i]
        /\ Append(q, job)[Len(q) + 1] = job
        /\ Len(q) \in Nat
      BY <1>1
  <2>4. \A i \in 1..Len(q) : q[i] # job
      BY <1>4 DEF IsPending
  <2>5. Distinct(Append(q, job))
    <3>1. Distinct(q)
        BY DEF SyncInv
    <3>2. ASSUME NEW i \in 1..(Len(q) + 1), NEW j \in 1..(Len(q) + 1),
                 Append(q, job)[i] = Append(q, job)[j], i # Len(q) + 1
          PROVE  i = j
      <4>1. i \in 1..Len(q) /\ Append(q, job)[i] = q[i]
          BY <2>3, <3>2
      <4>2. j # Len(q) + 1
          BY <2>3, <2>4, <3>2, <4>1
      <4>3. j \in 1..Len(q) /\ Append(q, job)[j] = q[j]
          BY <2>3, <4>2
      <4> QED
          BY <3>1, <3>2, <4>1, <4>3 DEF Distinct
    <3> QED
        BY <2>3, <3>2 DEF Distinct
  <2>6. [peer |-> s.current_transfer.peer, path |-> s.current_transfer.path] # job
      BY <1>4 DEF IsPending, IsCurrent
  <2>7. Fresh(n)
    <3>1. Fresh(s)
        BY DEF SyncInv
    <3>2. ASSUME NEW i \in 1..(Len(q) + 1)
          PROVE  Append(q, job)[i] # [peer |-> s.current_transfer.peer,
                                      path |-> s.current_transfer.path]
      <4>1. CASE i = Len(q) + 1
          BY <2>3, <2>6, <4>1
      <4>2. CASE i # Len(q) + 1
        <5>1. i \in 1..Len(q) /\ Append(q, job)[i] = q[i]
            BY <2>3, <4>2
        <5> QED
            BY <1>4, <3>1, <5>1 DEF Fresh
      <4> QED
          BY <4>1, <4>2
    <3> QED
        BY <2>2, <2>3, <3>2 DEF Fresh
  <2> HIDE DEF n
  <2>8. NoWait(n) /\ ExpectedKnown(n)
      BY <1>4, <2>2 DEF NoWait, ExpectedKnown, SyncInv
  <2>9. SyncInv(n)
      BY <2>2, <2>5, <2>7, <2>8 DEF SyncInv
  <2> QED
      BY <2>1, <2>9 DEF Ready, Result
<1> QED
    BY <1>2, <1>3, <1>4

\* The active transfer is replaced by one of the same peer and path.
LEMMA SameTransfer ==
    ASSUME NEW s, SyncInv(s), s.current_transfer # NoTransfer,
           NEW t \in ActiveTransfer,
           t.peer = s.current_transfer.peer, t.path = s.current_transfer.path,
           t.file # "none" => t.expected \in Versions[t.path]
    PROVE  SyncInv([s EXCEPT !.current_transfer = t])
<1> DEFINE n == [s EXCEPT !.current_transfer = t]
<1>1. /\ n \in SyncState /\ n.queued_pulls = s.queued_pulls
      /\ n.current_transfer = t
    BY WithTransfer DEF SyncInv
<1>2. t # NoTransfer
    BY TransferFields
<1> HIDE DEF n
<1>3. SyncInv(n)
    BY <1>1, <1>2 DEF SyncInv, NoWait, Fresh, ExpectedKnown
<1> QED
    BY <1>3 DEF n

\* retry_current keeps SyncInv: it repeats the transfer or moves to the next.
LEMMA RetryCurrentReady ==
    ASSUME NEW s, SyncInv(s)
    PROVE  Ready(RetryCurrent(s))
<1> DEFINE t == s.current_transfer
<1>1. s \in SyncState /\ s.current_retry \in Nat
    BY DEF SyncInv, SyncState
<1>2. CASE s.current_retry >= MAX_RETRIES
  <2> DEFINE n == [s EXCEPT !.current_retry = 0]
  <2>1. n \in SyncState /\ n.queued_pulls = s.queued_pulls
      BY <1>1, WithRetry
  <2>2. RetryCurrent(s) = StartNext(n)
      BY <1>2 DEF RetryCurrent
  <2> HIDE DEF n
  <2> QED
      BY <2>1, <2>2, StartNextReady DEF SyncInv
<1>3. CASE ~(s.current_retry >= MAX_RETRIES)
  <2> DEFINE k == s.current_retry + 1
             n == [s EXCEPT !.current_retry = k]
  <2>1. /\ n \in SyncState /\ n.queued_pulls = s.queued_pulls
        /\ n.current_transfer = t
      BY <1>1, WithRetry
  <2>2. [s EXCEPT !.current_retry = @ + 1] = n
      BY <1>1 DEF SyncState
  <2> HIDE DEF n
  <2>3. SyncInv(n)
      BY <2>1 DEF SyncInv, NoWait, Fresh, ExpectedKnown
  <2>4. CASE t = NoTransfer
    <3>1. RetryCurrent(s) = Result(n, {})
        BY <1>3, <2>2, <2>4 DEF RetryCurrent
    <3> QED
        BY <2>3, <3>1 DEF Ready, Result
  <2>5. CASE t # NoTransfer
    <3>1. RetryCurrent(s) = Result([n EXCEPT !.current_transfer = Unlinked(t)], {t.path})
        BY <1>3, <2>1, <2>2, <2>5 DEF RetryCurrent, SyncState
    <3>2. t \in ActiveTransfer
        BY <1>1, <2>5 DEF SyncState
    <3>3. /\ Unlinked(t) \in ActiveTransfer
          /\ Unlinked(t).peer = t.peer /\ Unlinked(t).path = t.path
          /\ Unlinked(t).expected = t.expected
          /\ Unlinked(t).file # "none" => t.file # "none"
        BY <3>2 DEF Unlinked, ActiveTransfer, FileHandle
    <3>4. Unlinked(t).file # "none" => Unlinked(t).expected \in Versions[Unlinked(t).path]
        BY <2>5, <3>3 DEF SyncInv, ExpectedKnown
    <3>5. SyncInv([n EXCEPT !.current_transfer = Unlinked(t)])
        BY <2>1, <2>3, <2>5, <3>3, <3>4, SameTransfer
    <3>6. t.path \in Path
        BY <3>2, TransferFields
    <3> QED
        BY <3>1, <3>5, <3>6 DEF Ready, Result
  <2> QED
      BY <2>4, <2>5
<1> QED
    BY <1>2, <1>3

\* cancel_peer keeps SyncInv: what is left of the queue after retain is ready for
\* finish_transfer, or waits behind the transfer of another peer.
LEMMA CancelPeerReady ==
    ASSUME NEW s, SyncInv(s), NEW p \in Peer
    PROVE  Ready(CancelPeer(s, p))
<1> DEFINE q == s.queued_pulls
           r == Retain(q, p)
           n == [s EXCEPT !.queued_pulls = r]
<1>1. s \in SyncState /\ q \in Seq(Job) /\ Distinct(q)
    BY DEF SyncInv, SyncState
<1>2. /\ r \in Seq(Job) /\ Distinct(r)
      /\ \A i \in 1..Len(r) : \E k \in 1..Len(q) : r[i] = q[k]
    BY <1>1, RetainProperties
<1>3. /\ n \in SyncState /\ n.queued_pulls = r
      /\ n.current_transfer = s.current_transfer
    BY <1>1, <1>2, WithQueue
<1>4. n = [s EXCEPT !.queued_pulls = Retain(@, p)]
    BY <1>1 DEF SyncState
<1> HIDE DEF n
<1>5. CASE s.current_transfer # NoTransfer /\ s.current_transfer.peer = p
  <2> DEFINE m == [n EXCEPT !.current_retry = 0]
  <2>1. m \in SyncState /\ m.queued_pulls = r
      BY <1>3, WithRetry
  <2>2. CancelPeer(s, p) = StartNext(m)
      BY <1>4, <1>5 DEF CancelPeer
  <2> HIDE DEF m
  <2> QED
      BY <1>2, <2>1, <2>2, StartNextReady
<1>6. CASE ~(s.current_transfer # NoTransfer /\ s.current_transfer.peer = p)
  <2>1. CancelPeer(s, p) = Result(n, {})
      BY <1>4, <1>6 DEF CancelPeer
  <2>2. NoWait(n)
    <3>1. q = <<>> => r = <<>>
      <4> SUFFICES ASSUME q = <<>>, r # <<>> PROVE FALSE
          OBVIOUS
      <4>1. 1 \in 1..Len(r)
          BY <1>2
      <4>2. PICK k \in 1..Len(q) : r[1] = q[k]
          BY <1>2, <4>1
      <4> QED
          BY <4>2
    <3> HIDE DEF r, q
    <3> QED
        BY <1>3, <3>1 DEF SyncInv, NoWait, q
  <2>3. Fresh(n)
      BY <1>2, <1>3 DEF SyncInv, Fresh
  <2>4. ExpectedKnown(n)
      BY <1>3 DEF SyncInv, ExpectedKnown
  <2> QED
      BY <1>2, <1>3, <2>1, <2>2, <2>3, <2>4 DEF Ready, Result, SyncInv
<1> QED
    BY <1>5, <1>6

-----------------------------------------------------------------------------
(* The inductive invariant. *)

\* A FileStart on its way declares the checksum of a content of its path.
Known(e) == e.kind = "FileStart" => e.checksum \in Versions[e.path]
NetKnown == \A e \in BagToSet(net) : Known(e)

IInv == TypeOK /\ SyncInv(sync) /\ NetKnown /\ Integrity

\* The fields that an exchange of each kind has.
LEMMA ExchangeFields ==
    ASSUME NEW e \in Exchange
    PROVE  /\ e.peer \in Peer
           /\ e.kind \in TransferKinds \cup {"PeerEvent"} => e.path \in Path
           /\ e.kind = "FetchFileChunk" => e.offset \in Nat
           /\ e.kind = "FileChunk" =>
                 e.data \in Seq(Block) /\ e.offset \in Nat /\ e.is_last \in BOOLEAN
           /\ e.kind = "ManifestResponse" => e.files \in FileMap
BY DEF Exchange, TransferKinds

\* A content that a peer may hold is a sequence of blocks, and is not NoFile.
LEMMA ContentIsSequence ==
    ASSUME NEW path \in Path, NEW c \in Versions[path]
    PROVE  c \in Seq(Block) /\ c # NoFile /\ c \in UNION {Versions[x] : x \in Path}
BY ConstantsAssumption DEF ConstantsAssumption

\* What a step adds to the bag is well formed, so the bag is.
LEMMA NetPreserved ==
    ASSUME TypeOK, NetKnown, NEW es \in SUBSET Exchange, \A e \in es : Known(e),
           BagToSet(net)' \subseteq BagToSet(net) \cup es
    PROVE  BagToSet(net)' \subseteq Exchange /\ NetKnown'
<1>1. BagToSet(net)' \subseteq Exchange
    BY DEF TypeOK
<1>2. \A e \in BagToSet(net)' : Known(e)
    BY DEF NetKnown
<1> QED
    BY <1>1, <1>2 DEF NetKnown

\* The requests for the files of a set of paths are exchanges, and carry no checksum.
LEMMA FetchesKnown ==
    ASSUME NEW p \in Peer, NEW paths \in SUBSET Path
    PROVE  /\ {FetchFile(p, path) : path \in paths} \in SUBSET Exchange
           /\ \A e \in {FetchFile(p, path) : path \in paths} : Known(e)
BY DEF FetchFile, Exchange, Known

\* A handler that answers an exchange with the result of a SyncState operation.
LEMMA ApplyPreserves ==
    ASSUME IInv, NEW e \in BagToSet(net), NEW r, Ready(r), Apply(e, r)
    PROVE  /\ SyncInv(sync)' /\ sync' \in SyncState
           /\ BagToSet(net)' \subseteq Exchange /\ NetKnown'
<1>1. e.peer \in Peer
    BY ExchangeFields DEF IInv, TypeOK
<1> DEFINE es == {FetchFile(e.peer, path) : path \in r.fetch}
<1>2. es \in SUBSET Exchange /\ \A x \in es : Known(x)
    BY <1>1, FetchesKnown DEF Ready
<1>3. BagToSet(net)' \subseteq BagToSet(net) \cup es
    BY BecomesElements DEF Apply
<1> HIDE DEF es
<1>4. BagToSet(net)' \subseteq Exchange /\ NetKnown'
    BY <1>2, <1>3, NetPreserved DEF IInv
<1>5. SyncInv(sync)' /\ sync' \in SyncState
    BY DEF Apply, Ready, SyncInv, NoWait, Fresh, ExpectedKnown, Distinct
<1> QED
    BY <1>4, <1>5

\* A handler that consumes an exchange and answers nothing.
LEMMA ConsumePreserves ==
    ASSUME IInv, NEW e, Becomes(e, {})
    PROVE  BagToSet(net)' \subseteq Exchange /\ NetKnown'
<1>1. BagToSet(net)' \subseteq BagToSet(net) \cup {}
    BY BecomesElements
<1> QED
    BY <1>1, NetPreserved DEF IInv

\* A handler, or a peer, that turns an exchange into another one.
LEMMA ReplyPreserves ==
    ASSUME IInv, NEW e, NEW x \in Exchange, Known(x), Becomes(e, {x})
    PROVE  BagToSet(net)' \subseteq Exchange /\ NetKnown'
<1>1. BagToSet(net)' \subseteq BagToSet(net) \cup {x}
    BY BecomesElements
<1> QED
    BY <1>1, NetPreserved DEF IInv

\* A step that starts new exchanges.
LEMMA SendPreserves ==
    ASSUME IInv, NEW es \in SUBSET Exchange, \A x \in es : Known(x),
           net' = net (+) SetToBag(es)
    PROVE  BagToSet(net)' \subseteq Exchange /\ NetKnown'
<1>1. BagToSet(net)' \subseteq BagToSet(net) \cup es
    BY AddElements
<1> QED
    BY <1>1, NetPreserved DEF IInv

\* A removed file is absent, with or without a tombstone.
LEMMA RemovedIsAbsent == \A file : Removed(file) \in Absent
BY DEF Removed, Absent

\* Spending from a bound keeps the counters naturals.
LEMMA SpendPreserves ==
    ASSUME IInv, NEW field \in {"edits", "announces", "links", "closes", "failures", "ioErrors",
                         "dbErrors"},
           Spend(field)
    PROVE  used' \in Budget
BY DEF IInv, TypeOK, Spend, Budget

-----------------------------------------------------------------------------
(* The initial state and the steps of the environment. *)

\* The invariant holds when the task starts.
LEMMA InitInv == Init => IInv
<1> SUFFICES ASSUME Init PROVE IInv
    OBVIOUS
<1>1. SyncInv(sync)
    BY DEF Init, SyncInv, SyncState, NoWait, Distinct, Fresh, ExpectedKnown
<1>2. BagToSet(net) = {}
    BY DEF Init, EmptyBag, SetToBag, BagToSet
<1>3. TypeOK
  <2>1. used \in Budget
      BY DEF Init, Budget
  <2>2. shared \in [Peer -> FileMap]
      BY ConstantsAssumption DEF Init, ConstantsAssumption
  <2> QED
      BY <1>1, <1>2, <2>1, <2>2 DEF Init, TypeOK, SyncInv, Absent
<1>4. NetKnown /\ Integrity
    BY <1>2 DEF Init, NetKnown, Integrity, Absent
<1> QED
    BY <1>1, <1>3, <1>4 DEF IInv

\* A change on a peer's disk sends at most a PeerEvent and touches nothing here.
LEMMA PeerWritesInv ==
    ASSUME IInv, NEW p \in Peer, NEW path \in Path, NEW c \in Content(path),
           PeerWrites(p, path, c)
    PROVE  IInv'
<1> DEFINE x == PeerEvent(p, path, IF c = NoFile THEN "Deleted" ELSE "Edited")
<1>1. x \in Exchange /\ Known(x)
    BY DEF PeerEvent, Exchange, Known
<1>2. BagToSet(net)' \subseteq Exchange /\ NetKnown'
  <2>1. CASE net' = net
      BY <2>1 DEF IInv, TypeOK, NetKnown
  <2>2. CASE net' = net (+) SetToBag({x})
      BY <1>1, <2>2, SendPreserves
  <2> QED
      BY <2>1, <2>2 DEF PeerWrites
<1>3. shared' \in [Peer -> FileMap]
  <2>1. shared \in [Peer -> FileMap]
      BY DEF IInv, TypeOK
  <2>2. [shared[p] EXCEPT ![path] = c] \in FileMap
      BY <2>1 DEF FileMap
  <2>3. shared' = [shared EXCEPT ![p] = [shared[p] EXCEPT ![path] = c]]
      BY <2>1 DEF PeerWrites
  <2> QED
      BY <2>1, <2>2, <2>3
<1>4. used' \in Budget
    BY SpendPreserves DEF PeerWrites
<1> QED
    BY <1>2, <1>3, <1>4
    DEF IInv, TypeOK, PeerWrites, SyncInv, NoWait, Distinct, Fresh, ExpectedKnown, Integrity

\* A peer's answer is well formed; a FileStart carries the checksum of a content the
\* peer holds at that path at that moment.
LEMMA ServeInv ==
    ASSUME IInv, NEW e \in BagToSet(net), Serve(e)
    PROVE  IInv'
<1>1. e \in Exchange /\ e.peer \in Peer
    BY ExchangeFields DEF IInv, TypeOK
<1>2. shared[e.peer] \in FileMap
    BY <1>1 DEF IInv, TypeOK
<1>3. BagToSet(net)' \subseteq Exchange /\ NetKnown'
  <2>1. CASE ServeManifest(e)
    <3>1. ManifestResponse(e.peer, shared[e.peer]) \in Exchange
        BY <1>1, <1>2 DEF ManifestResponse, Exchange
    <3>2. Known(ManifestResponse(e.peer, shared[e.peer]))
        BY DEF ManifestResponse, Known
    <3> QED
        BY <2>1, <3>1, <3>2, ReplyPreserves DEF ServeManifest
  <2>2. CASE ServeEvent(e)
    <3>1. Ack(e.peer) \in Exchange /\ Known(Ack(e.peer))
        BY <1>1 DEF Ack, Exchange, Known
    <3> QED
        BY <2>2, <3>1, ReplyPreserves DEF ServeEvent
  <2>3. CASE ServeFetchFile(e)
    <3> DEFINE c == shared[e.peer][e.path]
    <3>1. e.path \in Path
        BY <1>1, <2>3, ExchangeFields DEF ServeFetchFile, TransferKinds
    <3>2. c \in Versions[e.path] \cup {NoFile}
        BY <1>2, <3>1 DEF FileMap, Content
    <3>3. CASE c = NoFile
      <4>1. NotFound(e.peer, e.path) \in Exchange /\ Known(NotFound(e.peer, e.path))
          BY <1>1, <3>1 DEF NotFound, Exchange, Known
      <4> QED
          BY <2>3, <3>3, <4>1, ReplyPreserves DEF ServeFetchFile
    <3>4. CASE c # NoFile
      <4>1. c \in UNION {Versions[y] : y \in Path}
          BY <3>1, <3>2, <3>4
      <4>2. FileStart(e.peer, e.path, c) \in Exchange
          BY <1>1, <3>1, <4>1 DEF FileStart, Exchange
      <4>3. Known(FileStart(e.peer, e.path, c))
          BY <3>2, <3>4 DEF FileStart, Known
      <4> QED
          BY <2>3, <3>4, <4>2, <4>3, ReplyPreserves DEF ServeFetchFile
    <3> QED
        BY <3>3, <3>4
  <2>4. CASE ServeFetchFileChunk(e)
    <3> DEFINE c == shared[e.peer][e.path]
               upto == IF e.offset + CHUNK_SIZE < Len(c)
                       THEN e.offset + CHUNK_SIZE ELSE Len(c)
               x == FileChunk(e.peer, e.path, SubSeq(c, e.offset + 1, upto),
                              e.offset, upto >= Len(c))
    <3>1. e.path \in Path /\ e.offset \in Nat
        BY <1>1, <2>4, ExchangeFields DEF ServeFetchFileChunk, TransferKinds
    <3>2. c \in Versions[e.path] \cup {NoFile}
        BY <1>2, <3>1 DEF FileMap, Content
    <3>3. CASE c = NoFile \/ (e.offset >= Len(c) /\ Len(c) > 0)
      <4>1. NotFound(e.peer, e.path) \in Exchange /\ Known(NotFound(e.peer, e.path))
          BY <1>1, <3>1 DEF NotFound, Exchange, Known
      <4> QED
          BY <2>4, <3>3, <4>1, ReplyPreserves DEF ServeFetchFileChunk
    <3>4. CASE ~(c = NoFile \/ (e.offset >= Len(c) /\ Len(c) > 0))
      <4>1. c \in Seq(Block) /\ Len(c) \in Nat
          BY <3>1, <3>2, <3>4, ContentIsSequence
      <4>2. CHUNK_SIZE \in Nat \ {0}
          BY ConstantsAssumption DEF ConstantsAssumption
      <4>3. upto \in 0..Len(c)
          BY <3>1, <4>1, <4>2
      <4>4. SubSeq(c, e.offset + 1, upto) \in Seq(Block)
        <5> HIDE DEF c, upto
        <5>1. \A j \in (e.offset + 1)..upto : c[j] \in Block
            BY <3>1, <4>1, <4>3
        <5> QED
            BY <3>1, <4>1, <4>3, <5>1, SubSeqProperties
      <4>5. x \in Exchange /\ Known(x)
        <5> HIDE DEF c, upto
        <5> QED
            BY <1>1, <3>1, <4>4 DEF FileChunk, Exchange, Known
      <4>6. Becomes(e, {x})
          BY <2>4, <3>4 DEF ServeFetchFileChunk
      <4> HIDE DEF x
      <4> QED
          BY <4>5, <4>6, ReplyPreserves
    <3> QED
        BY <3>3, <3>4
  <2> QED
      BY <2>1, <2>2, <2>3, <2>4 DEF Serve
<1> QED
    BY <1>3 DEF IInv, TypeOK, Serve, world, SyncInv, NoWait, Distinct, Fresh,
                ExpectedKnown, Integrity

-----------------------------------------------------------------------------
(* The steps of the event loop. *)

\* SyncInv is a predicate of its argument alone.
LEMMA SyncUnchanged ==
    ASSUME IInv, UNCHANGED sync
    PROVE  SyncInv(sync)' /\ sync' \in SyncState
BY DEF IInv, SyncInv, NoWait, Distinct, Fresh, ExpectedKnown

\* A value with SyncInv may be assigned to sync.
LEMMA SyncBecomes ==
    ASSUME NEW s, SyncInv(s), sync' = s
    PROVE  SyncInv(sync)' /\ sync' \in SyncState
BY DEF SyncInv, NoWait, Distinct, Fresh, ExpectedKnown

\* What every step owes the parts of the invariant it leaves alone.
LEMMA Frame ==
    ASSUME IInv, SyncInv(sync)' /\ sync' \in SyncState,
           BagToSet(net)' \subseteq Exchange /\ NetKnown',
           links' \in [Peer -> 0..2], connected_peers' \subseteq Peer,
           todo' \subseteq SyncAction, shared' = shared,
           local' \in [Path -> Seq(Block) \cup Absent], Integrity',
           alive' \in BOOLEAN, used' \in Budget
    PROVE  IInv'
BY DEF IInv, TypeOK

\* A new connection sends a manifest request.
LEMMA ConnectionEstablishedInv ==
    ASSUME IInv, NEW p \in Peer, ConnectionEstablished(p)
    PROVE  IInv'
<1>1. ManifestRequest(p) \in Exchange /\ Known(ManifestRequest(p))
    BY DEF ManifestRequest, Exchange, Known
<1>2. BagToSet(net)' \subseteq Exchange /\ NetKnown'
    BY <1>1, SendPreserves DEF ConnectionEstablished
<1>3. links' \in [Peer -> 0..2] /\ connected_peers' \subseteq Peer
    BY DEF IInv, TypeOK, ConnectionEstablished
<1>4. used' \in Budget
    BY SpendPreserves DEF ConnectionEstablished
<1>5. SyncInv(sync)' /\ sync' \in SyncState
    BY SyncUnchanged DEF ConnectionEstablished
<1> QED
    BY <1>2, <1>3, <1>4, <1>5, Frame DEF ConnectionEstablished, IInv, TypeOK, Integrity

\* A closed connection fails exchanges and cancels the pulls of the peer.
LEMMA ConnectionClosedInv ==
    ASSUME IInv, NEW p \in Peer, NEW lost, ConnectionClosed(p, lost)
    PROVE  IInv'
<1>1. OutboundFailed(p) \in Exchange /\ Known(OutboundFailed(p))
    BY DEF OutboundFailed, Exchange, Known
<1>2. BagToSet(net)' \subseteq Exchange /\ NetKnown'
  <2>1. BagToSet(net)' \subseteq BagToSet(net) \cup {OutboundFailed(p)}
      BY ClosedElements
  <2> DEFINE es == {OutboundFailed(p)}
  <2>2. es \in SUBSET Exchange /\ \A e \in es : Known(e)
      BY <1>1
  <2>3. BagToSet(net)' \subseteq BagToSet(net) \cup es
      BY <2>1
  <2> HIDE DEF es
  <2> QED
      BY <2>2, <2>3, NetPreserved DEF IInv
<1>3. links' \in [Peer -> 0..2] /\ connected_peers' \subseteq Peer
    BY DEF IInv, TypeOK, ConnectionClosed
<1>4. used' \in Budget
    BY SpendPreserves DEF ConnectionClosed
<1>5. SyncInv(sync)' /\ sync' \in SyncState
  <2>1. SyncInv(CancelPeer(sync, p).state)
      BY CancelPeerReady DEF IInv, Ready
  <2> QED
      BY <2>1, SyncBecomes DEF ConnectionClosed
<1> QED
    BY <1>2, <1>3, <1>4, <1>5, Frame DEF ConnectionClosed, IInv, TypeOK, Integrity

\* A broadcast sends one event to every connected peer.
LEMMA AnnounceChangeInv ==
    ASSUME IInv, AnnounceChange
    PROVE  IInv'
<1> DEFINE es == {EventRequest(p) : p \in connected_peers}
<1>1. es \in SUBSET Exchange /\ \A x \in es : Known(x)
    BY DEF EventRequest, Exchange, Known, IInv, TypeOK
<1>2. net' = net (+) SetToBag(es)
    BY DEF AnnounceChange
<1> HIDE DEF es
<1>21. BagToSet(net)' \subseteq Exchange /\ NetKnown'
    BY <1>1, <1>2, SendPreserves
<1>3. used' \in Budget
    BY SpendPreserves DEF AnnounceChange
<1>4. SyncInv(sync)' /\ sync' \in SyncState
    BY SyncUnchanged DEF AnnounceChange
<1> QED
    BY <1>21, <1>3, <1>4, Frame DEF AnnounceChange, IInv, TypeOK, Integrity

\* One action of a manifest: a pull is accepted, or a file removed.
LEMMA ApplyActionInv ==
    ASSUME IInv, NEW a \in todo, ApplyAction(a)
    PROVE  IInv'
<1>1. a.peer \in Peer /\ a.path \in Path
    BY DEF IInv, TypeOK, SyncAction
<1>2. todo' \subseteq SyncAction
    BY DEF IInv, TypeOK, ApplyAction
<1>3. CASE a.action = "Pull"
  <2> DEFINE r == StartPull(sync, a.peer, a.path)
             es == {FetchFile(a.peer, path) : path \in r.fetch}
  <2>1. Ready(r)
      BY <1>1, StartPullReady DEF IInv
  <2>2. es \in SUBSET Exchange /\ \A x \in es : Known(x)
      BY <1>1, <2>1, FetchesKnown DEF Ready
  <2>3. sync' = r.state /\ net' = net (+) SetToBag(es) /\ local' = local
      BY <1>3 DEF ApplyAction
  <2> HIDE DEF r, es
  <2>4. BagToSet(net)' \subseteq Exchange /\ NetKnown'
      BY <2>2, <2>3, SendPreserves
  <2>5. SyncInv(sync)' /\ sync' \in SyncState
      BY <2>1, <2>3, SyncBecomes DEF Ready
  <2> QED
      BY <1>2, <2>3, <2>4, <2>5, Frame DEF ApplyAction, world, IInv, TypeOK, Integrity
<1>4. CASE a.action = "Delete"
  <2>1. local' = [local EXCEPT ![a.path] = Removed(@)] /\ UNCHANGED <<sync, net>>
      BY <1>4 DEF ApplyAction
  <2>2. local' \in [Path -> Seq(Block) \cup Absent] /\ Integrity'
      BY <1>1, <2>1, RemovedIsAbsent DEF IInv, TypeOK, Integrity
  <2>3. BagToSet(net)' \subseteq Exchange /\ NetKnown'
      BY <2>1 DEF IInv, TypeOK, NetKnown
  <2> QED
      BY <1>2, <2>1, <2>2, <2>3, SyncUnchanged, Frame DEF ApplyAction, world, IInv, TypeOK
<1> QED
    BY <1>3, <1>4 DEF ApplyAction

\* A failed exchange retries the transfer.
LEMMA OutboundFailureInv ==
    ASSUME IInv, NEW e \in BagToSet(net), OutboundFailure(e)
    PROVE  IInv'
<1>1. Ready(RetryCurrent(sync))
    BY RetryCurrentReady DEF IInv
<1>2. /\ SyncInv(sync)' /\ sync' \in SyncState
      /\ BagToSet(net)' \subseteq Exchange /\ NetKnown'
    BY <1>1, ApplyPreserves DEF OutboundFailure
<1>3. used' \in Budget
    BY SpendPreserves DEF OutboundFailure, IInv, TypeOK
<1> QED
    BY <1>2, <1>3, Frame DEF OutboundFailure, IInv, TypeOK, Integrity

\* What a FileStart makes of the active transfer is one.
LEMMA Restarted ==
    ASSUME NEW c \in ActiveTransfer, NEW w \in Seq(Block), NEW v \in Seq(Block)
    PROVE  LET t == [c EXCEPT !.file = "linked", !.written = w, !.expected = v] IN
           /\ t \in ActiveTransfer /\ t.peer = c.peer /\ t.path = c.path
           /\ t.expected = v
<1> DEFINE t1 == [c EXCEPT !.file = "linked"]
           t2 == [t1 EXCEPT !.written = w]
           t3 == [t2 EXCEPT !.expected = v]
<1>1. t1 \in ActiveTransfer /\ t1.peer = c.peer /\ t1.path = c.path
    BY DEF ActiveTransfer, FileHandle
<1> HIDE DEF t1
<1>2. t2 \in ActiveTransfer /\ t2.peer = c.peer /\ t2.path = c.path
    BY <1>1 DEF ActiveTransfer
<1> HIDE DEF t2
<1>3. t3 \in ActiveTransfer /\ t3.peer = c.peer /\ t3.path = c.path /\ t3.expected = v
    BY <1>2 DEF ActiveTransfer
<1> QED
    BY <1>3 DEF t1, t2, t3

\* FileStart resets the temp file and remembers the announced checksum, which is
\* that of a content of the path: this is what makes Integrity inductive.
LEMMA HandleFileStartInv ==
    ASSUME IInv, NEW e \in BagToSet(net), HandleFileStart(e)
    PROVE  /\ SyncInv(sync)' /\ sync' \in SyncState
           /\ BagToSet(net)' \subseteq Exchange /\ NetKnown'
<1> DEFINE c == sync.current_transfer
           t == [c EXCEPT !.file = "linked", !.written = <<>>, !.expected = e.checksum]
<1>1. e \in Exchange /\ e.kind = "FileStart" /\ IsCurrent(sync, e.path)
    BY DEF HandleFileStart, IInv, TypeOK
<1>2. e.peer \in Peer /\ e.path \in Path
    BY <1>1, ExchangeFields DEF TransferKinds
<1>3. e.checksum \in Versions[e.path]
    BY <1>1 DEF IInv, NetKnown, Known
<1>4. c \in ActiveTransfer /\ c # NoTransfer /\ c.path = e.path
    BY <1>1 DEF IsCurrent, IInv, TypeOK, SyncState
<1>5. e.checksum \in Seq(Block)
    BY <1>2, <1>3, ContentIsSequence
<1>6. /\ t \in ActiveTransfer /\ t.peer = c.peer /\ t.path = c.path
      /\ t.expected \in Versions[t.path]
  <2>1. /\ t \in ActiveTransfer /\ t.peer = c.peer /\ t.path = c.path
        /\ t.expected = e.checksum
    <3>1. <<>> \in Seq(Block)
        OBVIOUS
    <3> QED
        BY <1>4, <1>5, <3>1, Restarted
  <2> QED
      BY <1>3, <1>4, <2>1
<1>7. sync' = [sync EXCEPT !.current_transfer = t]
    BY <1>4 DEF HandleFileStart, IInv, TypeOK, SyncState, ActiveTransfer
<1> HIDE DEF t
<1>8. SyncInv(sync)' /\ sync' \in SyncState
  <2>1. SyncInv([sync EXCEPT !.current_transfer = t])
      BY <1>4, <1>6, SameTransfer DEF IInv
  <2> QED
      BY <1>7, <2>1, SyncBecomes
<1>9. FetchFileChunk(e.peer, e.path, 0) \in Exchange /\ Known(FetchFileChunk(e.peer, e.path, 0))
    BY <1>2 DEF FetchFileChunk, Exchange, Known
<1>10. BagToSet(net)' \subseteq Exchange /\ NetKnown'
    BY <1>9, ReplyPreserves DEF HandleFileStart
<1> QED
    BY <1>8, <1>10

\* A chunk appended to the temp file leaves a state that satisfies SyncInv.
LEMMA WritingInv ==
    ASSUME IInv, NEW e \in BagToSet(net), e.kind = "FileChunk", IsCurrent(sync, e.path)
    PROVE  /\ SyncInv(Writing(e))
           /\ Extended(e) \in Seq(Block)
           /\ e.peer \in Peer /\ e.path \in Path /\ e.offset \in Nat
           /\ e.data \in Seq(Block)
           /\ sync.current_transfer \in ActiveTransfer
           /\ sync.current_transfer # NoTransfer
           /\ sync.current_transfer.path = e.path
<1> DEFINE c == sync.current_transfer
           t == [c EXCEPT !.written = Extended(e)]
<1>1. e.peer \in Peer /\ e.path \in Path /\ e.offset \in Nat /\ e.data \in Seq(Block)
    BY ExchangeFields DEF IInv, TypeOK, TransferKinds
<1>2. c \in ActiveTransfer /\ c # NoTransfer /\ c.path = e.path
    BY DEF IsCurrent, IInv, TypeOK, SyncState
<1>3. Extended(e) \in Seq(Block)
  <2>1. c.written \in Seq(Block)
      BY <1>2, TransferFields
  <2> QED
      BY <1>1, <2>1, ConcatProperties DEF Extended
<1>4. /\ t \in ActiveTransfer /\ t.peer = c.peer /\ t.path = c.path
      /\ t.file = c.file /\ t.expected = c.expected
    BY <1>2, <1>3 DEF ActiveTransfer
<1>5. t.file # "none" => t.expected \in Versions[t.path]
    BY <1>2, <1>4 DEF IInv, SyncInv, ExpectedKnown
<1>6. Writing(e) = [sync EXCEPT !.current_transfer = t]
    BY DEF Writing, IInv, TypeOK, SyncState
<1>7. SyncInv(Writing(e))
  <2> HIDE DEF t
  <2> QED
      BY <1>2, <1>4, <1>5, <1>6, SameTransfer DEF IInv
<1> QED
    BY <1>1, <1>2, <1>3, <1>7

\* A chunk, in each of its five outcomes.  A file is materialized only when what was
\* written equals the expected content, and so is a content of the path.
LEMMA HandleFileChunkInv ==
    ASSUME IInv, NEW e \in BagToSet(net), HandleFileChunk(e)
    PROVE  /\ SyncInv(sync)' /\ sync' \in SyncState
           /\ BagToSet(net)' \subseteq Exchange /\ NetKnown'
           /\ local' \in [Path -> Seq(Block) \cup Absent] /\ Integrity'
           /\ alive' \in BOOLEAN
<1>1. e.kind = "FileChunk" /\ IsCurrent(sync, e.path)
    BY DEF HandleFileChunk
<1>2. /\ SyncInv(Writing(e)) /\ Extended(e) \in Seq(Block)
      /\ e.peer \in Peer /\ e.path \in Path /\ e.offset \in Nat /\ e.data \in Seq(Block)
      /\ sync.current_transfer \in ActiveTransfer
      /\ sync.current_transfer # NoTransfer
      /\ sync.current_transfer.path = e.path
    BY <1>1, WritingInv
<1>3. /\ local \in [Path -> Seq(Block) \cup Absent] /\ Integrity /\ alive \in BOOLEAN
    BY DEF IInv, TypeOK
<1>4. CASE ChunkPanics(e)
  <2>1. BagToSet(net)' \subseteq Exchange /\ NetKnown'
      BY <1>4, ConsumePreserves DEF ChunkPanics
  <2> QED
      BY <1>3, <1>4, <2>1, SyncUnchanged DEF ChunkPanics, Integrity
<1>5. CASE ChunkAppended(e)
  <2> DEFINE x == FetchFileChunk(e.peer, e.path, e.offset + Len(e.data))
  <2>1. e.offset + Len(e.data) \in Nat
      BY <1>2
  <2>2. x \in Exchange /\ Known(x)
      BY <1>2, <2>1 DEF FetchFileChunk, Exchange, Known
  <2>3. Becomes(e, {x})
      BY <1>5 DEF ChunkAppended
  <2>4. BagToSet(net)' \subseteq Exchange /\ NetKnown'
    <3> HIDE DEF x
    <3> QED
        BY <2>2, <2>3, ReplyPreserves
  <2>5. SyncInv(sync)' /\ sync' \in SyncState
      BY <1>2, <1>5, SyncBecomes DEF ChunkAppended
  <2> QED
      BY <1>3, <1>5, <2>4, <2>5 DEF ChunkAppended, Integrity
<1>6. CASE ChunkMismatch(e)
  <2>1. Ready(RetryCurrent(Writing(e)))
      BY <1>2, RetryCurrentReady
  <2>2. /\ SyncInv(sync)' /\ sync' \in SyncState
        /\ BagToSet(net)' \subseteq Exchange /\ NetKnown'
      BY <1>6, <2>1, ApplyPreserves DEF ChunkMismatch
  <2> QED
      BY <1>3, <1>6, <2>2 DEF ChunkMismatch, Integrity
<1>7. CASE ChunkInstalled(e)
  <2>1. Ready(FinishTransfer(sync))
      BY StartNextReady DEF FinishTransfer, IInv, SyncInv
  <2>2. /\ SyncInv(sync)' /\ sync' \in SyncState
        /\ BagToSet(net)' \subseteq Exchange /\ NetKnown'
      BY <1>7, <2>1, ApplyPreserves DEF ChunkInstalled
  <2>3. Extended(e) \in Versions[e.path]
      BY <1>2, <1>7 DEF ChunkInstalled, Verified, IInv, SyncInv, ExpectedKnown
  <2>4. local' = [local EXCEPT ![e.path] = Extended(e)] /\ alive' = alive
      BY <1>7 DEF ChunkInstalled
  <2>5. local' \in [Path -> Seq(Block) \cup Absent]
      BY <1>2, <1>3, <2>4
  <2>6. Integrity'
      BY <1>3, <2>3, <2>4 DEF Integrity
  <2> QED
      BY <1>3, <2>2, <2>4, <2>5, <2>6
<1>8. CASE ChunkTempMissing(e)
  <2>1. BagToSet(net)' \subseteq Exchange /\ NetKnown'
      BY <1>8, ConsumePreserves DEF ChunkTempMissing
  <2>2. SyncInv(sync)' /\ sync' \in SyncState
      BY <1>2, <1>8, SyncBecomes DEF ChunkTempMissing
  <2> QED
      BY <1>3, <1>8, <2>1, <2>2 DEF ChunkTempMissing, Integrity
<1> QED
    BY <1>4, <1>5, <1>6, <1>7, <1>8 DEF HandleFileChunk

\* An error of the file system, which the event loop drops.
LEMMA FileSystemErrorInv ==
    ASSUME IInv, NEW e \in BagToSet(net), FileSystemError(e)
    PROVE  IInv'
<1>1. BagToSet(net)' \subseteq Exchange /\ NetKnown'
    BY ConsumePreserves DEF FileSystemError
<1>2. SyncInv(sync)' /\ sync' \in SyncState
  <2>1. CASE UNCHANGED sync
      BY <2>1, SyncUnchanged
  <2>2. CASE e.kind = "FileChunk" /\ sync' = Writing(e)
    <3>1. SyncInv(Writing(e))
        BY <2>2, WritingInv DEF FileSystemError
    <3> QED
        BY <2>2, <3>1, SyncBecomes
  <2> QED
      BY <2>1, <2>2 DEF FileSystemError
<1>3. used' \in Budget
    BY SpendPreserves DEF FileSystemError
<1> QED
    BY <1>1, <1>2, <1>3, Frame DEF FileSystemError, IInv, TypeOK, Integrity

\* A manifest that nothing is compared with.
LEMMA ManifestUnreadInv ==
    ASSUME IInv, NEW e \in BagToSet(net), ManifestUnread(e)
    PROVE  IInv'
<1>1. BagToSet(net)' \subseteq Exchange /\ NetKnown'
    BY ConsumePreserves DEF ManifestUnread
<1>2. SyncInv(sync)' /\ sync' \in SyncState
    BY SyncUnchanged DEF ManifestUnread
<1>3. used' \in Budget
    BY SpendPreserves DEF ManifestUnread
<1> QED
    BY <1>1, <1>2, <1>3, Frame DEF ManifestUnread, IInv, TypeOK, Integrity

\* Any event or response the loop handles.
LEMMA HandleInv ==
    ASSUME IInv, NEW e \in BagToSet(net), Handle(e)
    PROVE  IInv'
<1>1. /\ UNCHANGED <<links, connected_peers, shared, used>>
      /\ links \in [Peer -> 0..2] /\ connected_peers \subseteq Peer
      /\ todo \subseteq SyncAction /\ used \in Budget /\ alive \in BOOLEAN
      /\ local \in [Path -> Seq(Block) \cup Absent] /\ Integrity
    BY DEF Handle, world, IInv, TypeOK
<1>2. e \in Exchange /\ e.peer \in Peer
    BY ExchangeFields DEF IInv, TypeOK
<1>3. CASE HandleIncomingEdit(e)
  <2>1. e.path \in Path
      BY <1>2, <1>3, ExchangeFields DEF HandleIncomingEdit
  <2>2. Ready(StartPull(sync, e.peer, e.path))
      BY <1>2, <2>1, StartPullReady DEF IInv
  <2>3. /\ SyncInv(sync)' /\ sync' \in SyncState
        /\ BagToSet(net)' \subseteq Exchange /\ NetKnown'
      BY <1>3, <2>2, ApplyPreserves DEF HandleIncomingEdit
  <2> QED
      BY <1>1, <1>3, <2>3, Frame DEF HandleIncomingEdit, Integrity
<1>4. CASE HandleIncomingDelete(e)
  <2>1. local' = [local EXCEPT ![e.path] = Removed(@)]
      BY <1>4 DEF HandleIncomingDelete
  <2>2. local' \in [Path -> Seq(Block) \cup Absent] /\ Integrity'
      BY <1>1, <2>1, RemovedIsAbsent DEF Integrity
  <2>3. BagToSet(net)' \subseteq Exchange /\ NetKnown'
      BY <1>4, ConsumePreserves DEF HandleIncomingDelete
  <2>4. SyncInv(sync)' /\ sync' \in SyncState
      BY <1>4, SyncUnchanged DEF HandleIncomingDelete
  <2> QED
      BY <1>1, <1>4, <2>2, <2>3, <2>4, Frame DEF HandleIncomingDelete
<1>5. CASE HandleManifest(e)
  <2>1. todo' \subseteq SyncAction
      BY <1>2, <1>5 DEF HandleManifest, SyncAction
  <2>2. BagToSet(net)' \subseteq Exchange /\ NetKnown'
      BY <1>5, ConsumePreserves DEF HandleManifest
  <2>3. SyncInv(sync)' /\ sync' \in SyncState
      BY <1>5, SyncUnchanged DEF HandleManifest
  <2> QED
      BY <1>1, <1>5, <2>1, <2>2, <2>3, Frame DEF HandleManifest, Integrity
<1>6. CASE Ignore(e)
  <2>1. BagToSet(net)' \subseteq Exchange /\ NetKnown'
      BY <1>6, ConsumePreserves DEF Ignore
  <2>2. SyncInv(sync)' /\ sync' \in SyncState
      BY <1>6, SyncUnchanged DEF Ignore
  <2> QED
      BY <1>1, <1>6, <2>1, <2>2, Frame DEF Ignore, Integrity
<1>7. CASE HandleNotFound(e)
  <2>1. Ready(RetryCurrent(sync))
      BY RetryCurrentReady DEF IInv
  <2>2. /\ SyncInv(sync)' /\ sync' \in SyncState
        /\ BagToSet(net)' \subseteq Exchange /\ NetKnown'
      BY <1>7, <2>1, ApplyPreserves DEF HandleNotFound
  <2> QED
      BY <1>1, <1>7, <2>2, Frame DEF HandleNotFound, Integrity
<1>8. CASE HandleFileStart(e)
  <2>1. /\ SyncInv(sync)' /\ sync' \in SyncState
        /\ BagToSet(net)' \subseteq Exchange /\ NetKnown'
      BY <1>8, HandleFileStartInv
  <2> QED
      BY <1>1, <1>8, <2>1, Frame DEF HandleFileStart, Integrity
<1>9. CASE HandleFileChunk(e)
  <2>1. /\ SyncInv(sync)' /\ sync' \in SyncState
        /\ BagToSet(net)' \subseteq Exchange /\ NetKnown'
        /\ local' \in [Path -> Seq(Block) \cup Absent] /\ Integrity'
        /\ alive' \in BOOLEAN
      BY <1>9, HandleFileChunkInv
  <2> QED
      BY <1>1, <1>9, <2>1, Frame DEF HandleFileChunk
<1> QED
    BY <1>3, <1>4, <1>5, <1>6, <1>7, <1>8, <1>9 DEF Handle, HandleAck, IgnoreStale

-----------------------------------------------------------------------------
(* The theorems. *)

\* Every step preserves the invariant: one case per action of Next.
LEMMA StepInv == IInv /\ [Next]_vars => IInv'
<1> SUFFICES ASSUME IInv, [Next]_vars PROVE IInv'
    OBVIOUS
<1>1. CASE UNCHANGED vars
    BY <1>1 DEF vars, IInv, TypeOK, SyncInv, NoWait, Distinct, Fresh, ExpectedKnown,
                NetKnown, Integrity
<1>2. CASE \E p \in Peer, path \in Path : \E c \in Content(path) : PeerWrites(p, path, c)
    BY <1>2, PeerWritesInv
<1>3. CASE \E p \in Peer : ConnectionEstablished(p)
    BY <1>3, ConnectionEstablishedInv
<1>4. CASE \E p \in Peer : \E lost \in SUBSET BagToSet(net) : ConnectionClosed(p, lost)
    BY <1>4, ConnectionClosedInv
<1>5. CASE AnnounceChange
    BY <1>5, AnnounceChangeInv
<1>6. CASE ServeSome
    BY <1>6, ServeInv DEF ServeSome
<1>7. CASE HandleSome
    BY <1>7, ApplyActionInv, HandleInv DEF HandleSome
<1>8. CASE FailSome
    BY <1>8, OutboundFailureInv DEF FailSome
<1>9. CASE Polling /\ \E e \in BagToSet(net) : FileSystemError(e) \/ ManifestUnread(e)
    BY <1>9, FileSystemErrorInv, ManifestUnreadInv
<1> QED
    BY <1>1, <1>2, <1>3, <1>4, <1>5, <1>6, <1>7, <1>8, <1>9 DEF Next

\* The inductive invariant holds in every reachable state: the types, the shape
\* of SyncState after every operation of sync.rs, the checksums on their way
\* from the peers, and the content of what has been materialized.
THEOREM Invariance == Spec => []IInv
<1>1. Init => IInv
    BY InitInv
<1>2. IInv /\ [Next]_vars => IInv'
    BY StepInv
<1> QED
    BY <1>1, <1>2, PTL DEF Spec

\* Every variable keeps its type, for any number of peers, paths, contents and
\* retries, and whatever the peers answer: the retry count stays a natural, a
\* chunk extends a sequence of blocks, no exchange is malformed.
THEOREM TypeCorrect == Spec => []TypeOK
<1>1. IInv => TypeOK
    BY DEF IInv
<1> QED
    BY <1>1, Invariance, PTL

\* A file that handle_file_chunk renames into place is one version that some peer
\* held at that path, whatever chunks of whichever versions, streams and peers
\* the temp file received before.
THEOREM MaterializedFilesAreVersions == Spec => []Integrity
<1>1. IInv => Integrity
    BY DEF IInv
<1> QED
    BY <1>1, Invariance, PTL

\* The queue is empty when no transfer is active: finish_transfer, retry_current
\* and cancel_peer never leave a pull behind that nothing would start.
THEOREM NothingWaitsWhenIdle == Spec => []NoWaitWhenIdle
<1>1. IInv => NoWaitWhenIdle
    BY DEF IInv, SyncInv, NoWait, NoWaitWhenIdle
<1> QED
    BY <1>1, Invariance, PTL

\* The invariant's parts about the queue say that no pull is accepted twice.
LEMMA JobsDistinct == IInv => NoDuplicatePull
<1> SUFFICES ASSUME IInv PROVE NoDuplicatePull
    OBVIOUS
<1> DEFINE q == sync.queued_pulls
           x == [peer |-> sync.current_transfer.peer, path |-> sync.current_transfer.path]
<1>1. q \in Seq(Job) /\ Distinct(q) /\ Fresh(sync)
    BY DEF IInv, SyncInv, SyncState
<1>2. CASE sync.current_transfer = NoTransfer
    BY <1>2 DEF Jobs, NoDuplicatePull
<1>3. CASE sync.current_transfer # NoTransfer
  <2>1. x \in Job
      BY <1>3, TransferFields DEF IInv, SyncInv, SyncState, Job
  <2>2. \A k \in 1..Len(q) : q[k] # x
      BY <1>1, <1>3 DEF Fresh
  <2>3. Jobs = <<x>> \o q
      BY <1>3 DEF Jobs
  <2> HIDE DEF x, q
  <2>4. Len(<<x>> \o q) = 1 + Len(q) /\ Len(q) \in Nat
      BY <1>1, <2>1
  <2>5. \A i \in 1..(1 + Len(q)) : (<<x>> \o q)[i] = IF i = 1 THEN x ELSE q[i - 1]
      BY <1>1, <2>1
  <2>6. ASSUME NEW i \in 1..(1 + Len(q)), NEW j \in 1..(1 + Len(q)),
               (<<x>> \o q)[i] = (<<x>> \o q)[j]
        PROVE  i = j
    <3>1. CASE i = 1 \/ j = 1
      <4>1. \A k \in 1..(1 + Len(q)) : k # 1 => k - 1 \in 1..Len(q)
          BY <2>4
      <4> QED
          BY <2>2, <2>5, <2>6, <3>1, <4>1
    <3>2. CASE i # 1 /\ j # 1
      <4>1. i - 1 \in 1..Len(q) /\ j - 1 \in 1..Len(q) /\ q[i - 1] = q[j - 1]
          BY <2>4, <2>5, <2>6, <3>2
      <4>2. i - 1 = j - 1
          BY <1>1, <4>1 DEF Distinct
      <4> QED
          BY <4>2
    <3> QED
        BY <3>1, <3>2
  <2> QED
      BY <2>3, <2>4, <2>6 DEF NoDuplicatePull
<1> QED
    BY <1>2, <1>3

\* A (peer, path) is at most once among the active and the queued pulls: is_pending
\* is enough, although start_pull is called for events, manifests and missing
\* sources alike.
THEOREM PullsAreUnique == Spec => []NoDuplicatePull
    BY JobsDistinct, Invariance, PTL

-----------------------------------------------------------------------------
(***************************************************************************)
(* The pull engine implements the abstract queue of PullQueue, for every   *)
(* value of the constants: each operation of SyncState takes the sequence  *)
(* of accepted pulls by one of the queue's steps or leaves it alone, and   *)
(* no step of the system changes SyncState otherwise.                      *)
(***************************************************************************)

ActiveJob(s) == [peer |-> s.current_transfer.peer, path |-> s.current_transfer.path]

\* Jobs, as a function of SyncState.
JobsOf(s) == IF s.current_transfer = NoTransfer THEN <<>>
             ELSE <<ActiveJob(s)>> \o s.queued_pulls

\* A step of the abstract queue, or none.
QueueStep(q, r) ==
    \/ r = q
    \/ \E job \in Job : ~Queue!Waiting(q, job) /\ r = Append(q, job)
    \/ q # <<>> /\ r = Tail(q)
    \/ \E p \in Peer : Queue!Remains(q, r, p)

-----------------------------------------------------------------------------
(* retain *)

\* retain removes the pulls of the peer and no other, and keeps the order.
LEMMA RetainRemains ==
    ASSUME NEW q \in Seq(Job), NEW p
    PROVE  Queue!Remains(q, Retain(q, p), p)
<1>1. PICK kept :
         /\ Retain(q, p) = kept[Len(q)]
         /\ kept[0] = <<>>
         /\ \A n \in 0..Len(q) : n + 1 \in 0..Len(q) =>
               kept[n + 1] = IF q[n + 1].peer = p THEN kept[n]
                             ELSE Append(kept[n], q[n + 1])
    BY RetainUnfolds
\* What holds of the prefix of length n: it has nothing of p, everything else, in order.
<1> DEFINE From(n) == \A i \in 1..Len(kept[n]) :
                         kept[n][i].peer # p /\ \E k \in 1..n : kept[n][i] = q[k]
           All(n) == \A k \in 1..n : q[k].peer # p =>
                        \E i \in 1..Len(kept[n]) : kept[n][i] = q[k]
           Order(n) == \A i, j \in 1..Len(kept[n]) : i < j =>
                          \E k, l \in 1..n : k < l /\ kept[n][i] = q[k] /\ kept[n][j] = q[l]
           Good(n) == kept[n] \in Seq(Job) /\ From(n) /\ All(n) /\ Order(n)
           Goods == {n \in Nat : n <= Len(q) => Good(n)}
<1>2. Nat \subseteq Goods
  <2>1. 0 \in Goods
    <3>1. kept[0] = <<>> /\ Len(kept[0]) = 0 /\ kept[0] \in Seq(Job)
        BY <1>1
    <3>2. From(0) /\ All(0) /\ Order(0)
        BY <3>1
    <3> HIDE DEF From, All, Order
    <3> QED
        BY <3>1, <3>2
  <2>2. ASSUME NEW m \in Nat, m \in Goods
        PROVE  m + 1 \in Goods
    <3> SUFFICES ASSUME m + 1 <= Len(q) PROVE Good(m + 1)
      <4> HIDE DEF From, All, Order
      <4> QED
          OBVIOUS
    <3>1. Good(m) /\ q[m + 1] \in Job
      <4>1. m <= Len(q) /\ m + 1 \in 1..Len(q)
          BY LenProperties
      <4>2. Good(m)
        <5> HIDE DEF From, All, Order
        <5> QED
            BY <2>2, <4>1
      <4>3. q[m + 1] \in Job
          BY <4>1, ElementOfSeq
      <4> QED
          BY <4>2, <4>3
    <3>2. kept[m + 1] = IF q[m + 1].peer = p THEN kept[m] ELSE Append(kept[m], q[m + 1])
        BY <1>1
    <3>3. CASE q[m + 1].peer = p
      <4>1. kept[m + 1] = kept[m]
          BY <3>2, <3>3
      <4>2. All(m + 1)
        <5>1. ASSUME NEW k \in 1..(m + 1), q[k].peer # p
              PROVE  \E i \in 1..Len(kept[m + 1]) : kept[m + 1][i] = q[k]
          <6>1. k \in 1..m
              BY <3>3, <5>1
          <6>2. All(m)
              BY <3>1
          <6>3. \E i \in 1..Len(kept[m]) : kept[m][i] = q[k]
              BY <5>1, <6>1, <6>2
          <6> QED
              BY <4>1, <6>3
        <5> QED
            BY <5>1
      <4>3. From(m + 1) /\ Order(m + 1)
          BY <3>1, <4>1
      <4> HIDE DEF From, All, Order
      <4> QED
          BY <3>1, <4>1, <4>2, <4>3
    <3>4. CASE q[m + 1].peer # p
      <4>1. kept[m + 1] = Append(kept[m], q[m + 1])
          BY <3>2, <3>4
      <4>2. /\ kept[m + 1] \in Seq(Job) /\ Len(kept[m + 1]) = Len(kept[m]) + 1
            /\ Len(kept[m]) \in Nat
          BY <3>1, <4>1
      <4>3. /\ \A i \in 1..Len(kept[m]) : kept[m + 1][i] = kept[m][i]
            /\ kept[m + 1][Len(kept[m]) + 1] = q[m + 1]
          BY <3>1, <4>1, <4>2
      <4>4. From(m + 1)
        <5>1. ASSUME NEW i \in 1..Len(kept[m + 1])
              PROVE  kept[m + 1][i].peer # p /\ \E k \in 1..(m + 1) : kept[m + 1][i] = q[k]
          <6>1. CASE i = Len(kept[m]) + 1
              BY <3>4, <4>3, <6>1
          <6>2. CASE i # Len(kept[m]) + 1
            <7>1. i \in 1..Len(kept[m])
                BY <4>2, <6>2
            <7>2. kept[m][i].peer # p /\ \E k \in 1..m : kept[m][i] = q[k]
                BY <3>1, <7>1
            <7> QED
                BY <4>3, <7>1, <7>2
          <6> QED
              BY <6>1, <6>2
        <5> QED
            BY <5>1
      <4>5. All(m + 1)
        <5>1. ASSUME NEW k \in 1..(m + 1), q[k].peer # p
              PROVE  \E i \in 1..Len(kept[m + 1]) : kept[m + 1][i] = q[k]
          <6>1. CASE k = m + 1
              BY <4>2, <4>3, <6>1
          <6>2. CASE k # m + 1
            <7>1. k \in 1..m
                BY <6>2
            <7>2. PICK i \in 1..Len(kept[m]) : kept[m][i] = q[k]
                BY <3>1, <5>1, <7>1
            <7>3. i \in 1..Len(kept[m + 1])
                BY <4>2
            <7> QED
                BY <4>3, <7>2, <7>3
          <6> QED
              BY <6>1, <6>2
        <5> QED
            BY <5>1
      <4>6. Order(m + 1)
        <5>1. ASSUME NEW i \in 1..Len(kept[m + 1]), NEW j \in 1..Len(kept[m + 1]), i < j
              PROVE  \E k, l \in 1..(m + 1) :
                        k < l /\ kept[m + 1][i] = q[k] /\ kept[m + 1][j] = q[l]
          <6>1. i \in 1..Len(kept[m]) /\ kept[m + 1][i] = kept[m][i]
              BY <4>2, <4>3, <5>1
          <6>2. CASE j = Len(kept[m]) + 1
            <7>1. PICK k \in 1..m : kept[m][i] = q[k]
                BY <3>1, <6>1
            <7>2. k \in 1..(m + 1) /\ m + 1 \in 1..(m + 1) /\ k < m + 1
                OBVIOUS
            <7>3. kept[m + 1][j] = q[m + 1]
                BY <4>3, <6>2
            <7> QED
                BY <6>1, <7>1, <7>2, <7>3
          <6>3. CASE j # Len(kept[m]) + 1
            <7>1. j \in 1..Len(kept[m]) /\ kept[m + 1][j] = kept[m][j]
                BY <4>2, <4>3, <6>3
            <7>2. PICK k \in 1..m, l \in 1..m :
                     k < l /\ kept[m][i] = q[k] /\ kept[m][j] = q[l]
                BY <3>1, <5>1, <6>1, <7>1
            <7>3. k \in 1..(m + 1) /\ l \in 1..(m + 1)
                OBVIOUS
            <7> QED
                BY <6>1, <7>1, <7>2, <7>3
          <6> QED
              BY <6>2, <6>3
        <5> QED
            BY <5>1
      <4> HIDE DEF From, All, Order
      <4> QED
          BY <4>2, <4>4, <4>5, <4>6
    <3> QED
        BY <3>3, <3>4
  <2> HIDE DEF Goods
  <2> QED
      BY <2>1, <2>2, SetInduction
<1>3. Good(Len(q))
  <2>1. Len(q) \in Nat /\ Len(q) <= Len(q)
      OBVIOUS
  <2>2. Len(q) \in Goods
    <3> HIDE DEF Goods
    <3> QED
        BY <2>1, <1>2
  <2> HIDE DEF Good
  <2> QED
      BY <2>1, <2>2
<1> DEFINE r == Retain(q, p)
<1>4. /\ r \in Seq(Job)
      /\ \A i \in 1..Len(r) : r[i].peer # p /\ \E k \in 1..Len(q) : r[i] = q[k]
      /\ \A k \in 1..Len(q) : q[k].peer # p => \E i \in 1..Len(r) : r[i] = q[k]
      /\ \A i, j \in 1..Len(r) : i < j =>
            \E k, l \in 1..Len(q) : k < l /\ r[i] = q[k] /\ r[j] = q[l]
    BY <1>1, <1>3
<1> HIDE DEF r
<1>5. \A job \in Job : Queue!Waiting(r, job) <=> Queue!Waiting(q, job) /\ job.peer # p
  <2>1. ASSUME NEW i \in 1..Len(r)
        PROVE  Queue!Waiting(q, r[i]) /\ r[i].peer # p
      BY <1>4 DEF Queue!Waiting
  <2>2. ASSUME NEW k \in 1..Len(q), q[k].peer # p
        PROVE  Queue!Waiting(r, q[k])
    <3>1. PICK i \in 1..Len(r) : r[i] = q[k]
        BY <1>4, <2>2
    <3> QED
        BY <3>1 DEF Queue!Waiting
  <2> QED
      BY <2>1, <2>2 DEF Queue!Waiting
<1>6. Queue!Remains(q, r, p)
    BY <1>4, <1>5 DEF Queue!Remains, Queue!Ahead, Job, Queue!Job
<1> QED
    BY <1>6 DEF r

-----------------------------------------------------------------------------
(* The operations of SyncState, as steps of the queue. *)

\* The accepted pulls of a state with an active transfer: it is ahead of the queue.
LEMMA ActiveFirst ==
    ASSUME NEW s \in SyncState, s.current_transfer # NoTransfer
    PROVE  LET q == s.queued_pulls
               x == ActiveJob(s)
               j == JobsOf(s)
           IN /\ x \in Job /\ q \in Seq(Job)
              /\ j = <<x>> \o q /\ j \in Seq(Job) /\ j # <<>>
              /\ Len(j) = 1 + Len(q) /\ Len(q) \in Nat
              /\ j[1] = x /\ \A i \in 1..Len(q) : j[i + 1] = q[i]
              /\ Tail(j) = q
<1> DEFINE q == s.queued_pulls
           x == ActiveJob(s)
           j == JobsOf(s)
<1>1. x \in Job /\ q \in Seq(Job)
    BY TransferFields DEF ActiveJob, SyncState, Job
<1>2. j = <<x>> \o q
    BY DEF JobsOf
<1> HIDE DEF q, x, j
<1>3. j \in Seq(Job) /\ Len(j) = 1 + Len(q) /\ Len(q) \in Nat
    BY <1>1, <1>2
<1>4. j[1] = x /\ \A i \in 1..Len(q) : j[i + 1] = q[i]
    BY <1>1, <1>2
<1>5. Tail(j) = q /\ j # <<>>
  <2>1. j # <<>> /\ Tail(j) \in Seq(Job) /\ Len(Tail(j)) = Len(q)
      BY <1>3
  <2>2. \A i \in 1..Len(q) : Tail(j)[i] = q[i]
      BY <1>3, <1>4, <2>1
  <2> QED
      BY <1>1, <2>1, <2>2, SeqEqual
<1> QED
    BY <1>1, <1>2, <1>3, <1>4, <1>5 DEF q, x, j

\* Once a transfer has ended, the accepted pulls are those that were queued.
LEMMA StartNextJobs ==
    ASSUME NEW s \in SyncState
    PROVE  JobsOf(StartNext(s).state) = s.queued_pulls
<1> DEFINE q == s.queued_pulls
<1>1. q \in Seq(Job)
    BY DEF SyncState
<1>2. CASE q = <<>>
  <2>1. StartNext(s).state.current_transfer = NoTransfer
      BY <1>2 DEF StartNext, Result, SyncState
  <2> QED
      BY <1>2, <2>1 DEF JobsOf
<1>3. CASE q # <<>>
  <2> DEFINE n == StartNext(s).state
  <2>1. n.current_transfer = Opening(Head(q)) /\ n.queued_pulls = Tail(q)
      BY <1>3 DEF StartNext, Result
  <2>2. Head(q) \in Job /\ Tail(q) \in Seq(Job) /\ Len(Tail(q)) = Len(q) - 1
      BY <1>1, <1>3
  <2> HIDE DEF n
  <2>3. JobsOf(n) = <<Head(q)>> \o Tail(q)
      BY <2>1, <2>2, OpeningTransfer DEF JobsOf, ActiveJob
  <2>4. <<Head(q)>> \o Tail(q) = q
    <3>1. <<Head(q)>> \o Tail(q) \in Seq(Job) /\ Len(<<Head(q)>> \o Tail(q)) = Len(q)
        BY <1>1, <1>3, <2>2
    <3>2. \A i \in 1..Len(q) : (<<Head(q)>> \o Tail(q))[i] = q[i]
        BY <1>1, <1>3, <2>2
    <3> HIDE DEF q
    <3> QED
        BY <1>1, <3>1, <3>2, SeqEqual
  <2> QED
      BY <2>3, <2>4 DEF n
<1> QED
    BY <1>2, <1>3

\* start_pull accepts the pull at the end of the queue, unless it is waiting.
LEMMA StartPullJobs ==
    ASSUME NEW s, SyncInv(s), NEW p \in Peer, NEW path \in Path
    PROVE  QueueStep(JobsOf(s), JobsOf(StartPull(s, p, path).state))
<1> DEFINE job == [peer |-> p, path |-> path]
           q == s.queued_pulls
<1>1. s \in SyncState /\ q \in Seq(Job) /\ job \in Job
    BY DEF SyncInv, SyncState, Job
<1>2. CASE IsPending(s, p, path)
    BY <1>2 DEF StartPull, Result, QueueStep
<1>3. CASE ~IsPending(s, p, path) /\ s.current_transfer = NoTransfer
  <2> DEFINE n == [s EXCEPT !.current_transfer = Opening(job), !.current_retry = 0]
  <2>1. StartPull(s, p, path).state = n
      BY <1>3 DEF StartPull, Result
  <2>2. n.current_transfer = Opening(job) /\ n.queued_pulls = <<>>
      BY <1>1, <1>3 DEF SyncState, SyncInv, NoWait
  <2> HIDE DEF n
  <2>3. JobsOf(n) = <<job>> \o <<>> /\ JobsOf(s) = <<>>
      BY <1>1, <1>3, <2>2, OpeningTransfer DEF JobsOf, ActiveJob
  <2>4. <<job>> \o <<>> = Append(<<>>, job)
      BY <1>1
  <2>5. ~Queue!Waiting(<<>>, job)
      BY DEF Queue!Waiting
  <2> QED
      BY <1>1, <2>1, <2>3, <2>4, <2>5 DEF QueueStep
<1>4. CASE ~IsPending(s, p, path) /\ s.current_transfer # NoTransfer
  <2> DEFINE r == Append(q, job)
             n == [s EXCEPT !.queued_pulls = r]
             x == ActiveJob(s)
  <2>1. StartPull(s, p, path).state = n
      BY <1>1, <1>4 DEF StartPull, Result, SyncState
  <2>2. n \in SyncState /\ n.queued_pulls = r /\ n.current_transfer = s.current_transfer
    <3>1. r \in Seq(Job)
        BY <1>1
    <3> QED
        BY <1>1, <3>1, WithQueue
  <2> HIDE DEF n
  <2>3. x \in Job /\ JobsOf(s) = <<x>> \o q /\ JobsOf(n) = <<x>> \o r
      BY <1>1, <1>4, <2>2, ActiveFirst DEF JobsOf, ActiveJob
  <2>4. <<x>> \o r = Append(<<x>> \o q, job)
    <3> HIDE DEF x, q, job
    <3>1. <<x>> \o r \in Seq(Job) /\ Append(<<x>> \o q, job) \in Seq(Job)
        BY <1>1, <2>3
    <3>2. Len(<<x>> \o r) = Len(q) + 2 /\ Len(Append(<<x>> \o q, job)) = Len(q) + 2
        BY <1>1, <2>3
    <3>3. \A i \in 1..(Len(q) + 2) : (<<x>> \o r)[i] = Append(<<x>> \o q, job)[i]
        BY <1>1, <2>3
    <3> HIDE DEF r
    <3> QED
        BY <3>1, <3>2, <3>3, SeqEqual
  <2>5. ~Queue!Waiting(<<x>> \o q, job)
    <3>1. x # job /\ \A i \in 1..Len(q) : q[i] # job
        BY <1>4 DEF IsPending, IsCurrent, ActiveJob
    <3> HIDE DEF x, q, job
    <3>2. \A i \in 1..(1 + Len(q)) : (<<x>> \o q)[i] = IF i = 1 THEN x ELSE q[i - 1]
        BY <1>1, <2>3
    <3>3. Len(<<x>> \o q) = 1 + Len(q) /\ Len(q) \in Nat
        BY <1>1, <2>3
    <3>4. \A i \in 1..(1 + Len(q)) : i = 1 \/ i - 1 \in 1..Len(q)
        BY <3>3
    <3> QED
        BY <3>1, <3>2, <3>3, <3>4 DEF Queue!Waiting
  <2> QED
      BY <1>1, <2>1, <2>3, <2>4, <2>5 DEF QueueStep
<1> QED
    BY <1>2, <1>3, <1>4

\* The end of a transfer takes the first of the accepted pulls.
LEMMA FinishTransferJobs ==
    ASSUME NEW s, SyncInv(s)
    PROVE  QueueStep(JobsOf(s), JobsOf(StartNext(s).state))
<1>1. s \in SyncState /\ JobsOf(StartNext(s).state) = s.queued_pulls
    BY StartNextJobs DEF SyncInv
<1>2. CASE s.current_transfer = NoTransfer
    BY <1>1, <1>2 DEF SyncInv, NoWait, JobsOf, QueueStep
<1>3. CASE s.current_transfer # NoTransfer
    BY <1>1, <1>3, ActiveFirst DEF QueueStep
<1> QED
    BY <1>2, <1>3

\* A retry is of the same pull, and the last one ends it.
LEMMA RetryCurrentJobs ==
    ASSUME NEW s, SyncInv(s)
    PROVE  QueueStep(JobsOf(s), JobsOf(RetryCurrent(s).state))
<1>1. s \in SyncState /\ s.current_retry \in Nat
    BY DEF SyncInv, SyncState
<1>2. CASE s.current_retry >= MAX_RETRIES
  <2> DEFINE n == [s EXCEPT !.current_retry = 0]
  <2>1. /\ n \in SyncState /\ n.queued_pulls = s.queued_pulls
        /\ n.current_transfer = s.current_transfer
      BY <1>1, WithRetry
  <2>2. RetryCurrent(s) = StartNext(n)
      BY <1>2 DEF RetryCurrent
  <2> HIDE DEF n
  <2>3. JobsOf(RetryCurrent(s).state) = JobsOf(StartNext(s).state)
      BY <1>1, <2>1, <2>2, StartNextJobs
  <2> QED
      BY <2>3, FinishTransferJobs
<1>3. CASE ~(s.current_retry >= MAX_RETRIES)
  <2> DEFINE n == [s EXCEPT !.current_retry = s.current_retry + 1]
             t == s.current_transfer
  <2>1. /\ n \in SyncState /\ n.queued_pulls = s.queued_pulls
        /\ n.current_transfer = t
      BY <1>1, WithRetry
  <2>2. [s EXCEPT !.current_retry = @ + 1] = n
      BY <1>1 DEF SyncState
  <2> HIDE DEF n
  <2>3. CASE t = NoTransfer
    <3>1. RetryCurrent(s).state = n
        BY <1>3, <2>2, <2>3 DEF RetryCurrent, Result
    <3> QED
        BY <2>1, <2>3, <3>1 DEF JobsOf, QueueStep
  <2>4. CASE t # NoTransfer
    <3>1. RetryCurrent(s).state = [n EXCEPT !.current_transfer = Unlinked(t)]
        BY <1>3, <2>1, <2>2, <2>4 DEF RetryCurrent, SyncState, Result
    <3>2. t \in ActiveTransfer
        BY <1>1, <2>4 DEF SyncState
    <3>3. Unlinked(t) \in ActiveTransfer /\ Unlinked(t).peer = t.peer /\ Unlinked(t).path = t.path
        BY <3>2 DEF Unlinked, ActiveTransfer, FileHandle
    <3>4. /\ RetryCurrent(s).state.current_transfer = Unlinked(t)
          /\ RetryCurrent(s).state.queued_pulls = s.queued_pulls
        BY <2>1, <3>1, <3>3, WithTransfer
    <3>5. Unlinked(t) # NoTransfer
        BY <3>3, TransferFields
    <3>6. JobsOf(RetryCurrent(s).state) = JobsOf(s)
        BY <2>4, <3>3, <3>4, <3>5 DEF JobsOf, ActiveJob
    <3> QED
        BY <3>6 DEF QueueStep
  <2> QED
      BY <2>3, <2>4
<1> QED
    BY <1>2, <1>3

\* A pull in front of a queue: what is waiting, and what is ahead of what.
LEMMA InFront ==
    ASSUME NEW x \in Job, NEW q \in Seq(Job)
    PROVE  LET j == <<x>> \o q IN
           /\ \A job : Queue!Waiting(j, job) <=> job = x \/ Queue!Waiting(q, job)
           /\ \A a, b : Queue!Ahead(q, a, b) => Queue!Ahead(j, a, b)
           /\ \A b : Queue!Waiting(q, b) => Queue!Ahead(j, x, b)
<1> DEFINE j == <<x>> \o q
<1>1. /\ Len(q) \in Nat /\ Len(j) = 1 + Len(q) /\ j[1] = x
      /\ \A i \in 1..Len(q) : j[i + 1] = q[i]
    OBVIOUS
<1> HIDE DEF j
<1>2. /\ 1 \in 1..Len(j) /\ \A i \in 1..Len(q) : i + 1 \in 1..Len(j) /\ 1 < i + 1
      /\ \A k \in 1..Len(j) : k = 1 \/ (k - 1 \in 1..Len(q) /\ j[k] = q[k - 1])
  <2>1. ASSUME NEW k \in 1..Len(j), k # 1
        PROVE  k - 1 \in 1..Len(q) /\ j[k] = q[k - 1]
    <3>1. k - 1 \in 1..Len(q) /\ (k - 1) + 1 = k
        BY <1>1, <2>1
    <3> QED
        BY <1>1, <3>1
  <2> QED
      BY <1>1, <2>1
<1>3. ASSUME NEW job
      PROVE  Queue!Waiting(j, job) <=> job = x \/ Queue!Waiting(q, job)
  <2>1. ASSUME Queue!Waiting(j, job) PROVE job = x \/ Queue!Waiting(q, job)
      BY <1>1, <1>2, <2>1 DEF Queue!Waiting
  <2>2. ASSUME job = x \/ Queue!Waiting(q, job) PROVE Queue!Waiting(j, job)
    <3>1. CASE job = x
        BY <1>1, <1>2, <3>1 DEF Queue!Waiting
    <3>2. CASE Queue!Waiting(q, job)
      <4>1. PICK i \in 1..Len(q) : q[i] = job
          BY <3>2 DEF Queue!Waiting
      <4>2. i + 1 \in 1..Len(j) /\ j[i + 1] = job
          BY <1>1, <1>2, <4>1
      <4> QED
          BY <4>2 DEF Queue!Waiting
    <3> QED
        BY <2>2, <3>1, <3>2
  <2> QED
      BY <2>1, <2>2
<1>4. ASSUME NEW a, NEW b, Queue!Ahead(q, a, b)
      PROVE  Queue!Ahead(j, a, b)
  <2>1. PICK k \in 1..Len(q), l \in 1..Len(q) : k < l /\ q[k] = a /\ q[l] = b
      BY <1>4 DEF Queue!Ahead
  <2>2. /\ k + 1 \in 1..Len(j) /\ l + 1 \in 1..Len(j) /\ k + 1 < l + 1
        /\ j[k + 1] = a /\ j[l + 1] = b
      BY <1>1, <1>2, <2>1
  <2> QED
      BY <2>2 DEF Queue!Ahead
<1>5. ASSUME NEW b, Queue!Waiting(q, b)
      PROVE  Queue!Ahead(j, x, b)
  <2>1. PICK l \in 1..Len(q) : q[l] = b
      BY <1>5 DEF Queue!Waiting
  <2>2. l + 1 \in 1..Len(j) /\ 1 < l + 1 /\ j[l + 1] = b
      BY <1>1, <1>2, <2>1
  <2> QED
      BY <1>1, <1>2, <2>2 DEF Queue!Ahead
<1> QED
    BY <1>3, <1>4, <1>5 DEF j

\* cancel_peer takes all the pulls of the peer, the active one too, and no other.
LEMMA CancelPeerJobs ==
    ASSUME NEW s, SyncInv(s), NEW p \in Peer
    PROVE  QueueStep(JobsOf(s), JobsOf(CancelPeer(s, p).state))
<1> DEFINE q == s.queued_pulls
           r == Retain(q, p)
           n == [s EXCEPT !.queued_pulls = r]
           x == ActiveJob(s)
           c == CancelPeer(s, p).state
<1>1. s \in SyncState /\ q \in Seq(Job)
    BY DEF SyncInv, SyncState
<1>2. r \in Seq(Job) /\ Queue!Remains(q, r, p)
    BY <1>1, RetainRemains, RetainProperties
<1>3. /\ n \in SyncState /\ n.queued_pulls = r
      /\ n.current_transfer = s.current_transfer
    BY <1>1, <1>2, WithQueue
<1>4. n = [s EXCEPT !.queued_pulls = Retain(@, p)]
    BY <1>1 DEF SyncState
<1> HIDE DEF n
<1> SUFFICES Queue!Remains(JobsOf(s), JobsOf(c), p)
    BY DEF QueueStep
<1>5. CASE s.current_transfer = NoTransfer
  <2>1. c = n
      BY <1>4, <1>5 DEF CancelPeer, Result
  <2>2. JobsOf(s) = <<>> /\ JobsOf(c) = <<>>
      BY <1>3, <1>5, <2>1 DEF JobsOf
  <2>3. Queue!Remains(<<>>, <<>>, p)
      BY DEF Queue!Remains, Queue!Waiting
  <2> QED
      BY <2>2, <2>3
<1>6. CASE s.current_transfer # NoTransfer /\ s.current_transfer.peer = p
  <2> DEFINE m == [n EXCEPT !.current_retry = 0]
  <2>1. m \in SyncState /\ m.queued_pulls = r
      BY <1>3, WithRetry
  <2>2. CancelPeer(s, p) = StartNext(m)
      BY <1>4, <1>6 DEF CancelPeer
  <2> HIDE DEF m
  <2>3. JobsOf(c) = r
      BY <2>1, <2>2, StartNextJobs
  <2>4. x \in Job /\ JobsOf(s) = <<x>> \o q /\ x.peer = p
      BY <1>1, <1>6, ActiveFirst DEF ActiveJob
  <2> HIDE DEF x, q, r, c
  <2>5. \A job \in Job : Queue!Waiting(r, job) <=>
                          Queue!Waiting(<<x>> \o q, job) /\ job.peer # p
      BY <1>1, <1>2, <2>4, InFront DEF Queue!Remains, Job, Queue!Job
  <2>6. \A i, k \in 1..Len(r) : i < k => Queue!Ahead(<<x>> \o q, r[i], r[k])
      BY <1>1, <1>2, <2>4, InFront DEF Queue!Remains
  <2> QED
      BY <1>2, <2>3, <2>4, <2>5, <2>6 DEF Queue!Remains, Job, Queue!Job
<1>7. CASE s.current_transfer # NoTransfer /\ s.current_transfer.peer # p
  <2>1. c = n
      BY <1>4, <1>7 DEF CancelPeer, Result
  <2>2. x \in Job /\ JobsOf(s) = <<x>> \o q /\ x.peer # p
      BY <1>1, <1>7, ActiveFirst DEF ActiveJob
  <2>3. JobsOf(c) = <<x>> \o r
      BY <1>3, <1>7, <2>1 DEF JobsOf, ActiveJob
  <2> HIDE DEF x, q, r, c
  <2>4. /\ <<x>> \o r \in Seq(Job) /\ Len(<<x>> \o r) = 1 + Len(r) /\ Len(r) \in Nat
        /\ (<<x>> \o r)[1] = x
        /\ \A i \in 1..(1 + Len(r)) : i # 1 => /\ i - 1 \in 1..Len(r)
                                               /\ (<<x>> \o r)[i] = r[i - 1]
      BY <1>2, <2>2
  <2>5. \A job \in Job : Queue!Waiting(<<x>> \o r, job) <=>
                          Queue!Waiting(<<x>> \o q, job) /\ job.peer # p
    <3>1. \A job \in Job : Queue!Waiting(r, job) <=> Queue!Waiting(q, job) /\ job.peer # p
        BY <1>2 DEF Queue!Remains, Job, Queue!Job
    <3>2. \A job : Queue!Waiting(<<x>> \o r, job) <=> job = x \/ Queue!Waiting(r, job)
        BY <1>2, <2>2, InFront
    <3>3. \A job : Queue!Waiting(<<x>> \o q, job) <=> job = x \/ Queue!Waiting(q, job)
        BY <1>1, <2>2, InFront
    <3> QED
        BY <2>2, <3>1, <3>2, <3>3
  <2>6. ASSUME NEW i \in 1..(1 + Len(r)), NEW k \in 1..(1 + Len(r)), i < k
        PROVE  Queue!Ahead(<<x>> \o q, (<<x>> \o r)[i], (<<x>> \o r)[k])
    <3>1. k # 1
        BY <2>6
    <3>2. k - 1 \in 1..Len(r) /\ (<<x>> \o r)[k] = r[k - 1] /\ r[k - 1] \in Job
        BY <1>2, <2>4, <3>1
    <3>3. CASE i = 1
      <4>1. Queue!Waiting(r, r[k - 1])
          BY <3>2 DEF Queue!Waiting
      <4>2. Queue!Waiting(q, r[k - 1])
          BY <1>2, <3>2, <4>1 DEF Queue!Remains, Job, Queue!Job
      <4> QED
          BY <1>1, <2>2, <2>4, <3>2, <3>3, <4>2, InFront
    <3>4. CASE i # 1
      <4>1. i - 1 \in 1..Len(r) /\ (<<x>> \o r)[i] = r[i - 1] /\ i - 1 < k - 1
          BY <2>4, <2>6, <3>4
      <4>2. Queue!Ahead(q, r[i - 1], r[k - 1])
          BY <1>2, <3>2, <4>1 DEF Queue!Remains
      <4> QED
          BY <1>1, <2>2, <3>2, <4>1, <4>2, InFront
    <3> QED
        BY <3>3, <3>4
  <2>7. Queue!Remains(<<x>> \o q, <<x>> \o r, p)
      BY <2>4, <2>5, <2>6 DEF Queue!Remains, Job, Queue!Job
  <2> QED
      BY <2>2, <2>3, <2>7
<1> QED
    BY <1>5, <1>6, <1>7

-----------------------------------------------------------------------------
(* The steps of the system. *)

\* The accepted pulls are a function of SyncState alone, before and after a step.
LEMMA JobsAreOfSync ==
    /\ Jobs = JobsOf(sync)
    /\ \A s : sync' = s => Jobs' = JobsOf(s)
BY DEF Jobs, JobsOf, ActiveJob

\* A transfer replaced by one of the same peer and path is the same pull.
LEMMA SameJobs ==
    ASSUME NEW s \in SyncState, s.current_transfer # NoTransfer,
           NEW t \in ActiveTransfer,
           t.peer = s.current_transfer.peer, t.path = s.current_transfer.path
    PROVE  JobsOf([s EXCEPT !.current_transfer = t]) = JobsOf(s)
<1> DEFINE n == [s EXCEPT !.current_transfer = t]
<1>1. n.queued_pulls = s.queued_pulls /\ n.current_transfer = t
    BY WithTransfer
<1>2. t # NoTransfer
    BY TransferFields
<1> HIDE DEF n
<1>3. JobsOf(n) = JobsOf(s)
    BY <1>1, <1>2 DEF JobsOf, ActiveJob
<1> QED
    BY <1>3 DEF n

\* Writing a chunk to the temp file changes no pull.
LEMMA WritingJobs ==
    ASSUME IInv, NEW e \in BagToSet(net), e.kind = "FileChunk", IsCurrent(sync, e.path)
    PROVE  JobsOf(Writing(e)) = JobsOf(sync)
<1> DEFINE c == sync.current_transfer
           t == [c EXCEPT !.written = Extended(e)]
<1>1. /\ Extended(e) \in Seq(Block) /\ c \in ActiveTransfer /\ c # NoTransfer
      /\ sync \in SyncState
    BY WritingInv DEF IInv, TypeOK
<1>2. t \in ActiveTransfer /\ t.peer = c.peer /\ t.path = c.path
    BY <1>1 DEF ActiveTransfer
<1>3. Writing(e) = [sync EXCEPT !.current_transfer = t]
    BY <1>1 DEF Writing, SyncState
<1> QED
  <2> HIDE DEF t
  <2> QED
      BY <1>1, <1>2, <1>3, SameJobs

\* FileStart prepares the temp file of the same pull.
LEMMA FileStartJobs ==
    ASSUME IInv, NEW e \in BagToSet(net), HandleFileStart(e)
    PROVE  Jobs' = Jobs
<1> DEFINE c == sync.current_transfer
           t == [c EXCEPT !.file = "linked", !.written = <<>>, !.expected = e.checksum]
<1>1. e \in Exchange /\ e.kind = "FileStart" /\ IsCurrent(sync, e.path) /\ sync \in SyncState
    BY DEF HandleFileStart, IInv, TypeOK
<1>2. e.path \in Path /\ e.checksum \in Versions[e.path]
    BY <1>1, ExchangeFields DEF TransferKinds, IInv, NetKnown, Known
<1>3. c \in ActiveTransfer /\ c # NoTransfer
    BY <1>1 DEF IsCurrent, SyncState
<1>4. t \in ActiveTransfer /\ t.peer = c.peer /\ t.path = c.path
  <2>1. e.checksum \in Seq(Block)
      BY <1>2, ContentIsSequence
  <2>2. <<>> \in Seq(Block)
      OBVIOUS
  <2>3. /\ t \in ActiveTransfer /\ t.peer = c.peer /\ t.path = c.path
        /\ t.expected = e.checksum
      BY <1>3, <2>1, <2>2, Restarted
  <2> QED
      BY <2>3
<1>5. sync' = [sync EXCEPT !.current_transfer = t]
    BY <1>1, <1>3 DEF HandleFileStart, SyncState, ActiveTransfer
<1> HIDE DEF t
<1>6. JobsOf([sync EXCEPT !.current_transfer = t]) = JobsOf(sync)
    BY <1>1, <1>3, <1>4, SameJobs
<1> QED
    BY <1>5, <1>6, JobsAreOfSync

\* A chunk ends the pull, retries it or leaves it alone.
LEMMA FileChunkJobs ==
    ASSUME IInv, NEW e \in BagToSet(net), HandleFileChunk(e)
    PROVE  QueueStep(Jobs, Jobs')
<1>1. e.kind = "FileChunk" /\ IsCurrent(sync, e.path) /\ SyncInv(sync)
    BY DEF HandleFileChunk, IInv
<1>2. SyncInv(Writing(e)) /\ JobsOf(Writing(e)) = JobsOf(sync)
    BY <1>1, WritingInv, WritingJobs
<1>3. CASE ChunkPanics(e)
    BY <1>3, JobsAreOfSync DEF ChunkPanics, QueueStep
<1>4. CASE ChunkAppended(e) \/ ChunkTempMissing(e)
    BY <1>2, <1>4, JobsAreOfSync DEF ChunkAppended, ChunkTempMissing, QueueStep
<1>5. CASE ChunkMismatch(e)
  <2>1. QueueStep(JobsOf(sync), JobsOf(RetryCurrent(Writing(e)).state))
      BY <1>2, RetryCurrentJobs
  <2> QED
      BY <1>5, <2>1, JobsAreOfSync DEF ChunkMismatch, Apply
<1>6. CASE ChunkInstalled(e)
  <2>1. QueueStep(JobsOf(sync), JobsOf(FinishTransfer(sync).state))
      BY <1>1, FinishTransferJobs DEF FinishTransfer
  <2> QED
      BY <1>6, <2>1, JobsAreOfSync DEF ChunkInstalled, Apply
<1> QED
    BY <1>3, <1>4, <1>5, <1>6 DEF HandleFileChunk

\* Any event or response the loop handles.
LEMMA HandleJobs ==
    ASSUME IInv, NEW e \in BagToSet(net), Handle(e)
    PROVE  QueueStep(Jobs, Jobs')
<1>1. SyncInv(sync) /\ e \in Exchange /\ e.peer \in Peer
    BY ExchangeFields DEF IInv, TypeOK
<1>2. CASE HandleIncomingEdit(e)
  <2>1. e.path \in Path
      BY <1>1, <1>2, ExchangeFields DEF HandleIncomingEdit
  <2>2. QueueStep(JobsOf(sync), JobsOf(StartPull(sync, e.peer, e.path).state))
      BY <1>1, <2>1, StartPullJobs
  <2> QED
      BY <1>2, <2>2, JobsAreOfSync DEF HandleIncomingEdit, Apply
<1>3. CASE HandleNotFound(e)
  <2>1. QueueStep(JobsOf(sync), JobsOf(RetryCurrent(sync).state))
      BY <1>1, RetryCurrentJobs
  <2> QED
      BY <1>3, <2>1, JobsAreOfSync DEF HandleNotFound, Apply
<1>4. CASE HandleFileStart(e)
    BY <1>4, FileStartJobs DEF QueueStep
<1>5. CASE HandleFileChunk(e)
    BY <1>5, FileChunkJobs
<1>6. CASE HandleIncomingDelete(e) \/ HandleManifest(e) \/ HandleAck(e) \/ IgnoreStale(e)
    BY <1>6, JobsAreOfSync
    DEF HandleIncomingDelete, HandleManifest, HandleAck, IgnoreStale, Ignore, QueueStep
<1> QED
    BY <1>2, <1>3, <1>4, <1>5, <1>6 DEF Handle

\* Every step of the system is a step of the abstract queue or leaves it alone.
LEMMA StepJobs == IInv /\ [Next]_vars => QueueStep(Jobs, Jobs')
<1> SUFFICES ASSUME IInv, [Next]_vars PROVE QueueStep(Jobs, Jobs')
    OBVIOUS
<1>1. SyncInv(sync)
    BY DEF IInv
<1>2. ASSUME sync' = sync PROVE QueueStep(Jobs, Jobs')
    BY <1>2, JobsAreOfSync DEF QueueStep
<1>3. CASE UNCHANGED vars
    BY <1>2, <1>3 DEF vars
<1>4. CASE \E p \in Peer, path \in Path : \E c \in Content(path) : PeerWrites(p, path, c)
    BY <1>2, <1>4 DEF PeerWrites
<1>5. CASE \E p \in Peer : ConnectionEstablished(p)
    BY <1>2, <1>5 DEF ConnectionEstablished
<1>6. ASSUME NEW p \in Peer, NEW lost, ConnectionClosed(p, lost)
      PROVE  QueueStep(Jobs, Jobs')
  <2>1. QueueStep(JobsOf(sync), JobsOf(CancelPeer(sync, p).state))
      BY <1>1, CancelPeerJobs
  <2> QED
      BY <1>6, <2>1, JobsAreOfSync DEF ConnectionClosed
<1>7. CASE AnnounceChange
    BY <1>2, <1>7 DEF AnnounceChange
<1>8. CASE ServeSome
    BY <1>2, <1>8 DEF ServeSome, Serve
<1>9. ASSUME NEW a \in todo, ApplyAction(a)
      PROVE  QueueStep(Jobs, Jobs')
  <2>1. a.peer \in Peer /\ a.path \in Path
      BY DEF IInv, TypeOK, SyncAction
  <2>2. QueueStep(JobsOf(sync), JobsOf(StartPull(sync, a.peer, a.path).state))
      BY <1>1, <2>1, StartPullJobs
  <2>3. sync' = sync \/ sync' = StartPull(sync, a.peer, a.path).state
      BY <1>9 DEF ApplyAction
  <2> QED
      BY <1>2, <2>2, <2>3, JobsAreOfSync
<1>10. ASSUME NEW e \in BagToSet(net), OutboundFailure(e)
       PROVE  QueueStep(Jobs, Jobs')
  <2>1. QueueStep(JobsOf(sync), JobsOf(RetryCurrent(sync).state))
      BY <1>1, RetryCurrentJobs
  <2> QED
      BY <1>10, <2>1, JobsAreOfSync DEF OutboundFailure, Apply
<1>11. ASSUME NEW e \in BagToSet(net), FileSystemError(e)
       PROVE  QueueStep(Jobs, Jobs')
  <2>1. CASE sync' = sync
      BY <1>2, <2>1
  <2>2. CASE e.kind = "FileChunk" /\ sync' = Writing(e)
    <3>1. JobsOf(Writing(e)) = JobsOf(sync)
        BY <1>11, <2>2, WritingJobs DEF FileSystemError
    <3> QED
        BY <2>2, <3>1, JobsAreOfSync DEF QueueStep
  <2> QED
      BY <1>11, <2>1, <2>2 DEF FileSystemError
<1>12. CASE HandleSome
    BY <1>9, <1>12, HandleJobs DEF HandleSome
<1>13. ASSUME NEW e \in BagToSet(net), ManifestUnread(e)
       PROVE  QueueStep(Jobs, Jobs')
    BY <1>2, <1>13 DEF ManifestUnread
<1> QED
    BY <1>3, <1>4, <1>5, <1>6, <1>7, <1>8, <1>10, <1>11, <1>12, <1>13 DEF Next, FailSome

\* The pull engine implements the abstract queue, whatever the network does: a pull
\* that sync.rs has accepted leaves from the front when it ends, or with all the pulls of
\* its peer, and nothing overtakes it, through every retry, failure and reconnection.
THEOREM EngineIsAQueue == Spec => QueueSpec
<1>1. Init => Queue!Init
    BY DEF Init, Queue!Init, Jobs
<1>2. IInv /\ [Next]_vars => [Queue!Next]_Jobs
  <2>1. ASSUME QueueStep(Jobs, Jobs') PROVE [Queue!Next]_Jobs
      BY <2>1 DEF QueueStep, Queue!Next, Queue!Accept, Queue!End, Queue!Cancel, Job, Queue!Job
  <2> QED
      BY <2>1, StepJobs
<1> QED
    BY <1>1, <1>2, Invariance, PTL DEF Spec, QueueSpec, Queue!Spec
=============================================================================
