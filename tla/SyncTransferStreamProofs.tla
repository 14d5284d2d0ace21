----------------------- MODULE SyncTransferStreamProofs -----------------------
(***************************************************************************)
(* Which exchanges belong to the active transfer, for every value of the   *)
(* constants.  Two inductive invariants beside IInv: Carried, that an      *)
(* exchange keeps the active transfer going as long as no connection was   *)
(* closed and no error of the file system was dropped, and OneStream, that *)
(* there is one such exchange and it continues the temp file, as long as   *)
(* no request failed.                                                      *)
(***************************************************************************)
EXTENDS SyncTransferProofs

-----------------------------------------------------------------------------
(* Bags: what a step does to the counts of the exchanges. *)

\* The counts after one copy of each element of a set is added.
LEMMA BagPlus ==
    ASSUME NEW B, IsABag(B), NEW S, NEW C, C = B (+) SetToBag(S)
    PROVE  /\ IsABag(C)
           /\ BagToSet(C) = BagToSet(B) \cup S
           /\ \A x \in BagToSet(B) : x \notin S => C[x] = B[x]
           /\ \A x \in S : x \notin BagToSet(B) => C[x] = 1
<1>1. C = [x \in DOMAIN B \cup S |-> (IF x \in DOMAIN B THEN B[x] ELSE 0)
                                     + (IF x \in S THEN 1 ELSE 0)]
    BY DEF SetToBag, (+)
<1>2. \A x \in DOMAIN B : B[x] \in Nat /\ B[x] > 0
    BY DEF IsABag
<1>3. DOMAIN C = DOMAIN B \cup S
    BY <1>1
<1>4. ASSUME NEW x \in DOMAIN C
      PROVE  /\ C[x] \in Nat /\ C[x] > 0
             /\ x \notin S => C[x] = B[x]
             /\ x \notin DOMAIN B => C[x] = 1
    BY <1>1, <1>2
<1>5. C \in [DOMAIN C -> {n \in Nat : n > 0}]
    BY <1>1, <1>4
<1> QED
    BY <1>3, <1>4, <1>5 DEF IsABag, BagToSet

\* The counts after a copy of an element is taken: it goes with its last copy.
LEMMA BagMinus ==
    ASSUME NEW B, IsABag(B), NEW e \in BagToSet(B), NEW C, C = B (-) SetToBag({e})
    PROVE  /\ IsABag(C)
           /\ BagToSet(C) \subseteq BagToSet(B)
           /\ BagToSet(B) \ {e} \subseteq BagToSet(C)
           /\ B[e] = 1 => e \notin BagToSet(C)
           /\ \A x \in BagToSet(C) : x # e => C[x] = B[x]
<1> DEFINE D == [x \in DOMAIN B |-> IF x = e THEN B[x] - 1 ELSE B[x]]
<1>1. C = [x \in {y \in DOMAIN D : D[y] > 0} |-> D[x]]
  <2>1. D = [x \in DOMAIN B |-> IF x \in DOMAIN SetToBag({e})
                                THEN B[x] - SetToBag({e})[x] ELSE B[x]]
      BY DEF SetToBag
  <2> HIDE DEF D
  <2> QED
      BY <2>1 DEF (-)
<1>2. \A x \in DOMAIN B : B[x] \in Nat /\ B[x] > 0
    BY DEF IsABag
<1>3. DOMAIN C = {y \in DOMAIN B : D[y] > 0} /\ \A x \in DOMAIN C : C[x] = D[x]
    BY <1>1
<1>4. ASSUME NEW x \in DOMAIN B
      PROVE  /\ D[x] \in Nat
             /\ x # e => D[x] = B[x] /\ D[x] > 0
             /\ B[e] = 1 /\ x = e => ~(D[x] > 0)
    BY <1>2
<1> HIDE DEF D
<1>5. C \in [DOMAIN C -> {n \in Nat : n > 0}]
  <2>1. \A x \in DOMAIN C : C[x] \in Nat /\ C[x] > 0
      BY <1>3, <1>4
  <2>2. C = [x \in DOMAIN C |-> C[x]]
      BY <1>1
  <2> QED
      BY <2>1, <2>2
<1> QED
    BY <1>3, <1>4, <1>5 DEF IsABag, BagToSet

\* An exchange that becomes others: which are there, and how often.
LEMMA BecomesBag ==
    ASSUME IsABag(net), NEW e \in BagToSet(net), NEW es, Becomes(e, es)
    PROVE  /\ IsABag(net)'
           /\ BagToSet(net)' \subseteq BagToSet(net) \cup es
           /\ BagToSet(net) \ {e} \subseteq BagToSet(net)'
           /\ es \subseteq BagToSet(net)'
           /\ net[e] = 1 => BagToSet(net)' \subseteq (BagToSet(net) \ {e}) \cup es
           /\ \A x \in BagToSet(net) \ {e} : x \notin es => net'[x] = net[x]
           /\ \A x \in es : (x \notin BagToSet(net) \/ (x = e /\ net[e] = 1)) => net'[x] = 1
<1> DEFINE R == net (-) SetToBag({e})
           C == R (+) SetToBag(es)
<1>1. /\ IsABag(R)
      /\ BagToSet(R) \subseteq BagToSet(net)
      /\ BagToSet(net) \ {e} \subseteq BagToSet(R)
      /\ net[e] = 1 => e \notin BagToSet(R)
      /\ \A x \in BagToSet(R) : x # e => R[x] = net[x]
    BY BagMinus
<1> HIDE DEF R
<1>2. /\ IsABag(C)
      /\ BagToSet(C) = BagToSet(R) \cup es
      /\ \A x \in BagToSet(R) : x \notin es => C[x] = R[x]
      /\ \A x \in es : x \notin BagToSet(R) => C[x] = 1
    BY <1>1, BagPlus
<1>3. net' = C
    BY DEF Becomes, R
<1> HIDE DEF C
<1>4. /\ IsABag(C)
      /\ BagToSet(C) \subseteq BagToSet(net) \cup es
      /\ BagToSet(net) \ {e} \subseteq BagToSet(C)
      /\ es \subseteq BagToSet(C)
      /\ net[e] = 1 => BagToSet(C) \subseteq (BagToSet(net) \ {e}) \cup es
      /\ \A x \in BagToSet(net) \ {e} : x \notin es => C[x] = net[x]
      /\ \A x \in es : (x \notin BagToSet(net) \/ (x = e /\ net[e] = 1)) => C[x] = 1
    BY <1>1, <1>2
<1> QED
    BY <1>3, <1>4 DEF IsABag, BagToSet

\* New exchanges beside those that are there.
LEMMA SendBag ==
    ASSUME IsABag(net), NEW es, net' = net (+) SetToBag(es)
    PROVE  /\ IsABag(net)'
           /\ BagToSet(net)' = BagToSet(net) \cup es
           /\ \A x \in BagToSet(net) : x \notin es => net'[x] = net[x]
           /\ \A x \in es : x \notin BagToSet(net) => net'[x] = 1
<1> DEFINE C == net (+) SetToBag(es)
<1>1. /\ IsABag(C)
      /\ BagToSet(C) = BagToSet(net) \cup es
      /\ \A x \in BagToSet(net) : x \notin es => C[x] = net[x]
      /\ \A x \in es : x \notin BagToSet(net) => C[x] = 1
    BY BagPlus
<1> HIDE DEF C
<1>2. net' = C
    BY DEF C
<1> QED
    BY <1>1, <1>2 DEF IsABag, BagToSet

-----------------------------------------------------------------------------
(* What the operations of SyncState ask for. *)

\* The file of the transfer that is active afterwards is asked for, and no other.
Fetches(r) == r.fetch = IF r.state.current_transfer = NoTransfer THEN {}
                        ELSE {r.state.current_transfer.path}

\* finish_transfer asks for the file of the next pull.
LEMMA StartNextFetches ==
    ASSUME NEW s \in SyncState
    PROVE  Fetches(StartNext(s))
<1> DEFINE q == s.queued_pulls
<1>1. q \in Seq(Job)
    BY DEF SyncState
<1>2. CASE q = <<>>
    BY <1>2 DEF StartNext, Result, SyncState, Fetches
<1>3. CASE q # <<>>
  <2>1. Head(q) \in Job
      BY <1>1, <1>3
  <2>2. Opening(Head(q)) # NoTransfer /\ Opening(Head(q)).path = Head(q).path
      BY <2>1, OpeningTransfer DEF Opening
  <2> HIDE DEF q
  <2>3. /\ StartNext(s).state.current_transfer = Opening(Head(q))
        /\ StartNext(s).fetch = {Head(q).path}
      BY <1>3 DEF StartNext, Result, q
  <2> QED
      BY <2>2, <2>3 DEF Fetches
<1> QED
    BY <1>2, <1>3

\* retry_current asks for the file again, or for that of the next pull.
LEMMA RetryFetches ==
    ASSUME NEW s, SyncInv(s)
    PROVE  Fetches(RetryCurrent(s))
<1> DEFINE t == s.current_transfer
<1>1. s \in SyncState /\ s.current_retry \in Nat
    BY DEF SyncInv, SyncState
<1>2. CASE s.current_retry >= MAX_RETRIES
  <2> DEFINE n == [s EXCEPT !.current_retry = 0]
  <2>1. n \in SyncState
      BY <1>1, WithRetry
  <2>2. RetryCurrent(s) = StartNext(n)
      BY <1>2 DEF RetryCurrent
  <2> HIDE DEF n
  <2> QED
      BY <2>1, <2>2, StartNextFetches
<1>3. CASE ~(s.current_retry >= MAX_RETRIES)
  <2> DEFINE n == [s EXCEPT !.current_retry = s.current_retry + 1]
  <2>1. n \in SyncState /\ n.current_transfer = t
      BY <1>1, WithRetry
  <2>2. [s EXCEPT !.current_retry = @ + 1] = n
      BY <1>1 DEF SyncState
  <2> HIDE DEF n
  <2>3. CASE t = NoTransfer
    <3>1. RetryCurrent(s) = Result(n, {})
        BY <1>3, <2>2, <2>3 DEF RetryCurrent
    <3> QED
        BY <2>1, <2>3, <3>1 DEF Fetches, Result
  <2>4. CASE t # NoTransfer
    <3> DEFINE m == [n EXCEPT !.current_transfer = Unlinked(t)]
    <3>1. RetryCurrent(s).state = m /\ RetryCurrent(s).fetch = {t.path}
        BY <1>3, <2>1, <2>2, <2>4 DEF RetryCurrent, SyncState, Result
    <3>2. t \in ActiveTransfer
        BY <1>1, <2>4 DEF SyncState
    <3>3. Unlinked(t) \in ActiveTransfer /\ Unlinked(t).path = t.path
        BY <3>2 DEF Unlinked, ActiveTransfer, FileHandle
    <3>4. Unlinked(t) # NoTransfer
        BY <3>3, TransferFields
    <3>5. m.current_transfer = Unlinked(t)
        BY <2>1, <3>3, WithTransfer
    <3> HIDE DEF m, t
    <3> QED
        BY <3>1, <3>3, <3>4, <3>5 DEF Fetches
  <2> QED
      BY <2>3, <2>4
<1> QED
    BY <1>2, <1>3

\* start_pull asks for the file when nothing is active, and otherwise for none.
LEMMA StartPullFetches ==
    ASSUME NEW s, SyncInv(s), NEW p \in Peer, NEW path \in Path
    PROVE  LET r == StartPull(s, p, path) IN
           \/ s.current_transfer = NoTransfer /\ Fetches(r)
           \/ r.fetch = {} /\ r.state.current_transfer = s.current_transfer
<1> DEFINE job == [peer |-> p, path |-> path]
           r == StartPull(s, p, path)
<1>1. job \in Job /\ s \in SyncState /\ s.queued_pulls \in Seq(Job)
    BY DEF Job, SyncInv, SyncState
<1>2. CASE IsPending(s, p, path)
    BY <1>2 DEF StartPull, Result
<1>3. CASE ~IsPending(s, p, path) /\ s.current_transfer = NoTransfer
  <2>1. /\ r.state = [s EXCEPT !.current_transfer = Opening(job), !.current_retry = 0]
        /\ r.fetch = {path}
      BY <1>3 DEF StartPull, Result
  <2> HIDE DEF r
  <2>2. r.state.current_transfer = Opening(job)
      BY <1>1, <2>1 DEF SyncState
  <2>3. Opening(job) # NoTransfer /\ Opening(job).path = path
      BY <1>1, OpeningTransfer DEF Opening
  <2>4. Fetches(r)
      BY <2>1, <2>2, <2>3 DEF Fetches
  <2> QED
      BY <1>3, <2>4 DEF r
<1>4. CASE ~IsPending(s, p, path) /\ s.current_transfer # NoTransfer
  <2>1. /\ r.state = [s EXCEPT !.queued_pulls = Append(s.queued_pulls, job)]
        /\ r.fetch = {}
      BY <1>1, <1>4 DEF StartPull, Result, SyncState
  <2>2. r.state.current_transfer = s.current_transfer
      BY <1>1, <2>1, WithQueue
  <2> QED
      BY <2>1, <2>2
<1> QED
    BY <1>2, <1>3, <1>4

\* Spending one of the bounds leaves the other counters alone.
LEMMA Spending ==
    ASSUME IInv, NEW field \in {"edits", "announces", "links", "closes", "failures", "ioErrors",
                         "dbErrors"},
           Spend(field)
    PROVE  /\ used'.closes   = (IF field = "closes" THEN used.closes + 1 ELSE used.closes)
           /\ used'.failures = (IF field = "failures" THEN used.failures + 1 ELSE used.failures)
           /\ used'.ioErrors = (IF field = "ioErrors" THEN used.ioErrors + 1 ELSE used.ioErrors)
           /\ used.closes \in Nat /\ used.failures \in Nat /\ used.ioErrors \in Nat
BY DEF IInv, TypeOK, Spend, Budget

-----------------------------------------------------------------------------
(* The active transfer is carried. *)

Opens == {"FetchFile", "FileStart", "NotFound"}

\* Without an open and linked temp file, an exchange that opens the file is needed: a
\* chunk would be refused or lost.  This is what makes TransferCarried inductive.
Carries(e, s) ==
    /\ e.kind \in IF s.current_transfer.file = "linked" THEN TransferKinds ELSE Opens
    /\ e.path = s.current_transfer.path

Steady == used.closes = 0 /\ used.ioErrors = 0

Carried == Steady /\ alive /\ sync.current_transfer # NoTransfer
           => \E e \in BagToSet(net) : Carries(e, sync)

\* Each exchange in progress is there at least once.
Counted == used.closes = 0 => IsABag(net)

CarryInv == Counted /\ Carried

\* n has the active transfer of s, as far as Carries looks at it.
Same(s, n) == n.current_transfer # NoTransfer =>
                 /\ s.current_transfer # NoTransfer
                 /\ n.current_transfer.file = s.current_transfer.file
                 /\ n.current_transfer.path = s.current_transfer.path

\* The exchange that carries the transfer stays, and the transfer too.
LEMMA KeepsCarrier ==
    ASSUME Carried, Steady' => Steady, alive' => alive,
           NEW gone, \A e \in gone : ~Carries(e, sync),
           BagToSet(net) \ gone \subseteq BagToSet(net)',
           NEW n, sync' = n, Same(sync, n)
    PROVE  Carried'
<1> SUFFICES ASSUME Steady', alive', n.current_transfer # NoTransfer
             PROVE  \E e \in BagToSet(net)' : Carries(e, n)
    BY DEF Carried, Carries
<1>1. PICK e \in BagToSet(net) : Carries(e, sync)
    BY DEF Carried, Same
<1>2. Carries(e, n)
    BY <1>1 DEF Carries, Same
<1> QED
    BY <1>1, <1>2

\* The file of the new active transfer has just been asked for.
LEMMA FetchCarries ==
    ASSUME NEW p, NEW r, Fetches(r), sync' = r.state,
           {FetchFile(p, path) : path \in r.fetch} \subseteq BagToSet(net)'
    PROVE  Carried'
<1> SUFFICES ASSUME r.state.current_transfer # NoTransfer
             PROVE  \E e \in BagToSet(net)' : Carries(e, r.state)
    BY DEF Carried, Carries
<1> DEFINE e == FetchFile(p, r.state.current_transfer.path)
<1>1. r.fetch = {r.state.current_transfer.path}
    BY DEF Fetches
<1>2. e \in BagToSet(net)'
    BY <1>1
<1>3. Carries(e, r.state)
    BY DEF Carries, FetchFile, Opens, TransferKinds
<1> QED
    BY <1>2, <1>3

\* An exchange that is there and carries the transfer of n.
LEMMA NewCarrier ==
    ASSUME NEW n, sync' = n, NEW x \in BagToSet(net)', Carries(x, n)
    PROVE  Carried'
BY DEF Carried, Carries

\* A handler that answers with the result of a SyncState operation.
LEMMA ApplyCarries ==
    ASSUME CarryInv, used'.closes = 0 => used.closes = 0,
           NEW e \in BagToSet(net), NEW r, Fetches(r), Apply(e, r)
    PROVE  CarryInv'
<1>1. CASE used'.closes # 0
    BY <1>1 DEF CarryInv, Counted, Carried, Steady
<1>2. CASE used'.closes = 0
  <2>1. IsABag(net)
      BY <1>2 DEF CarryInv, Counted
  <2> DEFINE es == {FetchFile(e.peer, path) : path \in r.fetch}
  <2>2. Becomes(e, es) /\ sync' = r.state
      BY DEF Apply
  <2> HIDE DEF es
  <2>3. IsABag(net)' /\ es \subseteq BagToSet(net)'
      BY <2>1, <2>2, BecomesBag
  <2>4. Carried'
      BY <2>2, <2>3, FetchCarries DEF es
  <2> QED
      BY <2>3, <2>4 DEF CarryInv, Counted
<1> QED
    BY <1>1, <1>2

\* A step that adds exchanges and leaves the transfer alone.
LEMMA SendCarries ==
    ASSUME CarryInv, used'.closes = 0 => used.closes = 0,
           used'.ioErrors = 0 => used.ioErrors = 0,
           alive' = alive, NEW n, sync' = n, Same(sync, n),
           NEW es, net' = net (+) SetToBag(es)
    PROVE  CarryInv'
<1>1. CASE used'.closes # 0
    BY <1>1 DEF CarryInv, Counted, Carried, Steady
<1>2. CASE used'.closes = 0
  <2>1. IsABag(net)
      BY <1>2 DEF CarryInv, Counted
  <2>2. IsABag(net)' /\ BagToSet(net)' = BagToSet(net) \cup es
      BY <2>1, SendBag
  <2> DEFINE gone == {}
  <2>3. /\ BagToSet(net) \ gone \subseteq BagToSet(net)'
        /\ \A e \in gone : ~Carries(e, sync)
      BY <2>2
  <2>4. Steady' => Steady
      BY DEF Steady
  <2>5. Carried /\ (alive' => alive)
      BY DEF CarryInv
  <2> HIDE DEF gone
  <2>6. Carried'
      BY <2>3, <2>4, <2>5, KeepsCarrier
  <2> QED
      BY <2>2, <2>6 DEF CarryInv, Counted
<1> QED
    BY <1>1, <1>2

\* A handler that consumes an exchange which does not carry the transfer.
LEMMA ConsumeCarries ==
    ASSUME CarryInv, used'.closes = 0 => used.closes = 0,
           used'.ioErrors = 0 => used.ioErrors = 0,
           alive' = alive, NEW n, sync' = n, Same(sync, n),
           NEW e \in BagToSet(net), ~Carries(e, sync) \/ sync.current_transfer = NoTransfer,
           NEW es, Becomes(e, es)
    PROVE  CarryInv'
<1>1. CASE used'.closes # 0
    BY <1>1 DEF CarryInv, Counted, Carried, Steady
<1>2. CASE used'.closes = 0
  <2>1. IsABag(net)
      BY <1>2 DEF CarryInv, Counted
  <2>2. IsABag(net)' /\ BagToSet(net) \ {e} \subseteq BagToSet(net)'
      BY <2>1, BecomesBag
  <2>3. Steady' => Steady
      BY DEF Steady
  <2>4. CASE sync.current_transfer = NoTransfer
    <3>1. n.current_transfer = NoTransfer
        BY <2>4 DEF Same
    <3> QED
        BY <2>2, <3>1 DEF CarryInv, Counted, Carried
  <2>5. CASE ~Carries(e, sync)
    <3> DEFINE gone == {e}
    <3>2. /\ BagToSet(net) \ gone \subseteq BagToSet(net)'
          /\ \A x \in gone : ~Carries(x, sync)
        BY <2>2, <2>5
    <3>3. Carried /\ (alive' => alive)
        BY DEF CarryInv
    <3> HIDE DEF gone
    <3>1. Carried'
        BY <2>3, <3>2, <3>3, KeepsCarrier
    <3> QED
        BY <2>2, <3>1 DEF CarryInv, Counted
  <2> QED
      BY <2>4, <2>5
<1> QED
    BY <1>1, <1>2

\* A handler or a peer that answers with an exchange which carries the transfer if the one
\* it takes the place of does.
LEMMA ReplyCarries ==
    ASSUME CarryInv, used'.closes = 0 => used.closes = 0,
           used'.ioErrors = 0 => used.ioErrors = 0,
           alive' = alive, NEW n, sync' = n, Same(sync, n),
           NEW e \in BagToSet(net), NEW x, Carries(e, sync) => Carries(x, sync),
           Becomes(e, {x})
    PROVE  CarryInv'
<1>1. CASE sync.current_transfer = NoTransfer \/ ~Carries(e, sync)
    BY <1>1, ConsumeCarries
<1>2. CASE sync.current_transfer # NoTransfer /\ Carries(e, sync)
  <2>1. CASE used'.closes # 0
      BY <2>1 DEF CarryInv, Counted, Carried, Steady
  <2>2. CASE used'.closes = 0
    <3>1. IsABag(net)
        BY <2>2 DEF CarryInv, Counted
    <3>2. IsABag(net)' /\ x \in BagToSet(net)'
        BY <3>1, BecomesBag
    <3>3. CASE n.current_transfer = NoTransfer
        BY <3>2, <3>3 DEF CarryInv, Counted, Carried
    <3>4. CASE n.current_transfer # NoTransfer
      <4>1. Carries(x, n)
          BY <1>2, <3>4 DEF Same, Carries
      <4>2. Carried'
          BY <3>2, <4>1, NewCarrier
      <4> QED
          BY <3>2, <4>2 DEF CarryInv, Counted
    <3> QED
        BY <3>3, <3>4
  <2> QED
      BY <2>1, <2>2
<1> QED
    BY <1>1, <1>2

\* A state has its own transfer.
LEMMA SameSelf == \A s : Same(s, s)
BY DEF Same

\* start_pull keeps the transfer that is active.
LEMMA StartPullCarries ==
    ASSUME IInv, CarryInv, NEW p \in Peer, NEW path \in Path,
           used' = used, alive' = alive,
           LET r == StartPull(sync, p, path) IN
           /\ sync' = r.state
           /\ \/ \E e \in BagToSet(net) : e.kind = "PeerEvent" /\ e.peer = p /\ Apply(e, r)
              \/ net' = net (+) SetToBag({FetchFile(p, x) : x \in r.fetch})
    PROVE  CarryInv'
<1> DEFINE r == StartPull(sync, p, path)
           es == {FetchFile(p, x) : x \in r.fetch}
<1>1. \/ sync.current_transfer = NoTransfer /\ Fetches(r)
      \/ r.fetch = {} /\ r.state.current_transfer = sync.current_transfer
    BY StartPullFetches DEF IInv
<1>2. sync' = r.state
    OBVIOUS
<1>3. ASSUME NEW e \in BagToSet(net), e.kind = "PeerEvent", e.peer = p, Apply(e, r)
      PROVE  CarryInv'
  <2>1. CASE Fetches(r)
    <3> HIDE DEF r
    <3> QED
        BY <1>3, <2>1, ApplyCarries
  <2>2. CASE r.state.current_transfer = sync.current_transfer
    <3>1. Same(sync, r.state)
        BY <2>2 DEF Same
    <3>2. ~Carries(e, sync)
        BY <1>3 DEF Carries, TransferKinds, Opens
    <3>3. Becomes(e, {FetchFile(e.peer, x) : x \in r.fetch})
        BY <1>3 DEF Apply
    <3> HIDE DEF r
    <3> QED
        BY <1>2, <3>1, <3>2, <3>3, ConsumeCarries
  <2> QED
      BY <1>1, <2>1, <2>2
<1>4. ASSUME net' = net (+) SetToBag(es)
      PROVE  CarryInv'
  <2> HIDE DEF r
  <2>1. CASE used.closes # 0
      BY <2>1 DEF CarryInv, Counted, Carried, Steady
  <2>2. CASE used.closes = 0 /\ Fetches(r)
    <3> HIDE DEF es
    <3>1. IsABag(net)' /\ es \subseteq BagToSet(net)'
        BY <1>4, <2>2, SendBag DEF CarryInv, Counted
    <3>2. Carried'
        BY <1>2, <2>2, <3>1, FetchCarries DEF es
    <3> QED
        BY <3>1, <3>2 DEF CarryInv, Counted
  <2>3. CASE r.state.current_transfer = sync.current_transfer
    <3>1. Same(sync, r.state)
        BY <2>3 DEF Same
    <3> HIDE DEF es
    <3> QED
        BY <1>2, <1>4, <3>1, SendCarries
  <2> QED
      BY <1>1, <2>1, <2>2, <2>3
<1> QED
    BY <1>3, <1>4

\* A peer's answer carries the transfer if the request did.
LEMMA ServeCarries ==
    ASSUME IInv, CarryInv, NEW e \in BagToSet(net), Serve(e)
    PROVE  CarryInv'
<1>1. sync' = sync /\ used' = used /\ alive' = alive /\ Same(sync, sync)
    BY SameSelf DEF Serve, world
<1>2. ASSUME NEW x, Becomes(e, {x}), Carries(e, sync) => Carries(x, sync)
      PROVE  CarryInv'
    BY <1>1, <1>2, ReplyCarries
<1>3. CASE ServeManifest(e) \/ ServeEvent(e)
  <2>1. ~Carries(e, sync)
      BY <1>3 DEF ServeManifest, ServeEvent, Carries, TransferKinds, Opens
  <2> QED
      BY <1>2, <1>3, <2>1 DEF ServeManifest, ServeEvent
<1>4. CASE ServeFetchFile(e)
  <2>1. PICK x : /\ Becomes(e, {x})
                 /\ \E c : x = NotFound(e.peer, e.path) \/ x = FileStart(e.peer, e.path, c)
      BY <1>4 DEF ServeFetchFile
  <2>2. x.kind \in Opens \cap TransferKinds /\ x.path = e.path
      BY <2>1 DEF NotFound, FileStart, Opens, TransferKinds
  <2>3. Carries(e, sync) => Carries(x, sync)
      BY <2>2 DEF Carries
  <2> QED
      BY <1>2, <2>1, <2>3
<1>5. CASE ServeFetchFileChunk(e)
  <2>1. PICK x : /\ Becomes(e, {x})
                 /\ \/ x = NotFound(e.peer, e.path)
                    \/ \E d, o, l : x = FileChunk(e.peer, e.path, d, o, l)
    <3> DEFINE c == shared[e.peer][e.path]
               upto == IF e.offset + CHUNK_SIZE < Len(c)
                       THEN e.offset + CHUNK_SIZE ELSE Len(c)
               y == IF c = NoFile \/ (e.offset >= Len(c) /\ Len(c) > 0)
                    THEN NotFound(e.peer, e.path)
                    ELSE FileChunk(e.peer, e.path, SubSeq(c, e.offset + 1, upto),
                                   e.offset, upto >= Len(c))
    <3>1. Becomes(e, {y})
        BY <1>5 DEF ServeFetchFileChunk
    <3>2. \/ y = NotFound(e.peer, e.path)
          \/ \E d, o, l : y = FileChunk(e.peer, e.path, d, o, l)
        OBVIOUS
    <3> HIDE DEF y
    <3> QED
        BY <3>1, <3>2
  <2>2. x.kind \in TransferKinds /\ x.path = e.path
      BY <2>1 DEF NotFound, FileChunk, TransferKinds
  <2>3. Carries(e, sync) => Carries(x, sync)
      BY <1>5, <2>2 DEF Carries, ServeFetchFileChunk, Opens
  <2> QED
      BY <1>2, <2>1, <2>3
<1> QED
    BY <1>3, <1>4, <1>5 DEF Serve

\* A FileStart links the temp file, and the request for the first chunk carries it.
LEMMA FileStartCarries ==
    ASSUME IInv, CarryInv, NEW e \in BagToSet(net), HandleFileStart(e),
           used' = used, alive' = alive
    PROVE  CarryInv'
<1> DEFINE x == FetchFileChunk(e.peer, e.path, 0)
<1>1. CASE used.closes # 0
    BY <1>1 DEF CarryInv, Counted, Carried, Steady
<1>2. CASE used.closes = 0
  <2>1. IsABag(net)' /\ x \in BagToSet(net)'
    <3>1. Becomes(e, {x})
        BY DEF HandleFileStart
    <3> HIDE DEF x
    <3> QED
        BY <1>2, <3>1, BecomesBag DEF CarryInv, Counted
  <2>2. sync.current_transfer \in ActiveTransfer /\ sync.current_transfer.path = e.path
      BY DEF HandleFileStart, IsCurrent, IInv, TypeOK, SyncState
  <2>3. sync'.current_transfer.path = e.path
      BY <2>2 DEF HandleFileStart, IInv, TypeOK, SyncState, ActiveTransfer
  <2>4. x.kind = "FetchFileChunk" /\ x.path = e.path
      BY DEF FetchFileChunk
  <2>5. sync'.current_transfer.file = "linked"
      BY <2>2 DEF HandleFileStart, IInv, TypeOK, SyncState, ActiveTransfer
  <2>6. \A n : n = sync' => Carries(x, n)
      BY <2>3, <2>4, <2>5 DEF Carries, TransferKinds
  <2> HIDE DEF x
  <2>7. Carried'
      BY <2>1, <2>6, NewCarrier
  <2> QED
      BY <2>1, <2>7 DEF CarryInv, Counted
<1> QED
    BY <1>1, <1>2

\* Writing a chunk keeps the path and the handle of the transfer.
LEMMA WritingSame ==
    ASSUME IInv, NEW e \in BagToSet(net), e.kind = "FileChunk", IsCurrent(sync, e.path)
    PROVE  Same(sync, Writing(e))
<1> DEFINE c == sync.current_transfer
           t == [c EXCEPT !.written = Extended(e)]
<1>1. /\ Extended(e) \in Seq(Block) /\ c \in ActiveTransfer /\ c # NoTransfer
      /\ sync \in SyncState
    BY WritingInv DEF IInv, TypeOK
<1>2. t \in ActiveTransfer /\ t.file = c.file /\ t.path = c.path
    BY <1>1 DEF ActiveTransfer
<1>3. Writing(e) = [sync EXCEPT !.current_transfer = t]
    BY <1>1 DEF Writing, SyncState
<1>4. Writing(e).current_transfer = t
  <2> HIDE DEF t
  <2> QED
      BY <1>1, <1>2, <1>3, WithTransfer
<1> QED
    BY <1>1, <1>2, <1>4 DEF Same

\* A chunk: the next one is asked for, or the file again, or that of the next pull; a
\* chunk for a temp file that is gone leaves the exchange that opens it anew.
LEMMA FileChunkCarries ==
    ASSUME IInv, CarryInv, NEW e \in BagToSet(net), HandleFileChunk(e), used' = used
    PROVE  CarryInv'
<1>1. e.kind = "FileChunk" /\ IsCurrent(sync, e.path) /\ SyncInv(sync)
    BY DEF HandleFileChunk, IInv
<1>2. SyncInv(Writing(e)) /\ Same(sync, Writing(e)) /\ Same(sync, sync)
    BY <1>1, WritingInv, WritingSame, SameSelf
<1>3. CASE ChunkPanics(e)
  <2>1. Becomes(e, {}) /\ alive' = FALSE
      BY <1>3 DEF ChunkPanics
  <2>2. Counted'
      BY <2>1, BecomesBag DEF CarryInv, Counted
  <2> QED
      BY <2>1, <2>2 DEF CarryInv, Carried
<1>4. CASE ChunkAppended(e)
  <2> DEFINE x == FetchFileChunk(e.peer, e.path, e.offset + Len(e.data))
  <2>1. Becomes(e, {x}) /\ sync' = Writing(e) /\ alive' = alive
      BY <1>4 DEF ChunkAppended
  <2>2. Carries(e, sync) => Carries(x, sync)
      BY <1>1 DEF Carries, FetchFileChunk, Opens, TransferKinds
  <2> HIDE DEF x
  <2> QED
      BY <1>2, <2>1, <2>2, ReplyCarries
<1>5. CASE ChunkMismatch(e)
  <2>1. Fetches(RetryCurrent(Writing(e)))
      BY <1>2, RetryFetches
  <2> QED
      BY <1>5, <2>1, ApplyCarries DEF ChunkMismatch
<1>6. CASE ChunkInstalled(e)
  <2>1. Fetches(FinishTransfer(sync))
      BY <1>1, StartNextFetches DEF FinishTransfer, SyncInv
  <2> QED
      BY <1>6, <2>1, ApplyCarries DEF ChunkInstalled
<1>7. CASE ChunkTempMissing(e)
  <2>1. Becomes(e, {}) /\ sync' = Writing(e) /\ alive' = alive
      BY <1>7 DEF ChunkTempMissing
  <2>2. ~Carries(e, sync)
      BY <1>1, <1>7 DEF ChunkTempMissing, Carries, Opens
  <2> QED
      BY <1>2, <2>1, <2>2, ConsumeCarries
<1> QED
    BY <1>3, <1>4, <1>5, <1>6, <1>7 DEF HandleFileChunk

\* Any event or response the loop handles.
LEMMA HandleCarries ==
    ASSUME IInv, CarryInv, NEW e \in BagToSet(net), Handle(e)
    PROVE  CarryInv'
<1>1. used' = used /\ Same(sync, sync) /\ e \in Exchange /\ e.peer \in Peer /\ SyncInv(sync)
    BY SameSelf, ExchangeFields DEF Handle, world, IInv, TypeOK
<1>2. CASE HandleIncomingEdit(e)
  <2>1. e.path \in Path
      BY <1>1, <1>2, ExchangeFields DEF HandleIncomingEdit
  <2>2. /\ Apply(e, StartPull(sync, e.peer, e.path)) /\ alive' = alive
        /\ sync' = StartPull(sync, e.peer, e.path).state /\ e.kind = "PeerEvent"
      BY <1>2 DEF HandleIncomingEdit, Apply
  <2> QED
      BY <1>1, <2>1, <2>2, StartPullCarries
<1>3. ASSUME Becomes(e, {}), sync' = sync, alive' = alive,
             ~Carries(e, sync) \/ sync.current_transfer = NoTransfer
      PROVE  CarryInv'
    BY <1>1, <1>3, ConsumeCarries
<1>4. CASE HandleIncomingDelete(e) \/ HandleManifest(e) \/ HandleAck(e)
  <2>1. ~Carries(e, sync)
      BY <1>4 DEF HandleIncomingDelete, HandleManifest, HandleAck, Carries, TransferKinds, Opens
  <2> QED
      BY <1>3, <1>4, <2>1 DEF HandleIncomingDelete, HandleManifest, HandleAck, Ignore
<1>5. CASE IgnoreStale(e)
  <2>1. ~Carries(e, sync) \/ sync.current_transfer = NoTransfer
      BY <1>5 DEF IgnoreStale, IsCurrent, Carries
  <2> QED
      BY <1>3, <1>5, <2>1 DEF IgnoreStale, Ignore
<1>6. CASE HandleNotFound(e)
  <2>1. Fetches(RetryCurrent(sync))
      BY <1>1, RetryFetches
  <2> QED
      BY <1>1, <1>6, <2>1, ApplyCarries DEF HandleNotFound
<1>7. CASE HandleFileStart(e)
    BY <1>1, <1>7, FileStartCarries DEF HandleFileStart
<1>8. CASE HandleFileChunk(e)
    BY <1>1, <1>8, FileChunkCarries
<1> QED
    BY <1>2, <1>4, <1>5, <1>6, <1>7, <1>8 DEF Handle

\* Every step preserves it: one case per action of Next.
LEMMA StepCarries == IInv /\ CarryInv /\ [Next]_vars => CarryInv'
<1> SUFFICES ASSUME IInv, CarryInv, [Next]_vars PROVE CarryInv'
    OBVIOUS
<1>1. Same(sync, sync)
    BY SameSelf
<1>2. CASE UNCHANGED vars
    BY <1>2 DEF vars, CarryInv, Counted, Carried, Carries, Steady, IsABag, BagToSet
<1>3. ASSUME NEW es, net' = net (+) SetToBag(es), sync' = sync, alive' = alive,
             used'.closes = used.closes, used'.ioErrors = used.ioErrors
      PROVE  CarryInv'
    BY <1>1, <1>3, SendCarries
<1>4. ASSUME NEW p \in Peer, NEW path \in Path, NEW c \in Content(path), PeerWrites(p, path, c)
      PROVE  CarryInv'
  <2>1. used'.closes = used.closes /\ used'.ioErrors = used.ioErrors
      BY <1>4, Spending DEF PeerWrites
  <2> DEFINE es == {PeerEvent(p, path, IF c = NoFile THEN "Deleted" ELSE "Edited")}
  <2>2. CASE net' = net
      BY <1>4, <2>1, <2>2
      DEF PeerWrites, CarryInv, Counted, Carried, Carries, Steady, IsABag, BagToSet
  <2>3. CASE net' = net (+) SetToBag(es)
    <3> HIDE DEF es
    <3> QED
        BY <1>3, <1>4, <2>1, <2>3 DEF PeerWrites
  <2> QED
      BY <1>4, <2>2, <2>3 DEF PeerWrites
<1>5. ASSUME NEW p \in Peer, ConnectionEstablished(p)
      PROVE  CarryInv'
  <2>1. used'.closes = used.closes /\ used'.ioErrors = used.ioErrors
      BY <1>5, Spending DEF ConnectionEstablished
  <2> QED
      BY <1>3, <1>5, <2>1 DEF ConnectionEstablished
<1>6. ASSUME NEW p \in Peer, NEW lost, ConnectionClosed(p, lost)
      PROVE  CarryInv'
  <2>1. used'.closes # 0
      BY <1>6, Spending DEF ConnectionClosed
  <2> QED
      BY <2>1 DEF CarryInv, Counted, Carried, Steady
<1>7. CASE AnnounceChange
  <2>1. used'.closes = used.closes /\ used'.ioErrors = used.ioErrors
      BY <1>7, Spending DEF AnnounceChange
  <2> DEFINE es == {EventRequest(p) : p \in connected_peers}
  <2>2. net' = net (+) SetToBag(es)
      BY <1>7 DEF AnnounceChange
  <2> HIDE DEF es
  <2> QED
      BY <1>3, <1>7, <2>1, <2>2 DEF AnnounceChange
<1>8. CASE ServeSome
    BY <1>8, ServeCarries DEF ServeSome
<1>9. ASSUME NEW a \in todo, ApplyAction(a)
      PROVE  CarryInv'
  <2>1. a.peer \in Peer /\ a.path \in Path
      BY DEF IInv, TypeOK, SyncAction
  <2>2. used' = used /\ alive' = alive
      BY <1>9 DEF ApplyAction, world
  <2>3. CASE a.action = "Pull"
    <3>1. LET r == StartPull(sync, a.peer, a.path) IN
          /\ sync' = r.state
          /\ net' = net (+) SetToBag({FetchFile(a.peer, x) : x \in r.fetch})
        BY <1>9, <2>3 DEF ApplyAction
    <3> QED
        BY <2>1, <2>2, <3>1, StartPullCarries
  <2>4. CASE UNCHANGED <<sync, net>>
      BY <2>2, <2>4 DEF CarryInv, Counted, Carried, Carries, Steady, IsABag, BagToSet
  <2> QED
      BY <1>9, <2>3, <2>4 DEF ApplyAction
<1>10. ASSUME NEW e \in BagToSet(net), OutboundFailure(e)
       PROVE  CarryInv'
  <2>1. used'.closes = used.closes
      BY <1>10, Spending DEF OutboundFailure
  <2>2. Fetches(RetryCurrent(sync))
      BY RetryFetches DEF IInv
  <2> QED
      BY <1>10, <2>1, <2>2, ApplyCarries DEF OutboundFailure
<1>11. ASSUME NEW e \in BagToSet(net), FileSystemError(e)
       PROVE  CarryInv'
  <2>1. used'.ioErrors # 0 /\ used'.closes = used.closes
      BY <1>11, Spending DEF FileSystemError
  <2>2. Becomes(e, {})
      BY <1>11 DEF FileSystemError
  <2>3. Counted'
      BY <2>1, <2>2, BecomesBag DEF CarryInv, Counted
  <2> QED
      BY <2>1, <2>3 DEF CarryInv, Carried, Steady
<1>12. CASE HandleSome
    BY <1>9, <1>12, HandleCarries DEF HandleSome
<1>13. ASSUME NEW e \in BagToSet(net), ManifestUnread(e)
       PROVE  CarryInv'
  <2>1. used'.closes = used.closes /\ used'.ioErrors = used.ioErrors
      BY <1>13, Spending DEF ManifestUnread
  <2>2. ~Carries(e, sync)
      BY <1>13 DEF ManifestUnread, Carries, TransferKinds, Opens
  <2> QED
      BY <1>1, <1>13, <2>1, <2>2, ConsumeCarries DEF ManifestUnread
<1> QED
    BY <1>2, <1>4, <1>5, <1>6, <1>7, <1>8, <1>10, <1>11, <1>12, <1>13 DEF Next, FailSome

\* The invariant holds when the task starts, and in every reachable state.
LEMMA CarryInvariance == Spec => []CarryInv
<1>1. Init => CarryInv
    BY DEF Init, CarryInv, Counted, Carried, IsABag, EmptyBag, SetToBag
<1>2. IInv /\ CarryInv /\ [Next]_vars => CarryInv'
    BY StepCarries
<1> QED
    BY <1>1, <1>2, Invariance, PTL DEF Spec

\* As long as no connection was closed and no error of the file system was dropped, an
\* exchange of the active path is in progress, however many requests fail, time out or
\* are answered late: each handler of p2p.rs that ends an exchange of the transfer starts
\* the next one.  The first condition is needed: transfer_cancel_dropped shows a closed
\* connection that leaves the next transfer without a request.  So is the second: the
\* branches of FileStart and FileChunk ignore an error.
THEOREM ActiveTransferIsCarried ==
    Spec => [](used.closes = 0 /\ used.ioErrors = 0 => TransferCarried)
<1>1. CarryInv => (used.closes = 0 /\ used.ioErrors = 0 => TransferCarried)
    BY DEF CarryInv, Carried, Steady, Carries, TransferCarried, Opens, TransferKinds
<1> QED
    BY <1>1, CarryInvariance, PTL

-----------------------------------------------------------------------------
(* One stream, which continues the temp file. *)

Undisturbed == used.failures = 0 /\ used.closes = 0

\* Without a closed connection nothing fails by itself, and only linked peers are asked.
Linked == /\ \A e \in BagToSet(net) : e.kind # "OutboundFailure" /\ links[e.peer] > 0
          /\ \A p \in connected_peers : links[p] > 0
          /\ \A a \in todo : links[a.peer] > 0

\* e is of the active path, and its chunk is the next one.
Continues(e, s) ==
    /\ s.current_transfer # NoTransfer
    /\ e.path = s.current_transfer.path
    /\ e.kind \in {"FetchFileChunk", "FileChunk"} => e.offset = Len(s.current_transfer.written)

Stream == /\ \A d, e \in TransferExchanges : d = e
          /\ \A e \in TransferExchanges : net[e] = 1 /\ Continues(e, sync)

Calm == IsABag(net) /\ Linked /\ Stream

OneStream == Undisturbed => Calm

\* A step that adds the exchanges of es for linked peers.
LEMMA LinkedStep ==
    ASSUME Linked, \A p : links[p] > 0 => links'[p] > 0,
           NEW es, BagToSet(net)' \subseteq BagToSet(net) \cup es,
           \A x \in es : x.kind # "OutboundFailure" /\ links'[x.peer] > 0,
           \A p \in connected_peers' : links'[p] > 0,
           \A a \in todo' : links'[a.peer] > 0
    PROVE  Linked'
BY DEF Linked

\* A step that takes the exchanges of gone and adds those of es: at most one of the
\* transfer is left, and it continues what the step made of the temp file.
LEMMA StreamStep ==
    ASSUME Stream, NEW n, sync' = n, NEW gone, NEW es,
           BagToSet(net)' \subseteq (BagToSet(net) \ gone) \cup es,
           \A x \in BagToSet(net) \ gone :
              x.kind \in TransferKinds /\ x \notin es => net'[x] = net[x] /\ Continues(x, n),
           \A x \in es : x.kind \in TransferKinds => net'[x] = 1 /\ Continues(x, n),
           \A x, y \in (BagToSet(net) \ gone) \cup es :
              x.kind \in TransferKinds /\ y.kind \in TransferKinds => x = y
    PROVE  Stream'
<1>1. ASSUME NEW x \in BagToSet(net)', x.kind \in TransferKinds
      PROVE  net'[x] = 1 /\ Continues(x, n)
  <2>1. CASE x \in es
      BY <1>1, <2>1
  <2>2. CASE x \notin es
    <3>1. x \in BagToSet(net) \ gone
        BY <2>2
    <3>2. x \in TransferExchanges
        BY <1>1, <3>1 DEF TransferExchanges
    <3> QED
        BY <1>1, <2>2, <3>1, <3>2 DEF Stream
  <2> QED
      BY <2>1, <2>2
<1>2. \A d, e \in BagToSet(net)' : d.kind \in TransferKinds /\ e.kind \in TransferKinds => d = e
    OBVIOUS
<1> QED
    BY <1>1, <1>2 DEF Stream, TransferExchanges, Continues

\* The only exchange of the transfer becomes at most one that continues it.
LEMMA StreamTurns ==
    ASSUME IInv, Calm, NEW e \in BagToSet(net), e.kind \in TransferKinds,
           NEW es, Becomes(e, es), \A x, y \in es : x = y,
           NEW n, sync' = n,
           \A x \in es : /\ x.kind \in TransferKinds /\ x.peer = e.peer
                        /\ Continues(x, n),
           links' = links, connected_peers' = connected_peers, todo' = todo
    PROVE  Calm'
<1>1. e \in TransferExchanges /\ net[e] = 1 /\ \A x \in TransferExchanges : x = e
    BY DEF TransferExchanges, Calm, Stream
<1>2. /\ IsABag(net)'
      /\ BagToSet(net)' \subseteq (BagToSet(net) \ {e}) \cup es
      /\ \A x \in BagToSet(net) \ {e} : x \notin es => net'[x] = net[x]
      /\ \A x \in es : (x \notin BagToSet(net) \/ (x = e /\ net[e] = 1)) => net'[x] = 1
    BY <1>1, BecomesBag DEF Calm
<1>3. \A x \in BagToSet(net) \ {e} : x.kind \notin TransferKinds
    BY <1>1 DEF TransferExchanges
<1>4. \A x \in es : net'[x] = 1
    BY <1>1, <1>2, <1>3
<1>5. Stream'
  <2> DEFINE gone == {e}
  <2>1. /\ BagToSet(net)' \subseteq (BagToSet(net) \ gone) \cup es
        /\ \A x \in BagToSet(net) \ gone : x.kind \notin TransferKinds
      BY <1>2, <1>3
  <2>2. Stream
      BY DEF Calm
  <2> HIDE DEF gone
  <2> QED
      BY <1>4, <2>1, <2>2, StreamStep
<1>6. Linked'
  <2>1. links[e.peer] > 0 /\ Linked
      BY DEF Calm, Linked
  <2>2. \A x \in es : x.kind # "OutboundFailure" /\ links'[x.peer] > 0
      BY <2>1 DEF TransferKinds
  <2>3. BagToSet(net)' \subseteq BagToSet(net) \cup es
      BY <1>2
  <2>4. (\A p \in connected_peers' : links'[p] > 0) /\ (\A a \in todo' : links'[a.peer] > 0)
      BY <2>1 DEF Linked
  <2> QED
      BY <2>1, <2>2, <2>3, <2>4, LinkedStep
<1> QED
    BY <1>2, <1>5, <1>6 DEF Calm

\* A handler that answers an exchange of the transfer with the result of a SyncState
\* operation.
LEMMA ApplyTurns ==
    ASSUME IInv, Calm, NEW e \in BagToSet(net), e.kind \in TransferKinds,
           NEW r, Fetches(r), Apply(e, r),
           links' = links, connected_peers' = connected_peers, todo' = todo
    PROVE  Calm'
<1> DEFINE es == {FetchFile(e.peer, path) : path \in r.fetch}
<1>1. Becomes(e, es) /\ sync' = r.state
    BY DEF Apply
<1>2. \A x, y \in es : x = y
    BY DEF Fetches
<1>3. \A x \in es : /\ x.kind \in TransferKinds /\ x.peer = e.peer
                   /\ Continues(x, r.state)
    BY DEF Fetches, FetchFile, TransferKinds, Continues
<1> HIDE DEF es
<1> QED
    BY <1>1, <1>2, <1>3, StreamTurns

\* Nothing is taken from or added to the exchanges of the transfer.
LEMMA StreamStays ==
    ASSUME IInv, Linked, Stream, IsABag(net)', NEW es,
           BagToSet(net)' \subseteq BagToSet(net) \cup es,
           \A x \in BagToSet(net) : x.kind \in TransferKinds => net'[x] = net[x],
           \A x \in es : /\ x.kind \notin TransferKinds /\ x.kind # "OutboundFailure"
                        /\ links'[x.peer] > 0,
           NEW n, sync' = n, n.current_transfer = sync.current_transfer,
           \A p : links[p] > 0 => links'[p] > 0,
           \A p \in connected_peers' : links'[p] > 0,
           \A a \in todo' : links'[a.peer] > 0
    PROVE  Calm'
<1>1. Linked'
    BY LinkedStep
<1>2. Stream'
  <2> DEFINE gone == {}
  <2>1. BagToSet(net)' \subseteq (BagToSet(net) \ gone) \cup es
      OBVIOUS
  <2>2. \A x \in BagToSet(net) \ gone :
           x.kind \in TransferKinds /\ x \notin es => net'[x] = net[x] /\ Continues(x, n)
      BY DEF Stream, TransferExchanges, Continues
  <2>3. \A x, y \in (BagToSet(net) \ gone) \cup es :
           x.kind \in TransferKinds /\ y.kind \in TransferKinds => x = y
      BY DEF Stream, TransferExchanges
  <2>4. \A x \in es : x.kind \in TransferKinds => net'[x] = 1 /\ Continues(x, n)
      OBVIOUS
  <2> HIDE DEF gone
  <2> QED
      BY <2>1, <2>2, <2>3, <2>4, StreamStep
<1> QED
    BY <1>1, <1>2 DEF Calm

\* A handler that takes an exchange which is not of the transfer, and sends nothing.
LEMMA ConsumeStays ==
    ASSUME IInv, Calm, NEW e \in BagToSet(net), e.kind \notin TransferKinds, Becomes(e, {}),
           NEW n, sync' = n, n.current_transfer = sync.current_transfer,
           links' = links, connected_peers' = connected_peers,
           \A a \in todo' : links'[a.peer] > 0
    PROVE  Calm'
<1> DEFINE es == {}
<1>1. Becomes(e, es)
    OBVIOUS
<1>2. \A x \in es : /\ x.kind \notin TransferKinds /\ x.kind # "OutboundFailure"
                   /\ links'[x.peer] > 0
    OBVIOUS
<1>3. \A x \in BagToSet(net) : x.kind \in TransferKinds => x \in BagToSet(net) \ {e} /\ x \notin es
    OBVIOUS
<1> HIDE DEF es
<1>4. /\ IsABag(net)' /\ BagToSet(net)' \subseteq BagToSet(net) \cup es
      /\ \A x \in BagToSet(net) \ {e} : x \notin es => net'[x] = net[x]
    BY <1>1, BecomesBag DEF Calm
<1>5. \A x \in BagToSet(net) : x.kind \in TransferKinds => net'[x] = net[x]
    BY <1>3, <1>4
<1>6. Linked /\ Stream /\ \A p \in connected_peers : links[p] > 0
    BY DEF Calm, Linked
<1> QED
    BY <1>2, <1>4, <1>5, <1>6, StreamStays

\* A peer that answers a request of something else.
LEMMA ReplyStays ==
    ASSUME IInv, Calm, NEW e \in BagToSet(net), e.kind \notin TransferKinds,
           NEW x, Becomes(e, {x}),
           x.kind \notin TransferKinds, x.kind # "OutboundFailure", x.peer = e.peer,
           sync' = sync, links' = links, connected_peers' = connected_peers, todo' = todo
    PROVE  Calm'
<1> DEFINE es == {x}
<1>1. Linked /\ Stream /\ links[e.peer] > 0
    BY DEF Calm, Linked
<1>2. \A y \in es : /\ y.kind \notin TransferKinds /\ y.kind # "OutboundFailure"
                   /\ links'[y.peer] > 0
    BY <1>1
<1>3. Becomes(e, es)
    OBVIOUS
<1> HIDE DEF es
<1>4. /\ IsABag(net)' /\ BagToSet(net)' \subseteq BagToSet(net) \cup es
      /\ \A y \in BagToSet(net) \ {e} : y \notin es => net'[y] = net[y]
    BY <1>3, BecomesBag DEF Calm
<1>5. \A y \in BagToSet(net) : y.kind \in TransferKinds => net'[y] = net[y]
    BY <1>2, <1>4
<1>6. (\A p \in connected_peers' : links'[p] > 0) /\ (\A a \in todo' : links'[a.peer] > 0)
    BY <1>1 DEF Linked
<1> QED
    BY <1>1, <1>2, <1>4, <1>5, <1>6, StreamStays

\* New exchanges that are not of the transfer.
LEMMA SendStays ==
    ASSUME IInv, Calm, NEW es, net' = net (+) SetToBag(es),
           \A x \in es : /\ x.kind \notin TransferKinds /\ x.kind # "OutboundFailure"
                        /\ links'[x.peer] > 0,
           NEW n, sync' = n, n.current_transfer = sync.current_transfer,
           \A p : links[p] > 0 => links'[p] > 0,
           \A p \in connected_peers' : links'[p] > 0,
           \A a \in todo' : links'[a.peer] > 0
    PROVE  Calm'
<1>1. /\ IsABag(net)' /\ BagToSet(net)' = BagToSet(net) \cup es
      /\ \A x \in BagToSet(net) : x \notin es => net'[x] = net[x]
    BY SendBag DEF Calm
<1>2. \A x \in BagToSet(net) : x.kind \in TransferKinds => net'[x] = net[x]
    BY <1>1
<1>3. BagToSet(net)' \subseteq BagToSet(net) \cup es
    BY <1>1
<1>4. Linked /\ Stream
    BY DEF Calm
<1> QED
    BY <1>1, <1>2, <1>3, <1>4, StreamStays

\* start_pull begins the stream when nothing is active, and otherwise sends nothing.
LEMMA StartPullCalm ==
    ASSUME IInv, Calm, NEW p \in Peer, NEW path \in Path, links[p] > 0,
           links' = links, connected_peers' = connected_peers,
           \A a \in todo' : links'[a.peer] > 0,
           LET r == StartPull(sync, p, path) IN
           /\ sync' = r.state
           /\ \/ \E e \in BagToSet(net) : e.kind = "PeerEvent" /\ e.peer = p /\ Apply(e, r)
              \/ net' = net (+) SetToBag({FetchFile(p, x) : x \in r.fetch})
    PROVE  Calm'
<1> DEFINE r == StartPull(sync, p, path)
           es == {FetchFile(p, x) : x \in r.fetch}
<1>1. \/ sync.current_transfer = NoTransfer /\ Fetches(r)
      \/ r.fetch = {} /\ r.state.current_transfer = sync.current_transfer
    BY StartPullFetches DEF IInv
<1>2. /\ sync' = r.state
      /\ \/ \E e \in BagToSet(net) : e.kind = "PeerEvent" /\ e.peer = p /\ Becomes(e, es)
         \/ net' = net (+) SetToBag(es)
    BY DEF Apply
<1>3. \A p2 \in connected_peers' : links'[p2] > 0
    BY DEF Calm, Linked
<1>4. CASE r.fetch = {} /\ r.state.current_transfer = sync.current_transfer
  <2>1. es = {}
      BY <1>4
  <2>2. ASSUME NEW e \in BagToSet(net), e.kind = "PeerEvent", Becomes(e, es)
        PROVE  Calm'
    <3>1. Becomes(e, {}) /\ e.kind \notin TransferKinds
        BY <2>1, <2>2 DEF TransferKinds
    <3> HIDE DEF r
    <3> QED
        BY <1>2, <1>4, <3>1, ConsumeStays
  <2>3. CASE net' = net (+) SetToBag(es)
    <3>1. \A x \in es : /\ x.kind \notin TransferKinds /\ x.kind # "OutboundFailure"
                       /\ links'[x.peer] > 0
        BY <2>1
    <3> HIDE DEF r, es
    <3> QED
        BY <1>2, <1>3, <1>4, <2>3, <3>1, SendStays
  <2> QED
      BY <1>2, <2>2, <2>3
<1>5. CASE sync.current_transfer = NoTransfer /\ Fetches(r)
  <2>1. \A x \in BagToSet(net) : x.kind \notin TransferKinds
      BY <1>5 DEF Calm, Stream, Continues, TransferExchanges
  <2>2. /\ \A x, y \in es : x = y
        /\ \A x \in es : /\ x.kind \in TransferKinds /\ x.peer = p /\ Continues(x, r.state)
    <3> HIDE DEF r
    <3> QED
        BY <1>5 DEF Fetches, FetchFile, TransferKinds, Continues
  <2>3. \A x \in es : x \notin BagToSet(net)
      BY <2>1, <2>2
  <2> HIDE DEF r, es
  <2>4. /\ IsABag(net)' /\ BagToSet(net)' \subseteq BagToSet(net) \cup es
        /\ \A x \in es : net'[x] = 1
    <3>1. CASE net' = net (+) SetToBag(es)
        BY <2>3, <3>1, SendBag DEF Calm
    <3>2. ASSUME NEW e \in BagToSet(net), Becomes(e, es)
          PROVE  /\ IsABag(net)' /\ BagToSet(net)' \subseteq BagToSet(net) \cup es
                 /\ \A x \in es : net'[x] = 1
        BY <2>3, <3>2, BecomesBag DEF Calm
    <3> QED
        BY <1>2, <3>1, <3>2
  <2>5. Stream'
    <3> DEFINE gone == {}
    <3>1. BagToSet(net)' \subseteq (BagToSet(net) \ gone) \cup es
        BY <2>4
    <3>2. Stream /\ sync' = r.state
        BY <1>2 DEF Calm
    <3>3. \A x, y \in (BagToSet(net) \ gone) \cup es :
             x.kind \in TransferKinds /\ y.kind \in TransferKinds => x = y
        BY <2>1, <2>2
    <3>4. \A x \in BagToSet(net) \ gone :
             x.kind \in TransferKinds /\ x \notin es => net'[x] = net[x] /\ Continues(x, r.state)
        BY <2>1
    <3>5. \A x \in es : x.kind \in TransferKinds => net'[x] = 1 /\ Continues(x, r.state)
        BY <2>2, <2>4
    <3> HIDE DEF gone
    <3> QED
        BY <3>1, <3>2, <3>3, <3>4, <3>5, StreamStep
  <2>6. Linked'
    <3>1. Linked /\ \A x \in es : x.kind # "OutboundFailure" /\ links'[x.peer] > 0
        BY <2>2 DEF Calm, TransferKinds
    <3> QED
        BY <1>3, <2>4, <3>1, LinkedStep
  <2> QED
      BY <2>4, <2>5, <2>6 DEF Calm
<1> QED
    BY <1>1, <1>4, <1>5

\* A handler that ends the exchange of the transfer and sends nothing.
LEMMA StreamEnds ==
    ASSUME IInv, Calm, NEW e \in BagToSet(net), e.kind \in TransferKinds, Becomes(e, {}),
           links' = links, connected_peers' = connected_peers, todo' = todo
    PROVE  Calm'
<1> DEFINE es == {}
           n == sync'
<1>1. Becomes(e, es) /\ \A x, y \in es : x = y
    OBVIOUS
<1>2. \A x \in es : /\ x.kind \in TransferKinds /\ x.peer = e.peer
                   /\ Continues(x, n)
    OBVIOUS
<1>3. sync' = n
    OBVIOUS
<1> HIDE DEF es, n
<1> QED
    BY <1>1, <1>2, <1>3, StreamTurns

\* An exchange of the transfer that becomes one which continues it.
LEMMA StreamGoesOn ==
    ASSUME IInv, Calm, NEW e \in BagToSet(net), e.kind \in TransferKinds,
           NEW x, Becomes(e, {x}), x.kind \in TransferKinds, x.peer = e.peer,
           NEW n, sync' = n, Continues(x, n),
           links' = links, connected_peers' = connected_peers, todo' = todo
    PROVE  Calm'
<1> DEFINE es == {x}
<1>1. Becomes(e, es) /\ \A y, z \in es : y = z
    OBVIOUS
<1>2. \A y \in es : /\ y.kind \in TransferKinds /\ y.peer = e.peer
                   /\ Continues(y, n)
    OBVIOUS
<1> HIDE DEF es
<1> QED
    BY <1>1, <1>2, StreamTurns

-----------------------------------------------------------------------------
(* One step of each kind. *)

\* The exchange of the transfer is of the active path, and its chunk is the next one.
LEMMA CurrentContinues ==
    ASSUME Calm, NEW e \in BagToSet(net), e.kind \in TransferKinds
    PROVE  Continues(e, sync)
BY DEF Calm, Stream, TransferExchanges

\* A peer that serves the file, or a part of it, goes on with the stream.
LEMMA ServeCalm ==
    ASSUME IInv, Calm, NEW e \in BagToSet(net), Serve(e)
    PROVE  Calm'
<1>1. sync' = sync /\ links' = links /\ connected_peers' = connected_peers /\ todo' = todo
    BY DEF Serve, world
<1>2. CASE ServeManifest(e)
  <2> DEFINE x == ManifestResponse(e.peer, shared[e.peer])
  <2>1. Becomes(e, {x}) /\ e.kind \notin TransferKinds
      BY <1>2 DEF ServeManifest, TransferKinds
  <2>2. x.kind \notin TransferKinds /\ x.kind # "OutboundFailure" /\ x.peer = e.peer
      BY DEF ManifestResponse, TransferKinds
  <2> HIDE DEF x
  <2> QED
      BY <1>1, <2>1, <2>2, ReplyStays
<1>3. CASE ServeEvent(e)
  <2> DEFINE x == Ack(e.peer)
  <2>1. Becomes(e, {x}) /\ e.kind \notin TransferKinds
      BY <1>3 DEF ServeEvent, TransferKinds
  <2>2. x.kind \notin TransferKinds /\ x.kind # "OutboundFailure" /\ x.peer = e.peer
      BY DEF Ack, TransferKinds
  <2> HIDE DEF x
  <2> QED
      BY <1>1, <2>1, <2>2, ReplyStays
<1>4. CASE ServeFetchFile(e)
  <2>1. e.kind \in TransferKinds
      BY <1>4 DEF ServeFetchFile, TransferKinds
  <2>2. PICK x : /\ Becomes(e, {x})
                 /\ \E c : x = NotFound(e.peer, e.path) \/ x = FileStart(e.peer, e.path, c)
      BY <1>4 DEF ServeFetchFile
  <2>3. /\ x.kind \in {"NotFound", "FileStart"} /\ x.kind \in TransferKinds
        /\ x.path = e.path /\ x.peer = e.peer
      BY <2>2 DEF NotFound, FileStart, TransferKinds
  <2>4. Continues(x, sync)
      BY <2>1, <2>3, CurrentContinues DEF Continues
  <2> QED
      BY <1>1, <2>1, <2>2, <2>3, <2>4, StreamGoesOn
<1>5. CASE ServeFetchFileChunk(e)
  <2>1. e.kind = "FetchFileChunk" /\ e.kind \in TransferKinds
      BY <1>5 DEF ServeFetchFileChunk, TransferKinds
  <2>2. PICK x : /\ Becomes(e, {x})
                 /\ \/ x = NotFound(e.peer, e.path)
                    \/ \E d, l : x = FileChunk(e.peer, e.path, d, e.offset, l)
    <3> DEFINE c == shared[e.peer][e.path]
               upto == IF e.offset + CHUNK_SIZE < Len(c)
                       THEN e.offset + CHUNK_SIZE ELSE Len(c)
               y == IF c = NoFile \/ (e.offset >= Len(c) /\ Len(c) > 0)
                    THEN NotFound(e.peer, e.path)
                    ELSE FileChunk(e.peer, e.path, SubSeq(c, e.offset + 1, upto),
                                   e.offset, upto >= Len(c))
    <3>1. Becomes(e, {y})
        BY <1>5 DEF ServeFetchFileChunk
    <3>2. \/ y = NotFound(e.peer, e.path)
          \/ \E d, l : y = FileChunk(e.peer, e.path, d, e.offset, l)
        OBVIOUS
    <3> HIDE DEF y
    <3> QED
        BY <3>1, <3>2
  <2>3. /\ x.kind \in TransferKinds /\ x.path = e.path /\ x.peer = e.peer
        /\ x.kind \in {"FetchFileChunk", "FileChunk"} => x.offset = e.offset
      BY <2>2 DEF NotFound, FileChunk, TransferKinds
  <2>4. Continues(x, sync)
      BY <2>1, <2>3, CurrentContinues DEF Continues
  <2> QED
      BY <1>1, <2>1, <2>2, <2>3, <2>4, StreamGoesOn
<1> QED
    BY <1>2, <1>3, <1>4, <1>5 DEF Serve

\* A FileStart truncates the temp file and asks for its first chunk.
LEMMA FileStartCalm ==
    ASSUME IInv, Calm, NEW e \in BagToSet(net), HandleFileStart(e),
           links' = links, connected_peers' = connected_peers
    PROVE  Calm'
<1> DEFINE c == sync.current_transfer
           t == [c EXCEPT !.file = "linked", !.written = <<>>, !.expected = e.checksum]
           x == FetchFileChunk(e.peer, e.path, 0)
<1>1. /\ e.kind \in TransferKinds /\ IsCurrent(sync, e.path) /\ todo' = todo
      /\ Becomes(e, {x})
    BY DEF HandleFileStart, TransferKinds
<1>2. c \in ActiveTransfer /\ c.path = e.path /\ sync \in SyncState
    BY <1>1 DEF IInv, TypeOK, SyncState, IsCurrent
<1>3. sync'.current_transfer = t
    BY <1>2 DEF HandleFileStart, SyncState
<1>4. t.written = <<>> /\ t.path = e.path
    BY <1>2 DEF ActiveTransfer
<1>5. e.checksum \in Seq(Block)
  <2>1. e \in Exchange /\ e.kind = "FileStart" /\ e.checksum \in Versions[e.path]
      BY DEF HandleFileStart, IInv, TypeOK, NetKnown, Known
  <2>2. e.path \in Path
      BY <2>1, ExchangeFields DEF TransferKinds
  <2> QED
      BY <2>1, <2>2, ContentIsSequence
<1>6. t # NoTransfer
  <2>1. <<>> \in Seq(Block)
      OBVIOUS
  <2>2. t \in ActiveTransfer
      BY <1>2, <1>5, <2>1, Restarted
  <2> QED
      BY <2>2, TransferFields
<1>7. x.kind = "FetchFileChunk" /\ x.path = e.path /\ x.peer = e.peer /\ x.offset = 0
    BY DEF FetchFileChunk
<1> HIDE DEF t, x
<1>8. \A n : n = sync' => Continues(x, n)
    BY <1>3, <1>4, <1>6, <1>7 DEF Continues
<1>9. x.kind \in TransferKinds
    BY <1>7 DEF TransferKinds
<1> QED
    BY <1>1, <1>7, <1>8, <1>9, StreamGoesOn

\* A chunk: the next one follows what it made of the temp file, or the file is asked for
\* again, or that of the next pull; or the stream ends with the task or the lost file.
LEMMA FileChunkCalm ==
    ASSUME IInv, Calm, NEW e \in BagToSet(net), HandleFileChunk(e),
           links' = links, connected_peers' = connected_peers
    PROVE  Calm'
<1>1. /\ e.kind = "FileChunk" /\ e.kind \in TransferKinds /\ IsCurrent(sync, e.path)
      /\ todo' = todo
    BY DEF HandleFileChunk, TransferKinds
<1>2. SyncInv(Writing(e)) /\ SyncInv(sync)
    BY <1>1, WritingInv DEF IInv
<1>3. CASE ChunkPanics(e)
    BY <1>1, <1>3, StreamEnds DEF ChunkPanics
<1>4. CASE ChunkAppended(e)
  <2> DEFINE c == sync.current_transfer
             x == FetchFileChunk(e.peer, e.path, e.offset + Len(e.data))
             t == [c EXCEPT !.written = Extended(e)]
  <2>1. Becomes(e, {x}) /\ sync' = Writing(e)
      BY <1>4 DEF ChunkAppended
  <2>2. /\ Extended(e) \in Seq(Block) /\ e.offset \in Nat /\ e.data \in Seq(Block)
        /\ c \in ActiveTransfer /\ c # NoTransfer /\ c.path = e.path
        /\ c.written \in Seq(Block) /\ sync \in SyncState
      BY <1>1, WritingInv, TransferFields DEF IInv, TypeOK
  <2>3. Len(Extended(e)) = Len(c.written) + Len(e.data)
      BY <2>2 DEF Extended
  <2>4. e.offset = Len(c.written)
      BY <1>1, CurrentContinues DEF Continues
  <2>5. t \in ActiveTransfer /\ t.path = e.path /\ t.written = Extended(e)
      BY <2>2 DEF ActiveTransfer
  <2>6. Writing(e).current_transfer = t
    <3>1. Writing(e) = [sync EXCEPT !.current_transfer = t]
        BY <2>2 DEF Writing, SyncState
    <3> HIDE DEF t
    <3> QED
        BY <2>2, <2>5, <3>1, WithTransfer
  <2>7. t # NoTransfer
      BY <2>5, TransferFields
  <2>8. /\ x.kind = "FetchFileChunk" /\ x.path = e.path /\ x.peer = e.peer
        /\ x.offset = e.offset + Len(e.data)
      BY DEF FetchFileChunk
  <2> HIDE DEF t, x
  <2>9. Continues(x, Writing(e)) /\ x.kind \in TransferKinds
      BY <2>3, <2>4, <2>5, <2>6, <2>7, <2>8 DEF Continues, TransferKinds
  <2> QED
      BY <1>1, <2>1, <2>8, <2>9, StreamGoesOn
<1>5. CASE ChunkMismatch(e)
  <2>1. Fetches(RetryCurrent(Writing(e)))
      BY <1>2, RetryFetches
  <2> QED
      BY <1>1, <1>5, <2>1, ApplyTurns DEF ChunkMismatch
<1>6. CASE ChunkInstalled(e)
  <2>1. Fetches(FinishTransfer(sync))
      BY <1>2, StartNextFetches DEF FinishTransfer, SyncInv
  <2> QED
      BY <1>1, <1>6, <2>1, ApplyTurns DEF ChunkInstalled
<1>7. CASE ChunkTempMissing(e)
    BY <1>1, <1>7, StreamEnds DEF ChunkTempMissing
<1> QED
    BY <1>3, <1>4, <1>5, <1>6, <1>7 DEF HandleFileChunk

\* Whatever the event loop handles leaves at most one stream, of the active path.
LEMMA HandleCalm ==
    ASSUME IInv, Calm, NEW e \in BagToSet(net), Handle(e)
    PROVE  Calm'
<1>1. links' = links /\ connected_peers' = connected_peers
    BY DEF Handle, world
<1>2. /\ links[e.peer] > 0
      /\ \A a \in todo : links[a.peer] > 0
    BY DEF Calm, Linked
<1>3. CASE HandleIncomingEdit(e)
  <2>1. e \in Exchange /\ e.kind = "PeerEvent" /\ todo' = todo
      BY <1>3 DEF IInv, TypeOK, HandleIncomingEdit
  <2>2. e.peer \in Peer /\ e.path \in Path
      BY <2>1, ExchangeFields
  <2>3. Apply(e, StartPull(sync, e.peer, e.path))
      BY <1>3 DEF HandleIncomingEdit
  <2>4. sync' = StartPull(sync, e.peer, e.path).state
      BY <2>3 DEF Apply
  <2>5. \A a \in todo' : links'[a.peer] > 0
      BY <1>1, <1>2, <2>1
  <2> QED
      BY <1>1, <1>2, <2>1, <2>2, <2>3, <2>4, <2>5, StartPullCalm
<1>4. CASE HandleIncomingDelete(e) \/ HandleAck(e)
  <2>1. e.kind \notin TransferKinds /\ Becomes(e, {}) /\ sync' = sync /\ todo' = todo
      BY <1>4 DEF HandleIncomingDelete, HandleAck, Ignore, TransferKinds
  <2>2. \A a \in todo' : links'[a.peer] > 0
      BY <1>1, <1>2, <2>1
  <2> QED
      BY <1>1, <2>1, <2>2, ConsumeStays
<1>5. CASE HandleManifest(e)
  <2>1. e.kind \notin TransferKinds /\ Becomes(e, {}) /\ sync' = sync
      BY <1>5 DEF HandleManifest, TransferKinds
  <2>2. \A a \in todo' : a.peer = e.peer
      BY <1>5 DEF HandleManifest
  <2>3. \A a \in todo' : links'[a.peer] > 0
      BY <1>1, <1>2, <2>2
  <2> QED
      BY <1>1, <2>1, <2>3, ConsumeStays
<1>6. CASE HandleNotFound(e)
  <2>1. e.kind \in TransferKinds /\ Apply(e, RetryCurrent(sync)) /\ todo' = todo
      BY <1>6 DEF HandleNotFound, TransferKinds
  <2>2. Fetches(RetryCurrent(sync))
      BY RetryFetches DEF IInv
  <2> QED
      BY <1>1, <2>1, <2>2, ApplyTurns
<1>7. CASE HandleFileStart(e)
    BY <1>1, <1>7, FileStartCalm
<1>8. CASE HandleFileChunk(e)
    BY <1>1, <1>8, FileChunkCalm
<1>9. CASE IgnoreStale(e)
  <2>1. e.kind \in TransferKinds /\ Becomes(e, {}) /\ todo' = todo
      BY <1>9 DEF IgnoreStale, Ignore, TransferKinds
  <2> QED
      BY <1>1, <2>1, StreamEnds
<1> QED
    BY <1>3, <1>4, <1>5, <1>6, <1>7, <1>8, <1>9 DEF Handle

\* One action of a manifest: a pull, from a linked peer, or a deletion.
LEMMA ApplyActionCalm ==
    ASSUME IInv, Calm, NEW a \in todo, ApplyAction(a)
    PROVE  Calm'
<1>1. /\ links' = links /\ connected_peers' = connected_peers /\ todo' \subseteq todo
      /\ a.peer \in Peer /\ a.path \in Path
    BY DEF ApplyAction, world, IInv, TypeOK, SyncAction
<1>2. links[a.peer] > 0 /\ \A b \in todo' : links'[b.peer] > 0
    BY <1>1 DEF Calm, Linked
<1>3. CASE a.action = "Pull"
  <2>1. LET r == StartPull(sync, a.peer, a.path) IN
        /\ sync' = r.state
        /\ net' = net (+) SetToBag({FetchFile(a.peer, path) : path \in r.fetch})
      BY <1>3 DEF ApplyAction
  <2> QED
      BY <1>1, <1>2, <2>1, StartPullCalm
<1>4. CASE a.action # "Pull"
  <2>1. sync' = sync /\ net' = net
      BY <1>4 DEF ApplyAction
  <2>2. Linked'
      BY <1>1, <1>2, <2>1 DEF Calm, Linked
  <2> QED
      BY <2>1, <2>2 DEF Calm, Stream, TransferExchanges, Continues
<1> QED
    BY <1>3, <1>4

\* The announcement of a change on a peer is not of the transfer.
LEMMA PeerWritesCalm ==
    ASSUME IInv, Calm, NEW p \in Peer, NEW path, NEW c, PeerWrites(p, path, c)
    PROVE  Calm'
<1>1. /\ sync' = sync /\ links' = links /\ connected_peers' = connected_peers /\ todo' = todo
      /\ links \in [Peer -> 0..2]
    BY DEF PeerWrites, IInv, TypeOK
<1>2. CASE links[p] = 0
  <2>1. net' = net
      BY <1>2 DEF PeerWrites
  <2>2. Linked'
      BY <1>1, <2>1 DEF Calm, Linked
  <2> QED
      BY <1>1, <2>1, <2>2 DEF Calm, Stream, TransferExchanges, Continues
<1>3. CASE links[p] # 0
  <2> DEFINE x == PeerEvent(p, path, IF c = NoFile THEN "Deleted" ELSE "Edited")
             es == {x}
  <2>1. net' = net (+) SetToBag(es)
      BY <1>3 DEF PeerWrites
  <2>2. x.kind \notin TransferKinds /\ x.kind # "OutboundFailure" /\ x.peer = p
      BY DEF PeerEvent, TransferKinds
  <2>3. links[p] > 0
      BY <1>1, <1>3
  <2> HIDE DEF x
  <2>4. \A y \in es : /\ y.kind \notin TransferKinds /\ y.kind # "OutboundFailure"
                     /\ links'[y.peer] > 0
      BY <1>1, <2>2, <2>3
  <2>5. (\A q \in connected_peers' : links'[q] > 0) /\ (\A a \in todo' : links'[a.peer] > 0)
      BY <1>1 DEF Calm, Linked
  <2>6. \A q : links[q] > 0 => links'[q] > 0
      BY <1>1
  <2> HIDE DEF es
  <2> QED
      BY <1>1, <2>1, <2>4, <2>5, <2>6, SendStays
<1> QED
    BY <1>2, <1>3

\* A new connection asks for a manifest.
LEMMA ConnectionCalm ==
    ASSUME IInv, Calm, NEW p \in Peer, ConnectionEstablished(p)
    PROVE  Calm'
<1> DEFINE x == ManifestRequest(p)
           es == {x}
<1>1. /\ sync' = sync /\ todo' = todo /\ connected_peers' = connected_peers \cup {p}
      /\ links' = [links EXCEPT ![p] = links[p] + 1] /\ links \in [Peer -> 0..2]
      /\ net' = net (+) SetToBag(es)
    BY DEF ConnectionEstablished, IInv, TypeOK
<1>2. links'[p] > 0 /\ \A q \in Peer : links[q] > 0 => links'[q] > 0
    BY <1>1
<1>3. x.kind \notin TransferKinds /\ x.kind # "OutboundFailure" /\ x.peer = p
    BY DEF ManifestRequest, TransferKinds
<1>4. \A q : links[q] > 0 => links'[q] > 0
    BY <1>1, <1>2
<1> HIDE DEF x
<1>5. \A y \in es : /\ y.kind \notin TransferKinds /\ y.kind # "OutboundFailure"
                   /\ links'[y.peer] > 0
    BY <1>2, <1>3
<1>6. (\A q \in connected_peers' : links'[q] > 0) /\ (\A a \in todo' : links'[a.peer] > 0)
    BY <1>1, <1>2, <1>4 DEF Calm, Linked
<1> HIDE DEF es
<1> QED
    BY <1>1, <1>4, <1>5, <1>6, SendStays

\* The broadcast of a change goes to linked peers.
LEMMA AnnounceCalm ==
    ASSUME IInv, Calm, AnnounceChange
    PROVE  Calm'
<1> DEFINE es == {EventRequest(p) : p \in connected_peers}
<1>1. /\ sync' = sync /\ todo' = todo /\ connected_peers' = connected_peers /\ links' = links
      /\ net' = net (+) SetToBag(es)
    BY DEF AnnounceChange
<1>2. (\A q \in connected_peers' : links'[q] > 0) /\ (\A a \in todo' : links'[a.peer] > 0)
    BY <1>1 DEF Calm, Linked
<1>3. \A y \in es : /\ y.kind \notin TransferKinds /\ y.kind # "OutboundFailure"
                   /\ links'[y.peer] > 0
    BY <1>1, <1>2 DEF EventRequest, TransferKinds
<1>4. \A q : links[q] > 0 => links'[q] > 0
    BY <1>1
<1> HIDE DEF es
<1> QED
    BY <1>1, <1>2, <1>3, <1>4, SendStays

\* Every step leaves at most one stream, which continues the temp file, as long as no
\* request failed and no connection was closed.
LEMMA StepOneStream == IInv /\ OneStream /\ [Next]_vars => OneStream'
<1> SUFFICES ASSUME IInv, OneStream, [Next]_vars, Undisturbed' PROVE Calm'
    BY DEF OneStream
<1>1. CASE UNCHANGED vars
    BY <1>1 DEF vars, OneStream, Undisturbed, Calm, Linked, Stream, TransferExchanges, Continues
<1>2. ASSUME UNCHANGED used PROVE Calm
    BY <1>2 DEF OneStream, Undisturbed
<1>3. ASSUME NEW field \in {"edits", "announces", "links", "ioErrors", "dbErrors"}, Spend(field)
      PROVE  Calm
    BY <1>3, Spending DEF OneStream, Undisturbed
<1>4. ASSUME NEW p \in Peer, NEW path \in Path, NEW c \in Content(path), PeerWrites(p, path, c)
      PROVE  Calm'
    BY <1>3, <1>4, PeerWritesCalm DEF PeerWrites
<1>5. ASSUME NEW p \in Peer, ConnectionEstablished(p) PROVE Calm'
    BY <1>3, <1>5, ConnectionCalm DEF ConnectionEstablished
<1>6. ASSUME NEW p \in Peer, NEW lost, ConnectionClosed(p, lost) PROVE Calm'
  <2>1. used'.closes = used.closes + 1 /\ used.closes \in Nat
      BY <1>6, Spending DEF ConnectionClosed
  <2> QED
      BY <2>1 DEF Undisturbed
<1>7. CASE AnnounceChange
    BY <1>3, <1>7, AnnounceCalm DEF AnnounceChange
<1>8. ASSUME NEW e \in BagToSet(net), Serve(e) PROVE Calm'
    BY <1>2, <1>8, ServeCalm DEF Serve, world
<1>9. ASSUME NEW a \in todo, ApplyAction(a) PROVE Calm'
    BY <1>2, <1>9, ApplyActionCalm DEF ApplyAction, world
<1>10. ASSUME NEW e \in BagToSet(net), Handle(e) PROVE Calm'
    BY <1>2, <1>10, HandleCalm DEF Handle, world
<1>11. ASSUME NEW e \in BagToSet(net), OutboundFailure(e) PROVE Calm'
  <2>1. CASE UNCHANGED used
    <3>1. e.kind # "OutboundFailure" /\ links[e.peer] > 0
        BY <1>2, <2>1 DEF Calm, Linked
    <3>2. Spend("failures")
        BY <1>11, <3>1 DEF OutboundFailure
    <3>3. used'.failures = used.failures + 1 /\ used.failures \in Nat
        BY <3>2, Spending
    <3> QED
        BY <2>1, <3>3
  <2>2. CASE Spend("failures")
    <3>1. used'.failures = used.failures + 1 /\ used.failures \in Nat
        BY <2>2, Spending
    <3> QED
        BY <3>1 DEF Undisturbed
  <2> QED
      BY <1>11, <2>1, <2>2 DEF OutboundFailure
<1>12. ASSUME NEW e \in BagToSet(net), FileSystemError(e) PROVE Calm'
  <2>1. e.kind \in TransferKinds /\ Spend("ioErrors")
      BY <1>12 DEF FileSystemError, TransferKinds
  <2> QED
      BY <1>3, <1>12, <2>1, StreamEnds DEF FileSystemError
<1>13. ASSUME NEW e \in BagToSet(net), ManifestUnread(e) PROVE Calm'
  <2>1. e.kind \notin TransferKinds /\ Becomes(e, {}) /\ sync' = sync /\ todo' = todo
        /\ links' = links /\ connected_peers' = connected_peers
      BY <1>13 DEF ManifestUnread, TransferKinds
  <2>2. Calm
      BY <1>3, <1>13 DEF ManifestUnread
  <2>3. \A a \in todo' : links'[a.peer] > 0
      BY <2>1, <2>2 DEF Calm, Linked
  <2> QED
      BY <2>1, <2>2, <2>3, ConsumeStays
<1> QED
    BY <1>1, <1>4, <1>5, <1>6, <1>7, <1>8, <1>9, <1>10, <1>11, <1>12, <1>13
       DEF Next, ServeSome, HandleSome, FailSome

\* The invariant holds when the task starts, and in every reachable state.
LEMMA OneStreamInvariance == Spec => []OneStream
<1>1. Init => OneStream
    BY DEF Init, OneStream, Calm, Linked, Stream, TransferExchanges, IsABag, EmptyBag,
           SetToBag, BagToSet
<1>2. IInv /\ OneStream /\ [Next]_vars => OneStream'
    BY StepOneStream
<1> QED
    BY <1>1, <1>2, Invariance, PTL DEF Spec

\* One file transfers at a time, and over one stream: start_pull asks only when nothing is
\* active, every handler that asks for more has consumed the exchange it takes the place
\* of, and a transfer that ends leaves nothing behind that a later one could meet.
THEOREM OneStreamAtATime == Spec => []SingleStream
<1>1. OneStream => SingleStream
    BY DEF OneStream, Undisturbed, Calm, Stream, SingleStream
<1> QED
    BY <1>1, OneStreamInvariance, PTL

\* The chunk that arrives continues the temp file, in every attempt, whatever the peer
\* does to the file meanwhile: handle_file_chunk appends without looking at the offset,
\* and is right to as long as no request failed.
THEOREM ChunksAreContiguous == Spec => []ChunksContinue
<1>1. OneStream => ChunksContinue
    BY DEF OneStream, Undisturbed, Calm, Stream, TransferExchanges, TransferKinds, Continues,
           ChunksContinue
<1> QED
    BY <1>1, OneStreamInvariance, PTL
=============================================================================
