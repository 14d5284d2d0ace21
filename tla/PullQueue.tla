------------------------------ MODULE PullQueue ------------------------------
(***************************************************************************)
(* What the serial pull engine promises, whatever the network does: pulls  *)
(* are accepted once, wait in the order they came, end one at a time from  *)
(* the front, and leave from the middle only together with all the other   *)
(* pulls of a peer whose connection closed.                                *)
(***************************************************************************)
EXTENDS Integers, Sequences

CONSTANTS Peer, Path

VARIABLE jobs   \* the accepted pulls, the one being transferred first

Job == [peer : Peer, path : Path]

Waiting(q, job) == \E i \in 1..Len(q) : q[i] = job

\* a is ahead of b in q.
Ahead(q, a, b) == \E i, j \in 1..Len(q) : i < j /\ q[i] = a /\ q[j] = b

Init == jobs = <<>>

Accept(job) ==
    /\ ~Waiting(jobs, job)
    /\ jobs' = Append(jobs, job)

End ==
    /\ jobs # <<>>
    /\ jobs' = Tail(jobs)

\* All the pulls of p leave, no other does, and what is left keeps its order.  As no
\* pull is waiting twice, this is one sequence.
Remains(q, r, p) ==
    /\ r \in Seq(Job)
    /\ \A job \in Job : Waiting(r, job) <=> Waiting(q, job) /\ job.peer # p
    /\ \A i, j \in 1..Len(r) : i < j => Ahead(q, r[i], r[j])

Cancel(p) == Remains(jobs, jobs', p)

Next ==
    \/ \E job \in Job : Accept(job)
    \/ End
    \/ \E p \in Peer : Cancel(p)

Spec == Init /\ [][Next]_jobs
=============================================================================
