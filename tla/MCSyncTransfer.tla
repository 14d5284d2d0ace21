--------------------------- MODULE MCSyncTransfer ---------------------------
(* Instances of SyncTransfer for TLC: which contents the peers may hold and *)
(* how much the environment does in each run.                               *)
EXTENDS SyncTransfer, TLC

CONSTANTS p1, p2, f, g

\* Two contents of two blocks at f, so that a mix of them is possible, and an
\* empty one at g.
MCVersions == f :> {<<"a", "b">>, <<"c", "d">>} @@ g :> {<<>>}
MCBlock == {"a", "b", "c", "d"}

EveryPeerHasAll == [p \in Peer |-> f :> <<"a", "b">> @@ g :> <<>>]

Quiet == [edits |-> 0, announces |-> 0, links |-> 0, closes |-> 0,
          failures |-> 0, ioErrors |-> 0, dbErrors |-> 0]

\* Every kind of fault once: requests fail because their connection is lost,
\* which can be re-established.
LimitFaults == [Quiet EXCEPT !.links = 2, !.closes = 1, !.edits = 1,
                             !.announces = 1, !.ioErrors = 1, !.dbErrors = 1]
\* Changing files, a broken substream and an unread manifest, but no lost connection
\* and no error of the file system.
LimitProgress == [Quiet EXCEPT !.links = 2, !.failures = 1, !.edits = 1, !.dbErrors = 1]

\* Little, for the runs that show a disagreement.
LimitOneClose  == [Quiet EXCEPT !.links = 2, !.closes = 1]
LimitReconnect == [Quiet EXCEPT !.links = 3, !.closes = 1]
=============================================================================
