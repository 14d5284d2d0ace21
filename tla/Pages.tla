-------------------------------- MODULE Pages --------------------------------
(***************************************************************************)
(* The pages of api.rs: what /api/v1/files and /api/v1/peers answer for a  *)
(* limit and an offset.  A listing of files is its resources followed by   *)
(* its tombstones, each sorted by path.                                    *)
(***************************************************************************)
EXTENDS Integers, Sequences

CONSTANTS
    DEFAULT_LIMIT, MAX_LIMIT,   \* 100 and 1000 in the code
    USIZE,                      \* one more than the largest usize
    NoParam                     \* a parameter that the request leaves out

ASSUME LimitsAssumption ==
    /\ MAX_LIMIT \in Nat /\ DEFAULT_LIMIT \in 0..MAX_LIMIT
    /\ USIZE \in Nat \ {0} /\ NoParam \notin Nat

-----------------------------------------------------------------------------
(* A definition marked "Variant" is a plausible mistake in the code that the *)
(* next definition translates; nothing else uses it.                         *)

LowerOf(a, b) == IF a < b THEN a ELSE b

\* unwrap_or, min and saturating_sub.
LimitOf(limit) == IF limit = NoParam THEN DEFAULT_LIMIT ELSE LowerOf(limit, MAX_LIMIT)
OffsetOf(offset) == IF offset = NoParam THEN 0 ELSE offset
SaturatingSub(a, b) == IF a > b THEN a - b ELSE 0

\* The iterators skip(n) and take(n).
Skip(s, n) == SubSeq(s, n + 1, Len(s))
Take(s, n) == SubSeq(s, 1, LowerOf(n, Len(s)))

\* Variants: the limit or the offset is forgotten.
HasMoreBeyond(offset, limit, total) == offset < total
HasMoreThanPage(offset, limit, total) == limit < total

\* The sum wraps in a release build; a debug build panics, which ends the
\* request without an answer.
HasMore(offset, limit, total) == (offset + limit) % USIZE < total

PeersPage(peers, offset, limit) ==
    LET n == LimitOf(limit)
        k == OffsetOf(offset)
    IN [peers |-> Take(Skip(peers, k), n), has_more |-> HasMore(k, n, Len(peers))]

\* Variant: the offset is applied to the resources and again to the tombstones.
FilesPageOffsetTwice(resources, tombstones, offset, limit) ==
    LET n     == LimitOf(limit)
        k     == OffsetOf(offset)
        page  == Take(Skip(resources, k), n)
        total == Len(resources) + Len(tombstones)
    IN [resources  |-> page,
        tombstones |-> Take(Skip(tombstones, k), SaturatingSub(n, Len(page))),
        has_more   |-> HasMore(k, n, total)]

\* Variant: a full page of tombstones next to the resources.
FilesPageTwoLimits(resources, tombstones, offset, limit) ==
    LET n     == LimitOf(limit)
        k     == OffsetOf(offset)
        total == Len(resources) + Len(tombstones)
    IN [resources  |-> Take(Skip(resources, k), n),
        tombstones |-> Take(Skip(tombstones, SaturatingSub(k, Len(resources))), n),
        has_more   |-> HasMore(k, n, total)]

FilesPage(resources, tombstones, offset, limit) ==
    LET n     == LimitOf(limit)
        k     == OffsetOf(offset)
        page  == Take(Skip(resources, k), n)
        total == Len(resources) + Len(tombstones)
    IN [resources  |-> page,
        tombstones |-> Take(Skip(tombstones, SaturatingSub(k, Len(resources))),
                            SaturatingSub(n, Len(page))),
        has_more   |-> HasMore(k, n, total)]

-----------------------------------------------------------------------------
(* What a page is for *)

\* The entries of a listing from an offset on, at most a limit of them.
Slice(listing, offset, limit) ==
    SubSeq(listing, offset + 1, LowerOf(offset + limit, Len(listing)))

\* A page has exactly the entries of the listing that its offset and limit name,
\* across the border between resources and tombstones.
PageIsSlice(resources, tombstones, offset, limit) ==
    LET page == FilesPage(resources, tombstones, offset, limit) IN
    page.resources \o page.tombstones =
        Slice(resources \o tombstones, OffsetOf(offset), LimitOf(limit))

\* It says that there is more if and only if entries come after it.  Where the sum of
\* offset and limit wraps it may say so wrongly, but only of an empty page.
HasMoreIsTrue(resources, tombstones, offset, limit) ==
    LET page  == FilesPage(resources, tombstones, offset, limit)
        reach == OffsetOf(offset) + LimitOf(limit)
        more  == reach < Len(resources \o tombstones)
    IN /\ more => page.has_more
       /\ page.has_more /\ ~more =>
             reach >= USIZE /\ page.resources \o page.tombstones = <<>>
=============================================================================
