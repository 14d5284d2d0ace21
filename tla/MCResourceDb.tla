---------------------------- MODULE MCResourceDb ----------------------------
(* Instances of ResourceDb for TLC: the paths on the disk. *)
EXTENDS ResourceDb

\* A folder, what may be in it, and another place for it.
Nested == {<<"a">>, <<"b">>, <<"a", "x">>, <<"b", "x">>}
=============================================================================
