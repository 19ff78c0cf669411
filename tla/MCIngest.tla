----------------------------- MODULE MCIngest ------------------------------
(***************************************************************************)
(* A small instance of Ingest: two files of the same content, hence one    *)
(* blob; one batch with the first file, and one with both, in which the    *)
(* first is found under another path.                                      *)
(***************************************************************************)
EXTENDS Ingest, TLC

CONSTANTS c1, c2

a == [path |-> "a", source |-> "a", content |-> "text"]
b == [path |-> "b", source |-> "b", content |-> "text"]
MCManifests == {<<a>>, <<b, [a EXCEPT !.path = "c"]>>}

\* a has an operation and a skill, b has a skill.
MCCandidates == <<"a", "text">> :> <<"work", "skill a">> @@ <<"b", "text">> :> <<"skill b">>

Symmetry == Permutations({c1, c2})
=============================================================================
