------------------------------ MODULE MCSetup ------------------------------
(***************************************************************************)
(* Small instances of Setup: one setup that names its workspace and one    *)
(* that finds it.                                                          *)
(***************************************************************************)
EXTENDS Setup

CONSTANTS s1, s2

Purposes == [s \in Setups |-> IF s \in Explicit THEN "old" ELSE "default"]
\* None yet; both, with hooks of the user's, of an earlier setup and of the old
\* layout; and one that cannot be used.
Earlier == HooksFile(<<"mixed">>, <<"user">>)
Present == {[claude |-> NoFile, codex |-> NoFile, binding |-> NoFile],
            [claude |-> Earlier, codex |-> Earlier, binding |-> NoFile],
            [claude |-> Earlier, codex |-> BadFile, binding |-> NoFile],
            [claude |-> NoFile, codex |-> Earlier, binding |-> BadFile]}
=============================================================================
