------------------------------ MODULE MCSkills ------------------------------
(***************************************************************************)
(* A small instance of Skills: two processes, three versions, a package    *)
(* with an approved record and one with a tested record of a version that  *)
(* may be there, and callers of the store with a batch, with a guard on    *)
(* the state, and with a key of the batch.                                 *)
(***************************************************************************)
EXTENDS Skills, TLC

CONSTANTS c1, c2, plain, other

Approved == RecordOf(2, "APPROVED", plain, 0)
Tested == RecordOf(1, "TESTED", plain, 0)
MCPackages == {Approved, Tested}

Create == [op |-> "CREATE", record |-> RecordOf(1, "DRAFT", plain, 0)]
Test == [op |-> "TEST", version |-> 1, expected |-> "DRAFT", by |-> "tests"]
Approve == [op |-> "APPROVE", version |-> 1, expected |-> "TESTED", by |-> "tests"]
Named(name) == [name |-> name]
Batch == [id |-> Named("batch"), key |-> Named("batch"), at |-> 1, expected |-> <<>>,
          ops |-> <<Create, Test, Approve>>]
Guarded == [id |-> Named("guarded"), key |-> Named("guarded"), at |-> 1, expected |-> <<NoSkills>>,
            ops |-> <<Test>>]
SameKey == [id |-> Named("other"), key |-> Named("batch"), at |-> 1, expected |-> <<>>,
            ops |-> <<Test>>]
MCDirect == {Batch, Guarded, SameKey}

Symmetry == Permutations({c1, c2})
=============================================================================
