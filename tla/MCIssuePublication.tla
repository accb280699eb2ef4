------------------------- MODULE MCIssuePublication -------------------------
(* Small instances of IssuePublication for TLC. *)
EXTENDS IssuePublication, TLC

(* One finding whose fingerprint may change, and another finding that may     *)
(* turn out to be the same.                                                   *)
ChangingKeys == {<<"A", "f">>, <<"A", "g">>, <<"B", "f">>}

SingleKey == {<<"A", "f">>}

NothingCarried == [b \in Body |-> NoMarker]

ProcessSymmetry == Permutations(Process)
=============================================================================
