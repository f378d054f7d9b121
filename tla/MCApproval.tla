----------------------------- MODULE MCApproval -----------------------------
(* Instances of Approval for TLC: the configurations an operator switches  *)
(* between, with everything that may happen or with what a question needs. *)
EXTENDS Approval

With(auto, required, policy, trusts) ==
    [auto |-> auto, required |-> required, policy |-> policy, trusts |-> trusts]

MCStrict == With(TRUE, TRUE, 1, TRUE)
MCPlain == With(TRUE, FALSE, 1, TRUE)
MCConfigs == {MCStrict, MCPlain, With(TRUE, TRUE, 2, TRUE), With(FALSE, TRUE, 1, FALSE)}
MCStrictOnly == {MCStrict}

MCServeCommands == {"sync", "publish", "refresh", "request", "approve", "verify"}
\* Conflicts and checks that start over keep the forge from merging: the polls of
\* serve, which must still come to an end, have them instead.
MCMoves == AllMoves \ {"checks", "conflict"}
MCServeMoves == {"base", "checks", "close", "conflict", "push", "reopen"}
=============================================================================
