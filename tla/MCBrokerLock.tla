---------------------------- MODULE MCBrokerLock ----------------------------
(* Instances of BrokerLock for TLC: one process is gone, two have read it  *)
(* as the owner and one more arrives.                                      *)
EXTENDS BrokerLock, TLC

CONSTANTS p1, p2, p3, p4

MCProc == {p1, p2, p3, p4}

\* Sound where no liveness is checked and nobody is set apart as an unlocker.
MCSymmetry == Permutations(MCProc)
=============================================================================
