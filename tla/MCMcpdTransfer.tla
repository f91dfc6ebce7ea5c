---------------------------- MODULE MCMcpdTransfer ----------------------------
(***************************************************************************)
(* Small instances of McpdTransfer for TLC.                                *)
(***************************************************************************)
EXTENDS McpdTransfer

TwoPeers == {1, 2}

\* One module sends, one receives.
OneEach == [t \in Peers |-> IF t = 1 THEN {"write"} ELSE {"read"}]

=============================================================================
