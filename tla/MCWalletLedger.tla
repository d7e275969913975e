---------------------------- MODULE MCWalletLedger ----------------------------
(* A small platform for TLC: the constants are given in the configurations. *)
EXTENDS WalletLedger
=============================================================================
