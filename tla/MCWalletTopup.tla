---------------------------- MODULE MCWalletTopup ----------------------------
(* Instances of WalletTopup for TLC; payments share nothing but the handlers, *)
(* so one payment shows every race and two only mix them.                     *)
EXTENDS WalletTopup, TLC

Interchangeable == Permutations(Payment) \cup Permutations(Handler)
=============================================================================
