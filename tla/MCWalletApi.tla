---------------------------- MODULE MCWalletApi ----------------------------
(* wallet-api and pepew-api for TLC: three reads, or two lookups, or three  *)
(* broadcasts of two transactions that spend one output and one that the    *)
(* node refuses.                                                            *)
EXTENDS WalletApi, TLC

CONSTANTS r1, r2, r3, x, y, z

Three(a, b, c) == r1 :> a @@ r2 :> b @@ r3 :> c
Mixes ==
  {Three("history", "history", "none"), Three("utxos", "multi", "none"),
   Three("balance", "balance", "balance"),
   Three("rawtx", "batch", "none"), Three(x, y, z)}
Strands == Handlers \X {"main", "loop"}
DoubleSpend == {{x, y}}
=============================================================================
