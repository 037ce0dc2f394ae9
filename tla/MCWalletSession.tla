-------------------------- MODULE MCWalletSession --------------------------
(***************************************************************************)
(* WalletSession for TLC: two transactions of the wallet, one of which     *)
(* spends the other and pays less back, a fee rate that changes with every *)
(* block, and more rates: zero, below one sat/kwu, with and without a      *)
(* remainder, up to 2^23 sat/kvB and above.                                *)
(***************************************************************************)
EXTENDS WalletSession

CONSTANTS t1, t2

MCWalletTx == <<t1, t2>>
MCPaid == <<3, 1>>
MCRates ==
  <<1000, 1004, 1556, 0, 1, 3, 4, 5, 2500, 99999, 123456, 1000000, 4194304, 8388607, 12500047,
    100000000>>

=============================================================================
