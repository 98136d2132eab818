----------------------------- MODULE MCFailover -----------------------------
(***************************************************************************)
(* The three registered providers, alone and under "auto".  One command    *)
(* makes two requests, so that the second walk starts at any provider.     *)
(* Two retries give a first, a middle and a last attempt.                  *)
(***************************************************************************)
EXTENDS Failover

\* BACKENDS in AUTO_ORDER
Providers == <<"blockchain.info", "esplora", "esplora">>

\* none or garbage, zero, the largest sane one, one too large
Headers == {-1, 0, 30000, 31000}
=============================================================================
