------------------------------ MODULE MCWallet ------------------------------
(***************************************************************************)
(* Four outputs over three nonces: one nonce with two forms, one paid only *)
(* in a form that is not the wallet's own, by an output that may be late,  *)
(* and so a gap that is closed while the command runs.                     *)
(***************************************************************************)
EXTENDS Wallet

Coin(i, n, f, a, d) == [id |-> i, nonce |-> n, form |-> f, amount |-> a, deep |-> d]

Outputs == {Coin(1, 0, "legacy", 2, TRUE), Coin(2, 0, "native", 1, TRUE),
            Coin(3, 1, "taproot", 2, FALSE), Coin(4, 2, "native", 3, TRUE)}

Line(k, s, a, f) == [kind |-> k, start |-> s, amount |-> a, fee |-> f]

\* A target met by the first nonce, by the second, or never; a fee that is
\* set, or left to the loop.
CommandLines ==
    {Line("balance", 0, Drain, 0), Line("balance", 1, Drain, 0),
     Line("send", 0, 1, 0), Line("scan", 0, Drain, 0),
     Line("scan", 0, 2, 1), Line("scan", 0, 3, 0)}
=============================================================================
