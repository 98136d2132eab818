----------------------------- MODULE MCSigning -----------------------------
(***************************************************************************)
(* A group of order 11 has keys of both parities whose tweaked keys are    *)
(* of both parities.  One or two sources with up to two coins, each coin   *)
(* one of its key's three forms or one that the key cannot spend.          *)
(***************************************************************************)
EXTENDS Signing

GroupOrder == 11
Tweaks == (2 :> 5 @@ 4 :> 1 @@ 6 :> 3 @@ 8 :> 2 @@ 10 :> 7)

ProgramOf(key, form) ==
    IF form = "p2tr" THEN X((X(key) + Tweaks[X(key)]) % GroupOrder) ELSE key

\* Keys of both parities, and the negative of the first.
SigningKeys == {3, 4, 8}

CoinsOf(key, n) ==
    {[outpoint |-> n, form |-> form, program |-> ProgramOf(key, form), amount |-> n] :
        form \in {"p2pkh", "p2wpkh", "p2tr"}}
Strange(key, n) ==
    {[outpoint |-> n, form |-> form, program |-> key, amount |-> n] : form \in {"p2sh", "p2tr"}}
      \cup {[outpoint |-> n, form |-> "p2wpkh", program |-> GroupOrder - key, amount |-> n]}

OneCoin(n) ==
    UNION {{[key |-> key, coins |-> <<coin>>] : coin \in CoinsOf(key, n) \cup Strange(key, n)} :
                key \in SigningKeys}
TwoCoins(n) ==
    UNION {{[key |-> key, coins |-> <<a, b>>] : a \in CoinsOf(key, n), b \in CoinsOf(key, n + 1)} :
                key \in SigningKeys}

SomeListings == {<<>>} \cup {<<a, b>> : a \in TwoCoins(1), b \in OneCoin(3)}
=============================================================================
