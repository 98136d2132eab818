---------------------------- MODULE MCAddresses ----------------------------
(***************************************************************************)
(* Programs with every bit pattern the regrouping cuts through, and        *)
(* strings with versions, lengths, paddings and checksums on both sides of *)
(* every check.                                                            *)
(***************************************************************************)
EXTENDS Addresses

SomePrograms ==
    {[i \in 1..len |-> (start + i * step) % 256] :
        len \in {20, 32}, start \in {0, 255}, step \in {0, 37, 129}}

Stepped(len, start) == [i \in 1..len |-> (start + i * 11) % 32]

\* The groups of a program of so many bytes, whole or with one more.
Groups(bytes) == (8 * bytes + 4) \div 5

SomeStrings ==
    {[hrp |-> hrp, letters |-> "lower", sum |-> sum,
      values |-> <<version>> \o Stepped(Groups(bytes) - 1, bytes) \o padded] :
        hrp \in {"bc", "tb", "bc1x"}, sum \in {"bech32", "bech32m"}, version \in {0, 1, 2, 17},
        bytes \in {1, 2, 20, 31, 32, 33, 40, 41}, padded \in {<<0>>, <<8>>, <<16>>, <<0, 0>>}}
      \cup {[hrp |-> "bc", letters |-> letters, sum |-> "bech32", values |-> values] :
        letters \in {"lower", "mixed", "invalid"}, values \in {<<>>, <<0>>, <<1>>}}

Hrps == [bc |-> 2, tb |-> 2, bc1x |-> 4]
=============================================================================
