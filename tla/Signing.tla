------------------------------ MODULE Signing ------------------------------
(***************************************************************************)
(* The signatures of a send: Wallet._make_vin (src/src/yubtc/wallet.py),   *)
(* sign_segwit and the digests of src/src/yubtc/transaction.py, and the    *)
(* taproot tweak of src/src/yubtc/crypto.py, input by input, for each      *)
(* transaction the fee loop builds over the same inputs.  The node that    *)
(* checks the result is not part of the repository.                        *)
(*                                                                         *)
(* The curve is the additive group of integers modulo Order: a point is    *)
(* its scalar, its negative has the same x coordinate and the other        *)
(* parity, and an x coordinate stands for the even one of the two.         *)
(* Hashes, digests and signatures keep apart what went into them.          *)
(***************************************************************************)
EXTENDS Integers, Sequences, SequencesExt

CONSTANTS
    Order,     \* of the group
    TapTweak,  \* x coordinate -> the tagged hash, as a scalar
    Listings,  \* what _select_inputs may hand over: sequences of
               \* [key, coins], coins a sequence of Coin
    MaxBuilds  \* candidates of the fee loop

Scalar == 1..(Order - 1)
EvenY(p) == p % 2 = 0
X(p) == IF EvenY(p) THEN p ELSE Order - p
Coin == [outpoint : Nat, form : {"p2pkh", "p2wpkh", "p2tr", "p2sh", "other"},
         program : Scalar, amount : Nat]

\* Order is odd, which makes exactly one of a point and its negative even.
\* No tweak is zero or leads to infinity: both have probability 2^-128.
ASSUME GroupAssumption ==
    /\ Order \in Nat /\ Order % 2 = 1
    /\ TapTweak \in [{X(p) : p \in Scalar} -> Scalar]
    /\ \A p \in Scalar : (X(p) + TapTweak[X(p)]) % Order # 0
ASSUME ListingsAssumption ==
    /\ Listings \subseteq Seq([key : Scalar, coins : Seq(Coin)]) /\ MaxBuilds \in Nat

VARIABLES
    listing,     \* the sources of this send
    vin,         \* what _make_vin returned, [key, coin] per input
    outs,        \* the outputs of the build being signed; its number here
    signed,      \* the copy that sign_segwit fills in
    candidates   \* the signed transactions, as many as were built

signing == <<listing, vin, outs, signed, candidates>>

----------------------------------------------------------------------------
(* Keys and scripts *)

ScriptPubKey(coin) == <<"lock", coin.form, coin.program>>
ScriptSig(items) == <<"sig", items[1], items[2]>>
EmptyScript == <<>>

\* taproot_output_key
OutputKey(x) == X((x + TapTweak[x]) % Order)

\* Mutant: an odd internal key is tweaked as it is.
TweakedScalar_AnyParity(d) == (d + TapTweak[X(d)]) % Order

\* taproot_tweaked_scalar
TweakedScalar(d) == ((IF EvenY(d) THEN d ELSE Order - d) + TapTweak[X(d)]) % Order

\* validate_utxo_script, and the key the source has for the script; the
\* address a coin is listed under may be another form of the same key.
Spendable(key, coin) ==
    /\ coin.form \notin {"p2sh", "other"}
    /\ coin.program = IF coin.form = "p2tr" THEN OutputKey(X(key)) ELSE key

ListedInputs == FlattenSeq([s \in DOMAIN listing |->
            [c \in DOMAIN listing[s].coins |->
                [key |-> listing[s].key, coin |-> listing[s].coins[c]]]])

----------------------------------------------------------------------------
(* Digests *)

Outpoints(tx) == [i \in DOMAIN tx.ins |-> tx.ins[i].outpoint]

\* The preimage of _legacy_script_sig: every other scriptSig blanked.
LegacyDigest(tx, i, code) ==
    <<"legacy", [z \in DOMAIN tx.ins |->
        <<tx.ins[z].outpoint, IF z = i THEN code ELSE EmptyScript>>], tx.outs>>

\* _bip143_sighash_in_range
Bip143Digest(tx, i, program, amount) ==
    <<"bip143", Outpoints(tx), i, <<"lock", "p2pkh", program>>, amount, tx.outs>>

\* _taproot_sig_msg with SIGHASH_DEFAULT and no annex.
TaprootDigest(tx, i, spend) ==
    <<"taproot", Outpoints(tx), spend, i, tx.outs>>

\* SpendContext: amount and lock script of every input.
Spend == [i \in DOMAIN vin |-> <<vin[i].coin.amount, ScriptPubKey(vin[i].coin)>>]

----------------------------------------------------------------------------
(* Signatures *)

Ecdsa(key, digest) == <<"ecdsa", key, digest>>
\* BIP-340 signing normalises the scalar and is checked with an x coordinate.
Schnorr(scalar, digest) == <<"schnorr", X(scalar), digest>>

\* The transaction of this build before signing: the lock scripts stand where
\* the scriptSigs will be.
Unsigned(n) ==
    [ins |-> [i \in DOMAIN vin |-> [outpoint |-> vin[i].coin.outpoint,
                script |-> ScriptPubKey(vin[i].coin), witness |-> <<>>]],
     outs |-> n]

\* One turn of the loop of sign_segwit; `tx` is the copy made so far.
SignedInput(tx, i) ==
    LET self == Unsigned(tx.outs)
        key == vin[i].key
        coin == vin[i].coin
    IN  CASE coin.form = "p2wpkh" ->
               [tx.ins[i] EXCEPT
                  !.script = EmptyScript,
                  !.witness = <<Ecdsa(key, Bip143Digest(tx, i, coin.program, coin.amount)), key>>]
          [] coin.form = "p2tr" ->
               [tx.ins[i] EXCEPT
                  !.script = EmptyScript,
                  !.witness = <<Schnorr(TweakedScalar(key), TaprootDigest(tx, i, Spend))>>]
          [] OTHER ->
               [tx.ins[i] EXCEPT
                  !.script = ScriptSig(<<Ecdsa(key, LegacyDigest(self, i, self.ins[i].script)), key>>)]

----------------------------------------------------------------------------
SigningInit ==
    /\ listing \in Listings
    /\ vin = <<>> /\ outs = 0
    /\ signed = [ins |-> <<>>, outs |-> 0, done |-> 0]
    /\ candidates = <<>>

\* _make_vin raises on the first coin its key cannot spend, and nothing
\* is built.
MakeVin ==
    /\ vin = <<>> /\ ListedInputs # <<>>
    /\ \A i \in DOMAIN ListedInputs : Spendable(ListedInputs[i].key, ListedInputs[i].coin)
    /\ vin' = ListedInputs
    /\ UNCHANGED <<listing, outs, signed, candidates>>

\* An iteration of the fee loop builds other outputs over the same vin.
Build ==
    /\ vin # <<>> /\ outs < MaxBuilds
    /\ signed.done = Len(signed.ins)
    /\ outs' = outs + 1
    /\ signed' = [ins |-> Unsigned(outs').ins, outs |-> outs', done |-> 0]
    /\ UNCHANGED <<listing, vin, candidates>>

\* sign_segwit signs one input; the last one completes the copy.
SignInput ==
    /\ signed.done < Len(signed.ins)
    /\ LET i == signed.done + 1
       IN  signed' = [signed EXCEPT !.ins[i] = SignedInput(signed, i), !.done = i]
    /\ candidates' = IF signed'.done = Len(signed.ins)
                     THEN Append(candidates, signed') ELSE candidates
    /\ UNCHANGED <<listing, vin, outs>>

SigningNext == MakeVin \/ Build \/ SignInput

SigningSpec == SigningInit /\ [][SigningNext]_signing

----------------------------------------------------------------------------
SigningTypeOK ==
    /\ listing \in Listings
    /\ vin \in Seq([key : Scalar, coin : Coin])
    /\ outs \in 0..MaxBuilds
    /\ Len(signed.ins) \in {0, Len(vin)} /\ signed.done \in 0..Len(signed.ins)
    /\ Len(candidates) \in {outs - 1, outs} \cup {0}

----------------------------------------------------------------------------
(* The node *)

\* The coins are those of the chain, in the order of the inputs.
Accepted(tx, i) ==
    LET coin == vin[i].coin
        chain == [z \in DOMAIN vin |-> <<vin[z].coin.amount, ScriptPubKey(vin[z].coin)>>]
        in == tx.ins[i]
    IN  /\ in.outpoint = coin.outpoint
        /\ CASE coin.form = "p2pkh" ->
                  /\ in.witness = <<>>
                  /\ in.script = ScriptSig(<<Ecdsa(coin.program,
                        LegacyDigest(tx, i, ScriptPubKey(coin))), coin.program>>)
             [] coin.form = "p2wpkh" ->
                  /\ in.script = EmptyScript
                  /\ in.witness = <<Ecdsa(coin.program,
                        Bip143Digest(tx, i, coin.program, coin.amount)), coin.program>>
             [] coin.form = "p2tr" ->
                  /\ in.script = EmptyScript
                  /\ in.witness = <<<<"schnorr", coin.program, TaprootDigest(tx, i, chain)>>>>
             [] OTHER -> FALSE

\* Every transaction the fee loop could return is one that a node accepts at
\* each input: whatever the forms and keys of the inputs and the parities of
\* the keys, and although the inputs are signed again for every size that is
\* tried (sign_segwit works on a copy, and _make_vin lets in no coin that its
\* key cannot spend).
CandidatesVerify ==
    \A c \in DOMAIN candidates : \A i \in DOMAIN vin : Accepted(candidates[c], i)
=============================================================================
