----------------------------- MODULE PsbtRoles -----------------------------
(***************************************************************************)
(* The BIP-174 roles of src/src/yubtc/psbt.py, run by several parties on   *)
(* copies of a PSBT: create_psbt, sign_psbt, combine_psbt, finalize_psbt   *)
(* and extract_transaction.  Every party keeps one copy; a copy travels to *)
(* another party at any time, any number of times, or never.               *)
(*                                                                         *)
(* A single-key input (p2pkh, p2wpkh, p2tr key path) is a quorum of one    *)
(* key.  A signature is a record of who made it over which draft; `pinned` *)
(* is whether it carries the sighash of the input's form (the last byte,   *)
(* or the length of a Schnorr signature).  PARTIAL_SIG and TAP_SCRIPT_SIG  *)
(* are keyed by public key and kept sorted by it: a set with at most one   *)
(* signature per key.  The final scriptSig or witness is the set of        *)
(* signatures it carries; their order is the script's.  The empty set is   *)
(* an absent field, as _input_pairs writes it.                             *)
(***************************************************************************)
EXTENDS Integers, FiniteSets, Sequences

CONSTANTS
    Parties,      \* who holds a copy: a wallet each
    Key,          \* public keys
    Draft,        \* unsigned transactions over the same outpoints
    Inputs,       \* 1..n
    Form,         \* input -> script form of the UTXO it spends
    Quorum,       \* input -> sequence of its keys, in script order
    Threshold,    \* input -> signatures its script asks for
    Walk,         \* party -> its keys, in the order sign_psbt derives them
    Requests,     \* what a caller may pass to create_psbt, per input
    ForeignDocs,  \* documents other software hands in
    NoDoc         \* the party has no copy yet

\* Forms that are spent through a script the document must carry: the
\* REDEEM_SCRIPT, the WITNESS_SCRIPT or the first TAP_LEAF_SCRIPT.
ScriptForms == {"p2sh", "p2wsh", "p2tr_leaf"}
Forms == ScriptForms \cup {"p2pkh", "p2wpkh", "p2tr"}

\* "canonical": the quorum script, committed to by the scriptPubKey;
\* "uncommitted": canonical but some other script; "odd": not canonical.
Scripts == {"none", "canonical", "uncommitted", "odd"}

Prevs == {"none", "match", "other"}

Members == [i \in Inputs |-> {Quorum[i][n] : n \in DOMAIN Quorum[i]}]

Position(i, key) == CHOOSE n \in DOMAIN Quorum[i] : Quorum[i][n] = key

Sig == [key : Key, draft : Draft, pinned : BOOLEAN]

\* `utxo`: WITNESS_UTXO or the spent output of NON_WITNESS_UTXO is there.
\* `prev`: NON_WITNESS_UTXO; "other" is one transaction that the outpoint does
\* not name.
PsbtIn == [utxo : BOOLEAN,
           prev : Prevs,
           script : Scripts,
           sighash : {"none", "form", "other"},
           sigs : SUBSET Sig,
           final : SUBSET Sig]

Psbt == [draft : Draft, ins : [Inputs -> PsbtIn]]

\* BIP-174 key uniqueness, which the parser enforces.
OneSigPerKey(in) == \A s, t \in in.sigs : s.key = t.key => s = t

ASSUME FormAssumption == Form \in [Inputs -> Forms]
ASSUME QuorumAssumption ==
    /\ Quorum \in [Inputs -> Seq(Key)]
    /\ Threshold \in [Inputs -> Nat \ {0}]
    /\ \A i \in Inputs : IsFiniteSet(Members[i])
ASSUME WalkAssumption == Walk \in [Parties -> Seq(Key)]
ASSUME RequestsAssumption ==
    Requests \subseteq [Inputs -> [script : Scripts,
                                   prev : Prevs]]
\* No role verifies a signature, so the premise is that a document comes with
\* signatures over its own draft only, and with no final field.
ASSUME ForeignAssumption ==
    /\ ForeignDocs \subseteq Psbt
    /\ \A doc \in ForeignDocs : \A i \in Inputs :
         /\ OneSigPerKey(doc.ins[i])
         /\ doc.ins[i].final = {}
         /\ \A s \in doc.ins[i].sigs : s.draft = doc.draft
ASSUME NoDocAssumption == NoDoc \notin Psbt

VARIABLES
    copy,        \* party -> its PSBT
    txs,         \* transactions the Extractor has built
    authorised   \* history: every signature made, [key, draft, input]

vars == <<copy, txs, authorised>>

----------------------------------------------------------------------------
(* create_psbt *)

\* The full previous transaction is mandatory where the digest does not
\* commit to the amount: p2pkh, and p2sh spent through a known script.
NeedsPrev(i, request) ==
    \/ Form[i] = "p2pkh"
    \/ Form[i] = "p2sh" /\ request[i].script # "none"

\* IncompleteInput, UtxoMismatch or UnsupportedInputScript.
CreateRefuses(i, request) ==
    \/ NeedsPrev(i, request) /\ request[i].prev # "match"
    \/ Form[i] \in ScriptForms /\ request[i].script \in {"uncommitted", "odd"}
    \/ Form[i] = "p2tr" /\ request[i].script # "none"

\* A script given for p2pkh or p2wpkh is dropped, and so is a previous
\* transaction the form does not need.
CreatedInput(i, request) ==
    [utxo |-> TRUE,
     prev |-> IF NeedsPrev(i, request) THEN request[i].prev ELSE "none",
     script |-> IF Form[i] \in ScriptForms THEN request[i].script ELSE "none",
     sighash |-> "none", sigs |-> {}, final |-> {}]

----------------------------------------------------------------------------
(* sign_psbt_input and the walk of sign_psbt *)

\* The script in the document is the one the output commits to.  A leaf on a
\* key-path output is taken for a script path, and never is.
Usable(i, in) ==
    CASE Form[i] \in ScriptForms -> in.script = "canonical"
      [] Form[i] = "p2tr" -> in.script = "none"
      [] OTHER -> TRUE

\* UnsupportedInputScript or UtxoMismatch: raised before the key is looked
\* at, so the first key of the walk meets it.  A script-path output without
\* its leaf is taken for a key-path output of somebody else.
SignRefuses(doc, i) ==
    /\ doc.ins[i].utxo
    /\ ~Usable(i, doc.ins[i])
    /\ ~(Form[i] = "p2tr_leaf" /\ doc.ins[i].script = "none")

\* The key is one the input asks for and the sighash is the form's.
Eligible(doc, i, key) ==
    /\ doc.ins[i].utxo
    /\ Usable(i, doc.ins[i])
    /\ key \in Members[i]
    /\ doc.ins[i].sighash # "other"

HasSigOf(in, key) == \E s \in in.sigs : s.key = key

\* BIP-341 digests commit to every input; the others do not.
DigestKnown(doc, i) ==
    Form[i] \in {"p2tr", "p2tr_leaf"} => \A j \in Inputs : doc.ins[j].utxo

\* sign_psbt_input returns True: the signature is there already or can be
\* made.
Signs(doc, i, key) ==
    /\ Eligible(doc, i, key)
    /\ doc.ins[i].prev # "other"
    /\ HasSigOf(doc.ins[i], key) \/ DigestKnown(doc, i)

\* sign_psbt_input raises and sign_psbt does not catch it.  The previous
\* transaction is compared for an eligible key only, be it the wallet's last.
Refuses(doc, i, key) ==
    \/ SignRefuses(doc, i)
    \/ Eligible(doc, i, key) /\ doc.ins[i].prev = "other"

\* The keys of party p, by their place in its walk, that input i is offered
\* to: each key goes through the inputs in order, and an error ends the walk.
Offered(doc, i, p) ==
    {n \in DOMAIN Walk[p] : \A m \in 1..n, j \in Inputs :
        Refuses(doc, j, Walk[p][m]) => m = n /\ i < j}

\* The walk marks an input signed at the first key that signs it, and does
\* not offer it to the wallet's later keys.
FirstSigner(doc, i, p) ==
    LET signing == {n \in Offered(doc, i, p) : Signs(doc, i, Walk[p][n])}
    IN  {Walk[p][n] : n \in {m \in signing : \A l \in signing : m <= l}}

\* The keys that add a signature: none when it is in place.
NewSigners(doc, i, p) ==
    {key \in FirstSigner(doc, i, p) : ~HasSigOf(doc.ins[i], key)}

Signed(doc, p) ==
    [doc EXCEPT !.ins = [i \in Inputs |-> [doc.ins[i] EXCEPT !.sigs = @ \cup
        {[key |-> key, draft |-> doc.draft, pinned |-> TRUE] :
            key \in NewSigners(doc, i, p)}]]]

----------------------------------------------------------------------------
(* combine_psbt *)

\* Mutant: an absent field differs from a present one.
FieldsConflict_AbsentDiffers(a, b, absent) == a # b

\* Both present and not equal: ConflictingField.
FieldsConflict(a, b, absent) == a # absent /\ b # absent /\ a # b

\* A leaf is merged by its control block; the leaves of one draft's input
\* have the same one (a single leaf under one internal key).
InputsConflict(a, b) ==
    \/ FieldsConflict(a.prev, b.prev, "none")
    \/ FieldsConflict(a.script, b.script, "none")
    \/ FieldsConflict(a.sighash, b.sighash, "none")
    \/ FieldsConflict(a.final, b.final, {})
    \/ \E s \in a.sigs, t \in b.sigs : s.key = t.key /\ s # t

\* Mutant: the transactions are not compared.
CombineRefuses_AnyTransaction(doc, other) ==
    \E i \in Inputs : InputsConflict(doc.ins[i], other.ins[i])

\* ForeignTransaction, or a conflict in some input.
CombineRefuses(doc, other) ==
    \/ doc.draft # other.draft
    \/ \E i \in Inputs : InputsConflict(doc.ins[i], other.ins[i])

MergeField(a, b, absent) == IF a = absent THEN b ELSE a

\* Mutant: a list that is present on one side is kept as it is.
MergeInput_KeepsList(a, b) ==
    [utxo |-> a.utxo \/ b.utxo,
     prev |-> MergeField(a.prev, b.prev, "none"),
     script |-> MergeField(a.script, b.script, "none"),
     sighash |-> MergeField(a.sighash, b.sighash, "none"),
     sigs |-> MergeField(a.sigs, b.sigs, {}),
     final |-> MergeField(a.final, b.final, {})]

MergeInput(a, b) ==
    [utxo |-> a.utxo \/ b.utxo,
     prev |-> MergeField(a.prev, b.prev, "none"),
     script |-> MergeField(a.script, b.script, "none"),
     sighash |-> MergeField(a.sighash, b.sighash, "none"),
     sigs |-> a.sigs \cup b.sigs,
     final |-> MergeField(a.final, b.final, {})]

Combined(doc, other) ==
    [doc EXCEPT !.ins = [i \in Inputs |->
        MergeInput(doc.ins[i], other.ins[i])]]

----------------------------------------------------------------------------
(* finalize_psbt_input, finalize_psbt, extract_transaction *)

MemberSigs(i, in) == {s \in in.sigs : s.key \in Members[i]}

\* The first Threshold[i] member signatures in script order; the others are
\* dropped from the tail (p2tr_leaf: their slots stay empty).
IsFirst(i, taken, present) ==
    /\ Cardinality(taken) = Threshold[i]
    /\ \A s \in taken, t \in present \ taken :
         Position(i, s.key) < Position(i, t.key)

\* Mutant: no signature's sighash is looked at.
Checked_None(i, taken, present) == {}

\* Which signatures must carry the form's sighash: every member's for
\* CHECKMULTISIG, only those taken for CHECKSIGADD.
Checked(i, taken, present) == IF Form[i] = "p2tr_leaf" THEN taken ELSE present

\* Mutant: the early return for a finalized input is gone.
Finalizes_Again(i, in, taken) ==
    /\ in.utxo
    /\ Usable(i, in)
    /\ in.sighash # "other"
    /\ IsFirst(i, taken, MemberSigs(i, in))
    /\ \A s \in Checked(i, taken, MemberSigs(i, in)) : s.pinned

Finalizes(i, in, taken) ==
    /\ in.final = {}
    /\ in.utxo
    /\ Usable(i, in)
    /\ in.sighash # "other"
    /\ IsFirst(i, taken, MemberSigs(i, in))
    /\ \A s \in Checked(i, taken, MemberSigs(i, in)) : s.pinned

\* PARTIAL_SIG, SIGHASH_TYPE and the scripts go, the UTXO stays.
FinalizedInput(in, taken) ==
    [utxo |-> in.utxo, prev |-> in.prev, script |-> "none",
     sighash |-> "none", sigs |-> {}, final |-> taken]

\* Mutant: the intermediate fields go before the signatures are counted.
FinalizeInput_ClearsFirst(i, in) ==
    LET complete == {taken \in SUBSET MemberSigs(i, in) :
                        Finalizes(i, in, taken)}
    IN  FinalizedInput(in, IF complete = {} THEN in.final
                           ELSE CHOOSE taken \in complete : TRUE)

\* Per-input errors are swallowed: the input is left as it is.
FinalizeInput(i, in) ==
    LET complete == {taken \in SUBSET MemberSigs(i, in) :
                        Finalizes(i, in, taken)}
    IN  IF complete = {} THEN in
        ELSE FinalizedInput(in, CHOOSE taken \in complete : TRUE)

Finalized(doc) ==
    [doc EXCEPT !.ins = [i \in Inputs |-> FinalizeInput(i, doc.ins[i])]]

\* NotFinalized otherwise.
Extractable(doc) ==
    \A i \in Inputs : doc.ins[i].utxo /\ doc.ins[i].final # {}

Extracted(doc) ==
    [draft |-> doc.draft, proof |-> [i \in Inputs |-> doc.ins[i].final]]

----------------------------------------------------------------------------
Init ==
    /\ copy = [p \in Parties |-> NoDoc]
    /\ txs = {}
    /\ authorised = {}

HasCopy(p) == copy[p] # NoDoc

CreatePsbt(p, draft, request) ==
    /\ ~HasCopy(p)
    /\ \A i \in Inputs : ~CreateRefuses(i, request)
    /\ copy' = [copy EXCEPT ![p] =
         [draft |-> draft, ins |-> [i \in Inputs |-> CreatedInput(i, request)]]]
    /\ UNCHANGED <<txs, authorised>>

\* A copy is stored by a party that has none, and combined with its copy by
\* a party that has one.
Accept(p, doc) ==
    IF HasCopy(p)
    THEN /\ ~CombineRefuses(copy[p], doc)
         /\ copy' = [copy EXCEPT ![p] = Combined(copy[p], doc)]
    ELSE copy' = [copy EXCEPT ![p] = doc]

\* combine_psbt with another party's copy, as the file is when it is read.
CombinePsbt(p, q) ==
    /\ p # q
    /\ HasCopy(q)
    /\ Accept(p, copy[q])
    /\ UNCHANGED <<txs, authorised>>

\* A document of other software, with the signatures it made.
ImportPsbt(p, doc) ==
    /\ Accept(p, doc)
    /\ authorised' = authorised \cup
         UNION {{[key |-> s.key, draft |-> s.draft, input |-> i] :
                    s \in doc.ins[i].sigs} : i \in Inputs}
    /\ UNCHANGED txs

\* sign_psbt works in place: what was signed before an error stays signed.
SignPsbt(p) ==
    /\ HasCopy(p)
    /\ copy' = [copy EXCEPT ![p] = Signed(copy[p], p)]
    /\ authorised' = authorised \cup
         UNION {{[key |-> key, draft |-> copy[p].draft, input |-> i] :
                    key \in NewSigners(copy[p], i, p)} : i \in Inputs}
    /\ UNCHANGED txs

FinalizePsbt(p) ==
    /\ HasCopy(p)
    /\ copy' = [copy EXCEPT ![p] = Finalized(copy[p])]
    /\ UNCHANGED <<txs, authorised>>

ExtractTransaction(p) ==
    /\ HasCopy(p)
    /\ Extractable(copy[p])
    /\ txs' = txs \cup {Extracted(copy[p])}
    /\ UNCHANGED <<copy, authorised>>

Next ==
    \E p \in Parties :
        \/ \E draft \in Draft, request \in Requests :
                CreatePsbt(p, draft, request)
        \/ \E q \in Parties : CombinePsbt(p, q)
        \/ \E doc \in ForeignDocs : ImportPsbt(p, doc)
        \/ SignPsbt(p)
        \/ FinalizePsbt(p)
        \/ ExtractTransaction(p)

Spec == Init /\ [][Next]_vars

\* The cosigners keep at it: whoever can sign, combine, finalize or extract
\* at any time from some point on does so.  Nothing in the code runs by
\* itself; this is what the exchange asks of its users.
FairSpec ==
    /\ Spec
    /\ \A p \in Parties :
         /\ WF_vars(FinalizePsbt(p))
         /\ WF_vars(ExtractTransaction(p))
         /\ \A q \in Parties : WF_vars(CombinePsbt(p, q))

----------------------------------------------------------------------------
TypeOK ==
    /\ copy \in [Parties -> Psbt \cup {NoDoc}]
    /\ txs \subseteq [draft : Draft, proof : [Inputs -> SUBSET Sig]]
    /\ authorised \subseteq [key : Key, draft : Draft, input : Inputs]

\* What the Extractor builds is a spend the network accepts: every input
\* carries as many signatures as its script asks for, no more (CHECKSIGADD
\* would count them), of distinct members, each over this transaction and
\* with the sighash of the form -- however copies were merged, finalized
\* halfway and merged again, with other software taking part as far as
\* ForeignAssumption lets it.
ThresholdMet ==
    \A tx \in txs : \A i \in Inputs :
        /\ Cardinality(tx.proof[i]) = Threshold[i]
        /\ Cardinality({s.key : s \in tx.proof[i]}) = Threshold[i]
        /\ \A s \in tx.proof[i] :
             s.key \in Members[i] /\ s.draft = tx.draft /\ s.pinned

\* A final field is never replaced and never removed: finalize_psbt_input
\* leaves a finalized input alone, and combine_psbt refuses another value.
FinalStays ==
    [][\A p \in Parties : HasCopy(p) =>
         \A i \in Inputs : copy[p].ins[i].final # {} =>
            copy'[p].ins[i].final = copy[p].ins[i].final]_vars

\* No role loses a signature: it stays in the copy until the Finalizer
\* closes the input, and then a full quorum of those it had is kept.
SignaturesKept ==
    [][\A p \in Parties : HasCopy(p) =>
         \A i \in Inputs :
            LET in == copy[p].ins[i]
                now == copy'[p].ins[i]
            IN  \/ in.sigs \subseteq now.sigs
                \/ /\ in.final = {}
                   /\ now.final \subseteq in.sigs
                   /\ Cardinality(now.final) = Threshold[i]]_vars

\* Copies of one draft merge in any order while nobody has finalized: the
\* wallets' signatures are deterministic, and a field one side lacks is
\* filled from the other.  Stated where no other software takes part.
OpenCopiesMerge ==
    \A p, q \in Parties :
        /\ ForeignDocs = {}
        /\ HasCopy(p) /\ HasCopy(q)
        /\ copy[p].draft = copy[q].draft
        /\ \A i \in Inputs :
             copy[p].ins[i].final = {} /\ copy[q].ins[i].final = {}
        => ~CombineRefuses(copy[p], copy[q])

QuorumSigned(draft) ==
    \A i \in Inputs : \E quorum \in SUBSET Members[i] :
        /\ Cardinality(quorum) = Threshold[i]
        /\ \A k \in quorum :
             [key |-> k, draft |-> draft, input |-> i] \in authorised

\* Once a quorum has signed a draft, wherever the signatures are, the
\* exchange of copies ends in a transaction.
QuorumCompletes ==
    \A draft \in Draft :
        QuorumSigned(draft) ~> \E tx \in txs : tx.draft = draft

\* The exchange implements the abstract promise: a draft is spent only after
\* a quorum authorised it at every input.
Promise == INSTANCE QuorumSpend WITH spent <- {tx.draft : tx \in txs}
PromiseSpec == Promise!Spec
=============================================================================
