--------------------------- MODULE PsbtRolesProofs --------------------------
(***************************************************************************)
(* Proof that an exchange of PSBT copies implements QuorumSpend, and of    *)
(* ThresholdMet, FinalStays and SignaturesKept, for any parties, drafts,   *)
(* inputs, forms and quorums, and any documents of other software.         *)
(*                                                                         *)
(* The invariant speaks of each copy alone (GoodDoc): its signatures, open *)
(* or final, are over its own draft and were made by their owners for that *)
(* draft at that input, and a final field is a complete quorum.  Copies    *)
(* are good wherever they come from, so neither the way they travelled nor *)
(* the order of the merges matters.                                        *)
(***************************************************************************)
EXTENDS PsbtRoles, FiniteSetTheorems, TLAPS

Authorisation == [key : Key, draft : Draft, input : Inputs]

\* Each signature is over the draft, and its owner made it for this input.
Justified(sigs, draft, i, made) ==
    \A s \in sigs : s.draft = draft /\ [key |-> s.key, draft |-> draft, input |-> i] \in made

DistinctKeys(sigs) == \A s, t \in sigs : s.key = t.key => s = t

\* What the Finalizer leaves: a quorum, each member once.
Complete(i, proof) ==
    /\ Cardinality(proof) = Threshold[i]
    /\ DistinctKeys(proof)
    /\ \A s \in proof : s.key \in Members[i] /\ s.pinned

GoodInput(in, i, draft, made) ==
    /\ in \in PsbtIn
    /\ DistinctKeys(in.sigs)
    /\ Justified(in.sigs, draft, i, made) /\ Justified(in.final, draft, i, made)
    /\ in.final # {} => Complete(i, in.final)

GoodDoc(doc, made) ==
    /\ doc \in Psbt
    /\ \A i \in Inputs : GoodInput(doc.ins[i], i, doc.draft, made)

GoodTx(tx, made) ==
    /\ tx.draft \in Draft /\ tx.proof \in [Inputs -> SUBSET Sig]
    /\ \A i \in Inputs : Complete(i, tx.proof[i]) /\ Justified(tx.proof[i], tx.draft, i, made)

IInv ==
    /\ TypeOK
    /\ \A p \in Parties : HasCopy(p) => GoodDoc(copy[p], authorised)
    /\ \A tx \in txs : GoodTx(tx, authorised)

----------------------------------------------------------------------------
(* Documents *)

\* More signatures made elsewhere take nothing from a document.
LEMMA GoodStays ==
    ASSUME NEW made, NEW more, made \subseteq more
    PROVE  /\ \A doc : GoodDoc(doc, made) => GoodDoc(doc, more)
           /\ \A tx : GoodTx(tx, made) => GoodTx(tx, more)
<1>1. \A sigs, draft, i : Justified(sigs, draft, i, made) => Justified(sigs, draft, i, more)
    BY DEF Justified
<1> QED BY <1>1 DEF GoodDoc, GoodInput, GoodTx

\* create_psbt leaves no signature in its document.
LEMMA CreatedGood ==
    ASSUME NEW draft \in Draft, NEW request \in Requests, NEW made
    PROVE  GoodDoc([draft |-> draft, ins |-> [i \in Inputs |-> CreatedInput(i, request)]], made)
<1> DEFINE doc == [draft |-> draft, ins |-> [i \in Inputs |-> CreatedInput(i, request)]]
<1>1. ASSUME NEW i \in Inputs
      PROVE  GoodInput(CreatedInput(i, request), i, draft, made)
    <2>1. request[i].script \in Scripts /\ request[i].prev \in Prevs
        BY RequestsAssumption
    <2>2. CreatedInput(i, request) \in PsbtIn
        BY <2>1 DEF CreatedInput, PsbtIn, Scripts, Prevs
    <2>3. CreatedInput(i, request).sigs = {} /\ CreatedInput(i, request).final = {}
        BY DEF CreatedInput
    <2> QED BY <2>2, <2>3 DEF GoodInput, DistinctKeys, Justified
<1>2. doc \in Psbt BY <1>1 DEF Psbt, GoodInput
<1> QED BY <1>1, <1>2 DEF GoodDoc

\* The document of other software: its signatures count as made.
LEMMA ForeignGood ==
    ASSUME NEW doc \in ForeignDocs, NEW made,
           \A i \in Inputs : \A s \in doc.ins[i].sigs :
               [key |-> s.key, draft |-> s.draft, input |-> i] \in made
    PROVE  GoodDoc(doc, made)
<1>1. doc \in Psbt BY ForeignAssumption
<1>2. ASSUME NEW i \in Inputs
      PROVE  GoodInput(doc.ins[i], i, doc.draft, made)
    <2>1. doc.ins[i] \in PsbtIn BY <1>1 DEF Psbt
    <2>2. /\ OneSigPerKey(doc.ins[i]) /\ doc.ins[i].final = {}
          /\ \A s \in doc.ins[i].sigs : s.draft = doc.draft
        BY ForeignAssumption
    <2> QED BY <2>1, <2>2 DEF GoodInput, OneSigPerKey, DistinctKeys, Justified
<1> QED BY <1>1, <1>2 DEF GoodDoc

\* combine_psbt compares the drafts and refuses two signatures of one key.
LEMMA CombinedGood ==
    ASSUME NEW doc, NEW other, NEW made, GoodDoc(doc, made), GoodDoc(other, made),
           ~CombineRefuses(doc, other)
    PROVE  GoodDoc(Combined(doc, other), made)
<1>1. doc.draft = other.draft /\ doc \in Psbt /\ other \in Psbt
    BY DEF GoodDoc, CombineRefuses
<1>2. ASSUME NEW i \in Inputs
      PROVE  GoodInput(MergeInput(doc.ins[i], other.ins[i]), i, doc.draft, made)
    <2> DEFINE a == doc.ins[i]
               b == other.ins[i]
               m == MergeInput(a, b)
    <2>1. GoodInput(a, i, doc.draft, made) /\ GoodInput(b, i, doc.draft, made)
        BY <1>1 DEF GoodDoc
    <2>2. \A s \in a.sigs, t \in b.sigs : s.key = t.key => s = t
        BY DEF CombineRefuses, InputsConflict
    <2> HIDE DEF a, b
    <2>3. m.sigs = a.sigs \cup b.sigs /\ m.final \in {a.final, b.final}
        BY DEF MergeInput, MergeField
    <2>4. m \in PsbtIn BY <2>1 DEF GoodInput, PsbtIn, MergeInput, MergeField
    <2>5. DistinctKeys(m.sigs) BY <2>1, <2>2, <2>3 DEF GoodInput, DistinctKeys
    <2>6. Justified(m.sigs, doc.draft, i, made) /\ Justified(m.final, doc.draft, i, made)
        BY <2>1, <2>3 DEF GoodInput, Justified
    <2>7. m.final # {} => Complete(i, m.final) BY <2>1, <2>3 DEF GoodInput
    <2> QED BY <2>4, <2>5, <2>6, <2>7 DEF GoodInput, a, b
<1>3. /\ Combined(doc, other).draft = doc.draft
      /\ Combined(doc, other).ins = [i \in Inputs |-> MergeInput(doc.ins[i], other.ins[i])]
    BY <1>1 DEF Combined, Psbt
<1>4. Combined(doc, other) \in Psbt
    <2>1. \A i \in Inputs : MergeInput(doc.ins[i], other.ins[i]) \in PsbtIn
        BY <1>2 DEF GoodInput
    <2> QED BY <1>1, <2>1 DEF Combined, Psbt
<1> QED BY <1>2, <1>3, <1>4 DEF GoodDoc

\* The signatures sign_psbt adds at an input.
NewSigs(doc, i, p) ==
    {[key |-> key, draft |-> doc.draft, pinned |-> TRUE] : key \in NewSigners(doc, i, p)}

\* Who signs is a key of the wallet without a signature at the input.
LEMMA SignersAre ==
    ASSUME NEW doc, NEW i \in Inputs, NEW p \in Parties, NEW key \in NewSigners(doc, i, p)
    PROVE  key \in Key /\ ~HasSigOf(doc.ins[i], key)
<1>1. key \in FirstSigner(doc, i, p) /\ ~HasSigOf(doc.ins[i], key) BY DEF NewSigners
<1>2. Offered(doc, i, p) \subseteq DOMAIN Walk[p] BY DEF Offered
<1>3. \E n \in Offered(doc, i, p) : key = Walk[p][n] BY <1>1 DEF FirstSigner
<1>4. PICK n \in DOMAIN Walk[p] : key = Walk[p][n] BY <1>2, <1>3
<1>5. Walk[p] \in Seq(Key) BY WalkAssumption
<1>6. Walk[p][n] \in Key BY <1>4, <1>5
<1> QED BY <1>1, <1>4, <1>6

\* sign_psbt_input adds a signature over the document's own draft, by a key
\* that has none there.
LEMMA SignedGood ==
    ASSUME NEW doc, NEW p \in Parties, NEW made, GoodDoc(doc, made),
           \A i \in Inputs : \A key \in NewSigners(doc, i, p) :
               [key |-> key, draft |-> doc.draft, input |-> i] \in made
    PROVE  GoodDoc(Signed(doc, p), made)
<1> DEFINE New(i) == [doc.ins[i] EXCEPT !.sigs = @ \cup NewSigs(doc, i, p)]
<1>1. doc \in Psbt BY DEF GoodDoc
<1>2. ASSUME NEW i \in Inputs
      PROVE  GoodInput(New(i), i, doc.draft, made)
    <2> DEFINE in == doc.ins[i]
    <2>1. GoodInput(in, i, doc.draft, made) /\ doc.draft \in Draft
        BY <1>1 DEF GoodDoc, Psbt
    <2>2. ASSUME NEW s \in NewSigs(doc, i, p)
          PROVE  /\ s \in Sig /\ s.draft = doc.draft /\ ~HasSigOf(in, s.key)
                 /\ [key |-> s.key, draft |-> doc.draft, input |-> i] \in made
                 /\ s = [key |-> s.key, draft |-> doc.draft, pinned |-> TRUE]
        <3>1. PICK key \in NewSigners(doc, i, p) :
                s = [key |-> key, draft |-> doc.draft, pinned |-> TRUE]
            BY DEF NewSigs
        <3>2. key \in Key /\ ~HasSigOf(in, key) BY SignersAre
        <3>3. s.key = key /\ s.draft = doc.draft BY <3>1
        <3>4. s \in Sig BY <2>1, <3>1, <3>2 DEF Sig
        <3> QED BY <3>1, <3>2, <3>3, <3>4
    <2>3. \A s, t \in NewSigs(doc, i, p) : s.key = t.key => s = t BY <2>2
    <2>4. \A s \in NewSigs(doc, i, p) : \A t \in in.sigs : s.key # t.key
        BY <2>2 DEF HasSigOf
    <2>5. in \in PsbtIn BY <2>1 DEF GoodInput
    <2>6. New(i).sigs = in.sigs \cup NewSigs(doc, i, p) /\ New(i).final = in.final
        BY <2>5 DEF PsbtIn
    <2>7. New(i) \in PsbtIn
        <3>1. in.sigs \cup NewSigs(doc, i, p) \in SUBSET Sig BY <2>2, <2>5 DEF PsbtIn
        <3> QED BY <2>5, <3>1 DEF PsbtIn
    <2> HIDE DEF in, New
    <2>8. DistinctKeys(New(i).sigs)
        BY <2>1, <2>3, <2>4, <2>6 DEF GoodInput, DistinctKeys
    <2>9. Justified(New(i).sigs, doc.draft, i, made) /\ Justified(New(i).final, doc.draft, i, made)
        BY <2>1, <2>2, <2>6 DEF GoodInput, Justified
    <2> QED BY <2>1, <2>6, <2>7, <2>8, <2>9 DEF GoodInput
<1>3. /\ Signed(doc, p).draft = doc.draft
      /\ Signed(doc, p).ins = [i \in Inputs |-> New(i)]
    BY <1>1 DEF Signed, Psbt, NewSigs
<1>4. Signed(doc, p) \in Psbt
    <2>1. \A i \in Inputs : New(i) \in PsbtIn BY <1>2 DEF GoodInput
    <2>2. Signed(doc, p) = [doc EXCEPT !.ins = [i \in Inputs |-> New(i)]]
        BY DEF Signed, NewSigs
    <2> HIDE DEF New
    <2> QED BY <1>1, <2>1, <2>2 DEF Psbt
<1> HIDE DEF New
<1> QED BY <1>2, <1>3, <1>4 DEF GoodDoc

\* finalize_psbt_input leaves the input alone or closes it with a quorum of
\* the signatures that were in it.
LEMMA FinalizeCases ==
    ASSUME NEW i \in Inputs, NEW in
    PROVE  \/ FinalizeInput(i, in) = in
           \/ \E taken \in SUBSET MemberSigs(i, in) :
                /\ Finalizes(i, in, taken)
                /\ FinalizeInput(i, in) = FinalizedInput(in, taken)
<1> DEFINE complete == {taken \in SUBSET MemberSigs(i, in) : Finalizes(i, in, taken)}
<1>1. CASE complete = {} BY <1>1 DEF FinalizeInput
<1>2. CASE complete # {}
    <2> DEFINE taken == CHOOSE t \in complete : TRUE
    <2>1. taken \in complete BY <1>2
    <2>2. FinalizeInput(i, in) = FinalizedInput(in, taken) BY <1>2 DEF FinalizeInput
    <2> HIDE DEF taken
    <2> QED BY <2>1, <2>2
<1> QED BY <1>1, <1>2

LEMMA FinalizedGood ==
    ASSUME NEW doc, NEW made, GoodDoc(doc, made)
    PROVE  GoodDoc(Finalized(doc), made)
<1>1. doc \in Psbt BY DEF GoodDoc
<1>2. ASSUME NEW i \in Inputs
      PROVE  GoodInput(FinalizeInput(i, doc.ins[i]), i, doc.draft, made)
    <2> DEFINE in == doc.ins[i]
    <2>1. GoodInput(in, i, doc.draft, made) BY DEF GoodDoc
    <2> HIDE DEF in
    <2>2. ASSUME NEW taken \in SUBSET MemberSigs(i, in), Finalizes(i, in, taken)
          PROVE  GoodInput(FinalizedInput(in, taken), i, doc.draft, made)
        <3> DEFINE now == FinalizedInput(in, taken)
        <3>1. taken \subseteq in.sigs /\ \A s \in taken : s.key \in Members[i]
            BY DEF MemberSigs
        <3>2. Cardinality(taken) = Threshold[i] BY <2>2 DEF Finalizes, IsFirst
        <3>3. \A s \in taken : s.pinned BY <2>2 DEF Finalizes, Checked
        <3>4. now.sigs = {} /\ now.final = taken BY DEF FinalizedInput
        <3>5. now \in PsbtIn
            BY <2>1, <3>1 DEF GoodInput, PsbtIn, FinalizedInput, Scripts
        <3>6. DistinctKeys(taken) /\ Justified(taken, doc.draft, i, made)
            BY <2>1, <3>1 DEF GoodInput, DistinctKeys, Justified
        <3>7. Complete(i, taken) BY <3>1, <3>2, <3>3, <3>6 DEF Complete
        <3> HIDE DEF now
        <3>8. DistinctKeys(now.sigs) /\ Justified(now.sigs, doc.draft, i, made)
            BY <3>4 DEF DistinctKeys, Justified
        <3> QED BY <3>4, <3>5, <3>6, <3>7, <3>8 DEF GoodInput, now
    <2> QED BY <2>1, <2>2, FinalizeCases DEF in
<1>3. /\ Finalized(doc).draft = doc.draft
      /\ Finalized(doc).ins = [i \in Inputs |-> FinalizeInput(i, doc.ins[i])]
    BY <1>1 DEF Finalized, Psbt
<1>4. Finalized(doc) \in Psbt
    <2>1. \A i \in Inputs : FinalizeInput(i, doc.ins[i]) \in PsbtIn BY <1>2 DEF GoodInput
    <2> QED BY <1>1, <2>1 DEF Finalized, Psbt
<1> QED BY <1>2, <1>3, <1>4 DEF GoodDoc

\* Only final fields get into a transaction, one for each input.
LEMMA ExtractedGood ==
    ASSUME NEW doc, NEW made, GoodDoc(doc, made), Extractable(doc)
    PROVE  GoodTx(Extracted(doc), made)
<1>1. doc.draft \in Draft BY DEF GoodDoc, Psbt
<1>2. ASSUME NEW i \in Inputs
      PROVE  /\ doc.ins[i].final \in SUBSET Sig /\ Complete(i, doc.ins[i].final)
             /\ Justified(doc.ins[i].final, doc.draft, i, made)
    BY DEF GoodDoc, GoodInput, PsbtIn, Extractable
<1>3. /\ Extracted(doc).draft = doc.draft
      /\ Extracted(doc).proof = [i \in Inputs |-> doc.ins[i].final]
    BY DEF Extracted
<1> QED BY <1>1, <1>2, <1>3 DEF GoodTx

----------------------------------------------------------------------------
(* Steps *)

LEMMA InitIInv == Init => IInv
<1> SUFFICES ASSUME Init PROVE IInv OBVIOUS
<1>1. copy = [p \in Parties |-> NoDoc] /\ txs = {} /\ authorised = {} BY DEF Init
<1>2. \A p \in Parties : ~HasCopy(p) BY <1>1 DEF HasCopy
<1>3. TypeOK BY <1>1 DEF TypeOK
<1> QED BY <1>1, <1>2, <1>3 DEF IInv

\* One party's copy becomes another good document.
LEMMA OneCopy ==
    ASSUME IInv, NEW p \in Parties, NEW doc, GoodDoc(doc, authorised'),
           copy' = [copy EXCEPT ![p] = doc], UNCHANGED txs,
           authorised \subseteq authorised', authorised' \subseteq Authorisation
    PROVE  IInv'
<1>1. copy \in [Parties -> Psbt \cup {NoDoc}] /\ doc \in Psbt BY DEF IInv, TypeOK, GoodDoc
<1>2. TypeOK' BY <1>1 DEF IInv, TypeOK, Authorisation
<1>3. ASSUME NEW q \in Parties, HasCopy(q)'
      PROVE  GoodDoc(copy'[q], authorised')
    <2>1. CASE q = p
        <3>1. copy'[q] = doc BY <1>1, <2>1
        <3> QED BY <3>1
    <2>2. CASE q # p
        <3>1. copy'[q] = copy[q] BY <1>1, <2>2
        <3>2. GoodDoc(copy[q], authorised) BY <1>3, <3>1 DEF IInv, HasCopy
        <3> QED BY <3>1, <3>2, GoodStays
    <2> QED BY <2>1, <2>2
<1>4. \A tx \in txs' : GoodTx(tx, authorised') BY GoodStays DEF IInv
<1> QED BY <1>2, <1>3, <1>4 DEF IInv

\* A good document that is accepted, as it is or merged with the own copy.
LEMMA AcceptIInv ==
    ASSUME IInv, NEW p \in Parties, NEW doc, GoodDoc(doc, authorised'),
           Accept(p, doc), UNCHANGED txs,
           authorised \subseteq authorised', authorised' \subseteq Authorisation
    PROVE  IInv'
<1>1. CASE HasCopy(p)
    <2>1. /\ ~CombineRefuses(copy[p], doc)
          /\ copy' = [copy EXCEPT ![p] = Combined(copy[p], doc)]
        BY <1>1 DEF Accept
    <2>2. GoodDoc(copy[p], authorised') BY <1>1, GoodStays DEF IInv
    <2>3. GoodDoc(Combined(copy[p], doc), authorised') BY <2>1, <2>2, CombinedGood
    <2> QED BY <2>1, <2>3, OneCopy
<1>2. CASE ~HasCopy(p)
    <2>1. copy' = [copy EXCEPT ![p] = doc] BY <1>2 DEF Accept
    <2> QED BY <2>1, OneCopy
<1> QED BY <1>1, <1>2

LEMMA AuthorisedType == IInv => authorised \subseteq Authorisation
BY DEF IInv, TypeOK, Authorisation

LEMMA CreatePsbtIInv ==
    ASSUME IInv, NEW p \in Parties, NEW draft \in Draft, NEW request \in Requests,
           CreatePsbt(p, draft, request)
    PROVE  IInv'
BY CreatedGood, OneCopy, AuthorisedType DEF CreatePsbt

LEMMA CombinePsbtIInv ==
    ASSUME IInv, NEW p \in Parties, NEW q \in Parties, CombinePsbt(p, q)
    PROVE  IInv'
<1>1. GoodDoc(copy[q], authorised') /\ Accept(p, copy[q]) /\ UNCHANGED <<txs, authorised>>
    BY DEF IInv, CombinePsbt
<1> QED BY <1>1, AcceptIInv, AuthorisedType

LEMMA ImportPsbtIInv ==
    ASSUME IInv, NEW p \in Parties, NEW doc \in ForeignDocs, ImportPsbt(p, doc)
    PROVE  IInv'
<1> DEFINE Made(i) == {[key |-> s.key, draft |-> s.draft, input |-> i] : s \in doc.ins[i].sigs}
<1>1. /\ Accept(p, doc) /\ UNCHANGED txs
      /\ authorised' = authorised \cup UNION {Made(i) : i \in Inputs}
    BY DEF ImportPsbt
<1>2. \A i \in Inputs : Made(i) \subseteq authorised' BY <1>1
<1>3. GoodDoc(doc, authorised') BY <1>2, ForeignGood
<1>4. ASSUME NEW i \in Inputs
      PROVE  Made(i) \subseteq Authorisation
    <2>1. doc.ins[i].sigs \subseteq Sig BY ForeignAssumption DEF Psbt, PsbtIn
    <2> QED BY <2>1 DEF Sig, Authorisation
<1> HIDE DEF Made
<1>5. authorised \subseteq authorised' /\ authorised' \subseteq Authorisation
    BY <1>1, <1>4, AuthorisedType
<1> QED BY <1>1, <1>3, <1>5, AcceptIInv

LEMMA SignPsbtIInv ==
    ASSUME IInv, NEW p \in Parties, SignPsbt(p)
    PROVE  IInv'
<1> DEFINE Made(i) == {[key |-> key, draft |-> copy[p].draft, input |-> i] :
                          key \in NewSigners(copy[p], i, p)}
<1>1. /\ copy' = [copy EXCEPT ![p] = Signed(copy[p], p)] /\ UNCHANGED txs
      /\ authorised' = authorised \cup UNION {Made(i) : i \in Inputs}
      /\ GoodDoc(copy[p], authorised)
    BY DEF IInv, SignPsbt
<1>2. \A i \in Inputs : \A key \in NewSigners(copy[p], i, p) :
        [key |-> key, draft |-> copy[p].draft, input |-> i] \in authorised'
    BY <1>1
<1>3. copy[p].draft \in Draft BY <1>1 DEF GoodDoc, Psbt
<1>4. ASSUME NEW i \in Inputs
      PROVE  Made(i) \subseteq Authorisation
    BY <1>3, SignersAre DEF Authorisation
<1> HIDE DEF Made
<1>5. authorised \subseteq authorised' /\ authorised' \subseteq Authorisation
    BY <1>1, <1>4, AuthorisedType
<1>6. GoodDoc(copy[p], authorised') BY <1>1, <1>5, GoodStays
<1>7. GoodDoc(Signed(copy[p], p), authorised') BY <1>2, <1>6, SignedGood
<1> QED BY <1>1, <1>5, <1>7, OneCopy

LEMMA FinalizePsbtIInv ==
    ASSUME IInv, NEW p \in Parties, FinalizePsbt(p)
    PROVE  IInv'
<1>1. /\ copy' = [copy EXCEPT ![p] = Finalized(copy[p])] /\ UNCHANGED <<txs, authorised>>
      /\ GoodDoc(copy[p], authorised)
    BY DEF IInv, FinalizePsbt
<1>2. GoodDoc(Finalized(copy[p]), authorised) BY <1>1, FinalizedGood
<1> QED BY <1>1, <1>2, OneCopy, AuthorisedType

LEMMA ExtractTransactionIInv ==
    ASSUME IInv, NEW p \in Parties, ExtractTransaction(p)
    PROVE  IInv'
<1>1. /\ txs' = txs \cup {Extracted(copy[p])} /\ UNCHANGED <<copy, authorised>>
      /\ GoodTx(Extracted(copy[p]), authorised)
    BY ExtractedGood DEF IInv, ExtractTransaction
<1>2. Extracted(copy[p]) \in [draft : Draft, proof : [Inputs -> SUBSET Sig]]
    BY <1>1 DEF GoodTx, Extracted
<1>3. TypeOK' BY <1>1, <1>2 DEF IInv, TypeOK
<1>4. \A q \in Parties : HasCopy(q)' => GoodDoc(copy'[q], authorised')
    BY <1>1 DEF IInv, HasCopy
<1>5. \A tx \in txs' : GoodTx(tx, authorised') BY <1>1 DEF IInv
<1> QED BY <1>3, <1>4, <1>5 DEF IInv

LEMMA StepIInv == IInv /\ [Next]_vars => IInv'
<1> SUFFICES ASSUME IInv, [Next]_vars PROVE IInv' OBVIOUS
<1>1. CASE UNCHANGED vars BY <1>1 DEF vars, IInv, TypeOK, HasCopy
<1>2. CASE Next
    <2>1. PICK p \in Parties :
            \/ \E draft \in Draft, request \in Requests : CreatePsbt(p, draft, request)
            \/ \E q \in Parties : CombinePsbt(p, q)
            \/ \E doc \in ForeignDocs : ImportPsbt(p, doc)
            \/ SignPsbt(p) \/ FinalizePsbt(p) \/ ExtractTransaction(p)
        BY <1>2 DEF Next
    <2> QED BY <2>1, CreatePsbtIInv, CombinePsbtIInv, ImportPsbtIInv, SignPsbtIInv,
               FinalizePsbtIInv, ExtractTransactionIInv
<1> QED BY <1>1, <1>2

LEMMA Invariant == Spec => []IInv
BY InitIInv, StepIInv, PTL DEF Spec

\* Copies, transactions and signatures keep their shapes.
THEOREM TypeCorrect == Spec => []TypeOK
<1>1. IInv => TypeOK BY DEF IInv
<1> QED BY <1>1, Invariant, PTL

----------------------------------------------------------------------------
(* The quorum *)

\* A complete proof has as many signers as signatures, all members.
LEMMA SignersOf ==
    ASSUME NEW i \in Inputs, NEW proof, Complete(i, proof)
    PROVE  /\ {s.key : s \in proof} \subseteq Members[i]
           /\ Cardinality({s.key : s \in proof}) = Threshold[i]
<1> DEFINE K == {s.key : s \in proof}
           g == [k \in K |-> CHOOSE s \in proof : s.key = k]
<1>1. K \subseteq Members[i] BY DEF Complete
<1>2. IsFiniteSet(K) BY <1>1, QuorumAssumption, FS_Subset
<1>3. \A k \in K : g[k] \in proof /\ g[k].key = k OBVIOUS
<1>4. \A s \in proof : s.key \in K /\ g[s.key] = s
    BY <1>3 DEF Complete, DistinctKeys
<1>5. g \in Bijection(K, proof)
    <2>1. g \in [K -> proof] BY <1>3
    <2>2. g \in Injection(K, proof) BY <1>3, <2>1 DEF Injection, IsInjective
    <2>3. \A s \in proof : \E k \in K : g[k] = s BY <1>4
    <2>4. g \in Surjection(K, proof) BY <2>1, <2>3 DEF Surjection
    <2> QED BY <2>2, <2>4 DEF Bijection
<1> HIDE DEF K, g
<1>6. Cardinality(K) = Cardinality(proof)
    BY <1>2, <1>5, FS_Bijection DEF ExistsBijection
<1> QED BY <1>1, <1>6 DEF Complete, K

\* Every transaction the Extractor builds carries at each input exactly the
\* threshold of signatures, of distinct members, over itself, with the
\* sighash of the form.
THEOREM ThresholdMetHolds == Spec => []ThresholdMet
<1>1. IInv => ThresholdMet
    <2> SUFFICES ASSUME IInv, NEW tx \in txs, NEW i \in Inputs
                 PROVE  /\ Cardinality(tx.proof[i]) = Threshold[i]
                        /\ Cardinality({s.key : s \in tx.proof[i]}) = Threshold[i]
                        /\ \A s \in tx.proof[i] :
                             s.key \in Members[i] /\ s.draft = tx.draft /\ s.pinned
        BY DEF ThresholdMet
    <2>1. Complete(i, tx.proof[i]) /\ Justified(tx.proof[i], tx.draft, i, authorised)
        BY DEF IInv, GoodTx
    <2> QED BY <2>1, SignersOf DEF Complete, Justified
<1> QED BY <1>1, Invariant, PTL

\* The signers of an extracted transaction are a quorum that authorised it.
LEMMA ExtractSpends ==
    ASSUME IInv, NEW p \in Parties, ExtractTransaction(p)
    PROVE  \E draft \in Draft : Promise!Spend(draft)
<1> DEFINE doc == copy[p]
<1>1. GoodDoc(doc, authorised) /\ Extractable(doc) BY DEF IInv, ExtractTransaction
<1>2. doc.draft \in Draft BY <1>1 DEF GoodDoc, Psbt
<1>3. ASSUME NEW i \in Inputs
      PROVE  Promise!QuorumFor(doc.draft, i)
    <2> DEFINE K == {s.key : s \in doc.ins[i].final}
    <2>1. Complete(i, doc.ins[i].final) /\ Justified(doc.ins[i].final, doc.draft, i, authorised)
        BY <1>1 DEF GoodDoc, GoodInput, Extractable
    <2>2. K \in SUBSET Members[i] /\ Cardinality(K) = Threshold[i] BY <2>1, SignersOf
    <2>3. \A k \in K : [key |-> k, draft |-> doc.draft, input |-> i] \in authorised
        BY <2>1 DEF Justified
    <2>4. Promise!Cardinality(K) = Cardinality(K) BY DEF Cardinality, Promise!Cardinality
    <2> HIDE DEF K
    <2> QED BY <2>2, <2>3, <2>4 DEF Promise!QuorumFor
<1>4. txs' = txs \cup {Extracted(doc)} /\ UNCHANGED authorised /\ Extracted(doc).draft = doc.draft
    BY DEF ExtractTransaction, Extracted
<1>5. {tx.draft : tx \in txs}' = {tx.draft : tx \in txs} \cup {doc.draft} BY <1>4
<1> QED BY <1>2, <1>3, <1>4, <1>5 DEF Promise!Spend

\* A step that makes signatures and builds no transaction authorises.
LEMMA SigningAuthorises ==
    ASSUME authorised \subseteq authorised', authorised' \subseteq Authorisation,
           UNCHANGED txs
    PROVE  Promise!Authorise
<1>1. authorised' = authorised \cup authorised' OBVIOUS
<1>2. authorised' \in SUBSET Promise!Authorisation
    BY DEF Authorisation, Promise!Authorisation
<1> QED BY <1>1, <1>2 DEF Promise!Authorise

LEMMA StepRefines ==
    IInv /\ [Next]_vars => [Promise!Next]_<<authorised, {tx.draft : tx \in txs}>>
<1> SUFFICES ASSUME IInv, [Next]_vars
             PROVE  [Promise!Next]_<<authorised, {tx.draft : tx \in txs}>>
    OBVIOUS
<1>1. CASE UNCHANGED <<txs, authorised>> BY <1>1
<1>2. ASSUME NEW p \in Parties, SignPsbt(p)
      PROVE  Promise!Next
    <2>1. IInv' BY <1>2, SignPsbtIInv
    <2>2. authorised' \subseteq Authorisation BY <2>1 DEF IInv, TypeOK, Authorisation
    <2>3. authorised \subseteq authorised' /\ UNCHANGED txs BY <1>2 DEF SignPsbt
    <2> QED BY <2>2, <2>3, SigningAuthorises DEF Promise!Next
<1>3. ASSUME NEW p \in Parties, NEW doc \in ForeignDocs, ImportPsbt(p, doc)
      PROVE  Promise!Next
    <2>1. IInv' BY <1>3, ImportPsbtIInv
    <2>2. authorised' \subseteq Authorisation BY <2>1 DEF IInv, TypeOK, Authorisation
    <2>3. authorised \subseteq authorised' /\ UNCHANGED txs BY <1>3 DEF ImportPsbt
    <2> QED BY <2>2, <2>3, SigningAuthorises DEF Promise!Next
<1>4. ASSUME NEW p \in Parties, ExtractTransaction(p)
      PROVE  Promise!Next
    BY <1>4, ExtractSpends DEF Promise!Next
<1> QED BY <1>1, <1>2, <1>3, <1>4
        DEF Next, vars, CreatePsbt, CombinePsbt, FinalizePsbt

\* The exchange of copies implements QuorumSpend: however copies travel and
\* merge, a draft is spent only after a quorum has authorised that draft at
\* every input.
THEOREM ImplementsQuorumSpend == Spec => PromiseSpec
<1>1. Init => Promise!Init BY DEF Init, Promise!Init
<1>2. IInv /\ [Next]_vars => [Promise!Next]_<<authorised, {tx.draft : tx \in txs}>>
    BY StepRefines
<1> QED BY <1>1, <1>2, Invariant, PTL DEF Spec, PromiseSpec, Promise!Spec

----------------------------------------------------------------------------
(* Fields and signatures of a copy, from one step to the next *)

\* What a step makes of an input of a copy.
Becomes(i, in, now) ==
    \/ now = in
    \/ \E new : now = [in EXCEPT !.sigs = @ \cup new]
    \/ \E other : ~InputsConflict(in, other) /\ now = MergeInput(in, other)
    \/ now = FinalizeInput(i, in)

LEMMA StepBecomes ==
    ASSUME IInv, [Next]_vars, NEW p \in Parties, HasCopy(p), NEW i \in Inputs
    PROVE  Becomes(i, copy[p].ins[i], copy'[p].ins[i])
<1>1. copy \in [Parties -> Psbt \cup {NoDoc}] /\ copy[p] \in Psbt
    BY DEF IInv, TypeOK, GoodDoc
<1>2. CASE copy'[p] = copy[p] BY <1>2 DEF Becomes
<1>3. ASSUME NEW q \in Parties, NEW doc, copy' = [copy EXCEPT ![q] = doc], q # p
      PROVE  copy'[p] = copy[p]
    BY <1>1, <1>3
<1>4. ASSUME NEW q \in Parties, NEW doc, Accept(q, doc)
      PROVE  Becomes(i, copy[p].ins[i], copy'[p].ins[i])
    <2>1. CASE q # p BY <1>2, <1>3, <1>4, <2>1 DEF Accept
    <2>2. CASE q = p
        <3>1. ~InputsConflict(copy[p].ins[i], doc.ins[i]) /\ copy'[p] = Combined(copy[p], doc)
            BY <1>1, <1>4, <2>2 DEF Accept, CombineRefuses
        <3>2. copy'[p].ins[i] = MergeInput(copy[p].ins[i], doc.ins[i])
            BY <1>1, <3>1 DEF Combined, Psbt
        <3> QED BY <3>1, <3>2 DEF Becomes
    <2> QED BY <2>1, <2>2
<1>5. ASSUME NEW q \in Parties, SignPsbt(q)
      PROVE  Becomes(i, copy[p].ins[i], copy'[p].ins[i])
    <2>1. CASE q # p BY <1>2, <1>3, <1>5, <2>1 DEF SignPsbt
    <2>2. CASE q = p
        <3>1. copy'[p] = Signed(copy[p], p) BY <1>1, <1>5, <2>2 DEF SignPsbt
        <3>2. copy'[p].ins[i] = [copy[p].ins[i] EXCEPT !.sigs = @ \cup NewSigs(copy[p], i, p)]
            BY <1>1, <3>1 DEF Signed, Psbt, NewSigs
        <3> QED BY <3>2 DEF Becomes
    <2> QED BY <2>1, <2>2
<1>6. ASSUME NEW q \in Parties, FinalizePsbt(q)
      PROVE  Becomes(i, copy[p].ins[i], copy'[p].ins[i])
    <2>1. CASE q # p BY <1>2, <1>3, <1>6, <2>1 DEF FinalizePsbt
    <2>2. CASE q = p
        <3>1. copy'[p] = Finalized(copy[p]) BY <1>1, <1>6, <2>2 DEF FinalizePsbt
        <3>2. copy'[p].ins[i] = FinalizeInput(i, copy[p].ins[i])
            BY <1>1, <3>1 DEF Finalized, Psbt
        <3> QED BY <3>2 DEF Becomes
    <2> QED BY <2>1, <2>2
<1>7. ASSUME NEW q \in Parties, NEW draft, NEW request, CreatePsbt(q, draft, request)
      PROVE  copy'[p] = copy[p]
    <2>1. q # p BY <1>7 DEF CreatePsbt
    <2> QED BY <1>3, <1>7, <2>1 DEF CreatePsbt
<1>8. CASE UNCHANGED copy BY <1>2, <1>8
<1>9. \/ UNCHANGED copy
      \/ \E q \in Parties :
            \/ \E draft, request : CreatePsbt(q, draft, request)
            \/ \E doc : Accept(q, doc)
            \/ SignPsbt(q) \/ FinalizePsbt(q)
    BY DEF Next, vars, CombinePsbt, ImportPsbt, ExtractTransaction
<1> QED BY <1>2, <1>4, <1>5, <1>6, <1>7, <1>8, <1>9

\* A step leaves the final field of an input that has one.
LEMMA BecomesFinal ==
    ASSUME NEW i \in Inputs, NEW in \in PsbtIn, NEW now, Becomes(i, in, now), in.final # {}
    PROVE  now.final = in.final
<1>1. ASSUME NEW new, now = [in EXCEPT !.sigs = @ \cup new]
      PROVE  now.final = in.final
    BY <1>1 DEF PsbtIn
<1>2. ASSUME NEW other, now = MergeInput(in, other)
      PROVE  now.final = in.final
    BY <1>2 DEF MergeInput, MergeField
<1>3. CASE now = FinalizeInput(i, in) BY <1>3, FinalizeCases DEF Finalizes
<1> QED BY <1>1, <1>2, <1>3 DEF Becomes

\* A step keeps the signatures of an input or closes it with a quorum of them.
LEMMA BecomesSigs ==
    ASSUME NEW i \in Inputs, NEW in \in PsbtIn, NEW now, Becomes(i, in, now)
    PROVE  \/ in.sigs \subseteq now.sigs
           \/ /\ in.final = {}
              /\ now.final \subseteq in.sigs
              /\ Cardinality(now.final) = Threshold[i]
<1>1. ASSUME NEW new, now = [in EXCEPT !.sigs = @ \cup new]
      PROVE  in.sigs \subseteq now.sigs
    <2>1. now.sigs = in.sigs \cup new BY <1>1 DEF PsbtIn
    <2> QED BY <2>1
<1>2. ASSUME NEW other, now = MergeInput(in, other)
      PROVE  in.sigs \subseteq now.sigs
    BY <1>2 DEF MergeInput
<1>3. ASSUME NEW taken \in SUBSET MemberSigs(i, in), Finalizes(i, in, taken),
             now = FinalizedInput(in, taken)
      PROVE  /\ in.final = {} /\ now.final \subseteq in.sigs
             /\ Cardinality(now.final) = Threshold[i]
    BY <1>3 DEF Finalizes, IsFirst, FinalizedInput, MemberSigs
<1>4. CASE now = FinalizeInput(i, in) BY <1>3, <1>4, FinalizeCases
<1> QED BY <1>1, <1>2, <1>4 DEF Becomes

\* No role and no merge replaces or removes a final field.
THEOREM FinalStaysHolds == Spec => FinalStays
<1> DEFINE Stays == \A p \in Parties : HasCopy(p) =>
               \A i \in Inputs : copy[p].ins[i].final # {} =>
                  copy'[p].ins[i].final = copy[p].ins[i].final
<1>1. ASSUME IInv, [Next]_vars, NEW p \in Parties, HasCopy(p), NEW i \in Inputs
      PROVE  copy[p].ins[i] \in PsbtIn /\ Becomes(i, copy[p].ins[i], copy'[p].ins[i])
    BY <1>1, StepBecomes DEF IInv, GoodDoc, GoodInput
<1>2. IInv /\ [Next]_vars => Stays BY <1>1, BecomesFinal
<1>3. IInv /\ [Next]_vars => [Stays]_vars BY <1>2
<1> HIDE DEF Stays
<1>4. Spec => [][Stays]_vars BY <1>3, Invariant, PTL DEF Spec
<1> QED BY <1>4 DEF FinalStays, Stays

\* No role loses a signature before a quorum of those present closes the
\* input.
THEOREM SignaturesKeptHolds == Spec => SignaturesKept
<1> DEFINE Kept == \A p \in Parties : HasCopy(p) =>
         \A i \in Inputs :
            LET in == copy[p].ins[i]
                now == copy'[p].ins[i]
            IN  \/ in.sigs \subseteq now.sigs
                \/ /\ in.final = {}
                   /\ now.final \subseteq in.sigs
                   /\ Cardinality(now.final) = Threshold[i]
<1>1. ASSUME IInv, [Next]_vars, NEW p \in Parties, HasCopy(p), NEW i \in Inputs
      PROVE  copy[p].ins[i] \in PsbtIn /\ Becomes(i, copy[p].ins[i], copy'[p].ins[i])
    BY <1>1, StepBecomes DEF IInv, GoodDoc, GoodInput
<1>2. IInv /\ [Next]_vars => Kept BY <1>1, BecomesSigs
<1>3. IInv /\ [Next]_vars => [Kept]_vars BY <1>2
<1> HIDE DEF Kept
<1>4. Spec => [][Kept]_vars BY <1>3, Invariant, PTL DEF Spec
<1> QED BY <1>4 DEF SignaturesKept, Kept
----------------------------------------------------------------------------
(* Copies that only these wallets have handled *)

\* The fields a wallet writes: no SIGHASH_TYPE, the quorum's own script and
\* the spent transaction or none, and signatures of the form's sighash.  Nothing else can get in
\* where no other software takes part.
OwnInput(in) ==
    /\ in.sighash = "none"
    /\ in.script \in {"none", "canonical"}
    /\ in.prev \in {"none", "match"}
    /\ \A s \in in.sigs : s.pinned

OwnCopies ==
    ForeignDocs = {} =>
        \A p \in Parties : HasCopy(p) => \A i \in Inputs : OwnInput(copy[p].ins[i])

\* create_psbt takes no script that is not the quorum's.
LEMMA CreatedOwn ==
    ASSUME NEW i \in Inputs, NEW request \in Requests, ~CreateRefuses(i, request)
    PROVE  OwnInput(CreatedInput(i, request))
<1>1. request[i].script \in Scripts BY RequestsAssumption
<1>2. Form[i] \in ScriptForms => request[i].script \in {"none", "canonical"}
    BY <1>1 DEF CreateRefuses, Scripts
<1>3. CreatedInput(i, request).prev \in {"none", "match"}
    BY DEF CreateRefuses, CreatedInput
<1> QED BY <1>2, <1>3 DEF CreatedInput, OwnInput

LEMMA MergedOwn ==
    ASSUME NEW a, NEW b, OwnInput(a), OwnInput(b)
    PROVE  OwnInput(MergeInput(a, b))
BY DEF OwnInput, MergeInput, MergeField

LEMMA SignedOwn ==
    ASSUME NEW doc, NEW i \in Inputs, NEW p \in Parties, doc.ins[i] \in PsbtIn,
           OwnInput(doc.ins[i])
    PROVE  OwnInput([doc.ins[i] EXCEPT !.sigs = @ \cup NewSigs(doc, i, p)])
<1> DEFINE now == [doc.ins[i] EXCEPT !.sigs = @ \cup NewSigs(doc, i, p)]
<1>1. /\ now.sigs = doc.ins[i].sigs \cup NewSigs(doc, i, p)
      /\ now.sighash = doc.ins[i].sighash /\ now.script = doc.ins[i].script
      /\ now.prev = doc.ins[i].prev
    BY DEF PsbtIn
<1>2. \A s \in NewSigs(doc, i, p) : s.pinned BY DEF NewSigs
<1> HIDE DEF now
<1>3. OwnInput(now) BY <1>1, <1>2 DEF OwnInput
<1> QED BY <1>3 DEF now

LEMMA FinalizedOwn ==
    ASSUME NEW i \in Inputs, NEW in, OwnInput(in)
    PROVE  OwnInput(FinalizeInput(i, in))
<1>1. \A taken : OwnInput(FinalizedInput(in, taken))
    BY DEF OwnInput, FinalizedInput
<1> QED BY <1>1, FinalizeCases

\* The step of one party's copy.
LEMMA OneOwnCopy ==
    ASSUME IInv, OwnCopies, NEW p \in Parties, NEW doc,
           copy' = [copy EXCEPT ![p] = doc],
           ForeignDocs = {} => \A i \in Inputs : OwnInput(doc.ins[i])
    PROVE  OwnCopies'
<1> SUFFICES ASSUME ForeignDocs = {}, NEW q \in Parties, HasCopy(q)', NEW i \in Inputs
             PROVE  OwnInput(copy'[q].ins[i])
    BY DEF OwnCopies
<1>1. copy \in [Parties -> Psbt \cup {NoDoc}] BY DEF IInv, TypeOK
<1>2. CASE q = p
    <2>1. copy'[q] = doc BY <1>1, <1>2
    <2> QED BY <2>1
<1>3. CASE q # p
    <2>1. copy'[q] = copy[q] BY <1>1, <1>3
    <2> QED BY <2>1 DEF HasCopy, OwnCopies
<1> QED BY <1>2, <1>3

LEMMA StepOwnCopies == IInv /\ OwnCopies /\ [Next]_vars => OwnCopies'
<1> SUFFICES ASSUME IInv, OwnCopies, [Next]_vars PROVE OwnCopies' OBVIOUS
<1>1. CASE UNCHANGED copy BY <1>1 DEF OwnCopies, HasCopy
<1>2. ASSUME NEW p \in Parties, NEW draft \in Draft, NEW request \in Requests,
             CreatePsbt(p, draft, request)
      PROVE  OwnCopies'
    <2> DEFINE doc == [draft |-> draft, ins |-> [i \in Inputs |-> CreatedInput(i, request)]]
    <2>1. copy' = [copy EXCEPT ![p] = doc] BY <1>2 DEF CreatePsbt
    <2>2. \A i \in Inputs : OwnInput(doc.ins[i]) BY <1>2, CreatedOwn DEF CreatePsbt
    <2> HIDE DEF doc
    <2> QED BY <2>1, <2>2, OneOwnCopy
<1>3. ASSUME NEW p \in Parties, NEW q \in Parties, CombinePsbt(p, q)
      PROVE  OwnCopies'
    <2>1. CASE HasCopy(p)
        <3>1. /\ copy' = [copy EXCEPT ![p] = Combined(copy[p], copy[q])]
              /\ copy[p] \in Psbt /\ HasCopy(q)
            BY <1>3, <2>1 DEF CombinePsbt, Accept, IInv, GoodDoc
        <3>2. Combined(copy[p], copy[q]).ins =
                [i \in Inputs |-> MergeInput(copy[p].ins[i], copy[q].ins[i])]
            BY <3>1 DEF Combined, Psbt
        <3>3. ForeignDocs = {} => \A i \in Inputs : OwnInput(Combined(copy[p], copy[q]).ins[i])
            BY <2>1, <3>1, <3>2, MergedOwn DEF OwnCopies
        <3> QED BY <3>1, <3>3, OneOwnCopy
    <2>2. CASE ~HasCopy(p)
        <3>1. copy' = [copy EXCEPT ![p] = copy[q]] /\ HasCopy(q)
            BY <1>3, <2>2 DEF CombinePsbt, Accept
        <3> QED BY <3>1, OneOwnCopy DEF OwnCopies
    <2> QED BY <2>1, <2>2
<1>4. ASSUME NEW doc \in ForeignDocs
      PROVE  OwnCopies'
    BY <1>4 DEF OwnCopies
<1>5. ASSUME NEW p \in Parties, SignPsbt(p)
      PROVE  OwnCopies'
    <2>1. copy' = [copy EXCEPT ![p] = Signed(copy[p], p)] /\ copy[p] \in Psbt /\ HasCopy(p)
        BY <1>5 DEF SignPsbt, IInv, GoodDoc
    <2>2. Signed(copy[p], p).ins =
            [i \in Inputs |-> [copy[p].ins[i] EXCEPT !.sigs = @ \cup NewSigs(copy[p], i, p)]]
        BY <2>1 DEF Signed, Psbt, NewSigs
    <2>3. \A i \in Inputs : copy[p].ins[i] \in PsbtIn BY <2>1 DEF Psbt
    <2>4. ForeignDocs = {} => \A i \in Inputs : OwnInput(Signed(copy[p], p).ins[i])
        BY <2>1, <2>2, <2>3, SignedOwn DEF OwnCopies
    <2> QED BY <2>1, <2>4, OneOwnCopy
<1>6. ASSUME NEW p \in Parties, FinalizePsbt(p)
      PROVE  OwnCopies'
    <2>1. copy' = [copy EXCEPT ![p] = Finalized(copy[p])] /\ copy[p] \in Psbt /\ HasCopy(p)
        BY <1>6 DEF FinalizePsbt, IInv, GoodDoc
    <2>2. Finalized(copy[p]).ins = [i \in Inputs |-> FinalizeInput(i, copy[p].ins[i])]
        BY <2>1 DEF Finalized, Psbt
    <2>3. ForeignDocs = {} => \A i \in Inputs : OwnInput(Finalized(copy[p]).ins[i])
        BY <2>1, <2>2, FinalizedOwn DEF OwnCopies
    <2> QED BY <2>1, <2>3, OneOwnCopy
<1> QED BY <1>1, <1>2, <1>3, <1>4, <1>5, <1>6 DEF Next, vars, ExtractTransaction

\* Copies of one draft that the wallets of the quorum made and signed, and
\* that nobody has finalized, never conflict.
THEOREM OpenCopiesMergeHolds == Spec => []OpenCopiesMerge
<1>1. Init => OwnCopies BY DEF Init, OwnCopies, HasCopy
<1>2. IInv /\ OwnCopies => OpenCopiesMerge
    <2> SUFFICES ASSUME IInv, OwnCopies, NEW p \in Parties, NEW q \in Parties,
                        ForeignDocs = {}, HasCopy(p), HasCopy(q),
                        copy[p].draft = copy[q].draft,
                        NEW i \in Inputs,
                        copy[p].ins[i].final = {}, copy[q].ins[i].final = {}
                 PROVE  ~InputsConflict(copy[p].ins[i], copy[q].ins[i])
        BY DEF OpenCopiesMerge, CombineRefuses
    <2> DEFINE a == copy[p].ins[i]
               b == copy[q].ins[i]
    <2>1. OwnInput(a) /\ OwnInput(b) BY DEF OwnCopies
    <2>2. /\ GoodInput(a, i, copy[p].draft, authorised)
          /\ GoodInput(b, i, copy[p].draft, authorised)
        BY DEF IInv, GoodDoc
    <2>3. a.final = {} /\ b.final = {} OBVIOUS
    <2> HIDE DEF a, b
    <2>4. ASSUME NEW s \in a.sigs, NEW t \in b.sigs, s.key = t.key
          PROVE  s = t
        <3>1. s \in Sig /\ t \in Sig BY <2>2 DEF GoodInput, PsbtIn
        <3>2. s.draft = t.draft BY <2>2 DEF GoodInput, Justified
        <3>3. s.pinned /\ t.pinned BY <2>1 DEF OwnInput
        <3>4. s.pinned = t.pinned BY <3>1, <3>3 DEF Sig
        <3> QED BY <2>4, <3>1, <3>2, <3>4 DEF Sig
    <2>5. ~FieldsConflict(a.script, b.script, "none") BY <2>1 DEF OwnInput, FieldsConflict
    <2>6. ~FieldsConflict(a.sighash, b.sighash, "none") BY <2>1 DEF OwnInput, FieldsConflict
    <2>7. ~FieldsConflict(a.prev, b.prev, "none") BY <2>1 DEF OwnInput, FieldsConflict
    <2>8. ~FieldsConflict(a.final, b.final, {}) BY <2>3 DEF FieldsConflict
    <2> QED BY <2>4, <2>5, <2>6, <2>7, <2>8 DEF InputsConflict, a, b
<1> QED BY <1>1, <1>2, StepOwnCopies, Invariant, PTL DEF Spec
=============================================================================
