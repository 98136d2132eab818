---------------------------- MODULE QuorumScript ----------------------------
(***************************************************************************)
(* The life of one quorum output, as scripts: the cosigners derive its     *)
(* script each for himself (ms_create_address, src/src/yubtc/wallet.py),   *)
(* somebody pays it, members sign, the finalizer (src/src/yubtc/psbt.py)   *)
(* lays the signatures out with the builders of src/src/yubtc/script.py,   *)
(* and a node runs the script over the result.  The node is not part of    *)
(* the repository: its opcodes are those of the consensus rules, BIP-342   *)
(* for p2tr, and they decide whether the money can be spent.               *)
(*                                                                         *)
(* Scripts are sequences of instructions.  Keys are SEC-compressed: a      *)
(* prefix, 2 or 3, and an x coordinate; prefix 0 marks the x-only          *)
(* projection that tapscript pushes.  Hash commitments hold by             *)
(* construction: the script a spend reveals is the one that was paid.      *)
(***************************************************************************)
EXTENDS Integers, Sequences, FiniteSets, Functions, SequencesExt

CONSTANTS
    Forms,             \* a subset of MS_FORMS (fwd.py)
    Owners,            \* the compressed keys of the key owners
    Derivers,          \* the owners who run ms_create_address
    Counts,            \* the values -n may be given
    Thresholds,        \* the values -m may be given
    ForeignKeys,       \* the key sequences of scripts of other software
    MS_MAX_PUBKEYS,    \* the most keys of a quorum (fwd.py)
    TAPSCRIPT_NUMEQUAL \* the opcode the leaf ends in (script.py)

CompressedKey == [prefix : {2, 3}, x : Nat]
ASSUME OwnersAssumption == Owners \subseteq CompressedKey /\ IsFiniteSet(Owners)
ASSUME DeriversAssumption == Derivers \subseteq Owners
ASSUME BoundsAssumption ==
    MS_MAX_PUBKEYS \in Nat /\ Counts \subseteq Nat /\ Thresholds \subseteq Nat
ASSUME ForeignAssumption == ForeignKeys \subseteq Seq(Owners)
ASSUME TerminatorAssumption == TAPSCRIPT_NUMEQUAL \in {"numequal", "numequalverify"}

VARIABLES
    ms_form,       \* the encoding all of this is about
    derived,       \* owner -> the script he derived, <<>> when he has none
    script,        \* the script the output was paid to
    partial_sigs,  \* the keys whose signatures the PSBT input holds
    stack,         \* the stack of the node, top last
    ip,            \* the instruction it runs next
    life           \* "open", "running", "accepted" or "rejected"

quorum == <<ms_form, derived, script, partial_sigs, stack, ip, life>>

----------------------------------------------------------------------------
(* Stack elements and instructions *)

NoKey == [prefix |-> 0, x |-> 0]
Number(i) == [t |-> "number", n |-> i, key |-> NoKey]
Signature(k) == [t |-> "signature", n |-> 0, key |-> k]
PubKey(k) == [t |-> "key", n |-> 0, key |-> k]
\* The empty string is the number zero.
Empty == Number(0)

Push(element) == [op |-> "push", arg |-> element]
Op(name) == [op |-> name, arg |-> Empty]

----------------------------------------------------------------------------
(* Building a script *)

\* The key as the script of this form pushes it: pubkey[1:33] in tapscript.
ScriptKey(k) == IF ms_form = "p2tr" THEN [prefix |-> 0, x |-> k.x] ELSE k

\* Lexicographic order of the bytes; x-only keys all have prefix 0.
Below(k, l) == k.prefix < l.prefix \/ (k.prefix = l.prefix /\ k.x < l.x)

InOrderOf(keys) ==
    FoldSet(LAMBDA k, seq :
              InsertAt(seq, 1 + Cardinality({i \in DOMAIN seq : Below(seq[i], k)}), k),
            <<>>, keys)

\* Mutant: R-MS-10 read as sorting the compressed encodings.
Sorted_Compressed(keys) ==
    LET order == InOrderOf(keys)
    IN  [i \in DOMAIN order |-> ScriptKey(order[i])]

\* R-MS-4, R-MS-10: the projections are sorted, not the arguments.
Sorted(keys) == InOrderOf({ScriptKey(k) : k \in keys})

MultisigScript(m, keys) ==
    <<Push(Number(m))>> \o [i \in DOMAIN keys |-> Push(PubKey(keys[i]))]
        \o <<Push(Number(Len(keys))), Op("checkmultisig")>>

MultisigTapscript(m, keys) ==
    FlattenSeq([i \in DOMAIN keys |->
            <<Push(PubKey(keys[i])),
              Op(IF i = 1 THEN "checksig" ELSE "checksigadd")>>])
        \o <<Push(Number(m)), Op(TAPSCRIPT_NUMEQUAL)>>

Script(m, keys) == IF ms_form = "p2tr" THEN MultisigTapscript(m, keys)
                   ELSE MultisigScript(m, keys)

\* A key as the command line takes it: p2tr keys are typed x-only and
\* carried with prefix 02 (parse_ms_keys).
Typed(k) == IF ms_form = "p2tr" THEN [k EXCEPT !.prefix = 2] ELSE k

\* KeyCountMismatch, QuorumBounds and DuplicateKey of ms_create_address, and
\* the tapscript builder's own check: 02x and 03x pass the first three and
\* are one key once projected, which is raised as QuorumBounds.
AddressRefuses(n, m, keys) ==
    \/ Len(keys) # n
    \/ m = 0 \/ m > n \/ n > MS_MAX_PUBKEYS
    \/ ~IsInjective(keys)
    \/ ~IsInjective([i \in DOMAIN keys |-> ScriptKey(keys[i])])

----------------------------------------------------------------------------
(* Reading a script back *)

\* The pushed keys, in script order.
KeysOf(s) ==
    FlattenSeq([i \in DOMAIN s |->
        IF s[i].arg.t = "key" THEN <<s[i].arg.key>> ELSE <<>>])

\* OP_m is the first instruction of a redeem script and the last but one of
\* a tapscript.
ThresholdOf(s) ==
    s[IF ms_form = "p2tr" THEN Len(s) - 1 ELSE 1].arg.n

\* Mutant: R-MS-3 is left to the builder.
Canonical_Duplicates(s) ==
    LET m == ThresholdOf(s)
        keys == KeysOf(s)
    IN  /\ s = Script(m, keys)
        /\ 1 <= m /\ m <= Len(keys) /\ Len(keys) <= MS_MAX_PUBKEYS

\* extract_multisig_quorum and extract_multisig_tapscript: exactly the shape
\* the builder makes, bounds and duplicates checked, any key order.
Canonical(s) ==
    LET m == ThresholdOf(s)
        keys == KeysOf(s)
    IN  /\ s = Script(m, keys)
        /\ 1 <= m /\ m <= Len(keys) /\ Len(keys) <= MS_MAX_PUBKEYS
        /\ IsInjective(keys)

----------------------------------------------------------------------------
(* Laying out the signatures *)

\* The members that have signed, in script order.
MemberSigs ==
    LET keys == KeysOf(script)
    IN  FlattenSeq([i \in DOMAIN keys |->
            IF keys[i] \in partial_sigs THEN <<keys[i]>> ELSE <<>>])

\* The first m of them; the others are dropped from the tail.
Taken == SubSeq(MemberSigs, 1, ThresholdOf(script))

\* Mutant: no dummy element, as if CHECKMULTISIG had no off-by-one.
MultisigWitness_NoDummy ==
    [i \in DOMAIN Taken |-> Signature(Taken[i])]

\* make_multisig_script_sig and make_multisig_witness, the script popped.
MultisigWitness ==
    <<Empty>> \o [i \in DOMAIN Taken |-> Signature(Taken[i])]

\* make_multisig_tapscript_witness: a slot for each key, the first key's on
\* top, empty for those who did not sign.
TapscriptWitness ==
    LET keys == KeysOf(script)
    IN  Reverse([i \in DOMAIN keys |->
            IF keys[i] \in Range(Taken) THEN Signature(keys[i]) ELSE Empty])

----------------------------------------------------------------------------
(* The node *)

Top(i) == stack[Len(stack) + 1 - i]
Rest(i) == SubSeq(stack, 1, Len(stack) - i)

Verifies(sig, key) == sig = Signature(key.key)

\* What one signature check yields: false for the empty signature, true for a
\* good one, and nothing, the end of the script, for any other (BIP-342).
Outcome(sig, key) ==
    {Number(v) : v \in {u \in {0, 1} : IF u = 0 THEN sig = Empty
                                       ELSE Verifies(sig, key)}}

\* The signatures of OP_CHECKMULTISIG are matched with the keys in order:
\* each has a key of its own, in the same order.
InOrder(sigs, keys) ==
    \E match \in [DOMAIN sigs -> DOMAIN keys] :
        /\ \A i, j \in DOMAIN sigs : i < j => match[i] < match[j]
        /\ \A i \in DOMAIN sigs : Verifies(sigs[i], keys[match[i]])

CheckMultisig ==
    LET n == Top(1).n
        m == Top(n + 2).n
        depth == n + m + 3
        Slots(from, to) == SubSeq(stack, Len(stack) + 1 - from, Len(stack) + 1 - to)
        good == InOrder(Slots(n + m + 2, n + 3), Slots(n + 1, 2))
    IN  IF Len(stack) < depth \/ Top(depth) # Empty THEN {}
        ELSE {Append(Rest(depth), Number(IF good THEN 1 ELSE 0))}

\* The next stack, or none when the instruction fails.
After(instruction) ==
    CASE instruction.op = "push" -> {Append(stack, instruction.arg)}
      [] instruction.op = "checksig" ->
           {Append(Rest(2), v) : v \in Outcome(Top(2), Top(1))}
      [] instruction.op = "checksigadd" ->
           {Append(Rest(3), Number(Top(2).n + v.n)) : v \in Outcome(Top(3), Top(1))}
      [] instruction.op = "checkmultisig" -> CheckMultisig
      [] instruction.op = "numequal" ->
           {Append(Rest(2), Number(IF Top(1) = Top(2) THEN 1 ELSE 0))}
      [] instruction.op = "numequalverify" ->
           {s \in {Rest(2)} : Top(1) = Top(2)}

\* The final check: one element, and it is true.
StackIsTrue == Len(stack) = 1 /\ stack[1] # Empty

----------------------------------------------------------------------------
QuorumInit ==
    /\ ms_form \in Forms
    /\ derived = [p \in Derivers |-> <<>>]
    /\ script = <<>>
    /\ partial_sigs = {}
    /\ stack = <<>>
    /\ ip = 1
    /\ life = "open"

\* What p may type for the other keys: any keys in any order, his own too.
Arguments == UNION {[1..len -> {Typed(k) : k \in Owners}] :
                        len \in 0..Cardinality(Owners) - 1}

\* ms_create_address and its call in ms_create_psbt: keys plus the own key.
MsCreateAddress(p) ==
    /\ life = "open" /\ script = <<>>
    /\ derived[p] = <<>>
    /\ \E n \in Counts, m \in Thresholds, keys \in Arguments :
         /\ ~AddressRefuses(n, m, Append(keys, p))
         /\ derived' = [derived EXCEPT ![p] =
              Script(m, Sorted(Range(Append(keys, p))))]
    /\ UNCHANGED <<ms_form, script, partial_sigs, stack, ip, life>>

\* Scripts of other software over the same keys: another key order, a key
\* used twice, a threshold out of bounds, the terminator BIP-342 names.
Foreign ==
    LET scripts == {Script(m, [i \in DOMAIN s |-> ScriptKey(s[i])]) :
                        m \in Thresholds \ {0}, s \in ForeignKeys}
    IN  scripts \cup {[s EXCEPT ![Len(s)] = Op("numequal")] :
                        s \in {t \in scripts : ms_form = "p2tr"}}

\* Somebody pays the output a PSBT input then spends.  What has been derived
\* plays no part in the spend of a foreign script: that is looked at alone.
Fund ==
    /\ life = "open" /\ script = <<>>
    /\ \/ script' \in Range(derived) \ {<<>>}
       \/ Range(derived) = {<<>>} /\ script' \in Foreign
    /\ UNCHANGED <<ms_form, derived, partial_sigs, stack, ip, life>>

\* Mutant: membership is tested with the compressed key in every form.
SignPsbtInput_Compressed(p) ==
    /\ life = "open" /\ script # <<>>
    /\ Canonical(script)
    /\ p \in Range(KeysOf(script))
    /\ partial_sigs' = partial_sigs \cup {ScriptKey(p)}
    /\ UNCHANGED <<ms_form, derived, script, stack, ip, life>>

\* sign_psbt_input: a script that is not canonical is refused, a key that is
\* no member signs nothing.
SignPsbtInput(p) ==
    /\ life = "open" /\ script # <<>>
    /\ Canonical(script)
    /\ ScriptKey(p) \in Range(KeysOf(script))
    /\ partial_sigs' = partial_sigs \cup {ScriptKey(p)}
    /\ UNCHANGED <<ms_form, derived, script, stack, ip, life>>

\* A combined document may carry the signature of any key at all.
ImportSignature(p) ==
    /\ life = "open" /\ script # <<>>
    /\ partial_sigs' = partial_sigs \cup {ScriptKey(p)}
    /\ UNCHANGED <<ms_form, derived, script, stack, ip, life>>

\* The three multisig branches of finalize_psbt_input: UnsupportedInputScript
\* and IncompleteInput are its guards.  The node starts with what it built.
FinalizePsbtInput ==
    /\ life = "open" /\ script # <<>>
    /\ Canonical(script)
    /\ Len(MemberSigs) >= ThresholdOf(script)
    /\ stack' = IF ms_form = "p2tr" THEN TapscriptWitness ELSE MultisigWitness
    /\ partial_sigs' = {}
    /\ life' = "running"
    /\ UNCHANGED <<ms_form, derived, script, ip>>

Execute ==
    /\ life = "running" /\ ip <= Len(script)
    /\ LET next == After(script[ip])
       IN  IF next = {} THEN life' = "rejected" /\ UNCHANGED <<stack, ip>>
           ELSE /\ \E s \in next : stack' = s
                /\ ip' = ip + 1
                /\ life' = life
    /\ UNCHANGED <<ms_form, derived, script, partial_sigs>>

Halt ==
    /\ life = "running" /\ ip > Len(script)
    /\ life' = IF StackIsTrue THEN "accepted" ELSE "rejected"
    /\ UNCHANGED <<ms_form, derived, script, partial_sigs, stack, ip>>

QuorumNext ==
    \/ \E p \in Derivers : MsCreateAddress(p)
    \/ Fund
    \/ \E p \in Owners : SignPsbtInput(p) \/ ImportSignature(p)
    \/ FinalizePsbtInput
    \/ Execute
    \/ Halt

QuorumSpec == QuorumInit /\ [][QuorumNext]_quorum

\* As long as signatures are missing an owner who can signs, somebody runs
\* finalize_psbt again and again, and the node does not stop.
QuorumFairness ==
    /\ WF_quorum(\E p \in Owners : SignPsbtInput(p))
    /\ WF_quorum(FinalizePsbtInput)
    /\ WF_quorum(Execute \/ Halt)

----------------------------------------------------------------------------
Element == [t : {"number", "signature", "key"}, n : Nat,
            key : [prefix : {0, 2, 3}, x : Nat]]
Instruction ==
    [op : {"push", "checksig", "checksigadd", "checkmultisig", "numequal",
           "numequalverify"}, arg : Element]

\* The slots a finalizer fills are those of the script, no more.
QuorumTypeOK ==
    /\ ms_form \in Forms
    /\ derived \in [Derivers -> Seq(Instruction)]
    /\ script \in Seq(Instruction)
    /\ partial_sigs \subseteq {ScriptKey(k) : k \in Owners}
    /\ stack \in Seq(Element)
    /\ ip \in 1..Len(script) + 1
    /\ life \in {"open", "running", "accepted", "rejected"}

\* Two cosigners who mean the same quorum derive the same script, in
\* whatever order each types the other keys and although each knows the
\* parity of his own key only (the sorts of make_multisig_redeem_script and
\* make_multisig_tapscript); otherwise they would watch different addresses.
SameScript ==
    \A p, q \in Derivers :
        LET a == derived[p]
            b == derived[q]
        IN  (/\ a # <<>> /\ b # <<>>
             /\ ThresholdOf(a) = ThresholdOf(b)
             /\ Range(KeysOf(a)) = Range(KeysOf(b)))
                => a = b

\* The signatures fit the script: whatever subset of the members signed, and
\* whichever foreign signatures came along, no opcode of the spend fails, and
\* a CHECKMULTISIG spend is accepted (the order, the dummy and the slots of
\* the three builders and the finalizer).
SignaturesFit ==
    life = "rejected" => ms_form = "p2tr" /\ ip = Len(script) + 1

\* R-MS-3: one owner can never supply two of the signatures of a spend.
DistinctSigners ==
    (life = "running" /\ ip = 1) =>
        Cardinality({e.key : e \in {d \in Range(stack) : d.t = "signature"}})
            = ThresholdOf(script)

\* A quorum derived by a cosigner can always be completed: once the output
\* is paid and the owners sign, the spend reaches the end of the script
\* (membership in the Signer and the layout in the Finalizer agree with the
\* script of ms_create_address, for keys of either parity).
QuorumCompletes ==
    (script # <<>> /\ script \in Range(derived))
        ~> (life \in {"accepted", "rejected"})

\* The comment on TAPSCRIPT_NUMEQUAL: "the accept/reject behaviour of the
\* idiom is identical either way -- success iff the counter equals M".  A
\* finalized spend has a counter of M, so the node accepts it.
IdiomAccepts == ms_form = "p2tr" => life # "rejected"
=============================================================================
