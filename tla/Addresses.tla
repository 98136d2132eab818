----------------------------- MODULE Addresses -----------------------------
(***************************************************************************)
(* An address, from the program its owner publishes to the lock script a   *)
(* payment to it gets: the regrouping of bits and the ladders of checks    *)
(* (src/src/yubtc/bech32.py, base58check.py, crypto.py), the dispatch of   *)
(* make_lock_script, and what the owner recognises again.                  *)
(*                                                                         *)
(* A bech32 string is its human-readable part, the case of its letters,    *)
(* its 5-bit values, and the checksum constant they satisfy with it; a     *)
(* base58 string is its version byte, the hash, and whether the checksum   *)
(* fits.  A typing error leaves no checksum that fits: that the codes      *)
(* detect it is theirs, not this program's.                                *)
(***************************************************************************)
EXTENDS Integers, Sequences

CONSTANTS
    Programs,  \* hashes of 20 bytes and keys or hashes of 32 bytes
    Strings,   \* bech32 strings that other software hands out
    HrpLen,    \* human-readable part -> its length
    Nobody, NoScript

\* What 1 << n is, no shift of the code being by more, and the values of so
\* many bits.
Power(n) == <<1, 2, 4, 8, 16, 32, 64, 128, 256, 512, 1024, 2048, 4096>>[n + 1]
Values(width) == 0..(Power(width) - 1)

Bech32 == [hrp : DOMAIN HrpLen, letters : {"lower", "upper", "mixed", "invalid"},
           sum : {"bech32", "bech32m", "none"}, values : Seq(Values(5))]
Base58 == [version : {0, 5}, hash : Seq(Values(8)), sum : {"base58", "none"}]

Address == [kind : {"bech32"}, text : Bech32] \cup [kind : {"base58"}, text : Base58]
Lock == {"p2pkh", "p2sh", "v0", "v1"} \X Seq(Values(8))
Owner == [form : {"legacy", "native", "taproot", "p2sh", "p2wsh"}, program : Seq(Values(8))]

ASSUME ProgramsAssumption ==
    \A program \in Programs : program \in Seq(Values(8)) /\ Len(program) \in {20, 32}
ASSUME StringsAssumption ==
    /\ Strings \subseteq Bech32 /\ HrpLen \in [DOMAIN HrpLen -> Nat]
    /\ "bc" \in DOMAIN HrpLen /\ HrpLen["bc"] = 2
ASSUME NobodyAssumption == Nobody \notin Owner /\ NoScript \notin Address \cup Lock

VARIABLES
    address,  \* the string, [bech32, text]
    owner,    \* who published it: [form, program]
    intact,   \* no letter of it was changed but for its case
    paid_to   \* what make_lock_script gave: <<opcode, program>>

addr == <<address, owner, intact, paid_to>>

----------------------------------------------------------------------------
(* bytes_to_5bit and five_bit_to_bytes *)

\* Mutant: the accumulator is masked to 11 bits.
Take_Narrow(st, v, from, to) ==
    LET acc == (st.acc * Power(from) + v) % 2048
        bits == st.bits + from
        ready == bits \div to
    IN  [acc |-> acc, bits |-> bits - ready * to,
         out |-> st.out \o [k \in 1..ready |-> (acc \div Power(bits - k * to)) % Power(to)]]

\* One value goes in, and every group that is complete comes out.
Take(st, v, from, to) ==
    LET acc == (st.acc * Power(from) + v) % 4096
        bits == st.bits + from
        ready == bits \div to
    IN  [acc |-> acc, bits |-> bits - ready * to,
         out |-> st.out \o [k \in 1..ready |-> (acc \div Power(bits - k * to)) % Power(to)]]

\* What the loop over the values keeps in hand.
Hand(to) == [acc : Nat, bits : 0..(to - 1), out : Seq(Values(to))]

Regrouped(data, from, to) ==
    LET take == [p \in Hand(to) \X Values(from) |-> Take(p[1], p[2], from, to)]
        after[k \in 0..Len(data)] ==
            IF k = 0 THEN [acc |-> 0, bits |-> 0, out |-> <<>>]
            ELSE take[<<after[k - 1], data[k]>>]
    IN  after[Len(data)]

BytesTo5bit(data) ==
    LET end == Regrouped(data, 8, 5)
    IN  IF end.bits = 0 THEN end.out
        ELSE Append(end.out, (end.acc * Power(5 - end.bits)) % 32)

\* Mutant: what pads the last group is not looked at.
PaddingFits_Any(end) == end.bits < 5

\* At most four bits of padding, all zero.
PaddingFits(end) == end.bits < 5 /\ end.acc % Power(end.bits) = 0

----------------------------------------------------------------------------
(* The decoders *)

\* decode.
Decodes(s) ==
    /\ HrpLen[s.hrp] + 1 + Len(s.values) + 6 <= 90
    /\ s.letters \in {"lower", "upper"}
    /\ s.sum # "none"

Version(s) == s.values[1]
Program(s) == Regrouped(Tail(s.values), 5, 8).out

\* What the three decoders of crypto.py begin with.
Structured(s) ==
    /\ Decodes(s)
    /\ s.hrp = "bc" /\ s.values # <<>>
    /\ PaddingFits(Regrouped(Tail(s.values), 5, 8))

\* decode_p2wsh_addr: SegWitUnsupportedProgram, which make_lock_script takes
\* for "not P2WSH", as opposed to the errors that it lets through.
NotP2wsh(s) == Structured(s) /\ (Version(s) # 0 \/ Len(Program(s)) # 32)
IsP2wsh(s) == Structured(s) /\ ~NotP2wsh(s) /\ s.sum = "bech32"

\* decode_segwit_addr, with v0 programs of 32 bytes out of its scope.
IsSegwit(s) ==
    /\ Structured(s)
    /\ Len(Program(s)) \in 2..40 /\ Version(s) <= 1
    /\ Version(s) = 0 => Len(Program(s)) = 20
    /\ s.sum = IF Version(s) = 0 THEN "bech32" ELSE "bech32m"

----------------------------------------------------------------------------
(* make_lock_script *)

\* P2WSH first; make_p2tr_lock_script raises on a v1 program of another
\* length, which decode_segwit_addr lets through.
Bech32Script(s) ==
    IF IsP2wsh(s) THEN <<"v0", Program(s)>>
    ELSE IF NotP2wsh(s) /\ IsSegwit(s) /\ (Version(s) = 1 => Len(Program(s)) = 32)
    THEN <<IF Version(s) = 0 THEN "v0" ELSE "v1", Program(s)>>
    ELSE NoScript

\* unpack_address, and the version bytes that are supported.
Base58Script(t) ==
    IF t.sum = "none" \/ t.version \notin {0, 5} THEN NoScript
    ELSE <<IF t.version = 0 THEN "p2pkh" ELSE "p2sh", t.hash>>

\* What does not begin with bc1 is taken for base58, which has no such words.
LockScript(a) ==
    IF a.kind = "base58" THEN Base58Script(a.text)
    ELSE IF a.text.hrp \in {"bc", "bc1x"} THEN Bech32Script(a.text)
    ELSE NoScript

----------------------------------------------------------------------------
(* The addresses and scripts of the program's own *)

Bytes(form) == IF form \in {"legacy", "native", "p2sh"} THEN 20 ELSE 32

\* pubkey2addr, pubkey2segwit_addr, pubkey2taproot_addr, and the addresses of
\* a quorum.
AddressOf(form, program) ==
    IF form \in {"legacy", "p2sh"}
    THEN [kind |-> "base58",
          text |-> [version |-> IF form = "legacy" THEN 0 ELSE 5, hash |-> program,
                    sum |-> "base58"]]
    ELSE [kind |-> "bech32",
          text |-> [hrp |-> "bc", letters |-> "lower",
                    sum |-> IF form = "taproot" THEN "bech32m" ELSE "bech32",
                    values |-> <<IF form = "taproot" THEN 1 ELSE 0>> \o BytesTo5bit(program)]]

\* script2pkh and the extractors of script.py, which go by shape.
Recognised(lock) ==
    IF lock = NoScript THEN Nobody
    ELSE [form |-> IF lock[1] = "p2pkh" THEN "legacy"
                   ELSE IF lock[1] = "p2sh" THEN "p2sh"
                   ELSE IF lock[1] = "v1" THEN "taproot"
                   ELSE IF Len(lock[2]) = 20 THEN "native" ELSE "p2wsh",
          program |-> lock[2]]

----------------------------------------------------------------------------
AddressInit == address = NoScript /\ owner = Nobody /\ intact = TRUE /\ paid_to = NoScript

Publish(form, program) ==
    /\ address = NoScript /\ Len(program) = Bytes(form)
    /\ address' = AddressOf(form, program)
    /\ owner' = [form |-> form, program |-> program]
    /\ UNCHANGED <<intact, paid_to>>

HandOut(s) ==
    /\ address = NoScript
    /\ address' = [kind |-> "bech32", text |-> s]
    /\ UNCHANGED <<owner, intact, paid_to>>

\* On its way to the payer: in capitals, in part, or with a wrong letter.
Retype ==
    /\ address # NoScript /\ intact /\ paid_to = NoScript
    /\ \/ /\ address.kind = "bech32" /\ address.text.letters = "lower"
          /\ \E letters \in {"upper", "mixed"} :
               /\ address' = [address EXCEPT !.text.letters = letters]
               /\ intact' = (letters = "upper")
       \/ address' = [address EXCEPT !.text.sum = "none"] /\ intact' = FALSE
    /\ UNCHANGED <<owner, paid_to>>

Pay ==
    /\ address # NoScript /\ paid_to = NoScript
    /\ paid_to' = LockScript(address)
    /\ UNCHANGED <<address, owner, intact>>

AddressNext ==
    \/ \E form \in {"legacy", "native", "taproot", "p2sh", "p2wsh"}, program \in Programs :
            Publish(form, program)
    \/ \E s \in Strings : HandOut(s)
    \/ Retype \/ Pay

AddressSpec == AddressInit /\ [][AddressNext]_addr

----------------------------------------------------------------------------
\* What is paid to names a program of whole bytes and an opcode or template.
AddressTypeOK ==
    /\ owner \in Owner \cup {Nobody}
    /\ address \in Address \cup {NoScript}
    /\ intact \in BOOLEAN
    /\ paid_to \in Lock \cup {NoScript}

\* The nth bit of a sequence of values of that width.
Bit(values, width, n) ==
    (values[(n \div width) + 1] \div Power(width - 1 - (n % width))) % 2

\* BIP-173 and BIP-350 in terms of bits, and the forms the wallet can pay.
Standard(s) ==
    LET bits == 5 * (Len(s.values) - 1)
        bytes == bits \div 8
    IN  /\ s.hrp = "bc" /\ s.letters \in {"lower", "upper"} /\ s.values # <<>>
        /\ bits % 8 < 5
        /\ \A n \in (8 * bytes)..(bits - 1) : Bit(Tail(s.values), 5, n) = 0
        /\ \/ s.values[1] = 0 /\ s.sum = "bech32" /\ bytes \in {20, 32}
           \/ s.values[1] = 1 /\ s.sum = "bech32m" /\ bytes = 32

\* A payment to a published address can be claimed by its owner alone: the
\* lock script has the owner's form and program, the string being typed in
\* either case; with a letter wrong there is no payment.
OwnAddressPaid ==
    /\ owner # Nobody /\ intact => Recognised(LockScript(address)) = owner
    /\ ~intact => paid_to = NoScript /\ LockScript(address) = NoScript

\* Of the strings that other software hands out, exactly the standard ones
\* are paid, and the program paid to is the string's, bit by bit.
StandardIffPaid ==
    address # NoScript /\ address.kind = "bech32" =>
      LET lock == LockScript(address)
      IN  /\ lock # NoScript <=> Standard(address.text)
          /\ lock # NoScript =>
               /\ lock[1] = IF address.text.values[1] = 0 THEN "v0" ELSE "v1"
               /\ \A n \in 0..(8 * Len(lock[2]) - 1) :
                    Bit(lock[2], 8, n) = Bit(Tail(address.text.values), 5, n)
=============================================================================
