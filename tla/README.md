# yubtc: a TLA+ development

yubtc is a command-line Bitcoin wallet that keeps no wallet file. Keys are
derived from a seed and a nonce, balances and outputs are asked for over HTTP,
and multisig spends travel between the cosigners as PSBT documents. All of its
code is under `src/src/yubtc/`; paths below are relative to that directory.

Contents: [system](#1-the-system), [hard behaviours](#2-what-is-hard-in-it),
[modules](#3-modules), [runs](#4-runs), [fairness](#5-fairness),
[proofs](#6-proofs), [where code and text disagree](#7-where-code-and-text-disagree),
[not modelled](#8-what-is-not-modelled), [plan](#9-plan).

## 1. The system

| part | state | operations | talks to | what makes it correct |
|---|---|---|---|---|
| **Fee loop** `wallet.py` 104-133, 643-700; `crypto.py` `make_vout` | the fee tried now, the candidates built, the sizes seen | build and sign a candidate, recompute the fee, pick | make_vout, the signer, called by `send` | no satoshi lost; the rate is paid; it stops |
| **Wallet** `wallet.py` `Wallet`, `TPrivKey` | the keys walked over, a cached `get_info` per key | open (gap walk), `balance`, plain `send`, `send --scan`, announce | network, fee loop, command line | nothing that is there is missed; the scan stops where it should; change can be found again |
| **Interactive selection** `tui.py`, `select.py`, `cli._send_interactive` | the ticks, the total shown, the cursor | every key, the default selection, regrouping | a finished scan, then the fee loop | what is spent is what was shown |
| **PSBT roles** `psbt.py` | the documents the parties hold | create, sign, combine, finalize, extract | other cosigners, other software | only a quorum spends; no signature is lost or strays |
| **PSBT wire format** `psbt.py` | the document being read | parse, serialize, combine pairs, base64 | roles | what is written is read back; nothing unknown is lost; the order of merges does not matter |
| **Network** `net.py` | the preferred provider of `AutoBackend` | four requests, retries, failover | HTTP servers | everybody is asked, no request is refused twice, waits are bounded, no invented broadcast |
| **Multisig wallet** `wallet.py` `ms_*` | none | derive a quorum address, select outputs, create a PSBT | network, scripts, PSBT creator and signer | cosigners agree on the address; the finished spend pays its rate |
| **Scripts** `script.py` | none | quorum scripts and their recognisers, final layouts | finalizer, nodes | what the finalizer lays out satisfies what the address commits to |
| **Transactions** `transaction.py` | the copy being signed | serialize, sizes, digests, sign | fee loop, PSBT | sizes are those of the final bytes; a node accepts every input of every candidate |
| **Addresses** `bech32.py`, `base58check.py`, `crypto.py` | none | encode, decode, make a lock script | command line | what is paid to an address is its owner's; exactly the standard strings are paid |
| **Key derivation** `crypto.py`, `bip32.py`, `hash.py` | none | choose a KDF, normalise, stretch, child keys | wallet | what was typed differently and meant the same opens the same key |
| **Seeds** `seed.py` | the last draw | draw, redraw, print, receive, check | command line | drawing ends; a seed that was printed opens the wallet it was printed for |
| **Command line** `cli.py`, `misc.py` | one command run | parse arguments, call the wallet, print | everything | see Wallet, Selection and SeedPhrase |

How they interact. A command opens a wallet, whose walk asks the network about
the addresses of one nonce after the other. `send` collects inputs from the
primary address, from a scan, or from the screen; the fee loop builds and signs
until the sizes repeat; the network takes the result. `ms_create_address` gives
each cosigner the same script; `ms_create_psbt` queries the outputs of its address,
runs the fee loop over a spend that is *sized* rather than signed, and hands
out a PSBT; the others sign copies of it, combine them in any order, finalize
and extract. The multisig and PSBT functions are a library that
`cli.py` has no commands for yet. There is no thread, no lock and no file: concurrency comes from
the outside (payments, other processes with the same seed, other cosigners,
other software, servers) and acts between any two requests of a command.

## 2. What is hard in it

`PROJECT.json` lists the hazards at their lines. They fall in six groups:

- **The loop without a cap.** Fee depends on size, size on the signatures, the
  signatures on the fee. Nothing but the repetition of a size ends the loop.
- **The chain moves under a command.** A scan reads the chain address by
  address, partly from a cache, with answers that may hide what is there.
- **Copies that meet again.** PSBT copies are signed, merged, finalized and
  merged again, in any order, next to a competing draft.
- **Servers.** Answers lost after the request was served, retries of what was
  done, pages that are not answers, a rotating order of providers.
- **Promises about later.** A quorum address and the size of a spend are fixed
  long before the last signature exists and before any node runs the script.
- **What is written is read again.** An address, a PSBT, a seed phrase leave the
  program as text and come back typed in another way, by another party, with
  fields or letters this program does not know.

## 3. Modules

| module | models | instance | proofs |
|---|---|---|---|
| `FeeLoop` | the fee loop with `make_vout` and the pick | `MCFeeLoop` | `FeeLoopProofs` |
| `Wallet` | one command over the wallet, request by request | `MCWallet` | `WalletProofs` |
| `Signing` | `_make_vin` and `sign_segwit`, with the node that checks | `MCSigning` | `SendProofs` |
| `Selection` | the interactive selection | `MCSelection` | `SendProofs` |
| `Failover` | retries, the reading of answers, AutoBackend | `MCFailover` | `SendProofs` |
| `QuorumSpend` | abstract: what a multisig exchange promises | | |
| `PsbtRoles` | the five roles on copies of a PSBT; implements `QuorumSpend` | `MCPsbtRoles` | `PsbtRolesProofs` |
| `PsbtWire` | parsing, writing and merging the pairs of a PSBT | `MCPsbtWire` | `FormatProofs` |
| `QuorumScript` | quorum scripts, from address to script machine | `MCQuorumScript` | `MultisigProofs` |
| `MsSend` | `ms_create_psbt`; implements `FeeLoop` | `MCMsSend` | `MultisigProofs` |
| `Addresses` | an address, from its owner to the lock script paid to | `MCAddresses` | `FormatProofs` |
| `SeedPhrase` | a seed phrase, from newseed to the key of a later command | `MCSeedPhrase` | `FormatProofs` |
| `MCComponents` | one instance of the eight components that share no state | itself | `ComponentsProofs` |

`InductionFacts` holds lemmas that several of the proofs need and that the
library does not state (see [proofs](#6-proofs)).

Every definition that stands for code names its lines in `PROJECT.json`, "map".
Definitions called `X_Something` are variants of `X` with a plausible bug; the
specifications never use them. They are kept to show that each property can
tell the code from such a variant.

### FeeLoop

`current_fee`, `by_size` and `seen_sizes` are the variables of
`make_transaction`; `pc` is "fixed" (a fee was given), "loop", "pick", "done"
or "raised". `Iterate` is one turn: `make_vout` under the fee, its size, the
candidate stored, the next fee, and the exit if the size was seen. `Refuse` is
an exception of `make_vout`, which drops the candidates. `Pick` is
`_pick_best_fee_loop_candidate` with its fallback. The size of a candidate is
any member of `TxSizes[number of outputs]` unless that fee was built before:
RFC 6979 signatures are deterministic, so one fee always has one size.

### Wallet

`pc` follows the command: "open" (the walk of `Wallet.__init__`), "balance" and
"line" (the two requests of a line), "send", "scan" (is the nonce used?),
"gather" and "list" (the inner loop over the forms), "build", "built" and the
ends. `info` is the cached `_info` of the keys of the current nonce, forgotten
when the nonce changes, and `keys` the wallet's keys with the answers the walk
left in them. `Others` is the world: a payment arrives or a coin is spent,
between any two requests. `masked` records that an answer hid something, which
the reading of bodies that are not JSON allows (see `Failover`).

### Selection

The rows, the ticks (`selected`, pairs of nonce and output index, as in the
code, where several outputs share a pair), the `total` kept beside them, the
cursor. One action per key. `Accept` regroups as `selection_to_sources` does.

### Failover

One `Exchange` is one HTTP request with one of the responses of `Responses` and
one of the bodies of `Bodies`; a response may be lost after the server acted.
`Repeat` and `Terminal` are the retry loop, `Delay` the pause, `Reading` what a
method makes of a body, `Answer` and `Fail` the two branches of
`AutoBackend._run`. Only `send_tx` looks at the status of the answer; the reads
decode whatever came. So Esplora's `get_unspent`, which makes two requests, goes
on to the second (`AskTip`) unless the first body is false JSON: a provider that
refuses the page of outputs with a JSON object is asked for the tip, and may
refuse that too, before the object turns out to be no page. `page` is what the
first request brought. `slept`, `trail`, `refusals` and `mempool` record history;
`refusals` counts per provider and request, since that is what is final in the
code: a refused *request* is not repeated.

### PsbtRoles and QuorumSpend

Each party holds at most one copy. `CreatePsbt`, `SignPsbt`, `CombinePsbt`,
`FinalizePsbt` and `ExtractTransaction` are the functions of the same names
with all their error paths; an error leaves the copy as the code does, so a
`sign_psbt` that raises at the second input keeps the signature of the first.
`Refuses` is what raises: a script that is not the output's, before the key is
looked at, and a previous transaction (`prev`) that is not the one spent, for an
eligible key only; `Offered` follows the walk, key by key and input by input, up
to the error.
`CombinePsbt(p, q)` includes the travel of the copy, which may happen never or
often. `ImportPsbt` takes in a document of other software; no role verifies a
signature, so the premise (`ForeignAssumption`) is that such a document carries
no final field and signatures over its own draft only. A signature is the
record of its key, draft and sighash. `QuorumSpend` says what all of this is
for: a draft is spent only after a quorum authorised that very draft at every
input. `PromiseSpec` is the refinement, with `spent` the drafts of the extracted
transactions.

### QuorumScript

Scripts are sequences of instructions over typed elements. `MsCreateAddress` is
one cosigner deriving the script from keys typed in some order; `Fund` pays to
a script of the cosigners or of other software; `SignPsbtInput`,
`ImportSignature` and `FinalizePsbtInput` lead to a stack of signatures;
`Execute` and `Halt` are a node running the script. The node is external: its
opcodes are modelled from the consensus rules the builders are written against.

### MsSend

`phase` is the place in `ms_create_psbt`: "validate", "query", "fee", "prevs",
"done", "failed". In "fee" each action is the action of the `FeeLoop` instance
`Loop`, with the size computed by `SizedVSize`, which follows the serializers
of `PsbtTransaction` and the push prefixes of `script.py` byte by byte. The
refinement maps the request to the call and the sum of the outputs selected.
`pc` and the loop's variables have their values for the fee loop from the
beginning, since nothing before the loop touches them.

### Signing

`MakeVin` takes the sources of a send and refuses all of them when a coin has a
script that its key cannot spend. `Build` is an iteration of the fee loop that
has new outputs, `SignInput` one turn of the loop of `sign_segwit` on the copy
`signed`. Scripts, digests and signatures are tuples of what goes into them, so
that a digest taken over the wrong copy of the transaction, the wrong amount or
the wrong script is a different one. Keys are integers modulo an odd group
order, where negation changes the parity as it does on the curve: this is what
the taproot tweak is about. `Accepted` is the node.

### PsbtWire

`ReadMap` is one turn of the loop of `parse_psbt`, with its errors in the order
in which they are met; `MissingMap` and `EndOfMaps` are what it does when the
maps of the file or those announced are used up. `SerializePsbt` writes what
was read and starts to read it again; `CombineWith` merges another document.
Fields are pairs; those the wallet parses are written anew (`Held`), the others
as they came. Of the transactions and outputs it keeps parsed, the bytes may
change (`Anew`): `_Reader.read_compact_size` takes any length of a length inside
them and the writers use the shortest, and a previous transaction in the BIP-144
layout without witnesses is written in the plain one. Keys are sorted by their
bytes (`TypeRank`), where type 256 comes before 253. Bound: a transaction has at
least one input.

### Addresses

`Publish` encodes an owner's program, `HandOut` is a string of other software,
`Retype` what may happen to either on its way, and `Pay` is `make_lock_script`.
The regrouping of bits is the code's own accumulator. `Standard` says in terms
of single bits what the ladders of checks say in terms of groups.

### SeedPhrase

`NewSeed`, `DrawUntil` and `DrawUnique` are the two ways of newseed;
`AskPassphrase` and `AskSeed` are the reception of the two lines from a terminal
or a pipe; `Open` and `MsOwnPrivkey` derive the key. A key is the record of all
that went into it.

### MCComponents

`Failover`, `Selection`, `Signing`, `Addresses`, `PsbtWire`, `SeedPhrase`,
`QuorumScript` and `MsSend` are checked in one instance. They share no variable
and no step of one reads what another keeps, so a behaviour uses one of them
(`using`) and leaves the others in an initial state: their interleavings have
nothing to add. Where components do interact, the modules compose: `MsSend` runs
its fee loop as an instance of `FeeLoop`, `PsbtRoles` refines `QuorumSpend`.

## 4. Runs

There are twelve, and none takes more than a few minutes. Five pass, seven
expect a violation.

| run | instance and bounds | what it shows |
|---|---|---|
| `feeloop` | sizes of a one-input P2WPKH spend, one byte of DER to either side; seven rates around the relay floor; a slack at, below and above every fee the loop can reach | it ends, closes the cycle, loses nothing, pays its rate |
| `psbt_quorum` | three cosigners, a 2-of-3 p2wsh input, callers that pass the right script, another or none | open copies merge, finals stay, a signed quorum gets its transaction |
| `psbt_mixed` | two cosigners, two competing drafts over a 2-of-3 p2wsh and a 1-of-2 leaf, three documents of other software, one of them with a wrong previous transaction at its second input | thresholds met by members, no signature is lost (also where signing raises after the first input), the refinement of `QuorumSpend` |
| `wallet` | four outputs over three nonces, one nonce with two forms, one paid late, in a form of its own; balance, send and scan with targets met first, second or never | nothing left behind, stop at the target, change within reach, balance complete, every command ends |
| `components` | the eight instances below | types, and the properties below |
| the seven violations | the instance of their component | see 7 |

In `components`:

| component | instance and bounds | what is shown |
|---|---|---|
| `Failover` | three providers alone and under auto, two calls, two retries | everybody is asked once, no request is refused twice, waits are bounded, a broadcast that is reported happened, a call ends |
| `Selection` | three addresses with one or two outputs and colliding markers; every sequence of keys | what is spent is what was shown, the tick holds |
| `Signing` | a group of order 11; two sources, one with two coins, of every form and parity and with coins that are not theirs; two builds | a node accepts every candidate at every input |
| `Addresses` | programs of 20 and 32 bytes in twelve patterns; strings over three prefixes, both checksums, versions 0, 1, 2 and 17, eight lengths on both sides of every check, four paddings | an address pays its owner, exactly standard strings are paid |
| `PsbtWire` | one input, one or two outputs; 16 global maps with every number of maps and both ends, and every input map of up to two pairs out of 30 of all types, with transactions and outputs that have a longer length in them than needed; four documents to merge with | own files are read, nothing is lost, the order of merges does not matter |
| `SeedPhrase` | a lexicon of eight words with counts below, at and above what it can fill; four phrases in every spacing and Unicode form; a passphrase in three forms, or none | drawing ends, a printed seed opens its key, a standard wallet goes by what was meant |
| `QuorumScript` | four owners, two of whom derive, -n of 1, 3 and 4 with at most 3 allowed, -m of 0, 1, 2 and 4, all orders, three foreign scripts | one script per quorum, signatures fit, distinct signers, a quorum completes |
| `MsSend` | three forms; quorums of 1, 3 and 15 keys (push prefixes of 1, 2 and 3 bytes, both sides of 253); answers of up to two outputs; four pairs of rate and fee | refinement of `FeeLoop`, witness spends pay their rate, a refusal with a set fee is final |

`QuorumScript` pays to foreign scripts only when nobody has derived one: the two
ways to a script do not meet later.

Why the bounds are enough. The fee loop distinguishes one output from two and a
size from the one before; the instance has each transition at each value of
slack near it. The wallet's code compares a nonce with the one before and a form
with the next: three nonces and three forms give a first, a middle and a last of
each, and an address that arrives late closes a gap during the walk. The roles
treat inputs and keys alike; a second input is needed for partial failure, a
third key for a signature beyond the threshold, a second draft for straying.
Two retries give a first, a middle and a last attempt; three providers make the
order wrap. 2-of-3 is the smallest quorum with too few, enough and too many
signatures, and the one odd key sorts differently in its two encodings. Two
pairs are enough for every order, duplicate and conflict within a map. A second
build signs inputs again that were signed before, and a second source is behind
the inputs of the first. In a group of order 11 keys and tweaked keys of both
parities occur in all four combinations.

`CHECK_DEADLOCK FALSE` is set where a run ends: a command that returned, a call
budget spent, a script executed.

## 5. Fairness

- `FeeLoop`: `WF_vars(Next)`. The loop is sequential code without I/O.
- `Wallet`: `WF_vars(Command /\ pc # "built")`. A command is one thread that is
  ready at each step, its requests end (see `Failover`), but whoever is asked
  to confirm a transaction may not answer. `Others` has no fairness.
- `Failover`: `WF_vars(Exchange)`. `requests` gives up after the timeout of
  `fwd.py`; no fairness for `Call`: the wallet need not ask.
- `PsbtRoles`: weak fairness for combining, finalizing and extracting. Nothing
  in the code does this by itself; it is what the exchange asks of its users,
  and `QuorumCompletes` says that then nothing in the code stands in their way.
  Signing is not fair: the property begins when a quorum has signed.
- `QuorumScript`: weak fairness for the owners' signing, for finalizing and for
  the node. As above for the owners; a node runs a script to its end.
- `SeedPhrase`: strong fairness for a draw that passes the floor. The draws of
  `_draw_until` are independent and uniform, so a draw with positive probability
  comes with probability one; `DrawEnds` is stated for the counts that have one.
- `components`: the conjunction of the above. The steps of a component that is
  not in use are disabled, so its fairness asks for nothing.

`Selection`, `Signing`, `Addresses`, `PsbtWire` and `MsSend` have no liveness
property and no fairness.

## 6. Proofs

Everything below is checked by TLAPS for every value of the constants that
satisfies the modules' named assumptions, which TLC evaluates on the instances.
Every invariant and every action property of a passing run is a theorem; of the
liveness properties, the part that needs no fairness.

**Fee loop** (`FeeLoopProofs`): `TypeCorrect`, `ConservationHolds`,
`RatePaidHolds`, `CycleClosedHolds`. `RatePaid` is not inductive. While no
candidate pays, each new size asks for more than its candidate paid, so
`current_fee` only grows and stays at or above the fee of every size seen; the
candidate that repeats a size was therefore built with enough for it. `IInv`
keeps exactly that, and that the fee of each size seen has been built or is being
built, which gives `CycleClosed`. Nothing is assumed about how size depends on fee.

`make_transaction` caps its loop nowhere. `OneBuildPerSizeHolds` says that every
candidate but one has brought a size none had before, so the loop builds at most
one candidate more than a signed transaction can have sizes (`LoopBounded`),
and at most three when the size follows from the number of outputs
(`PairBounds`, used for multisig).

**Wallet** (`WalletProofs`): `TypeCorrect` and four properties of the walks. No
number of outputs, nonces or payments of others is assumed, only that the
outputs are finitely many.

- `ChangeFoundHolds` speaks of all nonces before the change, and the scan only
  remembers the present one. `IInv` says that all nonces passed have been paid
  (`Reached`), that the cache of the nonce being gathered holds an answer "used"
  (`SomeUsed`) and that such an answer is true (`Learned`); payments stay,
  whatever others do. Answers that hide funds make the scan stop early and never
  late, so the theorem has no condition on `masked`.
- `NothingLeftBehindHolds` is the other side of the same walk. An answer
  "unused" that hid nothing was true when the command began (`Silent`); the
  question whether a nonce is used goes through its forms in order (`Asked`);
  what was due at the addresses behind the walk has been collected
  (`Collected`); a payment once made stays made (`Lasting`); while a scan runs
  no reason to stop is recorded (`Unstopped`). At the gap every form has answered
  "unused", so nothing due lies there, and beyond it the unbroken path of paid
  nonces that the property asks for has ended.
- `StopsAtTargetHolds`: the sources are ordered by nonce (`Ordered`), so the
  outputs of the nonces before the last are those on which the scan decided to
  go on, and those did not reach the target (`Unmet`).
- `BalanceCompleteHolds` follows an output that has to be counted from the walk
  to the sum: it is counted, or a key of its nonce is still to come (`Opening`,
  `Counting`), and an address is left out only by an answer that was true
  (`KeptAnswers`).
- `CommandAdvances`: every step of a command takes it to a later phase or leaves
  fewer requests in this one (`StepsLeft`, counted from the last nonce that is
  ever paid, `Top`), whatever the providers answer or hide; a payment or spend
  of others adds none. A walk passes a nonce only on an answer "used", and that
  is true, so it cannot pass `Top`.

**Selection and signing** (`SendProofs`):

- `ScreenTypeCorrect`, `SpentAsShownHolds`, `TickHoldsHolds`. The figure on the
  screen is the sum of what is ticked after every key, and the result of Enter
  is grouped from the same ticks (`Shown`); the listing does not change while the
  screen is open (`SameListing`). The default selection exists because the target
  was compared with all outputs before the screen opened.
- `SigningTypeCorrect`, `CandidatesVerifyHolds`, for every odd group order and
  every tweak, any number of inputs in any mix of forms, and any number of
  builds. The copy being signed is the unsigned transaction of its build with
  the inputs up to `done` signed as if alone (`Partial`, `Progress`): no digest
  looks at the scripts and witnesses of the other inputs, so signing one neither
  spoils those before it nor depends on them. The parity of the tweaked key is
  settled by exactly one of a point and its negative being even.

**Network** (`SendProofs`): `NetTypeCorrect`, `RefusedOnceHolds`,
`WaitBoundedHolds`, `BroadcastHappenedHolds`, `EveryBackendTriedHolds`. Each backend stands in the
order of "auto" exactly once, wherever it begins (`WalkIsOrder`, by a lemma that
counting on around the list wraps at most once). While a call runs, the
backends behind are its trail (`Behind`), and the requests ahead (`Ahead`: the
one under way, the tip after it, and those of the backends not yet reached) have
been refused by nobody (`Fresh`). The one assumption on the numbers is that the back-off cap does not
exceed the sane Retry-After, which holds of the constants of `net.py`. The
back-off delay is a recursive function (`Doubled`), so that it is bounded and
whole for any number of retries (`DelayBound`) without a fact about powers.
`CallAdvances`: every request ends the call or leaves strictly fewer that may
follow (`RequestsLeft`: at each backend ahead two requests, each repeated up to
`Retries` times), whatever is answered.

**PSBT roles** (`PsbtRolesProofs`): `TypeCorrect`, `ThresholdMetHolds`,
`ImplementsQuorumSpend`, that is `Spec => Promise!Spec`, `FinalStaysHolds`,
`SignaturesKeptHolds`, `OpenCopiesMergeHolds`, for the documents of other
software that `ForeignAssumption` lets in. The invariant speaks of each copy
alone (`GoodDoc`): its signatures, open or final, are over its own draft and were
made by their owners for that draft at that input, and a final field is a
complete quorum. Every role makes a good document from good ones, so neither the
way a copy travelled nor the order of the merges matters. `ExtractTransaction`
becomes `Spend`, with the signers of the final fields as the quorum. That open
copies merge needs more (`OwnCopies`): in an exchange that no other software
takes part in, no copy carries a sighash type, a script other than the quorum's,
a previous transaction other than the one spent,
or a signature with any other sighash than the form's. `OpenCopiesMerge` is
stated for those exchanges.

**Formats** (`FormatProofs`):

- `PhraseTypeCorrect`, `PrintedSeedOpensHolds`, `StandardWalletHolds`. An opened
  key is the derivation of what was typed, and a shown one that of the drawn
  seed (`PInv`); `KeyFields` says what a derivation keeps of its arguments, and
  the two properties compare derivations.
- `WireTypeCorrect`, `OwnFilesReadHolds`, `NothingLostHolds`,
  `MergeOrderFreeHolds`. What has been read is a document that would be read back
  unchanged (`WellRead`), each pair of it was taken from the file or written
  anew as the code does (`TakenIn`), and for a file written here the maps are those
  it was written from (`Rereads`). That writing a map lists its pairs once each,
  in key order, is an induction over the fold that sorts them
  (`KeyOrderedLists`). `combine_psbt` is a union of maps that agree
  (`MergeUnites`), which has no order.
- `AddressTypeCorrect`, `OwnAddressPaidHolds`, `StandardIffPaidHolds`, for any
  programs of 20 or 32 bytes and any bech32 strings, with the accumulator of
  12 bits that the code has. After k values have gone in, the groups that are
  out followed by the bits in hand are the first bits that went in, in order
  (`Carried`, kept by `TakeStep`), and the bits in hand fit the accumulator, so
  its mask never cuts one off (`AccBits`). So `RegroupedBits`: what comes out has
  the bits of what went in, 8 to 5 (`GroupedBits`) and 5 to 8 (`UngroupedBits`),
  and there and back is the identity (`RoundTrip`), since two sequences of values
  with the same bits are the same (`SameBits`). The test of the padding is a
  statement about those bits (`PaddedBits`), and the ladder of checks of
  `make_lock_script` amounts to the standard (`StandardPaid`). The invariant
  (`AddressInv`) says that a string as it was published is the owner's, in small
  letters or in capitals, and that one with a wrong letter is no address;
  `OwnPaid` then follows the string of each of the five forms back to its owner.

**Multisig** (`MultisigProofs`):

- `ImplementsFeeLoop`, that is `Spec => Loop!Spec`: the initial states map to
  initial states, every action of the phase "fee" is an action of the loop, and
  every other one a stutter. The request is computed from the call and the answer
  of the backend, which no step changes, so the theorems of `FeeLoopProofs` hold
  of it through their `INSTANCE` (`LoopKeeps`): `SendConserves`, and a part of
  `SendTypeCorrect` and of `EstimateIsWorstCase`.
- `EstimateIsWorstCase`, that is `WitnessRateHolds`, and `RefusalIsFinalHolds`.
  `MInv` adds that a candidate was billed for the size of the sized spend with
  its number of outputs. A witness grows with its signatures
  (`WitnessMonotone`), and by `SigSizesAssumption` no real signature is longer
  than its estimate: at most 72 bytes of low-S DER, or 64 of BIP-340, and a
  sighash byte. So the rate that
  was paid for the estimate is paid for every spend the members can make.
- `SendLoopBounded`: at most three builds. The cosigners have not signed, so a
  spend with one output has one size and a spend with two has one.
- `QuorumTypeCorrect`, `SameScriptHolds`, `SignaturesFitHolds`,
  `DistinctSignersHolds`, for any owners, any quorum and both terminators of the
  leaf. A derived script is the script of its *set* of keys, sorted
  (`DerivedScript`), whatever order they were typed in. `Running` says what the
  stack holds before each instruction: for OP_CHECKMULTISIG the keys and
  signatures pushed so far, the signatures those of an increasing choice of
  positions (`MultisigAt`); for a leaf the slots not yet read and a counter equal
  to the members that signed among those read (`TapscriptAt`). When the script
  accepts, the choice, or the counter, is the quorum of distinct signers.

**Together** (`ComponentsProofs`): `AllTypesCorrect`, that is
`ComponentsSpec => []AllTypesOK`. The components of `MCComponents` share no
variable, so each of its steps is a step of one component and a stutter of the
others (`StepsAll`), and each component's type theorem holds of it.

**Lemmas** (`InductionFacts`). The induction theorems of the library take an
operator as a parameter and cannot be instantiated here. The lemmas state
induction over a *set* instead: every nonempty set of naturals has a least
element (`LeastNatural`), so a set that contains 0 and is closed under
successors up to n contains all of them (`InductionUpTo`), and likewise for
finite sets (`MinimalSet`, `InductionOnSets`). From these follow the folds and
recursive functions of the community modules as far as the models use them:
`FlattenSeq` (`FlattenSeqType`, `FlattenSteps`, `FlattenPicks`, `FlattenPairs`),
`InsertAt` (`InsertKeeps`), `FoldSet` and sums (`FoldExists`, `SumExists`,
`SumType`), and images of finite sets.

**Assumptions.** Each is stated in the module that declares the constant. Those
that are more than a type: the outputs of the wallet are finitely many; `Drain`
and `SendAll` are no amounts; the sources of a scan are not empty; the group
order is odd and no tweak is zero or leads to infinity; a line without words has
nothing between them; there is one empty key data, types and keydata have an
order, a transaction has an input, and writing a transaction or an output anew
a second time changes nothing more; documents to merge
with were written by this program; calls that pass validation have `m <= n`; the
signature sizes above; a quorum needs at least one signature; foreign documents
have no final field and one open signature per key, over their own draft; programs are of 20 or 32
bytes, and the human-readable part `bc` has two letters.

**Only model-checked**, and why:

- Liveness: `Termination`, `CommandEnds`, `CallEnds`, `DrawEnds` and the two
  `QuorumCompletes`. They rest on fairness, hence on ENABLED, which the prover
  does not reach. For `Termination`, `CallEnds` and `CommandEnds` the half that
  needs no fairness is proved: `LoopBounded`, `CallAdvances` and
  `CommandAdvances` bound what is left to do by a number that each step of the
  code decreases. What TLC adds is that a step is possible, and taken, until the
  end is reached. `DrawEnds` and `QuorumCompletes` are checked only.
- What the seven runs of section 7 refute, each by a counterexample.

## 7. Where code and text disagree

Seven disagreements have a run that exhibits them:

1. `failover_decode`: a body that is not JSON is read as an empty answer
   (`net.py:215`, 229, 261), while the comment at `net.py:496-498` counts a
   decode failure among the reasons to move on. A used address is then taken
   for unpaid. Esplora's `get_unspent` does the same with any false JSON,
   whatever the status (`net.py:294-299`).
2. `wallet_short`: with the fee left to the loop, a scan stops once the *amount*
   is covered (`wallet.py:606`), and the fee loop then raises although later
   nonces hold funds. `wallet.py:582-584` promises payment and fee.
3. `quorum_script_idiom`: the tapscript leaf ends in 0x9d, OP_NUMEQUALVERIFY,
   which leaves nothing on the stack (`script.py:697`). The comment at
   `script.py:639-641` calls the behaviour identical. With 0x9c the run passes
   (set `TAPSCRIPT_NUMEQUAL = "numequal"` in the cfg).
4. `ms_send_scriptsig`: `wallet.py:1083` adds the length of the push prefix of
   the redeem script and leaves out the script, so a p2sh quorum spend is sized
   too small and pays less than its rate; `wallet.py:1080-1082` and 697-698 call
   the estimate the worst case.
5. `balance_forms`: `balance` lists the outputs of each key's own form only
   (`cli.py:218`); the help at `cli.py:49-51` and the comment at 224-226 say that
   outputs of every form are seen.
6. `psbt_stray`: the test for a stray terminator looks at a slice that begins
   five bytes early (`psbt.py:1118`), so a document with one is reported as
   MapCountMismatch; `psbt.py:1115-1117` and 104-107 say Truncated.
7. `seed_opens`: a seed with a letter outside latin-1 passes `validate_seed` and
   then raises in the KDF (`crypto.py:189`, 287); `cli.py:36-37` and
   `seed.py:428-430` say that any non-empty seed is accepted.

Others were met while reading and have no run of their own:

- With a rate below the relay floor the fallback of the pick takes the first
  candidate, which pays nothing (`wallet.py:133`; docstring at 117-119).
- `sign_psbt` signs with the first matching key only (`psbt.py:2394`, docstring
  at 2366-2369). `SignPsbt` models the code.
- Space on an address row ticks all rows of the *nonce*, the addresses of its
  other forms too (`tui.py:79`, against 75-76 and 336-337). `ToggleGroup`
  models the code.
- `ms_create_address` says the builder cannot fail (`wallet.py:852-855`); two
  keys of one x coordinate make it fail for p2tr, reported as QuorumBounds.
- A scan starts at nonce 0 whatever `--nonce` says, and takes outputs of any
  number of confirmations. `ScanNonce` and `GatherUnspent` model the code.
- `seed.py:304-306` says that the normalisation is the KDF's; the KDF without a
  passphrase does not normalise. A blank at the end of a seed typed at a
  terminal stays, on a pipe it goes; two blanks between words make another
  wallet with every KDF. `Stretched`, `Read` and `Nfkd` model the code.
- `newseed -n` above twice the size of the word list never ends: no draw has
  each word at most twice. `DrawEnds` is stated for the counts below.
- `decode_segwit_addr` lets v1 programs of 2 to 40 bytes through, and
  `make_lock_script` then ends in an untyped ValueError for those that are not
  of 32 bytes. `Bech32Script` models the refusal.
- The docstring of `serialize_psbt` promises the parsed bytes back for any
  canonically ordered file; VERSION 0 and empty final scripts are not written,
  and a transaction or an output whose lengths are longer than needed, or a
  previous transaction with a BIP-144 marker and no witness, comes back in other
  bytes. `NothingLost` names them all.
- The decoder of the base64 armour takes padding in the middle of the text, such
  as "QQ==QQ==". The armour is not modelled.
- `pushtx` prints the double hash of all bytes of a transaction with witnesses,
  which is its wtxid. `pushtx` is not modelled.

## 8. What is not modelled

- **The one-way functions**: KDFs, hashes, BIP-32 arithmetic, the curve. What
  goes in is kept apart, and in `Signing` the curve is a small group.
- **Checksums**: that the bech32 polynomial and the base58 hash detect a typing
  error is their property; a wrong letter leaves no checksum that fits. The
  digits of base58 are not converted.
- **Byte layouts**: of transactions, digests, the pairs of a PSBT, the base64
  armour and its cap, and `CScript`'s parsing of a script. The repository tests
  them with vectors. Lengths are modelled where sizes matter (`MsSend`).
- **`psbt_summary`**, the entropy estimate with its warning, and the drawing of
  the screen: output without effect on state.
- **`address`, `dumpprivkey`, `pushtx`, `ms_wif_own_key`**: straight-line calls
  around input, output and a comparison of keys.
- **Code no command calls**: the legacy `sign` of `transaction.py` and
  `decode_taproot_addr`.
- **The prompt before a broadcast**: declining ends the command.

## 9. Plan

Done: FeeLoop, PsbtRoles over QuorumSpend, Failover, Wallet, Selection,
QuorumScript, MsSend over FeeLoop, PsbtWire, Addresses, SeedPhrase, Signing;
proofs about all of them.

Next, a proof: `QuorumScript` and `PsbtRoles` together, that the finalized stack
of a `PsbtRoles` input is one that `DistinctSigners` speaks of.

Next, models: the quorum script inside `PsbtRoles`, so that a foreign document
carries a script instead of its verdict; the screen's forms of one nonce
together with the scan that found them.
