----------------------------- MODULE Selection -----------------------------
(***************************************************************************)
(* The interactive choice of inputs: cli._send_interactive, the key loop   *)
(* of src/src/yubtc/tui.py and the regrouping of src/src/yubtc/select.py.  *)
(*                                                                         *)
(* The scan hands over one source per paid address.  The screen remembers  *)
(* an output by its marker, the nonce of its key and its index in the      *)
(* transaction that made it: two outputs may have the same marker.         *)
(***************************************************************************)
EXTENDS Integers, Sequences, FiniteSets, SequencesExt

CONSTANTS
    Scans,    \* possible results of the scan: sequences of
              \* [nonce, outs], outs a sequence of [out_n, amount]
    Targets,  \* amounts asked for
    Fees,     \* --fee, 0 to leave it to the size
    FeeKb,    \* --feekb
    SendAll   \* the amount that stands for ALL

ASSUME ScansAssumption ==
    \A scan \in Scans :
      /\ scan \in Seq([nonce : Nat, outs : Seq([out_n : Nat, amount : Nat \ {0}])])
      /\ scan # <<>> /\ \A n \in DOMAIN scan : scan[n].outs # <<>>
ASSUME CallAssumption ==
    SendAll \notin Nat /\ Targets \subseteq Nat \cup {SendAll} /\ Fees \subseteq Nat /\ FeeKb \in Nat

VARIABLES
    sources,   \* what the scan found
    target,    \* the amount to send
    cli_fee,   \* the fee set on the command line
    selected,  \* selected_set, the markers ticked
    total,     \* the "Selected" figure on the screen
    cursor,    \* the row the cursor is on
    mode,      \* "open", "accepted" or "cancelled"
    grouped    \* selection_to_sources: source -> the outputs to spend from it

screen == <<sources, target, cli_fee, selected, total, cursor, mode, grouped>>
asked == <<sources, target, cli_fee>>

----------------------------------------------------------------------------
(* Outputs, markers and rows *)

\* A row is <<source, output>>; output 0 is the line of the address itself.
Rows == FlattenSeq([s \in DOMAIN sources |->
            [k \in 1..(Len(sources[s].outs) + 1) |-> <<s, k - 1>>]])
Listed == FlattenSeq([s \in DOMAIN sources |->
              [k \in DOMAIN sources[s].outs |-> <<s, k>>]])

Amount(o) == sources[o[1]].outs[o[2]].amount
Worth(outputs) == FoldSet(LAMBDA o, sum : Amount(o) + sum, 0, outputs)

Marker(o) == <<sources[o[1]].nonce, sources[o[1]].outs[o[2]].out_n>>
Markers(outputs) == {Marker(o) : o \in outputs}

\* materialise, and the sum of compute_total
Ticked(sel) == {o \in ToSet(Listed) : Marker(o) \in sel}
ComputeTotal(sel) == Worth(Ticked(sel))

\* The first n outputs are as many as default_selection walks over.
Greedy(n) ==
    \/ target = SendAll /\ n = Len(Listed)
    \/ target # SendAll /\ Worth({Listed[i] : i \in 1..n}) >= target

\* As few of the first outputs as fill the target.
DefaultSelection ==
    LET n == CHOOSE n \in 0..Len(Listed) :
                 Greedy(n) /\ \A m \in 0..(n - 1) : ~Greedy(m)
    IN  Markers({Listed[i] : i \in 1..n})

----------------------------------------------------------------------------
(* The status line *)

\* estimate_tx_size with _count_outputs: legacy sizes, whatever the inputs.
EstimatedSize(inputs) ==
    10 + 148 * inputs
       + 34 * (IF target = SendAll THEN 1 ELSE IF total <= target + cli_fee THEN 1 ELSE 2)

ShownFee == IF cli_fee # 0 THEN cli_fee
            ELSE (EstimatedSize(Cardinality(selected)) * FeeKb) \div 1000

\* Mutant: the second tick looks at the amount alone.
CoversFee_AmountOnly == target # SendAll /\ total >= target

\* The tick that says the selection covers the amount and the fee.
CoversFee == target # SendAll /\ total >= target + ShownFee

----------------------------------------------------------------------------
\* _send_interactive opens the screen unless nothing was found or the target
\* is more than everything.
ScreenInit ==
    /\ sources \in Scans /\ target \in Targets /\ cli_fee \in Fees
    /\ target # SendAll => target <= Worth(ToSet(Listed))
    /\ selected = DefaultSelection
    /\ total = ComputeTotal(selected)
    /\ cursor = 1
    /\ mode = "open" /\ grouped = <<>>

\* A change of the ticks is followed by compute_total.
Select(sel) == selected' = sel /\ total' = ComputeTotal(sel)

\* Space on an output.
ToggleOutput ==
    LET row == Rows[cursor]
    IN  /\ mode = "open" /\ row[2] # 0
        /\ Select(IF Marker(row) \in selected THEN selected \ {Marker(row)}
                  ELSE selected \cup {Marker(row)})
        /\ UNCHANGED <<asked, cursor, mode, grouped>>

\* Space on an address: all outputs of its nonce, off when all are on.
ToggleGroup ==
    LET row == Rows[cursor]
        group == Markers({o \in ToSet(Listed) :
                            sources[o[1]].nonce = sources[row[1]].nonce})
    IN  /\ mode = "open" /\ row[2] = 0
        /\ Select(IF group \subseteq selected THEN selected \ group
                  ELSE selected \cup group)
        /\ UNCHANGED <<asked, cursor, mode, grouped>>

SelectAll ==
    /\ mode = "open"
    /\ Select(selected \cup Markers(ToSet(Listed)))
    /\ UNCHANGED <<asked, cursor, mode, grouped>>

SelectNone ==
    /\ mode = "open"
    /\ selected' = {} /\ total' = 0
    /\ UNCHANGED <<asked, cursor, mode, grouped>>

\* _step: the cursor stays inside the rows.
Step(direction) ==
    IF cursor + direction \in DOMAIN Rows THEN cursor + direction ELSE cursor

Move ==
    /\ mode = "open"
    /\ \E direction \in {-1, 1} : cursor' = Step(direction)
    /\ UNCHANGED <<asked, selected, total, mode, grouped>>

\* Mutant: grouped by the nonce of the key instead of the key itself.
Regroup_ByNonce(outputs) ==
    LET first(o) == CHOOSE s \in DOMAIN sources :
                        /\ sources[s].nonce = sources[o[1]].nonce
                        /\ \A r \in 1..(s - 1) : sources[r].nonce # sources[s].nonce
    IN  [s \in {first(o) : o \in outputs} |-> {o \in outputs : first(o) = s}]

\* selection_to_sources: the outputs ticked, by the key object that signs.
Regroup(outputs) ==
    [s \in {o[1] : o \in outputs} |-> {o \in outputs : o[1] = s}]

\* Enter: what is ticked goes to make_transaction as its sources.
Accept ==
    /\ mode = "open"
    /\ mode' = "accepted"
    /\ grouped' = Regroup(Ticked(selected))
    /\ UNCHANGED <<asked, selected, total, cursor>>

\* q or Esc.
Cancel ==
    /\ mode = "open"
    /\ mode' = "cancelled"
    /\ UNCHANGED <<asked, selected, total, cursor, grouped>>

ScreenNext == \/ ToggleOutput \/ ToggleGroup \/ SelectAll \/ SelectNone \/ Move
        \/ Accept \/ Cancel

ScreenSpec == ScreenInit /\ [][ScreenNext]_screen

----------------------------------------------------------------------------
ScreenTypeOK ==
    /\ sources \in Scans /\ target \in Targets /\ cli_fee \in Fees
    /\ selected \subseteq Nat \X Nat
    /\ total \in Nat
    /\ cursor \in DOMAIN Rows
    /\ mode \in {"open", "accepted", "cancelled"}
    /\ \A s \in DOMAIN grouped : grouped[s] \subseteq ToSet(Listed)

Spent == UNION {grouped[s] : s \in DOMAIN grouped}

\* What is spent is what the screen summed up when Enter was pressed, every
\* output by the key it was paid to: neither markers that name several outputs
\* nor two keys of one nonce get in the way.
SpentAsShown ==
    mode = "accepted" =>
      /\ Worth(Spent) = total
      /\ \A s \in DOMAIN grouped : \A o \in grouped[s] : o[1] = s

\* The tick before "Target" can be relied on when the fee is set: what is
\* accepted with it does not make make_vout raise.
TickHolds ==
    mode = "accepted" /\ cli_fee # 0 /\ CoversFee => target + cli_fee <= Worth(Spent)
=============================================================================
