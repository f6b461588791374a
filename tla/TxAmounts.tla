------------------------------ MODULE TxAmounts ------------------------------
(***************************************************************************)
(* The money and ring-offset arithmetic of src/CryptoNoteCore/             *)
(* CryptoNoteFormatUtils.cpp, on the path a transaction takes from the     *)
(* wallet to the node.                                                     *)
(*                                                                         *)
(* constructTransaction builds a transaction from sources (each an amount  *)
(* and the ring of global output indices it hides among) and destinations; *)
(* a peer may instead hand the node any transaction.  The node runs the    *)
(* static checks of this file on it (checkInputTypesSupported,             *)
(* checkOutsValid, checkMultisignatureInputsDiff, checkMoneyOverflow,      *)
(* get_tx_fee) and converts each key input's relative offsets back to      *)
(* absolute indices.  Amounts are uint64_t and offsets uint32_t in the     *)
(* code; here their widths are the constants AmountBits and OffsetBits, so *)
(* that TLC reaches the wrap-around on small numbers.  Keys, signatures and *)
(* key derivations are cryptographic oracles: only whether they succeed    *)
(* matters.                                                                *)
(***************************************************************************)
EXTENDS Naturals, Sequences

CONSTANTS
    AmountBits,   \* width of an amount (64 in the code)
    OffsetBits,   \* width of an output index (32 in the code)
    Amounts,      \* amounts a source, destination, input or output may carry
    MaxSources,   \* bound on the sources, destinations, inputs and outputs
    RingSize      \* number of outputs in the ring of one source

ASSUME ConstantsAssumption ==
    /\ AmountBits \in Nat \ {0}
    /\ OffsetBits \in Nat \ {0}
    /\ Amounts \subseteq 0..(2^AmountBits - 1)
    /\ MaxSources \in Nat \ {0}
    /\ RingSize \in Nat \ {0}

AmountMod == 2^AmountBits
OffsetMod == 2^OffsetBits

(* Both moduli are positive, as 2^w is for every width w; stated because  *)
(* the provers have no axioms for exponentiation.                          *)
ASSUME ModuliAssumption ==
    /\ AmountMod \in Nat \ {0}
    /\ OffsetMod \in Nat \ {0}

(* Sequences of length 1..n over a set.                                    *)
SeqsUpTo(S, n) == UNION {[1..k -> S] : k \in 1..n}

(* The sum of a sequence of numbers, in unbounded arithmetic: the          *)
(* reference the fixed-width code is measured against.                      *)
RealSum(s) ==
    LET f[i \in 0..Len(s)] == IF i = 0 THEN 0 ELSE f[i - 1] + s[i]
    IN  f[Len(s)]

(* `money += amount' over a sequence, in uint64_t arithmetic.               *)
WrapSum(s) ==
    LET f[i \in 0..Len(s)] == IF i = 0 THEN 0 ELSE (f[i - 1] + s[i]) % AmountMod
    IN  f[Len(s)]

-----------------------------------------------------------------------------
(* Transactions.  An input is a KeyInput ("key", with relative offsets), a  *)
(* MultisignatureInput ("multisig", with its outputIndex) or a BaseInput    *)
(* ("coinbase"); an output is a KeyOutput or a MultisignatureOutput with    *)
(* its required signature count and number of keys.                         *)
InputKinds == {"key", "multisig", "coinbase"}
Rings == {r \in [1..RingSize -> 0..(OffsetMod - 1)] :
            \A i \in 1..(RingSize - 1) : r[i] < r[i + 1]}

(* The amount an input contributes (lines 94-98, 301-305, 388-392): zero   *)
(* for a coinbase input.                                                    *)
InputAmount(in) == IF in.type \in {"key", "multisig"} THEN in.amount ELSE 0

InAmounts(tx) == [i \in DOMAIN tx.inputs |-> InputAmount(tx.inputs[i])]
OutAmounts(tx) == [i \in DOMAIN tx.outputs |-> tx.outputs[i].amount]

(* relativeOutputOffsetsToAbsolute (lines 120-125): prefix sums, uint32_t. *)
relativeOutputOffsetsToAbsolute(off) ==
    LET res[i \in 0..Len(off)] ==
          IF i = 0 THEN 0 ELSE (res[i - 1] + off[i]) % OffsetMod
    IN  [i \in 1..Len(off) |-> res[i]]

(* Variant that subtracts the entry already made relative, as an in-place *)
(* loop over one vector would.                                             *)
absoluteToRelativeInPlace(off) ==
    LET copy[i \in 1..Len(off)] ==
          IF i = 1 THEN off[1] ELSE (off[i] - copy[i - 1]) % OffsetMod
    IN  [i \in 1..Len(off) |-> copy[i]]

(* absolute_output_offsets_to_relative (lines 127-134): each entry minus   *)
(* the previous absolute entry, uint32_t.                                   *)
absolute_output_offsets_to_relative(off) ==
    [i \in 1..Len(off) |->
        IF i = 1 THEN off[1] ELSE (off[i] - off[i - 1]) % OffsetMod]

(* Variant of the overflow loop that tests `money >= amount + money'.      *)
NoWrapInLoopGe(s) ==
    \A i \in 1..Len(s) :
        LET money == WrapSum(SubSeq(s, 1, i - 1))
        IN  ~(money >= (s[i] + money) % AmountMod)

(* checkInputsOverflow / checkOutsOverflow (lines 382-410): the loop fails *)
(* at the first amount whose addition wraps, `money > amount + money'.      *)
NoWrapInLoop(s) ==
    \A i \in 1..Len(s) :
        LET money == WrapSum(SubSeq(s, 1, i - 1))
        IN  ~(money > (s[i] + money) % AmountMod)

checkInputsOverflow(tx) == NoWrapInLoop(InAmounts(tx))
checkOutsOverflow(tx) == NoWrapInLoop(OutAmounts(tx))

(* Variant of checkMoneyOverflow that checks the inputs only.             *)
checkInputsOverflowOnly(tx) == checkInputsOverflow(tx)

(* checkMoneyOverflow (lines 378-380).                                      *)
checkMoneyOverflow(tx) == checkInputsOverflow(tx) /\ checkOutsOverflow(tx)

(* Variant of get_tx_fee's test with the comparison reversed.             *)
TxFeeOkReversed(tx) == WrapSum(InAmounts(tx)) <= WrapSum(OutAmounts(tx))

(* get_tx_fee (lines 89-111): both sums in uint64_t, fails when inputs are *)
(* less than outputs, else the fee is their difference.                      *)
TxFeeOk(tx) == WrapSum(InAmounts(tx)) >= WrapSum(OutAmounts(tx))
get_tx_fee(tx) == WrapSum(InAmounts(tx)) - WrapSum(OutAmounts(tx))

(* checkInputTypesSupported (lines 312-320).                                *)
checkInputTypesSupported(tx) ==
    \A i \in DOMAIN tx.inputs : tx.inputs[i].type \in {"key", "multisig"}

(* checkOutsValid (lines 322-363): a key output needs a non-zero amount, a *)
(* multisignature output no more required signatures than keys; every key  *)
(* is taken to be a valid curve point.                                      *)
checkOutsValid(tx) ==
    \A i \in DOMAIN tx.outputs :
        LET o == tx.outputs[i]
        IN  /\ o.type = "key" => o.amount # 0
            /\ o.type = "multisig" => o.required <= o.keys

(* checkMultisignatureInputsDiff (lines 365-376): no two multisignature    *)
(* inputs spend the same (amount, outputIndex).                              *)
checkMultisignatureInputsDiff(tx) ==
    \A i, j \in DOMAIN tx.inputs :
        /\ i # j
        /\ tx.inputs[i].type = "multisig"
        /\ tx.inputs[j].type = "multisig"
        => <<tx.inputs[i].amount, tx.inputs[i].outputIndex>> #
           <<tx.inputs[j].amount, tx.inputs[j].outputIndex>>

-----------------------------------------------------------------------------
VARIABLES
    status,    \* "idle", "constructFailed", "submitted", "accepted", "rejected"
    origin,    \* "none", "wallet" or "peer": who produced tx
    tx,        \* the transaction being built or checked
    chosen,    \* the rings (absolute indices) the wallet chose, per input
    resolved,  \* the absolute indices the node reconstructs, per input
    fee        \* the fee the node computed for an accepted transaction

vars == <<status, origin, tx, chosen, resolved, fee>>

NoTx == [inputs |-> <<>>, outputs |-> <<>>]

Init ==
    /\ status = "idle"
    /\ origin = "none"
    /\ tx = NoTx
    /\ chosen = <<>>
    /\ resolved = <<>>
    /\ fee = 0

(* The destinations in ascending amount order, as std::sort leaves them    *)
(* (lines 224-225): the permutations of d that are sorted.  All of them are *)
(* the same sequence of amounts, so a choice among them is deterministic.  *)
SortedAmounts(d) ==
    {t \in {[i \in DOMAIN d |-> d[f[i]]] :
               f \in {g \in [DOMAIN d -> DOMAIN d] :
                        \A i, j \in DOMAIN d : g[i] = g[j] => i = j}} :
        \A i \in 1..(Len(t) - 1) : t[i] <= t[i + 1]}

(* constructTransaction (lines 150-293) with sources `srcs' and destination *)
(* amounts `dsts'.  `cryptoOk' is the outcome of the key derivations, of   *)
(* the check that the derived key is the real output's key and of the      *)
(* deterministic transaction key (lines 188-197, 214-217, 237-255).        *)
(* The sums are accumulated in uint64_t with no overflow check.            *)
constructTransaction(srcs, dsts, cryptoOk) ==
    \E shuffled_dsts \in SortedAmounts(dsts) :
    LET summary_inputs_money == WrapSum([i \in DOMAIN srcs |-> srcs[i].amount])
        summary_outs_money == WrapSum(shuffled_dsts)
        ok == /\ \A i \in DOMAIN srcs : srcs[i].realOutput < RingSize
              /\ cryptoOk
              /\ \A i \in DOMAIN dsts : dsts[i] > 0
              /\ ~(summary_outs_money > summary_inputs_money)
    IN  /\ status = "idle"
        /\ \/ /\ ok
              /\ tx' = [inputs |-> [i \in DOMAIN srcs |->
                                      [type |-> "key", amount |-> srcs[i].amount,
                                       outputIndex |-> 0,
                                       offsets |-> absolute_output_offsets_to_relative(srcs[i].ring)]],
                        outputs |-> [i \in DOMAIN shuffled_dsts |->
                                      [type |-> "key", amount |-> shuffled_dsts[i],
                                       required |-> 0, keys |-> 1]]]
              /\ chosen' = [i \in DOMAIN srcs |-> srcs[i].ring]
              /\ status' = "submitted"
              /\ origin' = "wallet"
           \/ /\ ~ok
              /\ status' = "constructFailed"
              /\ UNCHANGED <<tx, chosen, origin>>
        /\ UNCHANGED <<resolved, fee>>

Sources == [amount : Amounts, ring : Rings, realOutput : {0, RingSize}]

Construct ==
    \E srcs \in SeqsUpTo(Sources, MaxSources),
       dsts \in SeqsUpTo(Amounts \ {0}, MaxSources),
       cryptoOk \in BOOLEAN :
        constructTransaction(srcs, dsts, cryptoOk)

(* Transactions a peer may relay: any inputs and outputs over the small    *)
(* sets, a key input carrying a single offset.                              *)
PeerInputs ==
    [type : InputKinds, amount : Amounts, outputIndex : {0, 1}, offsets : {<<0>>}]
PeerOutputs ==
    [type : {"key"}, amount : Amounts, required : {0}, keys : {1}] \cup
    [type : {"multisig"}, amount : Amounts, required : {1, 2}, keys : {1}]

Receive ==
    /\ status = "idle"
    /\ \E ins \in SeqsUpTo(PeerInputs, MaxSources),
          outs \in SeqsUpTo(PeerOutputs, MaxSources) :
          tx' = [inputs |-> ins, outputs |-> outs]
    /\ status' = "submitted"
    /\ origin' = "peer"
    /\ UNCHANGED <<chosen, resolved, fee>>

(* The node's semantic checks of a submitted transaction, in the order of  *)
(* the core's validation, then the fee; key inputs' offsets are converted  *)
(* to absolute indices to look the ring up.                                 *)
TxSemanticsOk(t) ==
    /\ checkInputTypesSupported(t)
    /\ checkOutsValid(t)
    /\ checkMultisignatureInputsDiff(t)
    /\ checkMoneyOverflow(t)
    /\ TxFeeOk(t)

Validate ==
    /\ status = "submitted"
    /\ resolved' = [i \in DOMAIN tx.inputs |->
                      relativeOutputOffsetsToAbsolute(tx.inputs[i].offsets)]
    /\ \/ /\ TxSemanticsOk(tx)
          /\ status' = "accepted"
          /\ fee' = get_tx_fee(tx)
       \/ /\ ~TxSemanticsOk(tx)
          /\ status' = "rejected"
          /\ UNCHANGED fee
    /\ UNCHANGED <<origin, tx, chosen>>

Next == Construct \/ Receive \/ Validate

Spec == Init /\ [][Next]_vars

-----------------------------------------------------------------------------
TypeOK ==
    /\ status \in {"idle", "constructFailed", "submitted", "accepted", "rejected"}
    /\ origin \in {"none", "wallet", "peer"}
    /\ fee \in 0..(AmountMod - 1)

(* A transaction the node accepts creates no money and pays the true fee: *)
(* its inputs, summed without overflow, cover its outputs, and the uint64_t *)
(* fee get_tx_fee returns is their exact difference (spec invariant 3).    *)
AcceptedBalanced ==
    status = "accepted" =>
        LET in == RealSum(InAmounts(tx))
            out == RealSum(OutAmounts(tx))
        IN  /\ in < AmountMod
            /\ out < AmountMod
            /\ out <= in
            /\ fee = in - out

(* checkMoneyOverflow rejects a transaction exactly when the true sum of  *)
(* its input amounts or of its output amounts does not fit in uint64_t:    *)
(* the `money > amount + money' test neither misses a wrap nor rejects a   *)
(* sum that fits (an input or output of amount zero included).             *)
OverflowCheckExact ==
    status \in {"accepted", "rejected"} =>
        (checkMoneyOverflow(tx) <=>
            /\ RealSum(InAmounts(tx)) < AmountMod
            /\ RealSum(OutAmounts(tx)) < AmountMod)

(* The node looks up exactly the ring the wallet chose: converting the    *)
(* wallet's absolute indices to relative offsets and the node's conversion *)
(* back are inverse in uint32_t arithmetic.                                *)
RingResolved ==
    (origin = "wallet" /\ status \in {"accepted", "rejected"}) =>
        resolved = chosen

(* Every transaction constructTransaction reports as built passes the     *)
(* node's semantic checks: the wallet's `check money' (line 267) keeps     *)
(* outputs within inputs.                                                  *)
ConstructedIsAccepted ==
    (origin = "wallet" /\ status \in {"accepted", "rejected"}) =>
        status = "accepted"
=============================================================================
