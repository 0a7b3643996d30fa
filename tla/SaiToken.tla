------------------------------ MODULE SaiToken ------------------------------
(***************************************************************************)
(* The SAI native token (pkg/core/native/native_neo.go, type SAI; type Sai *)
(* at lines 688-885 has the same storage code): per-account GasState       *)
(* balances, the total supply item, minting at block 0, and the balance    *)
(* changes the EVM makes through AddBalance and SubBalance, transfers      *)
(* (pkg/core/interop/block_context.go) included.  The state DB that        *)
(* routes the EVM's AddBalance to the native contract is not in the tree;  *)
(* the model lets it call the contract directly.                           *)
(***************************************************************************)
EXTENDS Integers, FiniteSets, TLC

LOCAL FX == INSTANCE FiniteSetsExt

CONSTANTS
    Holders,        \* account addresses
    Committee,      \* the committee address of block 0
    InitialSupply,  \* initialSupply scaled by 10^SAIDecimal
    Amounts,        \* amounts the EVM moves
    MaxHeight,      \* the last block persisted
    None

ASSUME Committee \in Holders /\ Amounts \subseteq Nat \ {0}

VARIABLES
    balances,       \* the GasState items: holder -> balance
    supply,         \* the totalSupplyKey item, None before the first write
    height          \* the index of the block being persisted

vars == <<balances, supply, height>>

Stored(bs, h) == h \in DOMAIN bs

\* GetBalance: an account without an item has 0.
GetBalance(h) == IF Stored(balances, h) THEN balances[h] ELSE 0

\* increaseBalance refuses a debit larger than the balance.
IncreaseBalance(bal, amount) ==
    IF amount < 0 /\ bal < -amount THEN [err |-> TRUE, bal |-> bal]
    ELSE [err |-> FALSE, bal |-> bal + amount]

Put(bs, h, v) == [x \in DOMAIN bs \cup {h} |-> IF x = h THEN v ELSE bs[x]]
Delete(bs, h) == [x \in DOMAIN bs \ {h} |-> bs[x]]

Store_NoDelete(bs, h, nb) == Put(bs, h, nb)

\* The write of addTokens: an existing item that reaches 0 is deleted, any
\* other is written, a new one included.
Store(bs, h, nb) == IF Stored(bs, h) /\ nb = 0 THEN Delete(bs, h) ELSE Put(bs, h, nb)

AddSupply(sup, amount) == (IF sup = None THEN 0 ELSE sup) + amount

AddTokens_SupplyOnError(bs, sup, h, amount) ==
    LET ngs == IncreaseBalance(IF Stored(bs, h) THEN bs[h] ELSE 0, amount)
    IN  IF amount = 0 THEN [bs |-> bs, sup |-> sup]
        ELSE IF ngs.err THEN [bs |-> bs, sup |-> AddSupply(sup, amount)]
        ELSE [bs |-> Store(bs, h, ngs.bal), sup |-> AddSupply(sup, amount)]

\* addTokens: a zero amount changes nothing and a failed debit returns
\* before any write; otherwise the item is stored and the total supply
\* moves by amount.  Its callers drop the error, so an error is the
\* unchanged state.
AddTokens(bs, sup, h, amount) ==
    LET ngs == IncreaseBalance(IF Stored(bs, h) THEN bs[h] ELSE 0, amount)
    IN  IF amount = 0 \/ ngs.err THEN [bs |-> bs, sup |-> sup]
        ELSE [bs |-> Store(bs, h, ngs.bal), sup |-> AddSupply(sup, amount)]

\* The result of addTokens becomes the state.
Apply(r) == balances' = r.bs /\ supply' = r.sup

Init ==
    /\ balances = [h \in {} |-> 0]
    /\ supply = None
    /\ height = 0

\* initialize (Run with method 0x00): mints the initial supply to the
\* committee while block 0 is persisted, and fails at any other height.
Initialize ==
    /\ height = 0
    /\ Apply(AddTokens(balances, supply, Committee, InitialSupply))
    /\ UNCHANGED height

\* AddBalance
AddBalance(h, amount) ==
    /\ Apply(AddTokens(balances, supply, h, amount))
    /\ UNCHANGED height

\* SubBalance: addTokens with the negated amount.
SubBalance(h, amount) ==
    /\ Apply(AddTokens(balances, supply, h, -amount))
    /\ UNCHANGED height

\* The EVM's value transfer: CanTransfer asks for a balance strictly above
\* the amount, then Transfer debits the sender and credits the receiver.
Transfer(from, to, amount) ==
    LET d == AddTokens(balances, supply, from, -amount)
        c == AddTokens(d.bs, d.sup, to, amount)
    IN  /\ GetBalance(from) > amount
        /\ Apply(c)
        /\ UNCHANGED height

\* The chain persists the next block.
NextBlock ==
    /\ height < MaxHeight
    /\ height' = height + 1
    /\ UNCHANGED <<balances, supply>>

\* Run: the contract's entry point.  An empty input fails with
\* ErrEmptyInput and a method byte other than 0x00 with ErrInvalidMethodID,
\* both before any write; 0x00 runs initialize.
Run(input) ==
    /\ input # <<>>
    /\ input[1] = 0
    /\ Initialize

Next ==
    \/ \E input \in {<<>>, <<0>>, <<1>>} : Run(input)
    \/ \E h \in Holders, a \in Amounts : AddBalance(h, a) \/ SubBalance(h, a)
    \/ \E from, to \in Holders, a \in Amounts : Transfer(from, to, a)
    \/ NextBlock

Spec == Init /\ [][Next]_vars

-----------------------------------------------------------------------------

\* No GasState item holds a zero balance: addTokens deletes the item of an
\* account it empties.
TypeOK ==
    /\ DOMAIN balances \subseteq Holders
    /\ \A h \in DOMAIN balances : balances[h] \in Nat \ {0}
    /\ supply \in Nat \cup {None}
    /\ height \in 0 .. MaxHeight

\* The total supply item is the sum of the stored balances, through failed
\* debits, deleted items and transfers.
SupplyMatchesBalances ==
    (IF supply = None THEN 0 ELSE supply) =
        FX!MapThenSumSet(LAMBDA h : balances[h], DOMAIN balances)
=============================================================================
