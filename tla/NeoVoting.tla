----------------------------- MODULE NeoVoting -----------------------------
(***************************************************************************)
(* Validator registration and voting of the NEO native contract           *)
(* (pkg/core/native/native_neo.go, lines 1-441): every account's NEO       *)
(* balance, the keys registered as validators with their votes, the keys   *)
(* each account votes for, the validators count (the stake that voted for  *)
(* k validators, per k) and the next block validators stored by OnPersist. *)
(* Keys are numbers, so their order is the order of PublicKey.Cmp.  GAS   *)
(* distribution (distributeGas) only mints GAS and is left out.            *)
(***************************************************************************)
EXTENDS Integers, FiniteSets, Sequences, TLC

LOCAL SX == INSTANCE SequencesExt

CONSTANTS
    Accounts,       \* account script hashes
    Owner,          \* the standby validators' multisig account
    Keys,           \* public keys, as numbers
    Standby,        \* the standby validators, a sequence of keys
    Supply,         \* NEOTotalSupply
    CountChoices,   \* values GetWeightedAverage may return
    None

ASSUME /\ Owner \in Accounts /\ Keys \subseteq Nat /\ Standby \in Seq(Keys)
       /\ Len(Standby) = Cardinality(SX!ToSet(Standby))

VARIABLES
    neoBal,         \* account -> NEO balance, None without a storage item
    acctVotes,      \* account -> the keys its account state votes for
    registered,     \* keys with a validator storage item
    votes,          \* key -> its votes (meaningful for registered keys)
    vc,             \* 1 .. Cardinality(Keys) -> Fixed8 stake
    nextValidators  \* the list PutNextBlockValidators stored, or None

vars == <<neoBal, acctVotes, registered, votes, vc, nextValidators>>

VoteSizes == 1 .. Cardinality(Keys)

\* keys.PublicKeys.Unique: the first occurrence of each key, in order.
Unique(s) == SX!FoldLeft(LAMBDA acc, k : IF SX!Contains(acc, k) THEN acc
                                            ELSE Append(acc, k), <<>>, s)

-----------------------------------------------------------------------------

\* Initialize: the supply is minted to the standby validators' account and
\* every standby key is registered (a repeated standby key would make
\* registerValidatorInternal fail, so the standby list has none).
Init ==
    /\ neoBal = [a \in Accounts |-> IF a = Owner THEN Supply ELSE None]
    /\ acctVotes = [a \in Accounts |-> {}]
    /\ registered = SX!ToSet(Standby)
    /\ votes = [k \in Keys |-> 0]
    /\ vc = [i \in VoteSizes |-> 0]
    /\ nextValidators = None

\* registerValidator: registerValidatorInternal refuses a registered key and
\* stores an empty vote counter for a new one.
RegisterValidator(k) ==
    /\ k \notin registered
    /\ registered' = registered \cup {k}
    /\ votes' = [votes EXCEPT ![k] = 0]
    /\ UNCHANGED <<neoBal, acctVotes, vc, nextValidators>>

\* increaseBalance: the balance change of one side of a NEO transfer.
IncreaseBalance(bal, h, amount) ==
    LET cur == IF bal[h] = None THEN 0 ELSE bal[h]
    IN  IF amount = 0 THEN [err |-> FALSE, bal |-> bal]
        ELSE IF amount < 0 /\ cur < -amount THEN [err |-> TRUE, bal |-> bal]
        ELSE [err |-> FALSE, bal |-> [bal EXCEPT ![h] = cur + amount]]

\* A NEO transfer of the token code calls incBalance on both accounts; a
\* failing debit fails the transfer.
Transfer(from, to, amount) ==
    LET d == IncreaseBalance(neoBal, from, -amount)
        c == IncreaseBalance(d.bal, to, amount)
    IN  /\ from # to /\ neoBal[from] # None
        /\ ~d.err
        /\ neoBal' = c.bal
        /\ UNCHANGED <<acctVotes, registered, votes, vc, nextValidators>>

\* ModifyAccountVotes: every key the account votes for gets value added.
ModifyAccountVotes(vts, accVotes, value) ==
    [k \in Keys |-> IF k \in accVotes THEN vts[k] + value ELSE vts[k]]

NewPubs_Unfiltered(pubs) == pubs

\* The requested keys that are registered (pubs is already Unique).
NewPubs(pubs) == pubs \cap registered

\* VoteInternal for a witnessed account h; an account without a NEO
\* storage item is refused.  The old votes lose the current balance, the
\* validators count moves the balance when the number of keys changes, and
\* the new votes gain the balance.
Vote(h, pubs) ==
    LET bal  == neoBal[h]
        old  == acctVotes[h]
        new  == NewPubs(pubs)
        lp   == Cardinality(new)
        lv   == Cardinality(old)
        vc1  == IF lv > 0 THEN [vc EXCEPT ![lv] = @ - bal] ELSE vc
        vc2  == IF lp > 0 THEN [vc1 EXCEPT ![lp] = @ + bal] ELSE vc1
    IN  /\ bal # None
        /\ votes' = ModifyAccountVotes(ModifyAccountVotes(votes, old, -bal), new, bal)
        /\ vc' = IF lp # lv THEN vc2 ELSE vc
        /\ acctVotes' = [acctVotes EXCEPT ![h] = new]
        /\ UNCHANGED <<neoBal, registered, nextValidators>>

\* The registered keys, most voted first, ties broken by the smaller key.
Ranked == SX!SetToSortSeq(registered, LAMBDA x, y :
              votes[x] > votes[y] \/ (votes[x] = votes[y] /\ x < y))

Pad_NoContains(result, sb, count) ==
    SX!FoldLeft(LAMBDA acc, k : IF Len(acc) < count THEN Append(acc, k) ELSE acc,
                result, sb)

\* Standby keys not yet in the result are appended until it has count keys.
Pad(result, sb, count) ==
    SX!FoldLeft(LAMBDA acc, k : IF Len(acc) < count /\ ~SX!Contains(acc, k)
                                THEN Append(acc, k) ELSE acc,
                result, sb)

\* GetValidatorsInternal for the weighted average w: the keys with votes or
\* on standby, cut to count or padded with standby keys, sorted by key.
GetValidatorsInternal(w) ==
    LET count  == IF w < Len(Standby) THEN Len(Standby) ELSE w
        sb     == Unique(Standby)
        result == SelectSeq(Ranked, LAMBDA k : votes[k] > 0 \/ SX!Contains(sb, k))
        picked == IF Len(result) >= count THEN SubSeq(result, 1, count)
                  ELSE Pad(result, sb, count)
    IN  SortSeq(picked, <)

\* OnPersist stores the validators for the next block.
OnPersist ==
    /\ \E w \in CountChoices : nextValidators' = GetValidatorsInternal(w)
    /\ UNCHANGED <<neoBal, acctVotes, registered, votes, vc>>

Next ==
    \/ \E k \in Keys : RegisterValidator(k)
    \/ \E from, to \in Accounts, amount \in 1 .. Supply : Transfer(from, to, amount)
    \/ \E h \in Accounts, pubs \in SUBSET Keys : Vote(h, pubs)
    \/ OnPersist

Spec == Init /\ [][Next]_vars

-----------------------------------------------------------------------------

\* Every account votes only for registered keys (VoteInternal filters the
\* requested keys through their validator storage items).
TypeOK ==
    /\ neoBal \in [Accounts -> (0 .. Supply) \cup {None}]
    /\ acctVotes \in [Accounts -> SUBSET registered]
    /\ registered \subseteq Keys
    /\ votes \in [Keys -> Int] /\ vc \in [VoteSizes -> Int]
    /\ nextValidators \in Seq(Keys) \cup {None}

\* The validators OnPersist stores for the next block are distinct keys in
\* increasing order, all registered, and at least as many as the standby
\* validators: the cut to count and the padding with standby keys in
\* GetValidatorsInternal never repeat a validator nor leave too few.
NextValidatorsWellFormed ==
    nextValidators # None =>
        /\ \A i \in 1 .. Len(nextValidators) - 1 :
               nextValidators[i] < nextValidators[i + 1]
        /\ SX!ToSet(nextValidators) \subseteq registered
        /\ Len(nextValidators) >= Len(Standby)

\* The votes of a registered key are the NEO held by the accounts voting for
\* it: VoteInternal moves the voter's balance, and a transfer should move
\* the votes of both accounts with their balances.
VotesMatchBalances ==
    \A k \in registered :
        votes[k] = SX!MapThenSumSet(LAMBDA a : IF neoBal[a] = None THEN 0 ELSE neoBal[a],
                                    {a \in Accounts : k \in acctVotes[a]})
=============================================================================
