# Model checking saiya-node

TLA+ models of the parts of saiya-node where the order of events decides correctness. The models are checked with TLC. The modules cover the dBFT consensus engine (`src/pkg/dbft`), the memory pool, the consensus relay cache, the state root store with the state validation service composed on it, the NEO and SAI native contracts, and the VM's reference counter. `PROJECT.json` lists:

- every component, modelled or not;
- every run;
- the mutants that show each checked property can fail;
- the source lines each definition translates;
- the hazards the code is exposed to.

## 1. Inventory

### Components and how they interact

| Component | Source | State | Operations |
|---|---|---|---|
| dBFT engine | `pkg/dbft/config.go` (lines 344-945 hold dbft.go) | The Context of one validator: height, view, the preparation, commit and change-view slots (one per validator), last seen (height, view) per validator, the proposal, transactions and missing transactions, the timer, and the cache of future payloads | `Start`, `OnTransaction`, `OnTimeout`, `OnReceive` (all run under one mutex), and the handlers they call |
| dBFT quorum checks | `pkg/dbft/check.go` | none (reads the Context) | `checkPrepare`, `checkCommit`, `checkChangeView` |
| Recovery payload | `pkg/dbft/payload/recovery_message.go` | compact stubs of the payloads of a view | `AddPayload`, `GetPrepareRequest`, `GetPrepareResponses`, `GetChangeViews`, `GetCommits`, codec |
| Relay cache | `pkg/consensus/cache.go` | a FIFO queue and a map with a capacity | `Add`, `Has`, `Get` |
| Memory pool | `pkg/core/mempool/mem_pool.go` | sorted verified transactions, a map by hash, per-sender fee sums, conflicts | `Add`, `Remove`, `RemoveStale`, `checkTxConflicts`, resend |
| State root store | `pkg/core/stateroot/store.go` | the local and validated state roots, the validated height | `AddStateRoot`, `AddMPTBatch`, `VerifyStateRoot` |
| State root service | `pkg/services/stateroot/network.go`, `unnamed/part_005` | incomplete roots with collected signatures, retries of votes | `AddSignature`, `trySendRoot`, `signAndSend`, `sendVote` |
| VM reference counter | `pkg/vm/ref_counter.go`, `unnamed/part_006` | a map from item to count, a total | recursive `Add`, `Remove` |
| NEO native contract | `pkg/core/native/native_neo.go` lines 1-441 | balances, registered keys and their votes, each account's voted keys, the validators count, the next validators | `registerValidator`, `vote`, `increaseBalance`, `OnPersist` |
| SAI token | `native_neo.go` lines 442-660 (`Sai`, lines 661-885, repeats its storage code), `pkg/core/interop/block_context.go` | per-account balances, the total supply | `initialize`, `addTokens`, `AddBalance`, `SubBalance`, the EVM's `Transfer` |
| RPC request parameter | `pkg/rpc/request/param.go` | the raw JSON message and a cache of its first decoding | `GetString`, `AsString`, `GetBool`, `AsBool`, `GetInt`, `AsInt`, `GetArray`, `GetBytesHex`, `String`, `IsNull` |
| MPT, other native contracts, transactions, blocks, CLI, wallet, config | the rest | storage or pure data | encoding, validation, request handling |

The consensus engine calls its host through callbacks:

- `GetTx`, `RequestTx` and `GetVerified` read and request transactions from the memory pool.
- `ProcessBlock` appends a block to the ledger.
- `Broadcast` hands payloads to the network.
- `VerifyBlock` checks a proposed block.

The relay cache keeps the payloads the node re-broadcasts. The state root service signs the roots that the blocks produce.

### dBFT: behaviours that make it hard

- Payloads are delivered in any order, duplicated or never. Commits can arrive before the request they sign. Responses can arrive before the request they endorse.
- A faulty primary can send different proposals to different backups.
- Timers fire at any moment. A timeout races the payloads that would have made it unnecessary.
- View changes keep the commit and change-view slots. A validator that has committed must not leave its view.
- A RecoveryMessage is a batch of rebuilt payloads. The engine feeds them back through OnReceive, and its own view can change halfway through one call.
- Payloads for the next view or for a later height go to a cache that is never replayed.

### Properties that make the engine correct

- **Agreement**: no two honest validators decide different blocks at one height.
- **BlockWitnessValid**: every signature in a decided block is over that block's header.
- **PreparationCoherent**: a kept PrepareResponse endorses the request of the view.
- **CommitLock**: a validator that has sent its Commit never changes view at that height and never sends a ChangeView for it.
- **ResponseWithAllTransactions**: a response is sent only with every transaction in hand.
- **RecoveryCatchUp**: spec section 8 says a single RecoveryMessage brings a validator that missed a view to the current view.
- **Liveness** (planned): view changes converge and a view eventually decides.

## 2. Plan

Modules, in order of importance, with their status:

1. **`DBFT`** (done): the engine, check.go and the recovery payload, composed into one module. They share one Context and call each other synchronously. `MCDBFT` instantiates it with four validators, one of them faulty.
2. **`Mempool`** (done): `Add` with conflict removal and capacity eviction, `Verify`, `Remove`, `RemoveStale`, and the per-sender fee sums.
3. **`RelayCache`** (done): the FIFO with capacity, shown to refine the abstract `RecentSet` with `INSTANCE ... WITH`.
4. **`StateRootStore`** (done): `AddStateRoot`, local roots, `VerifyStateRoot` and `JumpToState`.
5. **`NeoVoting`** and **`SaiToken`** (done): the native contracts' state changes.
6. **dBFT liveness and forged recovery stubs** (next):
   - A liveness run under fairness on timer fires and on the delivery of each sender's latest payload.
   - A faulty validator that forges recovery stubs for the indexes of others, including the receiver's own.
7. **`StateRootService`** (done): the signature collection and vote retries of `network.go` and its run loop, composed with `StateRootStore`.
8. **`RefCounter`** (done): recursive `Add`/`Remove` over nested items, checked against a count over the items reachable from the stacks.
9. **`Param`** (done): the RPC parameter's caching accessors, shown to refine the stateless `ParamValue`. `MCRefCounterParam` checks it in one run with `RefCounter`.

## 3. The DBFT module

### State

- `ctx[n]` is the Context of honest validator `n`:
  - `height` and `view`;
  - the slots `prep`, `commit`, `cv` and `lastSeen`;
  - `proposal`, which stands for the header fields of the request: the proposed block and the view;
  - `txs` and `missing`;
  - `timer`, which holds the (height, view) tag the timer was armed with;
  - `chain`, the ledger that `ProcessBlock` appends to: each block with the commits that signed it.
- `msgs` is every payload ever broadcast. It only grows, so any payload can be delivered any number of times, in any order, or never.
- The faulty validators are not given state. They contribute the constant set `ByzPayloads`, which is a subset of `OwnPayloads(x)`: the well-formed payloads signed with their own key.

### Actions

Each action is one host call into one engine, the whole call chain included. The handlers are operators from a Context to a Context, composed the way the Go calls are nested. For example, `onPrepareResponse -> checkPrepare -> sendCommit -> checkCommit -> InitializeConsensus` is a single step, as it is under the engine's mutex. Broadcasts collect in `out` and join `msgs` at the end of the step.

| Action | Code |
|---|---|
| `Init` | `Start` and `start` on every validator: a node that starts late is one that receives nothing for a while |
| `OnTimeout(n)` | `OnTimeout`. Stale fires are no-ops in the code and are left out |
| `OnTransaction(n)` | `OnTransaction` for a transaction the engine asked for |
| `Receive(n, type)` | `OnReceive` of one payload of `msgs` or `ByzPayloads`. A RecoveryMessage first goes through its wire form, `DecodeRecovery(EncodeRecovery(m))`. Every payload rebuilt from it is then fed through `OnReceive` in the order of `onRecoveryMessage` |

`Env` holds the host's answers that a handler may ask for: the transactions the pool has, and the block a primary proposes. Both are chosen with `\E`.

### Modelled from the specification

`context.go` and `send.go` are not in the source tree, so the Context predicates, `reset`, and the `make*`/`send*` helpers are written from `spec.md` §4.4-4.5. They are marked `spec_modelled` in the map. Three choices follow from that:

- `sendChangeView` always sends the ChangeView.
- `makeChangeView` in `checkChangeView` asks for the accepted view.
- `GetPrimaryIndex` is the mathematical `(height - view) % N`.

### Abstractions

- **Time.** `extendTimer` and the timer delays only move deadlines, so a fire may happen at any moment.
- **Host checks.** `VerifyPrepareRequest` and `VerifyPrepareResponse` accept. `createAndCheckBlock` accepts exactly the blocks in `ValidBlocks`.
- **Signatures.** A Commit's signature is the header it signs, and the hash of a request is its (height, view, body).
- **The wire.** A RecoveryMessage is received as `DecodeBinary` rebuilds it from `EncodeBinary` (`EncodeRecovery`, `DecodeRecovery`). The encoder writes the preparation hash only when no PrepareRequest is included. A decoded message that carries a request therefore has no hash, and `GetPrepareResponses` rebuilds none of the responses it lists. This costs liveness only (see the hazard at `recovery_message.go:161`). The other payloads keep their fields on the wire and are delivered as they are.
- **The cache.** It is only written: `start()` replays it, but `start()` runs only from `Start()`, right after `newCache()`. Caching a payload is therefore modelled as dropping it.

## 4. dBFT runs

Every run uses N = 4 (f = 1, M = 3), Byz = {1}, one height, and views 0..1. Validator 1 is the primary of view 0 and validator 0 the primary of view 1.

Bounds, all named constants of `MCDBFT`:

- `MaxView` and `MaxHeight`. A validator past them stops (`Active`), and `ViewBound` stops expanding a state once any validator has passed `MaxView`.
- `MaxRecoveries` limits the RecoveryMessages in the network. Each one is a snapshot of its sender's slots.
- `MaxChangeViews` limits the honest ChangeViews.

Without these bounds, four validators with three independent message orders reach tens of millions of states even in view 0.

| Run | Faulty validator | Bounds | Checks | Result |
|---|---|---|---|---|
| `dbft_equivocate` | proposes b1 and b2 in view 0 and signs a Commit for b1 | no timeouts: the run is about quorum intersection under any delivery order | `Agreement`, `BlockWitnessValid`, `PreparationCoherent` | pass, 164k states |
| `dbft_missing_tx` | silent | 1 recovery, 4 ChangeViews: every honest validator may time out in view 0 and decide in view 1 with recoveries answered; b2 fails `createAndCheckBlock`; backups may lack `t1` and fetch it with `OnTransaction` | `TypeOK`, `ResponseWithAllTransactions`, `CommitLock` | pass, 81k states |
| `dbft_recovery_catchup` | silent | 1 recovery, 3 ChangeViews, no transactions | `RecoveryCatchUp` | violation |

The bounds are enough for what each run asks:

- Equivocation needs two proposals and one faulty Commit to give a decision with only two honest Commits.
- The commit lock needs a decision in a later view together with timeouts and RecoveryMessages arriving after the Commit.

Each property has a mutant of the code it is about that TLC catches under the run's configuration (`PROJECT.json` "mutants"):

- an off-by-one ledger height in `reset`;
- a timeout that ignores `CommitSent`;
- a Commit stored without verification;
- `updateExistingPayloads` without its commit pass;
- `updateExistingPayloads` without its response pass;
- a response that does not wait for missing transactions.

### dBFT finding

`GetChangeViews` (`recovery_message.go:132`) rebuilds each ChangeView stub with the RecoveryMessage's view and does not restore its original view. A validator one view behind therefore receives ChangeViews whose view is its own view plus one. `OnReceive` caches them (`config.go:566-573`), and the cache is never replayed. TLC reaches a state in which node 0 is at view 1 and has sent a RecoveryMessage holding the ChangeViews of nodes 0, 2 and 3. Nodes 2 and 3 are still at view 0 and would not move on receiving it. This contradicts spec §8.

## 5. The Mempool module

`Mempool` models `pkg/core/mempool/mem_pool.go`. Every exported method holds the pool's lock for its whole body, so each method is one action.

State:

- `verifiedTxes` is the sorted slice of items `[txn, blockStamp]`.
- `verifiedMap` is the set of hashes in the map.
- `fees` is the partial function sender -> `[balance, feeSum]` (`utilityBalanceAndFees`).
- `feePerByte` is the policy value last loaded by `RemoveStale`.
- `chain` is the host behind the `Feer` interface: height, balances and fee per byte. Only `AcceptBlock`, the environment, changes it.
- `last` is the transaction and the error of the last `Add`, so properties can talk about it.

A transaction is a model value whose fields come from the constant `Tx`. `CompareTo` is `item.CompareTo`, and `SearchPos` is the `sort.Search` of `Add`.

Actions:

| Action | Code |
|---|---|
| `Add(t)` | `Add`: the duplicate check, `checkTxConflicts`, `removeInternal` of the conflict, the sorted insertion with the capacity branch, and `tryAddSendersFee` |
| `Verify(t)` | `Verify`: `checkTxConflicts` under the read lock. Its only effect is the aliasing below |
| `Remove(h)` | `Remove` / `removeInternal` |
| `RemoveStale(isOK)` | `RemoveStale`, with `loadPolicy` and `checkPolicy` and the rebuild of `fees`. The filter `isOK` is any subset of the pool |
| `AcceptBlock` | the host: a new height, new balances, a new policy |

`TryGetData(h)` is the lookup of `TryGetData`: `DataSearch` is its `sort.Search` for the first item the transaction is at least as prioritised as, followed by the scan over items of equal priority. It changes nothing, so it is an operator that the property `DataRetrievable` applies to every pooled transaction.

Two choices depend on Go semantics:

- **Map order.** `checkTxConflicts` takes the first matching transaction in `verifiedMap` order, which Go randomises, so the conflict is chosen with `\E`.
- **big.Int aliasing.** `expectedSenderFee := actualSenderFee` copies a struct holding `big.Int` values. The copy shares its word array with the stored `feeSum`, and `Sub` writes the result into that array. The stored sum therefore changes in place, and its length and sign do not. `AliasedFeeSums(v, y)` gives the values the stored sum can be left with for one-word values.

## 6. The RelayCache and RecentSet modules

`RelayCache` models `pkg/consensus/cache.go`:

- `queue` is the list.
- `elems` is the set of hashes in the map.
- `Add(p)` is `relayCache.Add`.
- `Has` and `Get` are operators.

`RecentSet` is what the cache promises, stated without a queue. It keeps the most recent distinct payloads with their ages (the number of distinct payloads added since), and forgets those of age `Cap` or more. `RelayCache` instantiates it with `ages <- [h \in elems |-> Len(queue) - position of h]`. The run checks `RS!Spec` as a property, so every cache step is a `RecentSet` step or a stutter.

## 7. The StateRootStore module

`StateRootStore` models `pkg/core/stateroot/store.go`.

State:

- `stored` is index -> `[root, witness]`, the state root items.
- `auxValidated` and `validatedHeight` are the validated height, as stored and in memory.
- `localHeight` is the local height.
- `computed` holds the roots the blocks produce; the environment picks them.
- `jumped` records the one state jump.

Actions:

- `ProcessBlock` is `AddMPTBatch` followed by `UpdateCurrentLocal`.
- `AddStateRoot(sr)` takes a root from `NetRoots`, with or without a witness and with a good or bad signature, and follows the code's early returns in order.
- `JumpToState(sr)` is the state sync.
- `ModuleInit(h)` is `Module.Init` at chain height `h` after a restart. The validated height comes back from the `prefixValidated` item, or is 0 without it. The local height is the index of the root stored at `h`.

`Prev` keeps `r.Index - 1` in uint32, wrapping at 0. `AddStateRoot` is split into its early returns (`AddStateRootOK`) and its writes (`AddStateRootPut`) so that the service can call it inside its own steps.

### The StateRootService module

`StateRootService` extends `StateRootStore` with one state validator's service (`network.go`, `unnamed/part_005`).

State:

- `headerHeight` is the chain's header height, which runs ahead of the blocks.
- `blockCh` holds the blocks persisted and not yet taken by `run`.
- `incompleteRoots` is height -> `[root, sigs, isSent, retries, timer]`; `sigs` maps a validator to the root it signed and whether the signature is verified; `timer` is a pending `AfterFunc` resend.
- `votes` holds the other validators' votes accepted by the network and not yet handled.
- `sent` holds the validated roots `sendValidatedRoot` relayed, with the signatures `finalize` put in them.

Actions:

- `NewHeader` and `PersistBlock` (the store's `ProcessBlock`, then the block subscription's send) are the chain.
- `OnBlock` is one iteration of `run`: `signAndSend` (`SignAndSend`: root, own signature, `reverify`, `trySendRoot`, then `sendVote` with the retries at -1) and the deletion of the entry `voteValidEndInc` back, which at low heights wraps to a height with no entry.
- `ReceiveVote` accepts a vote within its validity window; `AddSignature(vt)` handles it, creating the entry if needed and refusing a signature over another root than a known one.
- `VoteTimer(h)` is the resend timer calling `sendVote` under the entry's lock.
- `StoreStep` is a validated root from the network (`AddStateRoot`) or a forward state jump.
- `Restart` is a node crash and restart, at most `MaxRestarts` times. The crash is taken after the chain has persisted its store, because the persist cadence is the blockchain's and is not in the tree. The service's memory is lost: entries, pending blocks, votes and timers. The store gets a new `Module` (`NewModule`), which `ModuleInit` initialises at the chain's height.

`incompleteRoot`'s methods are not in the tree. `addSignature` marks a signature verified when the root is known, `reverify` checks the rest against the root, and `finalize` takes the `M` verified signers with the smallest indexes. `isSenderNow` is a free choice (`senderNow`). `TrySendRoot` calls the store's `AddStateRoot` with the finalized root and, like the code, goes on to relay it whatever the store answered.

## 8. The NeoVoting and SaiToken modules

`NeoVoting` models the NEO contract of `native_neo.go` (lines 1-441).

State:

- `neoBal` is each account's balance; `None` means no storage item.
- `acctVotes` is each account's voted keys.
- `registered` holds the validator keys and `votes` their votes.
- `vc` is the validators count.
- `nextValidators` is what `OnPersist` stored.

Actions:

- `RegisterValidator`, `Vote` (`VoteInternal` with both `ModifyAccountVotes` calls) and `OnPersist` (`GetValidatorsInternal`).
- `Transfer`, two `increaseBalance` calls. The nep5 transfer that makes them is not in the tree.

Keys are numbers, so `<` is `PublicKey.Cmp`. `GetWeightedAverage` is not in the tree, so its result is chosen from `CountChoices`. This code depends on a nep5 base type that is missing from the repository.

`SaiToken` models the `SAI` contract (lines 442-660).

State:

- `balances` holds the `GasState` items.
- `supply` is the total-supply item.
- `height` is the block being persisted.

Actions:

- `Run` dispatches method 0x00 to `Initialize`, which mints at block 0; other inputs fail before any write.
- `AddBalance` and `SubBalance` call `addTokens` and drop its error.
- `Transfer` is the EVM's `CanTransfer` check followed by two `AddBalance` calls (`block_context.go`).

The state DB that routes the EVM's balance calls to the contract is not in the tree; the model calls the contract directly.

### The RefCounter module

`RefCounter` models `pkg/vm/ref_counter.go` and the `rc` counts of `unnamed/part_006`.

- `size` is `refCounter.size`, `rc` the count of each compound item, and `estack` the bag of items the VM's stacks hold.
- `Add` and `Remove` are `RECURSIVE` operators over `[size, rc]`, folding themselves over a compound item's elements (`FoldLeft`) when it gets its first reference or loses its last one.
- `Push(i)` and `Pop(i)` are the VM's calls: the stack operations themselves are not in the tree.
- The heap (`Children`) is a constant, because the instructions that change a compound's contents are not in the tree.

`RefCountExact` compares the counters with a reference: the stack slots plus the element slots of every compound item reachable from the stacks (`Closure`). The heap of the run shares `s` and `a2` and holds `a2` twice in `a1`, so both early returns matter. A heap with a cycle breaks the property. This is the hazard listed for `ref_counter.go:45`.

### The Param, ParamValue and ParamText modules

`Param` models the RPC request parameter of `pkg/rpc/request/param.go`.

- `raw` is `RawMessage`: the JSON value it holds, as a record of its JSON type and value. A string is a sequence of characters. A nil `*Param` is the raw "missing", and a number with a fraction is "float".
- `cache` is `Param.cache`: `None`, or the decoded Go value as a record of its Go type (`string`, `int`, `bool`, `[]Param`) and value.
- `out` maps the accessor last called to its result and error.
- Each pointer-receiver accessor is one action, `Invoke(m, M(raw, cache))`:
  - `Lookup` is the steps they share: fail on nil and on `null`, convert the cached value if there is one, and otherwise try `json.Unmarshal` into each type in the accessor's own order, caching the first that fits.
  - `Answer` picks the result, and `StringOf`, `BoolOf`, `IntOf` and `Exact` are the type switches.
- `String` has a value receiver. It calls `AsString` on a copy, so the caller's cache is left unchanged.
- `IsNull` and `String` panic on a nil `*Param`, so they are only taken on a parameter that exists.

`ParamText` holds the conversions, modelled by what they do:
- `Unmarshal`: a JSON value decodes only to its own Go type, and a number only if it lies in int's range.
- `Itoa`, a recursive operator.
- `Atoi`: one sign, then a digit loop; a syntax error with value 0, or a clamped value with a range error.
- `HexDecode`: the leading valid pairs of digits, then an invalid-byte or length error.

Go's int is scaled down to -100..99 (`MaxInt` = 99), so that a number and a decimal string can lie outside it.

`ParamValue` is the abstract specification. It has no cache, and `Value(m, r)` gives each accessor's result from the JSON type of the message alone. `Param` implements it: `RefinesParamValue` is `ParamValue`'s `Spec` under the identity mapping of `raw` and `out`.

The run checks two Param properties:

- **`ParamTypeOK`** is the type invariant. It also says that the cache only ever holds the message's own decoding. A cache holding anything else would make every later accessor of another type answer from it: this is the hazard listed for `param.go:88`.
- **`ParamRefinesValue`**: caching is invisible. After any sequence of other accessors, an accessor returns what it returns on a fresh parameter.

The conversions of `ParamText` are Go's standard library, not code of this repository. What the repository decides is which conversion each accessor applies, and that is checked by the refinement. No property checks `Atoi` or `Itoa` against a second definition of themselves.

## 9. Runs of the other modules

### Runs

| Run | Instance | Checks | Result |
|---|---|---|---|
| `mempool` | capacity 2, senders s1 (balance 9) and s2 (balance 2), five transactions, two of them replacing a cheaper one of the same nonce, 2 blocks, policies 0 and 1 | `TypeOK`, `PoolConsistent`, `Sorted`, `AddFailureKeepsTxs`, `DataRetrievable` | pass, 292k states |
| `mempool_conflict` | same | `NoSpuriousConflict` | violation |
| `mempool_overspend` | same | `SenderCanPay` | violation |
| `relay_cache` | capacity 3, six payloads | `TypeOK`, `RefinesRecentSet` | pass |
| `stateroot_service` | roots r1, r2, heights 0..2, validators 1 and 2 (this node 1, so `M` = 2), 1 retry, vote validity 1 block | `ServiceTypeOK`, `ValidatedNotAhead`, `SentRootsSigned`; the action property `RestartKeepsHeights`; and under `FairSpec` the liveness property `VoteResendsStop` | pass, 118k states |
| `stateroot_own_root` | same, under `SpecAll` | `OwnRootValidated` | violation |
| `neo_voting` | accounts owner and alice, keys 1..3 (1 and 2 on standby), supply 2, weighted average 1 or 3 | `TypeOK`, `NextValidatorsWellFormed` | pass, 957k states |
| `refcounter_param` | RefCounter: items s, a1 = <<s, a2, a2>>, a2 = <<s>>, m with values <<a2, a1>>; at most 5 items on the stacks. Param: 18 messages, one of each JSON type, with the numbers 0, 7, -1 and 100 and the strings "", "7", "-1", "100", "a1", "true", "-" and "07" | `RefCountExact`; `ParamTypeOK`; the refinement `ParamRefinesValue` | pass, 34k states (126 RefCounter states times the Param states) |
| `sai_token` | three holders, initial supply 3, amounts 1 and 2, blocks 0..2 | `TypeOK`, `SupplyMatchesBalances` | pass |

### Why these bounds are enough

- **Mempool.** Capacity 2 with three transactions of s2 makes eviction, replacement and `ErrOOM` all reachable. `FeeBound` (6) cuts the fee sums that repeated aliasing drives without bound; every violation found lies well inside it. The constraint `FeeSumBound` also stops the search at any state where a fee sum leaves -6..6. This includes the state where s1 has a1 and a2 pooled (fee sum 9): its successors are not explored. Those successors are only `Add`s that fail with `ErrOOM` and removals. No run reports a result about them.
- **NEO.** Three keys with two on standby make the cut (weighted average 1) and the padding (weighted average 3) both happen. `VoteBound` (2) cuts the vote drift of the transfer bug below, which would otherwise grow without bound.
- **State root service.** Two heights with a vote validity of one block make the deletion of old entries, a vote handled before its block and after its entry was deleted, and an expired resend all happen. Two roots let a vote sign another root than the local one. Two validators give `M` = 2, so a root needs the peer's signature; three validators (`M` = 3) also pass, in 3 minutes, and are left out to keep the mutant runs short. One restart (`MaxRestarts` = 1) is enough for `RestartKeepsHeights`. The property compares the state just before a restart with the state just after it, so a second restart only repeats the question from another state.
- **RefCounter.** Every bag of at most five items over the four-item heap is reached, and five covers two pushes of each compound item plus a scalar.
- **Param.** Each message can be read by every accessor in every order; the depth of the graph is the number of accessors that change the cache, plus one. The strings cover each branch of `Atoi`: empty, a lone sign, a leading zero, a letter, a negative, and a value above `MaxInt`. Each JSON type is covered, so every type switch and every `Unmarshal` failure is taken. `RefCounter` and `Param` share no state and are checked in one run. The product of their state spaces is small.
- **SAI.** `SupplyBound` (6) stops minting by `AddBalance`. It is twice the initial supply, so transfers, deletions and failing debits all happen above it.

### Mutants

Each property of a passing run is broken by one plausible bug:

- an `ErrOOM` test one item too late;
- an eviction that keeps the map entry;
- an insertion at capacity without the shift;
- an `ErrOOM` test on the length before the conflict removal;
- an eviction one item too late;
- a cache that keeps the evicted hash;
- an off-by-one local height;
- a state jump that does not move the local height;
- `addSignature` that marks a signature verified before the root is known;
- a vote without the registration filter;
- padding without `Contains`;
- `addTokens` that never deletes a zero balance;
- a reference counter `Add` that recounts the elements of an item already referenced;
- `addTokens` that moves the supply on a failed debit;
- a `TryGetData` search with `> 0` instead of `>= 0`, which starts past the item;
- a `sendVote` that rearms its timer without counting the retry;
- a `GetInt` that stores into the cache before checking its decoding error;
- an `AsBool` that reads a cached string as a number, as C# does;
- a `JumpToState` that does not put the validated height under `prefixValidated`. After a restart, the validated height is then 0.

### Findings

- **Eviction leaks the fee** (`mem_pool.go:213`). At capacity, `Add` drops the evicted transaction from the map and the slice but keeps its cost in the sender's `feeSum`. A later `Add` the sender can pay then fails with `ErrConflict`.
- **Aliased fee sum** (`mem_pool.go:438-445`). The shallow copy in `checkTxConflicts` rewrites the stored `feeSum`. This happens even when `Add` fails, and even from `Verify`. In the trace, s2's sum drops by the cost of a replaced transaction that is still counted, and s2 then pools more than its balance.
- **`AddStateRoot`'s checks are inverted** (`store.go:68`, `:71`). A root equal to the local one is refused with `ErrStateMismatch`, and a root for a local root without a witness is silently dropped; a different root replaces a local root that already has a witness. The `stateroot_own_root` run shows the effect on the service: it finalizes its own root with both signatures, relays it, and its own store refuses it (`network.go:82` only logs the error), so the validated height stays at 0.
- **Transfers do not move votes** (`native_neo.go:140`). `increaseBalance` changes a voter's NEO but not its keys' votes. `VotesMatchBalances` states the intent and TLC breaks it after a vote and a transfer; no run checks it, because this NEO contract does not build in this tree (its nep5 base type is missing). It is listed as a hazard.

## 10. Fairness

Only the `stateroot_service` run assumes fairness. `Restart` is not fair: a node need not crash. Its specification is `FairSpec`, which is `SpecAll` plus `Fairness`:

- **`OnBlock` is weakly fair.** `run` is a goroutine that loops on `blockCh` until `Shutdown`, which is not modelled.
- **`AddSignature` is weakly fair.** The network's handler goroutine handles every vote it accepted.
- **`VoteTimer(h)` is weakly fair for every height.** `time.AfterFunc` always calls its function once the delay has passed.

Headers, blocks, other validators' votes and network roots come from the rest of the node and stay unfair. They may stop at any time.

Under this fairness, `VoteResendsStop` says that every resend timer eventually stays disarmed. The property needs no fairness on the network.

The dBFT runs check safety only. A liveness check of dBFT would need two things:

- weak fairness of each validator's timer, because the code always rearms it;
- fair delivery of the latest payload of each sender. The code only retransmits on timeouts and recoveries, so delivery of every payload cannot be assumed.

## 11. Not modelled

- The config and options code, and every codec except the RecoveryMessage's: conversions and one-shot set-up.
- MPT nodes and proofs, transactions and blocks: byte-level data that TLC cannot usefully enumerate.
- The memory pool's subscriptions and resend goroutine: they only relay events and transactions, and no subscriber is in the tree. Their deadlock and double-close hazards are listed in `PROJECT.json`.
- The state root service's `Shutdown` and drain loop, and resend timers of entries already deleted: they only stop the goroutine or relay a vote no one counts.
- The state root store's `GC` and `CleanStorage`. They delete MPT nodes, which are not modelled, and leave the roots alone.
- GAS distribution, the ledger, designation and name contracts.
- The RPC parameter's decoders of hashes, addresses, base64, function parameters and signers (`GetUint256`, `GetUint160From*`, `GetBytesBase64`, `GetFuncParam`, `GetSignerWithWitness`, `GetSignersWithWitnesses`). Each calls `AsString`, whose cache effect is modelled, and then a byte-level decoder that holds no state. The parameters inside an array are not modelled either: each is a `Param` of its own.
- CLI, wallet and metrics: I/O without protocol state.
- Forged recovery stubs and unsigned-arithmetic primary selection: hazards listed in `PROJECT.json`, planned for later sittings.
