# TLA+ verification of SSIX (CryptoNote node)

This directory holds the formal models of the parts of the SSIX node whose source is in
`src/src/`. It has:

- TLA+ modules, one per component;
- the TLC configurations that model-check them on small instances;
- TLAPS proofs of the main invariants;
- `PROJECT.json`, which lists the components, runs, mutants, the map from each definition to
  source lines, the findings, the hazards and the theorems.

## 1. Inventory

The repository ships 13 source files. `spec.md` describes the whole node: a codec (C1), a
crypto oracle (C2), currency rules (C3), checkpoints (C4), an upgrade detector (C5), a DB
adapter (C6), the blockchain caches (C7), the cache hierarchy and fork manager (C8), the
transaction pool (C9) and the core façade (C10). Most of that code is not under `src/`. The
source we have falls into the components below.

| Component | Source | State | Operations | Interactions |
|---|---|---|---|---|
| Message queue | `CryptoNoteCore/MessageQueue.h` | `std::queue` of messages, a `System::Event`, a `stopped` flag, a publisher registration (`MesageQueueGuard`) | `push` (any thread, via `Dispatcher::remoteSpawn`), `front`, `pop`, `wait`, `stop`, guard ctor/dtor | publishers (the core's observers) push, one consumer fiber reads, the dispatcher runs the posted closures |
| Transaction money and offsets | `CryptoNoteCore/CryptoNoteFormatUtils.cpp` | a transaction being built by the wallet or checked by the node | `constructTransaction`, `get_tx_fee`, `checkInputTypesSupported`, `checkOutsValid`, `checkMultisignatureInputsDiff`, `checkMoneyOverflow` (inputs, outputs), the two ring-offset conversions | wallet → node: the node runs the checks on what the wallet built, or on anything a peer relays |
| Proofs and signatures | same file, 484-630 | none (pure) | `getTransactionProof`, `getReserveProof`, `signMessage`, `verifyMessage`, `lookup_acc_outs`, `is_out_to_acc` | crypto oracle and base58 |
| Daemon main | `Daemon/Daemon.cpp` | options, DB handle with a `ScopeExit` shutdown guard, core, p2p, RPC, console, signal handler, exit code | the start-up sequence, schema rebuild, `--rollback`, run loop, signal, shut-down | signal thread vs main thread; DB guard vs explicit shutdown |
| JSON-RPC client | `Rpc/HttpClient.h`, `HTTP/HttpResponse.h` | none across calls; per call the response status and body | `invokeJsonCommand`, `invokeJsonRpcCommand`, `invokeBinaryCommand` | HTTP connection |
| Checkpoints | `Checkpoints/Checkpoints.h`, `CheckpointsData.h` | height → hash map (only the interface and the table are here) | `addCheckpoint`, `checkBlock`, `isAlternativeBlockAllowed`, loaders | used by the core (not in `src/`) |
| Upgrade detector | `CryptoNoteCore/UpgradeDetector.cpp` | `(targetVersion, upgradeIndex)` | the getters | used by the cache hierarchy (not in `src/`) |
| Raw block record, cache factory | `DBUtils.cpp`, `MemoryBlockchainCacheFactory.cpp` | none | serialization of `RawBlock`; root cache creation | DB adapter (not in `src/`) |
| Headers | `ICoreDefinitions.h`, `Ipv4Address.h`, `FormatTools.h` | declarations | none | none |

### Hard behaviours

- **Message queue.**
  - `push` runs on any thread. It only posts a closure that captures `this` (line 103).
  - The consumer's `wait` clears the event, then suspends (lines 75-90).
  - `stop` sets the flag and the event (lines 109-112).
  - Hazards: a lost wakeup, a wakeup on an empty queue, a consumer that never leaves `wait`
    after `stop`, and a closure that runs after the queue object is destroyed.
- **Money arithmetic.** All sums are `uint64_t`.
  - The node detects wrap-around with `money > amount + money` (lines 382-410).
  - `get_tx_fee` and `constructTransaction` sum without any such test.
  - The ring offsets are `uint32_t` prefix sums and differences (120-134).
- **Daemon.**
  - Every start-up step may fail, some with `return`, some by throwing.
  - The DB guard must shut the DB down exactly once per `init`, across a schema rebuild that
    cancels and resumes it.
  - SIGINT before the handler is installed ends the process. After that, it stops the p2p loop.
  - `return false` in `main` converts to exit code 0.
- **JSON-RPC client.** Each helper sends one request. `HttpClient::request` may throw
  `ConnectException`, may throw another `std::exception`, or may fill in a status and a body.
  What the caller learns depends on:
  - the order of the handlers;
  - a status check that is commented out in the JSON-RPC helper;
  - the number `std::to_string` prints for the `HTTP_STATUS` enum.

### Properties worth checking

- The queue never returns from `wait` on an empty queue, keeps per-producer order, and delivers
  every message pushed unless it was stopped. `stop` always interrupts the consumer. No posted
  closure outlives the queue.
- Every transaction the node accepts has exact sums and fee. The overflow check is exact. The
  node resolves the ring the wallet chose. The wallet builds only transactions the node accepts.
- The DB is shut down once per init. A signal after install makes `main` return. The exit code
  is 0 only on normal shutdown or `--version`.

## 2. Modules

| Module | Models | Variables ↔ code |
|---|---|---|
| `MessageQueue` | `MessageQueue<T>` plus `MesageQueueGuard`, with N producers and one consumer fiber | `spawned` = closures posted by `remoteSpawn` not yet run; `messageQueue`, `event`, `stopped` = the members; `pc`/`op` = the consumer's place in `front`/`pop`/`wait`; `registered`/`alive` = guard and object lifetime |
| `TxAmounts` | the money and ring-offset code of `CryptoNoteFormatUtils.cpp`, on the wallet → node path | `tx` the transaction; `chosen` the wallet's absolute rings; `resolved` what the node's `relativeOutputOffsetsToAbsolute` gives back; `fee` |
| `Daemon` | `main()` of `Daemon.cpp` and the signal thread | `pc` the step of `main`; `db`, `guard`, `inits`, `shutdowns` the database and `dbShutdownOnExit`; `installed`, `stopSignal`, `console`, `signals` the handler side; `code`, `reason` the exit |
| `MessageChannel` | what the queue promises its subscriber: a FIFO channel with `Put`, `Take`, `Stop` and `Leave`, with weak fairness on `Take` until stopped | `pending`, `received`, `sent`, `stopped`, `open` |
| `RpcClient` | `invokeJsonCommand`, `invokeJsonRpcCommand`, `invokeBinaryCommand` and `HttpResponse::HTTP_STATUS` | `calls` is the caller's calls so far. Each one records what `request` and the server did (`transport`, `status`, `body`) and what the caller got (`result`, `error`, the number in the message) |
| `MC_*` | the model-checking instances | model values for producers, a small amount set |
| `MessageQueue_proofs` | TLAPS proofs about `MessageQueue`, the refinement included | none |
| `Daemon_proofs` | TLAPS proofs of `DbShutdownBalanced` and `TypeOK` | none |
| `RpcClient_proofs` | TLAPS proofs of the two `rpc_client` invariants | none |
| `TxAmounts_proofs` | TLAPS proofs of the four `tx_amounts` invariants, with the induction over the summing and offset loops | none |

### How the code maps to the models

**MessageQueue.** The dispatcher is cooperative and single-threaded. So the consumer's code
between two suspension points is one step:

- `CallWait` is a call of `front()` or `pop()` up to the first `event.wait()`, or up to the
  container access.
- `WaitWake` is the resumption from `event.wait()`.
- A `push()` is one step that appends to `spawned`.
- `RunSpawned` is the dispatcher running the oldest closure, in posting order.
- `stop` is `stop()`.
- `GuardRelease` is `InterruptedException` unwinding the consumer's scope. It runs
  `~MesageQueueGuard` and then destroys the queue.

`front()` on an empty `std::queue` is undefined behaviour. It is modelled as the value
`Garbage`, which is not a message.

**Refinement of the channel.** `MessageQueue` instantiates `MessageChannel` as `Channel` with
this mapping:

- `pending <- pendingBar`. This is the queued messages followed by the closures still in the
  dispatcher, with the head left out while the consumer is between `front()` and `pop()`.
- `open <- registered`.
- the other variables map to themselves.

Under this mapping:

- `push` is `Put`: it appends its message to `pendingBar`.
- `RunSpawned` is a stutter.
- the container access of `front()` is `Take`.
- the `pop()` is a stutter.
- `stop` is `Stop`.
- `GuardRelease` is `Leave`.

`QueueSafety` and `QueueLiveness` are the abstract specification's safety and fairness as
properties of the queue.

**RpcClient.** `Invoke` is one call of a helper. `\E` chooses:

- the helper;
- what `HttpClient::request` does: connect failure, exchange failure, or a response;
- the status;
- the body: it parses, it does not, or it is a JSON-RPC reply without `result`.

`Outcome` is the path through the helper's checks and its `catch` clauses, in the code's
order. `StatusValue` is the enum's ordinal, which is what `std::to_string` prints. `HttpCode`
is the HTTP status each enumerator stands for. Header building and body encoding are data and
are left out.

**TxAmounts.**

- `Construct` is `constructTransaction` with every outcome of its early returns. The crypto
  steps are one Boolean oracle.
- `Receive` is a peer handing the node an arbitrary small transaction.
- `Validate` runs the static checks of the file, computes the fee and converts each key input's
  offsets back to absolute.
- Amounts are `AmountBits` wide and offsets `OffsetBits` wide. `WrapSum` is the `uint64_t`
  accumulation. `RealSum` is the unbounded reference it is checked against.
- The destination sort is `SortedAmounts`: the set of sorted permutations of the destinations.
  All of them are the same sequence of amounts, so `constructTransaction`'s `\E` over it is a
  deterministic choice, as `std::sort` is. It is written as a set so that the proofs need not
  reason about `CHOOSE`.
- `ModuliAssumption` states that `2^AmountBits` and `2^OffsetBits` are positive naturals. It
  follows from `ConstantsAssumption`, but the provers have no axioms for `^`.
- The order of the node's checks (types, outputs, multisig, overflow, fee) is the order the
  core uses. That core code is not in `src/`.

**Daemon.** Each step that reads options, files or the network, or that may throw, chooses its
outcome nondeterministically:

- `ParseOptions` covers help, genesis, bad arguments and `--version`.
- `LoadCheckpoints`, `CheckConfig`, `DbInit`, `CoreLoad`, `P2pInit` and `StartRpc` can each go
  on or return 1.
- `SchemaCheck` has three outcomes: the schema matches; a rebuild succeeds; or the rebuild fails
  after the DB is destroyed.
- `Rollback` can find no option, rewind the chain, or hit an index that does not parse.
- `RunLoop` returns once a stop signal has been sent.
- `Shutdown` is the shut-down sequence.
- `LeaveScope` is the destruction of the try block's objects, including `~ScopeExit`.
- `Signal` is SIGINT on another thread.

## 3. Runs

| Run | Module / cfg | Checks | Shows |
|---|---|---|---|
| `mq_core` | `MC_MessageQueue` / `MC_MessageQueue.cfg` | `TypeOK`, `WakeupHasMessage`, `ReceivedInOrder`, `PushedIsReceived`, `StopInterrupts`, `QueueSafety`, `QueueLiveness` | with 2 producers × 2 pushes, every interleaving of push, closure, stop and consumer keeps order, never wakes on an empty queue, delivers, and stops; and the queue implements `MessageChannel` |
| `mq_teardown` | `MC_MessageQueue` / `MC_MessageQueue_teardown.cfg` | `NoSpawnAfterDestroy` (violation) | push, stop, interrupt, guard release while a closure is pending: the closure runs on a destroyed queue |
| `tx_amounts` | `MC_TxAmounts` / `MC_TxAmounts.cfg` | `TypeOK`, `AcceptedBalanced`, `OverflowCheckExact`, `RingResolved` | with 3-bit amounts {0,4,7}, 2-bit offsets, up to 2 inputs/outputs and rings of 3: the node's checks are exact and the offsets round-trip |
| `tx_construct` | `MC_TxAmounts` / `MC_TxAmounts_construct.cfg` | `ConstructedIsAccepted` (violation) | the wallet builds a transaction with inputs 7+7 (wrapped to 6) and output 4; the node rejects it |
| `daemon` | `MC_Daemon` / `MC_Daemon.cfg` | `TypeOK`, `DbShutdownBalanced`, `SignalStopsNode` | every exit path of `main`, with up to 3 signals at any point, shuts the DB down once per init, and a signal after install ends the run |
| `rpc_client` | `MC_RpcClient` / `MC_RpcClient.cfg` | `ConnectFailureReported`, `ResultOnlyFromValidBody` | over two calls, with every helper, transport outcome, status and body: a connect failure is reported as one by every helper, and a result is filled only from a valid body |
| `rpc_masking` | `MC_RpcClient` / `MC_RpcClient_masking.cfg` | `NetworkErrorMeansNetwork` (violation) | a JSON-RPC reply without a result, or one that does not parse, reaches the caller as `NETWORK_ERROR` |
| `rpc_status` | `MC_RpcClient` / `MC_RpcClient_status.cfg` | `StatusCodeReported` (violation) | a 401 reply gives "HTTP status: 1" |
| `daemon_exitcode` | `MC_Daemon` / `MC_Daemon_exitcode.cfg` | `ExitCodeFaithful` (violation) | an unparsable `--rollback` index makes `main` return 0 after a start-up error |

### Bounds

- **Message queue: two producers with two pushes each.** This is the smallest instance where:
  - the messages of two producers interleave in the queue;
  - a second message of one producer can overtake the first (it cannot);
  - `stop` can fall between two closures.
- **Amounts {0, 4, 7} at 3 bits.**
  - 4 + 4 wraps to exactly 0, the boundary of the `money > amount + money` test.
  - 4 + 7 wraps to 3, and 7 + 7 wraps to 6.
  - 0 exercises the zero-amount paths (`checkOutsValid`, a zero input).
  - Rings of 3 sorted indices in 0..3 cover offsets whose differences are 1, 2 and 3.
- **RpcClient.** Two calls, each drawn from all 3 helpers × 3 transports × 4 statuses × 3
  bodies. Every path through every helper is taken. The properties are per call, so a longer
  history adds nothing.
- **Daemon.** The state space is small. Three signals are enough for a signal before install, a
  signal after install, and a repeated one.

### Fairness

- **MessageQueue.** `RunSpawned`, `CallWait` and `WaitWake` are weakly fair.
  - The dispatcher runs every posted closure and resumes every ready fiber.
  - The consumer is a loop on `front`/`pop`.
  - Producers and `stop` are the environment, so no fairness is assumed for them.
- **Daemon.** The main thread is weakly fair. Signals are not.

### Deadlock checking

`CHECK_DEADLOCK FALSE` is set only where the process really stops:

- the consumer has left after `InterruptedException`;
- the node has validated one transaction;
- `main` has returned or the process was killed;
- the RPC caller has made its `MaxCalls` calls.

## 4. Findings

1. **MessageQueue (use-after-free).** `push` captures `this` in a closure given to
   `remoteSpawn` (MessageQueue.h:103). The guard's destructor only unregisters the queue, and
   nothing drains the closures already posted. Once the consumer is interrupted and its scope
   ends, a pending closure writes into the destroyed queue.
2. **constructTransaction (unchecked overflow).** It sums the source amounts (line 182) and the
   destination amounts (line 264) in `uint64_t` with no overflow check. The check at line 268
   compares wrapped sums, so the wallet reports success for a transaction the node rejects in
   `checkInputsOverflow`.
3. **Daemon exit code.** `main` executes `return false;` on an unparsable `--rollback` index
   (Daemon.cpp:341). The process then exits with status 0, though spec.md says a fatal init
   error exits with 1.

4. **invokeJsonRpcCommand (error masking).** `catch (const std::exception&)`
   (HttpClient.h:133) also catches two things that are not network failures:
   - the parse error of a malformed reply;
   - the helper's own "HTTP status" throw, for a reply that has no `result`.

   Both reach the caller as `HTTP status: NETWORK_ERROR`.
5. **invokeJsonCommand (wrong status number).** The message `"HTTP status: " +
   std::to_string(hres.getStatus())` (HttpClient.h:92) prints the ordinal of the
   `HTTP_STATUS` enum, so a 404 reply gives "HTTP status: 2".

## 5. Proofs

`MessageQueue_proofs.tla` proves the following for every set of producers and every
`MaxPush ≥ 1`:

- `TypeCorrect`: `Spec => []TypeOK`. It rests on the lemmas below and on the sequence facts
  `AppendProperties`, `SubSeqProperties` and `HeadTailProperties` from `SequenceTheorems`.
  - `TypeStep`: every action keeps `TypeOK`.
  - `AccessType`: the container access keeps `TypeOK`.
  - `InitType`: `Init => TypeOK`.
  - `FrontValueType`: the value `front()` yields has the right type.
- `WakeupSafe`: `Spec => []WakeupHasMessage`.
  - `WakeupHasMessage` alone is not inductive, because an untyped state could break it.
  - The inductive invariant is therefore `IInv == TypeOK /\ WakeupHasMessage`.
  - The step lemma `WakeupStep` goes action by action. Only three actions can make the
    antecedent true:
    - `CallWait`'s wait disjunct clears the event.
    - `RunSpawned` appends a message as it sets the event.
    - `stop` sets `stopped`.

- `Refinement`: `Spec => QueueSafety`, so every behaviour of the queue is a behaviour of
  `MessageChannel` under the mapping of section 2.
  - The invariant it needs is `RInv == TypeOK /\ WakeupHasMessage /\ PopHasHead /\ Lifecycle`.
    It was checked with TLC before it was proved.
    - `PopHasHead`: a `pop()` past its wait has a message to drop, so `Tail` in `pendingBar`
      removes the message `front()` returned.
    - `Lifecycle`: an unregistered subscriber has exited, and an interrupted or exited
      consumer was stopped. This makes `GuardRelease` a `Leave`.
  - `RefinementStep` proves, action by action, that each step is a channel step or a stutter.
    It rests on sequence lemmas proved here:
    - `AppendConcat`: `s \o Append(t,e) = Append(s \o t, e)`;
    - `MoveHead`: moving the head of the closures into the queue leaves the concatenation
      unchanged;
    - `HeadTailConcat` and `HeadTailOfConcat`.
  - The abstract liveness (`QueueLiveness`) is model-checked only.

`Daemon_proofs.tla` proves, for every `MaxSignals`:

- `DbBalanced`: `Spec => []DbShutdownBalanced`.
  - The inductive invariant `DInv` relates the guard to the step of `main`:
    - before `DbInit` the guard is not armed;
    - in `SchemaCheck` it is armed;
    - while it is armed and `main` has not exited, `inits = shutdowns + 1`;
    - otherwise `shutdowns = inits`.
  - `DbShutdownBalanced` alone is not inductive: it says nothing of the guard that will run at
    `LeaveScope`.

- `TypeCorrect`: `Spec => []TypeOK`. `TypeOK` bounds `inits` and `shutdowns`, which is not
  inductive by itself. The invariant is `TInv == TypeOK /\ DInv /\ InitCount`, where
  `InitCount` says that no `init()` has run before `DbInit` and exactly one during the schema
  check, so the rebuild brings `inits` to at most 2.

`MessageQueue_proofs.tla` also proves `InOrder`: `Spec => []ReceivedInOrder`.

- `ReceivedInOrder` says the message `front()` returns k-th among producer p's is p's k-th
  push. It counts with `CountFrom` (a cardinality), not a recursive operator.
- It is not inductive: a message still in the dispatcher or the queue is not yet in
  `received`. The invariant `OInv` states the same order for `received \o pendingBar`, all
  the messages in the order the consumer will see them, and that each producer's count in it
  equals `sent[p]`.
- `OrderStep` preserves `OInv` together with the refinement invariant `RInv`. Because
  `pendingBar` is the refinement mapping, each action either leaves `received \o pendingBar`
  unchanged (`RunSpawned`, `pop()`, `front()`) or appends one message (`push`).
- This uses the cardinality lemmas `CountPrefix`, `CountStep` and `CountPositive`.

`RpcClient_proofs.tla` proves `ConnectReported` and `ResultValid`, for every
bound on the calls.

- The per-call predicate `CallOK` says three things of a recorded call:
  - the outcome is well typed;
  - `CONNECT_ERROR` is reported exactly on a connect failure;
  - a result comes only from a valid body.
- `JsonOK`, `JsonRpcOK` and `BinaryOK` prove it for each helper, case by case on what
  `request()` and the server did, in the order of the helper's handlers.
- `CInv` says every recorded call satisfies `CallOK`. `Invoke` appends one call and leaves the
  others as they were.
- The two invariants follow from `CInv`. The model has no separate type invariant: `Outcome` builds every outcome from the three helpers' cases, so its type is part of `CallOK`.

`TxAmounts_proofs.tla` proves the four `tx_amounts` invariants. The statements hold for every
`AmountBits`, `OffsetBits`, `Amounts`, `MaxSources` and `RingSize` that `ConstantsAssumption`
allows, so they hold for the code's 64- and 32-bit widths.

- **Induction over the loops.** `WrapSum`, `RealSum` and `relativeOutputOffsetsToAbsolute` are
  recursive *functions* (`f[i \in 0..n] == ...`), so the module stays free of `RECURSIVE`. Such a
  definition is a `CHOOSE`, so its equations need a proof that a solution exists.
  - `SegmentInduction` gives induction over `0..N` on a set. It is proved from the
    well-foundedness of `<` on `Nat` (`WFMin`, a least counterexample), since the library's
    induction rules take an operator parameter that the provers cannot instantiate.
  - `ModPrefixDef` and `NatPrefixDef` prove that solutions exist and give their equations and
    ranges. They extend a solution on `0..k` to one on `0..k+1`.
- **`NoWrapExact`** is the heart of the module. For every sequence of amounts below
  `2^AmountBits`:
  - the loop `money > amount + money` passes exactly when the true sum fits;
  - the wrapped sum then equals the true sum.
  The proof is by induction on the prefix, with `WrapStep` as the arithmetic of one iteration.
  An amount below the modulus that wraps leaves the total smaller; one that does not wrap,
  zero included, leaves it no smaller.
- **`RingRoundTrip`**: `relativeOutputOffsetsToAbsolute(absolute_output_offsets_to_relative(r)) = r`
  for every increasing ring `r` of `uint32_t` indices. No difference of an increasing ring wraps,
  and the prefix sums add them back, by induction over the ring.
- **The invariant `TInv`**: `TypeOK`, plus three facts.
  - The amounts of `tx` lie in `uint64_t` range.
  - An accepted `tx` passed `TxSemanticsOk`, and its `fee` is `get_tx_fee(tx)`.
  - A wallet-built `tx` stores `absolute_output_offsets_to_relative` of the rings in `chosen`,
    and `resolved = chosen` once it has been validated.
  `TypeOK` alone is not inductive. The fee is in range only because `get_tx_fee` runs after
  `TxFeeOk`. The theorems also need what the node checked when it accepted. TLC checked `TInv`
  on the `tx_amounts` instance before it was proved.
- **The theorems:**
  - `TypeCorrect`: `Spec => []TypeOK`.
  - `OverflowExact`: `Spec => []OverflowCheckExact`, from `NoWrapExact`.
  - `Balanced`: `Spec => []AcceptedBalanced`. On an accepted transaction the wrapped sums are
    the true ones, so `get_tx_fee`'s test and subtraction are exact.
  - `RingsResolved`: `Spec => []RingResolved`, from `RingRoundTrip`.
- `ConstructedIsAccepted` is violated (finding 2 of section 4), so it has no theorem.

The properties below are model-checked only:

- Liveness (`PushedIsReceived`, `StopInterrupts`, `SignalStopsNode`, `QueueLiveness`). TLAPS
  cannot reason about fairness and ENABLED here.
- Every safety invariant and action property of the passing runs has a theorem above. Only the
  liveness properties stay with TLC. The properties of the violation runs describe what the
  code fails to do, so they are never proved.

## 6. Not modelled, and the plan for the next sittings

- **Not modelled, because it is pure or only I/O:**
  - the proofs and message signatures (484-630), which are crypto and encoding;
  - `HttpClient::request`, `connect` and the SSL setup. They are declared in `HttpClient.h`
    but defined outside `src/`; `RpcClient` takes their outcomes as a nondeterministic choice.
  - `UpgradeDetector.cpp`: two getters, with no operation that changes state.
  - `DBUtils`, the headers, `short_hash_str`, `lookup_acc_outs`;
  - `power_integral` and `is_valid_decomposed_amount`.
- **Checkpoints and UpgradeDetector.** Only interfaces and data are in `src/`. A `Checkpoints`
  module (the gate `isAlternativeBlockAllowed` and `checkBlock`) would be `spec_modelled`.
- **Planned.**
  - A `Chain` module for the cache hierarchy and fork manager (C7/C8), spec-modelled, with an
    abstract single-chain specification that it refines through INSTANCE ... WITH.
  - A pool (C9) with key-image exclusivity (P3).
