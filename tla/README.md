# TLA+ models of kit-beacon

These modules model the concurrent and failure-prone parts of the beacon
node in `src/`. Their source is Go. They cover how a block is received and
checked against the execution engine, and how payloads are built and cached
for block proposal. Each module keeps the control flow of the code. Every
guard, error path and return order is kept. Data is cut down to what the
properties can tell apart. PROJECT.json maps every definition to the source
lines it translates.

## The system and its parts

| Part | Source | Module |
|------|--------|--------|
| Engine API caller: the status switch, prechecks, deadline and RPC errors | `beacon/execution/engine/caller.go`, `beacon/prysm/engine_client.go` (`handleRPCError`) | `EngineCaller` (stateless operators) |
| Prysm engine client: the engine verbs, the terminal PoW block, blinded block reconstruction, the transition configuration check | `beacon/prysm/engine_client.go` | `PrysmEngineClient` |
| Block reception: an errgroup runs the state-transition check and the engine's `NewPayload`, then `postBlockProcess` runs | `beacon/blockchain/receive_block.go`, `beacon/execution/service.go` (`NotifyNewPayload`) | `ReceiveBlock` |
| Local payload building: concurrent get-or-build, the payload ID cache, forkchoice updates on a serial dispatch queue, and the engine's builds | `execution/builder/local/payload.go`, `beacon/execution/service.go` (`NotifyForkchoiceUpdate`), `caller.go` | `PayloadBuilder`, `MC_PayloadBuilder` |
| Engine connection and JWT refresh loops | `engine/client/client.go` | `EngineConnection` |
| Deposit fetch and catch-up goroutines | `mod/execution/pkg/deposit/sync.go` | `DepositSync` |
| Deposits and the withdrawal sweep | `mod/state-transition/pkg/core/state_processor_staking.go`, `state_processor_committee.go` | `StakingWithdrawals` |
| PrepareProposal and ProcessProposal middleware: two publish goroutines in an errgroup, then the proposal's Txs | `mod/runtime/pkg/runtime/middleware/validator.go` | `ProposalMiddleware` |

The other parts are not modelled, and PROJECT.json gives the reason for
each: SSZ encoding, data-availability verification, store getters, node
wiring, CLI and test tooling. They are pure data conversion, or they hold
no behaviour of their own.

The parts interact in two ways:

- When a block is received, the Engine API is called through
  `NotifyNewPayload`.
- When a block is proposed, the Engine API is called through
  `NotifyForkchoiceUpdate` and `GetPayload`.

Both paths share the translations in `EngineCaller`, which turn an engine
answer into a result and an error.

## How the modules correspond to the code

### `EngineCaller`

`EngineCaller` holds no state.

- `NewPayloadResult` translates the status switch of `NewPayload`. The
  result's `hash` field says whether a latest valid hash is returned.
- `ForkchoiceUpdatedPrecheck` translates the checks before the
  `ForkchoiceUpdated` RPC.
- `ForkchoiceUpdatedResult` translates the checks after that RPC.
- `handleRPCError` classifies a failed call as a timeout or as another
  RPC error.

### `ReceiveBlock`

There is one variable per goroutine (`stTask`, `elTask`), plus the
errgroup's first error and its cancellation (`groupErr`,
`groupCancelled`), the shared `isValidPayload`, and the caller's program
counter.

- `ValidateStateTransition` is one action for the first goroutine.
- The second goroutine is split into:
  - `CallNewPayload`, the type switch up to the RPC;
  - one action for each way the RPC can end: `EngineAnswers`, `CallFails`,
    `CallCancelled` and `CallTimeout`.
- `Wait` is `eg.Wait` together with the accepted/syncing swallow.
- `PostBlockProcess` is the tail of the handler.
- `ReceiveBeaconBlock` starts the next block.

### `PayloadBuilder`

There are per-caller locals: `pc`, `slot`, `parent`, `pid`, `fcuRes` and
`result`. Shared state is:

- the beacon state's slot and finalized hash;
- the cache, a function from (slot, hash) to an id, with 0 for no entry;
- the dispatch `queue` and its `worker`;
- the engine's builds, `built`.

The actions follow the lines of `GetOrBuildLocalPayload` and
`BuildLocalPayload`:

- `GetOrBuildLocalPayload` resolves the parent and looks up the cache.
- `GetCachedPayload` fetches a cached payload. On failure it falls through
  to a build.
- `BuildLocalPayload` fails on withdrawals, or queues the forkchoice
  update.
- `AfterForkchoice` handles the update's result: an error, a nil id, or a
  cache write.
- `GetNewPayload` fetches the newly built payload.

The queue's goroutine is `Dequeue`. The engine's answers are:

- `EngineForkchoiceUpdated`, any status, with or without an id;
- `ForkchoiceCallFails`;
- `ForkchoiceTimeout`;
- `EngineForgets`, when the engine drops old builds.

The chain moves on by `FinalizeBlock`.

The serial queue (`async/dispatch`) and the payload ID cache are not under
`src/`. `Dequeue` and `CacheGet` are therefore modelled from the
specification, and PROJECT.json marks them `spec_modelled`. Because the
queue's FIFO order is taken from the specification, the project checks no
property of that order: it would hold by construction.

`Complete` translates `NotifyForkchoiceUpdate` of `service.go`. That file
comes from an older snapshot of the repository than `payload.go`, and it
returns only an error. `payload.go` expects a payload id back. The
composition passes the id of the engine's answer to the caller.

### `ProposalMiddleware`

CometBFT calls the two handlers one at a time. `pc` is the handler's
position: idle, or blocked in `g.Wait()`. There is one `routine` entry per
publish goroutine. `bz` holds `beaconBlockBz` and `sidecarsBz`, and `gErr`
is the errgroup's first error. The last response is `call`, `txs`, `rerr`,
`built` and `status`.

- `RequestBestBlock` ends the handler on an error or a nil block.
  Otherwise it starts both goroutines.
- `Publish(x)` is one goroutine: the gossiper's `Publish`, the store of its
  bytes, and the closure's return value. `GoroutineResult` is that return
  value: the handler's outer `err`, whatever `localErr` is.
- `Wait` is `g.Wait()` followed by the response literal. gc makes the call
  before it reads the byte slices.
- `ProcessProposal` is the whole sequential handler: request, verify,
  blob request, blob verify, and reject at the first failure.

The validator service and the gossipers are not under `src/`, so their
answers are drawn freely.

### `EngineConnection`

A single goroutine runs `Start` and then becomes `jwtRefreshLoop`; `role`
records which. Its state is:

- `pc`, the step of `tryConnectionAfter` or `setupExecutionClientConnection`
  it is at;
- `connected`, which is `isConnected`;
- `current`, which is `s.Client`;
- `open`, the set of RPC clients dialled and not closed;
- `edgeLogs`, the non-401 error logs since the last connection. A 401 is
  always logged on its own line and is not counted.

The actions are:

- `TryConnection`: the `select` on `ctx.Done()` and the timer.
- `Dial`: `dialExecutionRPCClient`. The URL scheme decides the outcome:
  - an unknown scheme is an error;
  - IPC fails when nobody listens;
  - HTTP never fails at dial time;
  - a dial fails when every client handle is taken.
- `ChainIDErr`: what `VerifyChainID` returns: an RPC error, a 401, a
  chain-ID mismatch, or nil.
- `VerifyChainID`: the chain-ID check. On success it sets `isConnected`.
  On failure it closes `s.Client` (`client.go:164`) and goes to `closed`
  or `closed401`, with `isConnected` not yet touched.
- `ChainIDFailed`: the rest of the failed check (`client.go:165-175`). It
  logs a 401 always, and another error only while `isConnected` is still
  true. Then it clears `isConnected`. Between the two steps the flag is
  still true while the client is already closed. The log test at line
  168 reads the flag in that window.
- `StartLoop`: `Start`'s `for !isConnected` loop.
- `ExchangeAndRefresh`: the rest of `Start`.

The environment changes the engine between down, unauthorized (401),
wrong chain and up, and cancels the context.

### `DepositSync`

There are two goroutines, `fetcher` and `catchup`, each with the `pc` and
block number of its `fetchAndStoreDeposits`. Their shared state is:

- `failed`, the `failedBlocks` map;
- `todo`, the entries the catch-up `range` has not visited yet.

The actions are:

- `ReceiveBlock`: the `newBlock` case of `depositFetcher`. It subtracts the
  follow distance in U64 arithmetic, modulo `U64Mod`.
- `ReadOk` / `ReadFails`: `ReadDeposits`. A block the chain does not have
  cannot be read.
- `StoreOk` / `StoreFails`: `EnqueueDeposits` and the guarded delete.
- `Tick` and `NextEntry`: the ticker case and the `range` of
  `depositCatchupFetcher`. Entries deleted during the range are skipped,
  as Go's range does. Entries added during the range are always skipped
  too. Go may or may not visit them, and visiting one only means an
  extra retry. The abort is modelled only for the fetcher's write during
  the range. The fetcher's read of the map at line 105 is a second racing
  access the model does not separate. The map logged at line 70 is read
  inside the atomic `Tick`.

The map has no lock, so a fetcher write during the catch-up `range`
(`Ranging`) is a Go data race. The runtime may detect it and abort the
process with "concurrent map iteration and map write". `WriteFailed`
therefore has two outcomes when the fetcher writes during the range:

- the write goes through;
- `fatal` becomes true, after which `Next` allows no step. The process
  is gone and `failedBlocks`, which is only in memory, is lost with it.

The abort is reachable in the model. No checked property says it cannot
happen, because the code gives no such guarantee. PROJECT.json lists it
as a hazard.

### `StakingWithdrawals`

The state `st` is the part of the beacon state that processing changes:

- the validators (pubkey, effective balance) and their balances;
- the eth1 deposit index;
- the next withdrawal index and validator index.

`logs` is the deposit contract's log. Balances are counted in units of
`EffectiveBalanceIncrement`.

- `ProcessWithdrawals` translates `processWithdrawals`. It decreases each
  expected withdrawal's balance, saturating at 0, and advances both indices.
  After a full set of withdrawals it keeps the code's formula, which uses the
  last withdrawal's `Index` rather than its validator index.
- `ProcessDeposits`, `ProcessDeposit`, `CreateValidator` and
  `AddValidatorToRegistry` translate the deposit path. A known pubkey raises
  its `EffectiveBalance`, capped, and leaves its balance alone. A new pubkey
  with a valid signature is appended. An invalid signature is an error.
- `ValidatorUpdates` translates `processSyncCommitteeUpdates`: each
  validator's effective balance is its voting power.
- `ProcessBlock` runs withdrawals and then operations on a copy of the
  state. A block with an error is rejected and leaves the state unchanged.
  A block carries any run of the log of at most `MaxDepositsPerBlock`
  entries: the code never checks a deposit's index against the state.
- `ExpectedWithdrawals` (the Capella sweep) and the block-level caller are
  not under `src/`. They are modelled after the spec the code cites.

### `PrysmEngineClient`

The client keeps no state between calls. Each method is an operator from
its inputs and the engine's answers to its result. Each action makes one
call with inputs drawn from small sets and stores it in `last`. A
behaviour makes a single call (`Idle` guards the calls), then `Done`
stutters. A sequence of calls is just a sequence of these independent
calls, and checking one call per behaviour avoids enumerating every pair. `known`
is the set of execution blocks the engine holds, chosen at the start.

- `PrysmNewPayload`, `PrysmForkchoiceUpdated` and `PrysmGetPayload` are the
  engine verbs. `GetPayload` ignores the slot and always uses
  `engine_getPayloadV2`.
- `GetTerminalBlockHash` and `TerminalWalk` walk down the PoW chain from
  the latest block. `failAt` picks an iteration whose context check or
  parent fetch fails. `bad` picks a block whose total difficulty string
  fails to decode (`tDStringToUint256`). The walk decodes a block's
  parent only when the block itself reached TTD.
- `HeaderByHash` and `HeaderByNumber`. `ToBlockNumArg` turns a block
  number into a tag: "latest", "pending", "finalized", "safe", or
  `EncodeBig`'s signed hex digits. `EngineBlockNumber` is the engine
  resolving that tag against its head, safe and finalized blocks. It
  rejects a negative hex number.
- `ReconstructFullBlock`, `ReconstructFullBellatrixBlockBatch`,
  `RetrievePayloadFromExecutionHash`, `RetrievePayloadsFromExecutionHashes`,
  `FullPayloadFromExecutionBlock`, `FullPayloadFromPayloadBody` and
  `BuildEmptyExecutionPayload` rebuild blinded blocks. `EngineBlock` and
  `EngineBody` are the engine's answers. An unknown block comes back as a
  zero block, or as an empty body when optional engine methods are on.
- `ExchangeTransitionConfiguration` compares the engine's terminal block
  hash with the configured one. It then
  decodes the engine's TTD with `DecodeBigErr` and `DigitsValue` base 16,
  the checks `hexutil.DecodeBig` makes. It renders the TTD in decimal with
  `BigString`, which is `big.Int.String()`, and compares that string with
  the configured decimal string. Strings are digit sequences.

## Runs

### `receive_block` (`ReceiveBlock.cfg`, pass)

The run checks all three payload versions (Capella, Deneb, and an unknown
one), both outcomes of each check, and every engine status, in every order
of the goroutines. It checks these properties:

- `NilMeansFullyValid`: a nil return means the parent is finalized and the
  engine said VALID.
- `ValidFlagOnlyFromValid`: `postBlockProcess` sees `isValidPayload = true`
  only after VALID.
- `SyncingSurfaced`: ACCEPTED or SYNCING still runs `postBlockProcess`,
  and the call returns the error.
- `EveryCallReturns`: every call returns.

### `receive_block_hard_error` (violation of `HardErrorsPropagated`)

In this trace, the engine answers SYNCING before the state-transition check
fails. `eg.Wait` returns only the first error, the accepted/syncing error,
and the code swallows it. So `postBlockProcess` runs on a block whose parent
is not the finalized block. Spec section 4.6 says only the accepted/syncing
error is swallowed. This is recorded as a code bug.

### `payload_builder` (`MC_PayloadBuilder.cfg`, pass)

The model has two proposers, slots {1, 2}, hashes {genesis, h1} and two
payload ids. It checks these properties:

- `CacheMatchesEngine`: every cache entry names a build for exactly its
  key.
- `PayloadMatchesRequest`: a returned payload was built on the caller's
  parent for its slot.
- `CachedFailureFallsThrough`: a failed cached fetch is never the returned
  error.
- `EveryBuildReturns`: every call returns.

### `payload_single_flight` (violation of `AtMostOneBuildPerKey`)

Two callers miss the cache for the same (slot, parent) and both queue an
update with attributes. The engine then starts two builds. Spec section 1
promises at most one in-flight build per key, and nothing in the code
enforces it.

### `engine_connection` (`EngineConnection.cfg`, pass)

The run covers the schemes http, ipc and an unknown `ws`, three client
handles, and every engine behaviour. It checks:

- `DialFailureLoggedOnce`: non-401 failures are logged once per outage.
- `HealthyClientOpen`: between connection attempts, a true `isConnected`
  means `s.Client` has not been closed. "Between attempts" covers the
  timer wait, `Start`'s loop test and `ExchangeCapabilities`. Inside a
  failed attempt the flag stays true after the close at line 164, so
  the property holds only because the failure path clears it at line
  174 before the attempt ends. Breaking it takes a connection, a change
  of the engine, a refresh and a failed check.
- `StartsWhenEngineUp`: `Start` returns whenever the scheme is known and
  the engine eventually stays up, and the node is not shut down.
- `DisconnectDetected`: if the engine eventually stays down, unauthorized
  or on another chain while the node runs, `connected` (`isConnected`)
  eventually stays false. The refresh loop re-verifies on every
  interval, and every failure path clears the flag. This holds even once the leak has used up the client
  handles, because a failed dial clears the flag too.

### `engine_client_leak` (violation of `AtMostOneOpenClient`)

Each refresh dials a new client into `s.Client` and never closes the old
one. Once the three handles are used up, every dial fails.

### `proposal_publish_error` (violation of `PublishFailureReported`)

`RequestBestBlock` returns a block, and one of the two `Publish` calls
fails. Its goroutine logs the outer `err`, which is nil, and returns it.
`g.Wait()` is nil, and the proposal goes out with a nil block or sidecars entry
in `Txs` and no error. This is recorded as a code bug at
`validator.go:187` (and 196).

### `deposit_sync` (`DepositSync.cfg`, pass)

The chain reaches block 3, the follow distance is 2 and U64 is 3 bits wide.
So block 1 queries the wrapped number 7. The run checks
`EveryExistingBlockStored`, for behaviours in which the runtime never
aborts the process (`[](~fatal) => ...`). The environment assumption is
strong fairness on a retried block's read and store succeeding. Both
DepositSync configurations set `CHECK_DEADLOCK FALSE`, because after an
abort the process really has stopped.

### `deposit_reenqueue` (violation of `EnqueuedAtMostOnce`)

The delete guard `failedBlocks[n] != struct{}{}` is always false. So a
block that failed once is refetched and re-enqueued on every tick.

### `staking` (`StakingWithdrawals.cfg`, pass)

The model has three pubkeys, deposit amounts {1, 3}, a maximum effective
balance of 2, and three deposits made. Blocks carry up to two deposits. A
payload holds one withdrawal, and a sweep looks at two validators. The run checks:

- `RegistryPubkeysUnique`: no pubkey is registered twice, even when one
  block carries two deposits for a new key.
- `ExcessEventuallyWithdrawn`: every balance above the maximum is
  eventually withdrawn by the sweep.

### `staking_topup` (violation of `StakeBacked`)

A validator is created with 1 and then topped up with 1. Its effective
balance, which is its voting power, becomes 2, while its balance stays 1.
`processDeposit` never credits a top-up to the balance
(`state_processor_staking.go:118-120`). This is recorded as a code bug.

### `prysm_engine_client` (`PrysmEngineClient.cfg`, pass)

The run uses three block hashes, blinded batches of up to three blocks,
PoW chains of up to four blocks with total difficulties in 0..3, and
every outcome of the RPC calls. It checks:

- `EngineVerbsMatchContract`: `NewPayload` and `ForkchoiceUpdated` follow
  the status table of spec section 4.2. `ForkchoiceUpdated` returns the
  payload id for ACCEPTED, unlike `caller.go`, which returns an error.
- `TerminalBlockMatchesSpec`: when `GetTerminalBlockHash` returns without
  an error, it returns the block whose total difficulty reached TTD while
  its parent's did not, provided its timestamp is below the transition
  time. Otherwise it returns none.
- `ReconstructionMatchesEngine`: every rebuilt block carries the engine's
  payload for its header's hash, at its own position in the batch. Blocks
  the engine does not hold fail.
- `TransitionConfigurationChecked`: an answered
  `ExchangeTransitionConfiguration` returns nil exactly when the hashes
  match, the engine's QUANTITY is well formed, and the two TTDs are
  *numerically* equal. The code compares strings, so this checks the
  hex-to-decimal conversion.
- `HeaderIsRequested`: `HeaderByNumber` and `HeaderByHash` return, when
  they succeed, the header of the block asked for. This covers nil, every
  named negative number and plain numbers up to two past the head. A
  block the engine lacks is reported as NotFound.

The run keeps optional engine methods off, which is the default. With
them on, an unknown block comes back as an empty body that nothing checks
against the header. PROJECT.json lists this as a hazard.

## Mutants

For each property of a passing run, PROJECT.json names a variant operator
that changes one definition the way a plausible bug would. The variants
are:

- errors passed through untyped, as `handleRPCError`'s default branch does;
- no accepted/syncing swallow;
- nil returned after `postBlockProcess`;
- ACCEPTED keeping the latest valid hash;
- no deadline;
- a cache key re-read from the state;
- a cache keyed by slot alone;
- failing fast on a cached miss;
- a dropped `isConnected.Store(true)`;
- a dropped `isConnected.Store(false)` after a failed chain-ID check;
- the `isConnected` guard on the dial-failure log removed;
- an unknown URL scheme falling through to a nil client;
- signed block arithmetic;
- a failed `EnqueueDeposits` that is only logged;
- an uncapped effective balance for a new validator;
- the pubkey lookup's check inverted;
- a sweep that does not advance after a partial set of withdrawals;
- ForkchoiceUpdated answering ACCEPTED with an error, as `caller.go` does;
- a strict `>` in the TTD comparison;
- no hash check between a header and its execution block;
- the decoded TTD rendered in hex instead of decimal;
- the finalized and safe tags swapped in `toBlockNumArg`.

Each variant breaks its property.

## Bounds and why they suffice

- Two proposers are enough for every race between a pair of callers. That
  covers a duplicate build, a cache overwrite, and queue order.
- Two slots and two hashes let the state finalize between a caller's read
  of the parent and its cache write. The move from slot 1 (the genesis
  parent) to slot 2 (the finalized parent) is the edge case in
  `getParentEth1Hash`.
- Two payload ids allow two live builds, which is what the single-flight
  run needs. A third id multiplies the state space (more than 11M states)
  without adding a new kind of interleaving.

- `EngineConnection`:
  - three client handles let one refresh leak a client and a second exhaust
    the handles;
  - four engine states cover every branch of the setup.
- `DepositSync`:
  - three blocks with a follow distance of 2 give one wrapped query (7) and
    two real ones (0 and 1);
  - two goroutines are all the code has.
- `StakingWithdrawals`: three keys and three deposits reach several cases:
  - a new key created and then topped up;
  - two deposits for one new key in the same block;
  - a replay of a deposit already applied;
  - an invalid signature rejecting a block.

  A genesis balance of 3 against a maximum of 2 gives an excess for the
  sweep from the start. One withdrawal per payload and two validators per
  sweep make both the full and the partial sweep branch happen.

  With up to three validators, a partial sweep's advance
  `(nwvi + 2) % len` wraps around the registry. A sweep of one validator
  would make that advance a plain +1. The run takes about 40 s.
- `PrysmEngineClient`. With one call per behaviour, the run covers
  about 500,000 states in a few seconds. The bounds are:
  - three hashes, each known or not, let a header name a block the engine
    lacks;
  - batches of three let pre-merge and post-merge blocks interleave, so
    a block's batch position and its index among the post-merge blocks
    differ;
  - chains of four blocks with total difficulties 0..3 and TTDs 0..4
    cover a terminal block in every position, runs of equal
    difficulties, TTD never reached and TTD reached at genesis. A bad
    total difficulty can sit at any block;
  - heads 0..3 with every safe and finalized block at or below them let
    safe and finalized differ, so a swapped tag returns the wrong header;
  - engine TTDs of 0 to 2 digits, taken from 0, 1 and a, with and without
    the "0x" prefix, cover a missing prefix, an empty number, a leading
    zero, and values (16, 170) whose hex and decimal renderings differ.
    They are compared with the configured decimal strings 0, 1, 10, 16,
    17, 160 and 170, and with every pair of configured and answered
    terminal hashes.

## Fairness

Weak fairness is assumed on:

- the Go scheduler running runnable goroutines (the handler steps, the
  queue's worker);
- the per-call deadline of `context.WithDeadline`, which every engine call
  has (`CallTimeout`, `ForkchoiceTimeout`).

The engine, the network, new callers and the chain are not assumed to do
anything.

`EngineConnection` assumes weak fairness of its one goroutine and its
timers. `DepositSync` assumes:

- weak fairness of both goroutines and of the ticker;
- strong fairness, for each block, of a catch-up read and store
  succeeding. An execution client and a store that fail forever would
  make any retry scheme useless.

`StakingWithdrawals` assumes weak fairness of block processing. CometBFT
keeps proposing, and a block without deposits is always valid. Deposits
are not assumed to happen. `PrysmEngineClient` checks only invariants and
assumes no fairness. `ProposalMiddleware` is checked only for a violated
invariant.

## Not modelled

These parts are left out, each for the reason given. PROJECT.json
repeats the reasons per component.

- **Data availability processors** (`mod/state-transition/pkg/da`,
  `mod/da/pkg/blob`). They check blob sidecars one at a time against KZG
  proofs and store them. There is no interleaving, and no modelled
  component calls them.
- **SSZ encoding** (`mod/primitives/pkg/ssz/list.go`, `mod/ssz`). These
  are pure conversions with no state. A round-trip check over bounded
  lists would be an algorithm model with no link to the other modules.
  The project leaves it out rather than check it in a run of its own.
- **Health reporting** (`health/report.go`). Every 10 s it reads the
  `Status()` of each service and logs the unhealthy ones. It changes no
  state. The execution service's `Status()` calls
  `engine.ConnectedETH1()`, which is not defined under `src/`. The flag
  the engine client itself keeps is `isConnected`, which
  `EngineConnection` models as `connected`. `DisconnectDetected` checks
  that this flag eventually reflects a lasting outage.
- **Storage and keepers**. These are key-value getters and setters over
  the Cosmos store. The modelled components hold what they read (the
  finalized hash, the slot, the beacon state fields) as variables.
- **`engineCaller.ExecutionBlockByHash`** (`caller.go:226`). Nothing
  calls it. The copy in `prysm/engine_client.go` is modelled through
  `GetTerminalBlockHash` and `HeaderByHash`.
- **`GetPayload`'s choice of V2 or V3** (`caller.go:195`). It is listed
  under known issues below. `PayloadBuilder` keeps only whether a call
  for an id succeeds.
- **Node wiring, configuration, CLI, metrics and test tooling**. These
  are dependency injection, flag parsing and interfaces, with no
  behaviour of their own.

## Known issues without a run

- `GetPayload` picks `engine_getPayloadV3` when `primitives.Epoch(slot)`
  reaches the Deneb fork epoch (`caller.go:195`). That is a cast of the
  slot, not a division by the slots per epoch, so V3 is used from slot
  `DenebForkEpoch` on, long before the fork.
- `Start` spins forever when the node shuts down before the first
  connection succeeds (`client.go:84`). `tryConnectionAfter` returns at
  once on a cancelled context, and the loop tests only `isConnected`.
- A 401 is logged on every retry (`client.go:151-160`), while spec
  section 7 says it is logged once.
- `toBlockNumArg` does not special-case `rpc.LatestBlockNumber` (-2)
  (`engine_client.go:1079-1098`). `HeaderByNumber(-2)` sends "-0x2",
  which the engine rejects, instead of asking for the latest block.
  `HeaderIsRequested` shows that no wrong header comes back.
- `failedBlocks` is written by the fetcher while the catch-up goroutine
  ranges over it, without a lock (`sync.go:88`, `sync.go:101`,
  `sync.go:74`). The Go runtime may abort the process. `DepositSync`
  reaches that abort, and its liveness property is stated for runs
  without it.

## Plan

1. **Done:** `EngineCaller`, `ReceiveBlock`, `PayloadBuilder`,
   `EngineConnection`, `DepositSync`,
   `StakingWithdrawals`, `PrysmEngineClient` and `ProposalMiddleware`.
2. A run for each known issue above.
3. A composition of `ProposalMiddleware` with `PayloadBuilder`: a
   proposal's block comes from `GetOrBuildLocalPayload`.
