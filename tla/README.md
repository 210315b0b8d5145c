# A specification of the IOSwarm agent

TLA+ modules, TLC runs and TLAPS proofs for `ioswarm-agent` (Go, package
`main` in `src/`): the program an operator runs beside an IoTeX delegate. It
registers with one or more coordinators, receives batches of pending
transactions, validates them at one of four levels and sends the verdicts back.
At level L4 it keeps its own copy of the chain state in a BoltDB file, fed by a
stream of state diffs.

Run a check from this directory with `tlc -config X.cfg M`, a proof with
`tlapm M.tla`. `PROJECT.json` lists the runs, the definitions with the lines
they model, the hazards and the theorems.

## 1. Inventory

| Part | State | Operations | What makes it correct |
|---|---|---|---|
| State store (`statestore.go`) | the file: buckets and height; the in-memory height | open, ApplyDiff, Get, Close | contents and height move together; memory agrees with the file |
| State sync (`statesync.go`) | the stream, ready flag and channel | stream, apply, signal ready, reconnect, stop | no block skipped, repeated or half applied; catches up |
| Worker (`worker.go`, `main.go`) | connection, deferred calls, `activeStateStore` | dial, register, open, load snapshot, wait, serve, return | serves only a synced store; releases in a safe order |
| Snapshot loader (`snapshot.go`) | none | verify a file and apply it | all or nothing, whatever happened to the file, and only on an empty store |
| Validation (`validator.go`) | none | L1, L2, L3, L4 | levels include each other; L4 repeats L2 faithfully on local data |
| L4 reads (`validator.go`, `statedb.go`) | the height label, what was read | one bolt transaction per read | reads are of committed states, not older than the label |
| EVM state database (`statedb.go`) | seven maps and lists, caches of the store, snapshots | `vm.StateDB` | reverts are exact, caching is invisible, reported changes are exact |
| EVM set-up (`evm.go`) | none | canTransfer, iotexTransfer, executeEVM | value is conserved; every outcome becomes a result |
| Task stream (`main.go`) | the batch in hand, the global `tasksProcessed` | register, stream, process, submit, heartbeat | results at most once, exact count, reconnection, shutdown |
| Storage trie (`mpt.go`), account codec (`account.go`) | none | decoding, and a traversal of one transaction per node | a slot is what the trie of one height says, or the lookup fails |
| Wallet commands (`fund.go`, `claim.go`, `deploy.go`) | a nonce, a balance or an amount read once | check, send, wait | no gap in the nonces; what is reported is true |
| Claude login (`llm_setup.go`) | two channels, a local port, the token file | callback, exchange, save | ends; a token it reports as saved is not torn by another login |
| LLM proxy (`llm.go`) | none of its own; the token file | route, call | what it routed for its key goes out with one unless the file changed or cannot be read |
| Service units (`service.go`, `scripts/install.sh`) | none | restart after an end of the process | a restart repeats nothing |
| Wire types, printing commands, scripts | none | I/O | section 7 |

How they meet: `main` starts one `runWorker` goroutine per coordinator. Worker 0
at L4 opens the store, may load a snapshot, starts the sync goroutine, waits for
its first diff and then publishes the store in the global `activeStateStore`.
All workers call `validateTask`, which at L4 takes the store from there. The EVM
gets a `MemStateDB` made from the task, which asks the store for what the task
lacks. A signal cancels one context that every goroutine looks at when it can.

What is hard: the sync goroutine writes while workers read, and goes on while
the worker closes the store under it; the height in memory trails the height on
disk; the process may be killed anywhere; the coordinator evicts, restarts and
loses messages; workers share one counter and one store pointer although they
serve different coordinators; the EVM's caches and snapshots interact with a
store that moves; a trie is walked node by node while diffs delete its nodes;
commands with one key count on nonces they asked for earlier; a login's
handlers outlive the goroutine that receives from them, and a file nothing locks
is rewritten in place under its readers. `PROJECT.json` lists
each hazard at its line.

## 2. Modules

| Module | Models | Uses |
|---|---|---|
| `StateStore` | the store's operations and the effect of a diff | |
| `StateSync` | coordinator, sync goroutine, worker boot and shutdown, crashes | extends `StateStore` |
| `Replica` | abstract: a replica of a chain that is never wrong | instantiated by `StateSync` |
| `SnapshotLoader` | the same agent with the snapshot file and its checks; implements `StateSync` | extends `StateSync` |
| `Mpt` | trie nodes, account records, one step of a traversal: operators | |
| `L4Validation` | tasks of several workers that read the moving store and walk its tries | extends `StateSync`, `Mpt` |
| `MemStateDB` | the EVM's state database and value transfer | |
| `JournaledState` | abstract: snapshots and exact reverts | instantiated by `MemStateDB` |
| `Validator` | validation levels and the `--level` flag | |
| `TaskStream` | workers, coordinators and the network between them, through restarts | |
| `Delivery` | abstract: one batch in hand, its results once or never | instantiated by `TaskStream` |
| `WalletCommands` | `fund`, `claim` and `deploy` with one key, the node and the reward contract | |
| `ClaudeLogin` | several `llm setup` and a proxy that uses their token file | |
| `StateSyncProofs`, `SnapshotLoaderProofs`, `L4ValidationProofs`, `MemStateDBProofs`, `TaskStreamProofs`, `WalletCommandsProofs`, `ClaudeLoginProofs`, `ValidatorProofs` | theorems (section 4) | extend their component and `TLAPS`; the second and third also `StateSyncProofs` |
| `MC*` | instances for TLC; `MCReadyDoc` adds a history variable, `MCMovingStore` a store that changes under the EVM | extend their component |

A definition named `Slip...` is a deliberate mistake: what the definition after
it would be with a plausible bug (a dropped guard, a missing reset, an
off-by-one). No specification uses it. Put in the place of the real definition,
it makes TLC report the property that `PROJECT.json` pairs it with under
`mutants`; this is how we know that each property can fail.

### StateStore and StateSync

`disk` is the file, `[kv, height]`, and the only thing a crash leaves. A key
stands for a namespace and a key within it. A bolt transaction is atomic and
durable, so `ApplyDiff` is two steps, `Commit` and `Publish`; `unpublished` is
the height between them. The loop over a diff's entries is the closed form
`ApplyEntries` (a key has what its last writer left); theorem `ApplyOneMore`
shows that it is the loop.

`syncPc` follows the sync goroutine: dial, receive, commit, publish, signal
ready; `StreamFails` is every error path of `streamDiffs`, including an
`ApplyDiff` on a database that was closed meanwhile. `workerPc` follows
`runWorker`; `Return` is a return with its deferred calls still to run, which
cancel the goroutine without waiting for it and then close the store. `Signal`
cancels the context at any time, `Crash` ends the process at any time, and the
agent boots again on the file it left.

The coordinator is external. Assumed, as the agent does: one diff per block, in
order and without a gap from the height asked for; a snapshot is the state of
some block restricted to `SnapKeys`. Diffs are arbitrary sequences of puts,
deletes and entries of unknown type.

### SnapshotLoader

A file is a sequence of parts: magic, version, height, entries, end marker,
count, digest, end magic. The exporter (external) writes one for any block and
in any order of keys; on its way to the worker the file may be cut at any
part, lose any part, or have any part altered. `ReadSnapshot` makes
`LoadSnapshot`'s checks in its order, the comparison with the store's height
before anything is verified included, and `LoadFile` its one `ApplyDiff`. The
digest is perfect. `ImplementsSync` is `StateSync`'s specification: the checks
leave no outcome but "a whole snapshot of one block", "skipped" and "refused",
so what is proved of `StateSync` holds of an agent that reads files.

### Mpt

A protobuf message is a sequence of fields; a place where the bytes cannot be
consumed is a field of its own kind. The decoders keep the loops' effect (the
last field wins, unknown ones are skipped, the first node field ends
`decodeNodePb`, an index is cut to a byte). `TrieStep` is the body of
`trieGet`'s loop for a node that was loaded.

### L4Validation

Every worker has a task that walks through `validateL4`: `LoadStore` (the global
pointer), `ReadHeight` (the label of the result), `ReadAccount`, then any number
of `EvmRead`s and slot lookups. A lookup (`GetStorageSlot`) is `BeginLookup`,
which reads the account and its root, and a `TrieGet` per node. Each of these is
a separate transaction: `read` holds what it returned and at which height,
`look` where a traversal is, `answer` what the last lookup returned (a value,
`None`, or `Error`: the state database turns both of the latter into a zero
slot). A node's key is its hash, so a node that is still there is the one the
old trie meant; this is why `LookupsAreExact` holds although the store moves,
and `LookupFailsOnlyIfOvertaken` says what remains: a deleted node, a closed
database, or the holes of a partial snapshot. What the coordinator's tries are
is the constant `Below`: claims that, from a node on, with this much of the key
behind, a slot's path leads to that value. `TrieAssumption` says that every root
claims its contract's slots and that every node a diff may put under a key
passes the claims of that key on. The constant `Live` gives, for every state the chain may reach, the
claims whose path is complete in it: `CompleteAssumption` says that each state
has the tries its accounts name, that a live claim's node is there and leads to
an answer or to another live claim, and that diffs lead from such states to such
states. TLC evaluates both on the instance's nodes and states, with
the model's decoders and `TrieStep`, so it also checks that these read the
encoded nodes right. Worker 0's task is tied to its worker: `streamTasks` sees the cancellation only
between batches (`Agent`), and `main` waits for all workers (`ExitWaits`). The
other workers exist from the time the process does, at the same level.

### MemStateDB

The state is the record `db` of the maps. Reads return a new database with the
caches filled, because that is what they do; what the EVM sees is computed by
the same reads (`View`). Snapshots are copies of `db`; `RevertToSnapshot` takes
all of it back but the original values, as the code does. Balances are
modulo `Modulus`; an underflow is clamped. The EVM is any sequence of operations, with one
habit that results depend on: SSTORE reads the slot before it sets it.
`Prepare`, which resets the access lists, is never called by `executeEVM` and has
no action.
`SubRefund`'s panic below zero and a value transfer without funds are guards:
the EVM does not make these calls.

### Validator

Pure operators on a task, the sender's account in the store and the EVM's
verdict, with byte width, word length and curve order as parameters. The three
readers of `--level` (`validateTask`, `parseLevel`, `runWorker`) are modelled
separately, with their different handling of case.

### TaskStream

Each worker registers, opens a stream, receives, validates and submits; its
coordinator knows whether it is registered and streaming, which batches are
unsent and how often results arrived. A failed call may have arrived. `Evict`
stands for an eviction and for a restart of the coordinator: both lose the
registration and end the stream. The heartbeat reads the counter and logs the
answer, so it has no action. The process ends when every worker has, or crashes
at any point and forgets everything; a service manager starts it again after
the ends in `RestartAfter` (`before` remembers what was sent to earlier
starts). What worker 0 does between its first
register and its first stream at L4 is `StateSync`'s. `Stages` tells from the
batch in hand and the coordinator's books how far each batch is; under it the
agent implements `Delivery` (`DeliversOnce`): `RecvBatch` takes, `SubmitResults`
answers, the end and the start of the process lose what is in hand, and
everything else, evictions and new streams included, leaves the stages alone.

### WalletCommands

`cmd` holds each command's local variables; its steps are the calls to the node:
`CheckBalance` or `ReadClaimable`, `FetchNonce`, a send, and the wait for a
receipt. A send is accepted (`SendOK`), refused or not delivered (`SendFails`),
or accepted with its answer lost (`AnswerLost`); `SendError` is what the command
makes of the last two. `Expire` is the deadline of the command's context, which
is shorter than `claim`'s polling: after it every call fails and the polls run
out. The node (external) takes a transaction whose nonce is free and whose cost
the wallet can pay beside what is pending, mines nonces in order, and may
forget a transaction; the contract (external) pays what it owes and reverts for
nothing. `Settle` and `ClaimFor` are the coordinator's.

### ClaudeLogin

`pc` follows `runLLMSetup` and `runClaudeOAuth`, for several logins of one user
on one machine. `Listen` takes the callback port, which a login holds
(`HoldsPort`) until the deferred `Shutdown` closes the listener, or fails when
another has it. A `Callback` starts a handler, which sends on one of two
channels of capacity one (`HandlerSends`); the select is `Receive` or `TimeOut`;
a return runs `Shutdown`, which waits for the handlers (`ServerStops`).
`saveToken` truncates the file and then writes it, in place and with no lock;
`writer` is the login that touched the file last, and a write to a file that
another login touched meanwhile would leave a mixture (`Written`). An answer
without a token is saved too. `Kill` interrupts a command anywhere, `Remove` is
the user who deletes the file.

Beside them the proxy routes a request if there is a key and reads the key again
to send it (`GetClaudeKey`: the environment's, else the file's). Whatever the
file is, `loadToken` may also fail to read it, and `getClaudeKey` takes that for
no key; a request sent after such a failure is "unread", one sent because there
was no file, or no token in it, is "keyless". `overtaken` is a history variable: the
routed requests whose file was truncated or removed before they were sent.
Requests for other providers have keys that do not change and are not modelled;
`envKeys` says whether there is such a key, for then the proxy starts without one
for Claude.

## 3. Runs

| Run | Shows |
|---|---|
| `statesync` | `ReplicaSound`, `NextDiffFits`, `ActiveStoreSynced`, `HeightMatchesDisk`; refinement of `StateSync` (`ImplementsSync`) and of `Replica`; `CatchesUp` |
| `l4validation` | `LabelIsLowerBound`, `ReadsAreCommitted`, `OwnerReadsNeverFail`, `LookupsAreExact`, `LookupFailsOnlyIfOvertaken` |
| `memstatedb` | refinement of `JournaledState` (`RevertRestoresView`), `ReadsAreTransparent`, `ChangesAreExact`, `TransferConserves` |
| `validator` | `LevelsInclude`, `L4DiffersOnlyByState`, `LevelsAgree` |
| `taskstream` | refinement of `Delivery` (`DeliversOnce`), `AtMostOnce`, `CountIsExact`, `Reconnects`, `ShutsDown` |
| `wallet` | `NoNonceGap`, `ClaimReportIsLowerBound`, `NothingSentIsLost`, `SentArePaid` |
| `claudelogin` | `SavedIsWhole`, `LoginEnds`, `KeylessOnlyIfOvertaken` |
| `ready_doc`, `snapshot_doc`, `workers_doc`, `moving_store`, `code_fallback` | each violated: a sentence of the documentation that the code does not keep (section 6) |

Bounds, and why they suffice:

- `StateSync`, `SnapshotLoader`: three keys (two in a snapshot's namespaces, one
  not), two values, blocks with puts, deletes, an unknown write type and a key
  written twice, and three blocks: an applied one, one in hand and one ahead.
  Failures, signals, crashes and reboots are unbounded. A snapshot has up to two
  entries, in any order, and one damage; a file that needs two damages to pass
  would have to match its digest.
- `L4Validation`: three blocks (`workers_doc`: two), two workers, one task at a
  time, because tasks only read the store and do not interact (`MaxTasks`; reads
  per task are not bounded). The contract goes through two versions of its trie
  with a branch, an extension and leaves, of which the second replaces and
  deletes nodes of the first; storage keys of a leaf the versions share and of one
  they do not, one that does not follow the extension, and one that ends at
  another key's leaf. Bytes have two values.
- `MemStateDB`: two addresses with one slot each, one partly known to the task;
  stores that know both or nothing; 3-bit balances; five operations, which is a
  write, a snapshot, two operations and a revert, or two nested snapshots.
  `code_fallback` fails in an initial state and `moving_store` within the same
  bound. Executions may stop anywhere: deadlock is not checked.
- `Validator`: one-bit bytes, two-byte words and nonces, all short payloads. It
  does one step and stops: deadlock is not checked.
- `TaskStream`: two workers, two batches each, and a counter of three values, so
  that it wraps. Failures and reconnections are unbounded. Two starts of the
  process, restarted after every end (which includes both policies). The process
  may stay down: deadlock is not checked.
- `WalletCommands`: two commands, every pair but two deploys; two wallets, which
  is one after a failure; money for both amounts but not for all the gas; up to
  two units owed; two polls before a command gives up; one forgotten transaction.
  The commands end and nothing is owed or mined any more: deadlock is not
  checked.
- `ClaudeLogin`: two logins, so that one may hold the port, be writing or have
  failed while the other starts; three callbacks to each: one received, one in
  the channel and one blocked. One request at a time, because requests do not
  meet. Removals are unbounded. When all logins are over or hang there may be no
  step: deadlock is not checked, `LoginEnds` says when a login hangs.

Symmetry is not used: the instances are small, and it is unsound for liveness.

Fairness. `StateSync`: weak fairness of the sync goroutine's steps (the Go
scheduler runs it, its pauses are finite and received diffs are processed) and
of the return of a cancelled `streamTasks`. Nothing else is fair: blocks may
stop, tasks may never come. `TaskStream`: weak fairness of each worker's steps,
of the failure of calls under a cancelled context (every call takes that
context), and of the refusal of a stream to an agent the coordinator does not
know, and of `main`'s return when all workers have. `CatchesUp` and `Reconnects`
assume that failures eventually stop, by a premise of the property, not by
fairness. `WalletCommands`: the network goes on producing blocks; the commands
need not go on. `ClaudeLogin`: the login's goroutines are scheduled and its
timer fires; the exchange, the user and the browser are not fair.

## 4. Proofs

A theorem holds for every value of the constants that satisfies the named
assumptions of its modules. For each component the proof is the same argument:
the property is not inductive, a strengthening is (TLC checks the strengthenings
on the instances of section 3 as well as it checks the properties), each action
preserves it by a lemma of its own, and the properties follow.

| Module | Proved | Inductive invariant |
|---|---|---|
| `StateSyncProofs` | `TypeOK`, `ReplicaSound`, `NextDiffFits`, `ActiveStoreSynced`, `HeightMatchesDisk`, refinement of `Replica`; `ApplyOneMore` | `IInv` |
| `SnapshotLoaderProofs` | refinement of `StateSync`, hence `ReplicaSound` | `IInv`, by the refinement |
| `L4ValidationProofs` | `LabelIsLowerBound`, `ReadsAreCommitted`, `OwnerReadsNeverFail`, `LookupsAreExact`, `LookupFailsOnlyIfOvertaken`, `ATypeOK`; `RoundTrip`, `LeafSettles` | `AInv`, `LookupInv`, `CompleteInv` |
| `MemStateDBProofs` | `TypeOK`, `ReadsAreTransparent`, `ChangesAreExact`, `TransferConserves`, refinement of `JournaledState`; `TransferMoves` | `IInv`, `SupplyInv` |
| `TaskStreamProofs` | `TypeOK`, `AtMostOnce`, `CountIsExact`, refinement of `Delivery` | `SubmitInv`, `CountInv` |
| `WalletCommandsProofs` | `TypeOK`, `NoNonceGap`, `ClaimReportIsLowerBound`, `NothingSentIsLost` | `WalletInv` |
| `ClaudeLoginProofs` | `TypeOK`, `SavedIsWhole`, `KeylessOnlyIfOvertaken` | `LoginInv` |
| `ValidatorProofs` | `TypeOK`, `LevelsInclude`, `L4DiffersOnlyByState`, `LevelsAgree` | `IInv` |

**State sync.** `NextDiffFits` is about a diff in hand, but what makes it true
was decided when the stream was opened from the in-memory height. `IInv`
connects the two: every block's state is its predecessor's with its diff
applied; the file's height is a block of the chain; an open stream stands right
after the file's height (or after the diff in hand); `unpublished` is set
exactly in the program points between commit and publication, of the goroutine
or of the worker and never of both; the goroutine runs only after the worker
started it; the file of a worker that has not yet passed the snapshot is at the
height in memory. The fact behind the replica is `ApplyKeepsAgreement`: two maps
that agree on a key agree on it after the same diff. `ApplyOneMore` shows that
the closed form of a diff is the loop of `ApplyDiff`.

**Snapshot loader.** The digest is the argument: a damaged file that still has
the exporter's digest has the exporter's payload in front of it, and one whose
digest was altered has everything else as it was. So `LoadFile` commits a whole
snapshot of one block, which is a step `LoadSnapshot` of `StateSync`. Assumed: a
snapshot's namespaces hold finitely many keys (`LoaderAssumption`).

**L4 validation.** `TaskInv` ties a task to the agent: past the load of
`activeStateStore` that is set, a task of worker 0 runs while worker 0 serves,
and a task's label and reads are of heights the file has reached; with the
agent's `IInv` this is inductive. For lookups `LookupInv` adds that the node a
traversal is at still claims, for the slot it began with, what the contract held
at the block the account was read at, and that whatever a key holds was put there
by a diff. The proof uses `TrieAssumption` (section 2) in place of induction on
the depth of a trie, which the prover cannot do; that `Below` exists for tries
that are encoded and named by their content is what the assumption says about
the coordinator, and what TLC checks on the instance. That a snapshot has every
account is `README.md:52`. For failures `CompleteInv` adds that a chain whose
states are complete stays so, and that a traversal no diff has overtaken stands at
a claim that is live in the store's state; so its next node is there and of a
type that goes on. When a diff overtakes it nothing more is said, and need not
be. Its hypothesis is `CompleteAssumption`, for the same reason as above.

`RoundTrip`: each decoder returns what its encoder was given, for every leaf,
extension and branch, in whatever order Go's map gives a branch's children.
`LeafSettles`: a leaf reached along a slot's bytes answers exactly if its key is
the slot's, although `trieGet` compares only what is left of it.

**EVM state database.** What is visible of a slot depends on a current value, an
original value and the store, so `SlotsOK` says what each cache may hold against
the slot's value before the execution, in the database and in every snapshot;
and `SnapshotsInv` says that the original values a snapshot knows are still
known, because a revert does not bring them back. The store is at rest, as in
the run (`moving_store` shows what a moving one does). `TransferMoves` states
what a transfer of any amount does to each account; that the sum over all
accounts stays what it was would be an induction over the accounts, so the model
counts the money instead: a unit of a balance is a coin `<<owner, number>>`, and
`Total` is the number of coins. `TransferConserves` needs that no receiver's
balance wraps: `SupplyInv` says that the supply fits the width of a balance now
and in every snapshot. It is an invariant because no operation but a transfer
adds to a balance, and its hypothesis is that it holds at the start, as it does
of a chain whose supply fits a word. Addresses are finitely many
(`MemStateAssumption`).

**Task stream.** Whether a submission repeats an earlier one depends on where the
batch in hand came from: `HandInv` says that a worker has one exactly while it
validates and submits it and that it was sent in this life of the process.
`CountInv` adds that finitely many batches were sent, so that the count exists.
With `SubmitInv` each batch is at one of `Delivery`'s four stages (`StageIs`),
and each action is a step of `Delivery` or leaves the stages alone.

**Wallet commands.** `SolventInv`: what is pending can be paid, so mining never
overdraws. `NonceInv`: the nonce a command counted up to itself is never later
than the wallet's next one. `ClaimInv` follows a claim's transaction from the
read to the receipt. `NothingSentIsLost` is the safety half of `SentArePaid`:
what `fund` counts as sent is in the pool or mined, until the node forgets a
transaction.

**Claude login.** `SavedIsWhole` is about bytes that nothing locks. `PortInv`: at
most one login holds the port; `WriterInv`: therefore a file that a login writes
is still the one it truncated, or was removed. `KeylessOnlyIfOvertaken` compares
two reads of one key; `RoutedInv` remembers the first: a routed request that was
not overtaken has the environment's key or a whole file.

**Validation levels.** `L4IsL3`: with the same account for the sender and the
same verdict of the EVM, the code of `validateL4` and that of `validateL3` come
to the same result.

Only model-checked: liveness (`CatchesUp`, `Reconnects`, `ShutsDown`,
`SentArePaid`, `LoginEnds`), which is out of the prover's reach. Not proved for
every input: that a trie that is encoded and named by its content satisfies
`TrieAssumption` and `CompleteAssumption`, an induction on its depth. There is no
round trip for `DecodeAccount`, because the agent never encodes an account.

## 5. Plan

What can be modelled with profit is, and every safety and action property of the
passing runs is proved. What is left: `NoNonceGap` as the refinement of a
sequence of transactions, which would say no more than the invariant does, and
the parts of section 7 if they gain state.

## 6. Where documentation and code part

- **"State sync ready" is not "caught up"** (`README.md:462`,
  `OPERATOR-GUIDE.md:154`): it is the first applied diff (`statesync.go:123`).
- **Account and Code are not "sufficient for L4"** (`README.md:263`,
  `SNAPSHOT-EXPORT.md:43`): contract storage older than the snapshot stays
  absent until some block writes it.
- **Further workers do not "fall back to L3"** (`worker.go:50`): they validate
  at L4 on worker 0's store, and reject everything until it is there.
- **Original slot values are modified** (`statedb.go:58`): re-read after a
  revert from a store that moved.
- **`GetCode` does not fall back** (`statedb.go:170`) for an account that came
  with the task without its code.

A behaviour no document mentions, but a reader of the results should know: a slot
lookup that fails (a node deleted by a diff, a hole of a snapshot) is a zero slot
for the EVM (`statedb.go:373`), so an L4 verdict can be computed from zeros where
the chain had values. `LookupFailsOnlyIfOvertaken` says exactly when.

Another: the proxy may send a request with an empty key although it was routed
because there was one (`llm.go:260`, then `llm.go:103`). `getClaudeKey` takes any
failure of `loadToken` for an absent key, so a second read that fails is enough
(`llm_setup.go:84-87`, too many open files, say); short of that, by
`KeylessOnlyIfOvertaken`, the file must have been truncated by a login or removed
between the two reads.

## 7. Not modelled

- Wire formats (`codec.go`, `client.go`, the bytes of protobuf and gzip): no
  state, and conversions no property depends on. `addressToHash160` likewise:
  keys are model values.
- `rewards.go`, `status.go`, `keygen.go`, `upgrade.go`: commands that fetch or
  generate something, print it and end; the comparison of version strings in
  `upgrade.go` is text handling.
- The writing and loading of service units (`service.go`) and the shell scripts:
  I/O. Their restart policy is in `TaskStream`.
- `bolt.Open`'s wait for the lock of a file that another process holds: the wait
  is the behaviour, and ends when the other process does.
- The LLM proxy's translation of messages for three providers, `--dry-run`, and
  the replacement of a pending transaction at a higher gas price.
- go-ethereum: the EVM is any sequence of the calls it makes on its database.
