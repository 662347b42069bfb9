---------------------------- MODULE DepositSync ----------------------------
(***************************************************************************)
(* The deposit sync service of src/mod/execution/pkg/deposit/sync.go: two  *)
(* goroutines share the map failedBlocks.                                   *)
(*   - depositFetcher takes each new beacon block from s.newBlock and      *)
(*     fetches the deposits of execution block (number - followDistance);  *)
(*   - depositCatchupFetcher, on every tick, ranges over failedBlocks and  *)
(*     fetches each one again.                                             *)
(* fetchAndStoreDeposits reads the deposit logs, enqueues them in the      *)
(* deposit store, and records the block in failedBlocks on either error.   *)
(* Block numbers are math.U64; the model keeps their wrap-around at a      *)
(* smaller width, U64Mod = 2^w.                                            *)
(***************************************************************************)
EXTENDS Naturals, Sequences, FiniteSets

CONSTANTS
    MaxHead,          \* execution block numbers the chain reaches: 1..MaxHead
    FollowDistance,   \* s.eth1FollowDistance
    U64Mod            \* 2^w, the modulus of the block number arithmetic

ASSUME /\ MaxHead \in Nat \ {0}
       /\ FollowDistance \in Nat
       /\ U64Mod > MaxHead

Nums == 0..(U64Mod - 1)
Goroutines == {"fetcher", "catchup"}

\* Variant: the subtraction done in signed integers.
SubSigned(a, b) == a - b

\* math.U64 subtraction.
SubU64(a, b) == (a - b + U64Mod) % U64Mod

VARIABLES
    produced,    \* the highest execution block number the chain has
    newBlock,    \* s.newBlock: payload numbers of blocks not yet received
    failed,      \* s.failedBlocks
    queried,     \* block numbers depositFetcher asked for
    enqueued,    \* enqueued[n]: successful EnqueueDeposits of block n (capped)
    g,           \* per goroutine: [pc, num] of its fetchAndStoreDeposits
    todo,        \* entries of failedBlocks the catch-up range has not visited
    fatal        \* the runtime aborted the process on a concurrent map write

vars == <<produced, newBlock, failed, queried, enqueued, g, todo, fatal>>

EnqueueCap == 2

TypeOK ==
    /\ produced \in 0..MaxHead
    /\ newBlock \in Seq(1..MaxHead)
    /\ failed \subseteq Nums
    /\ queried \subseteq Nums
    /\ enqueued \in [Nums -> 0..EnqueueCap]
    /\ g \in [Goroutines -> [pc : {"wait", "iter", "read", "store"}, num : Nums]]
    /\ todo \subseteq Nums
    /\ fatal \in BOOLEAN

Init ==
    /\ produced = 0
    /\ newBlock = <<>>
    /\ failed = {}
    /\ queried = {}
    /\ enqueued = [n \in Nums |-> 0]
    /\ g = [x \in Goroutines |-> [pc |-> "wait", num |-> 0]]
    /\ todo = {}
    /\ fatal = FALSE

\* Where a goroutine goes after fetchAndStoreDeposits returns: the fetcher
\* back to its select, the catch-up goroutine to the next range entry.
Done(x) == IF x = "fetcher" THEN "wait" ELSE "iter"

\* The catch-up goroutine is inside its range over failedBlocks.
Ranging == g["catchup"].pc \in {"iter", "read", "store"}

\* A write of failedBlocks by goroutine x.  The map has no lock: when the
\* fetcher writes it while the catch-up goroutine ranges over it, the Go
\* runtime may detect the race and abort the process ("concurrent map
\* iteration and map write"), or the write goes through.
WriteFailed(x, n) ==
    \/ failed' = failed \cup {n} /\ UNCHANGED fatal
    \/ x = "fetcher" /\ Ranging /\ fatal' = TRUE /\ UNCHANGED failed

\* The chain produces the next block and the beacon node sends it on
\* s.newBlock.
NewBlock ==
    /\ produced < MaxHead
    /\ produced' = produced + 1
    /\ newBlock' = Append(newBlock, produced + 1)
    /\ UNCHANGED <<failed, queried, enqueued, g, todo, fatal>>

\* depositFetcher receives a block and queries its number minus the follow
\* distance, in U64 arithmetic.
ReceiveBlock ==
    /\ g["fetcher"].pc = "wait"
    /\ newBlock # <<>>
    /\ LET q == SubU64(Head(newBlock), FollowDistance) IN
         /\ g' = [g EXCEPT !["fetcher"] = [pc |-> "read", num |-> q]]
         /\ queried' = queried \cup {q}
    /\ newBlock' = Tail(newBlock)
    /\ UNCHANGED <<produced, failed, enqueued, todo, fatal>>

\* ReadDeposits succeeds; only a block the chain has can be read.
ReadOk(x) ==
    /\ g[x].pc = "read"
    /\ g[x].num <= produced
    /\ g' = [g EXCEPT ![x].pc = "store"]
    /\ UNCHANGED <<produced, newBlock, failed, queried, enqueued, todo, fatal>>

\* ReadDeposits fails: the block is recorded in failedBlocks.
ReadFails(x) ==
    /\ g[x].pc = "read"
    /\ WriteFailed(x, g[x].num)
    /\ g' = [g EXCEPT ![x].pc = Done(x)]
    /\ UNCHANGED <<produced, newBlock, queried, enqueued, todo>>

\* EnqueueDeposits succeeds.  The delete that follows is guarded by
\* s.failedBlocks[blockNum] != struct{}{}, which is false for every key of
\* a map of empty structs, so the block stays in failedBlocks.
StoreOk(x) ==
    /\ g[x].pc = "store"
    /\ LET n == g[x].num IN
         /\ enqueued' = [enqueued EXCEPT ![n] = IF @ < EnqueueCap THEN @ + 1 ELSE @]
         /\ UNCHANGED <<failed, fatal>>
    /\ g' = [g EXCEPT ![x].pc = Done(x)]
    /\ UNCHANGED <<produced, newBlock, queried, todo>>

\* Variant: a failed EnqueueDeposits is only logged.
StoreFailsForgets(x) ==
    /\ g[x].pc = "store"
    /\ g' = [g EXCEPT ![x].pc = Done(x)]
    /\ UNCHANGED <<produced, newBlock, failed, queried, enqueued, todo, fatal>>

\* EnqueueDeposits fails: the block is recorded in failedBlocks.
StoreFails(x) ==
    /\ g[x].pc = "store"
    /\ WriteFailed(x, g[x].num)
    /\ g' = [g EXCEPT ![x].pc = Done(x)]
    /\ UNCHANGED <<produced, newBlock, queried, enqueued, todo>>

\* The ticker fires: nothing to do for an empty map, otherwise the range
\* over failedBlocks starts.
Tick ==
    /\ g["catchup"].pc = "wait"
    /\ IF failed = {}
       THEN UNCHANGED <<g, todo>>
       ELSE /\ g' = [g EXCEPT !["catchup"].pc = "iter"]
            /\ todo' = failed
    /\ UNCHANGED <<produced, newBlock, failed, queried, enqueued, fatal>>

\* The next iteration of the range: an entry not yet visited and still in
\* the map, or the end of the range.
NextEntry ==
    /\ g["catchup"].pc = "iter"
    /\ IF todo \cap failed = {}
       THEN /\ g' = [g EXCEPT !["catchup"].pc = "wait"]
            /\ todo' = {}
       ELSE \E n \in todo \cap failed :
              /\ g' = [g EXCEPT !["catchup"] = [pc |-> "read", num |-> n]]
              /\ todo' = todo \ {n}
    /\ UNCHANGED <<produced, newBlock, failed, queried, enqueued, fatal>>

Read(x) == ReadOk(x) \/ ReadFails(x)
Store(x) == StoreOk(x) \/ StoreFails(x)

\* Every goroutine stops once the runtime has aborted the process.
Next ==
    /\ ~fatal
    /\ \/ NewBlock
       \/ ReceiveBlock
       \/ \E x \in Goroutines : Read(x) \/ Store(x)
       \/ Tick
       \/ NextEntry

\* Goroutines are scheduled and the ticker fires.  The execution client and
\* the deposit store may fail any number of times, but a call retried
\* for the same block forever, as the catch-up goroutine does, eventually
\* succeeds (strong fairness on its successes, per block).
Fairness ==
    /\ WF_vars(ReceiveBlock)
    /\ WF_vars(Tick)
    /\ WF_vars(NextEntry)
    /\ \A x \in Goroutines : WF_vars(Read(x)) /\ WF_vars(Store(x))
    /\ \A n \in 0..MaxHead :
         /\ SF_vars(g["catchup"].num = n /\ ReadOk("catchup"))
         /\ SF_vars(g["catchup"].num = n /\ StoreOk("catchup"))

Spec == Init /\ [][Next]_vars /\ Fairness

-----------------------------------------------------------------------------
(* Properties.                                                             *)

\* Every block the fetcher queried that the chain has gets its deposits
\* stored, whether the first fetch fails at the log read or at the store:
\* a failure is recorded in failedBlocks and the catch-up goroutine keeps
\* retrying it.  This holds of runs in which the runtime never aborts the
\* process on the unsynchronised failedBlocks map; an abort loses the map.
EveryExistingBlockStored ==
    [](~fatal) =>
        \A n \in 0..MaxHead :
            (n \in queried /\ n <= produced) ~> enqueued[n] > 0

\* Deposits of a block are enqueued at most once: once a fetch of a block
\* succeeded, no retry enqueues its deposits again.  The delete guarded by
\* s.failedBlocks[blockNum] != struct{}{} never runs, so the catch-up
\* goroutine refetches and re-enqueues every block that once failed.
EnqueuedAtMostOnce == \A n \in Nums : enqueued[n] <= 1
=============================================================================
