--------------------------- MODULE PayloadBuilder ---------------------------
(***************************************************************************)
(* Get-or-build of execution payloads for block proposal:                  *)
(*   - GetOrBuildLocalPayload / BuildLocalPayload / getParentEth1Hash of   *)
(*     src/execution/builder/local/payload.go, run by concurrent callers;  *)
(*   - the payload ID cache they share, keyed by (slot, parent hash);      *)
(*   - NotifyForkchoiceUpdate of src/beacon/execution/service.go, which    *)
(*     runs each forkchoice update as one unit of work on a serial         *)
(*     dispatch queue and blocks the caller until it is done;              *)
(*   - the engine caller's ForkchoiceUpdated and GetPayload               *)
(*     (src/beacon/execution/engine/caller.go) against an execution engine *)
(*     that builds payloads, answers any status, and forgets payloads.     *)
(***************************************************************************)
EXTENDS EngineCaller, SequencesExt, FiniteSets, TLC

CONSTANTS
    Proposers,    \* goroutines calling GetOrBuildLocalPayload
    Slots,        \* slots a caller may ask for, 1..n
    Hashes,       \* execution block hashes
    Genesis,      \* the genesis execution block hash, in Hashes
    PayloadIds    \* ids the engine can hand out; the zero id is not one

ASSUME /\ Genesis \in Hashes
       /\ Slots \subseteq Nat \ {0}
       /\ 1 \in Slots
       /\ 0 \notin PayloadIds

\* A payload build the engine started: its parent, its slot, and whether the
\* engine still serves it to engine_getPayload.
Builds == [parent : Hashes, slot : Slots, live : BOOLEAN]

\* A unit of work on the forkchoice queue: fcuConfig of BuildLocalPayload.
Requests == [p : Proposers, slot : Slots, head : Hashes]

\* Errors a call can end with.
BuildErrors == {"ErrWithdrawals", "ErrPrepare", "ErrNilPayloadId", "ErrGetPayload"}

\* What a call returns: the id of the build whose payload it returns, or 0
\* and the error.  Pending is the value before the call returned.
Results == [id : PayloadIds, err : {NoErr}] \cup [id : {0}, err : BuildErrors]
Pending == [id |-> 0, err |-> NoErr]
NoFcu == [id |-> 0, err |-> NoErr]

VARIABLES
    stateSlot,   \* st.Slot() of the beacon state
    finalized,   \* st.GetFinalizedEth1BlockHash()
    cache,       \* the payload ID cache; 0 for no entry
    built,       \* the engine's payload builds, by id (ids handed out)
    nextId,      \* the next id the engine hands out, 0 once all are used
    queue,       \* units of work waiting on the forkchoice dispatch queue
    worker,      \* <<unit>> the queue's goroutine is running, or <<>>
    pc,          \* per caller: where its call is
    slot,        \* per caller: the slot argument
    parent,      \* per caller: parentEth1Hash
    pid,         \* per caller: the payload id in hand, 0 if none
    fcuRes,      \* per caller: what NotifyForkchoiceUpdate returned
    viaBuild,    \* per caller: the call went through BuildLocalPayload
    result       \* per caller: what the call returned (Results or Pending)

vars == <<stateSlot, finalized, cache, built, nextId, queue, worker,
          pc, slot, parent, pid, fcuRes, viaBuild, result>>

Ids0 == PayloadIds \cup {0}
Pcs == {"idle", "getCached", "build", "waitFCU", "fcuDone", "getPayload", "done"}

TypeOK ==
    /\ stateSlot \in Slots
    /\ finalized \in Hashes
    /\ cache \in [Slots \X Hashes -> Ids0]
    /\ DOMAIN built \subseteq PayloadIds
    /\ \A i \in DOMAIN built : built[i] \in Builds
    /\ nextId \in Ids0
    /\ queue \in Seq(Requests)
    /\ worker \in Seq(Requests) /\ Len(worker) <= 1
    /\ pc \in [Proposers -> Pcs]
    /\ slot \in [Proposers -> Slots]
    /\ parent \in [Proposers -> Hashes]
    /\ pid \in [Proposers -> Ids0]
    /\ fcuRes \in [Proposers -> [id : Ids0, err : Errors]]
    /\ viaBuild \in [Proposers -> BOOLEAN]
    /\ result \in [Proposers -> Results \cup {Pending}]

\* The ids in order, for handing out fresh ones.
IdAfter(i) ==
    IF \E j \in PayloadIds : j > i THEN CHOOSE j \in PayloadIds : j > i ELSE 0

Init ==
    /\ stateSlot = 1
    /\ finalized = Genesis
    /\ cache = [k \in Slots \X Hashes |-> 0]
    /\ built = <<>>
    /\ nextId = CHOOSE i \in PayloadIds : \A j \in PayloadIds : i <= j
    /\ queue = <<>>
    /\ worker = <<>>
    /\ pc = [p \in Proposers |-> "idle"]
    /\ slot = [p \in Proposers |-> 1]
    /\ parent = [p \in Proposers |-> Genesis]
    /\ pid = [p \in Proposers |-> 0]
    /\ fcuRes = [p \in Proposers |-> NoFcu]
    /\ viaBuild = [p \in Proposers |-> FALSE]
    /\ result = [p \in Proposers |-> Pending]

-----------------------------------------------------------------------------
(* Helpers translated from the code.                                       *)

\* getParentEth1Hash: the first slot is proposed on the genesis block,
\* every other on the last finalized execution block.
ParentEth1Hash == IF stateSlot = 1 THEN Genesis ELSE finalized

\* Variant: a cache keyed by slot alone, whatever parent the entry was for.
CacheGetBySlot(c, s, h) ==
    LET keys == {k \in Slots \X Hashes : k[1] = s /\ c[k] # 0}
    IN IF keys = {} THEN 0 ELSE c[CHOOSE k \in keys : TRUE]

\* PayloadIDCache.Get: the id stored for (slot, parent hash), 0 if none.
CacheGet(c, s, h) == c[<<s, h>>]

\* engine_getPayload for id i: the build if the engine still has it, or a
\* failure (unknown payload -38001, transport error or deadline).
Served(i) == i \in DOMAIN built /\ built[i].live
GetPayloadOutcomes(i) ==
    {[id |-> 0, err |-> "ErrGetPayload"]}
      \cup (IF Served(i) THEN {[id |-> i, err |-> NoErr]} ELSE {})

\* The call returns r; its id and forkchoice result go out of scope.
Finish(p, r) ==
    /\ pc' = [pc EXCEPT ![p] = "done"]
    /\ result' = [result EXCEPT ![p] = r]
    /\ pid' = [pid EXCEPT ![p] = 0]
    /\ fcuRes' = [fcuRes EXCEPT ![p] = NoFcu]

-----------------------------------------------------------------------------
(* GetOrBuildLocalPayload.                                                 *)

\* Entry: resolve the parent hash from the state, then look the key up in
\* the cache; a zero id counts as a miss.
GetOrBuildLocalPayload(p) ==
    /\ pc[p] \in {"idle", "done"}
    /\ \E s \in Slots :
         LET h == ParentEth1Hash
             i == CacheGet(cache, s, h)
         IN /\ slot' = [slot EXCEPT ![p] = s]
            /\ parent' = [parent EXCEPT ![p] = h]
            /\ pid' = [pid EXCEPT ![p] = i]
            /\ pc' = [pc EXCEPT ![p] = IF i # 0 THEN "getCached" ELSE "build"]
    /\ viaBuild' = [viaBuild EXCEPT ![p] = FALSE]
    /\ result' = [result EXCEPT ![p] = Pending]
    /\ UNCHANGED <<stateSlot, finalized, cache, built, nextId, queue, worker,
                   fcuRes>>

\* Variant: a failed GetPayload for the cached id is returned as the error.
GetCachedPayloadFailFast(p) ==
    /\ pc[p] = "getCached"
    /\ \E r \in GetPayloadOutcomes(pid[p]) : Finish(p, r)
    /\ UNCHANGED <<stateSlot, finalized, cache, built, nextId, queue, worker,
                   slot, parent, viaBuild>>

\* Cache hit: fetch the payload by the cached id.  On failure, log, count
\* and fall through to a new build instead of failing the call.
GetCachedPayload(p) ==
    /\ pc[p] = "getCached"
    /\ \E r \in GetPayloadOutcomes(pid[p]) :
         IF r.err # NoErr
         THEN /\ pc' = [pc EXCEPT ![p] = "build"]
              /\ pid' = [pid EXCEPT ![p] = 0]
              /\ UNCHANGED <<result, fcuRes>>
         ELSE Finish(p, r)
    /\ UNCHANGED <<stateSlot, finalized, cache, built, nextId, queue, worker,
                   slot, parent, viaBuild>>

\* BuildLocalPayload up to NotifyForkchoiceUpdate: expected withdrawals may
\* fail; otherwise the update (head = parentEth1Hash, with attributes) is
\* pushed on the serial queue and the caller blocks in Sync.
BuildLocalPayload(p) ==
    /\ pc[p] = "build"
    /\ viaBuild' = [viaBuild EXCEPT ![p] = TRUE]
    /\ \/ /\ Finish(p, [id |-> 0, err |-> "ErrWithdrawals"])
          /\ UNCHANGED queue
       \/ /\ queue' = Append(queue, [p |-> p, slot |-> slot[p], head |-> parent[p]])
          /\ pc' = [pc EXCEPT ![p] = "waitFCU"]
          /\ UNCHANGED <<result, pid, fcuRes>>
    /\ UNCHANGED <<stateSlot, finalized, cache, built, nextId, worker, slot,
                   parent>>

\* Variant: the cache key's parent is re-read from the state after the
\* update returned instead of taken from the local parentEth1Hash.
AfterForkchoiceRereadsParent(p) ==
    /\ pc[p] = "fcuDone"
    /\ LET r == fcuRes[p] IN
       CASE r.err # NoErr ->
              /\ Finish(p, [id |-> 0, err |-> "ErrPrepare"])
              /\ UNCHANGED cache
         [] r.id = 0 ->
              /\ Finish(p, [id |-> 0, err |-> "ErrNilPayloadId"])
              /\ UNCHANGED cache
         [] OTHER ->
              /\ cache' = [cache EXCEPT ![<<slot[p], ParentEth1Hash>>] = r.id]
              /\ pid' = [pid EXCEPT ![p] = r.id]
              /\ pc' = [pc EXCEPT ![p] = "getPayload"]
              /\ fcuRes' = [fcuRes EXCEPT ![p] = NoFcu]
              /\ UNCHANGED result
    /\ UNCHANGED <<stateSlot, finalized, built, nextId, queue, worker,
                   slot, parent, viaBuild>>

\* After NotifyForkchoiceUpdate returned: an error fails the call; with
\* attributes and an id the cache entry (ProposingSlot, HeadEth1Hash) is
\* set (last writer wins); with attributes and no id the call fails.
AfterForkchoice(p) ==
    /\ pc[p] = "fcuDone"
    /\ LET r == fcuRes[p] IN
       CASE r.err # NoErr ->
              /\ Finish(p, [id |-> 0, err |-> "ErrPrepare"])
              /\ UNCHANGED cache
         [] r.id = 0 ->
              /\ Finish(p, [id |-> 0, err |-> "ErrNilPayloadId"])
              /\ UNCHANGED cache
         [] OTHER ->
              /\ cache' = [cache EXCEPT ![<<slot[p], parent[p]>>] = r.id]
              /\ pid' = [pid EXCEPT ![p] = r.id]
              /\ pc' = [pc EXCEPT ![p] = "getPayload"]
              /\ fcuRes' = [fcuRes EXCEPT ![p] = NoFcu]
              /\ UNCHANGED result
    /\ UNCHANGED <<stateSlot, finalized, built, nextId, queue, worker,
                   slot, parent, viaBuild>>

\* The last step of BuildLocalPayload: GetPayload with the new id; an error
\* is returned as is.
GetNewPayload(p) ==
    /\ pc[p] = "getPayload"
    /\ \E r \in GetPayloadOutcomes(pid[p]) : Finish(p, r)
    /\ UNCHANGED <<stateSlot, finalized, cache, built, nextId, queue, worker,
                   slot, parent, viaBuild>>

-----------------------------------------------------------------------------
(* The forkchoice dispatch queue and the engine behind it.                 *)

\* The queue's goroutine takes the oldest unit of work.
Dequeue ==
    /\ worker = <<>>
    /\ queue # <<>>
    /\ worker' = <<Head(queue)>>
    /\ queue' = Tail(queue)
    /\ UNCHANGED <<stateSlot, finalized, cache, built, nextId, pc, slot,
                   parent, pid, fcuRes, viaBuild, result>>

\* The unit of work completes: Sync returns err to the blocked caller.
Complete(res) ==
    /\ fcuRes' = [fcuRes EXCEPT ![Head(worker).p] = res]
    /\ pc' = [pc EXCEPT ![Head(worker).p] = "fcuDone"]
    /\ worker' = <<>>

\* engine_forkchoiceUpdatedV2/V3 answers.  On VALID with attributes the
\* engine starts a build on the requested head and returns its id; an
\* engine may also (wrongly) omit the id, or answer any other status.
EngineForkchoiceUpdated ==
    /\ worker # <<>>
    /\ \E resp \in PayloadStatus \cup {"none"}, withId \in BOOLEAN :
         LET startsBuild == resp = "VALID" /\ withId
         IN /\ startsBuild => nextId # 0
            /\ Complete(ForkchoiceUpdatedResult(resp, IF startsBuild THEN nextId ELSE 0))
            /\ IF startsBuild
               THEN /\ built' = built @@ nextId :> [parent |-> Head(worker).head,
                                                   slot |-> Head(worker).slot,
                                                   live |-> TRUE]
                    /\ nextId' = IdAfter(nextId)
               ELSE UNCHANGED <<built, nextId>>
    /\ UNCHANGED <<stateSlot, finalized, cache, queue, slot, parent,
                   pid, viaBuild, result>>

\* The call fails in transport or with a JSON-RPC error.
ForkchoiceCallFails ==
    /\ worker # <<>>
    /\ Complete([id |-> 0, err |-> handleRPCError("transport")])
    /\ UNCHANGED <<stateSlot, finalized, cache, built, nextId, queue,
                   slot, parent, pid, viaBuild, result>>

\* Variant: the forkchoice call has no deadline.
ForkchoiceNoDeadline == FALSE

\* The per-call deadline passes.
ForkchoiceTimeout ==
    /\ worker # <<>>
    /\ Complete([id |-> 0, err |-> handleRPCError("deadline")])
    /\ UNCHANGED <<stateSlot, finalized, cache, built, nextId, queue,
                   slot, parent, pid, viaBuild, result>>

\* The engine drops a payload build (it keeps only recent ones).
EngineForgets ==
    /\ \E i \in DOMAIN built :
         /\ built[i].live
         /\ built' = [built EXCEPT ![i].live = FALSE]
    /\ UNCHANGED <<stateSlot, finalized, cache, nextId, queue, worker,
                   pc, slot, parent, pid, fcuRes, viaBuild, result>>

\* The chain pipeline finalizes a block: the state moves to the next slot
\* and a new finalized execution hash.
FinalizeBlock ==
    /\ stateSlot + 1 \in Slots
    /\ \E h \in Hashes \ {finalized} :
         /\ finalized' = h
         /\ stateSlot' = stateSlot + 1
    /\ UNCHANGED <<cache, built, nextId, queue, worker, pc, slot,
                   parent, pid, fcuRes, viaBuild, result>>

-----------------------------------------------------------------------------
Next ==
    \/ \E p \in Proposers :
         \/ GetOrBuildLocalPayload(p)
         \/ GetCachedPayload(p)
         \/ BuildLocalPayload(p)
         \/ AfterForkchoice(p)
         \/ GetNewPayload(p)
    \/ Dequeue
    \/ EngineForkchoiceUpdated
    \/ ForkchoiceCallFails
    \/ ForkchoiceTimeout
    \/ EngineForgets
    \/ FinalizeBlock

\* Goroutines are scheduled and every engine call ends by its deadline; the
\* engine, the chain and new calls are not obliged to do anything.
Fairness ==
    /\ \A p \in Proposers :
         /\ WF_vars(GetCachedPayload(p))
         /\ WF_vars(BuildLocalPayload(p))
         /\ WF_vars(AfterForkchoice(p))
         /\ WF_vars(GetNewPayload(p))
    /\ WF_vars(Dequeue)
    /\ WF_vars(ForkchoiceTimeout)

Spec == Init /\ [][Next]_vars /\ Fairness

-----------------------------------------------------------------------------
(* Properties.                                                             *)

\* Every cache entry names a build the engine started for exactly that
\* (slot, parent hash): whatever the order of concurrent builds, queued
\* updates, finalizations and cache writes, a later cache hit can only
\* fetch a payload built for the key it looked up.
CacheMatchesEngine ==
    \A s \in Slots, h \in Hashes :
        LET i == cache[<<s, h>>] IN
        i # 0 => i \in DOMAIN built /\ built[i].parent = h /\ built[i].slot = s

\* A call that returns a payload returns one the engine built on the parent
\* hash the call resolved and for the slot it was asked for, whether it
\* came from the cache or from a fresh build.
PayloadMatchesRequest ==
    \A p \in Proposers :
        LET i == result[p].id IN
        pc[p] = "done" /\ i # 0
          => built[i].parent = parent[p] /\ built[i].slot = slot[p]

\* Spec section 8: a failed engine_getPayload for a cached id is never the
\* error a call returns; the call falls through to a new build, so every
\* error comes from the build path.
CachedFailureFallsThrough ==
    \A p \in Proposers :
        pc[p] = "done" /\ result[p].err # NoErr => viaBuild[p]

\* Every GetOrBuildLocalPayload call returns: the queue is drained and each
\* engine call ends by its deadline.
EveryBuildReturns ==
    \A p \in Proposers : pc[p] \notin {"idle", "done"} ~> pc[p] = "done"

\* Spec section 1: at most one payload build is in flight per (slot,
\* parent hash).
AtMostOneBuildPerKey ==
    \A s \in Slots, h \in Hashes :
        Cardinality({i \in DOMAIN built :
                       built[i].live
                       /\ built[i].parent = h /\ built[i].slot = s}) <= 1
=============================================================================
