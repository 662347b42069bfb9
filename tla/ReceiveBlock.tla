---------------------------- MODULE ReceiveBlock ----------------------------
(***************************************************************************)
(* ReceiveBeaconBlock of src/beacon/blockchain/receive_block.go: one       *)
(* incoming block is checked by two goroutines of an errgroup, the state   *)
(* transition precondition (validateStateTransition) and the execution     *)
(* engine's verdict (validateExecutionOnBlock -> NotifyNewPayload ->       *)
(* engineCaller.NewPayload), then the caller joins them with eg.Wait,      *)
(* swallows an accepted/syncing error and runs postBlockProcess.           *)
(*                                                                         *)
(* The errgroup keeps the FIRST error a goroutine returns and cancels the  *)
(* shared context at that moment; the two goroutines finish in any order.  *)
(***************************************************************************)
EXTENDS EngineCaller

CONSTANTS
    PayloadVersions   \* concrete types blk.ExecutionPayload() may have

\* Errors raised in this file besides the engine caller's.
BlockErrors == {"ErrNoPayload", "ErrParentNotFinalized", "ErrUnknownDataType",
                "ErrPostBlockProcess"}
AllErrors == Errors \cup BlockErrors

VARIABLES
    blk,             \* the incoming block, as far as the checks read it
    stTask,          \* the validateStateTransition goroutine
    elTask,          \* the validateExecutionOnBlock goroutine
    elStatus,        \* the PayloadStatus the engine answered, "none" if none
    isValidPayload,  \* the bool shared by the second goroutine and the caller
    groupErr,        \* errgroup's first error
    groupCancelled,  \* whether groupCtx is cancelled
    pc,              \* where ReceiveBeaconBlock itself is
    postProcessed,   \* postBlockProcess was invoked ...
    ppValid,         \* ... with this isValidPayload argument
    ret              \* what ReceiveBeaconBlock returned

vars == <<blk, stTask, elTask, elStatus, isValidPayload, groupErr,
          groupCancelled, pc, postProcessed, ppValid, ret>>

Blocks == [hasPayload : BOOLEAN, parentFinalized : BOOLEAN,
           version : PayloadVersions]

TypeOK ==
    /\ blk \in Blocks
    /\ stTask \in {"running", "ok", "failed"}
    /\ elTask \in {"idle", "calling", "ok", "failed"}
    /\ elStatus \in PayloadStatus \cup {"none"}
    /\ isValidPayload \in BOOLEAN
    /\ groupErr \in AllErrors
    /\ groupCancelled \in BOOLEAN
    /\ pc \in {"waiting", "postBlockProcess", "returned"}
    /\ postProcessed \in BOOLEAN
    /\ ppValid \in BOOLEAN
    /\ ret \in AllErrors

\* The state right after ReceiveBeaconBlock is entered with block b: both
\* goroutines about to run, a fresh errgroup, isValidPayload false.
Init ==
    /\ blk \in Blocks
    /\ stTask = "running"
    /\ elTask = "idle"
    /\ elStatus = "none"
    /\ isValidPayload = FALSE
    /\ groupErr = NoErr
    /\ groupCancelled = FALSE
    /\ pc = "waiting"
    /\ postProcessed = FALSE
    /\ ppValid = FALSE
    /\ ret = NoErr

\* The next block is received once the previous call returned (the ABCI
\* application calls ReceiveBeaconBlock for one block at a time).
ReceiveBeaconBlock ==
    /\ pc = "returned"
    /\ blk' \in Blocks
    /\ stTask' = "running"
    /\ elTask' = "idle"
    /\ elStatus' = "none"
    /\ isValidPayload' = FALSE
    /\ groupErr' = NoErr
    /\ groupCancelled' = FALSE
    /\ pc' = "waiting"
    /\ postProcessed' = FALSE
    /\ ppValid' = FALSE
    /\ ret' = NoErr

\* The wrapper eg.Go puts around each goroutine: a non-nil error is kept if
\* it is the first one, and the group context is cancelled.
GroupReturn(err) ==
    IF err = NoErr
    THEN UNCHANGED <<groupErr, groupCancelled>>
    ELSE /\ groupErr' = IF groupErr = NoErr THEN err ELSE groupErr
         /\ groupCancelled' = TRUE

\* First goroutine: the block's parent execution hash must be the locally
\* finalized one.  It does not look at the context.
ValidateStateTransition ==
    /\ stTask = "running"
    /\ LET err == CASE ~blk.hasPayload       -> "ErrNoPayload"
                    [] ~blk.parentFinalized  -> "ErrParentNotFinalized"
                    [] OTHER                 -> NoErr
       IN /\ stTask' = IF err = NoErr THEN "ok" ELSE "failed"
          /\ GroupReturn(err)
    /\ UNCHANGED <<blk, elTask, elStatus, isValidPayload, pc, postProcessed,
                   ppValid, ret>>

\* validateExecutionOnBlock: blk.ExecutionPayload() fails for a block
\* without a payload; otherwise the payload goes to NotifyNewPayload.
ValidateExecutionOnBlock(b) == IF b.hasPayload THEN NoErr ELSE "ErrNoPayload"

\* Second goroutine up to the RPC: NewPayload dispatches on the payload's
\* concrete type and sends engine_newPayloadV2/V3 with a fresh deadline.
CallNewPayload ==
    /\ elTask = "idle"
    /\ LET err == CASE ValidateExecutionOnBlock(blk) # NoErr -> "ErrNoPayload"
                    [] blk.version \notin {"Capella", "Deneb"} -> "ErrUnknownDataType"
                    [] OTHER                                -> NoErr
       IN IF err = NoErr
          THEN /\ elTask' = "calling"
               /\ UNCHANGED <<groupErr, groupCancelled>>
          ELSE /\ elTask' = "failed"
               /\ GroupReturn(err)
    /\ UNCHANGED <<blk, stTask, elStatus, isValidPayload, pc, postProcessed,
                   ppValid, ret>>

\* The second goroutine returns (lastValidHash != nil, err).
FinishNewPayload(r) ==
    /\ isValidPayload' = r.hash
    /\ elTask' = IF r.err = NoErr THEN "ok" ELSE "failed"
    /\ GroupReturn(r.err)

\* The engine answers; the status switch of NewPayload gives the result.
\* An engine answers VALID with the payload's hash as latest valid hash.
EngineAnswers ==
    /\ elTask = "calling"
    /\ \E s \in PayloadStatus, lvh \in BOOLEAN :
          /\ s = "VALID" => lvh
          /\ elStatus' = s
          /\ FinishNewPayload(NewPayloadResult(s, lvh))
    /\ UNCHANGED <<blk, stTask, pc, postProcessed, ppValid, ret>>

\* The call fails in transport or with a JSON-RPC error.
CallFails ==
    /\ elTask = "calling"
    /\ FinishNewPayload([hash |-> FALSE, err |-> handleRPCError("transport")])
    /\ UNCHANGED <<blk, stTask, elStatus, pc, postProcessed, ppValid, ret>>

\* The group context was cancelled by the first goroutine's error, which
\* aborts the HTTP request.
CallCancelled ==
    /\ elTask = "calling"
    /\ groupCancelled
    /\ FinishNewPayload([hash |-> FALSE, err |-> handleRPCError("cancelled")])
    /\ UNCHANGED <<blk, stTask, elStatus, pc, postProcessed, ppValid, ret>>

\* Variant: the call has no deadline (context.Background() as the parent).
CallNoDeadline == FALSE

\* The per-call deadline (now + engineTimeout) passes.
CallTimeout ==
    /\ elTask = "calling"
    /\ FinishNewPayload([hash |-> FALSE, err |-> handleRPCError("deadline")])
    /\ UNCHANGED <<blk, stTask, elStatus, pc, postProcessed, ppValid, ret>>

\* Variant: eg.Wait's error is returned without the accepted/syncing swallow.
WaitNoSwallow ==
    /\ pc = "waiting"
    /\ stTask # "running"
    /\ elTask \in {"ok", "failed"}
    /\ IF groupErr # NoErr
       THEN pc' = "returned" /\ ret' = groupErr
       ELSE pc' = "postBlockProcess" /\ UNCHANGED ret
    /\ UNCHANGED <<blk, stTask, elTask, elStatus, isValidPayload, groupErr,
                   groupCancelled, postProcessed, ppValid>>

\* eg.Wait returns once both goroutines have returned; an error other than
\* accepted/syncing is returned at once.
Wait ==
    /\ pc = "waiting"
    /\ stTask # "running"
    /\ elTask \in {"ok", "failed"}
    /\ IF groupErr \notin {NoErr, "ErrAcceptedSyncing"}
       THEN pc' = "returned" /\ ret' = groupErr
       ELSE pc' = "postBlockProcess" /\ UNCHANGED ret
    /\ UNCHANGED <<blk, stTask, elTask, elStatus, isValidPayload, groupErr,
                   groupCancelled, postProcessed, ppValid>>

\* Variant: nil is returned after postBlockProcess, the swallowed error lost.
PostBlockProcessReturnsNil ==
    /\ pc = "postBlockProcess"
    /\ postProcessed' = TRUE
    /\ ppValid' = isValidPayload
    /\ pc' = "returned"
    /\ \E ok \in BOOLEAN : ret' = IF ok THEN NoErr ELSE "ErrPostBlockProcess"
    /\ UNCHANGED <<blk, stTask, elTask, elStatus, isValidPayload, groupErr,
                   groupCancelled>>

\* postBlockProcess (an external collaborator) may fail; on success the
\* wait-group error, possibly the swallowed one, is returned.
PostBlockProcess ==
    /\ pc = "postBlockProcess"
    /\ postProcessed' = TRUE
    /\ ppValid' = isValidPayload
    /\ pc' = "returned"
    /\ \E ok \in BOOLEAN : ret' = IF ok THEN groupErr ELSE "ErrPostBlockProcess"
    /\ UNCHANGED <<blk, stTask, elTask, elStatus, isValidPayload, groupErr,
                   groupCancelled>>

Next ==
    \/ ReceiveBeaconBlock
    \/ ValidateStateTransition
    \/ CallNewPayload
    \/ EngineAnswers
    \/ CallFails
    \/ CallCancelled
    \/ CallTimeout
    \/ Wait
    \/ PostBlockProcess

\* The engine and the network are not obliged to answer; the deadline of
\* context.WithDeadline and the Go scheduler are.
Fairness ==
    /\ WF_vars(ReceiveBeaconBlock)
    /\ WF_vars(ValidateStateTransition)
    /\ WF_vars(CallNewPayload)
    /\ WF_vars(CallTimeout)
    /\ WF_vars(Wait)
    /\ WF_vars(PostBlockProcess)

Spec == Init /\ [][Next]_vars /\ Fairness

Returned == pc = "returned"

-----------------------------------------------------------------------------
(* Properties.                                                             *)

\* ReceiveBeaconBlock returns nil only for a block whose parent is the
\* finalized execution block and whose payload the engine judged VALID: no
\* order of the two goroutines, cancellation or swallowed status lets an
\* unchecked block through with a nil error.
NilMeansFullyValid ==
    Returned /\ ret = NoErr => stTask = "ok" /\ elStatus = "VALID"

\* postBlockProcess is told the payload is valid only if the engine said
\* VALID: the bool NotifyNewPayload derives from a non-nil latest valid
\* hash is never true after ACCEPTED, SYNCING or a failed call.
ValidFlagOnlyFromValid ==
    postProcessed /\ ppValid => elStatus = "VALID"

\* Spec section 8: when the engine answers ACCEPTED or SYNCING and the
\* state transition check passes, ReceiveBeaconBlock still runs
\* postBlockProcess and then returns the accepted/syncing error itself.
SyncingSurfaced ==
    Returned /\ stTask = "ok" /\ elStatus \in {"ACCEPTED", "SYNCING"}
      => /\ postProcessed
         /\ ret \in {"ErrAcceptedSyncing", "ErrPostBlockProcess"}

\* Spec section 4.6: a hard error of either check aborts the block; only the
\* execution layer's accepted/syncing error is swallowed.  So a block whose
\* state transition check failed is never post-processed.
HardErrorsPropagated ==
    Returned /\ stTask = "failed" => ~postProcessed /\ ret # NoErr

\* Every ReceiveBeaconBlock call returns: both goroutines finish because the
\* engine call is bounded by its deadline.
EveryCallReturns == []<>Returned
=============================================================================
