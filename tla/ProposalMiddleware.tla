------------------------- MODULE ProposalMiddleware -------------------------
(***************************************************************************)
(* The ABCI proposal handlers of                                           *)
(* src/mod/runtime/pkg/runtime/middleware/validator.go.  CometBFT calls    *)
(* PrepareProposalHandler and ProcessProposalHandler one at a time; inside *)
(* PrepareProposal two errgroup goroutines publish the beacon block and    *)
(* the blob sidecars concurrently and the handler returns their bytes as   *)
(* the proposal's Txs, with g.Wait()'s error.  The validator service and   *)
(* the gossipers are outside src/: their answers are drawn from small sets *)
(* of outcomes.                                                            *)
(***************************************************************************)
EXTENDS FiniteSets

\* The two publishers, one goroutine each: the beacon block gossiper (Txs[0])
\* and the blob gossiper (Txs[1]).
Gossip == {"block", "blobs"}

\* Go's nil error and a nil byte slice.
NoErr == "nil"
Nil == "nil"

\* What RequestBestBlock can hand back: a block, an error, or a nil block
\* with a nil error.
BuildOutcomes == {"ok", "err", "nilBlock"}

VARIABLES
    pc,        \* the handler: "idle", or "wait" (blocked in g.Wait)
    routine,   \* [Gossip -> {"none", "running", "done"}]: the goroutines
    bz,        \* [Gossip -> bytes]: beaconBlockBz and sidecarsBz
    gErr,      \* the errgroup's first non-nil goroutine error
    built,     \* the last PrepareProposal got a block from RequestBestBlock
    call,      \* the handler that answered last: "none", "prepare", "process"
    txs,       \* the last PrepareProposalResponse's Txs, by publisher
    rerr,      \* the error the last handler returned
    status     \* the last ProcessProposalResponse's status

vars == <<pc, routine, bz, gErr, built, call, txs, rerr, status>>

NoTxs == [x \in Gossip |-> Nil]

Init ==
    /\ pc = "idle"
    /\ routine = [x \in Gossip |-> "none"]
    /\ bz = NoTxs
    /\ gErr = NoErr
    /\ built = FALSE
    /\ call = "none"
    /\ txs = NoTxs
    /\ rerr = NoErr
    /\ status = "none"

-----------------------------------------------------------------------------
(* PrepareProposalHandler.                                                 *)

\* RequestBestBlock, then: on an error or a nil block, an empty response
\* with that error (nil for a nil block); otherwise the byte slices are
\* declared nil and both goroutines are started, and the handler blocks in
\* g.Wait().
RequestBestBlock ==
    /\ pc = "idle"
    /\ \E o \in BuildOutcomes :
        IF o = "ok"
        THEN /\ pc' = "wait"
             /\ routine' = [x \in Gossip |-> "running"]
             /\ bz' = NoTxs
             /\ gErr' = NoErr
             /\ UNCHANGED <<built, call, txs, rerr, status>>
        ELSE /\ call' = "prepare"
             /\ txs' = NoTxs
             /\ rerr' = IF o = "err" THEN "ErrBuild" ELSE NoErr
             /\ built' = FALSE
             /\ UNCHANGED <<pc, routine, bz, gErr, status>>

\* What a publish goroutine returns: the handler's err, nil after the check
\* at line 173, whatever Publish answered in localErr.
GoroutineResult(localErr) == NoErr

\* One goroutine: Publish(gCtx, ...) stores its bytes (nil when it fails),
\* logs a failure, and returns; errgroup keeps the first non-nil error.
Publish(x) ==
    /\ routine[x] = "running"
    /\ \E ok \in BOOLEAN :
        LET localErr == IF ok THEN NoErr ELSE "ErrPublish"
            ret      == GoroutineResult(localErr)
        IN /\ bz' = [bz EXCEPT ![x] = IF ok THEN "bytes" ELSE Nil]
           /\ routine' = [routine EXCEPT ![x] = "done"]
           /\ gErr' = IF gErr = NoErr THEN ret ELSE gErr
    /\ UNCHANGED <<pc, built, call, txs, rerr, status>>

\* return &PrepareProposalResponse{Txs: {beaconBlockBz, sidecarsBz}},
\* g.Wait(): the compiler calls g.Wait() before it reads the slices into
\* the literal, so Txs holds what the goroutines stored.
Wait ==
    /\ pc = "wait"
    /\ \A x \in Gossip : routine[x] = "done"
    /\ pc' = "idle"
    /\ routine' = [x \in Gossip |-> "none"]
    /\ call' = "prepare"
    /\ txs' = bz
    /\ rerr' = gErr
    /\ built' = TRUE
    /\ UNCHANGED <<bz, gErr, status>>

-----------------------------------------------------------------------------
(* ProcessProposalHandler: sequential, it never returns an error.          *)

\* The block gossiper's Request (a failure makes the block blk.Empty(Deneb)),
\* VerifyIncomingBlock on that block, the blob gossiper's Request and
\* VerifyIncomingBlobs; the first that fails rejects the proposal.
ProcessProposal ==
    /\ pc = "idle"
    /\ \E blockVerified, blobsDecoded, blobsVerified \in BOOLEAN :
        /\ status' = IF blockVerified /\ blobsDecoded /\ blobsVerified
                     THEN "ACCEPT" ELSE "REJECT"
        /\ call' = "process"
        /\ rerr' = NoErr
    /\ UNCHANGED <<pc, routine, bz, gErr, built, txs>>

Next ==
    \/ RequestBestBlock
    \/ \E x \in Gossip : Publish(x)
    \/ Wait
    \/ ProcessProposal

Spec == Init /\ [][Next]_vars

-----------------------------------------------------------------------------
(* Properties.                                                             *)

TypeOK ==
    /\ pc \in {"idle", "wait"}
    /\ routine \in [Gossip -> {"none", "running", "done"}]
    /\ bz \in [Gossip -> {Nil, "bytes"}]
    /\ txs \in [Gossip -> {Nil, "bytes"}]
    /\ call \in {"none", "prepare", "process"}
    /\ status \in {"none", "ACCEPT", "REJECT"}

\* The goroutines check Publish's localErr and log "failed to publish": a
\* PrepareProposal that built a block and returns a nil error proposes both
\* the beacon block's and the sidecars' bytes.  Violated when a Publish
\* fails: the goroutine returns the outer err, so g.Wait() is nil and the
\* proposal carries a nil block or sidecars entry.
PublishFailureReported ==
    (call = "prepare" /\ built /\ rerr = NoErr) => \A x \in Gossip : txs[x] # Nil

=============================================================================
