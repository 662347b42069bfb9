---------------------------- MODULE EngineCaller ----------------------------
(***************************************************************************)
(* The Engine API caller of src/beacon/execution/engine/caller.go: the     *)
(* translation of an execution engine's answer into the (result, error)    *)
(* pair each verb returns.  The caller keeps no state of its own (only a   *)
(* connection handle), so it is a set of operators that the modules of the *)
(* stateful components apply inside their actions.                         *)
(***************************************************************************)
EXTENDS Naturals

\* PayloadStatus of the engine's answer (enginev1.PayloadStatus); an unset
\* status field reads as UNKNOWN, the zero value of the enum.
PayloadStatus ==
    {"VALID", "INVALID", "SYNCING", "ACCEPTED", "INVALID_BLOCK_HASH", "UNKNOWN"}

\* The error values the caller returns.  NoErr is Go's nil error.
NoErr == "nil"
Errors ==
    { NoErr, "ErrInvalidBlockHash", "ErrAcceptedSyncing", "ErrInvalidPayload",
      "ErrUnknownPayloadStatus", "ErrNilResponse", "ErrNilAttributer",
      "ErrUnknownVersion", "ErrRPC", "ErrTimeout" }

\* Variant: an error outside the code table passes through untyped, as the
\* default branch of handleRPCError does for unknown JSON-RPC codes.
handleRPCErrorRaw(outcome) == outcome

\* How a call over the RPC connection can end: an answer, a transport or
\* JSON-RPC error, or the per-call deadline passing.  handleRPCError turns
\* the last two into typed errors (ErrRPC stands for the whole code table).
\* isTimeout: the error is an http.Client timeout.
isTimeout(outcome) == outcome = "deadline"

handleRPCError(outcome) ==
    IF isTimeout(outcome) THEN "ErrTimeout" ELSE "ErrRPC"

\* Variant: ACCEPTED/SYNCING keep the latest valid hash, as
\* ForkchoiceUpdated of src/beacon/prysm/engine_client.go keeps the id.
NewPayloadResultAcceptedHash(status, lvh) ==
    CASE status = "INVALID_BLOCK_HASH" -> [hash |-> FALSE, err |-> "ErrInvalidBlockHash"]
      [] status \in {"ACCEPTED", "SYNCING"} -> [hash |-> lvh, err |-> "ErrAcceptedSyncing"]
      [] status = "INVALID" -> [hash |-> lvh, err |-> "ErrInvalidPayload"]
      [] status = "VALID"   -> [hash |-> lvh, err |-> NoErr]
      [] OTHER              -> [hash |-> FALSE, err |-> "ErrUnknownPayloadStatus"]

\* NewPayload: the status switch after a successful call.  The result is
\* whether a latest valid hash is returned (non-nil) and the error.
\* lvh is whether the engine's answer carried a latest valid hash.
NewPayloadResult(status, lvh) ==
    CASE status = "INVALID_BLOCK_HASH" -> [hash |-> FALSE, err |-> "ErrInvalidBlockHash"]
      [] status \in {"ACCEPTED", "SYNCING"} -> [hash |-> FALSE, err |-> "ErrAcceptedSyncing"]
      [] status = "INVALID" -> [hash |-> lvh, err |-> "ErrInvalidPayload"]
      [] status = "VALID"   -> [hash |-> lvh, err |-> NoErr]
      [] OTHER              -> [hash |-> FALSE, err |-> "ErrUnknownPayloadStatus"]

\* ForkchoiceUpdated: the checks before the call and the status switch after
\* it.  hasAttrs/version describe the attributes, resp the engine's answer
\* ("none" for a nil Status), pid the payload id it carried (0 for nil).
\* The result is the payload id returned (0 for nil) and the error.
ForkchoiceUpdatedPrecheck(hasAttrs, version) ==
    CASE ~hasAttrs                          -> "ErrNilAttributer"
      [] version \notin {"Capella", "Deneb"} -> "ErrUnknownVersion"
      [] OTHER                              -> NoErr

ForkchoiceUpdatedResult(resp, pid) ==
    CASE resp = "none"                     -> [err |-> "ErrNilResponse", id |-> 0]
      [] resp \in {"ACCEPTED", "SYNCING"}  -> [err |-> "ErrAcceptedSyncing", id |-> 0]
      [] resp = "INVALID"                  -> [err |-> "ErrInvalidPayload", id |-> 0]
      [] resp = "VALID"                    -> [err |-> NoErr, id |-> pid]
      [] resp = "INVALID_BLOCK_HASH"       -> [err |-> "ErrInvalidBlockHash", id |-> 0]
      [] OTHER                             -> [err |-> "ErrUnknownPayloadStatus", id |-> 0]
=============================================================================
