------------------------- MODULE PrysmEngineClient -------------------------
(***************************************************************************)
(* The Engine API client of src/beacon/prysm/engine_client.go, the         *)
(* prysm.EngineCaller the EVM keeper holds.  Its methods keep no state     *)
(* between calls: each is modelled as an operator from its inputs and the   *)
(* execution engine's answers to its result, and each action is one call  *)
(* with inputs drawn from small sets.  The engine's chain (the blocks it   *)
(* holds) is fixed when the model starts.                                  *)
(***************************************************************************)
EXTENDS EngineCaller, Sequences, FiniteSets
LOCAL INSTANCE SequencesExt

CONSTANTS
    Hashes,          \* execution block hashes a blinded block may name
    ZeroHash,        \* params.BeaconConfig().ZeroHash: a pre-merge header
    MaxBatch,        \* blinded blocks per ReconstructFullBellatrixBlockBatch
    MaxChain,        \* length of the PoW chain GetTerminalBlockHash walks
    MaxTD,           \* total difficulties and TTDs range over 0..MaxTD
    MaxHead,         \* the engine's head block number in HeaderByNumber
    OptionalEngineMethods  \* features.Get().EnableOptionalEngineMethods

ASSUME ZeroHash \notin Hashes /\ OptionalEngineMethods \in BOOLEAN

\* Errors this client adds to the caller's: a failed PbVx conversion of the
\* attributes, a failed payload wrap, a hash mismatch between a header and
\* an execution block, an unsupported block version, a transition
\* configuration that differs from the engine's, a malformed QUANTITY, a
\* block tag the engine rejects, and a block the engine does not have.
PrysmErrors == Errors \cup {"ErrAttributes", "ErrWrap", "ErrHashMismatch", "ErrVersion",
                             "ErrConfigMismatch", "ErrDecode", "ErrInvalidParams",
                             "ErrNotFound"}

\* Payload versions the client has an RPC method for, and the others.
Versions == {"Bellatrix", "Capella", "Deneb", "Phase0"}
Supported == {"Bellatrix", "Capella", "Deneb"}

\* How a call over the RPC connection ends (EngineCaller.handleRPCError).
Outcomes == {"answer", "rpcError", "deadline"}

VARIABLES
    known,   \* the execution blocks the engine holds
    last     \* the last call: its name, inputs and result

vars == <<known, last>>

\* Record literals list their fields in the order TLC interns the field
\* names (their first use in this module), the order TLC keeps records in.

\* A payload, abstracted to its block hash and its transactions (body): the
\* body of execution block h is h itself; "empty" is no transactions.
EmptyPayload == [body |-> "empty", hash |-> ZeroHash]
Failed(e) == [blocks |-> <<>>, err |-> e]

-----------------------------------------------------------------------------
(* Engine verbs.                                                           *)

\* NewPayload: the payload's proto type selects the method; an unknown type
\* is an error; the status switch is the same table as caller.go's.
PrysmNewPayload(ver, outcome, st, lvh) ==
    CASE ver \notin Supported  -> [hash |-> FALSE, err |-> "ErrUnknownVersion"]
      [] outcome # "answer"    -> [hash |-> FALSE, err |-> handleRPCError(outcome)]
      [] OTHER                 -> NewPayloadResult(st, lvh)

\* Variant: ACCEPTED answered with an error and no id, as caller.go does.
PrysmForkchoiceUpdatedAcceptedErr(attrs, pbErr, outcome, resp, pid, lvh) ==
    CASE attrs = "nil"            -> [err |-> "ErrNilAttributer", lvh |-> FALSE, id |-> 0]
      [] attrs \notin Supported   -> [err |-> "ErrUnknownVersion", lvh |-> FALSE, id |-> 0]
      [] pbErr                    -> [err |-> "ErrAttributes", lvh |-> FALSE, id |-> 0]
      [] outcome # "answer"       -> [err |-> handleRPCError(outcome), lvh |-> FALSE, id |-> 0]
      [] resp = "none"            -> [err |-> "ErrNilResponse", lvh |-> FALSE, id |-> 0]
      [] resp \in {"SYNCING", "ACCEPTED"} -> [err |-> "ErrAcceptedSyncing", lvh |-> FALSE, id |-> 0]
      [] resp = "INVALID"         -> [err |-> "ErrInvalidPayload", lvh |-> lvh, id |-> 0]
      [] resp = "VALID"           -> [err |-> NoErr, lvh |-> lvh, id |-> pid]
      [] resp = "INVALID_BLOCK_HASH" -> [err |-> "ErrInvalidBlockHash", lvh |-> FALSE, id |-> 0]
      [] OTHER                    -> [err |-> "ErrUnknownPayloadStatus", lvh |-> FALSE, id |-> 0]

\* ForkchoiceUpdated: nil attributes, then the attributes' version selects
\* the method (PbV1/V2/V3 may fail), then the call, a nil Status, and the
\* status switch, where ACCEPTED returns the id like VALID.
PrysmForkchoiceUpdated(attrs, pbErr, outcome, resp, pid, lvh) ==
    CASE attrs = "nil"            -> [err |-> "ErrNilAttributer", lvh |-> FALSE, id |-> 0]
      [] attrs \notin Supported   -> [err |-> "ErrUnknownVersion", lvh |-> FALSE, id |-> 0]
      [] pbErr                    -> [err |-> "ErrAttributes", lvh |-> FALSE, id |-> 0]
      [] outcome # "answer"       -> [err |-> handleRPCError(outcome), lvh |-> FALSE, id |-> 0]
      [] resp = "none"            -> [err |-> "ErrNilResponse", lvh |-> FALSE, id |-> 0]
      [] resp = "SYNCING"         -> [err |-> "ErrAcceptedSyncing", lvh |-> FALSE, id |-> 0]
      [] resp = "INVALID"         -> [err |-> "ErrInvalidPayload", lvh |-> lvh, id |-> 0]
      [] resp \in {"ACCEPTED", "VALID"} -> [err |-> NoErr, lvh |-> lvh, id |-> pid]
      [] resp = "INVALID_BLOCK_HASH" -> [err |-> "ErrInvalidBlockHash", lvh |-> FALSE, id |-> 0]
      [] OTHER                    -> [err |-> "ErrUnknownPayloadStatus", lvh |-> FALSE, id |-> 0]

\* GetPayload: the slot is ignored (the Deneb and Bellatrix branches are
\* commented out); engine_getPayloadV2 and a Capella wrap of its answer.
PrysmGetPayload(outcome, wrapFails) ==
    CASE outcome # "answer" -> [err |-> handleRPCError(outcome), ver |-> "none"]
      [] wrapFails          -> [err |-> "ErrWrap", ver |-> "none"]
      [] OTHER              -> [err |-> NoErr, ver |-> "Capella"]

-----------------------------------------------------------------------------
(* GetTerminalBlockHash.  The PoW chain is blocks 1..n, block 1 the        *)
(* genesis (its parent hash is the zero hash); block i has hash and        *)
(* timestamp i and total difficulty td[i].                                 *)

\* Variant: a block counts as having reached TTD only above it.
TTDReachedStrict(d, ttd) == d > ttd

\* currentTotalDifficulty.Cmp(terminalTotalDifficulty) >= 0.
TTDReached(d, ttd) == d >= ttd

NoBlock == [hash |-> 0, err |-> NoErr, ok |-> FALSE]

\* One iteration of the loop on block i, fetched already: ctx.Err(); the
\* block's total difficulty string decoded (tDStringToUint256); the zero
\* parent hash ends the walk; ExecutionBlockByHash(parent); then, if the
\* block reached TTD, the parent's total difficulty decoded, and if the
\* parent did not reach it the block is the terminal block unless its
\* timestamp is not below the transition time; if both reached it, go on
\* with the parent; if the block did not, there is none.
\* failAt = i: this iteration's ctx check or parent fetch fails.
\* bad = i: block i's total difficulty string does not decode.
RECURSIVE TerminalWalk(_, _, _, _, _, _)
TerminalWalk(td, i, ttd, tt, failAt, bad) ==
    CASE failAt = i                        -> [NoBlock EXCEPT !.err = "ErrRPC"]
      [] bad = i                           -> [NoBlock EXCEPT !.err = "ErrDecode"]
      [] i = 1                             -> NoBlock
      [] ~TTDReached(td[i], ttd)           -> NoBlock
      [] bad = i - 1                       -> [NoBlock EXCEPT !.err = "ErrDecode"]
      [] ~TTDReached(td[i - 1], ttd)       -> IF i >= tt THEN NoBlock
                                              ELSE [hash |-> i, err |-> NoErr, ok |-> TRUE]
      [] OTHER                             -> TerminalWalk(td, i - 1, ttd, tt, failAt, bad)

\* GetTerminalBlockHash: LatestExecutionBlock (failAt = n + 1 fails it),
\* then the walk down from the latest block.
GetTerminalBlockHash(td, ttd, tt, failAt, bad) ==
    IF failAt = Len(td) + 1 THEN [NoBlock EXCEPT !.err = "ErrRPC"]
    ELSE TerminalWalk(td, Len(td), ttd, tt, failAt, bad)

-----------------------------------------------------------------------------
(* ExchangeTransitionConfiguration.  The engine's terminal total           *)
(* difficulty is a JSON-RPC QUANTITY string, "0x" and hex digits, modelled  *)
(* as <<has "0x" prefix, digit sequence>>; the configured TTD               *)
(* (params.BeaconConfig().TerminalTotalDifficulty) is a decimal string,    *)
(* a sequence of decimal digits.                                           *)

\* The value of a digit sequence in base b.
DigitsValue(b, s) == FoldLeft(LAMBDA acc, d : acc * b + d, 0, s)

\* hexutil.DecodeBig's checks on its input, in its order: the "0x" prefix,
\* at least one digit, no leading zero digit.
DecodeBigErr(qty) ==
    CASE ~qty[1]                            -> "ErrMissingPrefix"
      [] Len(qty[2]) = 0                    -> "ErrEmptyNumber"
      [] Len(qty[2]) > 1 /\ qty[2][1] = 0  -> "ErrLeadingZero"
      [] OTHER                              -> NoErr

\* The hex digits of n >= 0, no leading zero: hexutil.EncodeBig's digits.
RECURSIVE HexDigits(_)
HexDigits(n) == IF n < 16 THEN <<n>> ELSE Append(HexDigits(n \div 16), n % 16)

\* Variant: the number rendered in hex (Text(16)) rather than by String().
BigStringHex(n) == HexDigits(n)

\* big.Int.String(): the decimal digits of n, no leading zero.
RECURSIVE BigString(_)
BigString(n) == IF n < 10 THEN <<n>> ELSE Append(BigString(n \div 10), n % 10)

\* The call (answered, or handleRPCError), the terminal hash compared with
\* the configured one (ErrConfigMismatch), DecodeBig of the engine's TTD,
\* then its decimal string compared with the configured string.
ExchangeTransitionConfiguration(outcome, hash, cfgHash, qty, cfg) ==
    CASE outcome # "answer"     -> handleRPCError(outcome)
      [] hash # cfgHash         -> "ErrConfigMismatch"
      [] DecodeBigErr(qty) # NoErr -> "ErrDecode"
      [] BigString(DigitsValue(16, qty[2])) # cfg -> "ErrConfigMismatch"
      [] OTHER                  -> NoErr

-----------------------------------------------------------------------------
(* HeaderByHash and HeaderByNumber.  A block number argument is nil, a     *)
(* negative rpc.BlockNumber, or a block number; the tag sent to the engine *)
(* is a tuple: <<"latest">>, <<"pending">>, <<"finalized">>, <<"safe">>, *)
(* or <<"hex", sign, digits>> for hexutil.EncodeBig.                       *)

\* gethRPC's named block numbers.
SafeBlockNumber == -4
FinalizedBlockNumber == -3
LatestBlockNumber == -2
PendingBlockNumber == -1

\* hexutil.EncodeBig: "0x" and the hex digits, "-0x" for a negative number.
EncodeBig(n) == IF n < 0 THEN <<"hex", "-", HexDigits(-n)>> ELSE <<"hex", "+", HexDigits(n)>>

\* Variant: the finalized and safe tags swapped.
ToBlockNumArgSwapped(number) ==
    CASE number = <<>>                             -> <<"latest">>
      [] number[1] = PendingBlockNumber            -> <<"pending">>
      [] number[1] = FinalizedBlockNumber          -> <<"safe">>
      [] number[1] = SafeBlockNumber               -> <<"finalized">>
      [] OTHER                                     -> EncodeBig(number[1])

\* toBlockNumArg; number is <<>> for a nil *big.Int, else <<n>>.
ToBlockNumArg(number) ==
    CASE number = <<>>                             -> <<"latest">>
      [] number[1] = PendingBlockNumber            -> <<"pending">>
      [] number[1] = FinalizedBlockNumber          -> <<"finalized">>
      [] number[1] = SafeBlockNumber               -> <<"safe">>
      [] OTHER                                     -> EncodeBig(number[1])

\* The engine's eth_getBlockByNumber (rpc.BlockNumber.UnmarshalJSON): a
\* named tag, or a hex number without a sign; "-0x.." lacks the "0x"
\* prefix and is an invalid-params error.  The block is the chain's block
\* of that number, null past the pending block head + 1.
EngineBlockNumber(tag, head, safe, fin) ==
    CASE tag = <<"latest">>    -> head
      [] tag = <<"pending">>   -> head + 1
      [] tag = <<"finalized">> -> fin
      [] tag = <<"safe">>      -> safe
      [] OTHER                 -> DigitsValue(16, tag[3])

\* HeaderByNumber: the call (its error returned as is), then a null
\* header with no error becomes ethereum.NotFound.
HeaderByNumber(outcome, number, head, safe, fin) ==
    LET tag == ToBlockNumArg(number)
        n   == EngineBlockNumber(tag, head, safe, fin)
    IN CASE outcome # "answer"                 -> [err |-> "ErrRPC", hdr |-> -1]
         [] tag[1] = "hex" /\ tag[2] = "-"    -> [err |-> "ErrInvalidParams", hdr |-> -1]
         [] n > head + 1                       -> [err |-> "ErrNotFound", hdr |-> -1]
         [] OTHER                              -> [err |-> NoErr, hdr |-> n]

\* HeaderByHash: the engine's block under the hash, or NotFound.
HeaderByHash(outcome, h) ==
    CASE outcome # "answer" -> [err |-> "ErrRPC", hdr |-> -1]
      [] h \notin known     -> [err |-> "ErrNotFound", hdr |-> -1]
      [] OTHER              -> [err |-> NoErr, hdr |-> h]

-----------------------------------------------------------------------------
(* Reconstructing full blocks from blinded ones.                           *)

\* A blinded block: its payload header's block hash and its version.
Blinded == [hash : Hashes \cup {ZeroHash}, ver : Versions]

POk(p) == [err |-> NoErr, p |-> p]
PErr(e) == [err |-> e, p |-> EmptyPayload]

\* eth_getBlockByHash: the engine answers null for a block it does not hold,
\* and the result object keeps its zero value (zero hash, no transactions).
EngineBlock(h) == IF h \in known THEN [body |-> h, hash |-> h] ELSE EmptyPayload

\* GetPayloadBodiesByHash: a null body is replaced by an empty one.
EngineBody(h) == IF h \in known THEN h ELSE "empty"

\* buildEmptyExecutionPayload.
BuildEmptyExecutionPayload(ver) ==
    IF ver \in Supported THEN POk(EmptyPayload) ELSE PErr("ErrVersion")

\* Variant: the header's block hash is not compared with the block's.
FullPayloadFromExecutionBlockNoCheck(ver, hdr, blk) ==
    IF ver \in Supported THEN POk([body |-> blk.body, hash |-> blk.hash])
    ELSE PErr("ErrVersion")

\* fullPayloadFromExecutionBlock: the header's block hash must equal the
\* execution block's; the payload takes the block's hash and transactions.
FullPayloadFromExecutionBlock(ver, hdr, blk) ==
    CASE hdr.hash # blk.hash   -> PErr("ErrHashMismatch")
      [] ver \notin Supported  -> PErr("ErrVersion")
      [] OTHER                 -> POk([body |-> blk.body, hash |-> blk.hash])

\* fullPayloadFromPayloadBody: the header's hash and the body's
\* transactions; nothing ties the body to the header.
FullPayloadFromPayloadBody(hdr, body, ver) ==
    IF ver \in Supported THEN POk([body |-> body, hash |-> hdr.hash])
    ELSE PErr("ErrVersion")

\* The first error of a sequence of results, in order.
FirstErr(r) ==
    LET E == {k \in DOMAIN r : r[k].err # NoErr}
    IN IF E = {} THEN NoErr ELSE r[CHOOSE k \in E : \A j \in E : k <= j].err

\* retrievePayloadFromExecutionHash.  Its nil-block and empty-hash checks
\* never fire: the result object is never nil and a common.Hash is never
\* empty.
RetrievePayloadFromExecutionHash(hdr, rpc) ==
    CASE rpc # "answer"            -> PErr(handleRPCError(rpc))
      [] OptionalEngineMethods -> FullPayloadFromPayloadBody(hdr, EngineBody(hdr.hash), hdr.ver)
      [] OTHER                 -> FullPayloadFromExecutionBlock(hdr.ver, hdr, EngineBlock(hdr.hash))

\* retrievePayloadsFromExecutionHashes: one batch request for the hashes
\* (ExecutionBlocksByHashes sends none for an empty list), then the k-th
\* answer is made a payload with the header of block valid[k] and stored
\* at that block's index.
RetrievePayloadsFromExecutionHashes(batch, hashes, valid, rpc) ==
    LET callErr == /\ rpc # "answer"
                   /\ (OptionalEngineMethods \/ Len(hashes) > 0)
        at(k) == LET hdr == batch[valid[k]] IN
                 IF OptionalEngineMethods
                 THEN FullPayloadFromPayloadBody(hdr, EngineBody(hashes[k]), hdr.ver)
                 ELSE FullPayloadFromExecutionBlock(hdr.ver, hdr, EngineBlock(hashes[k]))
        R == [k \in 1..Len(valid) |-> at(k)]
        full == [i \in 1..Len(batch) |->
                   IF \E k \in 1..Len(valid) : valid[k] = i
                   THEN R[CHOOSE k \in 1..Len(valid) : valid[k] = i].p
                   ELSE EmptyPayload]
    IN CASE callErr            -> Failed(handleRPCError(rpc))
         [] FirstErr(R) # NoErr -> Failed(FirstErr(R))
         [] OTHER              -> [blocks |-> full, err |-> NoErr]

\* ReconstructFullBellatrixBlockBatch: split the batch into pre-merge
\* (zero hash) and post-merge blocks, retrieve the post-merge payloads,
\* then give each pre-merge block an empty payload.
ReconstructFullBellatrixBlockBatch(batch, rpc) ==
    IF batch = <<>> THEN [blocks |-> <<>>, err |-> NoErr]
    ELSE LET idx    == [i \in 1..Len(batch) |-> i]
             valid  == SelectSeq(idx, LAMBDA i : batch[i].hash # ZeroHash)
             zero   == SelectSeq(idx, LAMBDA i : batch[i].hash = ZeroHash)
             hashes == [k \in 1..Len(valid) |-> batch[valid[k]].hash]
             r      == RetrievePayloadsFromExecutionHashes(batch, hashes, valid, rpc)
             E      == [k \in 1..Len(zero) |-> BuildEmptyExecutionPayload(batch[zero[k]].ver)]
         IN CASE r.err # NoErr       -> r
              [] FirstErr(E) # NoErr -> Failed(FirstErr(E))
              [] OTHER               -> r

\* ReconstructFullBlock: one blinded block.
ReconstructFullBlock(b, rpc) ==
    LET r == IF b.hash = ZeroHash THEN BuildEmptyExecutionPayload(b.ver)
             ELSE RetrievePayloadFromExecutionHash(b, rpc)
    IN IF r.err # NoErr THEN Failed(r.err) ELSE [blocks |-> <<r.p>>, err |-> NoErr]

-----------------------------------------------------------------------------
(* One call per step, its inputs drawn from small sets.                    *)

\* The PoW chains GetTerminalBlockHash may walk: 1..MaxChain blocks with
\* non-decreasing total difficulties.
Chains == UNION {{td \in [1..n -> 0..MaxTD] :
                    \A i \in 1..(n - 1) : td[i] <= td[i + 1]} : n \in 1..MaxChain}

Batches == UNION {[1..n -> Blinded] : n \in 0..MaxBatch}

Calls == {"none", "newPayload", "forkchoiceUpdated", "getPayload",
          "terminalBlock", "batch", "single", "exchangeConfig", "headerByNumber",
          "headerByHash"}

\* Block number arguments: nil, gethRPC's named numbers, and block numbers
\* up to one past the pending block.
BlockNumbers == {<<>>} \cup {<<n>> : n \in SafeBlockNumber..(MaxHead + 2)}

\* The engine's TTD strings: with and without the prefix, 0..2 digits
\* from a few hex digits, leading zeros included.
Quantities == {<<p, d>> : p \in BOOLEAN,
                          d \in UNION {[1..n -> {0, 1, 10}] : n \in 0..2}}

\* Configured TTDs: decimal strings as the beacon config writes them.
ConfigTTDs == {<<0>>, <<1>>, <<1, 0>>, <<1, 6>>, <<1, 7>>, <<1, 6, 0>>, <<1, 7, 0>>}

Init ==
    /\ known \in SUBSET Hashes
    /\ last = [call |-> "none", in |-> <<>>, res |-> [err |-> NoErr]]

Call(name, in, res) ==
    /\ last' = [call |-> name, in |-> in, res |-> res]
    /\ UNCHANGED known

\* After its call the behaviour has nothing left to do.
Done ==
    /\ last.call # "none"
    /\ UNCHANGED vars

CallNewPayload ==
    \E ver \in Versions, o \in Outcomes, st \in PayloadStatus, lvh \in BOOLEAN :
        Call("newPayload", [ver |-> ver, outcome |-> o, lvh |-> lvh, status |-> st],
             PrysmNewPayload(ver, o, st, lvh))

CallForkchoiceUpdated ==
    \E attrs \in Versions \cup {"nil"}, pbErr \in BOOLEAN, o \in Outcomes,
       resp \in PayloadStatus \cup {"none"}, pid \in {0, 1}, lvh \in BOOLEAN :
        Call("forkchoiceUpdated",
             [outcome |-> o, lvh |-> lvh, attrs |-> attrs, pbErr |-> pbErr,
              pid |-> pid, status |-> resp],
             PrysmForkchoiceUpdated(attrs, pbErr, o, resp, pid, lvh))

CallGetPayload ==
    \E o \in Outcomes, wrapFails \in BOOLEAN :
        Call("getPayload", [outcome |-> o, wrapFails |-> wrapFails],
             PrysmGetPayload(o, wrapFails))

\* transitionTime ranges over the block timestamps and one past them.
CallGetTerminalBlockHash ==
    \E td \in Chains, ttd \in 0..(MaxTD + 1), tt \in 1..(MaxChain + 1),
       failAt \in 0..(MaxChain + 1), bad \in 0..MaxChain :
        /\ failAt <= Len(td) + 1
        /\ bad <= Len(td)
        /\ Call("terminalBlock",
                [ttd |-> ttd, td |-> td, tt |-> tt, failAt |-> failAt, bad |-> bad],
                GetTerminalBlockHash(td, ttd, tt, failAt, bad))

CallReconstructBatch ==
    \E batch \in Batches, rpc \in Outcomes :
        Call("batch", [blocks |-> batch, outcome |-> rpc],
             ReconstructFullBellatrixBlockBatch(batch, rpc))

CallReconstructFullBlock ==
    \E b \in Blinded, rpc \in Outcomes :
        Call("single", [blocks |-> <<b>>, outcome |-> rpc], ReconstructFullBlock(b, rpc))

CallExchangeTransitionConfiguration ==
    \E o \in Outcomes, hash, cfgHash \in Hashes \cup {ZeroHash},
       qty \in Quantities, cfg \in ConfigTTDs :
        Call("exchangeConfig",
             [hash |-> hash, outcome |-> o, qty |-> qty, cfgHash |-> cfgHash, cfg |-> cfg],
             [err |-> ExchangeTransitionConfiguration(o, hash, cfgHash, qty, cfg)])

\* The client keeps no state between calls, so a behaviour makes one call:
\* any sequence of calls is the sequence of these single calls.
Idle == last.call = "none"

\* The engine's chain: blocks 0..head, with safe and finalized blocks at or
\* below the head, the finalized one at or below the safe one.
CallHeaderByNumber ==
    \E o \in Outcomes, number \in BlockNumbers, head \in 0..MaxHead,
       safe \in 0..MaxHead, fin \in 0..MaxHead :
        /\ fin <= safe /\ safe <= head
        /\ Call("headerByNumber",
                [outcome |-> o, number |-> number, head |-> head, safe |-> safe, fin |-> fin],
                HeaderByNumber(o, number, head, safe, fin))

CallHeaderByHash ==
    \E o \in Outcomes, h \in Hashes \cup {ZeroHash} :
        Call("headerByHash", [hash |-> h, outcome |-> o], HeaderByHash(o, h))

Next ==
    \/ /\ Idle
       /\ \/ CallExchangeTransitionConfiguration
          \/ CallHeaderByNumber
          \/ CallHeaderByHash
          \/ CallNewPayload
          \/ CallForkchoiceUpdated
          \/ CallGetPayload
          \/ CallGetTerminalBlockHash
          \/ CallReconstructBatch
          \/ CallReconstructFullBlock
    \/ Done

Spec == Init /\ [][Next]_vars

-----------------------------------------------------------------------------
(* Properties.                                                             *)

TypeOK ==
    /\ known \subseteq Hashes
    /\ last.call \in Calls
    /\ last.res.err \in PrysmErrors

\* The Engine API contract of the spec (section 4.2): a payload status
\* maps to (latest valid hash, error) as VALID -> (hash, nil), INVALID ->
\* (hash, ErrInvalidPayload), SYNCING/ACCEPTED -> (nil, ErrAcceptedSyncing),
\* INVALID_BLOCK_HASH -> (nil, ErrInvalidBlockHash), else (nil,
\* ErrUnknownPayloadStatus); forkchoiceUpdated returns the payload id for
\* VALID and for ACCEPTED and otherwise the same errors.
ContractStatus(st, lvh) ==
    CASE st = "VALID"              -> [hash |-> lvh, err |-> NoErr]
      [] st = "INVALID"            -> [hash |-> lvh, err |-> "ErrInvalidPayload"]
      [] st \in {"SYNCING", "ACCEPTED"} -> [hash |-> FALSE, err |-> "ErrAcceptedSyncing"]
      [] st = "INVALID_BLOCK_HASH" -> [hash |-> FALSE, err |-> "ErrInvalidBlockHash"]
      [] OTHER                     -> [hash |-> FALSE, err |-> "ErrUnknownPayloadStatus"]

Answered(in) == in.outcome = "answer"

\* prysm's NewPayload and ForkchoiceUpdated follow that contract for every
\* answer of a supported version: ForkchoiceUpdated's switch lists the
\* statuses in its own order and returns the payload id for ACCEPTED.
EngineVerbsMatchContract ==
    /\ last.call = "newPayload" /\ last.in.ver \in Supported /\ Answered(last.in)
       => last.res = ContractStatus(last.in.status, last.in.lvh)
    /\ last.call = "forkchoiceUpdated" /\ last.in.attrs \in Supported
       /\ ~last.in.pbErr /\ Answered(last.in) /\ last.in.status # "none"
       => LET c == ContractStatus(last.in.status, last.in.lvh)
              ok == last.in.status \in {"VALID", "ACCEPTED"}
          IN /\ last.res.id = (IF ok THEN last.in.pid ELSE 0)
             /\ last.res.err = (IF ok THEN NoErr ELSE c.err)

\* The terminal PoW block (the TTD definition GetTerminalBlockHash's own
\* comment states): the block whose total difficulty reached TTD while its
\* parent's did not, if its timestamp is below the transition time.  When
\* the walk ends without an error it returns exactly that block, or none.
TerminalRef(td, ttd, tt) ==
    LET T == {i \in 2..Len(td) : td[i] >= ttd /\ td[i - 1] < ttd /\ i < tt}
    IN IF T = {} THEN NoBlock
       ELSE [hash |-> CHOOSE i \in T : TRUE, err |-> NoErr, ok |-> TRUE]

TerminalBlockMatchesSpec ==
    last.call = "terminalBlock" /\ last.res.err = NoErr
        => last.res = TerminalRef(last.in.td, last.in.ttd, last.in.tt)

\* A full block rebuilt from a blinded one carries the execution payload
\* the engine holds under the header's block hash (an empty payload for a
\* pre-merge header), at the blinded block's position in the batch; a
\* block the engine does not hold is never rebuilt.
RefPayload(b) ==
    IF b.hash = ZeroHash THEN EmptyPayload ELSE [body |-> b.hash, hash |-> b.hash]

ReconstructionMatchesEngine ==
    last.call \in {"batch", "single"} /\ last.res.err = NoErr
        => /\ Len(last.res.blocks) = Len(last.in.blocks)
           /\ \A i \in 1..Len(last.in.blocks) :
                 /\ last.res.blocks[i] = RefPayload(last.in.blocks[i])
                 /\ last.in.blocks[i].hash \in known \cup {ZeroHash}

\* ExchangeTransitionConfiguration compares the engine's TTD with the
\* configured one as decimal strings after decoding the engine's hex: for
\* an answered call it returns nil exactly when the terminal hashes match,
\* the engine's QUANTITY is well formed ("0x", digits, no leading zero),
\* and the two numbers are equal; a mismatch error is never raised for
\* a well-formed, matching configuration.
WellFormedQuantity(qty) ==
    qty[1] /\ Len(qty[2]) > 0 /\ (Len(qty[2]) > 1 => qty[2][1] # 0)

TransitionConfigurationChecked ==
    last.call = "exchangeConfig" /\ Answered(last.in)
        => LET same == /\ last.in.hash = last.in.cfgHash
                       /\ WellFormedQuantity(last.in.qty)
                       /\ DigitsValue(16, last.in.qty[2]) = DigitsValue(10, last.in.cfg)
           IN /\ (last.res.err = NoErr) <=> same
              /\ last.res.err \in {NoErr, "ErrConfigMismatch", "ErrDecode"}

\* The block a block number argument names: nil and LatestBlockNumber the
\* head, PendingBlockNumber the block being built on it, the finalized
\* and safe blocks, and any other number itself.
NamedBlock(number, head, safe, fin) ==
    CASE number = <<>>                          -> head
      [] number[1] = LatestBlockNumber          -> head
      [] number[1] = PendingBlockNumber         -> head + 1
      [] number[1] = FinalizedBlockNumber       -> fin
      [] number[1] = SafeBlockNumber            -> safe
      [] OTHER                                  -> number[1]

\* HeaderByNumber and HeaderByHash return, whenever they return no error,
\* the header of the very block asked for: toBlockNumArg's tags and hex
\* encoding name that block to the engine, and a block the engine does
\* not hold is reported as NotFound rather than as a nil header.
HeaderIsRequested ==
    /\ last.call = "headerByNumber" /\ last.res.err = NoErr
       => last.res.hdr = NamedBlock(last.in.number, last.in.head, last.in.safe, last.in.fin)
    /\ last.call = "headerByHash" /\ last.res.err = NoErr
       => last.res.hdr = last.in.hash /\ last.in.hash \in known
====
