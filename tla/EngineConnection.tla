-------------------------- MODULE EngineConnection --------------------------
(***************************************************************************)
(* The connection lifecycle of EngineClient (src/engine/client/client.go). *)
(* One goroutine runs Start: an initial tryConnectionAfter, then a loop of  *)
(* retries until isConnected, ExchangeCapabilities, and the spawn of         *)
(* jwtRefreshLoop, which re-runs tryConnectionAfter forever.  Each attempt *)
(* is setupExecutionClientConnection: dial a new RPC client into s.Client, *)
(* verify the chain ID, close the client on a failed check, and set        *)
(* isConnected.  The engine's reachability and the node's context are the  *)
(* environment.                                                            *)
(***************************************************************************)
EXTENDS Naturals, FiniteSets

CONSTANTS
    Clients,    \* RPC client handles the process can hold open at once
    NoClient,   \* the nil *ethclient.Client s.Client holds before a dial
    Schemes     \* URL schemes the dial URL may be configured with

ASSUME NoClient \notin Clients

\* Schemes dialExecutionRPCClient knows.
HttpSchemes == {"http", "https"}
IpcSchemes == {"", "ipc"}

\* What the execution client at the URL does when dialled and asked for its
\* chain ID: not listening, rejecting the JWT (401), on another chain, or up.
EngineStates == {"down", "unauthorized", "wrongChain", "up"}

VARIABLES
    scheme,      \* s.cfg.RPCDialURL.Scheme
    engine,      \* the execution client's state
    ctxDone,     \* the context passed to Start is cancelled
    connected,   \* s.isConnected
    current,     \* s.Client
    open,        \* the RPC clients dialled and not closed
    pc,          \* where the connecting goroutine is
    role,        \* "start" while in Start, "refresh" in jwtRefreshLoop
    edgeLogs     \* non-401 error logs since the last connection (a 401 is
                 \* logged on its own line, client.go:165-167)

vars == <<scheme, engine, ctxDone, connected, current, open, pc, role,
          edgeLogs>>

Pcs == {"try", "dial", "verify", "closed401", "closed", "loop", "exchange"}

\* Log counters saturate at 2: the properties only tell 0, 1 and more apart.
LogsCap == 2
Logged(n) == IF n < LogsCap THEN n + 1 ELSE n

TypeOK ==
    /\ scheme \in Schemes
    /\ engine \in EngineStates
    /\ ctxDone \in BOOLEAN
    /\ connected \in BOOLEAN
    /\ current \in Clients \cup {NoClient}
    /\ open \subseteq Clients
    /\ pc \in Pcs
    /\ role \in {"start", "refresh"}
    /\ edgeLogs \in 0..LogsCap

\* Start is called with the configured URL, before any dial.
Init ==
    /\ scheme \in Schemes
    /\ engine \in EngineStates
    /\ ctxDone = FALSE
    /\ connected = FALSE
    /\ current = NoClient
    /\ open = {}
    /\ pc = "try"
    /\ role = "start"
    /\ edgeLogs = 0

\* Where tryConnectionAfter returns to: Start's loop condition, or the next
\* iteration of jwtRefreshLoop.
AfterTry == IF role = "start" THEN "loop" ELSE "try"

\* tryConnectionAfter: a select on ctx.Done() and time.After(interval).
\* A cancelled context returns at once (the interval has not elapsed);
\* otherwise the timer fires and a connection is set up.
TryConnection ==
    /\ pc = "try"
    /\ pc' = IF ctxDone THEN AfterTry ELSE "dial"
    /\ UNCHANGED <<scheme, engine, ctxDone, connected, current, open, role,
                   edgeLogs>>

\* Variant: the failed dial is logged on every attempt.
DialFailedAlwaysLogs ==
    /\ edgeLogs' = Logged(edgeLogs)
    /\ connected' = FALSE
    /\ pc' = AfterTry
    /\ UNCHANGED <<current, open>>

\* The failed-dial branch of setupExecutionClientConnection: log only when
\* the connection was up, then mark it down.
DialFailed ==
    /\ edgeLogs' = IF connected THEN Logged(edgeLogs) ELSE edgeLogs
    /\ connected' = FALSE
    /\ pc' = AfterTry
    /\ UNCHANGED <<current, open>>

\* Variant: an unknown scheme falls through to store the nil client.
DialUnknownSchemeStores ==
    /\ pc = "dial"
    /\ IF scheme \notin HttpSchemes \cup IpcSchemes
       THEN /\ current' = "nilRPC"
            /\ pc' = "verify"
            /\ UNCHANGED <<connected, open, edgeLogs>>
       ELSE \/ /\ scheme \in IpcSchemes /\ (engine = "down" \/ ctxDone)
               /\ DialFailed
            \/ /\ ~(scheme \in IpcSchemes /\ (engine = "down" \/ ctxDone))
               /\ \E c \in Clients \ open :
                    /\ current' = c
                    /\ open' = open \cup {c}
                    /\ pc' = "verify"
               /\ UNCHANGED <<connected, edgeLogs>>
            \/ /\ open = Clients
               /\ DialFailed
    /\ UNCHANGED <<scheme, engine, ctxDone, role>>

\* dialExecutionRPCClient.  An unknown scheme is an error.  An IPC dial
\* connects the socket and fails if nobody listens or ctx is cancelled; an
\* HTTP dial opens no
\* connection and succeeds.  A dial also fails when no descriptor is free.
\* On success the new client replaces s.Client; the old one is not closed.
Dial ==
    /\ pc = "dial"
    /\ \/ /\ scheme \notin HttpSchemes \cup IpcSchemes
          /\ DialFailed
       \/ /\ scheme \in IpcSchemes /\ (engine = "down" \/ ctxDone)
          /\ DialFailed
       \/ /\ scheme \in HttpSchemes \cup IpcSchemes
          /\ ~(scheme \in IpcSchemes /\ (engine = "down" \/ ctxDone))
          /\ \E c \in Clients \ open :
               /\ current' = c
               /\ open' = open \cup {c}
               /\ pc' = "verify"
          /\ UNCHANGED <<connected, edgeLogs>>
       \/ /\ scheme \in HttpSchemes \cup IpcSchemes
          /\ open = Clients
          /\ DialFailed
    /\ UNCHANGED <<scheme, engine, ctxDone, role>>

\* VerifyChainID: s.Client.ChainID fails when the engine is down or rejects
\* the JWT (a 401) or the context is cancelled; a chain ID other than
\* RequiredChainID is an error; otherwise nil.
ChainIDErr ==
    CASE ctxDone \/ engine = "down" -> "rpc"
      [] engine = "unauthorized"    -> "401"
      [] engine = "wrongChain"      -> "mismatch"
      [] OTHER                      -> "nil"

\* Variant: a passing chain-ID check does not store isConnected.
VerifyChainIDNoStore ==
    /\ pc = "verify"
    /\ IF ChainIDErr = "nil"
       THEN /\ pc' = AfterTry
            /\ UNCHANGED <<connected, edgeLogs, open>>
       ELSE /\ open' = open \ {current}
            /\ pc' = IF ChainIDErr = "401" THEN "closed401" ELSE "closed"
            /\ UNCHANGED <<connected, edgeLogs>>
    /\ UNCHANGED <<scheme, engine, ctxDone, current, role>>

\* VerifyChainID on the new client and the step of
\* setupExecutionClientConnection that follows it: on success mark the
\* connection up; on failure close s.Client (client.go:164), with
\* isConnected not yet touched.
VerifyChainID ==
    /\ pc = "verify"
    /\ IF ChainIDErr = "nil"
       THEN /\ connected' = TRUE
            /\ edgeLogs' = 0
            /\ pc' = AfterTry
            /\ UNCHANGED open
       ELSE /\ open' = open \ {current}
            /\ pc' = IF ChainIDErr = "401" THEN "closed401" ELSE "closed"
            /\ UNCHANGED <<connected, edgeLogs>>
    /\ UNCHANGED <<scheme, engine, ctxDone, current, role>>

\* Variant: the failed check leaves isConnected as it was.
ChainIDFailedKeepsFlag ==
    /\ pc \in {"closed401", "closed"}
    /\ edgeLogs' = IF pc = "closed" /\ connected THEN Logged(edgeLogs) ELSE edgeLogs
    /\ pc' = AfterTry
    /\ UNCHANGED <<scheme, engine, ctxDone, connected, current, open, role>>

\* The rest of the failed check (client.go:165-175): a 401 is logged on its
\* own line, another error only while isConnected still says the
\* connection was up; then the connection is marked down.
ChainIDFailed ==
    /\ pc \in {"closed401", "closed"}
    /\ edgeLogs' = IF pc = "closed" /\ connected THEN Logged(edgeLogs) ELSE edgeLogs
    /\ connected' = FALSE
    /\ pc' = AfterTry
    /\ UNCHANGED <<scheme, engine, ctxDone, current, open, role>>

\* Start's loop condition: retry while not connected, else go on.
StartLoop ==
    /\ pc = "loop"
    /\ pc' = IF connected THEN "exchange" ELSE "try"
    /\ UNCHANGED <<scheme, engine, ctxDone, connected, current, open, role,
                   edgeLogs>>

\* ExchangeCapabilities (its error is only logged), the spawn of
\* jwtRefreshLoop, and Start's return: the goroutine that goes on is the
\* refresh loop.
ExchangeAndRefresh ==
    /\ pc = "exchange"
    /\ pc' = "try"
    /\ role' = "refresh"
    /\ UNCHANGED <<scheme, engine, ctxDone, connected, current, open,
                   edgeLogs>>

\* The execution client goes down, comes up, or changes its configuration.
EngineChanges ==
    /\ engine' \in EngineStates \ {engine}
    /\ UNCHANGED <<scheme, ctxDone, connected, current, open, pc, role,
                   edgeLogs>>

\* The node shuts down and cancels the context given to Start.
Cancel ==
    /\ ~ctxDone
    /\ ctxDone' = TRUE
    /\ UNCHANGED <<scheme, engine, connected, current, open, pc, role,
                   edgeLogs>>

Next ==
    \/ TryConnection
    \/ Dial
    \/ VerifyChainID
    \/ ChainIDFailed
    \/ StartLoop
    \/ ExchangeAndRefresh
    \/ EngineChanges
    \/ Cancel

\* The goroutine is scheduled and its timers fire; the engine and the
\* node's shutdown are not obliged to happen.
Fairness ==
    /\ WF_vars(TryConnection)
    /\ WF_vars(Dial)
    /\ WF_vars(VerifyChainID)
    /\ WF_vars(ChainIDFailed)
    /\ WF_vars(StartLoop)
    /\ WF_vars(ExchangeAndRefresh)

Spec == Init /\ [][Next]_vars /\ Fairness

Started == role = "refresh"

-----------------------------------------------------------------------------
(* Properties.                                                             *)

\* Spec section 4.1: a failed dial or chain-ID check is logged once per
\* outage, not on every retry: setupExecutionClientConnection logs a
\* non-401 failure only while isConnected is still true.
DialFailureLoggedOnce == edgeLogs <= 1

\* Between connection attempts (while the goroutine waits on its timer, at
\* Start's loop test of isConnected, and before ExchangeCapabilities),
\* isConnected true means s.Client is a client that has not been closed.
\* Inside a failed attempt the flag is still true after the close at
\* client.go:164, and the log test at line 168 reads it there, so the
\* failure path must clear it (line 174) before the attempt ends.
HealthyClientOpen ==
    pc \in {"try", "loop", "exchange"} /\ connected => current \in open

\* Every dialled RPC client but the one in s.Client is closed: a dial that
\* replaces s.Client does not leak the previous client's connection.
AtMostOneOpenClient == open \subseteq {current}

\* Start returns (and the refresh loop begins) whenever the configured
\* scheme is a known one and the engine eventually stays up, provided the
\* node is not shut down first.
StartsWhenEngineUp ==
    (scheme \in HttpSchemes \cup IpcSchemes /\ <>[](engine = "up") /\ []~ctxDone)
      => <>Started

\* The engine client marks the connection down (isConnected false) for
\* good once the engine stays down, unauthorized or on another chain,
\* while the node runs: the JWT refresh loop re-dials and re-verifies the
\* chain ID on every interval, and every failure path of
\* setupExecutionClientConnection clears isConnected.
DisconnectDetected ==
    ([]~ctxDone /\ <>[](engine # "up")) => <>[]~connected
=============================================================================
