------------------------- MODULE StakingWithdrawals -------------------------
(***************************************************************************)
(* Deposits and withdrawals of the state transition                        *)
(* (src/mod/state-transition/pkg/core/state_processor_staking.go) and the  *)
(* validator updates handed to consensus (state_processor_committee.go).    *)
(* A block first runs processWithdrawals against its execution payload,    *)
(* then processOperations over the deposits it carries.  The transition    *)
(* runs on a copy of the beacon state: a block whose processing returns an *)
(* error is rejected and leaves the state as it was.                       *)
(* Balances are in units of EffectiveBalanceIncrement.                     *)
(***************************************************************************)
EXTENDS Naturals, Sequences, FiniteSets

CONSTANTS
    Pubkeys,               \* validator public keys deposits may name
    Amounts,               \* deposit amounts
    MaxEffectiveBalance,   \* cs.MaxEffectiveBalance()
    MaxWithdrawalsPerPayload,
    MaxValidatorsPerWithdrawalsSweep,
    MaxDepositsPerBlock,   \* the most deposits a block carries
    MaxDeposits,           \* deposits made to the deposit contract
    GenesisPubkey,         \* the genesis validator's key
    GenesisAmount          \* and deposit

ASSUME /\ Amounts \subseteq Nat \ {0}
       /\ MaxWithdrawalsPerPayload \in Nat \ {0}
       /\ MaxValidatorsPerWithdrawalsSweep \in Nat \ {0}
       /\ GenesisPubkey \in Pubkeys /\ GenesisAmount \in Amounts

MinNat(a, b) == IF a < b THEN a ELSE b

\* A deposit of the deposit contract's log: its index, key, amount, and
\* whether its signature verifies under VerifyCreateValidator.
Deposits == [index : Nat, pubkey : Pubkeys, amount : Amounts, sigOk : BOOLEAN]

VARIABLES
    st,     \* the beacon state: validators, balances, indices, error flag
    logs    \* the deposit contract's log, in index order

vars == <<st, logs>>

BalanceBound == MaxEffectiveBalance + MaxDeposits * (IF Amounts = {} THEN 0
                    ELSE CHOOSE a \in Amounts : \A b \in Amounts : b <= a)

TypeOK ==
    /\ st.vals \in Seq([pubkey : Pubkeys, eff : 0..MaxEffectiveBalance])
    /\ st.bals \in Seq(0..BalanceBound)
    /\ Len(st.vals) = Len(st.bals) /\ Len(st.vals) > 0
    /\ st.depIdx \in Nat
    /\ st.nwi \in Nat
    /\ st.nwvi \in 0..(Len(st.vals) - 1)
    /\ st.err = FALSE
    /\ logs \in Seq(Deposits) /\ Len(logs) <= MaxDeposits

\* Validator index i (0-based, math.ValidatorIndex) and its balance.
Val(s, i) == s.vals[i + 1]
Bal(s, i) == s.bals[i + 1]

\* A validator with withdrawal credentials at the maximum effective balance
\* and excess balance: partially withdrawable.  The code has no exits, so
\* no validator is ever fully withdrawable.
PartiallyWithdrawable(s, i) ==
    Val(s, i).eff = MaxEffectiveBalance /\ Bal(s, i) > MaxEffectiveBalance

\* BeaconState.ExpectedWithdrawals: sweep at most
\* MaxValidatorsPerWithdrawalsSweep validators from nwvi, emitting a
\* withdrawal of the excess of each partially withdrawable one, numbered
\* from nwi, until MaxWithdrawalsPerPayload are found.
RECURSIVE Sweep(_, _, _, _, _)
Sweep(s, vi, wi, n, acc) ==
    IF n = 0 \/ Len(acc) = MaxWithdrawalsPerPayload THEN acc
    ELSE LET w == IF PartiallyWithdrawable(s, vi)
                  THEN <<[index |-> wi, validator |-> vi,
                          amount |-> Bal(s, vi) - MaxEffectiveBalance]>>
                  ELSE <<>>
         IN Sweep(s, (vi + 1) % Len(s.vals), wi + Len(w), n - 1, acc \o w)

ExpectedWithdrawals(s) ==
    Sweep(s, s.nwvi, s.nwi,
          MinNat(Len(s.vals), MaxValidatorsPerWithdrawalsSweep), <<>>)

\* Variant: the sweep does not advance after a payload without a full set
\* of withdrawals.
ProcessWithdrawalsNoAdvance(s) ==
    LET exp == ExpectedWithdrawals(s)
        n   == Len(exp)
        RECURSIVE Decrease(_, _)
        Decrease(b, k) ==
            IF k = 0 THEN b
            ELSE Decrease([b EXCEPT ![exp[k].validator + 1] =
                             IF @ > exp[k].amount THEN @ - exp[k].amount ELSE 0], k - 1)
    IN [s EXCEPT !.bals = Decrease(@, n),
                 !.nwi  = IF n # 0 THEN exp[n].index + 1 ELSE @,
                 !.nwvi = IF n = MaxWithdrawalsPerPayload
                          THEN (exp[n].index + 1) % Len(s.vals)
                          ELSE @]

\* processWithdrawals with the payload's withdrawals equal to the expected
\* ones (a payload that differs in length or in an entry is an error, and
\* the block is rejected).  DecreaseBalance each withdrawal's validator,
\* advance the withdrawal index, then the sweep: after a full set it starts
\* at (Index + 1) % totalValidators of the last withdrawal, where Index is
\* the withdrawal's own index; otherwise it advances by the sweep length.
ProcessWithdrawals(s) ==
    LET exp == ExpectedWithdrawals(s)
        n   == Len(exp)
        RECURSIVE Decrease(_, _)
        Decrease(b, k) ==
            IF k = 0 THEN b
            ELSE Decrease([b EXCEPT ![exp[k].validator + 1] =
                             IF @ > exp[k].amount THEN @ - exp[k].amount ELSE 0], k - 1)
    IN [s EXCEPT !.bals = Decrease(@, n),
                 !.nwi  = IF n # 0 THEN exp[n].index + 1 ELSE @,
                 !.nwvi = IF n = MaxWithdrawalsPerPayload
                          THEN (exp[n].index + 1) % Len(s.vals)
                          ELSE (@ + MaxValidatorsPerWithdrawalsSweep) % Len(s.vals)]

\* Variant: the new validator's effective balance is not capped.
AddValidatorToRegistryUncapped(s, dep) ==
    [s EXCEPT !.vals = Append(@, [pubkey |-> dep.pubkey, eff |-> dep.amount]),
              !.bals = Append(@, dep.amount)]

\* addValidatorToRegistry: NewValidatorFromDeposit (effective balance the
\* amount rounded down to the increment, capped), AddValidator, then
\* IncreaseBalance by the amount.
AddValidatorToRegistry(s, dep) ==
    [s EXCEPT !.vals = Append(@, [pubkey |-> dep.pubkey,
                                  eff |-> MinNat(dep.amount, MaxEffectiveBalance)]),
              !.bals = Append(@, dep.amount)]

\* createValidator: the deposit's signature over the fork data must verify.
CreateValidator(s, dep) ==
    IF dep.sigOk THEN AddValidatorToRegistry(s, dep) ELSE [s EXCEPT !.err = TRUE]

\* Variant: the lookup's error check inverted.
ProcessDepositInverted(s, dep) ==
    LET known == {i \in 1..Len(s.vals) : s.vals[i].pubkey = dep.pubkey}
    IN IF known = {} THEN [s EXCEPT !.err = TRUE]
       ELSE CreateValidator(s, dep)

\* processDeposit: a deposit for a known pubkey raises that validator's
\* EffectiveBalance, capped, and leaves its balance alone; a deposit for a
\* new pubkey creates a validator.
ProcessDeposit(s, dep) ==
    LET known == {i \in 1..Len(s.vals) : s.vals[i].pubkey = dep.pubkey}
    IN IF known # {}
       THEN LET i == CHOOSE i \in known : TRUE
            IN [s EXCEPT !.vals[i].eff = MinNat(@ + dep.amount, MaxEffectiveBalance)]
       ELSE CreateValidator(s, dep)

\* processDeposits: each deposit in order, then SetEth1DepositIndex to its
\* index; the first error ends the loop.
RECURSIVE ProcessDeposits(_, _)
ProcessDeposits(s, deps) ==
    IF deps = <<>> \/ s.err THEN s
    ELSE LET s1 == ProcessDeposit(s, Head(deps))
         IN IF s1.err THEN s1
            ELSE ProcessDeposits([s1 EXCEPT !.depIdx = Head(deps).index], Tail(deps))

\* processOperations: the deposit count it computes is discarded (its check
\* is commented out), so it processes whatever deposits the block carries.
ProcessOperations(s, deps) == ProcessDeposits(s, deps)

\* processSyncCommitteeUpdates: one update per validator, with its
\* effective balance as its voting power.
ValidatorUpdates(s) ==
    {[pubkey |-> s.vals[i].pubkey, power |-> s.vals[i].eff] : i \in 1..Len(s.vals)}

\* The deposits a block may carry: any run of the contract's log of at most
\* MaxDepositsPerBlock entries; nothing ties them to st.depIdx.
BlockDeposits ==
    UNION {{SubSeq(logs, k, k + l - 1) :
               l \in 0..MinNat(MaxDepositsPerBlock, Len(logs) - k + 1)} :
           k \in 1..(Len(logs) + 1)}

Init ==
    /\ st = [vals  |-> <<[pubkey |-> GenesisPubkey,
                          eff |-> MinNat(GenesisAmount, MaxEffectiveBalance)]>>,
             bals  |-> <<GenesisAmount>>,
             depIdx |-> 0, nwi |-> 0, nwvi |-> 0, err |-> FALSE]
    /\ logs = <<>>

\* A deposit is made to the deposit contract.
MakeDeposit ==
    /\ Len(logs) < MaxDeposits
    /\ \E pk \in Pubkeys, a \in Amounts, ok \in BOOLEAN :
         logs' = Append(logs, [index |-> Len(logs), pubkey |-> pk, amount |-> a, sigOk |-> ok])
    /\ UNCHANGED st

\* A block is finalized: withdrawals, then operations; a block whose
\* processing fails is rejected.
ProcessBlock(deps) ==
    LET s2 == ProcessOperations(ProcessWithdrawals(st), deps)
    IN /\ ~s2.err
       /\ st' = s2
       /\ UNCHANGED logs

Next ==
    \/ MakeDeposit
    \/ \E deps \in BlockDeposits : ProcessBlock(deps)

\* Blocks keep being finalized: CometBFT keeps proposing, and a block
\* without deposits is always valid.
Spec == Init /\ [][Next]_vars /\ WF_vars(\E deps \in BlockDeposits : ProcessBlock(deps))

-----------------------------------------------------------------------------
(* Properties.                                                             *)

ValidatorIndices == 0..(Cardinality(Pubkeys) - 1)

\* The registry never holds two validators with one pubkey, whatever runs
\* of deposits blocks carry: a second deposit for a key, in the same block
\* or a later one, finds the validator ValidatorIndexByPubkey returns and
\* tops it up.
RegistryPubkeysUnique ==
    \A i, j \in 1..Len(st.vals) : i # j => st.vals[i].pubkey # st.vals[j].pubkey

\* A validator's balance above the maximum effective balance is eventually
\* withdrawn: the sweep of processWithdrawals, restarted after a full set
\* of withdrawals and advanced after a partial one, reaches every
\* validator.
HasExcess(i) == i < Len(st.vals) /\ Bal(st, i) > MaxEffectiveBalance

ExcessEventuallyWithdrawn ==
    \A i \in ValidatorIndices : HasExcess(i) ~> ~HasExcess(i)

\* The voting power handed to consensus (processSyncCommitteeUpdates, the
\* effective balance) of every validator is backed by its balance.
\* processDeposit's top-up raises EffectiveBalance and never the balance
\* (staking.go:118-120), so a validator topped up holds power it has not
\* staked.
StakeBacked ==
    \A u \in ValidatorUpdates(st) :
        \A i \in 1..Len(st.vals) : st.vals[i].pubkey = u.pubkey => u.power <= st.bals[i]
=============================================================================
