CONSTANTS
    Pubkeys = {k1, k2}
    Amounts = {1, 3}
    MaxEffectiveBalance = 2
    MaxWithdrawalsPerPayload = 1
    MaxValidatorsPerWithdrawalsSweep = 1
    MaxDepositsPerBlock = 2
    MaxDeposits = 3
    GenesisPubkey = k1
    GenesisAmount = 3
SPECIFICATION Spec
INVARIANT StakeBacked
