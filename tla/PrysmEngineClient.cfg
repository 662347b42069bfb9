CONSTANTS
    Hashes = {h1, h2, h3}
    ZeroHash = zero
    MaxBatch = 3
    MaxChain = 4
    MaxTD = 3
    MaxHead = 3
    OptionalEngineMethods = FALSE
SPECIFICATION Spec
INVARIANT TypeOK
INVARIANT EngineVerbsMatchContract
INVARIANT TerminalBlockMatchesSpec
INVARIANT ReconstructionMatchesEngine
INVARIANT TransitionConfigurationChecked
INVARIANT HeaderIsRequested
