CONSTANTS
    PayloadVersions = {"Capella", "Deneb", "Bellatrix"}

SPECIFICATION Spec

INVARIANTS
    TypeOK
    NilMeansFullyValid
    ValidFlagOnlyFromValid
    SyncingSurfaced

PROPERTIES
    EveryCallReturns
