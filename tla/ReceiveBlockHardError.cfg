CONSTANTS
    PayloadVersions = {"Capella", "Deneb", "Bellatrix"}

SPECIFICATION Spec

INVARIANT
    HardErrorsPropagated
