CONSTANTS
    p1 = p1
    p2 = p2
    g = g
    h1 = h1
    Proposers <- MCProposers
    Slots <- MCSlots
    Hashes <- MCHashes
    Genesis = g
    PayloadIds <- MCPayloadIds

SPECIFICATION Spec

INVARIANT
    AtMostOneBuildPerKey
