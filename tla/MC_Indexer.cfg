SPECIFICATION IndexSpec
CONSTANTS
    Transactions <- MCTransactions
    Blocks <- MCBlocks
    Genesis = "G"
    Parent <- MCParent
    Daa <- MCDaa
    Contents <- MCContents
    Accepted <- MCAccepted
    Manifests <- MCManifests
    MaxI64 = 20
INVARIANTS
    IndexTypeOK
    TotalsCurrent
    JournalUndoes
    IndexIsChain
    SavedWasLive
    SingletonsKept
