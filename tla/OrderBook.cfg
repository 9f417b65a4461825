\* Three batches of two updates to four assets, with every search after every batch.
CONSTANTS
    MaxInt64 = 1000
    MaxBasisPoints = 10000
    Offers <- MCOffers
    Pools <- MCPools
    MaxBatch = 2
    MaxLedger = 3
    Queries <- MCQueries
SPECIFICATION Spec
INVARIANTS
    Consistent
    PathsAreReal
    BestPathFound
PROPERTY KeepsOffers
CHECK_DEADLOCK FALSE
