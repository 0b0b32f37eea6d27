CONSTANTS
    Metrics <- Served
    Stores <- StoreStates
    bounds <- Bounds
    Aggs <- AllAggs
    Nesting <- nesting
    MaxFaults = 2
SPECIFICATION Spec
INVARIANTS TypeOK ScrapeShowsOneState
PROPERTIES CacheNeverGoesBack CatchesUp StopsWhenCancelled
CHECK_DEADLOCK FALSE
