CONSTANTS
    Row <- Rows
    FirstRows <- Stored
    Known <- Fields
    DefaultSize = 2
    Request <- Requests
    MaxWrites = 2
    MaxOffset = 6
    Query <- AllQueries
    Queries <- queriesOf
    Hits <- hitsOf
    Aggregations <- aggregationsOf
    Filter <- AllFilters
    Depth <- depth
    Evaluate <- EvaluateAggs
    Aggs <- AllAggs
    Nesting <- nesting
SPECIFICATION Spec
INVARIANTS TypeOK AnswersAreOfTheirTime AnswersAreExact PagesSkipNothing
PROPERTIES StopsWhenClientsKeepUp
CHECK_DEADLOCK FALSE
