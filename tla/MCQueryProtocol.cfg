CONSTANTS
    runs = runs
    ownership = ownership
    aggregate = aggregate
    Subject = {runs, ownership, aggregate}
    kind <- HandlerKinds
    Query = {q1, q2}
    NoQuery = NoQuery
    Row = {r1, r2}
    MaxWrites = 1
    MaxFaults = 1
SPECIFICATION Spec
INVARIANTS TypeOK AnswersEndOnce NothingMissing
PROPERTIES ImplementsPromise TerminatorArrives
CHECK_DEADLOCK FALSE
