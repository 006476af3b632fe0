\* Two hooks and a launcher, a ring of two spans, batches of two events.
CONSTANTS
    Jobs <- MCJobs
    Recent = 2
    BatchSize = 2
    MaxPolls = 1
SPECIFICATION Spec
INVARIANTS
    TraceAsWritten
    CompleteMeansStored
    StackPlaced
    Leftovers
    DisasmKept
PROPERTY
    RunEnds
