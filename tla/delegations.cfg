CONSTANTS
    Agent = {a1, a2}
    RestApi = RestApi
    Id = {d1}
    MaxObjects = 2
    MaxPublishing = 1
    Unstorable = {1}
SPECIFICATION Spec
INVARIANTS
    TypeOK
    LiveWasOffered
    DelegatorUpToDate
PROPERTIES
    FinishedStaysFinished
    CalledOffStaysOff
    ResultIsReported
