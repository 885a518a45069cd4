CONSTANTS
    m1 = m1
    m2 = m2
    w1 = w1
    w2 = w2
    w3 = w3
    Msg = {m1, m2}
    Worker = {w1, w2, w3}
    NoMsg = NoMsg
    Poison = {}
    BatchSize = 2
    StaleAfter = 300
    AttemptCap = 5
    TimeSteps = {150}
SPECIFICATION CrewSpec
SYMMETRY WorkerSymmetry
INVARIANTS
    TypeOK
    LeaseExclusive
    SnapshotIsCurrent
    OnceUnlessDisturbed
    SentWasDelivered
PROPERTIES
    SentIsFinal
    ImplementsDelivery
