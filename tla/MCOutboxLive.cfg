CONSTANTS
    m1 = m1
    m2 = m2
    w1 = w1
    w2 = w2
    Msg = {m1, m2}
    Worker = {w1, w2}
    NoMsg = NoMsg
    Poison = {m2}
    BatchSize = 2
    StaleAfter = 300
    AttemptCap = 1
    TimeSteps = {150}
SPECIFICATION LiveSpec
INVARIANTS
  NoOvertaking
PROPERTIES
  EveryRowIsSettled
