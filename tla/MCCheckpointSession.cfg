SPECIFICATION Spec
CONSTANTS
    Session = {s1, s2}
    State <- MCState
    Missing = Missing
    Empty = Empty
    Garbled = Garbled
SYMMETRY Symmetry
INVARIANTS
    TypeOK
    NoStaleAnswer
    RecordedAnswerHolds
PROPERTY AskedBeforeFailingOpen
