SPECIFICATION Spec
CONSTANTS
    Session = {s1, s2}
    State <- MCState
    Missing = Missing
    Empty = Empty
    Garbled = Garbled
INVARIANT MismatchMeansUnanswered
