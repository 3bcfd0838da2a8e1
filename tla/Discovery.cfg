SPECIFICATION Spec
CONSTANTS
    Key <- MCKey
    Self <- MCSelf
    None = None
    Limit = 3
    MaxChanges = 2
INVARIANTS
    TypeOK
    NearestServed
    AnswersWithinName
