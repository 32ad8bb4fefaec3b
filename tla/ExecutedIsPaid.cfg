CONSTANTS
    NumUnits = 2
    Handlers = {p1, p2}
SPECIFICATION UnitSpec
INVARIANTS ExecutedIsPaid
