\* A symbol that loses and loses.
CONSTANTS
    a = a
    b = b
    Symbols = {a, b}
    Loop = loop
    Operator = operator
    Pass = pass
    Environments <- Losing
SPECIFICATION Spec
INVARIANT
    GivesUp
