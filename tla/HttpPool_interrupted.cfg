\* A retirement may cancel a lease that is already established.
SPECIFICATION Spec
CONSTANTS
    q1 = q1  q2 = q2  q3 = q3  old = old  new = new
    Requests = {q1}
    Configs = {old}
    Slots = 1
    None = none
    MaxTurns = 1
    MayLeave = {}
INVARIANTS EstablishedUninterrupted
