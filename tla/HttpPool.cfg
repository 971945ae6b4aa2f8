\* Requests of an old and a new configuration share one slot; catalogs retire either, and the gateway is closed.
SPECIFICATION Spec
CONSTANTS
    q1 = q1  q2 = q2  q3 = q3  old = old  new = new
    Requests = {q1, q2, q3}
    Configs = {old, new}
    Slots = 1
    None = none
    MaxTurns = 2
    MayLeave = {q1, q2, q3}
CONSTRAINT Searched
SYMMETRY Alike
INVARIANTS SlotsRespected SessionsKept
