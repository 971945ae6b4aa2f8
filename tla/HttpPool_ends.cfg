\* Retired pools are forgotten, requests end and a shutdown ends.
SPECIFICATION FairSpec
CONSTANTS
    q1 = q1  q2 = q2  q3 = q3  old = old  new = new
    Requests = {q1, q2}
    Configs = {old}
    Slots = 1
    None = none
    MaxTurns = 1
    MayLeave = {}
PROPERTIES PoolEnds
