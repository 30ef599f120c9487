SPECIFICATION FairSpec
CONSTANTS
    Procs = {p1, p2}
    Paths = {"default", "other"}
    Default = "default"
    Versions <- MCVersions
    Valid <- MCValid
    PlanOf <- MCPlanOf
    FirstApml <- MCFirstApml
    Own = Own
    Absent = Absent
    Empty = Empty
    Broken = Broken
    None = None
    Script <- MCScript
    MaxStarts = 2
    MaxEdits = 1
INVARIANT PairIntact
INVARIANT StopsInOrder
INVARIANT BackupFaithful
PROPERTY EveryStartSettles
CHECK_DEADLOCK FALSE
