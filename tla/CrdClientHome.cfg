SPECIFICATION Spec
CONSTANTS
    fake = fake
    class = class
    other = other
    n1 = n1
    n2 = n2
    a0 = a0
    a1 = a1
    p1 = p1
    p2 = p2
    h1 = h1
    c1 = c1
    c2 = c2
    s1 = s1
    Types = {fake}
    Names = {n1}
    Descriptor = {fake}
    Strict = {fake}
    Pairs = {p1, p2}
    Annotations = {a0, a1}
    Homes = {h1}
    NewEntries <- HomeEntries
    OtherWrites <- NoWrites
    Callers = {c1, c2}
    Slots = {s1}
    NoObject = NoObject
    NoMessage = NoMessage
    NoHome = NoHome
    NoName = NoName
    NoEntry = NoEntry
    NoRequest = NoRequest
    NoReply = NoReply
    NoResult = NoResult
    Absent = Absent
    Opaque = Opaque
    NoMutation = NoMutation
    MaxRev = 3
    MaxStale = 1
INVARIANT SameRevisionSameEntry
