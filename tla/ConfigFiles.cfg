SPECIFICATION FilesSpec
CONSTANTS
    fake = fake
    class = class
    n1 = n1
    a0 = a0
    a1 = a1
    p1 = p1
    p2 = p2
    h1 = h1
    c1 = c1
    Types = {fake, class}
    Names = {n1}
    Descriptor = {fake}
    Strict = {fake}
    Pairs = {p1, p2}
    Annotations = {a0, a1}
    Homes = {h1}
    NewEntries <- NoEntries
    OtherWrites <- SomeWrites
    HandWritten <- SomeFiles
    Callers = {c1}
    Slots = {}
    NoObject = NoObject
    NoMessage = NoMessage
    NoHome = NoHome
    NoName = NoName
    NoEntry = NoEntry
    NoRequest = NoRequest
    NoReply = NoReply
    NoResult = NoResult
    NoFile = NoFile
    MaxRev = 3
    MaxStale = 1
INVARIANTS FilesTypeOK FilesRoundTrip ClientWritesDecode
PROPERTY UpdatesKeepOthersWork
