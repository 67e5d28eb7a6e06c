SPECIFICATION Spec
CONSTANTS
    g1 = g1
    g2 = g2
    m1 = m1
    m2 = m2
    p1 = p1
    p2 = p2
    g3 = g3
    fake = fake
    class = class
    NoMeta = NoMeta
    Nil = Nil
    Goroutines = {g1, g2, g3}
    Types = {fake, class}
    Values <- TwoValues
    MaxItems = 2
SYMMETRY Symmetry
INVARIANTS TypeOK SentIsEntry ReturnedIsReply NothingIsShared
