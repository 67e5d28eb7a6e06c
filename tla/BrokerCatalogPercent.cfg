SPECIFICATION Spec
CONSTANTS
    h1 = h1
    n1 = n1
    n2 = n2
    t1 = t1
    t2 = t2
    ServiceClass = ServiceClass
    ServicePlan = ServicePlan
    Types = {ServiceClass, ServicePlan}
    Names = {n1, n2}
    NoObject = NoObject
    Malformed = Malformed
    Garbled = Garbled
    NoResponse = NoResponse
    Lost = Lost
    Texts = {t1, t2}
    PercentTexts = {t1}
    Handlers = {h1}
    StoreWrites <- WithPercent
    MaxRev = 2
    MaxStale = 0
INVARIANT BodyIsCatalog
