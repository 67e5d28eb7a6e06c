SPECIFICATION Spec
CONSTANTS
    p1 = p1
    p2 = p2
    classes = classes
    plans = plans
    Processes = {p1, p2}
    CRDs = {classes, plans}
    Descriptor <- BrokerConfigTypes
    MaxFaults = 3
INVARIANTS TypeOK NilMeansEstablished RegisteringAgainIsHarmless DeregisterTriesAll
PROPERTY CallsReturn
