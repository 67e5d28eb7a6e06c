SPECIFICATION Spec
CONSTANTS
    p1 = p1
    p2 = p2
    classes = classes
    plans = plans
    Processes = {p1}
    CRDs = {classes, plans}
    Descriptor <- BrokerConfigTypes
    MaxFaults = 0
INVARIANT WaitsForEstablishment
