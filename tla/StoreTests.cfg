SPECIFICATION Spec
CONSTANTS
    t1 = t1
    t2 = t2
    FakeConfig = FakeConfig
    ServiceClass = ServiceClass
    ServicePlan = ServicePlan
    MissingType = MissingType
    invalid = invalid
    missing = missing
    example = example
    Label = Label
    Old = Old
    New = New
    NoNamespace = NoNamespace
    NoObject = NoObject
    NoMessage = NoMessage
    NoHome = NoHome
    NoName = NoName
    Types = {FakeConfig, ServiceClass, ServicePlan, MissingType}
    Names <- TestNames
    Descriptor = {FakeConfig, ServiceClass, ServicePlan}
    Strict = {FakeConfig}
    Pairs = {Old, New}
    Annotations = {Label}
    Homes = {}
    MapTests = {t1}
    TypeTests = {t2}
    N = 3
INVARIANTS TestsPass TestsAreIsolated
CHECK_DEADLOCK FALSE
