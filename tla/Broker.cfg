SPECIFICATION BrokerSpec
CONSTANTS
    h1 = h1
    n1 = n1
    n2 = n2
    t1 = t1
    t2 = t2
    ServiceClass = ServiceClass
    ServicePlan = ServicePlan
    Types = {ServiceClass, ServicePlan}
    Names = {n1, n2}
    NoObject = NoObject
    Malformed = Malformed
    Garbled = Garbled
    NoResponse = NoResponse
    Lost = Lost
    Texts = {t1, t2}
    PercentTexts = {}
    Handlers = {h1}
    Builds <- TwoBuilds
    KubeConfigs = {k1}
    k1 = k1
    NoFile = NoFile
    EmptyFile = EmptyFile
    BadFile = BadFile
    InCluster = InCluster
    NoConfig = NoConfig
    StoreWrites <- Changes
    MaxRev = 4
    MaxStale = 1
INVARIANTS TypeOK ProcessTypeOK EachListIsOneState WhatStaysIsServed UsesNamedConfig
PROPERTIES RequestsAreAnswered LaunchEnds
