--------------------------- MODULE MCBrokerCatalog ---------------------------
(* Instances of BrokerCatalog for TLC. *)
EXTENDS BrokerCatalog

CONSTANTS h1, n1, n2, t1, t2

Class(n, t)   == [key |-> <<ServiceClass, n>>, obj |-> [text |-> t, services |-> {}]]
PlanFor(n, t, cs) == [key |-> <<ServicePlan, n>>,
                      obj |-> [text |-> t, services |-> {<<ServiceClass, c>> : c \in cs}]]
Nothing(typ, n) == [key |-> <<typ, n>>, obj |-> NoObject]
Bad(typ, n)     == [key |-> <<typ, n>>, obj |-> Malformed]

(* Two classes, a plan that moves from both to one, a plan of one class; a *)
(* class is deleted, a class and a plan are overwritten with what does not *)
(* decode.                                                                 *)
Changes == {Class(n1, t1), Class(n2, t1), PlanFor(n1, t1, {n1, n2}), PlanFor(n2, t2, {n2}),
            PlanFor(n1, t2, {n1}), Nothing(ServiceClass, n1),
            Bad(ServiceClass, n2), Bad(ServicePlan, n2)}

(* A class whose description has a percent sign.                           *)
WithPercent == {Class(n1, t1), PlanFor(n1, t2, {n1})}
=============================================================================
