---------------------------- MODULE MCConfigFiles ----------------------------
(* The instance of ConfigFiles for TLC.                                    *)
EXTENDS ConfigFiles

CONSTANTS c1, fake, class, n1, a0, a1, p1, p2, h1

Written(typ, msg, body) ==
    [typ |-> typ, name |-> n1, home |-> h1, ann |-> a0, rev |-> 0,
     json |-> [msg |-> msg, body |-> body]]

(* Files of a known type and of an unknown one, with the message of        *)
(* another type, and empty ones.                                           *)
SomeFiles == {Written(fake, fake, {p1}), Written(fake, class, {p1}),
              Written(fake, NoMessage, {}), Written(class, class, {p1})}

External(typ, ann, msg, body) ==
    [key |-> <<typ, n1>>, obj |-> [ann |-> ann, json |-> [msg |-> msg, body |-> body]]]

SomeWrites == {External(fake, a1, NoMessage, {}),
               [key |-> <<fake, n1>>, obj |-> NoObject]}

NoEntries == {}
=============================================================================
