----------------------------- MODULE MCCrdClient -----------------------------
(* Instances of CrdClient for TLC. *)
EXTENDS CrdClientStore, TLC

CONSTANTS c1, c2, s1, fake, class, other, n1, n2, a0, a1, p1, p2, h1

Entry(typ, home, msg, body) ==
    [typ |-> typ, name |-> n1, home |-> home, ann |-> a0, rev |-> 0,
     spec |-> [msg |-> msg, body |-> body]]

External(typ, name, ann, msg, body) ==
    [key |-> <<typ, name>>, obj |-> [ann |-> ann, json |-> [msg |-> msg, body |-> body]]]

Deleted(typ) == [key |-> <<typ, n1>>, obj |-> NoObject]

(* Callers race on one object that kubectl annotates, edits and deletes.   *)
RaceEntries == {Entry(fake, NoHome, fake, {p1})}

RaceWrites == {External(fake, n1, a1, fake, {p1}), Deleted(fake)}

(* Three types, one unknown to the descriptor of the client, an entry that *)
(* is not valid, and an object of another name that does not decode.       *)
TypeEntries == {Entry(fake, NoHome, fake, {p1}), Entry(fake, NoHome, fake, {}),
                Entry(class, NoHome, class, {}), Entry(other, NoHome, other, {p1})}

TypeWrites == {External(fake, n2, a1, NoMessage, {p2}), External(class, n1, a1, NoMessage, {})}

(* A message stored under a type that is not its own and that has no       *)
(* validation of its own, like the types of the broker.                    *)
MixedEntries == {Entry(class, NoHome, fake, {p1})}

(* An entry that names the namespace of the control plane.                 *)
HomeEntries == {Entry(fake, h1, fake, {p1})}

NoWrites == {}

CallerSymmetry == Permutations({c1, c2})
=============================================================================
