----------------------------- MODULE WireFields -----------------------------
(***************************************************************************)
(* The vocabulary of the message schemas.  A generated message class       *)
(* (app/src/types/generated) is one record: its name and, in the order in  *)
(* which serializeBinaryToWriter writes them, its fields.  A field is what *)
(* the generated writer, reader and accessors of one field number have in  *)
(* common: the number, the method suffix (writeString, readString: kind    *)
(* "string") or the class of a nested message, how presence is decided and *)
(* the oneof group.                                                        *)
(***************************************************************************)
EXTENDS Naturals, Sequences

\* Kinds are named after the methods of jspb.BinaryWriter and BinaryReader;
\* any other kind is the name of a message class.
Message(name, fields) == [name |-> name, fields |-> fields]

Cardinalities == {"implicit", "explicit", "repeated", "packed", "map"}

Field(n, kind, card, group) == [n |-> n, key |-> "", kind |-> kind, card |-> card, group |-> group]

\* setProto3...Field: the default value means absent.
F(n, kind) == Field(n, kind, "implicit", 0)

\* setField, setWrapperField: written when it is not null.
E(n, kind) == Field(n, kind, "explicit", 0)

\* setOneofField, setOneofWrapperField: a member of oneofGroups_[g - 1].
O(n, kind, g) == Field(n, kind, "explicit", g)

\* writeRepeated... and writePacked...
R(n, kind) == Field(n, kind, "repeated", 0)
P(n, kind) == Field(n, kind, "packed", 0)

\* jspb.Map, with the kind of its keys.
M(n, key, kind) == [Field(n, kind, "map", 0) EXCEPT !.key = key]
=============================================================================
