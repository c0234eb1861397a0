----------------------------- MODULE WireFormat -----------------------------
(***************************************************************************)
(* The generated message classes of the web app at work                    *)
(* (app/src/types/generated, used by app/src/api).  The page fills a       *)
(* request with setters and serializes it; the server answers with bytes   *)
(* that the generated reader takes apart, one field per turn of its loop.  *)
(*                                                                         *)
(* Values are numbers, 0 the default of their kind: the empty string, no   *)
(* bytes, false.  A nested message stands for its bytes.  An object is a   *)
(* function from the numbers of its set fields to their values: a number,  *)
(* a sequence for repeated fields, a function for maps.  What the fields   *)
(* of a message are comes from the schema modules.                         *)
(***************************************************************************)
EXTENDS WireFields, SequencesExt

CONSTANTS
    Messages,   \* schemas
    Safe,       \* Number.MAX_SAFE_INTEGER + 1, scaled down
    Unknown,    \* a field number of a newer server
    MaxCalls    \* bound: setters called, or fields sent by the server

\* Field numbers are unique, and the members of a oneof are singular fields.
ASSUME SchemaAssumption ==
    \A m \in Messages : \A i, j \in DOMAIN m.fields :
        /\ m.fields[i].n = m.fields[j].n => i = j
        /\ m.fields[i].card \in Cardinalities
        /\ m.fields[i].group # 0 => m.fields[i].card = "explicit"
ASSUME NumbersAssumption == Safe \in Nat /\ MaxCalls \in Nat

VARIABLES
    msg,    \* the message's schema
    phase,  \* "build", "sent", "received" by the server; "answered" by the server
    calls,  \* history: setters called, or fields the server has set
    obj,    \* the page's object
    wire,   \* fields on the wire, in order
    got     \* external: what the server reads

wireVars == <<msg, phase, calls, obj, wire, got>>

Fields == Range(msg.fields)
FieldOf(n) == CHOOSE f \in Fields : f.n = n
Known(n) == \E f \in Fields : f.n = n

Entry(n, v, packed) == [n |-> n, v |-> v, packed |-> packed]

WireInit ==
    /\ msg \in Messages
    /\ phase = "build"
    /\ calls = <<>> /\ obj = <<>> /\ wire = <<>> /\ got = <<>>
-----------------------------------------------------------------------------
(* Numbers *)

Numeric64 == {"uint64String", "int64String"}
JsNumbers == {"uint64", "int64"}

\* A 64-bit integer as a JavaScript number: above 2^53 the neighbours of
\* multiples of 2 are rounded, to the even mantissa.
JsNumber(v) ==
    IF v <= Safe \/ v % 2 = 0 THEN v
    ELSE IF (v - 1) % 4 = 0 THEN v - 1 ELSE v + 1

\* Reads 64-bit integers as numbers.
readValue_number(kind, v) == IF kind \in JsNumbers \cup Numeric64 THEN JsNumber(v) ELSE v

\* readUint64String and readInt64String keep every digit.
readValue(kind, v) == IF kind \in JsNumbers THEN JsNumber(v) ELSE v
-----------------------------------------------------------------------------
(* Objects *)

With(o, n, v) == [k \in DOMAIN o \cup {n} |-> IF k = n THEN v ELSE o[k]]
Without(o, S) == [k \in DOMAIN o \ S |-> o[k]]

\* The other members of a field's oneof.
Mates(f) == {g.n : g \in {h \in Fields : h.group = f.group /\ f.group # 0 /\ h.n # f.n}}

\* getField, getRepeatedField, getMapField with their defaults.
Get(o, f) == IF f.n \in DOMAIN o THEN o[f.n]
             ELSE IF f.card \in {"implicit", "explicit"} THEN 0 ELSE <<>>

\* setProto3...Field; setField, setWrapperField; setOneofField.
setSingular(o, f, v) ==
    IF f.card = "implicit" /\ v = 0 THEN Without(o, {f.n})
    ELSE With(Without(o, Mates(f)), f.n, v)

\* A setter; for maps jspb.Map.set of a key and a value.
setField(o, f, v) ==
    CASE f.card \in {"implicit", "explicit"} -> setSingular(o, f, v)
      [] f.card \in {"repeated", "packed"} -> With(o, f.n, v)
      [] f.card = "map" -> With(o, f.n, With(Get(o, f), v[1], v[2]))
-----------------------------------------------------------------------------
(* Writer *)

\* Writes explicit fields only when they are not the default.
writeField_truthy(o, f) ==
    LET v == Get(o, f) IN
    CASE f.card \in {"implicit", "explicit"} -> IF v # 0 THEN <<Entry(f.n, v, FALSE)>> ELSE <<>>
      [] f.card = "repeated" -> [i \in DOMAIN v |-> Entry(f.n, v[i], FALSE)]
      [] f.card = "packed" -> IF Len(v) > 0 THEN <<Entry(f.n, v, TRUE)>> ELSE <<>>
      [] f.card = "map" -> LET keys == SetToSeq(DOMAIN v) IN
                           [i \in DOMAIN keys |-> Entry(f.n, <<keys[i], v[keys[i]]>>, FALSE)]

\* The part of serializeBinaryToWriter for one field.
writeField(o, f) ==
    LET v == Get(o, f) IN
    CASE f.card = "implicit" -> IF v # 0 THEN <<Entry(f.n, v, FALSE)>> ELSE <<>>
      [] f.card = "explicit" -> IF f.n \in DOMAIN o THEN <<Entry(f.n, v, FALSE)>> ELSE <<>>
      [] f.card = "repeated" -> [i \in DOMAIN v |-> Entry(f.n, v[i], FALSE)]
      [] f.card = "packed" -> IF Len(v) > 0 THEN <<Entry(f.n, v, TRUE)>> ELSE <<>>
      [] f.card = "map" -> LET keys == SetToSeq(DOMAIN v) IN
                           [i \in DOMAIN keys |-> Entry(f.n, <<keys[i], v[keys[i]]>>, FALSE)]

serializeBinaryToWriter(o) ==
    FlattenSeq([i \in DOMAIN msg.fields |-> writeField(o, msg.fields[i])])
-----------------------------------------------------------------------------
(* Reader *)

\* One case of the reader's switch.
readField(o, f, e) ==
    CASE f.card \in {"implicit", "explicit"} -> setSingular(o, f, readValue(f.kind, e.v))
      [] f.card = "repeated" -> With(o, f.n, Append(Get(o, f), readValue(f.kind, e.v)))
      [] f.card = "packed" ->
            With(o, f.n, Get(o, f) \o IF e.packed THEN [i \in DOMAIN e.v |-> readValue(f.kind, e.v[i])]
                                      ELSE <<readValue(f.kind, e.v)>>)
      [] f.card = "map" ->
            With(o, f.n, With(Get(o, f), readValue(f.key, e.v[1]), readValue(f.kind, e.v[2])))
-----------------------------------------------------------------------------
(* The page sends *)

PageValues(f) ==
    CASE f.card \in {"implicit", "explicit"} -> IF f.kind \in Numeric64 THEN {0, Safe + 1} ELSE {0, 1}
      [] f.card \in {"repeated", "packed"} -> {<<>>, <<1, 0>>}
      [] f.card = "map" -> {<<0, 1>>, <<1, 0>>}

set(f, v) ==
    /\ phase = "build"
    /\ Len(calls) < MaxCalls
    /\ calls' = Append(calls, <<f.n, v>>)
    /\ obj' = setField(obj, f, v)
    /\ UNCHANGED <<msg, phase, wire, got>>

serializeBinary ==
    /\ phase = "build"
    /\ wire' = serializeBinaryToWriter(obj)
    /\ phase' = "sent"
    /\ UNCHANGED <<msg, calls, obj, got>>

\* External: the meaning of the bytes, whatever their order.
EntriesOf(n) == SelectSeq(wire, LAMBDA e : e.n = n)
ServerReading ==
    [n \in {wire[i].n : i \in DOMAIN wire} |->
        LET es == EntriesOf(n)  card == FieldOf(n).card IN
        CASE card \in {"implicit", "explicit"} -> Last(es).v
          [] card = "repeated" -> [i \in DOMAIN es |-> es[i].v]
          [] card = "packed" -> FlattenSeq([i \in DOMAIN es |-> es[i].v])
          [] card = "map" -> [k \in {es[i].v[1] : i \in DOMAIN es} |->
                                 Last(SelectSeq(es, LAMBDA e : e.v[1] = k)).v[2]]]

ServerReads ==
    /\ phase = "sent"
    /\ got' = ServerReading
    /\ phase' = "received"
    /\ UNCHANGED <<msg, calls, obj, wire>>
-----------------------------------------------------------------------------
(* The server answers.  External: the wire format lets it write fields in   *)
(* any order, packed or not, singular ones again with another value, one    *)
(* member of a oneof after another, defaults, and fields the page does not  *)
(* know.                                                                    *)

ServerValues(f) ==
    CASE f.card \in {"repeated", "explicit", "implicit"} -> {0, Safe + 1}
      [] f.card = "packed" -> {<<Safe + 1, 0>>, <<1>>}
      [] f.card = "map" -> {<<0, Safe + 1>>, <<Safe + 1, 0>>}

Answering == phase = "answering" \/ (phase = "build" /\ calls = <<>>)

ServerWrites(f, v, packed) ==
    /\ Answering
    /\ Len(calls) < MaxCalls
    /\ f.card # "packed" => ~packed
    /\ f.card = "packed" /\ ~packed => Len(v) = 1
    /\ phase' = "answering"
    /\ calls' = Append(calls, <<f.n, v>>)
    /\ wire' = Append(wire, Entry(f.n, IF f.card = "packed" /\ ~packed THEN v[1] ELSE v, packed))
    /\ UNCHANGED <<msg, obj, got>>

ServerWritesUnknown ==
    /\ Answering
    /\ \A i \in DOMAIN wire : wire[i].n # Unknown
    /\ phase' = "answering"
    /\ wire' = Append(wire, Entry(Unknown, 1, FALSE))
    /\ UNCHANGED <<msg, calls, obj, got>>

ServerAnswers ==
    /\ Answering
    /\ phase' = "answered"
    /\ UNCHANGED <<msg, calls, obj, wire, got>>

\* One turn of the loop of deserializeBinaryFromReader; skipField for the rest.
deserializeField ==
    /\ phase = "answered" /\ wire # <<>>
    /\ wire' = Tail(wire)
    /\ obj' = IF Known(Head(wire).n) THEN readField(obj, FieldOf(Head(wire).n), Head(wire)) ELSE obj
    /\ UNCHANGED <<msg, phase, calls, got>>

WireNext ==
    \/ \E f \in Fields : \E v \in PageValues(f) : set(f, v)
    \/ serializeBinary
    \/ ServerReads
    \/ \E f \in Fields, packed \in BOOLEAN : \E v \in ServerValues(f) : ServerWrites(f, v, packed)
    \/ ServerWritesUnknown
    \/ ServerAnswers
    \/ deserializeField

WireSpec == WireInit /\ [][WireNext]_wireVars
-----------------------------------------------------------------------------
(* Properties *)

CallsOf(f) == SelectSeq(calls, LAMBDA c : c[1] = f.n)

\* The field's last value counts, unless it is the default of an implicit field
\* or the oneof has been set to another field since.
Stands(f) ==
    \E i \in DOMAIN calls :
        /\ calls[i][1] = f.n
        /\ \A j \in DOMAIN calls : j > i => calls[j][1] \notin Mates(f) \cup {f.n}
        /\ f.card = "implicit" => calls[i][2] # 0

Pairs(cs) == [k \in {cs[i][2][1] : i \in DOMAIN cs} |->
                 Last(SelectSeq(cs, LAMBDA c : c[2][1] = k))[2][2]]

\* The server receives exactly the values that the page has set, and an
\* explicitly set default is distinguished from a field that was not set.
ServerReceives ==
    phase = "received" =>
        LET empty == {g \in Fields : g.card \in {"repeated", "packed"} /\ Stands(g)
                                     /\ Last(CallsOf(g))[2] = <<>>}
        IN  got = [n \in {f.n : f \in {g \in Fields : Stands(g)} \ empty} |->
                     LET cs == CallsOf(FieldOf(n)) IN
                     IF FieldOf(n).card = "map" THEN Pairs(cs) ELSE Last(cs)[2]]

\* Every integer the field has received fits a JavaScript number, where the
\* reader makes it one.
Fits(f) == \A i \in DOMAIN CallsOf(f) : LET v == CallsOf(f)[i][2] IN
    CASE f.card = "map" -> /\ f.key \in JsNumbers => v[1] <= Safe
                           /\ f.kind \in JsNumbers => v[2] <= Safe
      [] f.card \in {"implicit", "explicit"} -> f.kind \in JsNumbers => v <= Safe
      [] OTHER -> TRUE

\* The object that the page reads has the elements of repeated fields and maps
\* that the server has sent, and of what it has sent for a singular field or a
\* oneof the last ("only the last value seen will be kept"), whatever the order,
\* the packing and the fields of newer servers; 64-bit integers keep every digit
\* unless the field is one of those read as a JavaScript number.
PageReceives ==
    phase = "answered" /\ wire = <<>> =>
        \A f \in Fields : LET cs == CallsOf(f) IN
            /\ f.n \in DOMAIN obj <=> Stands(f)
            /\ Stands(f) /\ Fits(f) =>
                 obj[f.n] = CASE f.card \in {"implicit", "explicit"} -> Last(cs)[2]
                              [] f.card = "repeated" -> [i \in DOMAIN cs |-> cs[i][2]]
                              [] f.card = "packed" -> FlattenSeq([i \in DOMAIN cs |-> cs[i][2]])
                              [] f.card = "map" -> Pairs(cs)
=============================================================================
