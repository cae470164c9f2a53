------------------------------ MODULE Protobuf ------------------------------
(***************************************************************************)
(* The protobuf messages of the Meshtastic adapter                         *)
(* (meshstar-protocols/src/meshtastic/proto.rs).                           *)
(*                                                                         *)
(* A message is a function on the numbers of the fields that are set.      *)
(* Encoded, it is the sequence of the fields that go on the wire, each     *)
(* with its wire type; the number of bytes they take is computed, because  *)
(* frames have a limit.  A length-delimited value is [n |-> bytes, v |->   *)
(* content].                                                               *)
(***************************************************************************)
EXTENDS Integers, Sequences, SequencesExt

VarintWire == 0
LenWire == 2
Fixed32Wire == 5

\* Implicit: not written when it has the default value.  Optional: written
\* whenever it is set.
Implicit(wire) == [wire |-> wire, optional |-> FALSE]
Optional(wire) == [wire |-> wire, optional |-> TRUE]

DataSchema ==
    [f \in 1..10 |-> CASE f \in {1, 3} -> Implicit(VarintWire)
                       [] f = 2 -> Implicit(LenWire)
                       [] f \in 4..8 -> Implicit(Fixed32Wire)
                       [] f = 9 -> Optional(VarintWire)
                       [] f = 10 -> Optional(LenWire)]

UserSchema ==
    [f \in 1..9 |-> CASE f \in {1, 2, 3, 4, 8} -> Implicit(LenWire)
                      [] f \in {5, 6, 7} -> Implicit(VarintWire)
                      [] f = 9 -> Optional(VarintWire)]

PositionSchema ==
    [f \in 1..23 |-> CASE f \in {1, 2} -> Optional(Fixed32Wire)
                       [] f \in {4, 7} -> Implicit(Fixed32Wire)
                       [] f \in {3, 9, 10, 15, 16} -> Optional(VarintWire)
                       [] OTHER -> Implicit(VarintWire)]

RoutingSchema == [f \in 1..3 |-> Optional(IF f = 3 THEN VarintWire ELSE LenWire)]

IsDefault(kind, v) == IF kind.wire = LenWire THEN v.n = 0 ELSE v = 0

\* encode: in the order of the field numbers, defaults left out.
EncodeProto(schema, m) ==
    LET written == {f \in DOMAIN m : schema[f].optional \/ ~IsDefault(schema[f], m[f])}
        order == SetToSortSeq(written, <)
    IN [i \in 1..Len(order) |->
          [field |-> order[i], wire |-> schema[order[i]].wire, v |-> m[order[i]]]]

\* Value: the typed accessors refuse a value of another wire type.
HasType(kind, e) == e.wire = kind.wire

\* decode: the last value of a known field counts, unknown fields are skipped,
\* a known field of another wire type is an error.
DecodeProto(schema, fields) ==
    LET known == {i \in 1..Len(fields) : fields[i].field \in DOMAIN schema}
        last(f) == CHOOSE i \in known : /\ fields[i].field = f
                                        /\ \A j \in known : fields[j].field = f => j <= i
    IN IF \E i \in known : ~HasType(schema[fields[i].field], fields[i]) THEN <<>>
       ELSE << [f \in {fields[i].field : i \in known} |-> fields[last(f)].v] >>

\* The value of a field, or the default of a message without it.
Field(m, f, default) == IF f \in DOMAIN m THEN m[f] ELSE default

\* write_varint: seven bits to a byte; a negative int32 takes ten bytes.
VarintLen(v) ==
    IF v < 0 THEN 10
    ELSE CHOOSE k \in 1..5 : v < 128^k /\ (k = 1 \/ v >= 128^(k - 1))

\* Writer: the key and the value.
FieldLen(e) ==
    VarintLen(e.field * 8 + e.wire)
    + (CASE e.wire = VarintWire -> VarintLen(e.v)
         [] e.wire = Fixed32Wire -> 4
         [] e.wire = LenWire -> VarintLen(e.v.n) + e.v.n)

ProtoLen(fields) ==
    LET upTo[i \in 0..Len(fields)] == IF i = 0 THEN 0 ELSE upTo[i - 1] + FieldLen(fields[i])
    IN upTo[Len(fields)]
=============================================================================
