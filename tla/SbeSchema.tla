------------------------------ MODULE SbeSchema ------------------------------
(***************************************************************************)
(* The schema data model of ironsbe-schema and its three readers, as pure  *)
(* operators: the type table (types.rs, messages.rs), the validator        *)
(* (validation.rs) and the intermediate representation the code generator  *)
(* reads (ir.rs).  A name is a string, an absent optional number is None,  *)
(* and the text of an enum value is the integer it denotes or, when it does *)
(* not parse, one of the integers of NotNumbers.                           *)
(***************************************************************************)
EXTENDS Integers, Sequences, SequencesExt, TLC

None == -1
NotNumbers == {-1000, -1001}

(* PrimitiveType::size; the domain is what from_sbe_name accepts. *)
Size ==
  [char |-> 1, int8 |-> 1, uint8 |-> 1, int16 |-> 2, uint16 |-> 2, int32 |-> 4,
   uint32 |-> 4, float |-> 4, int64 |-> 8, uint64 |-> 8, double |-> 8]

FromSbeName(name) == name \in DOMAIN Size

IsSigned(p) == p \in {"int8", "int16", "int32", "int64"}

(* The constructors: what the properties do not tell apart (descriptions,   *)
(* versions, semantic types) is left out.  A fresh enum value has no text.  *)
NewPrimitive(name, prim, length) ==
  [kind |-> "primitive", name |-> name, prim |-> prim, length |-> length]
NewComposite(name) == [kind |-> "composite", name |-> name, fields |-> <<>>]
NewCompositeField(name, prim, offset) ==
  [name |-> name, prim |-> prim, encoded_length |-> Size[prim], offset |-> offset]
NewEnum(name, encoding) == [kind |-> "enum", name |-> name, encoding |-> encoding, values |-> <<>>]
NewEnumValue(name) == [name |-> name, value |-> -1001]
NewSet(name, encoding) == [kind |-> "set", name |-> name, encoding |-> encoding, choices |-> <<>>]
NewSetChoice(name, bit) == [name |-> name, bit |-> bit]
NewField(name, type_name, offset, encoded_length) ==
  [name |-> name, type_name |-> type_name, offset |-> offset, encoded_length |-> encoded_length]
NewGroup(name, id, block_length) ==
  [name |-> name, id |-> id, block_length |-> block_length,
   fields |-> <<>>, groups |-> <<>>, data |-> <<>>]
NewMessage(name, id, block_length) == NewGroup(name, id, block_length)

SumOf(lengths) == FoldLeft(LAMBDA acc, n : acc + n, 0, lengths)

LengthsOf(fields) == [i \in DOMAIN fields |-> fields[i].encoded_length]

PrimitiveLength(t) ==
  IF t.length = None THEN Size[t.prim] ELSE Size[t.prim] * t.length

IsArray(t) == t.length # None /\ t.length # 1

(* TypeDef::encoded_length: a composite is the sum of its members, whatever *)
(* offsets they were given.                                                 *)
EncodedLength(t) ==
  CASE t.kind = "primitive" -> PrimitiveLength(t)
    [] t.kind = "composite" -> SumOf(LengthsOf(t.fields))
    [] t.kind \in {"enum", "set"} -> Size[t.encoding]

(* Schema: the vector of types with the name map beside it; a second type   *)
(* of the same name takes over the map entry.                               *)
NewSchema(id, version) ==
  [id |-> id, version |-> version, types |-> <<>>, messages |-> <<>>]

AddType(schema, t) == [schema EXCEPT !.types = Append(@, t)]

TypeIndex(schema, name) ==
  SelectLastInSeq(schema.types, LAMBDA t : t.name = name)

HasType(schema, name) == TypeIndex(schema, name) # 0

GetType(schema, name) == schema.types[TypeIndex(schema, name)]

-----------------------------------------------------------------------------
(* validation.rs *)

(* Where the field before the i-th ends, as the walks of validate_composite *)
(* and validate_message_fields carry it along.                              *)
EndBefore(fields, i) ==
  IF i = 1 THEN 0 ELSE fields[i - 1].offset + fields[i - 1].encoded_length

ValidComposite(c) ==
  \A i \in DOMAIN c.fields : c.fields[i].offset >= EndBefore(c.fields, i)

Distinct(s) == \A i, j \in DOMAIN s : s[i] = s[j] => i = j

ValidEnum(t) ==
  /\ Distinct([i \in DOMAIN t.values |-> t.values[i].name])
  /\ Distinct([i \in DOMAIN t.values |-> t.values[i].value])

ValidSet(t) ==
  /\ \A i \in DOMAIN t.choices : t.choices[i].bit < 8 * Size[t.encoding]
  /\ Distinct([i \in DOMAIN t.choices |-> t.choices[i].bit])

ValidTypes(schema) ==
  \A i \in DOMAIN schema.types :
     LET t == schema.types[i]
     IN /\ t.kind = "composite" => ValidComposite(t)
        /\ t.kind = "enum" => ValidEnum(t)
        /\ t.kind = "set" => ValidSet(t)

KnownTypes(schema, fields) ==
  \A i \in DOMAIN fields :
     HasType(schema, fields[i].type_name) \/ FromSbeName(fields[i].type_name)

RECURSIVE ValidGroup(_, _)
ValidGroup(schema, g) ==
  /\ KnownTypes(schema, g.fields)
  /\ \A i \in DOMAIN g.groups : ValidGroup(schema, g.groups[i])

NoOverlap(fields) ==
  \A i \in DOMAIN fields :
     fields[i].offset >= EndBefore(fields, i) \/ fields[i].encoded_length = 0

(* Mutant: the block length is not compared. *)
ValidMessageFieldsNoBlock(schema, msg) ==
  /\ KnownTypes(schema, msg.fields) /\ NoOverlap(msg.fields)
  /\ \A i \in DOMAIN msg.groups : ValidGroup(schema, msg.groups[i])

ValidMessageFields(schema, msg) ==
  /\ KnownTypes(schema, msg.fields) /\ NoOverlap(msg.fields)
  /\ EndBefore(msg.fields, Len(msg.fields) + 1) <= msg.block_length
  /\ \A i \in DOMAIN msg.groups : ValidGroup(schema, msg.groups[i])

ValidMessages(schema) ==
  /\ Distinct([i \in DOMAIN schema.messages |-> schema.messages[i].id])
  /\ Distinct([i \in DOMAIN schema.messages |-> schema.messages[i].name])
  /\ \A i \in DOMAIN schema.messages : ValidMessageFields(schema, schema.messages[i])

ValidSchema(schema) == ValidTypes(schema) /\ ValidMessages(schema)

-----------------------------------------------------------------------------
(* ir.rs *)

(* Composite members are packed one after the other: the offset the parser  *)
(* recorded is not looked at.                                               *)
PackedFields(c) ==
  [i \in DOMAIN c.fields |->
     [name |-> c.fields[i].name, prim |-> c.fields[i].prim,
      offset |-> SumOf(LengthsOf(SubSeq(c.fields, 1, i - 1))),
      encoded_length |-> c.fields[i].encoded_length]]

(* The variants whose text parses as a number of the encoding's sign; the   *)
(* others are dropped.                                                      *)
Variants(t) ==
  SelectSeq(t.values, LAMBDA v : /\ v.value \notin NotNumbers
                                 /\ IsSigned(t.encoding) \/ v.value >= 0)

ResolvedBase ==
  [prim |-> "none", encoding |-> "none", fields |-> <<>>, variants |-> <<>>,
   choices |-> <<>>, is_array |-> FALSE, array_length |-> None]

FromTypeDef(t) ==
  LET base == [kind |-> t.kind, encoded_length |-> EncodedLength(t)] @@ ResolvedBase
  IN CASE t.kind = "primitive" ->
            [base EXCEPT !.prim = t.prim, !.is_array = IsArray(t), !.array_length = t.length]
       [] t.kind = "composite" -> [base EXCEPT !.fields = PackedFields(t)]
       [] t.kind = "enum" -> [base EXCEPT !.encoding = t.encoding, !.variants = Variants(t)]
       [] t.kind = "set" -> [base EXCEPT !.encoding = t.encoding, !.choices = t.choices]

FromPrimitive(p) ==
  [ResolvedBase EXCEPT !.prim = p] @@ [kind |-> "primitive", encoded_length |-> Size[p]]

(* A name that is neither declared nor built in becomes a plain u64.        *)
FromFieldDef(schema, f) ==
  [name |-> f.name, offset |-> f.offset] @@
  (CASE HasType(schema, f.type_name) -> FromTypeDef(GetType(schema, f.type_name))
     [] ~HasType(schema, f.type_name) /\ FromSbeName(f.type_name) -> FromPrimitive(f.type_name)
     [] OTHER -> [kind |-> "primitive", encoded_length |-> f.encoded_length] @@ ResolvedBase)

RECURSIVE FromGroupDef(_, _)
FromGroupDef(schema, g) ==
  [name |-> g.name, block_length |-> g.block_length,
   fields |-> [i \in DOMAIN g.fields |-> FromFieldDef(schema, g.fields[i])],
   groups |-> [i \in DOMAIN g.groups |-> FromGroupDef(schema, g.groups[i])],
   data |-> g.data]

FromMessageDef(schema, msg) ==
  [name |-> msg.name, template_id |-> msg.id, block_length |-> msg.block_length,
   fields |-> [i \in DOMAIN msg.fields |-> FromFieldDef(schema, msg.fields[i])],
   groups |-> [i \in DOMAIN msg.groups |-> FromGroupDef(schema, msg.groups[i])],
   data |-> msg.data]

FromSchema(schema) ==
  [schema_id |-> schema.id, schema_version |-> schema.version,
   messages |-> [i \in DOMAIN schema.messages |->
                   FromMessageDef(schema, schema.messages[i])]]
=============================================================================
