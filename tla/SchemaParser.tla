---------------------------- MODULE SchemaParser ----------------------------
(***************************************************************************)
(* ironsbe-schema/src/parser.rs: a pull parser over the events of the XML  *)
(* reader.  One action consumes one event on behalf of the parse_*         *)
(* function that is running; the functions called but not yet returned are *)
(* the frames of "stack" (parse_schema itself is the empty stack).  The    *)
(* document is the sequence of events quick_xml delivers, with text        *)
(* already trimmed and empty text dropped (trim_text), then Eof forever.   *)
(*                                                                         *)
(* An event is [ev, tag, attr, value].  attr is a record of the attributes *)
(* present; a number that does not parse as the attribute's integer type   *)
(* is Unparsable.                                                          *)
(***************************************************************************)
EXTENDS SbeSchema

CONSTANT Documents

Unparsable == -2

VARIABLES doc, pos, stack, schema, status
parserVars == <<doc, pos, stack, schema, status>>

NoSchema == NewSchema(None, None)
EofEvent == [ev |-> "eof", tag |-> "", attr |-> <<>>, value |-> 0]

Event == IF pos <= Len(doc) THEN doc[pos] ELSE EofEvent
AtStart == Event.ev = "start"
Opens == Event.ev \in {"start", "empty"}
Closes == Event.ev \in {"end", "eof"}

Attr(e, key, default) == IF key \in DOMAIN e.attr THEN e.attr[key] ELSE default
U16Ok(e, key) == Attr(e, key, 0) \in 0..65535
SizeOk(e, key) == Attr(e, key, 0) # Unparsable
PrimitiveOk(e, key) == FromSbeName(Attr(e, key, "missing"))

Frame(fn, def) == [fn |-> fn, def |-> def, depth |-> 1]
Running(fn) == status = "parsing" /\ stack # <<>> /\ Last(stack).fn = fn
Def == Last(stack).def

(* The reader moves past the event, or stays at Eof. *)
Advance == pos' = IF Event.ev = "eof" THEN pos ELSE pos + 1

Fail == status' = "error" /\ UNCHANGED <<doc, stack, schema>>

Skip == UNCHANGED <<doc, stack, schema, status>>

(* A function call and its return: the returned definition is handed to the *)
(* caller's add_* in the same step.                                         *)
Call(fn, def, ok) ==
  IF ok THEN stack' = Append(stack, Frame(fn, def)) /\ UNCHANGED <<doc, schema, status>>
  ELSE Fail

Update(def) ==
  stack' = Append(Front(stack), [Last(stack) EXCEPT !.def = def])
  /\ UNCHANGED <<doc, schema, status>>

ReturnTo(field, def) ==
  LET rest == Front(stack)
  IN /\ stack' = Append(Front(rest), [Last(rest) EXCEPT !.def[field] = Append(@, def)])
     /\ UNCHANGED <<doc, schema, status>>

ReturnType(t) ==
  stack' = Front(stack) /\ schema' = AddType(schema, t) /\ UNCHANGED <<doc, status>>

-----------------------------------------------------------------------------
(* The attribute readers; each is given the element that opens it. *)

PrimitiveDef(e) ==
  NewPrimitive(Attr(e, "name", ""), Attr(e, "primitiveType", "missing"), Attr(e, "length", None))

PrimitiveDefOk(e) == PrimitiveOk(e, "primitiveType") /\ SizeOk(e, "length")

(* A composite member's length attribute is not read: it is one element of  *)
(* its primitive type.                                                      *)
CompositeField(e, default_offset) ==
  NewCompositeField(Attr(e, "name", ""), Attr(e, "primitiveType", "missing"),
                    Attr(e, "offset", default_offset))

(* The encoded length comes from the types parsed so far; a type that is    *)
(* not among them leaves it 0.                                              *)
FieldDef(e) ==
  LET type_name == Attr(e, "type", "")
  IN NewField(Attr(e, "name", ""), type_name, Attr(e, "offset", 0),
              IF HasType(schema, type_name) THEN EncodedLength(GetType(schema, type_name)) ELSE 0)

FieldDefOk(e) ==
  /\ U16Ok(e, "id") /\ SizeOk(e, "offset")
  /\ Attr(e, "presence", "required") \in {"required", "optional", "constant"}

DataFieldDef(e) == Attr(e, "name", "")

AutoComputeFieldOffsets(fields) ==
  FoldLeft(LAMBDA acc, f :
             LET at == IF acc.running > 0 /\ f.offset = 0 THEN acc.running ELSE f.offset
             IN [running |-> at + f.encoded_length,
                 out     |-> Append(acc.out, [f EXCEPT !.offset = at])],
           [running |-> 0, out |-> <<>>], fields).out

MessageDef(e) == NewMessage(Attr(e, "name", ""), Attr(e, "id", 0), Attr(e, "blockLength", 0))
GroupDef(e) == NewGroup(Attr(e, "name", ""), Attr(e, "id", 0), Attr(e, "blockLength", 0))

BlockOk(e) == U16Ok(e, "id") /\ U16Ok(e, "blockLength")

MessageSchemaOk(e) ==
  /\ U16Ok(e, "id") /\ U16Ok(e, "version")
  /\ Attr(e, "byteOrder", "littleEndian") \in {"littleEndian", "bigEndian"}
-----------------------------------------------------------------------------
(* parse_schema: only Start events count, so an empty element at this level *)
(* is passed over.                                                          *)
ParseSchema ==
  /\ status = "parsing" /\ stack = <<>>
  /\ Advance
  /\ \/ /\ AtStart /\ Event.tag = "messageSchema"
        /\ IF MessageSchemaOk(Event)
           THEN /\ schema' = NewSchema(Attr(Event, "id", 0), Attr(Event, "version", 0))
                /\ UNCHANGED <<doc, stack, status>>
           ELSE Fail
     \/ /\ AtStart /\ Event.tag = "types" /\ schema # NoSchema
        /\ Call("types", <<>>, TRUE)
     \/ /\ AtStart /\ Event.tag = "message" /\ schema # NoSchema
        /\ Call("message", MessageDef(Event), BlockOk(Event))
     \/ /\ Event.ev = "eof"
        /\ status' = IF schema = NoSchema THEN "error" ELSE "done"
        /\ UNCHANGED <<doc, stack, schema>>
     \/ /\ Event.ev # "eof"
        /\ ~(AtStart /\ (\/ Event.tag = "messageSchema"
                         \/ Event.tag \in {"types", "message"} /\ schema # NoSchema))
        /\ Skip

SetDepth(depth) ==
  stack' = Append(Front(stack), [Last(stack) EXCEPT !.depth = depth])
  /\ UNCHANGED <<doc, schema, status>>

ParseTypes ==
  /\ Running("types")
  /\ Advance
  /\ \/ /\ AtStart /\ Event.tag = "type"
        /\ Call("type", PrimitiveDef(Event), PrimitiveDefOk(Event))
     \/ /\ AtStart /\ Event.tag = "composite"
        /\ Call("composite", NewComposite(Attr(Event, "name", "")), TRUE)
     \/ /\ AtStart /\ Event.tag = "enum"
        /\ Call("enum", NewEnum(Attr(Event, "name", ""), Attr(Event, "encodingType", "missing")),
                PrimitiveOk(Event, "encodingType"))
     \/ /\ AtStart /\ Event.tag = "set"
        /\ Call("set", NewSet(Attr(Event, "name", ""), Attr(Event, "encodingType", "missing")),
                PrimitiveOk(Event, "encodingType"))
     \/ /\ AtStart /\ Event.tag \notin {"type", "composite", "enum", "set"}
        /\ SetDepth(Last(stack).depth + 1)
     \/ /\ Event.ev = "empty" /\ Event.tag = "type"
        /\ IF PrimitiveDefOk(Event)
           THEN schema' = AddType(schema, PrimitiveDef(Event)) /\ UNCHANGED <<doc, stack, status>>
           ELSE Fail
     \/ /\ Event.ev = "end" /\ Last(stack).depth > 1
        /\ SetDepth(Last(stack).depth - 1)
     \/ /\ Event.ev = "eof" \/ (Event.ev = "end" /\ Last(stack).depth = 1)
        /\ stack' = Front(stack) /\ UNCHANGED <<doc, schema, status>>
     \/ /\ Event.ev = "text" \/ (Event.ev = "empty" /\ Event.tag # "type")
        /\ Skip

(* Mutant: the end tag of an expanded type is left to the caller. *)
ParsePrimitiveTypeLeavesEnd ==
  /\ Running("type")
  /\ UNCHANGED pos
  /\ ReturnType(Def)

ParsePrimitiveType ==
  /\ Running("type")
  /\ Advance
  /\ IF Closes THEN ReturnType(Def) ELSE Skip

ParseComposite ==
  /\ Running("composite")
  /\ Advance
  /\ \/ /\ Opens /\ Event.tag = "type"
        /\ IF PrimitiveOk(Event, "primitiveType") /\ SizeOk(Event, "offset")
           THEN Update([Def EXCEPT !.fields =
                          Append(@, CompositeField(Event, SumOf(LengthsOf(@))))])
           ELSE Fail
     \/ Closes /\ ReturnType(Def)
     \/ ~Closes /\ ~(Opens /\ Event.tag = "type") /\ Skip

ParseEnum ==
  /\ Running("enum")
  /\ Advance
  /\ \/ /\ Opens /\ Event.tag = "validValue"
        /\ Call("enum_value", NewEnumValue(Attr(Event, "name", "")), TRUE)
     \/ Closes /\ ReturnType(Def)
     \/ ~Closes /\ ~(Opens /\ Event.tag = "validValue") /\ Skip

(* Mutant: Eof falls into the catch-all arm. *)
ParseEnumValueNoEof ==
  /\ Running("enum_value")
  /\ Advance
  /\ \/ Event.ev = "text" /\ Update([Def EXCEPT !.value = Event.value])
     \/ Event.ev = "end" /\ ReturnTo("values", Def)
     \/ (Opens \/ Event.ev = "eof") /\ Skip

(* Reads on to the next End, also when validValue was an empty element and  *)
(* the End is the enum's own.                                               *)
ParseEnumValue ==
  /\ Running("enum_value")
  /\ Advance
  /\ \/ Event.ev = "text" /\ Update([Def EXCEPT !.value = Event.value])
     \/ Closes /\ ReturnTo("values", Def)
     \/ Opens /\ Skip

ParseSet ==
  /\ Running("set")
  /\ Advance
  /\ \/ /\ Opens /\ Event.tag = "choice"
        /\ Call("set_choice", NewSetChoice(Attr(Event, "name", ""), 0), TRUE)
     \/ Closes /\ ReturnType(Def)
     \/ ~Closes /\ ~(Opens /\ Event.tag = "choice") /\ Skip

ParseSetChoice ==
  /\ Running("set_choice")
  /\ Advance
  /\ \/ /\ Event.ev = "text"
        /\ IF Event.value \in 0..255 THEN Update([Def EXCEPT !.bit = Event.value]) ELSE Fail
     \/ Closes /\ ReturnTo("choices", Def)
     \/ Opens /\ Skip

Finished(block) == [block EXCEPT !.fields = AutoComputeFieldOffsets(@)]

(* The members parse_message and parse_group share.  Any End ends the       *)
(* block, also one that closes a field written as <field></field>.          *)
ParseMember ==
  \/ /\ Opens /\ Event.tag = "field"
     /\ IF FieldDefOk(Event) THEN Update([Def EXCEPT !.fields = Append(@, FieldDef(Event))])
        ELSE Fail
  \/ /\ Opens /\ Event.tag = "group"
     /\ Call("group", GroupDef(Event), BlockOk(Event))
  \/ /\ Opens /\ Event.tag = "data"
     /\ IF U16Ok(Event, "id") THEN Update([Def EXCEPT !.data = Append(@, DataFieldDef(Event))])
        ELSE Fail
  \/ ~Closes /\ ~(Opens /\ Event.tag \in {"field", "group", "data"}) /\ Skip

ParseMessage ==
  /\ Running("message")
  /\ Advance
  /\ \/ ParseMember
     \/ /\ Closes
        /\ stack' = Front(stack)
        /\ schema' = [schema EXCEPT !.messages = Append(@, Finished(Def))]
        /\ UNCHANGED <<doc, status>>

ParseGroup ==
  /\ Running("group")
  /\ Advance
  /\ \/ ParseMember
     \/ Closes /\ ReturnTo("groups", Finished(Def))

ParserInit ==
  /\ doc \in Documents
  /\ pos = 1 /\ stack = <<>> /\ schema = NoSchema /\ status = "parsing"

ParserNext ==
  \/ ParseSchema \/ ParseTypes \/ ParsePrimitiveType \/ ParseComposite
  \/ ParseEnum \/ ParseEnumValue \/ ParseSet \/ ParseSetChoice
  \/ ParseMessage \/ ParseGroup
=============================================================================
