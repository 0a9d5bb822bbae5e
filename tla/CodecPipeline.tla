---------------------------- MODULE CodecPipeline ----------------------------
(***************************************************************************)
(* From schema text to bytes on the wire: SchemaParser reads the document, *)
(* SbeSchema's validator and IR read its result, and GeneratedCodec runs   *)
(* the code generated from that IR.  The two state machines run in         *)
(* sequence; what composes them is that every offset and length the codec  *)
(* uses is one the parser computed.                                        *)
(***************************************************************************)
EXTENDS GeneratedCodec

vars == <<parserVars, codecVars>>

Done == status \in {"done", "error"} /\ (status = "error" \/ outcome # "ok" \/ uses = MaxUses)

Init == ParserInit /\ CodecInit

Next ==
  \/ ParserNext /\ UNCHANGED codecVars
  \/ CodecNext /\ UNCHANGED parserVars
  \/ Done /\ UNCHANGED vars

(* parse_schema is one loop on one thread: while it has not returned it     *)
(* runs.  Nothing obliges the caller of the codec to do anything.           *)
Spec == Init /\ [][Next]_vars /\ WF_vars(ParserNext /\ UNCHANGED codecVars)

-----------------------------------------------------------------------------
(* The schema data the conditions below speak about. *)

(* Every field's length was known when the parser came to it: its type was  *)
(* declared, and declared before the message.                               *)
Resolved(fields) ==
  \A i \in DOMAIN fields :
     /\ HasType(schema, fields[i].type_name)
     /\ fields[i].encoded_length = EncodedLength(GetType(schema, fields[i].type_name))

(* What the validator does not ask of a field without bytes (an array of    *)
(* length 0, a composite without members): that it lies behind the field    *)
(* before it.  One that does not sets the walk of validate_message_fields   *)
(* back, and the fields after it may lie on those before it.                *)
EmptyInPlace(fields) ==
  \A i \in DOMAIN fields :
     fields[i].encoded_length = 0 => fields[i].offset >= EndBefore(fields, i)

ByteArraysOnly(fields) ==
  \A i \in DOMAIN fields : fields[i].is_array => fields[i].prim \in {"char", "uint8"}

(* What the validator does not ask of a group. *)
GroupFits(group) ==
  LET end(i) == group.fields[i].offset + group.fields[i].encoded_length
  IN /\ \A i \in DOMAIN group.fields : end(i) <= EffectiveBlockLength(group)
     /\ \A i, j \in DOMAIN group.fields : i < j => end(i) <= group.fields[j].offset

(* Only the last group of those begun ever had entries: a group begun after  *)
(* it, with entries or with none, puts its header where the first entry of   *)
(* this one lies.                                                            *)
OneGroupOnly == \A g \in DOMAIN begun : begun[g].most > 0 => \A h \in DOMAIN begun : h <= g

Parsed == schema.messages[msg]
Encoding == msg # 0 /\ outcome = "ok"
BlockFits == BufferLen >= EncoderLength(Message)

(* The message was generated from a schema that validate_schema accepts and  *)
(* whose field offsets the validator really constrains.                      *)
Sound ==
  ValidSchema(schema) /\ Resolved(Parsed.fields) /\ EmptyInPlace(Parsed.fields)

(* What the getter of a field gives for zero bytes: zero, or the enum's      *)
(* variant for zero, which is the first one when none has that value.        *)
Default(field, k) ==
  LET zero == Zeros(GetterWidth(field, k))
  IN IF field.kind = "enum" THEN EnumFrom(field, zero) ELSE zero

-----------------------------------------------------------------------------
(* Type invariant of the pipeline: bytes are bytes, every pooled buffer has *)
(* the pool's size, and the pool never holds more than its capacity.        *)
TypeOK ==
  /\ pos \in 1..(Len(doc) + 1) /\ status \in {"parsing", "done", "error"}
  /\ \A b \in Range(pool) \cup {buf} :
        Len(b) \in {0, BufferLen} /\ \A i \in DOMAIN b : b[i] \in 0..255
  /\ Len(pool) + (IF buf = <<>> THEN 0 ELSE 1) = PoolCapacity
  /\ outcome \in {"ok", "wrap", "set", "group"}

(* A schema that validate_schema accepts, all of whose field types are      *)
(* declared before use and whose empty fields lie in place, gives generated *)
(* code in which setters do not disturb each other: whatever the order of   *)
(* the calls, each field of the message reads back as last set.             *)
RoundTrip ==
  /\ Encoding /\ Sound /\ ByteArraysOnly(Message.fields)
  => \A s \in DOMAIN given :
        s.g = 0 =>
          LET n == GetterWidth(FieldOf(Message, s), s.m)
          IN Get(Message, buf, s) = Pad(Take(given[s], n), n)

(* The same of a repeating group, under what the generated offsets need and *)
(* nothing checks: the group fits its block length, no group before it in   *)
(* the message has been begun with entries, and none after it has been      *)
(* begun at all.  The decoder finds the count and, through the wire block   *)
(* length, every entry.                                                     *)
GroupRoundTrip ==
  /\ Encoding /\ Sound /\ OneGroupOnly
  => \A g \in DOMAIN begun :
        /\ begun[g].count > 0
        /\ Resolved(Parsed.groups[g].fields) /\ GroupFits(Message.groups[g])
        /\ ByteArraysOnly(Message.groups[g].fields)
        => /\ GroupCountRead(Message, buf, g) = begun[g].count
           /\ \A s \in DOMAIN given :
                 s.g = g =>
                   LET n == GetterWidth(FieldOf(Message, s), s.m)
                   IN Get(Message, buf, s) = Pad(Take(given[s], n), n)

(* The getter of a field nobody set gives its default, also in a buffer     *)
(* that carried another message before and whatever else was set in this    *)
(* one: release wipes the buffer, wrap writes the header only, and no other *)
(* setter reaches the field's bytes.                                        *)
UnsetReadsDefault ==
  /\ Encoding /\ Sound /\ BlockFits
  => \A f \in DOMAIN Message.fields : \A k \in Members(Message.fields[f]) :
        LET s == [g |-> 0, e |-> 0, f |-> f, m |-> k]
        IN s \notin DOMAIN given /\ Readable(Message, buf, s) =>
             Get(Message, buf, s) = Default(Message.fields[f], k)

(* The setters of a validated and resolved message whose empty fields lie   *)
(* in place never index past a buffer that holds encoded_length bytes: the  *)
(* validator compares the block length with the end of the last field only, *)
(* and that is enough as long as no field ends behind it.                   *)
NoPanicInBlock ==
  /\ msg # 0 /\ Sound /\ BlockFits
  => outcome \notin {"wrap", "set"} \/ begun # Empty

(* The bytes under an encoder decode as that message and as no other        *)
(* message of a validated schema, at every point of the encoding.           *)
OneDecoder ==
  Encoding /\ ValidSchema(schema) /\ BlockFits
  => \A i \in DOMAIN ir.messages : (Decode(ir.messages[i], buf) = "ok") <=> (i = msg)

-----------------------------------------------------------------------------
(* A declarative reading of the document: nesting depth counts the elements *)
(* open before an event, and a block's own members are the elements one     *)
(* level inside it.                                                         *)
DepthAt(i) ==
  Len(SelectSeq(SubSeq(doc, 1, i - 1), LAMBDA e : e.ev = "start"))
  - Len(SelectSeq(SubSeq(doc, 1, i - 1), LAMBDA e : e.ev = "end"))

IsElement(i, tag) == doc[i].ev \in {"start", "empty"} /\ doc[i].tag = tag

Inside(j, i) ==
  /\ j > i /\ DepthAt(j) = DepthAt(i) + 1
  /\ \A k \in (i + 1)..j : DepthAt(k) > DepthAt(i)

NamesIn(i, tag) ==
  LET at == SetToSortSeq({j \in DOMAIN doc : IsElement(j, tag) /\ Inside(j, i)}, <)
  IN [n \in DOMAIN at |-> Attr(doc[at[n]], "name", "")]

Names(s) == [i \in DOMAIN s |-> s[i].name]

Starts(tag) == SetToSortSeq({i \in DOMAIN doc : doc[i].ev = "start" /\ doc[i].tag = tag}, <)

(* How the repository's own schemas are written: leaves without content are *)
(* empty elements, the others are not, and every element is closed.         *)
PlainStyle ==
  /\ DepthAt(Len(doc) + 1) = 0
  /\ \A i \in DOMAIN doc :
       /\ doc[i].ev = "start" => doc[i].tag \notin {"field", "data", "member", "unknown"}
       /\ doc[i].ev = "start" /\ doc[i].tag = "type" => DepthAt(i) = 2
       /\ doc[i].ev = "empty" => doc[i].tag \in {"field", "data", "type"}

(* The pull parser, which treats any End as the end of what it is reading,  *)
(* finds in a document of that style exactly the nested structure: each     *)
(* message with its own fields and groups, each group with its own fields,  *)
(* each type with its own members, in order.                                *)
ParsedAsWritten ==
  status = "done" /\ PlainStyle =>
    LET messages == Starts("message")
        OfKind(kind) == SelectSeq(schema.types, LAMBDA t : t.kind = kind)
    IN /\ Len(schema.messages) = Len(messages)
       /\ \A n \in DOMAIN messages :
            LET groups == SelectSeq(Starts("group"), LAMBDA j : Inside(j, messages[n]))
            IN /\ Names(schema.messages[n].fields) = NamesIn(messages[n], "field")
               /\ Names(schema.messages[n].groups) = NamesIn(messages[n], "group")
               /\ schema.messages[n].data = NamesIn(messages[n], "data")
               /\ \A g \in DOMAIN groups :
                    Names(schema.messages[n].groups[g].fields) = NamesIn(groups[g], "field")
       /\ \A kind \in {"composite", "enum", "set"} :
            Names(OfKind(kind)) = [n \in DOMAIN Starts(kind) |-> doc[Starts(kind)[n]].attr.name]
       /\ \A n \in DOMAIN Starts("composite") :
            Names(OfKind("composite")[n].fields) = NamesIn(Starts("composite")[n], "type")
       /\ \A n \in DOMAIN Starts("enum") :
            Names(OfKind("enum")[n].values) = NamesIn(Starts("enum")[n], "validValue")
       /\ \A n \in DOMAIN Starts("set") :
            Names(OfKind("set")[n].choices) = NamesIn(Starts("set")[n], "choice")

(* parse_schema returns on every document, also one cut off in the middle   *)
(* of an element.                                                           *)
ParseReturns == <>(status # "parsing")

(* parser.rs on auto_compute_field_offsets: "for any non-first field whose  *)
(* offset is still 0, assigns it the byte position immediately after the    *)
(* previous field".  The generated code gives each field the bytes of its   *)
(* resolved type, so that is where the previous field ends.                 *)
OffsetsFollow ==
  ir # NoIr =>
    \A n \in DOMAIN ir.messages : LET fields == ir.messages[n].fields
      IN \A i \in 2..Len(fields) :
           fields[i].offset = 0 => fields[i - 1].offset + fields[i - 1].encoded_length = 0
=============================================================================
