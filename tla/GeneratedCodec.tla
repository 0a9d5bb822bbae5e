--------------------------- MODULE GeneratedCodec ---------------------------
(***************************************************************************)
(* What the code emitted by ironsbe-codegen does at run time: a caller     *)
(* takes a buffer from the BufferPool, wraps it with a message's encoder,  *)
(* calls setters and group encoders in any order, and releases the buffer. *)
(* The decoder is a set of operators over the same bytes.  A number is     *)
(* held by its little-endian byte image, which to_le_bytes and             *)
(* from_le_bytes translate one to one.                                     *)
(*                                                                         *)
(* A slot [g, e, f, m] names what one setter writes: field f, member m of  *)
(* it when it is a composite (else 0), of the message (g = 0) or of entry  *)
(* e of group g.                                                           *)
(***************************************************************************)
EXTENDS SchemaParser

CONSTANTS BufferLen, PoolCapacity, Numbers, ByteStrings, MaxCount, MaxWrites, MaxUses

VARIABLES
  ir,       \* the SchemaIr the code was generated from
  pool,     \* BufferPool.buffers
  buf,      \* the buffer held by the caller, or <<>>
  msg,      \* index of the message whose encoder wraps buf, or 0
  genc,     \* the live group encoder: group, count, index, offset of the next
            \* entry, and the entry encoder it last returned
  given,    \* slot -> bytes the caller last gave its setter (history)
  begun,    \* group -> the last and the largest count it was begun with (history)
  writes, uses,
  outcome   \* "ok", or the operation that panicked

codecVars == <<ir, pool, buf, msg, genc, given, begun, writes, uses, outcome>>

MessageHeaderLen == 8
GroupHeaderLen == 4
Zeros(n) == [i \in 1..n |-> 0]
NoGroup == [g |-> 0, count |-> 0, index |-> 0, offset |-> 0, entry |-> 0]
Empty == [x \in {} |-> 0]
NoIr == FromSchema(NoSchema)

(* ReadBuffer and WriteBuffer: both index the slice, so a range that is not *)
(* inside the buffer panics.                                                *)
InRange(b, at, n) == at + n <= Len(b)
GetBytes(b, at, n) == SubSeq(b, at + 1, at + n)
PutBytes(b, at, bytes) ==
  [i \in DOMAIN b |-> IF i - at \in DOMAIN bytes THEN bytes[i - at] ELSE b[i]]

LeByte(v, i) == IF i < 3 THEN (v \div (256 ^ i)) % 256 ELSE IF v < 0 THEN 255 ELSE 0
Le(v, n) == [i \in 1..n |-> LeByte(v, i - 1)]
LeU16(b, at) == b[at + 1] + 256 * b[at + 2]

(* get_read_method / get_write_method: a field with no primitive type is a  *)
(* u64.                                                                     *)
Width(prim) == IF prim = "none" THEN 8 ELSE Size[prim]

-----------------------------------------------------------------------------
Message == ir.messages[msg]

MessageHeader(m) ==
  Le(m.block_length, 2) \o Le(m.template_id, 2) \o Le(ir.schema_id, 2) \o Le(ir.schema_version, 2)

GroupHeader(block_length, num_in_group) == Le(block_length, 2) \o Le(num_in_group, 2)

(* The offset of a group's header is fixed when the code is generated: the  *)
(* block, and one header for each group before it.                          *)
GroupOffset(m, g) == m.block_length + GroupHeaderLen * (g - 1)

EffectiveBlockLength(group) ==
  IF group.block_length > 0 THEN group.block_length
  ELSE LET ends == {group.fields[i].offset + group.fields[i].encoded_length :
                      i \in DOMAIN group.fields}
       IN Max(ends \cup {0}) % 65536

EncoderLength(m) == MessageHeaderLen + m.block_length

(* The composite's encoder wraps at the field and adds the member's packed  *)
(* offset.                                                                  *)
FieldOf(m, slot) == IF slot.g = 0 THEN m.fields[slot.f] ELSE m.groups[slot.g].fields[slot.f]
MemberOffset(field, k) == IF k = 0 THEN 0 ELSE field.fields[k].offset

WidthOf(field, k) ==
  CASE field.is_array -> field.array_length
    [] field.kind \in {"enum", "set"} -> Width(field.encoding)
    [] field.kind = "composite" -> Width(field.fields[k].prim)
    [] OTHER -> Width(field.prim)

Members(field) == IF field.kind = "composite" THEN DOMAIN field.fields ELSE {0}

Take(s, n) == SubSeq(s, 1, IF n < Len(s) THEN n ELSE Len(s))
Pad(s, n) == s \o Zeros(n - Len(s))

(* Mutant: a short value leaves the old tail of the array. *)
ArrayImageNoFill(field, bytes) == Take(bytes, field.array_length)

(* What an array setter stores: as many bytes as the array has elements,    *)
(* the rest of them zero.                                                   *)
ArrayImage(field, bytes) == Pad(Take(bytes, field.array_length), field.array_length)

SetRaw(bits) == SumFunction([b \in bits |-> 2 ^ b])

(* The byte images the setter's parameter type can hold. *)
Values(field, k) ==
  CASE field.is_array -> ByteStrings
    [] field.kind = "enum" ->
         {Le(field.variants[i].value, Width(field.encoding)) : i \in DOMAIN field.variants}
    [] field.kind = "set" ->
         {Le(SetRaw(bits), Width(field.encoding)) :
            bits \in SUBSET {field.choices[i].bit : i \in DOMAIN field.choices}}
    [] OTHER -> {Le(v, WidthOf(field, k)) : v \in {n \in Numbers : n < 256 \/ WidthOf(field, k) > 1}}

SetterImage(field, value) == IF field.is_array THEN ArrayImage(field, value) ELSE value

-----------------------------------------------------------------------------
(* The decoder. *)

(* The group iterator steps by the block length found on the wire. *)
EntryOffset(b, header, e) == header + GroupHeaderLen + (e - 1) * LeU16(b, header)

DecoderOffset(m, b, slot) ==
  IF slot.g = 0 THEN MessageHeaderLen
  ELSE EntryOffset(b, MessageHeaderLen + GroupOffset(m, slot.g), slot.e)

GetterWidth(field, k) ==
  IF field.is_array /\ field.prim \notin {"char", "uint8"} THEN field.encoded_length
  ELSE WidthOf(field, k)

GetterAt(m, b, slot) ==
  LET field == FieldOf(m, slot)
  IN DecoderOffset(m, b, slot) + field.offset + MemberOffset(field, slot.m)

Readable(m, b, slot) ==
  InRange(b, GetterAt(m, b, slot), GetterWidth(FieldOf(m, slot), slot.m))

RawGet(m, b, slot) ==
  GetBytes(b, GetterAt(m, b, slot), GetterWidth(FieldOf(m, slot), slot.m))

(* From<primitive> for a generated enum: an unknown value is the first      *)
(* variant.                                                                 *)
EnumFrom(field, raw) ==
  LET images == {Le(field.variants[i].value, Width(field.encoding)) : i \in DOMAIN field.variants}
  IN IF raw \in images THEN raw ELSE Le(field.variants[1].value, Width(field.encoding))

Get(m, b, slot) ==
  LET field == FieldOf(m, slot)
  IN IF field.kind = "enum" THEN EnumFrom(field, RawGet(m, b, slot)) ELSE RawGet(m, b, slot)

GroupCountRead(m, b, g) == LeU16(b, MessageHeaderLen + GroupOffset(m, g) + 2)

(* Mutant: validate_header compares the schema only. *)
DecodeAnyTemplate(m, b) ==
  IF Len(b) < MessageHeaderLen THEN "BufferTooShort"
  ELSE IF LeU16(b, 4) # ir.schema_id THEN "SchemaMismatch"
  ELSE IF Len(b) < MessageHeaderLen + LeU16(b, 0) THEN "BufferTooShort"
  ELSE "ok"

(* SbeDecoder::decode *)
Decode(m, b) ==
  IF Len(b) < MessageHeaderLen THEN "BufferTooShort"
  ELSE IF LeU16(b, 2) # m.template_id THEN "TemplateMismatch"
  ELSE IF LeU16(b, 4) # ir.schema_id THEN "SchemaMismatch"
  ELSE IF Len(b) < MessageHeaderLen + LeU16(b, 0) THEN "BufferTooShort"
  ELSE "ok"
-----------------------------------------------------------------------------
(* generate_from_xml: parse, build the IR, generate.  The validator is not  *)
(* called.                                                                  *)
Generate ==
  /\ status = "done" /\ ir = NoIr
  /\ ir' = FromSchema(schema)
  /\ UNCHANGED <<pool, buf, msg, genc, given, begun, writes, uses, outcome>>

(* Mutant: the buffer handed out stays in the pool. *)
AcquireShared ==
  /\ ir # NoIr /\ buf = <<>> /\ pool # <<>> /\ outcome = "ok" /\ uses < MaxUses
  /\ buf' = Head(pool) /\ uses' = uses + 1
  /\ UNCHANGED <<ir, pool, msg, genc, given, begun, writes, outcome>>

Acquire ==
  /\ ir # NoIr /\ buf = <<>> /\ pool # <<>> /\ outcome = "ok" /\ uses < MaxUses
  /\ buf' = Head(pool) /\ pool' = Tail(pool) /\ uses' = uses + 1
  /\ UNCHANGED <<ir, msg, genc, given, begun, writes, outcome>>

Wrap(i) ==
  /\ buf # <<>> /\ msg = 0 /\ outcome = "ok"
  /\ msg' = i
  /\ IF InRange(buf, 0, MessageHeaderLen)
     THEN buf' = PutBytes(buf, 0, MessageHeader(ir.messages[i])) /\ UNCHANGED outcome
     ELSE outcome' = "wrap" /\ UNCHANGED buf
  /\ UNCHANGED <<ir, pool, genc, given, begun, writes, uses>>

Store(slot, base, value) ==
  LET field == FieldOf(Message, slot)
      image == SetterImage(field, value)
      at == base + field.offset + MemberOffset(field, slot.m)
  IN /\ writes < MaxWrites /\ writes' = writes + 1
     /\ IF InRange(buf, at, Len(image))
        THEN /\ buf' = PutBytes(buf, at, image)
             /\ given' = (slot :> value) @@ given
             /\ UNCHANGED outcome
        ELSE outcome' = "set" /\ UNCHANGED <<buf, given>>

SetField(f, k, value) ==
  /\ msg # 0 /\ outcome = "ok"
  /\ Store([g |-> 0, e |-> 0, f |-> f, m |-> k], MessageHeaderLen, value)
  /\ UNCHANGED <<ir, pool, msg, genc, begun, uses>>

(* <group>_count(n): a second call starts the group again. *)
BeginGroup(g, n) ==
  LET at == MessageHeaderLen + GroupOffset(Message, g)
  IN /\ msg # 0 /\ outcome = "ok"
     /\ writes < MaxWrites /\ writes' = writes + 1
     /\ IF InRange(buf, at, GroupHeaderLen)
        THEN /\ buf' = PutBytes(buf, at,
                         GroupHeader(EffectiveBlockLength(Message.groups[g]), n))
             /\ genc' = [g |-> g, count |-> n, index |-> 0, offset |-> at + GroupHeaderLen,
                         entry |-> 0]
             /\ begun' = (g :> [count |-> n, most |-> Max({n} \cup {begun[h].most : h \in DOMAIN begun \cap {g}})])
                        @@ begun
             /\ given' = [s \in {t \in DOMAIN given : t.g # g} |-> given[s]]
             /\ UNCHANGED outcome
        ELSE outcome' = "group" /\ UNCHANGED <<buf, genc, begun, given>>
     /\ UNCHANGED <<ir, pool, msg, uses>>

Advanced(block) ==
  /\ genc.g # 0 /\ genc.index < genc.count /\ outcome = "ok"
  /\ genc' = [genc EXCEPT !.index = @ + 1, !.offset = @ + block, !.entry = genc.offset]
  /\ UNCHANGED <<ir, pool, buf, msg, given, begun, writes, uses, outcome>>

(* Mutant: the stride is the XML blockLength, 0 when the schema leaves it out. *)
NextEntryXmlStride == Advanced(Message.groups[genc.g].block_length)

(* next_entry and the setters of the entry it returns; None at the end. *)
NextEntry == Advanced(EffectiveBlockLength(Message.groups[genc.g]))

SetEntryField(f, k, value) ==
  /\ genc.g # 0 /\ genc.index > 0 /\ outcome = "ok"
  /\ Store([g |-> genc.g, e |-> genc.index, f |-> f, m |-> k],
           genc.entry, value)
  /\ UNCHANGED <<ir, pool, msg, genc, begun, uses>>

(* The group encoder goes out of scope, which frees the message encoder. *)
EndGroup ==
  /\ genc # NoGroup
  /\ genc' = NoGroup
  /\ UNCHANGED <<ir, pool, buf, msg, given, begun, writes, uses, outcome>>

Pushed(b) ==
  /\ buf # <<>> /\ genc = NoGroup /\ outcome = "ok"
  /\ pool' = IF Len(pool) < PoolCapacity THEN Append(pool, b) ELSE pool
  /\ buf' = <<>> /\ msg' = 0 /\ given' = Empty /\ begun' = Empty /\ writes' = 0
  /\ UNCHANGED <<ir, genc, uses, outcome>>

(* Mutant: the buffer goes back as it is. *)
ReleaseDirty == Pushed(buf)

(* A push onto a full pool is ignored. *)
Release == Pushed(Zeros(BufferLen))

CodecInit ==
  /\ ir = NoIr /\ buf = <<>> /\ msg = 0 /\ genc = NoGroup
  /\ pool = [i \in 1..PoolCapacity |-> Zeros(BufferLen)]
  /\ given = Empty /\ begun = Empty /\ writes = 0 /\ uses = 0 /\ outcome = "ok"

CodecNext ==
  \/ Generate \/ Acquire \/ NextEntry \/ EndGroup \/ Release
  \/ ir # NoIr /\ \E i \in DOMAIN ir.messages : Wrap(i)
  \/ /\ msg # 0 /\ genc = NoGroup
     /\ \/ \E f \in DOMAIN Message.fields :
             \E k \in Members(Message.fields[f]) :
               \E v \in Values(Message.fields[f], k) : SetField(f, k, v)
        \/ \E g \in DOMAIN Message.groups, n \in 0..MaxCount : BeginGroup(g, n)
  \/ /\ genc.g # 0
     /\ \E f \in DOMAIN Message.groups[genc.g].fields :
          LET field == Message.groups[genc.g].fields[f]
          IN \E k \in Members(field) : \E v \in Values(field, k) : SetEntryField(f, k, v)
=============================================================================
