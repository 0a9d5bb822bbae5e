------------------------------- MODULE MCCodec -------------------------------
(***************************************************************************)
(* A small library of schema documents.  The main family pairs every kind  *)
(* of field type with every other; the rest vary offsets, block lengths,   *)
(* groups, the number of messages, the order of sections and the ways XML  *)
(* lets an author write the same element.                                  *)
(***************************************************************************)
EXTENDS CodecPipeline

Start(tag, attr) == <<[ev |-> "start", tag |-> tag, attr |-> attr, value |-> 0]>>
Leaf(tag, attr) == <<[ev |-> "empty", tag |-> tag, attr |-> attr, value |-> 0]>>
End == <<[ev |-> "end", tag |-> "", attr |-> <<>>, value |-> 0]>>
Text(v) == <<[ev |-> "text", tag |-> "", attr |-> <<>>, value |-> v]>>
Element(tag, attr, content) == Start(tag, attr) \o content \o End

Named(n) == [name |-> n]
Prim(n, p) == [name |-> n, primitiveType |-> p]

NumType == Leaf("type", Prim("Num", "uint16"))
StrType == Element("type", [name |-> "Str", primitiveType |-> "char", length |-> 2], Text(5))
WideType == Leaf("type", [name |-> "Wide", primitiveType |-> "int16", length |-> 2])
PairType == Element("composite", Named("Pair"),
                    Leaf("type", Prim("a", "int8")) \o Leaf("type", Prim("b", "uint16")))
SideType == Element("enum", [name |-> "Side", encodingType |-> "uint8"],
                    Element("validValue", Named("Buy"), Text(1))
                    \o Element("validValue", Named("Sell"), Text(2))
                    \o Element("validValue", Named("Odd"), Text(-1000)))
FlagsType == Element("set", [name |-> "Flags", encodingType |-> "uint8"],
                     Element("choice", Named("A"), Text(0)) \o Element("choice", Named("B"), Text(1)))

TypeText ==
  [Num |-> NumType, Str |-> StrType, Wide |-> WideType, Pair |-> PairType,
   Side |-> SideType, Flags |-> FlagsType, uint8 |-> <<>>, Nowhere |-> <<>>]
TypeLength ==
  [Num |-> 2, Str |-> 2, Wide |-> 4, Pair |-> 3, Side |-> 1, Flags |-> 1, uint8 |-> 1, Nowhere |-> 8]

Types(content) == Element("types", <<>>, content)
TypesFor(used) == Types(FlattenSeq([i \in DOMAIN used |-> TypeText[used[i]]]))
Schema(content) == Element("messageSchema", [id |-> 3, version |-> 1], content)

Field(n, t) == Leaf("field", [name |-> n, type |-> t, id |-> 1])
FieldAt(n, t, at) == Leaf("field", [name |-> n, type |-> t, offset |-> at])
Msg(n, id, block, content) ==
  Element("message", [name |-> n, id |-> id, blockLength |-> block], content)
Group(n, block, content) == Element("group", [name |-> n, blockLength |-> block], content)

Pairs ==
  {Schema(TypesFor(<<t, u>>)
          \o Msg("M", 7, TypeLength[t] + TypeLength[u], Field("x", t) \o Field("y", u)))
     : t \in DOMAIN TypeText, u \in DOMAIN TypeText}

(* Explicit offsets: apart, touching, overlapping; blocks exact and short. *)
Offsets ==
  {Schema(Types(NumType) \o Msg("M", 7, block, FieldAt("x", "Num", at) \o FieldAt("y", "Num", next)))
     : at \in 0..1, next \in {2, 12}, block \in {3, 4, 16}}

(* A field without bytes between two others: in place, and set back so that *)
(* the validator loses sight of the field before it (y on x; a block that   *)
(* ends before x; x in the bytes of a group).                               *)
EmptyTypes ==
  [Nil |-> Leaf("type", [name |-> "Nil", primitiveType |-> "char", length |-> 0]),
   Hollow |-> Element("composite", Named("Hollow"), <<>>)]
Empties ==
  {Schema(Types(NumType \o SideType \o EmptyTypes[t])
          \o Msg("M", 7, block, FieldAt("x", "Num", at) \o FieldAt("z", t, mid) \o FieldAt("y", "Side", mid)))
     : t \in DOMAIN EmptyTypes, at \in {0, 12}, mid \in 1..2, block \in 2..4}
  \cup
  {Schema(Types(NumType \o EmptyTypes.Nil)
          \o Msg("M", 7, 2, FieldAt("x", "Num", at) \o FieldAt("z", "Nil", 2)
                            \o Group("g", 0, Field("p", "Num"))))
     : at \in {0, 6}}

(* A composite whose members have explicit offsets, and a repeated name. *)
Composites ==
  {Schema(Types(Element("composite", Named("Gap"),
                        Leaf("type", Prim("a", "int8"))
                        \o Leaf("type", [name |-> "b", primitiveType |-> "uint16", offset |-> at]))
                \o NumType \o Leaf("type", Prim("Num", "uint8")))
          \o Msg("M", 7, 4, Field("x", "Gap") \o Field("y", "Num")))
     : at \in 0..2}

Grouped ==
  {Schema(Types(NumType \o SideType)
          \o Msg("M", 7, 2, Field("x", "Num")
                 \o Group("g", block, Field("p", t) \o Field("q", "Side"))
                 \o Leaf("data", Named("d"))))
     : t \in {"Num", "uint8"}, block \in {0, 2, 3}}
  \cup
  {Schema(Types(NumType)
          \o Msg("M", 7, 0, Group("g", 0, Field("p", "Num")) \o Group("h", 0, Field("q", "Num")))),
   Schema(Types(NumType)
          \o Msg("M", 7, 2, Group("g", 0, Field("p", "Num") \o Group("h", 0, Field("q", "Num")))
                            \o Field("x", "Num")))}

Several ==
  {Schema(Types(NumType) \o Msg("M", 7, 2, Field("x", "Num"))
          \o Msg(n, id, 3, Field("y", "Num") \o Field("z", "uint8")))
     : n \in {"M", "N"}, id \in {7, 8, 263}}

(* Types after the message; an expanded field; an empty group, choice or    *)
(* validValue; an unknown element among the types; text in odd places.      *)
Styles ==
  {Schema(Msg("M", 7, 4, Field("x", "Num") \o Field("y", "Num")) \o Types(NumType)),
   Schema(Types(NumType) \o Msg("M", 7, 4, Element("field", [name |-> "x", type |-> "Num"], <<>>)
                                           \o Field("y", "Num"))),
   Schema(Types(NumType) \o Msg("M", 7, 4, Leaf("group", Named("g")) \o Field("y", "Num"))),
   Schema(Types(Element("enum", [name |-> "Side", encodingType |-> "uint8"],
                        Leaf("validValue", Named("Buy"))) \o NumType)
          \o Msg("M", 7, 2, Field("x", "Num"))),
   Schema(Types(Element("set", [name |-> "Flags", encodingType |-> "uint8"],
                        Leaf("choice", Named("A")) \o Element("choice", Named("B"), Text(9))) \o NumType)
          \o Msg("M", 7, 2, Field("x", "Num"))),
   Schema(Types(Element("composite", Named("Pair"),
                        Element("type", Prim("a", "int8"), <<>>) \o Leaf("type", Prim("b", "uint16")))
                \o NumType)
          \o Msg("M", 7, 2, Field("x", "Num"))),
   Schema(Types(Element("unknown", <<>>, Text(0)) \o Leaf("unknown", <<>>) \o NumType)
          \o Leaf("message", Named("E"))
          \o Msg("M", 7, 2, Leaf("unknown", <<>>) \o Field("x", "Num"))),
   Schema(Types(Element("composite", Named("Pair"), Leaf("unknown", <<>>))
                \o Element("enum", [name |-> "Side", encodingType |-> "uint8"],
                           Leaf("unknown", <<>>) \o Element("validValue", Named("Buy"), Leaf("unknown", <<>>) \o Text(1)))
                \o Element("set", [name |-> "Flags", encodingType |-> "uint8"],
                           Leaf("unknown", <<>>) \o Element("choice", Named("A"), Leaf("unknown", <<>>))))
          \o Msg("M", 7, 3, Field("x", "Side") \o Field("y", "Flags")))}

(* Attributes that do not parse, and a document with no messageSchema. *)
Bad == Unparsable
Refused ==
  {Element("messageSchema", [id |-> 70000], <<>>),
   Element("messageSchema", [byteOrder |-> "middle"], <<>>),
   Types(NumType),
   Schema(Types(Leaf("type", Named("Num")))),
   Schema(Types(Start("type", [name |-> "Num", primitiveType |-> "uint16", length |-> Bad]))),
   Schema(Types(Start("enum", Named("Side")))),
   Schema(Types(Start("set", Named("Flags")))),
   Schema(Types(Element("set", [name |-> "Flags", encodingType |-> "uint8"],
                        Element("choice", Named("A"), Text(256))))),
   Schema(Types(Element("composite", Named("Pair"), Leaf("type", Named("a"))))),
   Schema(Msg("M", 70000, 2, <<>>)),
   Schema(Msg("M", 7, 2, Leaf("field", [name |-> "x", presence |-> "sometimes"]))),
   Schema(Msg("M", 7, 2, Leaf("data", [name |-> "d", id |-> Bad])))}

(* Documents that end too early. *)
Cut ==
  LET whole == Schema(TypesFor(<<"Num", "Str", "Pair", "Side", "Flags">>)
                      \o Msg("M", 7, 2, Group("g", 0, Field("p", "Num"))))
  IN {SubSeq(whole, 1, n) : n \in 0..Len(whole)}

MCDocuments ==
  Pairs \cup Offsets \cup Empties \cup Composites \cup Grouped \cup Several \cup Styles \cup Refused \cup Cut

MCByteStrings == {<<9>>, <<9, 8>>, <<9, 8, 7>>}
=============================================================================
