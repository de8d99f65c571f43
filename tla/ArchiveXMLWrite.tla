--------------------------- MODULE ArchiveXMLWrite ---------------------------
(***************************************************************************)
(* The writing side of Reflect::ArchiveXML                                 *)
(* (src/Foundation/Reflect/ArchiveXML.cpp): Write() and the Serialize,     *)
(* SerializeFields, SerializeField, SerializeHeader and SerializeFooter    *)
(* it calls, as operators from the objects written to the sequence of      *)
(* events the text produces for an XML parser.                             *)
(*                                                                         *)
(* An object is a record [type, val]: an element of a class, whose val     *)
(* maps each field to its value, or a serializer, whose val is the field   *)
(* value it is connected to.  A scalar value is "Default" or "Set"; a      *)
(* container value is a sequence of objects.                               *)
(*                                                                         *)
(* The text is abstracted to the events a parser reports: a start tag      *)
(* with its tag name and Type and Name attributes, a run of character      *)
(* data, an end tag.  Whitespace counts as character data: the reader's    *)
(* OnCharacterData does not tell it apart.  Whether m_Indent.Get writes    *)
(* any character (Indent is not in this source) is the parameter ind.      *)
(***************************************************************************)
EXTENDS Integers, Sequences, SequencesExt

CONSTANTS
  Classes, Scalars, Containers,
  FieldsOf,   \* [Classes -> (field name -> serializer type)]
  Discard,    \* fields flagged FieldFlags::Discard
  Force,      \* fields flagged FieldFlags::Force
  NoDefault,  \* fields whose m_Default references no object
  Compact,    \* types whose IsCompact() holds
  ElemTag,    \* the tag name "Element"
  AppendTag,  \* the tag name "Append"
  NoAttr

-----------------------------------------------------------------------------
(* Parser events.                                                         *)
StartTag(tag, type, name) == [k |-> "open", tag |-> tag, type |-> type, name |-> name]
Chars == [k |-> "text"]
EndTag == [k |-> "close"]

(* The field's m_Default holds the value of a freshly constructed object. *)
FieldDefault(c, f) == IF FieldsOf[c][f] \in Containers THEN <<>> ELSE "Default"

(* The serializer m_Cache.Create(field->m_SerializerID) makes, after       *)
(* ConnectField(element, field).                                           *)
Connected(e, f) == [type |-> FieldsOf[e.type][f], val |-> e.val[f]]

(* m_FieldIDToInfo is ordered by field id, a fixed order of the fields.    *)
FieldIDOrder(c) == SetToSeq(DOMAIN FieldsOf[c])

(* m_Indent.Push(); m_Indent.Get(stream).                                  *)
Indentation(ind) == IF ind THEN <<Chars>> ELSE <<>>

(* SerializeHeader: indentation, <Element Type="..."; Name="..." when the  *)
(* top of m_FieldNames is a field name; ">" and, unless compact, "\n".    *)
SerializeHeader(e, name, ind) ==
  Indentation(ind)
    \o <<StartTag(ElemTag, e.type, name)>>
    \o (IF e.type \in Compact THEN <<>> ELSE <<Chars>>)

(* Mutant of SerializeFooter: no "\n" after the end tag.                  *)
SerializeFooterNoNewline(e, ind) ==
  (IF e.type \in Compact THEN <<>> ELSE Indentation(ind)) \o <<EndTag>>

(* SerializeFooter: indentation unless compact, then "</Element>\n".       *)
SerializeFooter(e, ind) ==
  (IF e.type \in Compact THEN <<>> ELSE Indentation(ind)) \o <<EndTag, Chars>>

(* The decision of SerializeField whether the serializer is written: not a *)
(* Discard field; not equal to the default unless Force or the field has  *)
(* no default to compare with; not an empty container.                     *)
Serialized(e, f) ==
  /\ f \notin Discard
  /\ f \in Force \/ f \in NoDefault \/ e.val[f] # FieldDefault(e.type, f)
  /\ ~(FieldsOf[e.type][f] \in Containers /\ Len(e.val[f]) = 0)

RECURSIVE Serialize(_, _, _), SerializeList(_, _), SerializeFields(_, _)

(* Serialize(element): PreSerialize, header, the serializer's own          *)
(* Serialize or the field sweep, footer, PostSerialize.  A scalar          *)
(* serializer writes its value as text; a container serializer writes its *)
(* items through Serialize(V_Element&).  name is the top of m_FieldNames. *)
Serialize(e, name, ind) ==
  SerializeHeader(e, name, ind)
    \o (CASE e.type \in Scalars    -> <<Chars>>
          [] e.type \in Containers -> SerializeList(e.val, ind)
          [] OTHER                 -> SerializeFields(e, ind))
    \o SerializeFooter(e, ind)

(* Serialize(V_Element&, flags): an empty name is pushed on m_FieldNames, *)
(* so the elements of a list carry no Name attribute.                      *)
SerializeList(s, ind) == FlattenSeq([i \in DOMAIN s |-> Serialize(s[i], NoAttr, ind)])

(* SerializeFields / SerializeField: each field in id order; a written     *)
(* field is its connected serializer under the field's name.               *)
SerializeFields(e, ind) ==
  LET order == FieldIDOrder(e.type)
  IN  FlattenSeq([i \in DOMAIN order |->
                    IF Serialized(e, order[i])
                    THEN Serialize(Connected(e, order[i]), order[i], ind)
                    ELSE <<>>])

(* Write(): the spool; then, when PostSerialize surfaced any, "<Append/>\n" *)
(* and the appended elements.                                             *)
Write(spool, append, ind) ==
  SerializeList(spool, ind)
    \o (IF append = <<>> THEN <<>>
        ELSE Indentation(ind) \o <<StartTag(AppendTag, NoAttr, NoAttr), EndTag, Chars>>
               \o SerializeList(append, ind))
====
