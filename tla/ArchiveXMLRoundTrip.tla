------------------------- MODULE ArchiveXMLRoundTrip -------------------------
(***************************************************************************)
(* ArchiveXML::ToString followed by ArchiveXML::FromString                 *)
(* (src/Foundation/Reflect/ArchiveXML.cpp): the elements are written by    *)
(* the writer of ArchiveXMLWrite, FromString wraps the text in             *)
(* <Reflect FileFormatVersion="3"> ... </Reflect>, and the reader of       *)
(* ArchiveXMLRead parses exactly that document: its expat events are no    *)
(* longer chosen freely but taken, in order, from the written text.        *)
(*                                                                         *)
(* The reader's own nondeterminism stays: the status callback may abort    *)
(* after a top-level element, a ProcessComponent may accept or refuse a    *)
(* container item or crash on the null m_Field, and the stream length may  *)
(* or may not be a multiple of the chunk size.                             *)
(***************************************************************************)
EXTENDS ArchiveXMLRead

CONSTANTS
  Discard, Force, NoDefault, Compact,  \* as in ArchiveXMLWrite
  ElemTag, AppendTag,
  Originals                 \* the [spool, append] pairs of element lists written

W == INSTANCE ArchiveXMLWrite

VARIABLES
  orig,     \* the elements handed to ToString, and those PostSerialize appends
  ind,      \* whether m_Indent.Get writes characters
  written,  \* ToString has run
  doc       \* the events of the text FromString parses, not yet delivered

rtVars == <<orig, ind, written, doc>>
allVars == <<vars, rtVars>>

RTInit ==
  /\ Init
  /\ orig \in Originals
  /\ ind \in BOOLEAN
  /\ written = FALSE
  /\ doc = <<>>

-----------------------------------------------------------------------------
(* ToString(V_Element&): Write() into a string stream; FromString puts the *)
(* text between <?xml?><Reflect FileFormatVersion="3"> and </Reflect>.     *)
WriteToString ==
  /\ ~written
  /\ written' = TRUE
  /\ doc' = <<[k |-> "reflect", v |-> CURRENT_VERSION]>>
              \o W!Write(orig.spool, orig.append, ind)
              \o <<W!EndTag>>
  /\ UNCHANGED <<vars, orig, ind>>

(* FromString: archive.Read() on the string stream.                       *)
ReadFromString ==
  /\ written
  /\ Read(FALSE)
  /\ UNCHANGED rtVars

(* The parser delivers the next event of the text to the handlers.         *)
NextEvent(k) ==
  /\ written /\ doc # <<>> /\ Head(doc).k = k
  /\ doc' = Tail(doc)
  /\ UNCHANGED <<orig, ind, written>>

DeliverReflect ==
  NextEvent("reflect") /\ StartReflect(Head(doc).v)

(* A start tag goes to the branch of OnStartElement its name and           *)
(* attributes select; after an abort every start tag is ignored.           *)
DeliverStart ==
  /\ NextEvent("open")
  /\ LET ev == Head(doc) IN
       \/ ev.tag = AppendTag /\ StartAppend
       \/ StartIgnored /\ Last(xml') = IF ev.tag = AppendTag THEN "Append" ELSE "Element"
       \/ /\ ev.tag # AppendTag
          /\ \/ StartMissingType(ev.tag, ev.type)
             \/ StartField(ev.tag, ev.type, ev.name)
             \/ StartComponent(ev.tag, ev.type, ev.name)

(* Character data reaches OnCharacterData, which keeps it only for a top  *)
(* frame with an element; otherwise nothing changes.                       *)
DeliverChars ==
  /\ NextEvent("text")
  /\ \/ CharacterData
     \/ phase = "parsing" /\ ~ENABLED CharacterData /\ UNCHANGED vars

DeliverEnd ==
  NextEvent("close") /\ (EndElement \/ EndIgnored)

(* The loop of Read() after the last chunk, or on m_Abort.                 *)
StreamEnd ==
  /\ written /\ doc = <<>>
  /\ \E exact \in BOOLEAN : EndOfStream(exact)
  /\ UNCHANGED rtVars

AbortSeen == StopOnAbort /\ UNCHANGED rtVars

RTNext ==
  \/ WriteToString
  \/ ReadFromString
  \/ DeliverReflect
  \/ DeliverStart
  \/ DeliverChars
  \/ DeliverEnd
  \/ StreamEnd
  \/ AbortSeen

RTSpec == RTInit /\ [][RTNext]_allVars

-----------------------------------------------------------------------------
(* The object FromString built at handle h, in the shape of the objects    *)
(* written: scalar fields hold "Default" or "Text", container fields the   *)
(* objects of their items.                                                 *)
RECURSIVE Decoded(_)
Decoded(h) ==
  [type |-> kind[h],
   val |-> [f \in DOMAIN FieldsOf[kind[h]] |->
              IF FieldsOf[kind[h]][f] \in Containers
              THEN [i \in DOMAIN fieldVal[h][f] |-> Decoded(fieldVal[h][f][i])]
              ELSE fieldVal[h][f]]]

(* Spec sections 2 and 8, the reference: a field is on the wire unless it *)
(* is Discard, equals its default without Force (a field with no default *)
(* never does), or is an empty container; what is on the wire is read     *)
(* back, the rest is the default.                                          *)
RECURSIVE Expected(_)
Expected(v) ==
  [type |-> v.type,
   val |-> [f \in DOMAIN FieldsOf[v.type] |->
              IF /\ f \notin Discard
                 /\ v.val[f] # DefaultValue(v.type, f) \/ f \in Force \/ f \in NoDefault
                 /\ ~(FieldsOf[v.type][f] \in Containers /\ v.val[f] = <<>>)
              THEN IF FieldsOf[v.type][f] \in Containers
                   THEN [i \in DOMAIN v.val[f] |-> Expected(v.val[f][i])]
                   ELSE "Text"
              ELSE DefaultValue(v.type, f)]]

(* RoundTrip: spec section 8, Write(Read(Write(v))) = Write(v) for the     *)
(* fields that are written.  When FromString finishes without an abort,   *)
(* the spool (and append list) it read back hold, in order, objects of    *)
(* the written types whose written fields have their values and whose     *)
(* other fields have their defaults, however the indentation and compact  *)
(* tags place the character data the reader's decode test depends on.     *)
RoundTrip ==
  (written /\ phase = "done" /\ ~abort) =>
    /\ [i \in DOMAIN spool |-> Decoded(spool[i])]
         = [i \in DOMAIN orig.spool |-> Expected(orig.spool[i])]
    /\ [i \in DOMAIN append |-> Decoded(append[i])]
         = [i \in DOMAIN orig.append |-> Expected(orig.append[i])]
====
