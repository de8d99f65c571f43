---------------------------- MODULE ArchiveXMLRead ----------------------------
(***************************************************************************)
(* The reading side of Reflect::ArchiveXML                                 *)
(* (src/Foundation/Reflect/ArchiveXML.cpp): the Read() loop over 4 KiB     *)
(* chunks, and the three expat callbacks it drives, OnStartElement,        *)
(* OnCharacterData and OnEndElement, with the stack of ParsingState        *)
(* frames, the object cache (m_Cache) that creates and recycles elements   *)
(* and serializers, and the two output lists m_Spool and m_Append.         *)
(*                                                                         *)
(* Expat itself is the environment: it delivers one well-formed event at a *)
(* time, or reports a syntax error.  A document is never written down in  *)
(* advance; every event a document of at most MaxTags tags can produce is  *)
(* offered at every step.                                                  *)
(*                                                                         *)
(* Data is abstracted: a class has a fixed table of named fields; a scalar *)
(* field holds "Default" until a serializer decodes text into it ("Text"); *)
(* a container field holds the sequence of element handles decoded into    *)
(* it.  Character data is only "empty" or "non-empty".                     *)
(***************************************************************************)
EXTENDS Integers, Sequences, SequencesExt, FiniteSets, TLC

CONSTANTS
  Classes,       \* element classes the registry can create
  Scalars,       \* scalar Serializer types
  Containers,    \* ElementContainerSerializer types
  FieldsOf,      \* [Classes -> (field name -> serializer type)]
  VetoClasses,   \* classes whose PostDeserialize may veto the element
  Tags,          \* tag names occurring in documents
  TypeAttrs,     \* values of the Type= attribute (NoAttr: absent)
  NameAttrs,     \* values of the Name= attribute (NoAttr: absent)
  VersionAttrs,  \* first attribute of <Reflect>: a version, NoAttr, BadVersion
  NoAttr, BadVersion, NULL,
  MaxTags        \* bound on the tags of one document

Serializers == Scalars \cup Containers
Types == Classes \cup Serializers

ASSUME /\ DOMAIN FieldsOf = Classes
       /\ \A c \in Classes : \A f \in DOMAIN FieldsOf[c] : FieldsOf[c][f] \in Serializers
       /\ VetoClasses \subseteq Classes
       /\ MaxTags \in Nat \ {0}

(* ArchiveXML.cpp lines 20-22. *)
CURRENT_VERSION == 3
FIRST_VERSION_WITH_NAMESPACE_SUPPORT == 3

(* Object identities: every tag creates at most one object. *)
Handles == 1 .. MaxTags

(* The field table of a type; serializers declare no reflected fields.     *)
ClassFields(t) == IF t \in Classes THEN FieldsOf[t] ELSE <<>>

(* The value a freshly constructed instance holds in field f.              *)
DefaultValue(t, f) == IF FieldsOf[t][f] \in Containers THEN <<>> ELSE "Default"

VARIABLES
  phase,     \* "idle", "parsing", "done", "failed" (exception), "crashed"
  version,   \* m_Version
  target,    \* m_Target: "Spool" or "Append"
  spool,     \* m_Spool
  append,    \* m_Append
  stack,     \* m_StateStack, bottom first; one ParsingState record per frame
  xml,       \* expat's stack of open tags: "Reflect", "Append", "Element"
  seenRoot,  \* the document element has been opened
  abort,     \* m_Abort
  opened,    \* tags delivered so far (bounded by MaxTags)
  kind,      \* type of each allocated object, NULL when never allocated
  pool,      \* objects returned to m_Cache by Free
  conn,      \* serializer -> <<owner, field>> it is connected to, or NULL
  fieldVal,  \* object -> field -> value
  refused    \* components a ProcessComponent call refused (history)

vars == <<phase, version, target, spool, append, stack, xml, seenRoot, abort,
          opened, kind, pool, conn, fieldVal, refused>>
cacheVars == <<kind, pool, conn, fieldVal>>

AllFields == UNION {DOMAIN FieldsOf[c] : c \in Classes}

(* One ParsingState: the field it is bound to (m_Field), the element under *)
(* construction (m_Element), the kField flag, whether m_Buffer is empty,   *)
(* and the closed children collected in m_Components.                     *)
Frame == [field : AllFields \cup {NULL}, elem : Handles \cup {NULL},
          isField : BOOLEAN, buf : BOOLEAN,
          comps : Seq(Handles \cup {NULL})]

Values == {"Default", "Text"} \cup Seq(Handles)

TypeOK ==
  /\ phase \in {"idle", "parsing", "done", "failed", "crashed"}
  /\ version \in (VersionAttrs \cap Nat) \cup {1, CURRENT_VERSION}
  /\ target \in {"Spool", "Append"}
  /\ spool \in Seq(Handles) /\ append \in Seq(Handles)
  /\ stack \in Seq(Frame) /\ Len(stack) <= MaxTags
  /\ xml \in Seq({"Reflect", "Append", "Element"}) /\ Len(xml) <= MaxTags + 1
  /\ seenRoot \in BOOLEAN /\ abort \in BOOLEAN
  /\ opened \in 0 .. MaxTags
  /\ kind \in [Handles -> Types \cup {NULL}]
  /\ pool \subseteq {h \in Handles : kind[h] \in Serializers}
  /\ conn \in [Handles -> (Handles \X AllFields) \cup {NULL}]
  /\ \A h \in Handles : fieldVal[h] \in [DOMAIN fieldVal[h] -> Values]
  /\ refused \subseteq Handles

Init ==
  /\ phase = "idle"
  /\ version = CURRENT_VERSION
  /\ target = "Spool"
  /\ spool = <<>> /\ append = <<>>
  /\ stack = <<>> /\ xml = <<>>
  /\ seenRoot = FALSE /\ abort = FALSE
  /\ opened = 0
  /\ kind = [h \in Handles |-> NULL]
  /\ pool = {}
  /\ conn = [h \in Handles |-> NULL]
  /\ fieldVal = [h \in Handles |-> <<>>]
  /\ refused = {}

-----------------------------------------------------------------------------
(* The object cache (m_Cache).  Create hands out a pooled instance of the *)
(* type when one is free, and a new one otherwise; Free returns an        *)
(* instance to the pool of its type.                                      *)

Fresh == CHOOSE h \in Handles : kind[h] = NULL

CreateChoices(t) ==
  LET pooled == {h \in pool : kind[h] = t}
  IN IF pooled # {} THEN pooled ELSE {Fresh}

(* Mutant of Create: the reused instance is left in the free pool.        *)
CreateKeepsPooled(t, h) ==
  /\ kind' = [kind EXCEPT ![h] = t]
  /\ pool' = pool
  /\ fieldVal' = IF h \in pool THEN fieldVal
                 ELSE [fieldVal EXCEPT ![h] = [f \in DOMAIN ClassFields(t) |-> DefaultValue(t, f)]]

(* Create(t) yields h: kind, pool and the field values of a new instance. *)
Create(t, h) ==
  /\ kind' = [kind EXCEPT ![h] = t]
  /\ pool' = pool \ {h}
  /\ fieldVal' = IF h \in pool THEN fieldVal
                 ELSE [fieldVal EXCEPT ![h] = [f \in DOMAIN ClassFields(t) |-> DefaultValue(t, f)]]

-----------------------------------------------------------------------------
(* Read(): the status callback reports Starting, m_Abort is cleared, and   *)
(* an empty input stream throws a StreamException.                        *)
Read(empty) ==
  /\ phase = "idle"
  /\ phase' = IF empty THEN "failed" ELSE "parsing"
  /\ abort' = FALSE
  /\ UNCHANGED <<version, target, spool, append, stack, xml, seenRoot, opened,
                 cacheVars, refused>>

(* XML_ParseBuffer returns an error: a DataFormatException leaves Read(). *)
(* Expat parses the whole chunk even after m_Abort was set in it.         *)
ParseError ==
  /\ phase = "parsing"
  /\ phase' = "failed"
  /\ UNCHANGED <<version, target, spool, append, stack, xml, seenRoot, abort,
                 opened, cacheVars, refused>>

(* At the next chunk boundary the loop sees m_Abort and stops; Read()     *)
(* reports ElementProcessed 100 and Complete without an error.            *)
StopOnAbort ==
  /\ phase = "parsing" /\ abort
  /\ phase' = "done"
  /\ UNCHANGED <<version, target, spool, append, stack, xml, seenRoot, abort,
                 opened, cacheVars, refused>>

(* The stream is exhausted.  Expat is told the input is final only when   *)
(* the last read returned 0 characters without the stream failing first,  *)
(* that is when the size is a multiple of the chunk size (exact); only    *)
(* then does it report an unclosed document as an error.                  *)
EndOfStream(exact) ==
  /\ phase = "parsing" /\ ~abort
  /\ phase' = IF exact /\ (xml # <<>> \/ ~seenRoot) THEN "failed" ELSE "done"
  /\ UNCHANGED <<version, target, spool, append, stack, xml, seenRoot, abort,
                 opened, cacheVars, refused>>

-----------------------------------------------------------------------------
(* Mutant of StartReflect: a missing version is not defaulted to 1.      *)
StartReflectNoDefault(v) ==
  /\ phase = "parsing" /\ xml = <<>> /\ ~seenRoot
  /\ seenRoot' = TRUE
  /\ xml' = <<"Reflect">>
  /\ \/ /\ v = BadVersion
        /\ phase' = "failed"
        /\ UNCHANGED version
     \/ /\ v # BadVersion
        /\ version' = v
        /\ UNCHANGED phase
  /\ UNCHANGED <<target, spool, append, stack, abort, opened, cacheVars, refused>>

(* OnStartElement for the <Reflect> document element: the version is read *)
(* from the first attribute when it is FileFormatVersion, else it is 1.   *)
StartReflect(v) ==
  /\ phase = "parsing" /\ xml = <<>> /\ ~seenRoot
  /\ seenRoot' = TRUE
  /\ xml' = <<"Reflect">>
  /\ \/ /\ v = BadVersion
        /\ phase' = "failed"
        /\ UNCHANGED version
     \/ /\ v # BadVersion
        /\ version' = IF v = NoAttr THEN 1 ELSE v
        /\ UNCHANGED phase
  /\ UNCHANGED <<target, spool, append, stack, abort, opened, cacheVars, refused>>

(* Every tag inside the document element is delivered while there is     *)
(* budget left.                                                           *)
TagGuard ==
  /\ phase = "parsing" /\ xml # <<>> /\ opened < MaxTags
  /\ opened' = opened + 1

(* Any start tag after m_Abort is set returns at once.                    *)
StartIgnored ==
  /\ TagGuard /\ abort
  /\ \E t \in {"Append", "Element"} : xml' = Append(xml, t)
  /\ UNCHANGED <<phase, version, target, spool, append, stack, seenRoot, abort,
                 cacheVars, refused>>

(* <Append> redirects later top-level elements to m_Append.                *)
StartAppend ==
  /\ TagGuard /\ ~abort
  /\ xml' = Append(xml, "Append")
  /\ target' = "Append"
  /\ UNCHANGED <<phase, version, spool, append, stack, seenRoot, abort,
                 cacheVars, refused>>

(* The element type: the tag name before namespace support, else the Type *)
(* attribute (NoAttr when absent).                                        *)
ElementType(tag, typeAttr) ==
  IF version < FIRST_VERSION_WITH_NAMESPACE_SUPPORT THEN tag ELSE typeAttr

(* The field of the enclosing element this tag is bound to, or NULL.       *)
BoundField(nameAttr) ==
  IF /\ stack # <<>>
     /\ Last(stack).elem # NULL
     /\ nameAttr \in DOMAIN ClassFields(kind[Last(stack).elem])
  THEN nameAttr ELSE NULL

PushFrame(fr) ==
  /\ stack' = Append(stack, fr)
  /\ xml' = Append(xml, "Element")

(* Mutant of StartElementGuard: OnStartElement does not return on m_Abort. *)
StartElementGuardIgnoresAbort(tag, typeAttr) ==
  /\ TagGuard
  /\ ElementType(tag, typeAttr) # NoAttr

StartElementGuard(tag, typeAttr) ==
  /\ TagGuard /\ ~abort
  /\ ElementType(tag, typeAttr) # NoAttr

(* No type: DataFormatException "Unable to find element type attribute".  *)
StartMissingType(tag, typeAttr) ==
  /\ TagGuard /\ ~abort
  /\ ElementType(tag, typeAttr) = NoAttr
  /\ phase' = "failed"
  /\ xml' = Append(xml, "Element")
  /\ UNCHANGED <<version, target, spool, append, stack, seenRoot, abort,
                 cacheVars, refused>>

(* First pass: the Name attribute names a field of the enclosing element; *)
(* the field's serializer is created and connected to that field.         *)
StartField(tag, typeAttr, nameAttr) ==
  /\ StartElementGuard(tag, typeAttr)
  /\ BoundField(nameAttr) # NULL
  /\ LET owner == Last(stack).elem
         st == FieldsOf[kind[owner]][nameAttr]
     IN \E h \in CreateChoices(st) :
          /\ Create(st, h)
          /\ conn' = [conn EXCEPT ![h] = <<owner, nameAttr>>]
          /\ PushFrame([field |-> nameAttr, elem |-> h, isField |-> TRUE,
                        buf |-> FALSE, comps |-> <<>>])
  /\ UNCHANGED <<phase, version, target, spool, append, seenRoot, abort, refused>>

(* Second pass: a standalone element of the named type, a component.      *)
StartComponent(tag, typeAttr, nameAttr) ==
  /\ StartElementGuard(tag, typeAttr)
  /\ BoundField(nameAttr) = NULL
  /\ LET t == ElementType(tag, typeAttr)
     IN \/ /\ t \in Types
           /\ \E h \in CreateChoices(t) :
                /\ Create(t, h)
                /\ PushFrame([field |-> NULL, elem |-> h, isField |-> FALSE,
                              buf |-> FALSE, comps |-> <<>>])
        \/ /\ t \notin Types
           /\ PushFrame([field |-> NULL, elem |-> NULL, isField |-> FALSE,
                         buf |-> FALSE, comps |-> <<>>])
           /\ UNCHANGED <<kind, pool, fieldVal>>
  /\ UNCHANGED <<phase, version, target, spool, append, seenRoot, abort, conn, refused>>

(* OnCharacterData: text is appended to the buffer of the top frame when  *)
(* it holds an element.                                                   *)
CharacterData ==
  /\ phase = "parsing" /\ ~abort
  /\ xml # <<>> /\ stack # <<>>
  /\ Last(stack).elem # NULL /\ ~Last(stack).buf
  /\ stack' = [stack EXCEPT ![Len(stack)].buf = TRUE]
  /\ UNCHANGED <<phase, version, target, spool, append, xml, seenRoot, abort,
                 opened, cacheVars, refused>>

-----------------------------------------------------------------------------
(* OnEndElement for </Reflect> and </Append>, and for any tag once        *)
(* m_Abort is set: nothing but expat's own stack changes.                 *)
EndIgnored ==
  /\ phase = "parsing" /\ xml # <<>>
  /\ Last(xml) \in {"Reflect", "Append"} \/ abort
  /\ xml' = Front(xml)
  /\ UNCHANGED <<phase, version, target, spool, append, stack, seenRoot, abort,
                 opened, cacheVars, refused>>

(* Deserialize(V_Element&, flags) without ArchiveFlags::Sparse: the      *)
(* collected components, null entries removed.                            *)
DeserializeElements(comps) == Remove(comps, NULL)

(* A serializer with a non-empty buffer decodes it into the field it is   *)
(* connected to.  A container serializer is handed m_Components through a *)
(* nested ArchiveXML and takes them with Deserialize(V_Element&, flags),  *)
(* which drops the null entries.                                          *)
Decode(fr) ==
  LET e == fr.elem IN
  IF e # NULL /\ kind[e] \in Serializers /\ fr.buf /\ conn[e] # NULL
  THEN [fieldVal EXCEPT ![conn[e][1]][conn[e][2]] =
          IF kind[e] \in Containers THEN DeserializeElements(fr.comps) ELSE "Text"]
  ELSE fieldVal

(* PostDeserialize may veto an element of a class that overrides it.     *)
VetoChoices(e) == IF e # NULL /\ kind[e] \in VetoClasses THEN BOOLEAN ELSE {FALSE}

(* The frames below the popped one, with the child e appended to the     *)
(* parent's m_Components (even when e is null).                          *)
CollectedBy(e) ==
  LET rest == Front(stack) IN [rest EXCEPT ![Len(rest)].comps = Append(@, e)]

EndGuard ==
  /\ phase = "parsing" /\ ~abort
  /\ xml # <<>> /\ Last(xml) = "Element" /\ stack # <<>>
  /\ xml' = Front(xml)

(* The popped element is top-level: when it is not null it is pushed to  *)
(* m_Target and the status callback may request an abort.                *)
EndTopLevel(fr, e) ==
  /\ Len(stack) = 1
  /\ stack' = <<>>
  /\ \/ /\ e # NULL
        /\ spool' = IF target = "Spool" THEN Append(spool, e) ELSE spool
        /\ append' = IF target = "Append" THEN Append(append, e) ELSE append
        /\ abort' \in BOOLEAN
     \/ /\ e = NULL
        /\ UNCHANGED <<spool, append, abort>>
  /\ UNCHANGED <<phase, conn, pool, refused>>

(* Mutant of EndField: the serializer is freed without Disconnect().     *)
EndFieldNoDisconnect(fr, e) ==
  /\ Len(stack) > 1 /\ e # NULL /\ fr.isField
  /\ conn' = conn
  /\ pool' = pool \cup {e}
  /\ stack' = CollectedBy(e)
  /\ UNCHANGED <<phase, spool, append, abort, refused>>

(* The popped element was a field: its serializer is disconnected and    *)
(* returned to the cache; it still goes into the parent's m_Components.  *)
EndField(fr, e) ==
  /\ Len(stack) > 1 /\ e # NULL /\ fr.isField
  /\ conn' = [conn EXCEPT ![e] = NULL]
  /\ pool' = pool \cup {e}
  /\ stack' = CollectedBy(e)
  /\ UNCHANGED <<phase, spool, append, abort, refused>>

(* Mutant of EndComponent: m_Cache.Free is called for components too.   *)
EndComponentFreed(fr, e) ==
  /\ Len(stack) > 1 /\ e # NULL /\ ~fr.isField
  /\ Last(Front(stack)).elem # NULL
  /\ \/ /\ fr.field = NULL
        /\ phase' = "crashed"
        /\ stack' = Front(stack)
        /\ UNCHANGED refused
     \/ /\ stack' = CollectedBy(e)
        /\ \E accepted \in BOOLEAN :
             refused' = IF accepted THEN refused ELSE refused \cup {e}
        /\ UNCHANGED phase
  /\ pool' = pool \cup {e}
  /\ UNCHANGED <<spool, append, abort, conn>>

(* The popped element is a component of a live parent, which is offered *)
(* it by ProcessComponent(e, m_Field->m_Name).  m_Field is null for every *)
(* component, so the hint is a reference through a null pointer: a       *)
(* ProcessComponent that reads it crashes; one that does not may accept   *)
(* or refuse.  The child joins m_Components either way.                   *)
EndComponent(fr, e) ==
  /\ Len(stack) > 1 /\ e # NULL /\ ~fr.isField
  /\ Last(Front(stack)).elem # NULL
  /\ \/ /\ fr.field = NULL
        /\ phase' = "crashed"
        /\ stack' = Front(stack)
        /\ UNCHANGED refused
     \/ /\ stack' = CollectedBy(e)
        /\ \E accepted \in BOOLEAN :
             refused' = IF accepted THEN refused ELSE refused \cup {e}
        /\ UNCHANGED phase
  /\ UNCHANGED <<spool, append, abort, conn, pool>>

(* A null element, or a component of a null parent, is only collected.   *)
EndOrphan(fr, e) ==
  /\ Len(stack) > 1
  /\ e = NULL \/ (~fr.isField /\ Last(Front(stack)).elem = NULL)
  /\ stack' = CollectedBy(e)
  /\ UNCHANGED <<phase, spool, append, abort, conn, pool, refused>>

(* OnEndElement for an element: pop the frame, decode a serializer,      *)
(* PostDeserialize with its veto, then hand the element to its parent or *)
(* to the output list.                                                   *)
EndElement ==
  /\ EndGuard
  /\ LET fr == Last(stack) IN
     \E veto \in VetoChoices(fr.elem) :
       LET e == IF veto THEN NULL ELSE fr.elem IN
       /\ fieldVal' = Decode(fr)
       /\ \/ EndTopLevel(fr, e)
          \/ EndField(fr, e)
          \/ EndComponent(fr, e)
          \/ EndOrphan(fr, e)
  /\ UNCHANGED <<version, target, seenRoot, opened, kind>>

-----------------------------------------------------------------------------
Next ==
  \/ \E empty \in BOOLEAN : Read(empty)
  \/ ParseError
  \/ StopOnAbort
  \/ \E exact \in BOOLEAN : EndOfStream(exact)
  \/ \E v \in VersionAttrs : StartReflect(v)
  \/ StartIgnored
  \/ StartAppend
  \/ \E tag \in Tags, ta \in TypeAttrs :
       \/ StartMissingType(tag, ta)
       \/ \E na \in NameAttrs :
            \/ StartField(tag, ta, na)
            \/ StartComponent(tag, ta, na)
  \/ CharacterData
  \/ EndIgnored
  \/ EndElement

Spec == Init /\ [][Next]_vars

-----------------------------------------------------------------------------
(* Helpers for the properties.                                            *)

Occupied == {stack[i].elem : i \in 1 .. Len(stack)} \ {NULL}

(* The container fields of allocated elements: <<object, field>> pairs.   *)
ContainerSlots ==
  {<<o, f>> \in Handles \X AllFields :
     /\ kind[o] \in Classes
     /\ f \in DOMAIN FieldsOf[kind[o]]
     /\ FieldsOf[kind[o]][f] \in Containers}

ItemsOf(slot) == fieldVal[slot[1]][slot[2]]

Delivered == ToSet(spool) \cup ToSet(append)
               \cup UNION {ToSet(ItemsOf(slot)) : slot \in ContainerSlots}

Occurrences(s, h) == Len(SelectSeq(s, LAMBDA x : x = h))

(* How often object h was handed out as a result: to an output list or    *)
(* as an item of a container field.                                       *)
Deliveries(h) ==
  Occurrences(spool \o append, h)
    + MapThenSumSet(LAMBDA slot : Occurrences(ItemsOf(slot), h), ContainerSlots)

-----------------------------------------------------------------------------
(* SerializerBinding: a serializer is connected to a field exactly while  *)
(* it is being parsed for it, that is while its field frame sits directly *)
(* above the frame of the owning element (OnStartElement connects it,     *)
(* OnEndElement disconnects it before returning it to the cache).         *)
SerializerBinding ==
  \A h \in Handles : conn[h] # NULL =>
    \E i \in 2 .. Len(stack) :
      /\ stack[i].elem = h /\ stack[i].isField
      /\ stack[i].field = conn[h][2]
      /\ stack[i - 1].elem = conn[h][1]

(* RecycledNotInUse: an object in the cache's free pool is neither being  *)
(* parsed nor handed out as a result (OnEndElement frees only field       *)
(* serializers, and m_Cache.Create takes a reused object out of the pool).*)
RecycledNotInUse == pool \cap (Occupied \cup Delivered) = {}

(* DeliveredOnce: every decoded object is handed out at most once, to one *)
(* output list or one container field, even though freed serializers     *)
(* stay in their parent's m_Components and the cache recycles them.       *)
DeliveredOnce == \A h \in Handles : Deliveries(h) <= 1

(* AbortStopsParsing: once the status callback has set m_Abort, no        *)
(* callback changes the parse: every handler returns on m_Abort.          *)
AbortStopsParsing ==
  [][abort => UNCHANGED <<spool, append, stack, target, kind, pool, conn, fieldVal>>]_vars

-----------------------------------------------------------------------------
(* Properties the spec or the code's comments state, which the code does  *)
(* not keep (each is checked by a run that expects a violation).          *)

(* TopLevelSlotKept: "if this is a top level element push the result into *)
(* the target (even if its null)" (OnEndElement) and spec section 7: an   *)
(* unknown type yields null in its slot.  Every top-level element closed  *)
(* adds one entry to the output lists.                                     *)
TopLevelSlotKept ==
  [][(~abort /\ phase = "parsing" /\ phase' = "parsing" /\ xml # <<>>
      /\ Last(xml) = "Element" /\ Len(stack) = 1 /\ xml' = Front(xml))
     => Len(spool') + Len(append') = Len(spool) + Len(append) + 1]_vars

(* NoNullFieldDereference: OnEndElement never reads m_Field->m_Name       *)
(* through a null m_Field (the component case).                           *)
NoNullFieldDereference == phase # "crashed"

(* ContainerItemsKept: spec section 9, compact and expanded forms decode  *)
(* identically: the items parsed under a connected container serializer  *)
(* reach its field whether or not the tag also held character data.       *)
ContainerItemsKept ==
  [][(~abort /\ phase = "parsing" /\ xml # <<>> /\ Last(xml) = "Element"
      /\ stack # <<>> /\ xml' = Front(xml)
      /\ LET fr == Last(stack) IN
           fr.elem # NULL /\ kind[fr.elem] \in Containers /\ conn[fr.elem] # NULL)
     => LET fr == Last(stack) IN
          fieldVal'[conn[fr.elem][1]][conn[fr.elem][2]] = Remove(fr.comps, NULL)]_vars

(* AbortIsClean: spec sections 4.4 and 5: once abort is requested the read *)
(* stops cleanly, without raising an error.                               *)
AbortIsClean == abort => phase # "failed"

(* UnclosedRejected: spec section 3: every opened tag is closed within the *)
(* same parse, and malformed markup is fatal; a read of a document whose  *)
(* <Reflect> was opened finishes without an abort only once every tag,    *)
(* the root included, has been closed.                                    *)
UnclosedRejected == (phase = "done" /\ ~abort /\ seenRoot) => xml = <<>>

(* RefusedDiscarded: spec section 4.5: a component its parent's           *)
(* ProcessComponent refuses is discarded.                                 *)
RefusedDiscarded == refused \cap Delivered = {}
=============================================================================
