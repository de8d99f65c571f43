----------------------- MODULE MCArchiveXMLRoundTrip -----------------------
(***************************************************************************)
(* Two element classes: Widget, with a scalar field Count (IntSer) and a   *)
(* container field Items (ArraySer), and Gadget, with a scalar field Id   *)
(* flagged Force, a scalar field Note flagged Discard and a scalar field  *)
(* Tag with no default.  The objects written are Widgets holding at most  *)
(* one item and Gadgets; the lists                                         *)
(* written are those whose text has at most MaxTags start tags.            *)
(***************************************************************************)
EXTENDS ArchiveXMLRoundTrip

CONSTANTS Widget, Gadget, IntSer, ArraySer, Count, Items, Id, Note, Tag

MCFieldsOf == [c \in {Widget, Gadget} |->
                 IF c = Widget THEN (Count :> IntSer) @@ (Items :> ArraySer)
                 ELSE (Id :> IntSer) @@ (Note :> IntSer) @@ (Tag :> IntSer)]

ScalarValues == {"Default", "Set"}

Gadgets == {[type |-> Gadget, val |-> (Id :> i) @@ (Note :> n) @@ (Tag :> t)] :
              i, n, t \in ScalarValues}

LeafWidgets == {[type |-> Widget, val |-> (Count :> c) @@ (Items :> <<>>)] : c \in ScalarValues}

Objects == Gadgets \cup
  {[type |-> Widget, val |-> (Count :> c) @@ (Items :> s)] :
     c \in ScalarValues, s \in {<<>>} \cup {<<x>> : x \in LeafWidgets \cup Gadgets}}

StartTags(s, a) == Len(SelectSeq(W!Write(s, a, FALSE), LAMBDA ev : ev.k = "open"))

MCOriginals ==
  {o \in [spool : {<<x>> : x \in Objects} \cup {<<x, y>> : x, y \in Objects},
          append : {<<>>} \cup {<<g>> : g \in Gadgets}] :
     StartTags(o.spool, o.append) <= MaxTags}
=============================================================================
