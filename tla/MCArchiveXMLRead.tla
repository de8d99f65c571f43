------------------------- MODULE MCArchiveXMLRead -------------------------
(***************************************************************************)
(* A small registry for checking ArchiveXMLRead: one element class Widget  *)
(* with a scalar field Count (IntSer) and a container field Items          *)
(* (ArraySer), an unregistered type name Unknown, and the tag name         *)
(* ElemTag ("Element"), which names no creatable type.                     *)
(***************************************************************************)
EXTENDS ArchiveXMLRead

CONSTANTS Widget, IntSer, ArraySer, Unknown, ElemTag, Count, Items

MCFieldsOf == [c \in {Widget} |-> (Count :> IntSer) @@ (Items :> ArraySer)]
=============================================================================
