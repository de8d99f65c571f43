---------------------------- MODULE MCSceneNodeType ----------------------------
EXTENDS SceneNodeType

CONSTANTS typeA, typeB, n1, n2, n3, id1, id2, id3

(* Three nodes with distinct ids, one of them transient.                  *)
MCUniqueIds == (n1 :> id1) @@ (n2 :> id2) @@ (n3 :> id3)

(* n3 carries the id of n1.                                               *)
MCSharedId == (n1 :> id1) @@ (n2 :> id2) @@ (n3 :> id1)
====
