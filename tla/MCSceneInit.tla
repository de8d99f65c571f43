------------------------------ MODULE MCSceneInit ------------------------------
EXTENDS SceneInit

CONSTANTS c1, c2, c3, c4, c5, o1, o2

MCClients == {c1, c2, c3, c4, c5}
MCOthers == {o1, o2}
====
