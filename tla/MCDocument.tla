------------------------------ MODULE MCDocument ------------------------------
(* A managed path, an unmanaged path and the empty path; two listeners;    *)
(* handlers may re-enter once; four setter calls by the application.       *)
EXTENDS Document

CONSTANTS empty, managed1, plain1, l1, l2

MCPaths == {empty, managed1, plain1}
MCRevision == [p \in {managed1} |-> 7]
MCListeners == <<l1, l2>>

=============================================================================
