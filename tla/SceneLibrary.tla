----------------------------- MODULE SceneLibrary -----------------------------
(***************************************************************************)
(* What the reference-counted initialisation of the scene libraries        *)
(* promises (spec section 3: class metadata lives from registration to     *)
(* the matching unregistration, with reference-counted init/cleanup so    *)
(* that repeated subsystem initialisation is safe), with no counter in it: *)
(* the scene types are up exactly while some client is between its        *)
(* initialise and its cleanup, and the Reflect registry exists exactly     *)
(* while a scene client or another library holds it.                       *)
(***************************************************************************)
CONSTANTS Clients, Others

VARIABLES
  users,     \* clients between initialise and cleanup
  holders,   \* other libraries holding the registry
  registry,  \* the registry exists
  sceneUp    \* the scene libraries are up and their types registered

absVars == <<users, holders, registry, sceneUp>>

Init ==
  /\ users = {} /\ holders = {}
  /\ registry = FALSE /\ sceneUp = FALSE

Acquire(c) ==
  /\ c \notin users
  /\ users' = users \cup {c}
  /\ registry' = TRUE /\ sceneUp' = TRUE
  /\ UNCHANGED holders

Release(c) ==
  /\ c \in users
  /\ users' = users \ {c}
  /\ sceneUp' = (users' # {})
  /\ registry' = (users' \cup holders # {})
  /\ UNCHANGED holders

Hold(o) ==
  /\ o \notin holders
  /\ holders' = holders \cup {o}
  /\ registry' = TRUE
  /\ UNCHANGED <<users, sceneUp>>

Drop(o) ==
  /\ o \in holders
  /\ holders' = holders \ {o}
  /\ registry' = (users \cup holders' # {})
  /\ UNCHANGED <<users, sceneUp>>

Next ==
  \/ \E c \in Clients : Acquire(c) \/ Release(c)
  \/ \E o \in Others : Hold(o) \/ Drop(o)

Spec == Init /\ [][Next]_absVars
====
