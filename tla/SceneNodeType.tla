---------------------------- MODULE SceneNodeType ----------------------------
(***************************************************************************)
(* Editor::SceneNodeType (src/Editor/Scene/SceneNodeType.cpp): a node type *)
(* keeps the table m_Instances from node id to node, and every scene node  *)
(* keeps a link back to its type (SceneNode::SetNodeType).  AddInstance,   *)
(* RemoveInstance and Reset change both sides and raise m_NodeAdded /      *)
(* m_NodeRemoved to the type's listeners.                                  *)
(*                                                                         *)
(* Node ids are TUIDs; two node objects can carry the same id (a node and  *)
(* the copy that undo or duplication creates before it is given a new id), *)
(* which IdOf expresses.  A listener's view is the set of nodes the events *)
(* announced.                                                              *)
(***************************************************************************)
EXTENDS FiniteSets, Functions, TLC

CONSTANTS
  NodeTypes,  \* SceneNodeType objects
  Nodes,      \* SceneNode objects
  IdOf,       \* [Nodes -> ids]: SceneNode::GetID
  Transient,  \* the nodes for which IsTransient() holds
  NULL

Ids == Range(IdOf)

ASSUME Transient \subseteq Nodes /\ NULL \notin Nodes \cup NodeTypes

VARIABLES
  instances,  \* type -> id -> node, NULL where the id has no entry
  nodeType,   \* node -> the type it links to (m_NodeType), or NULL
  announced   \* type -> the nodes its listeners were told are instances

vars == <<instances, nodeType, announced>>

TypeOK ==
  /\ instances \in [NodeTypes -> [Ids -> Nodes \cup {NULL}]]
  /\ nodeType \in [Nodes -> NodeTypes \cup {NULL}]
  /\ announced \in [NodeTypes -> SUBSET Nodes]

Init ==
  /\ instances = [t \in NodeTypes |-> [i \in Ids |-> NULL]]
  /\ nodeType = [n \in Nodes |-> NULL]
  /\ announced = [t \in NodeTypes |-> {}]

-----------------------------------------------------------------------------
(* Mutant of AddInstance: the transient test is inverted.                *)
AddInstanceInvertedTransient(t, n) ==
  /\ nodeType[n] = NULL
  /\ nodeType' = [nodeType EXCEPT ![n] = t]
  /\ instances' = IF instances[t][IdOf[n]] = NULL
                    THEN [instances EXCEPT ![t][IdOf[n]] = n]
                    ELSE instances
  /\ announced' = IF n \notin Transient THEN announced
                  ELSE [announced EXCEPT ![t] = @ \cup {n}]

(* AddInstance: the node is linked to the type first; the insert into     *)
(* m_Instances fails when the id already has an entry, which only breaks  *)
(* into a debugger; m_NodeAdded is raised for non-transient nodes either  *)
(* way.  The scene adds a node that belongs to no type.                   *)
AddInstance(t, n) ==
  /\ nodeType[n] = NULL
  /\ nodeType' = [nodeType EXCEPT ![n] = t]
  /\ instances' = IF instances[t][IdOf[n]] = NULL
                    THEN [instances EXCEPT ![t][IdOf[n]] = n]
                    ELSE instances
  /\ announced' = IF n \in Transient THEN announced
                  ELSE [announced EXCEPT ![t] = @ \cup {n}]

(* Mutant of RemoveInstance: the entry is looked up by the node's old     *)
(* link after the link was cleared, so nothing is erased.                 *)
RemoveInstanceAfterUnlink(t, n) ==
  /\ nodeType[n] = t
  /\ announced' = [announced EXCEPT ![t] = @ \ {n}]
  /\ instances' = instances
  /\ nodeType' = [nodeType EXCEPT ![n] = NULL]

(* RemoveInstance: m_NodeRemoved is raised, the entry of the node's id is *)
(* erased, whatever node it holds, and the node's link is cleared.  The   *)
(* scene removes a node from the type it links to.                        *)
RemoveInstance(t, n) ==
  /\ nodeType[n] = t
  /\ announced' = [announced EXCEPT ![t] = @ \ {n}]
  /\ instances' = [instances EXCEPT ![t][IdOf[n]] = NULL]
  /\ nodeType' = [nodeType EXCEPT ![n] = NULL]

(* Reset: m_Instances is cleared; no node link is touched and no event is *)
(* raised.                                                                *)
Reset(t) ==
  /\ instances' = [instances EXCEPT ![t] = [i \in Ids |-> NULL]]
  /\ UNCHANGED <<nodeType, announced>>

Next ==
  \/ \E t \in NodeTypes, n \in Nodes : AddInstance(t, n)
  \/ \E t \in NodeTypes, n \in Nodes : RemoveInstance(t, n)
  \/ \E t \in NodeTypes : Reset(t)

Spec == Init /\ [][Next]_vars

-----------------------------------------------------------------------------
(* Every entry of a type's m_Instances is a node that links back to that   *)
(* type under its own id: AddInstance, RemoveInstance and Reset never      *)
(* leave the table holding a node that was removed or moved elsewhere.     *)
TableImpliesLink ==
  \A t \in NodeTypes, i \in Ids :
     instances[t][i] # NULL =>
        /\ nodeType[instances[t][i]] = t
        /\ IdOf[instances[t][i]] = i

(* The listeners of a type know of every non-transient node in its       *)
(* m_Instances: m_NodeAdded and m_NodeRemoved, raised in AddInstance and  *)
(* RemoveInstance, keep their view a superset of the table.               *)
ListenersSeeInstances ==
  \A t \in NodeTypes, i \in Ids :
     instances[t][i] \in Nodes \ Transient => instances[t][i] \in announced[t]

(* Every node that links to a type is that type's instance for its id:    *)
(* the node-to-type link set in AddInstance is backed by a table entry.   *)
LinkImpliesTable ==
  \A n \in Nodes : nodeType[n] # NULL => instances[nodeType[n]][IdOf[n]] = n
====
