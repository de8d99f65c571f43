------------------------------ MODULE ReflectDOM ------------------------------
(***************************************************************************)
(* The Reflect document tree (src/Foundation/Reflect/DOM.cpp):             *)
(* DocumentNode keeps its document, parent and previous/next sibling       *)
(* links; DocumentElement keeps the vector m_Children.  AddChild moves a   *)
(* node under an element, RemoveChild takes it out, and Initialize walks   *)
(* the tree from the document and resets every link.  ChildAdding and     *)
(* ChildRemoving listeners may veto a change.                              *)
(*                                                                         *)
(* The setters of DOM.h (SetParent, SetNextSibling, ...) are plain         *)
(* assignments of one side of a link; DocumentElement::SetDocument's       *)
(* re-wiring of event forwarding is left out, its m_Document assignment    *)
(* kept.  Root is the Document, whose m_Document is itself.                *)
(*                                                                         *)
(* Callers are not in this source.  With Edits FALSE they build a tree:    *)
(* AddChild of nodes that have no parent, RemoveChild of the child added   *)
(* last (undoing it), Initialize of the document.  With Edits TRUE they    *)
(* also move nodes between elements and remove any child.  They never      *)
(* make a node its own ancestor.                                           *)
(***************************************************************************)
EXTENDS Integers, Sequences, SequencesExt, FiniteSets, Relation

CONSTANTS
  Elements,     \* DocumentElement objects, Root among them
  Leaves,       \* DocumentNode objects that are not elements
  Root,         \* the Document
  NULL,
  Garbage,      \* the pointer read from before the start of m_Children
  MaxChildren,  \* bound on the length of one m_Children vector
  Edits         \* callers move nodes and remove arbitrary children

Nodes == Elements \cup Leaves

ASSUME /\ Root \in Elements /\ Elements \cap Leaves = {}
       /\ {NULL, Garbage} \cap Nodes = {} /\ MaxChildren \in Nat
       /\ Edits \in BOOLEAN

VARIABLES
  children,  \* element -> m_Children
  parent,    \* node -> m_Parent
  next,      \* node -> m_NextSibling
  prev,      \* node -> m_PreviousSibling
  doc,       \* node -> m_Document
  crashed    \* Initialize recursed without end (stack overflow)

vars == <<children, parent, next, prev, doc, crashed>>

Link == Nodes \cup {NULL, Garbage}

TypeOK ==
  /\ \A e \in Elements : children[e] \in Seq(Nodes) /\ Len(children[e]) <= MaxChildren
  /\ parent \in [Nodes -> Elements \cup {NULL}]
  /\ next \in [Nodes -> Link] /\ prev \in [Nodes -> Link]
  /\ doc \in [Nodes -> {Root, NULL}]
  /\ crashed \in BOOLEAN

Init ==
  /\ children = [e \in Elements |-> <<>>]
  /\ parent = [n \in Nodes |-> NULL]
  /\ next = [n \in Nodes |-> NULL]
  /\ prev = [n \in Nodes |-> NULL]
  /\ doc = [n \in Nodes |-> IF n = Root THEN Root ELSE NULL]
  /\ crashed = FALSE

-----------------------------------------------------------------------------
(* std::remove(begin, end, node): the nodes other than node are moved to  *)
(* the front in order; the slots after them keep what they held.  The     *)
(* vector's size does not change.                                         *)
StdRemove(s, v) ==
  LET kept == SelectSeq(s, LAMBDA x : x # v)
  IN  [j \in 1 .. Len(s) |-> IF j <= Len(kept) THEN kept[j] ELSE s[j]]

(* x is n or below n, following parent links.                             *)
Below(x, n) ==
  x = n \/ TransitiveClosure([p \in Nodes \X Nodes |-> parent[p[1]] = p[2]], Nodes)[x, n]

(* RemoveChild: m_Children.size() is compared with the size before        *)
(* std::remove, which never changed it, so the detaching branch (the      *)
(* ChildRemoving veto, the sibling splice, SetDocument(NULL),             *)
(* SetParent(NULL)) is never taken.                                       *)
RemoveChild(e, n) ==
  LET s == StdRemove(children[e], n)
  IN  /\ ~crashed
      /\ n \in Range(children[e])
      /\ Edits \/ n = Last(children[e])
      /\ children' = [children EXCEPT ![e] = s]
      /\ IF Len(s) < Len(children[e])
           THEN \E veto \in BOOLEAN :
                  IF veto THEN UNCHANGED <<parent, next, prev, doc>>
                  ELSE LET nx == next[n]
                           pv == prev[n]
                       IN  /\ next' = [x \in Nodes |->
                                        IF x = n /\ nx # NULL THEN NULL
                                        ELSE IF x = pv /\ nx # NULL THEN nx
                                        ELSE next[x]]
                           /\ prev' = [x \in Nodes |->
                                        IF x = n /\ pv # NULL THEN NULL
                                        ELSE IF x = nx /\ pv # NULL THEN pv
                                        ELSE prev[x]]
                           /\ doc' = [doc EXCEPT ![n] = NULL]
                           /\ parent' = [parent EXCEPT ![n] = NULL]
           ELSE UNCHANGED <<parent, next, prev, doc>>
      /\ UNCHANGED crashed

(* Mutant of AddChild: the node is re-parented before the listeners had   *)
(* their say, so a veto leaves it pointing at e.                          *)
AddChildParentBeforeVeto(e, n, veto) ==
  LET old == parent[n]
      base == IF old = e THEN StdRemove(children[e], n) ELSE children[e]
  IN  /\ ~crashed
      /\ n \notin Range(children[e]) /\ Len(children[e]) < MaxChildren
      /\ ~Below(e, n) /\ n # Root
      /\ Edits \/ old = NULL
      /\ parent' = [parent EXCEPT ![n] = e]
      /\ IF veto THEN UNCHANGED <<children, next, prev, doc>>
         ELSE /\ children' = [x \in Elements |->
                                IF x = e THEN Append(base, n)
                                ELSE IF x = old THEN StdRemove(children[x], n)
                                ELSE children[x]]
              /\ prev' = IF base # <<>> THEN [prev EXCEPT ![n] = Last(base)] ELSE prev
              /\ next' = [next EXCEPT ![n] = NULL]
              /\ doc' = [doc EXCEPT ![n] = doc[e]]
      /\ UNCHANGED crashed

(* AddChild: unless node is already in m_Children, ChildAdding is raised; *)
(* without a veto the node is removed from its old parent (RemoveChild),  *)
(* takes the last child as its previous sibling, gets no next sibling,    *)
(* takes e's document and e as parent, and is pushed.                     *)
AddChild(e, n, veto) ==
  LET old == parent[n]
      base == IF old = e THEN StdRemove(children[e], n) ELSE children[e]
  IN  /\ ~crashed
      /\ n \notin Range(children[e]) /\ Len(children[e]) < MaxChildren
      /\ ~Below(e, n) /\ n # Root
      /\ Edits \/ old = NULL
      /\ IF veto THEN UNCHANGED <<children, parent, next, prev, doc>>
         ELSE /\ children' = [x \in Elements |->
                                IF x = e THEN Append(base, n)
                                ELSE IF x = old THEN StdRemove(children[x], n)
                                ELSE children[x]]
              /\ prev' = IF base # <<>> THEN [prev EXCEPT ![n] = Last(base)] ELSE prev
              /\ next' = [next EXCEPT ![n] = NULL]
              /\ doc' = [doc EXCEPT ![n] = doc[e]]
              /\ parent' = [parent EXCEPT ![n] = e]
      /\ UNCHANGED crashed

(* The links DocumentNode::Initialize(document, parent, next, previous)   *)
(* sets on node c: each one unless the argument is c itself.              *)
InitNode(st, c, p, nx, pv) ==
  [parent |-> IF c # p THEN [st.parent EXCEPT ![c] = p] ELSE st.parent,
   next   |-> IF c # nx THEN [st.next EXCEPT ![c] = nx] ELSE st.next,
   prev   |-> IF c # pv THEN [st.prev EXCEPT ![c] = pv] ELSE st.prev,
   doc    |-> IF c # Root THEN [st.doc EXCEPT ![c] = Root] ELSE st.doc]

(* The siblings DocumentElement::Initialize passes to the child at index  *)
(* i: the next one, or NULL for the last; the previous one when           *)
(* itr-1 != begin, that is from index 3 on, NULL at index 2, and at index *)
(* 1 the value read from before the vector's storage.                     *)
NextOf(e, i) == IF i < Len(children[e]) THEN children[e][i + 1] ELSE NULL

PrevOf(e, i) == CASE i = 1 -> Garbage
                  [] i = 2 -> NULL
                  [] OTHER -> children[e][i - 1]

(* Mutant of InitChildren: the child's Initialize is called non-virtually *)
(* (DocumentNode::Initialize), so an element child's own children are not *)
(* visited.                                                                *)
RECURSIVE InitChildrenNonVirtual(_, _, _)
InitChildrenNonVirtual(st, e, i) ==
  IF i > Len(children[e]) THEN st
  ELSE InitChildrenNonVirtual(InitNode(st, children[e][i], e, NextOf(e, i), PrevOf(e, i)),
                              e, i + 1)

(* The loop of DocumentElement::Initialize over m_Children from index i;  *)
(* an element child runs the same loop over its own children.             *)
RECURSIVE InitChildren(_, _, _)
InitChildren(st, e, i) ==
  IF i > Len(children[e]) THEN st
  ELSE LET c == children[e][i]
           st2 == InitNode(st, c, e, NextOf(e, i), PrevOf(e, i))
       IN  InitChildren(IF c \in Elements THEN InitChildren(st2, c, 1) ELSE st2,
                        e, i + 1)

(* An element is reachable from itself through m_Children: the recursion  *)
(* of Initialize from the document never ends.                            *)
InitializeLoops ==
  LET tc == TransitiveClosure([p \in Elements \X Elements |->
                                 p[2] \in Range(children[p[1]])], Elements)
  IN  \E x \in Elements : (x = Root \/ tc[Root, x]) /\ tc[x, x]

(* Initialize(document, NULL, NULL, NULL) on the document.                *)
Initialize ==
  /\ ~crashed
  /\ IF InitializeLoops
       THEN /\ crashed' = TRUE
            /\ UNCHANGED <<children, parent, next, prev, doc>>
       ELSE LET st == InitChildren(InitNode([parent |-> parent, next |-> next,
                                             prev |-> prev, doc |-> doc],
                                            Root, NULL, NULL, NULL), Root, 1)
            IN  /\ parent' = st.parent /\ next' = st.next
                /\ prev' = st.prev /\ doc' = st.doc
                /\ UNCHANGED <<children, crashed>>

Next ==
  \/ \E e \in Elements, n \in Nodes, veto \in BOOLEAN : AddChild(e, n, veto)
  \/ \E e \in Elements, n \in Nodes : RemoveChild(e, n)
  \/ Initialize

Spec == Init /\ [][Next]_vars

-----------------------------------------------------------------------------
(* A node is in an element's m_Children exactly when its parent link      *)
(* names that element: AddChild, RemoveChild and Initialize keep the two  *)
(* sides of the parent/child relation together.                           *)
ParentChildAgree ==
  \A e \in Elements, n \in Nodes : n \in Range(children[e]) <=> parent[n] = e

(* The sibling links of the children of every element follow the order   *)
(* of m_Children, as AddChild and Initialize are meant to leave them.     *)
SiblingsAgree ==
  \A e \in Elements : \A i \in 1 .. Len(children[e]) :
     /\ next[children[e][i]] = IF i < Len(children[e]) THEN children[e][i + 1] ELSE NULL
     /\ prev[children[e][i]] = IF i > 1 THEN children[e][i - 1] ELSE NULL

(* Right after Initialize the sibling links of every child agree with the *)
(* order of m_Children: Initialize exists to set them.                    *)
InitializeLinksSiblings == [][Initialize => SiblingsAgree']_vars

(* A RemoveChild that no listener vetoes takes the node out of the        *)
(* element's m_Children and clears its parent link.                       *)
RemoveDetaches ==
  [][\A e \in Elements, n \in Nodes :
        RemoveChild(e, n) => n \notin Range(children'[e]) /\ parent'[n] = NULL]_vars

(* Every node has its parent's document.  AddChild gives it only to the   *)
(* node moved (DocumentNode::SetDocument does not recurse), so a subtree   *)
(* built apart and then added keeps the old document below its top.        *)
DocumentFollowsParent ==
  \A n \in Nodes : parent[n] # NULL => doc[n] = doc[parent[n]]

(* Initialize of the document repairs that: right after it, every node   *)
(* has its parent's document, however the tree was assembled before.      *)
InitializeAdoptsDocument == [][Initialize => DocumentFollowsParent']_vars

(* Initialize of the document returns: m_Children never lead from an      *)
(* element back to itself.                                                *)
InitializeTerminates == ~crashed
====
