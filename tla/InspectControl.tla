---------------------------- MODULE InspectControl ----------------------------
(***************************************************************************)
(* Inspect::Control (src/Foundation/Inspect/Control.cpp): a property-sheet *)
(* control bound to a Data object (m_BoundData), realized on a Canvas      *)
(* (m_Canvas, m_IsRealized) as a widget, and placed under a Container      *)
(* (m_Parent).  A control listens to its data's Changed event            *)
(* (DataChanged) and re-reads it into its widget; a user edit goes through *)
(* WriteAllStringData, which raises e_ControlChanging (a listener may     *)
(* veto), sets the data with m_IsWriting raised so that its own DataChanged *)
(* is skipped, and re-reads the data afterwards (PostWrite), because a     *)
(* validator may have changed the value.                                   *)
(*                                                                         *)
(* Canvas, Container, Data and Widget are declared in headers that are not *)
(* in this source.  Their parts that the control's code drives are         *)
(* modelled from what the calls promise: Canvas::RealizeControl builds the *)
(* widget, which reads the bound data, and UnrealizeControl destroys it;   *)
(* Container::AddChild / RemoveChild add and remove the child; the data's  *)
(* SetAll stores the strings or a validated form of them (Adjust), raises  *)
(* Changed to its listeners, and may refuse them (when Rejects).           *)
(*                                                                         *)
(* Callers are not in this source.  They bind, re-canvas and destroy only *)
(* unrealized controls, as an inspector does while it builds a panel      *)
(* before the canvas realizes it, and destroy a control only when no      *)
(* container holds it (the ControlPtr of m_Children keeps it alive).      *)
(***************************************************************************)
EXTENDS FiniteSets

CONSTANTS
  Controls,    \* Control objects
  Containers,  \* the Container objects among them
  Datas,       \* Data objects a control can be bound to
  Canvases,
  Values,      \* the string values of a data object
  Adjust,      \* [Values -> Values]: what the data's validator stores
  Defaults,    \* [Controls -> Values \cup {NULL}]: a_Default, NULL if empty
  Rejects,     \* SetAll may return false
  NULL

ASSUME /\ Containers \subseteq Controls /\ NULL \notin Controls \cup Datas \cup Canvases \cup Values
       /\ Adjust \in [Values -> Values] /\ Rejects \in BOOLEAN

VARIABLES
  alive,      \* controls not yet destroyed
  bound,      \* m_BoundData
  listeners,  \* data -> the controls whose DataChanged it calls
  value,      \* data -> its current value
  realized,   \* m_IsRealized
  canvas,     \* m_Canvas
  onCanvas,   \* canvas -> the controls it realized and has not unrealized
  display,    \* control -> [val, dflt] its widget shows, NULL without a widget
  parent,     \* m_Parent
  kids        \* container -> its children

vars == <<alive, bound, listeners, value, realized, canvas, onCanvas, display, parent, kids>>

Display == [val : Values \cup {NULL}, dflt : BOOLEAN]

TypeOK ==
  /\ alive \subseteq Controls
  /\ bound \in [Controls -> Datas \cup {NULL}]
  /\ listeners \in [Datas -> SUBSET Controls]
  /\ value \in [Datas -> Values]
  /\ realized \in [Controls -> BOOLEAN]
  /\ canvas \in [Controls -> Canvases \cup {NULL}]
  /\ onCanvas \in [Canvases -> SUBSET Controls]
  /\ display \in [Controls -> Display \cup {NULL}]
  /\ parent \in [Controls -> Containers \cup {NULL}]
  /\ kids \in [Containers -> SUBSET Controls]

Init ==
  /\ alive = Controls
  /\ bound = [c \in Controls |-> NULL]
  /\ listeners = [d \in Datas |-> {}]
  /\ value \in [Datas -> Values]
  /\ realized = [c \in Controls |-> FALSE]
  /\ canvas = [c \in Controls |-> NULL]
  /\ onCanvas = [k \in Canvases |-> {}]
  /\ display = [c \in Controls |-> NULL]
  /\ parent = [c \in Controls |-> NULL]
  /\ kids = [p \in Containers |-> {}]

-----------------------------------------------------------------------------
(* IsDefault: a_Default is not empty and equals the bound string data.    *)
IsDefault(c, vf) == Defaults[c] # NULL /\ bound[c] # NULL /\ vf[bound[c]] = Defaults[c]

(* Read(): the widget, if any, reads the bound data (it keeps what it      *)
(* shows when there is none), then SetDefaultAppearance(IsDefault()).      *)
ReadInto(c, vf, disp) ==
  IF display[c] = NULL THEN NULL
  ELSE [val |-> IF bound[c] # NULL THEN vf[bound[c]] ELSE disp.val,
        dflt |-> IsDefault(c, vf)]

(* The widget Canvas::RealizeControl builds reads the bound data.          *)
Built(c) == [val |-> IF bound[c] # NULL THEN value[bound[c]] ELSE NULL,
             dflt |-> IsDefault(c, value)]

(* Mutant of Bind: the delegate is not removed from the old data.         *)
BindKeepsListener(c, d) ==
  /\ c \in alive /\ ~realized[c]
  /\ IF bound[c] = NULL \/ d = NULL
       THEN /\ bound' = [bound EXCEPT ![c] = d]
            /\ listeners' = [x \in Datas |-> IF x = d THEN listeners[x] \cup {c}
                                             ELSE listeners[x]]
       ELSE UNCHANGED <<bound, listeners>>
  /\ UNCHANGED <<alive, value, realized, canvas, onCanvas, display, parent, kids>>

(* Bind: only when the control is unbound or the new data is null: the    *)
(* DataChanged delegate leaves the old data and joins the new one.  The   *)
(* widget does not re-read.                                                *)
Bind(c, d) ==
  /\ c \in alive /\ ~realized[c]
  /\ IF bound[c] = NULL \/ d = NULL
       THEN /\ bound' = [bound EXCEPT ![c] = d]
            /\ listeners' = [x \in Datas |->
                               IF x = d THEN listeners[x] \cup {c}
                               ELSE IF x = bound[c] THEN listeners[x] \ {c}
                               ELSE listeners[x]]
       ELSE UNCHANGED <<bound, listeners>>
  /\ UNCHANGED <<alive, value, realized, canvas, onCanvas, display, parent, kids>>
(* Realize: unless realized, m_Canvas is set, the canvas realizes the      *)
(* control (its widget is built) and m_IsRealized is raised.               *)
Realize(c, k) ==
  /\ c \in alive
  /\ IF ~realized[c]
       THEN /\ canvas' = [canvas EXCEPT ![c] = k]
            /\ onCanvas' = [onCanvas EXCEPT ![k] = @ \cup {c}]
            /\ display' = [display EXCEPT ![c] = Built(c)]
            /\ realized' = [realized EXCEPT ![c] = TRUE]
       ELSE UNCHANGED <<canvas, onCanvas, display, realized>>
  /\ UNCHANGED <<alive, bound, listeners, value, parent, kids>>

(* Mutant of Unrealize: m_Canvas is cleared before UnrealizeControl is     *)
(* called on it, so no canvas lets go of the control.                      *)
UnrealizeClearsFirst(c) ==
  /\ c \in alive /\ realized[c]
  /\ canvas' = [canvas EXCEPT ![c] = NULL]
  /\ display' = [display EXCEPT ![c] = NULL]
  /\ realized' = [realized EXCEPT ![c] = FALSE]
  /\ UNCHANGED <<alive, bound, listeners, value, onCanvas, parent, kids>>

(* Unrealize: if realized, m_Canvas->UnrealizeControl(this) (the widget    *)
(* goes), m_Canvas = NULL, m_IsRealized = false.                           *)
Unrealize(c) ==
  /\ c \in alive /\ realized[c]
  /\ onCanvas' = [onCanvas EXCEPT ![canvas[c]] = @ \ {c}]
  /\ canvas' = [canvas EXCEPT ![c] = NULL]
  /\ display' = [display EXCEPT ![c] = NULL]
  /\ realized' = [realized EXCEPT ![c] = FALSE]
  /\ UNCHANGED <<alive, bound, listeners, value, parent, kids>>

(* SetCanvas: m_Canvas changes only when it differs; the assertion that   *)
(* one of old and new is NULL is compiled out of a release build.          *)
SetCanvas(c, k) ==
  /\ c \in alive /\ ~realized[c] /\ canvas[c] # k
  /\ canvas' = [canvas EXCEPT ![c] = k]
  /\ UNCHANGED <<alive, bound, listeners, value, realized, onCanvas, display, parent, kids>>

(* SetParent: m_Parent is set first, then the old parent removes and the  *)
(* new one adds the child.                                                 *)
SetParent(c, p) ==
  /\ c \in alive /\ p # c /\ parent[c] # p
  /\ parent' = [parent EXCEPT ![c] = p]
  /\ kids' = [x \in Containers |->
                IF x = p THEN kids[x] \cup {c}
                ELSE IF x = parent[c] THEN kids[x] \ {c}
                ELSE kids[x]]
  /\ UNCHANGED <<alive, bound, listeners, value, realized, canvas, onCanvas, display>>

(* ~Control: the DataChanged delegate is removed from the bound data and  *)
(* m_IsRealized cleared.                                                   *)
Destroy(c) ==
  /\ c \in alive /\ ~realized[c] /\ parent[c] = NULL
  /\ c \in Containers => kids[c] = {}
  /\ alive' = alive \ {c}
  /\ listeners' = IF bound[c] # NULL
                    THEN [listeners EXCEPT ![bound[c]] = @ \ {c}]
                    ELSE listeners
  /\ UNCHANGED <<bound, value, realized, canvas, onCanvas, display, parent, kids>>

(* Mutant of WriteAllStringData: PostWrite does not re-read the data.      *)
NotifiedNoReread(d, vf, writer, edited) ==
  [x \in Controls |->
     IF x = writer THEN edited
     ELSE IF x \in listeners[d] THEN ReadInto(x, vf, display[x])
     ELSE display[x]]

(* What the widgets show after data d took the value vf[d] and raised      *)
(* Changed: DataChanged of each listener (skipped for the writer, whose   *)
(* m_IsWriting is set) calls Read(); then the writer's PostWrite calls     *)
(* Read() too.                                                             *)
Notified(d, vf, writer, edited) ==
  [x \in Controls |->
     IF x = writer THEN ReadInto(x, vf, edited)
     ELSE IF x \in listeners[d] THEN ReadInto(x, vf, display[x])
     ELSE display[x]]

(* A user edits the widget of c to v and the widget calls                 *)
(* WriteAllStringData(v): without string data it returns false; when v is *)
(* the current value it returns true; a veto of e_ControlChanging makes   *)
(* it Read() and return false; otherwise SetAll stores v or its validated *)
(* form s and PostWrite runs, or SetAll refuses and it returns false.      *)
WriteAllStringData(c, v) ==
  LET d == bound[c]
      cur == IF d # NULL THEN value[d] ELSE NULL
      edited == [display[c] EXCEPT !.val = v]
  IN  /\ c \in alive /\ realized[c]
      /\ \/ /\ d = NULL \/ v = cur
            /\ display' = [display EXCEPT ![c] = edited]
            /\ UNCHANGED value
         \/ /\ d # NULL /\ v # cur
            /\ display' = [display EXCEPT ![c] = ReadInto(c, value, edited)]
            /\ UNCHANGED value
         \/ /\ d # NULL /\ v # cur
            /\ \E s \in {v, Adjust[v]} :
                 LET vf == [value EXCEPT ![d] = s]
                 IN  /\ value' = vf
                     /\ display' = Notified(d, vf, c, edited)
         \/ /\ Rejects /\ d # NULL /\ v # cur
            /\ display' = [display EXCEPT ![c] = edited]
            /\ UNCHANGED value
      /\ UNCHANGED <<alive, bound, listeners, realized, canvas, onCanvas, parent, kids>>

(* The data is set by someone other than a control (an undo, another      *)
(* view) and raises Changed: DataChanged of every listener calls Read().   *)
DataChanged(d, v) ==
  LET vf == [value EXCEPT ![d] = v]
  IN  /\ value' = vf
      /\ display' = Notified(d, vf, NULL, NULL)
      /\ UNCHANGED <<alive, bound, listeners, realized, canvas, onCanvas, parent, kids>>

Next ==
  \/ \E c \in Controls, d \in Datas \cup {NULL} : Bind(c, d)
  \/ \E c \in Controls, k \in Canvases : Realize(c, k)
  \/ \E c \in Controls : Unrealize(c)
  \/ \E c \in Controls, k \in Canvases \cup {NULL} : SetCanvas(c, k)
  \/ \E c \in Controls, p \in Containers \cup {NULL} : SetParent(c, p)
  \/ \E c \in Controls : Destroy(c)
  \/ \E c \in Controls, v \in Values : WriteAllStringData(c, v)
  \/ \E d \in Datas, v \in Values : DataChanged(d, v)

Spec == Init /\ [][Next]_vars

-----------------------------------------------------------------------------
(* ShowsData: the widget of every realized control bound to data shows   *)
(* the data's value and default appearance, after its own edits (vetoed, *)
(* validated into another value, or equal to the value), the edits of     *)
(* other controls bound to the same data, and changes made elsewhere.     *)
ShowsData ==
  \A c \in alive :
     display[c] # NULL /\ bound[c] # NULL =>
        display[c] = [val |-> value[bound[c]], dflt |-> IsDefault(c, value)]

(* ListenersMatchBinding: a data object calls back exactly the live      *)
(* controls bound to it: Bind moves the DataChanged delegate with the     *)
(* binding and ~Control removes it, so no destroyed or rebound control is *)
(* called back.                                                           *)
ListenersMatchBinding ==
  \A d \in Datas : listeners[d] = {c \in alive : bound[c] = d}

(* CanvasHoldsRealized: a canvas holds exactly the controls realized on  *)
(* it, across Realize of a realized control (ignored), Unrealize and      *)
(* SetCanvas.                                                              *)
CanvasHoldsRealized ==
  \A k \in Canvases : onCanvas[k] = {c \in Controls : realized[c] /\ canvas[c] = k}
====
