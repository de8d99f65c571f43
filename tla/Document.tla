------------------------------- MODULE Document -------------------------------
(***************************************************************************)
(* Helium::Document (src/Foundation/Document/Document.cpp): a path, the    *)
(* revision of the file at that path, the modified flag and the            *)
(* allow-changes flag, and two events, m_PathChanged and m_Modified.       *)
(*                                                                         *)
(* Event::Raise (a header not in this source) calls the delegates in       *)
(* registration order, synchronously: a handler runs inside the setter    *)
(* that raised, and may itself call SetModified or SetPath, which raise    *)
(* again before the outer Raise reaches the later listeners.  The stack of *)
(* Raise calls in progress is `frames`.  The handlers' own code is not in  *)
(* this source: each reads the document (DocumentChangedArgs carries only  *)
(* the document) and may call a setter.                                     *)
(*                                                                         *)
(* RCS (not in this source) answers PathIsManaged, and GetInfo may throw;  *)
(* the revision then is the m_LocalRevision of a File whose info was never *)
(* read, FailedRevision.                                                    *)
(***************************************************************************)
EXTENDS Integers, Sequences

CONSTANTS
  Paths,
  EmptyPath,       \* the empty tstring
  Managed,         \* the paths RCS::PathIsManaged accepts
  Revision,        \* [Managed -> Int]: the local revision GetInfo reads
  FailedRevision,  \* m_LocalRevision when GetInfo throws
  Listeners,       \* the delegates of both events, in registration order
  MaxDepth,        \* Raise calls nested at most
  MaxCalls         \* setter calls made by the application

ASSUME /\ EmptyPath \in Paths /\ Managed \subseteq Paths \ {EmptyPath}
       /\ Len(Listeners) > 0 /\ MaxDepth \in Nat /\ MaxCalls \in Nat

VARIABLES
  path, revision, modified, allowChanges,
  frames,    \* the Raise calls in progress, innermost last
  view,      \* what each listener last read of IsModified() in a handler
  known,     \* what each listener last read of GetPath() in a handler
  calls      \* setter calls the application has made

vars == <<path, revision, modified, allowChanges, frames, view, known, calls>>

L == DOMAIN Listeners

Events == {"path", "modified"}

TypeOK ==
  /\ path \in Paths
  /\ revision \in Int
  /\ modified \in BOOLEAN /\ allowChanges \in BOOLEAN
  /\ frames \in Seq([ev : Events, old : Paths, next : 1 .. Len(Listeners) + 1])
  /\ view \in [L -> BOOLEAN]
  /\ known \in [L -> Paths]
  /\ calls \in 0 .. MaxCalls

(* UpdateFileInfo: the revisions m_Revision may end with for path p.      *)
UpdateFileInfo(p) ==
  IF p = EmptyPath \/ p \notin Managed THEN {-1}
  ELSE {Revision[p], FailedRevision}

(* The constructor: m_IsModified and m_AllowChanges false, then           *)
(* UpdateFileInfo.  Listeners are added afterwards, knowing the path.     *)
Init ==
  /\ path \in Paths
  /\ revision \in UpdateFileInfo(path)
  /\ modified = FALSE /\ allowChanges = FALSE
  /\ frames = <<>>
  /\ view = [l \in L |-> FALSE]
  /\ known = [l \in L |-> path]
  /\ calls = 0

(* Event::Raise on top of the frames fs: its delegates are then called    *)
(* one at a time.                                                           *)
Raise(fs, ev, old) == fs \o <<[ev |-> ev, old |-> old, next |-> 1]>>

-----------------------------------------------------------------------------
(* The setters, as state changes on top of the frame stack fs they are    *)
(* called with.                                                             *)

(* SetPath: m_Path = newPath; UpdateFileInfo(); m_PathChanged.Raise with   *)
(* the old path.  There is no test that the path differs.                 *)
SetPath(fs, p) ==
  /\ path' = p
  /\ revision' \in UpdateFileInfo(p)
  /\ frames' = Raise(fs, "path", path)
  /\ UNCHANGED <<modified, allowChanges>>

(* A SetModified that raises only when the flag becomes set.              *)
SetModifiedOnlyWhenSet(fs, b) ==
  IF modified # b
  THEN /\ modified' = b
       /\ frames' = IF b THEN Raise(fs, "modified", path) ELSE fs
       /\ UNCHANGED <<path, revision, allowChanges>>
  ELSE /\ frames' = fs
       /\ UNCHANGED <<path, revision, modified, allowChanges>>

(* SetModified: only a change of m_IsModified is stored and raised.       *)
SetModified(fs, b) ==
  IF modified # b
  THEN /\ modified' = b
       /\ frames' = Raise(fs, "modified", path)
       /\ UNCHANGED <<path, revision, allowChanges>>
  ELSE /\ frames' = fs
       /\ UNCHANGED <<path, revision, modified, allowChanges>>

(* SetAllowChanges: m_AllowChanges = allowChanges; no event.              *)
SetAllowChanges(fs, b) ==
  /\ allowChanges' = b
  /\ frames' = fs
  /\ UNCHANGED <<path, revision, modified>>

(* A call of one of the setters.                                           *)
Call(fs) ==
  \/ \E p \in Paths : SetPath(fs, p)
  \/ \E b \in BOOLEAN : SetModified(fs, b)
  \/ \E b \in BOOLEAN : SetAllowChanges(fs, b)

-----------------------------------------------------------------------------
(* The application calls a setter while no event is being raised.         *)
AppCall ==
  /\ frames = <<>> /\ calls < MaxCalls
  /\ Call(<<>>)
  /\ calls' = calls + 1
  /\ UNCHANGED <<view, known>>

(* Event::Raise calls the next delegate of the innermost frame.  The      *)
(* handler reads the document; it may return, or call a setter, whose own *)
(* Raise then runs before this one continues.                              *)
Deliver ==
  /\ frames # <<>>
  /\ LET f == frames[Len(frames)]
         l == f.next
         rest == [frames EXCEPT ![Len(frames)].next = l + 1]
     IN /\ l <= Len(Listeners)
        /\ view' = IF f.ev = "modified" THEN [view EXCEPT ![l] = modified]
                   ELSE view
        /\ known' = IF f.ev = "path" THEN [known EXCEPT ![l] = path]
                    ELSE known
        /\ \/ /\ frames' = rest
              /\ UNCHANGED <<path, revision, modified, allowChanges>>
           \/ Len(frames) < MaxDepth /\ Call(rest)
  /\ UNCHANGED calls

(* Raise returns once every delegate has been called.                     *)
Return ==
  /\ frames # <<>>
  /\ frames[Len(frames)].next > Len(Listeners)
  /\ frames' = SubSeq(frames, 1, Len(frames) - 1)
  /\ UNCHANGED <<path, revision, modified, allowChanges, view, known, calls>>

Next == AppCall \/ Deliver \/ Return

Spec == Init /\ [][Next]_vars

-----------------------------------------------------------------------------
(* What each listener last read in an m_Modified handler is the document's *)
(* flag once every Raise has returned: no change of m_IsModified, made by  *)
(* the application or by another listener's handler, goes unannounced.    *)
ModifiedViewCurrent ==
  frames = <<>> => \A l \in L : view[l] = modified

(* DocumentPathChangedArgs carries the old path: the listener about to be *)
(* called for an m_PathChanged event is told the path it last read, so a  *)
(* listener keyed by path (a document manager) finds its entry.  A handler *)
(* that calls SetPath breaks this for the listeners after it: they are    *)
(* called for the inner change first, and then for the outer one.         *)
PathChangesChain ==
  LET f == frames[Len(frames)] IN
  frames # <<>> /\ f.ev = "path" /\ f.next <= Len(Listeners)
    => f.old = known[f.next]

=============================================================================
