------------------------------- MODULE SceneInit -------------------------------
(***************************************************************************)
(* Editor::SceneInitialize and Editor::SceneCleanup                        *)
(* (src/Editor/Scene/SceneInit.cpp): a process-wide reference count        *)
(* g_InitCount and an InitializerStack g_InitializerStack.  The first      *)
(* SceneInitialize runs every library initializer and type registration in *)
(* order and pushes the matching cleanup; the last SceneCleanup pops and   *)
(* runs the cleanups in reverse order.                                     *)
(*                                                                         *)
(* The 50 pushes are grouped by what they touch: the Perforce, Reflect,    *)
(* Content and Asset libraries, the enumerations registered with Reflect,  *)
(* and the scene types registered with Reflect.  Reflect keeps its own     *)
(* reference count (Reflect::Initialize / Reflect::Cleanup, modelled from  *)
(* the spec's reference-counted registry) that another library of the     *)
(* process also holds.                                                     *)
(*                                                                         *)
(* An initializer may throw (FailAt names the position of the one that     *)
(* throws; NoFailure that none does); the exception leaves                 *)
(* SceneInitialize with the pushes made so far in place.                   *)
(***************************************************************************)
EXTENDS Integers, Sequences, SequencesExt, FiniteSets

CONSTANTS
  Clients,   \* code paths that call SceneInitialize / SceneCleanup in pairs
  Others,    \* other libraries holding their own Reflect reference
  FailAt     \* positions of Initializers whose initializer may throw

(* The push order of SceneInit.cpp lines 75-144, grouped.                 *)
Initializers == <<"Perforce", "Reflect", "Content", "Asset",
                  "Enumerations", "Types">>

(* The pushes that register something with the Reflect registry.          *)
Registrations == {"Enumerations", "Types"}

NoFailure == Len(Initializers) + 1

ASSUME FailAt \subseteq 1 .. NoFailure /\ NoFailure \in FailAt

VARIABLES
  initCount,  \* g_InitCount
  cleanups,   \* g_InitializerStack: the cleanups pushed, oldest first
  lib,        \* [live: libraries initialized, reflect: Reflect's count,
              \*  registered: registrations in the registry, fault]
  status,     \* client -> "out", "in", or "failed" (its call threw)
  other       \* the other libraries that hold a Reflect reference

vars == <<initCount, cleanups, lib, status, other>>

Libs == {"Perforce", "Content", "Asset"}

TypeOK ==
  /\ initCount \in 0 .. Cardinality(Clients)
  /\ cleanups \in Seq(Range(Initializers)) /\ Len(cleanups) <= Len(Initializers)
  /\ lib \in [live : SUBSET Libs, reflect : 0 .. 1 + Cardinality(Others),
              registered : SUBSET Registrations, fault : BOOLEAN]
  /\ status \in [Clients -> {"out", "in", "failed"}]
  /\ other \subseteq Others

Init ==
  /\ initCount = 0
  /\ cleanups = <<>>
  /\ lib = [live |-> {}, reflect |-> 0, registered |-> {}, fault |-> FALSE]
  /\ status = [c \in Clients |-> "out"]
  /\ other = {}

-----------------------------------------------------------------------------
(* Mutant of RunInit: Reflect::Initialize marks the registry as          *)
(* initialised instead of counting its users.                             *)
RunInitReflectOnce(l, x) ==
  CASE x = "Reflect"      -> [l EXCEPT !.reflect = 1]
    [] x \in Registrations -> IF l.reflect = 0 THEN [l EXCEPT !.fault = TRUE]
                              ELSE [l EXCEPT !.registered = @ \cup {x}]
    [] OTHER              -> [l EXCEPT !.live = @ \cup {x}]

(* Running the initializer of one push.  Reflect::Initialize creates the  *)
(* registry on its first reference; a registration into a registry that   *)
(* does not exist is a fault.                                             *)
RunInit(l, x) ==
  CASE x = "Reflect"      -> [l EXCEPT !.reflect = @ + 1]
    [] x \in Registrations -> IF l.reflect = 0 THEN [l EXCEPT !.fault = TRUE]
                              ELSE [l EXCEPT !.registered = @ \cup {x}]
    [] OTHER              -> [l EXCEPT !.live = @ \cup {x}]

(* Running the cleanup of one push.  Reflect::Cleanup destroys the        *)
(* registry, and what is registered in it, when its count reaches 0;      *)
(* unregistering from a destroyed registry is a fault.                    *)
RunCleanup(x, l) ==
  CASE x = "Reflect"      -> [l EXCEPT !.reflect = @ - 1,
                                       !.registered = IF l.reflect = 1 THEN {} ELSE @]
    [] x \in Registrations -> IF l.reflect = 0 THEN [l EXCEPT !.fault = TRUE]
                              ELSE [l EXCEPT !.registered = @ \ {x}]
    [] OTHER              -> [l EXCEPT !.live = @ \ {x}]

(* Mutant of Unwind: the cleanups run in push order.                      *)
UnwindInPushOrder(s, l) == FoldLeft(LAMBDA acc, x : RunCleanup(x, acc), l, s)

(* InitializerStack::Cleanup: pop and run every cleanup, newest first.    *)
Unwind(s, l) == FoldRight(RunCleanup, s, l)

(* The pushes that complete when the initializer at position k throws.    *)
Completed(k) == SubSeq(Initializers, 1, k - 1)

(* SceneInitialize: ++g_InitCount == 1 runs the pushes of lines 75-144;   *)
(* the initializer at position k may throw, leaving the count             *)
(* incremented and the earlier pushes on the stack.                       *)
SceneInitialize(c, k) ==
  /\ status[c] = "out"
  /\ k = NoFailure \/ initCount = 0
  /\ initCount' = initCount + 1
  /\ IF initCount + 1 = 1
       THEN /\ cleanups' = cleanups \o Completed(k)
            /\ lib' = FoldLeft(RunInit, lib, Completed(k))
       ELSE UNCHANGED <<cleanups, lib>>
  /\ status' = [status EXCEPT ![c] = IF k = NoFailure THEN "in" ELSE "failed"]
  /\ UNCHANGED other

(* Mutant of SceneCleanup: the test reads the count before it is          *)
(* decremented (g_InitCount-- == 0).                                      *)
SceneCleanupPostDecrement(c) ==
  /\ status[c] = "in"
  /\ initCount' = initCount - 1
  /\ IF initCount = 0
       THEN /\ lib' = Unwind(cleanups, lib)
            /\ cleanups' = <<>>
       ELSE UNCHANGED <<cleanups, lib>>
  /\ status' = [status EXCEPT ![c] = "out"]
  /\ UNCHANGED other

(* SceneCleanup: --g_InitCount == 0 unwinds the initializer stack.        *)
SceneCleanup(c) ==
  /\ status[c] = "in"
  /\ initCount' = initCount - 1
  /\ IF initCount - 1 = 0
       THEN /\ lib' = Unwind(cleanups, lib)
            /\ cleanups' = <<>>
       ELSE UNCHANGED <<cleanups, lib>>
  /\ status' = [status EXCEPT ![c] = "out"]
  /\ UNCHANGED other

(* Another library's Reflect::Initialize / Reflect::Cleanup pair.         *)
OtherInitialize(o) ==
  /\ o \notin other
  /\ other' = other \cup {o}
  /\ lib' = RunInit(lib, "Reflect")
  /\ UNCHANGED <<initCount, cleanups, status>>

OtherCleanup(o) ==
  /\ o \in other
  /\ other' = other \ {o}
  /\ lib' = RunCleanup("Reflect", lib)
  /\ UNCHANGED <<initCount, cleanups, status>>

Next ==
  \/ \E c \in Clients, k \in FailAt : SceneInitialize(c, k)
  \/ \E c \in Clients : SceneCleanup(c)
  \/ \E o \in Others : OtherInitialize(o)
  \/ \E o \in Others : OtherCleanup(o)

Spec == Init /\ [][Next]_vars

-----------------------------------------------------------------------------
(* While any client is between a successful SceneInitialize and its       *)
(* SceneCleanup, every scene enumeration and type is registered with      *)
(* Reflect: the reference count in SceneInitialize/SceneCleanup must      *)
(* never let one client's call skip or undo the work another relies on.   *)
RegisteredWhileInUse ==
  (\E c \in Clients : status[c] = "in") =>
     /\ lib.registered = Registrations
     /\ lib.live = Libs

(* No registration or unregistration ever runs against a destroyed        *)
(* registry: the initializer stack unwinds the scene types before the     *)
(* Reflect reference it took, whatever the other Reflect user does.       *)
NoUseAfterTeardown == ~lib.fault

(* When no client holds the scene libraries, everything SceneInitialize   *)
(* set up has been undone: the stack is empty, the libraries are shut     *)
(* down, and the only Reflect reference left is the other user's.         *)
ReleasedWhenUnused ==
  (\A c \in Clients : status[c] = "out") =>
     /\ cleanups = <<>>
     /\ lib.live = {}
     /\ lib.registered = {}
     /\ lib.reflect = Cardinality(other)

(* The abstract library under the refinement mapping: the clients that    *)
(* are in, the other Reflect users, the registry existing while Reflect's *)
(* count is positive, and the scene up while every library and type is.   *)
Abstract == INSTANCE SceneLibrary WITH
              users <- {c \in Clients : status[c] = "in"},
              holders <- other,
              registry <- lib.reflect > 0,
              sceneUp <- (lib.registered = Registrations /\ lib.live = Libs)

(* SceneLibraryRefined: every behaviour of SceneInitialize, SceneCleanup  *)
(* and the other library's Reflect::Initialize / Cleanup is one of the    *)
(* reference-counted library: each call acquires or releases for one      *)
(* client, and the registry and the scene types exist exactly as long as  *)
(* someone holds them, whatever the order of the calls.                   *)
SceneLibraryRefined == Abstract!Spec
====
