-------------------------------- MODULE Locker --------------------------------
(***************************************************************************)
(* Helium::Mutex, TakeMutex and Locker<T> (src/Platform/Mutex.h), used by  *)
(* several threads.                                                        *)
(*                                                                         *)
(* A Locker<T> holds an m_Data and an m_Mutex; Locker::Lock() returns a    *)
(* Handle whose constructor locks the mutex and whose destructor unlocks   *)
(* it, and whose operator-> gives the data.  A TakeMutex is the same       *)
(* scope guard around a plain Mutex that guards data of the caller.  Each  *)
(* thread, Rounds times, opens such a scope on one object, increments the  *)
(* guarded counter through it (a read and a write: ++ on a member is not   *)
(* atomic), or throws before the write, and leaves the scope.              *)
(*                                                                         *)
(* Locker::Lock returns the Handle by value, and Handle has the implicit   *)
(* copy constructor.  When the compiler does not elide the copies (Elide   *)
(* FALSE, as with -fno-elide-constructors), the temporary Handle(this) and *)
(* the returned value are destroyed before the caller uses its handle: two *)
(* more Unlock calls.  Mutex::Lock / Unlock are in Mutex.cpp, not in this *)
(* source: Lock blocks until the mutex is free,                            *)
(* Unlock frees it; an Unlock of a mutex the thread does not hold is       *)
(* undefined for a default pthread mutex, and is modelled by the outcome   *)
(* of glibc's normal mutex, which frees it whoever holds it.               *)
(***************************************************************************)
EXTENDS Naturals

CONSTANTS
  Threads,
  Lockers,    \* Locker<T> objects: m_Mutex and m_Data
  Mutexes,    \* Mutex objects taken with TakeMutex
  Rounds,     \* scopes each thread opens
  Elide,      \* whether the copies of Locker::Lock's Handle are elided
  NoOwner

Objects == Lockers \cup Mutexes

ASSUME /\ Lockers \cap Mutexes = {}
       /\ NoOwner \notin Threads
       /\ Rounds \in Nat
       /\ Elide \in BOOLEAN

VARIABLES
  owner,    \* the thread holding each object's mutex (Mutex::m_Handle)
  data,     \* each object's guarded counter (Locker::m_Data)
  pc,       \* where each thread is in its scope
  using,    \* the object of the thread's current scope
  tmp,      \* the value the thread read through its handle
  rounds,   \* scopes the thread has left
  done      \* increments completed on each object (history)

vars == <<owner, data, pc, using, tmp, rounds, done>>

PCs == {"idle", "lock", "read", "write", "unlock", "done"}

TypeOK ==
  /\ owner \in [Objects -> Threads \cup {NoOwner}]
  /\ data \in [Objects -> Nat]
  /\ pc \in [Threads -> PCs]
  /\ using \in [Threads -> Objects]
  /\ tmp \in [Threads -> Nat]
  /\ rounds \in [Threads -> 0 .. Rounds]
  /\ done \in [Objects -> Nat]

(* Mutex(): the handle starts unlocked; m_Data is default-constructed.    *)
Init ==
  /\ owner = [o \in Objects |-> NoOwner]
  /\ data = [o \in Objects |-> 0]
  /\ pc = [t \in Threads |-> IF Rounds > 0 THEN "idle" ELSE "done"]
  /\ using = [t \in Threads |-> CHOOSE o \in Objects : TRUE]
  /\ tmp = [t \in Threads |-> 0]
  /\ rounds = [t \in Threads |-> 0]
  /\ done = [o \in Objects |-> 0]

-----------------------------------------------------------------------------
(* Mutex::Lock: blocks while another thread holds the mutex.              *)
MutexLock(o, t) ==
  /\ owner[o] = NoOwner
  /\ owner' = [owner EXCEPT ![o] = t]

(* Mutex::Unlock: the mutex is free afterwards.                           *)
MutexUnlock(o) ==
  owner' = [owner EXCEPT ![o] = NoOwner]

(* The thread enters a function that opens a scope on object o:           *)
(* `Locker<T>::Handle h = locker.Lock();` or `TakeMutex take(mutex);`.     *)
Begin(t, o) ==
  /\ pc[t] = "idle"
  /\ pc' = [pc EXCEPT ![t] = "lock"]
  /\ using' = [using EXCEPT ![t] = o]
  /\ UNCHANGED <<owner, data, tmp, rounds, done>>

(* A build that does not elide the return copies of Locker::Lock.         *)
AcquireCopiesAlways(t) ==
  LET o == using[t]
      copied == o \in Lockers
  IN /\ pc[t] = "lock"
     /\ IF copied THEN owner[o] = NoOwner /\ UNCHANGED owner
                   ELSE MutexLock(o, t)
     /\ pc' = [pc EXCEPT ![t] = "read"]
     /\ UNCHANGED <<data, using, tmp, rounds, done>>

(* Handle(Locker* locker) and TakeMutex(Mutex& m) lock in their           *)
(* constructor.  For a Locker, Lock() then returns the Handle by value:   *)
(* unless the copies are elided, the temporary and the returned value are *)
(* destroyed, each ~Handle unlocking, before the caller's handle is used. *)
(* Those Unlock calls run in this thread right after the Lock, so they    *)
(* are taken in the same step.                                             *)
Acquire(t) ==
  LET o == using[t]
      copied == o \in Lockers /\ ~Elide
  IN /\ pc[t] = "lock"
     /\ IF copied THEN owner[o] = NoOwner /\ UNCHANGED owner
                   ELSE MutexLock(o, t)
     /\ pc' = [pc EXCEPT ![t] = "read"]
     /\ UNCHANGED <<data, using, tmp, rounds, done>>

(* h->count: operator-> yields &m_Locker->m_Data, and the thread reads.   *)
Read(t) ==
  /\ pc[t] = "read"
  /\ tmp' = [tmp EXCEPT ![t] = data[using[t]]]
  /\ pc' = [pc EXCEPT ![t] = "write"]
  /\ UNCHANGED <<owner, data, using, rounds, done>>

(* The body throws before its write; unwinding runs the destructor.       *)
Throw(t) ==
  /\ pc[t] = "write"
  /\ pc' = [pc EXCEPT ![t] = "unlock"]
  /\ UNCHANGED <<owner, data, using, tmp, rounds, done>>

(* The write of h->count = read + 1.                                       *)
Write(t) ==
  /\ pc[t] = "write"
  /\ data' = [data EXCEPT ![using[t]] = tmp[t] + 1]
  /\ done' = [done EXCEPT ![using[t]] = @ + 1]
  /\ pc' = [pc EXCEPT ![t] = "unlock"]
  /\ UNCHANGED <<owner, using, tmp, rounds>>

(* ~Handle without its Unlock.                                             *)
ReleaseWithoutUnlock(t) ==
  /\ pc[t] = "unlock"
  /\ UNCHANGED owner
  /\ rounds' = [rounds EXCEPT ![t] = @ + 1]
  /\ pc' = [pc EXCEPT ![t] = IF rounds[t] + 1 < Rounds THEN "idle" ELSE "done"]
  /\ UNCHANGED <<data, using, tmp, done>>

(* ~Handle and ~TakeMutex unlock as the scope is left.                     *)
Release(t) ==
  /\ pc[t] = "unlock"
  /\ MutexUnlock(using[t])
  /\ rounds' = [rounds EXCEPT ![t] = @ + 1]
  /\ pc' = [pc EXCEPT ![t] = IF rounds[t] + 1 < Rounds THEN "idle" ELSE "done"]
  /\ UNCHANGED <<data, using, tmp, done>>

(* Every step of thread t but waiting for a mutex.                        *)
Run(t) ==
  \/ \E o \in Objects : Begin(t, o)
  \/ Read(t)
  \/ Throw(t)
  \/ Write(t)
  \/ Release(t)

Next == \E t \in Threads : Run(t) \/ Acquire(t)

(* A thread that can run runs; when a mutex is free and threads wait on   *)
(* it, the system hands it to one of them (no thread is promised it).     *)
Fairness ==
  /\ \A t \in Threads : WF_vars(Run(t))
  /\ WF_vars(\E t \in Threads : Acquire(t))

Spec == Init /\ [][Next]_vars /\ Fairness

-----------------------------------------------------------------------------
(* A thread is inside the scope of object o, from its Lock to its         *)
(* destructor.                                                              *)
InScope(t, o) ==
  using[t] = o /\ pc[t] \in {"read", "write", "unlock"}

(* The comment on Locker promises the data is accessible to one thread at *)
(* a time: no increment through a Handle or under a TakeMutex is lost, so *)
(* each counter equals the increments completed on it.                     *)
NoLostUpdate ==
  \A o \in Objects : data[o] = done[o]

(* A mutex is held exactly by the thread using the data under it: a       *)
(* thread that reads or writes through its handle holds the mutex, and a  *)
(* held mutex belongs to a thread still inside its scope (no destructor   *)
(* left it locked).                                                         *)
OwnerInScope ==
  /\ \A t \in Threads : pc[t] \in {"read", "write"} => owner[using[t]] = t
  /\ \A o \in Objects : owner[o] # NoOwner => InScope(owner[o], o)

(* Every thread finishes its scopes: no thread waits forever on a mutex   *)
(* that some destructor left locked.                                       *)
AllScopesComplete ==
  <>(\A t \in Threads : pc[t] = "done")

=============================================================================
