------------------------------- MODULE MCLocker -------------------------------
(* Three threads, one Locker<T> and one Mutex taken with TakeMutex, two    *)
(* scopes per thread.                                                       *)
EXTENDS Locker

CONSTANTS t1, t2, t3, locker1, mutex1

MCThreads == {t1, t2, t3}
MCLockers == {locker1}
MCMutexes == {mutex1}

=============================================================================
