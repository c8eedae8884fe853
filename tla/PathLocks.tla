----------------------------- MODULE PathLocks -----------------------------
(***************************************************************************)
(* The table of path locks of the upload blobs                             *)
(* (src/infrastructure/documents/upload_blob_store.py): put, get and       *)
(* delete of one path exclude each other by a lock kept in a table of the  *)
(* class, which drops the oldest entries that nobody uses when it is full. *)
(* The table is read and changed under a guard, one step here; the lock    *)
(* itself is taken outside it.                                             *)
(***************************************************************************)
EXTENDS Naturals, FiniteSets

CONSTANTS Threads, Paths,
          MaxLocks       \* the size of the table it tries not to exceed

ASSUME PathLocksAssumption == IsFiniteSet(Threads) /\ MaxLocks \in Nat

VARIABLES locks,         \* the table: paths to a lock and the count of its users
          older,         \* its order: <<p, q>> when p was used before q
          threads

lockVars == <<locks, older, threads>>

LockInit ==
  /\ locks = <<>> /\ older = {}
  /\ threads = [t \in Threads |-> [pc |-> "out"]]

Used == {locks[p].lock : p \in DOMAIN locks}
        \union {threads[t].lock : t \in {u \in Threads : threads[u].pc # "out"}}
NewLock == CHOOSE n \in 1..(Cardinality(Used) + 1) : n \notin Used

\* move_to_end, and dropped entries leave the order.
Newest(path) ==
  LET others == DOMAIN locks' \ {path} IN
  older' = {e \in older : e[1] \in others /\ e[2] \in others}
           \union {<<p, path>> : p \in others}

\* The guarded part of _acquire_lock: while the table is full, the oldest
\* entry without users goes.
Idle_Any(path) == TRUE
Idle(path) == locks[path].refs = 0

Room(gone) == Cardinality(DOMAIN locks \ gone) < MaxLocks
Trimmed ==
  LET idle == {p \in DOMAIN locks : Idle(p)} IN
  {gone \in SUBSET idle :
     /\ \A p \in gone : ~Room(gone \ {p})
     /\ Room(gone) \/ gone = idle
     /\ \A p \in gone, q \in idle \ gone : <<p, q>> \in older}

AcquireLock(t, path) ==
  /\ threads[t].pc = "out"
  /\ IF path \in DOMAIN locks
     THEN locks' = [locks EXCEPT ![path].refs = @ + 1]
     ELSE \E gone \in Trimmed :
            locks' = [p \in (DOMAIN locks \ gone) \union {path} |->
                        IF p = path THEN [lock |-> NewLock, refs |-> 1] ELSE locks[p]]
  /\ Newest(path)
  /\ threads' = [threads EXCEPT ![t] =
                   [pc |-> "wait", path |-> path, lock |-> locks'[path].lock]]

\* lock.acquire, then the file is written, read or removed.
EnterPath(t) ==
  /\ threads[t].pc = "wait"
  /\ \A u \in Threads : threads[u].pc = "inside" => threads[u].lock # threads[t].lock
  /\ threads' = [threads EXCEPT ![t].pc = "inside"]
  /\ UNCHANGED <<locks, older>>

LeavePath(t) ==
  /\ threads[t].pc = "inside"
  /\ threads' = [threads EXCEPT ![t].pc = "leaving"]
  /\ UNCHANGED <<locks, older>>

\* _release_lock: one user fewer, and the entry is the newest again.
ReleaseLock(t) ==
  LET path == threads[t].path IN
  /\ threads[t].pc = "leaving"
  /\ IF path \in DOMAIN locks
     THEN /\ locks' = [locks EXCEPT ![path].refs = IF @ = 0 THEN 0 ELSE @ - 1]
          /\ Newest(path)
     ELSE UNCHANGED <<locks, older>>
  /\ threads' = [threads EXCEPT ![t] = [pc |-> "out"]]

LockNext ==
  \E t \in Threads :
    \/ \E path \in Paths : AcquireLock(t, path)
    \/ EnterPath(t)
    \/ LeavePath(t)
    \/ ReleaseLock(t)

LockSpec == LockInit /\ [][LockNext]_lockVars

(* Two threads never work on one blob at once, though the table may drop   *)
(* and make again the lock of a path, and the table outgrows its size only *)
(* as far as there are threads.                                            *)
OneThreadPerPath ==
  /\ \A t, u \in Threads :
       threads[t].pc = "inside" /\ threads[u].pc = "inside"
       /\ threads[t].path = threads[u].path => t = u
  /\ Cardinality(DOMAIN locks) > MaxLocks =>
       Cardinality(DOMAIN locks) <= Cardinality(Threads)
=============================================================================
