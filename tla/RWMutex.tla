------------------------------ MODULE RWMutex ------------------------------
(***************************************************************************)
(* sync.RWMutex of Go's library, which Server.networkMux is.  The library  *)
(* is not part of the repository: this is the behaviour the server relies  *)
(* on.  A writer first announces itself; readers that held the lock before *)
(* that are waited for, readers that arrive after it block until the       *)
(* writer leaves, and they all get in before the next writer.              *)
(***************************************************************************)
CONSTANTS Threads,   (* goroutines that may use the lock                   *)
          NoThread   (* the value of writer when no writer is announced    *)

ASSUME NoThreadAssumption == NoThread \notin Threads

VARIABLES readers,         (* threads that hold the read lock              *)
          blockedReaders,  (* threads blocked in RLock                     *)
          writer,          (* the announced writer, or NoThread            *)
          blockedWriters   (* threads blocked in Lock before announcing    *)

lockVars == <<readers, blockedReaders, writer, blockedWriters>>

LockInit == /\ readers = {}
            /\ blockedReaders = {}
            /\ writer = NoThread
            /\ blockedWriters = {}

(* RLock: granted at once, unless a writer holds the lock or waits for it. *)
RLock(t) ==
  /\ IF writer = NoThread
     THEN /\ readers' = readers \union {t}
          /\ UNCHANGED blockedReaders
     ELSE /\ blockedReaders' = blockedReaders \union {t}
          /\ UNCHANGED readers
  /\ UNCHANGED <<writer, blockedWriters>>

RUnlock(t) ==
  /\ t \in readers
  /\ readers' = readers \ {t}
  /\ UNCHANGED <<blockedReaders, writer, blockedWriters>>

(* The call of Lock: queue on the mutex that orders the writers.           *)
Lock(t) ==
  /\ blockedWriters' = blockedWriters \union {t}
  /\ UNCHANGED <<readers, blockedReaders, writer>>

(* A queued writer gets that mutex and announces itself to the readers.    *)
Announce(t) ==
  /\ writer = NoThread
  /\ t \in blockedWriters
  /\ writer' = t
  /\ blockedWriters' = blockedWriters \ {t}
  /\ UNCHANGED <<readers, blockedReaders>>

(* Lock returns to the announced writer when the last reader has left.     *)
HoldsWriteLock(t) == writer = t /\ readers = {}

(* Unlock wakes every blocked reader, then lets the next writer announce.  *)
Unlock(t) ==
  /\ HoldsWriteLock(t)
  /\ readers' = blockedReaders
  /\ blockedReaders' = {}
  /\ writer' = NoThread
  /\ UNCHANGED blockedWriters

LockTypeOK ==
  /\ readers \subseteq Threads
  /\ blockedReaders \subseteq Threads
  /\ writer \in Threads \union {NoThread}
  /\ blockedWriters \subseteq Threads
=============================================================================
