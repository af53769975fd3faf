------------------------------ MODULE RWMutex ------------------------------
(***************************************************************************)
(* sync.RWMutex of the Go library, as CASigner.mu uses it.  A writer first *)
(* takes the inner mutex, which turns new readers away, then waits for the *)
(* readers that are inside; when it unlocks, the readers it turned away    *)
(* are let in before the next writer can get past them.                    *)
(***************************************************************************)
CONSTANT Call            \* the goroutines: one for each RPC in progress

Nobody == "nobody"

ASSUME CallAssumption == Nobody \notin Call

VARIABLES
  owner,     \* the writer that has the inner mutex
  writing,   \* it is inside: it has seen the last reader leave
  readers,   \* the readers that are inside
  blocked    \* the readers that were turned away

mu == <<owner, writing, readers, blocked>>

MutexTypeOK == /\ owner \in Call \cup {Nobody}
               /\ writing \in BOOLEAN
               /\ readers \subseteq Call /\ blocked \subseteq Call

MutexInit == owner = Nobody /\ writing = FALSE /\ readers = {} /\ blocked = {}

(* Lock is two steps: announcing the writer, and entering.                 *)
Announce(r) == /\ owner = Nobody
               /\ owner' = r
               /\ UNCHANGED <<writing, readers, blocked>>

BugEnterAnyway(r) == /\ owner = r /\ ~writing
                     /\ writing' = TRUE
                     /\ UNCHANGED <<owner, readers, blocked>>

Enter(r) == /\ owner = r /\ ~writing /\ readers = {}
            /\ writing' = TRUE
            /\ UNCHANGED <<owner, readers, blocked>>

Unlock(r) == /\ owner = r /\ writing
             /\ owner' = Nobody /\ writing' = FALSE
             /\ readers' = readers \cup blocked /\ blocked' = {}

BugReadersFirst(r) == /\ IF writing
                         THEN blocked' = blocked \cup {r} /\ UNCHANGED readers
                         ELSE readers' = readers \cup {r} /\ UNCHANGED blocked
                      /\ UNCHANGED <<owner, writing>>

(* The caller of RLock goes on when it is among the readers.               *)
RLock(r) == /\ IF owner = Nobody
               THEN readers' = readers \cup {r} /\ UNCHANGED blocked
               ELSE blocked' = blocked \cup {r} /\ UNCHANGED readers
            /\ UNCHANGED <<owner, writing>>

RUnlock(r) == /\ r \in readers
              /\ readers' = readers \ {r}
              /\ UNCHANGED <<owner, writing, blocked>>
=============================================================================
