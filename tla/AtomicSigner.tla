---------------------------- MODULE AtomicSigner ----------------------------
(***************************************************************************)
(* What CASigner promises its callers: one slot that holds a CA key or     *)
(* nothing, which is loaded, cleared and looked at in single steps.  The   *)
(* process may lose it at any time, and never starts with a key.           *)
(***************************************************************************)
CONSTANTS Call, CA, NoCA

VARIABLES
  loaded,    \* the key in the slot
  seen       \* what each call saw when it last looked

SlotInit == loaded = NoCA /\ seen = [r \in Call |-> NoCA]

Load  == loaded' \in CA /\ UNCHANGED seen
Clear == loaded' = NoCA /\ UNCHANGED seen
Look  == \E r \in Call : seen' = [seen EXCEPT ![r] = loaded] /\ UNCHANGED loaded

(* A call that is over forgets what it saw.                                *)
Forget == /\ \E gone \in SUBSET Call :
               seen' = [r \in Call |-> IF r \in gone THEN NoCA ELSE seen[r]]
          /\ loaded' \in {loaded, NoCA}

SlotSpec == SlotInit /\ [][Load \/ Clear \/ Look \/ Forget]_<<loaded, seen>>
=============================================================================
