-------------------------- MODULE CAServiceProofs --------------------------
(***************************************************************************)
(* Theorems about CAService, for any number of concurrent calls and any    *)
(* set of CAs, with rotations, expiries and restarts at any moment.        *)
(***************************************************************************)
EXTENDS CAService, TLAPS

InMutex == {"enter", "signer", "path", "unlock"}

(* The lock keeps readers out of a writer's critical section, and the      *)
(* steps of that section find the fields as the previous step left them.   *)
LockInv ==
  /\ writing => readers = {} /\ owner # Nobody
  /\ \A r \in Call :
       /\ pc[r] \in InMutex => owner = r
       /\ pc[r] \in {"signer", "path", "unlock"} => writing
       /\ pc[r] \in {"signer", "unlock"} => caPath = activeSigner
       /\ pc[r] = "path" => activeSigner = path[r]
  /\ ~writing => caPath = activeSigner

LEMMA InitType == Init => TypeOK /\ LockInv
<1> SUFFICES ASSUME Init PROVE TypeOK /\ LockInv
  OBVIOUS
<1> USE DEF Init, MutexInit
<1>1. TypeOK
  BY DEF TypeOK, MutexTypeOK, UUID, Pc
<1>2. LockInv
  BY DEF LockInv, InMutex
<1> QED
  BY <1>1, <1>2

(* The commands start at one of five steps.                                *)
LEMMA FirstSteps ==
  ASSUME NEW o \in Ops
  PROVE  /\ o \in {"unseal", "seal", "status", "sign"}
         /\ FirstStep(o) \in {"active", "lock", "rlock", "local", "done"}
         /\ o = "sign" /\ up => FirstStep(o) = "active"
  BY ServiceAssumption DEF FirstStep

LEMMA StepType ==
  ASSUME TypeOK, NEW r \in Call, Begin(r) \/ Step(r) \/ End(r)
  PROVE  TypeOK'
<1> USE DEF TypeOK, MutexTypeOK, UUID, Pc, mu, signer, registry, call, GoTo, At
<1>1. CASE Begin(r)
  <2>1. PICK o \in Ops : /\ op' = [op EXCEPT ![r] = o]
                         /\ pc' = [pc EXCEPT ![r] = FirstStep(o)]
                         /\ res' = [res EXCEPT ![r] =
                                      IF FirstStep(o) = "done" THEN "ok" ELSE "none"]
                         /\ sealedSince' \in {sealedSince, sealedSince \cup {r}}
    BY <1>1 DEF Begin
  <2> QED
    BY <1>1, <2>1, FirstSteps DEF Begin
<1>2. CASE End(r)
  BY <1>2 DEF End
<1>3. CASE UnsealActive(r)
  BY <1>3 DEF UnsealActive, Reply
<1>4. CASE Fail(r)
  BY <1>4 DEF Fail, Reply
<1>5. CASE Lock(r) \/ Locked(r)
  BY <1>5 DEF Lock, Locked, Announce, Enter
<1>6. CASE SetSigner(r) \/ SetPath(r)
  BY <1>6 DEF SetSigner, SetPath, AssignPath
<1>7. CASE Unlocked(r)
  BY <1>7 DEF Unlocked, Unlock, Reply
<1>8. CASE ReadLock(r)
  BY <1>8 DEF ReadLock, RLock
<1>9. CASE ReadSigner(r) \/ ReadPath(r)
  BY <1>9 DEF ReadSigner, ReadPath
<1>10. CASE ReadUnlock(r) \/ StatusReply(r)
  BY <1>10 DEF ReadUnlock, StatusReply, RUnlock, Reply
<1>11. CASE SignCheck(r) \/ Sign(r)
  BY <1>11 DEF SignCheck, Sign, Reply
<1>12. CASE LocalUnseal(r) \/ LocalSign(r)
  BY <1>12 DEF LocalUnseal, LocalSign, Reply
<1> QED
  BY <1>1, <1>2, <1>3, <1>4, <1>5, <1>6, <1>7, <1>8, <1>9, <1>10, <1>11, <1>12 DEF Step

LEMMA StepLockInv ==
  ASSUME TypeOK, LockInv, NEW r \in Call, Begin(r) \/ Step(r) \/ End(r)
  PROVE  LockInv'
<1> USE CallAssumption
    DEF TypeOK, MutexTypeOK, LockInv, InMutex, mu, signer, registry, call, GoTo, At
<1>1. CASE Begin(r)
  <2>1. pc[r] = "idle" /\ pc'[r] \in {"active", "lock", "rlock", "local", "done"}
    BY <1>1, FirstSteps DEF Begin
  <2>2. \A q \in Call : q # r => pc'[q] = pc[q]
    BY <1>1 DEF Begin
  <2> QED
    BY <1>1, <2>1, <2>2 DEF Begin
<1>2. CASE End(r)
  BY <1>2 DEF End
<1>3. CASE UnsealActive(r)
  BY <1>3 DEF UnsealActive, Reply
<1>4. CASE Fail(r)
  BY <1>4 DEF Fail, Reply
<1>5. CASE Lock(r)
  BY <1>5 DEF Lock, Announce
<1>6. CASE Locked(r)
  BY <1>6 DEF Locked, Enter
<1>7. CASE SetSigner(r)
  BY <1>7 DEF SetSigner
<1>8. CASE SetPath(r)
  BY <1>8 DEF SetPath, AssignPath
<1>9. CASE Unlocked(r)
  BY <1>9 DEF Unlocked, Unlock, Reply
<1>10. CASE ReadLock(r)
  BY <1>10 DEF ReadLock, RLock
<1>11. CASE ReadSigner(r) \/ ReadPath(r)
  BY <1>11 DEF ReadSigner, ReadPath
<1>12. CASE ReadUnlock(r) \/ StatusReply(r)
  BY <1>12 DEF ReadUnlock, StatusReply, RUnlock, Reply
<1>13. CASE SignCheck(r) \/ Sign(r)
  BY <1>13 DEF SignCheck, Sign, Reply
<1>14. CASE LocalUnseal(r) \/ LocalSign(r)
  BY <1>14 DEF LocalUnseal, LocalSign, Reply
<1> QED
  BY <1>1, <1>2, <1>3, <1>4, <1>5, <1>6, <1>7, <1>8, <1>9, <1>10, <1>11, <1>12, <1>13,
     <1>14 DEF Step

LEMMA EnvironmentInv ==
  ASSUME TypeOK, LockInv, Rotate \/ Expire \/ StopServer \/ StartServer \/ UNCHANGED vars
  PROVE  TypeOK' /\ LockInv'
<1> USE DEF TypeOK, MutexTypeOK, LockInv, InMutex, UUID, mu, signer, registry, call
<1>1. CASE Rotate
  BY <1>1 DEF Rotate
<1>2. CASE Expire
  BY <1>2 DEF Expire
<1>3. CASE StartServer
  BY <1>3 DEF StartServer
<1>4. CASE StopServer
  <2>1. \A r \in Call : pc[r] \in InMutex => pc'[r] = "done"
    BY <1>4 DEF StopServer, InServer
  <2>2. \A r \in Call : pc'[r] \in {pc[r], "done"}
    BY <1>4 DEF StopServer
  <2>3. TypeOK'
    BY <1>4 DEF StopServer, Pc
  <2> QED
    BY <1>4, <2>1, <2>2, <2>3 DEF StopServer
<1>5. CASE UNCHANGED vars
  BY <1>5 DEF vars
<1> QED
  BY <1>1, <1>2, <1>3, <1>4, <1>5

LEMMA AlwaysLockInv == Spec => [](TypeOK /\ LockInv)
<1>1. TypeOK /\ LockInv /\ [Next]_vars => (TypeOK /\ LockInv)'
  BY StepType, StepLockInv, EnvironmentInv DEF Next
<1> QED
  BY <1>1, InitType, PTL DEF Spec

(* Every variable of the model always holds a value of its type.           *)
THEOREM ServiceTypeCorrect == Spec => []TypeOK
  BY AlwaysLockInv, PTL

(* The loaded key and its path agree whenever no writer is inside.         *)
THEOREM PathMatchesSignerTheorem == Spec => []PathMatchesSigner
<1>1. LockInv => PathMatchesSigner
  BY DEF LockInv, PathMatchesSigner
<1> QED
  BY <1>1, AlwaysLockInv, PTL

----------------------------------------------------------------------------
(* CASigner is an atomic slot: it changes when a writer sets the path, and *)
(* a reader inside the lock finds the signer that goes with it.            *)

LEMMA SlotStep ==
  ASSUME TypeOK, LockInv, [Next]_vars
  PROVE  [Slot!Load \/ Slot!Clear \/ Slot!Look \/ Slot!Forget]_<<caPath, seen>>
<1> USE DEF TypeOK, mu, signer, registry, call
<1>1. ASSUME NEW r \in Call, SetPath(r)
      PROVE  Slot!Load \/ Slot!Clear
  BY <1>1 DEF SetPath, AssignPath, Slot!Load, Slot!Clear, UUID
<1>2. ASSUME NEW r \in Call, ReadSigner(r)
      PROVE  Slot!Look
  <2>1. caPath = activeSigner
    BY <1>2 DEF ReadSigner, LockInv
  <2> QED
    BY <1>2, <2>1 DEF ReadSigner, Slot!Look
<1>3. ASSUME NEW r \in Call, End(r)
      PROVE  Slot!Forget
  <2>1. seen' = [q \in Call |-> IF q \in {r} THEN NoCA ELSE seen[q]]
    BY <1>3 DEF End
  <2>2. {r} \in SUBSET Call /\ caPath' \in {caPath, NoCA}
    BY <1>3 DEF End
  <2> QED
    BY <2>1, <2>2, Zenon DEF Slot!Forget
<1>4. CASE StopServer
  <2>1. InServer \in SUBSET Call
    BY DEF InServer
  <2> QED
    BY <1>4, <2>1 DEF StopServer, Slot!Forget
<1>5. CASE UNCHANGED <<caPath, seen>>
  BY <1>5
<1> QED
  BY <1>1, <1>2, <1>3, <1>4, <1>5 DEF Next, Begin, Step, UnsealActive, Fail, Lock, Locked,
     SetSigner, Unlocked, ReadLock, ReadPath, ReadUnlock, StatusReply, SignCheck, Sign,
     LocalUnseal, LocalSign, Rotate, Expire, StartServer, vars

(* No interleaving shows a caller half of an Unseal or of a Seal.          *)
THEOREM ImplementsSlotTheorem == Spec => ImplementsSlot
<1>1. Init => Slot!SlotInit
  BY DEF Init, Slot!SlotInit
<1> QED
  BY <1>1, SlotStep, AlwaysLockInv, PTL DEF Spec, ImplementsSlot, Slot!SlotSpec

----------------------------------------------------------------------------
(* The waiting room of the lock.                                           *)

InRead == {"read", "read2", "runlock", "runlock2"}

(* Who is at the lock is registered there, and only those are: a call that *)
(* fails, ends or is cut off by a restart leaves no trace in the mutex.    *)
QueueInv ==
  /\ \A r \in Call :
       /\ pc[r] \in {"read", "read2"} => r \in readers \cup blocked
       /\ pc[r] \in {"runlock", "runlock2"} => r \in readers
       /\ r \in readers => pc[r] \in InRead
       /\ r \in blocked => pc[r] \in {"read", "read2"} /\ r \notin readers
       /\ owner = r => pc[r] \in InMutex
       /\ pc[r] = "enter" => ~writing
  /\ blocked # {} => owner # Nobody

LEMMA StepQueueInv ==
  ASSUME TypeOK, LockInv, QueueInv, NEW r \in Call, Begin(r) \/ Step(r) \/ End(r)
  PROVE  QueueInv'
<1> USE CallAssumption
    DEF TypeOK, MutexTypeOK, QueueInv, InMutex, InRead, mu, signer, registry, call, GoTo, At
<1>1. CASE Begin(r)
  <2>1. pc[r] = "idle" /\ pc'[r] \in {"active", "lock", "rlock", "local", "done"}
    BY <1>1, FirstSteps DEF Begin
  <2>2. \A q \in Call : q # r => pc'[q] = pc[q]
    BY <1>1 DEF Begin
  <2> QED
    BY <1>1, <2>1, <2>2 DEF Begin
<1>2. CASE End(r)
  BY <1>2 DEF End
<1>3. CASE UnsealActive(r)
  BY <1>3 DEF UnsealActive, Reply
<1>4. CASE Fail(r)
  BY <1>4 DEF Fail, Reply
<1>5. CASE Lock(r)
  BY <1>5 DEF Lock, Announce, LockInv
<1>6. CASE Locked(r)
  BY <1>6 DEF Locked, Enter, LockInv
<1>7. CASE SetSigner(r)
  BY <1>7 DEF SetSigner
<1>8. CASE SetPath(r)
  BY <1>8 DEF SetPath, AssignPath
<1>9. CASE Unlocked(r)
  BY <1>9 DEF Unlocked, Unlock, Reply
<1>10. CASE ReadLock(r)
  BY <1>10 DEF ReadLock, RLock
<1>11. CASE ReadSigner(r) \/ ReadPath(r)
  BY <1>11 DEF ReadSigner, ReadPath
<1>12. CASE ReadUnlock(r) \/ StatusReply(r)
  BY <1>12 DEF ReadUnlock, StatusReply, RUnlock, Reply
<1>13. CASE SignCheck(r) \/ Sign(r)
  BY <1>13 DEF SignCheck, Sign, Reply
<1>14. CASE LocalUnseal(r) \/ LocalSign(r)
  BY <1>14 DEF LocalUnseal, LocalSign, Reply
<1> QED
  BY <1>1, <1>2, <1>3, <1>4, <1>5, <1>6, <1>7, <1>8, <1>9, <1>10, <1>11, <1>12, <1>13,
     <1>14 DEF Step

LEMMA EnvironmentQueueInv ==
  ASSUME TypeOK, QueueInv, Rotate \/ Expire \/ StopServer \/ StartServer \/ UNCHANGED vars
  PROVE  QueueInv'
<1> USE DEF TypeOK, MutexTypeOK, QueueInv, mu, call
<1>1. CASE Rotate \/ Expire \/ StartServer \/ UNCHANGED vars
  BY <1>1 DEF Rotate, Expire, StartServer, vars
<1>2. CASE StopServer
  <2>1. \A r \in Call : pc[r] \in InMutex \cup InRead => pc'[r] = "done"
    BY <1>2 DEF StopServer, InServer, InMutex, InRead
  <2>2. \A r \in Call : pc'[r] \in {pc[r], "done"}
    BY <1>2 DEF StopServer
  <2>3. \A r \in Call : pc'[r] \notin InMutex \cup InRead
    BY <2>1, <2>2 DEF InMutex, InRead
  <2> QED
    BY <1>2, <2>3, CallAssumption DEF StopServer, InMutex, InRead
<1> QED
  BY <1>1, <1>2

(* The steps at which a call can have to wait for the lock.                *)
Waits(r) == \/ pc[r] = "lock" /\ owner # Nobody
            \/ pc[r] = "enter" /\ readers # {}
            \/ pc[r] \in {"read", "read2"} /\ r \notin readers

(* Whoever waits for the lock waits for a call that has it and that does   *)
(* not wait: the calls of Unseal, Seal, Status and Sign never deadlock,    *)
(* the part of CallsEnd that needs no fairness.                            *)
HolderRuns ==
  \A r \in Call : Waits(r) => \E q \in readers \cup {owner} : q \in Call /\ ~Waits(q)

THEOREM HolderRunsTheorem == Spec => []HolderRuns
<1>1. Init => QueueInv
  BY CallAssumption DEF Init, MutexInit, QueueInv, InMutex, InRead
<1>2. TypeOK /\ LockInv /\ QueueInv /\ [Next]_vars => QueueInv'
  BY StepQueueInv, EnvironmentQueueInv DEF Next
<1>3. TypeOK /\ LockInv /\ QueueInv => HolderRuns
  <2> SUFFICES ASSUME TypeOK, LockInv, QueueInv, NEW r \in Call, Waits(r)
               PROVE  \E q \in readers \cup {owner} : q \in Call /\ ~Waits(q)
    BY DEF HolderRuns
  <2>1. ASSUME NEW q \in readers PROVE q \in Call /\ ~Waits(q)
    BY <2>1 DEF TypeOK, MutexTypeOK, QueueInv, InRead, Waits
  <2>2. CASE readers # {}
    BY <2>1, <2>2
  <2>3. CASE readers = {}
    <3>1. owner # Nobody
      BY <2>3 DEF Waits, QueueInv
    <3>2. owner \in Call /\ pc[owner] \in InMutex
      BY <3>1 DEF TypeOK, MutexTypeOK, QueueInv
    <3> QED
      BY <2>3, <3>2 DEF Waits, InMutex
  <2> QED
    BY <2>2, <2>3
<1> QED
  BY <1>1, <1>2, <1>3, AlwaysLockInv, PTL DEF Spec

----------------------------------------------------------------------------
(* A call of Sign on a sealed signer is refused.                           *)

SealedInv ==
  /\ \A r \in Call : pc[r] = "idle" => seen[r] = NoCA
  /\ sealedSince # {} => activeSigner = NoCA
  /\ \A r \in sealedSince :
       /\ op[r] = "sign" /\ seen[r] = NoCA
       /\ pc[r] \in {"active", "rlock", "read", "runlock", "sign", "done"}
       /\ pc[r] = "done" => res[r] = "error"

LEMMA StepSealedInv ==
  ASSUME TypeOK, SealedInv, NEW r \in Call, Begin(r) \/ Step(r) \/ End(r)
  PROVE  SealedInv'
<1> USE DEF TypeOK, SealedInv, mu, signer, registry, call, GoTo, At
<1>1. CASE Begin(r)
  <2>1. PICK o \in Ops : /\ op' = [op EXCEPT ![r] = o]
                         /\ pc' = [pc EXCEPT ![r] = FirstStep(o)]
                         /\ sealedSince' = IF o = "sign" /\ up /\ activeSigner = NoCA
                                           THEN sealedSince \cup {r} ELSE sealedSince
    BY <1>1 DEF Begin
  <2>2. pc[r] = "idle" /\ UNCHANGED <<activeSigner, seen>>
    BY <1>1 DEF Begin
  <2>3. \A q \in sealedSince : q # r /\ op'[q] = op[q] /\ pc'[q] = pc[q] /\ res'[q] = res[q]
    BY <1>1, <2>1, <2>2 DEF Begin
  <2> QED
    BY <2>1, <2>2, <2>3, FirstSteps
<1>2. CASE End(r)
  BY <1>2 DEF End
<1>3. CASE UnsealActive(r)
  BY <1>3 DEF UnsealActive, Reply
<1>4. CASE Fail(r)
  BY <1>4 DEF Fail, Reply
<1>5. CASE Lock(r) \/ Locked(r)
  BY <1>5 DEF Lock, Locked
<1>6. CASE SetSigner(r)
  BY <1>6 DEF SetSigner
<1>7. CASE SetPath(r) \/ Unlocked(r)
  BY <1>7 DEF SetPath, Unlocked, Reply
<1>8. CASE ReadLock(r)
  BY <1>8 DEF ReadLock
<1>9. CASE ReadSigner(r) \/ ReadPath(r)
  BY <1>9 DEF ReadSigner, ReadPath
<1>10. CASE ReadUnlock(r) \/ StatusReply(r)
  BY <1>10 DEF ReadUnlock, StatusReply, Reply
<1>11. CASE SignCheck(r)
  BY <1>11 DEF SignCheck, Reply
<1>12. CASE Sign(r)
  BY <1>12 DEF Sign, HasSigner, Reply
<1>13. CASE LocalUnseal(r) \/ LocalSign(r)
  BY <1>13 DEF LocalUnseal, LocalSign, Reply
<1> QED
  BY <1>1, <1>2, <1>3, <1>4, <1>5, <1>6, <1>7, <1>8, <1>9, <1>10, <1>11, <1>12, <1>13
  DEF Step

(* "Sign() calls will be rejected until Unseal is called again".           *)
THEOREM SealedSignFailsTheorem == Spec => []SealedSignFails
<1>1. Init => SealedInv
  BY DEF Init, SealedInv
<1>2. TypeOK /\ SealedInv /\ [Next]_vars => SealedInv'
  <2> SUFFICES ASSUME TypeOK, SealedInv, [Next]_vars PROVE SealedInv'
    OBVIOUS
  <2>1. CASE \E r \in Call : Begin(r) \/ Step(r) \/ End(r)
    BY <2>1, StepSealedInv
  <2>2. CASE Rotate \/ Expire \/ StartServer \/ UNCHANGED vars
    BY <2>2 DEF Rotate, Expire, StartServer, vars, mu, signer, registry, call, SealedInv
  <2>3. CASE StopServer
    BY <2>3 DEF StopServer, registry, SealedInv, InServer, TypeOK
  <2> QED
    BY <2>1, <2>2, <2>3 DEF Next
<1>3. SealedInv => SealedSignFails
  BY DEF SealedInv, SealedSignFails, At
<1> QED
  BY <1>1, <1>2, <1>3, AlwaysLockInv, PTL DEF Spec

----------------------------------------------------------------------------
(* As long as no rotation changes the active CA, every key that the server *)
(* or a command holds is that of one CA, and the check of Sign is about    *)
(* it: a call that has passed it began before that CA expired.             *)

ActiveOrNone == {active, NoCA}

SingleKey ==
  /\ active \in CA
  /\ activeSigner \in ActiveOrNone /\ caPath \in ActiveOrNone
  /\ \A r \in Call : path[r] \in ActiveOrNone /\ seen[r] \in ActiveOrNone

BeganValid ==
  \A r \in Call :
    /\ began[r] \subseteq expired
    /\ pc[r] \in {"signer", "path", "unlock", "read2", "runlock2"} => op[r] # "sign"
    /\ At(r, {"sign"}, "rlock") \/ At(r, {"sign"}, "read") \/ At(r, {"sign"}, "runlock")
         \/ At(r, {"sign"}, "sign") \/ (At(r, {"sign"}, "done") /\ res[r] = "ok")
       => active \notin began[r]

ExpiryInv == SingleKey /\ BeganValid

LEMMA StepSingleKey ==
  ASSUME TypeOK, SingleKey, NEW r \in Call, Begin(r) \/ Step(r) \/ End(r)
  PROVE  SingleKey' /\ UNCHANGED registry
<1> USE DEF TypeOK, SingleKey, ActiveOrNone, registry, signer, call, mu
<1>1. CASE Begin(r) \/ End(r)
  BY <1>1 DEF Begin, End
<1>2. CASE UnsealActive(r)
  BY <1>2 DEF UnsealActive, Reply
<1>3. CASE Fail(r) \/ Unlocked(r) \/ StatusReply(r) \/ SignCheck(r) \/ Sign(r) \/ LocalSign(r)
  BY <1>3 DEF Fail, Unlocked, StatusReply, SignCheck, Sign, LocalSign, Reply
<1>4. CASE Lock(r) \/ Locked(r) \/ ReadLock(r) \/ ReadUnlock(r)
  BY <1>4 DEF Lock, Locked, ReadLock, ReadUnlock
<1>5. CASE SetSigner(r) \/ SetPath(r)
  BY <1>5 DEF SetSigner, SetPath, AssignPath
<1>6. CASE ReadSigner(r) \/ ReadPath(r)
  BY <1>6 DEF ReadSigner, ReadPath
<1>7. CASE LocalUnseal(r)
  BY <1>7 DEF LocalUnseal, Reply
<1> QED
  BY <1>1, <1>2, <1>3, <1>4, <1>5, <1>6, <1>7 DEF Step

LEMMA StepBeganValid ==
  ASSUME TypeOK, BeganValid, NEW r \in Call, Begin(r) \/ Step(r) \/ End(r)
  PROVE  BeganValid'
<1> USE DEF TypeOK, BeganValid, GoTo, At, registry, signer, call, mu
<1>1. CASE Begin(r)
  <2>1. PICK o \in Ops : /\ op' = [op EXCEPT ![r] = o]
                         /\ pc' = [pc EXCEPT ![r] = FirstStep(o)]
    BY <1>1 DEF Begin
  <2>2. o = "sign" => FirstStep(o) \in {"active", "local"}
    BY DEF FirstStep
  <2>3. /\ began' = [began EXCEPT ![r] = expired]
        /\ UNCHANGED <<active, expired>>
        /\ \A q \in Call \ {r} : res'[q] = res[q]
    BY <1>1 DEF Begin
  <2>4. /\ ~(op'[r] = "sign" /\ pc'[r] \in {"rlock", "read", "runlock", "sign", "done"})
        /\ pc'[r] \notin {"signer", "path", "unlock", "read2", "runlock2"}
    BY <2>1, <2>2, FirstSteps
  <2>5. \A q \in Call \ {r} : op'[q] = op[q] /\ pc'[q] = pc[q] /\ began'[q] = began[q]
    BY <2>1, <2>3
  <2> QED
    BY <2>3, <2>4, <2>5
<1>2. CASE End(r)
  BY <1>2 DEF End
<1>3. CASE UnsealActive(r)
  BY <1>3 DEF UnsealActive, Reply
<1>4. CASE Fail(r) \/ Unlocked(r) \/ StatusReply(r)
  <2>1. CASE Fail(r)
    BY <2>1 DEF Fail, Reply
  <2>2. CASE Unlocked(r)
    BY <2>2 DEF Unlocked, Reply
  <2>3. CASE StatusReply(r)
    BY <2>3 DEF StatusReply, Reply
  <2> QED
    BY <1>4, <2>1, <2>2, <2>3
<1>5. CASE Lock(r) \/ Locked(r) \/ SetSigner(r) \/ SetPath(r)
  BY <1>5 DEF Lock, Locked, SetSigner, SetPath
<1>6. CASE ReadLock(r)
  BY <1>6 DEF ReadLock
<1>7. CASE ReadSigner(r) \/ ReadPath(r)
  BY <1>7 DEF ReadSigner, ReadPath
<1>8. CASE ReadUnlock(r)
  BY <1>8 DEF ReadUnlock
<1>9. CASE SignCheck(r)
  BY <1>9 DEF SignCheck, ActiveExpired, Reply
<1>10. CASE Sign(r)
  BY <1>10 DEF Sign, Reply
<1>11. CASE LocalUnseal(r)
  BY <1>11 DEF LocalUnseal, Reply
<1>12. CASE LocalSign(r)
  BY <1>12 DEF LocalSign, ActiveExpired, Reply
<1> QED
  BY <1>1, <1>2, <1>3, <1>4, <1>5, <1>6, <1>7, <1>8, <1>9, <1>10, <1>11, <1>12 DEF Step

(* As long as the active CA stays the same, no certificate is issued with  *)
(* a CA that had expired when the call began, for any number of calls and  *)
(* with the server restarting at any moment.                               *)
THEOREM ExpiredNeverSignsTheorem ==
  ASSUME "rotate" \notin Env
  PROVE  Spec => []ExpiredNeverSigns
<1>1. Init => ExpiryInv
  BY DEF Init, ExpiryInv, SingleKey, BeganValid, ActiveOrNone, At
<1>2. TypeOK /\ ExpiryInv /\ [Next]_vars => ExpiryInv'
  <2> SUFFICES ASSUME TypeOK, ExpiryInv, [Next]_vars PROVE ExpiryInv'
    OBVIOUS
  <2> USE DEF ExpiryInv
  <2>1. CASE \E r \in Call : Begin(r) \/ Step(r) \/ End(r)
    BY <2>1, StepSingleKey, StepBeganValid
  <2>2. CASE Expire
    BY <2>2 DEF Expire, SingleKey, BeganValid, ActiveOrNone, At, signer, call
  <2>3. CASE StopServer
    BY <2>3 DEF StopServer, SingleKey, BeganValid, ActiveOrNone, At, registry, TypeOK
  <2>4. CASE StartServer \/ UNCHANGED vars
    BY <2>4 DEF StartServer, SingleKey, BeganValid, ActiveOrNone, At, registry, signer,
       call, vars
  <2>5. ~Rotate
    BY DEF Rotate
  <2> QED
    BY <2>1, <2>2, <2>3, <2>4, <2>5 DEF Next
<1>3. TypeOK /\ ExpiryInv => ExpiredNeverSigns
  <2> SUFFICES ASSUME TypeOK, ExpiryInv, NEW r \in Call,
                      At(r, {"sign"}, "done"), res[r] = "ok"
               PROVE  Key(r) \notin began[r]
    BY DEF ExpiredNeverSigns
  <2>1. Key(r) \in {active, NoCA}
    BY DEF ExpiryInv, SingleKey, ActiveOrNone, Key
  <2>2. began[r] \subseteq CA
    BY DEF TypeOK
  <2> QED
    BY <2>1, <2>2, ServiceAssumption DEF ExpiryInv, BeganValid
<1> QED
  BY <1>1, <1>2, <1>3, AlwaysLockInv, PTL DEF Spec
=============================================================================
