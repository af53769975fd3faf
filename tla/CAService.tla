----------------------------- MODULE CAService -----------------------------
(***************************************************************************)
(* The running server's CA service (internal/rpc/ca.go) around the CA key  *)
(* it holds in memory (internal/crypto/signer.go), and the commands        *)
(* "ca unseal", "ca seal", "ca status" and "ca sign" that call it, or do   *)
(* their work in their own process when no server answers                  *)
(* (cmd/sourcevault/ca.go).  net/rpc serves every call in a goroutine of   *)
(* its own, so calls interleave at every lock operation, field access and  *)
(* read of the registry.                                                   *)
(*                                                                         *)
(* The registry is here only what the service reads of it: the active CA   *)
(* and whether its ValidUntil has passed.                                  *)
(***************************************************************************)
EXTENDS RWMutex

CONSTANTS
  CA,        \* the UUIDs of certificate authorities
  Ops,       \* the commands in use
  Env        \* what happens around the service (ServiceAssumption)

NoCA == ""

(* "rotate"   another command changes the active CA, and ActiveCA.yaml is  *)
(*            empty for a moment when it does;                             *)
(* "expire"   CAs reach the end of their validity;                         *)
(* "restart"  the server stops, and starts again.                          *)
ASSUME ServiceAssumption ==
  /\ NoCA \notin CA
  /\ Ops \subseteq {"unseal", "seal", "status", "sign"}
  /\ Env \subseteq {"rotate", "expire", "restart"}

VARIABLES
  activeSigner,  \* CASigner: the CA whose key is loaded, or NoCA
  caPath,        \*   and the CA whose key file it was loaded from
  up,            \* the server answers on its socket
  active,        \* the registry: the active CA
  expired,       \*   and those whose ValidUntil has passed
  op,            \* of each call: the command,
  pc,            \*   its next step,
  path,          \*   the CA it unseals, or the path it reports,
  seen,          \*   the signer it has read,
  res,           \*   and its outcome
  began,         \* history: the CAs expired when the call began
  sealedSince    \* history: calls of Sign begun, and still, with no key loaded

registry == <<active, expired>>
signer   == <<activeSigner, caPath>>
call     == <<op, path, res, began>>
vars     == <<mu, signer, up, registry, call, pc, seen, sealedSince>>

UUID  == CA \cup {NoCA}
Pc    == {"idle", "active", "lock", "enter", "signer", "path", "unlock",
          "rlock", "read", "runlock", "rlock2", "read2", "runlock2", "sign",
          "local", "recheck", "done"}

TypeOK ==
  /\ MutexTypeOK
  /\ activeSigner \in UUID /\ caPath \in UUID
  /\ up \in BOOLEAN
  /\ active \in UUID /\ expired \subseteq CA
  /\ op \in [Call -> {"unseal", "seal", "status", "sign"}]
  /\ pc \in [Call -> Pc]
  /\ path \in [Call -> UUID] /\ seen \in [Call -> UUID]
  /\ res \in [Call -> {"none", "ok", "error"}]
  /\ began \in [Call -> SUBSET CA]
  /\ sealedSince \subseteq Call

Init ==
  /\ MutexInit
  /\ activeSigner = NoCA /\ caPath = NoCA
  /\ up = TRUE
  /\ active \in CA /\ expired = {}
  /\ op = [r \in Call |-> "status"]
  /\ pc = [r \in Call |-> "idle"]
  /\ path = [r \in Call |-> NoCA] /\ seen = [r \in Call |-> NoCA]
  /\ res = [r \in Call |-> "none"]
  /\ began = [r \in Call |-> {}]
  /\ sealedSince = {}

GoTo(r, at) == pc' = [pc EXCEPT ![r] = at]

Reply(r, outcome) == /\ res' = [res EXCEPT ![r] = outcome]
                     /\ GoTo(r, "done")
                     /\ UNCHANGED <<op, path, began>>

At(r, ops, at) == op[r] \in ops /\ pc[r] = at

----------------------------------------------------------------------------
(* Commands, before they reach the service.                                *)

FirstStep(o) ==
  CASE o = "unseal"                 -> "active"
    [] o = "seal" /\ up             -> "lock"
    [] o = "status" /\ up           -> "rlock"
    [] o = "sign" /\ up             -> "active"
    [] o = "sign" /\ ~up            -> "local"
    [] o \in {"seal", "status"} /\ ~up -> "done"

(* GetClient decides between the server and the process's own signer; that *)
(* one is sealed, so a local seal or status has nothing to do.             *)
Begin(r) ==
  /\ pc[r] = "idle"
  /\ \E o \in Ops :
       /\ op' = [op EXCEPT ![r] = o]
       /\ GoTo(r, FirstStep(o))
       /\ sealedSince' = IF o = "sign" /\ up /\ activeSigner = NoCA
                         THEN sealedSince \cup {r} ELSE sealedSince
       /\ res' = [res EXCEPT ![r] = IF FirstStep(o) = "done" THEN "ok" ELSE "none"]
  /\ began' = [began EXCEPT ![r] = expired]
  /\ UNCHANGED <<mu, signer, up, registry, path, seen>>

End(r) ==
  /\ pc[r] = "done"
  /\ GoTo(r, "idle")
  /\ res' = [res EXCEPT ![r] = "none"]
  /\ path' = [path EXCEPT ![r] = NoCA]
  /\ seen' = [seen EXCEPT ![r] = NoCA]
  /\ began' = [began EXCEPT ![r] = {}]
  /\ sealedSince' = sealedSince \ {r}
  /\ UNCHANGED <<mu, signer, up, registry, op>>

(* "ca unseal" finds the active CA, checks that it has not expired, and    *)
(* sends the path of its key file.  Without a server it unseals its own    *)
(* signer, which ends with it.                                             *)
UnsealActive(r) ==
  /\ At(r, {"unseal"}, "active")
  /\ IF active = NoCA \/ active \in expired
     THEN Reply(r, "error")
     ELSE /\ path' = [path EXCEPT ![r] = active]
          /\ IF up THEN GoTo(r, "lock") /\ UNCHANGED res
                   ELSE GoTo(r, "done") /\ res' = [res EXCEPT ![r] = "ok"]
          /\ UNCHANGED <<op, began>>
  /\ UNCHANGED <<mu, signer, up, registry, seen, sealedSince>>

(* A wrong passphrase, an unreadable key file or record, a public key that *)
(* does not parse: the call fails before it has taken the lock.            *)
Fail(r) ==
  /\ pc[r] \in {"active", "local", "recheck", "sign"} \/ At(r, {"unseal"}, "lock")
  /\ Reply(r, "error")
  /\ UNCHANGED <<mu, signer, up, registry, seen, sealedSince>>

----------------------------------------------------------------------------
(* CASigner: UnsealFromPath and Seal.                                      *)

Lock(r) ==
  /\ At(r, {"unseal", "seal"}, "lock")
  /\ Announce(r)
  /\ GoTo(r, "enter")
  /\ UNCHANGED <<signer, up, registry, call, seen, sealedSince>>

Locked(r) ==
  /\ At(r, {"unseal", "seal"}, "enter")
  /\ Enter(r)
  /\ GoTo(r, "signer")
  /\ UNCHANGED <<signer, up, registry, call, seen, sealedSince>>

(* What the call leaves in the signer: path[r] is NoCA when it seals.      *)
SetSigner(r) ==
  /\ pc[r] = "signer"
  /\ activeSigner' = path[r]
  /\ sealedSince' = IF path[r] = NoCA THEN sealedSince ELSE {}
  /\ GoTo(r, "path")
  /\ UNCHANGED <<mu, caPath, up, registry, call, seen>>

BugPublicKeyPath(r) == caPath' = IF path[r] = NoCA THEN NoCA ELSE "public key"

BugSealKeepsPath(r) == caPath' = IF path[r] = NoCA THEN caPath ELSE path[r]

AssignPath(r) == caPath' = path[r]

SetPath(r) ==
  /\ pc[r] = "path"
  /\ AssignPath(r)
  /\ GoTo(r, "unlock")
  /\ UNCHANGED <<mu, activeSigner, up, registry, call, seen, sealedSince>>

Unlocked(r) ==
  /\ pc[r] = "unlock"
  /\ Unlock(r)
  /\ Reply(r, "ok")
  /\ UNCHANGED <<signer, up, registry, seen, sealedSince>>

----------------------------------------------------------------------------
(* CAService.Status: IsUnsealed and CAPath, each under its own read lock.  *)

ReadLock(r) ==
  /\ At(r, {"status", "sign"}, "rlock") \/ At(r, {"status"}, "rlock2")
  /\ RLock(r)
  /\ GoTo(r, IF pc[r] = "rlock" THEN "read" ELSE "read2")
  /\ UNCHANGED <<signer, up, registry, call, seen, sealedSince>>

ReadSigner(r) ==
  /\ pc[r] = "read" /\ r \in readers
  /\ seen' = [seen EXCEPT ![r] = activeSigner]
  /\ GoTo(r, "runlock")
  /\ UNCHANGED <<mu, signer, up, registry, call, sealedSince>>

ReadPath(r) ==
  /\ pc[r] = "read2" /\ r \in readers
  /\ path' = [path EXCEPT ![r] = caPath]
  /\ GoTo(r, "runlock2")
  /\ UNCHANGED <<mu, signer, up, registry, op, res, began, seen, sealedSince>>

ReadUnlock(r) ==
  /\ pc[r] = "runlock"
  /\ RUnlock(r)
  /\ GoTo(r, IF op[r] = "status" THEN "rlock2" ELSE "sign")
  /\ UNCHANGED <<signer, up, registry, call, seen, sealedSince>>

StatusReply(r) ==
  /\ pc[r] = "runlock2"
  /\ RUnlock(r)
  /\ Reply(r, "ok")
  /\ UNCHANGED <<signer, up, registry, seen, sealedSince>>

----------------------------------------------------------------------------
(* CAService.Sign.                                                         *)

BugNoExpiryCheck == FALSE

(* The check is about the registry's active CA, and is skipped when there  *)
(* is none.                                                                *)
ActiveExpired == active \in expired

SignCheck(r) ==
  /\ At(r, {"sign"}, "active")
  /\ IF ActiveExpired THEN Reply(r, "error")
                      ELSE GoTo(r, "rlock") /\ UNCHANGED call
  /\ UNCHANGED <<mu, signer, up, registry, seen, sealedSince>>

BugSignAnyway(r) == TRUE

HasSigner(r) == seen[r] # NoCA

(* With the signer it has read, whatever has become of it since.           *)
Sign(r) ==
  /\ pc[r] = "sign"
  /\ Reply(r, IF HasSigner(r) THEN "ok" ELSE "error")
  /\ UNCHANGED <<mu, signer, up, registry, seen, sealedSince>>

(* "ca sign" without a server: unseal the active CA, then check the one    *)
(* that is active by then.                                                 *)
LocalUnseal(r) ==
  /\ At(r, {"sign"}, "local")
  /\ IF active = NoCA THEN Reply(r, "error")
     ELSE /\ path' = [path EXCEPT ![r] = active]
          /\ GoTo(r, "recheck")
          /\ UNCHANGED <<op, res, began>>
  /\ UNCHANGED <<mu, signer, up, registry, seen, sealedSince>>

LocalSign(r) ==
  /\ At(r, {"sign"}, "recheck")
  /\ Reply(r, IF ActiveExpired THEN "error" ELSE "ok")
  /\ UNCHANGED <<mu, signer, up, registry, seen, sealedSince>>

----------------------------------------------------------------------------
(* What happens around the service.                                        *)

Rotate ==
  /\ "rotate" \in Env
  /\ active' \in UUID \ {active}
  /\ UNCHANGED <<mu, signer, up, expired, call, pc, seen, sealedSince>>

Expire ==
  /\ "expire" \in Env
  /\ \E u \in CA \ expired : expired' = expired \cup {u}
  /\ UNCHANGED <<mu, signer, up, active, call, pc, seen, sealedSince>>

InServer == {r \in Call : pc[r] \in {"lock", "enter", "signer", "path", "unlock", "rlock",
                                     "read", "runlock", "rlock2", "read2", "runlock2"}
                          \/ At(r, {"sign"}, "active") \/ At(r, {"sign"}, "sign")}

(* Every call that is being served fails at its client.                    *)
StopServer ==
  /\ "restart" \in Env /\ up
  /\ up' = FALSE
  /\ activeSigner' = NoCA /\ caPath' = NoCA
  /\ owner' = Nobody /\ writing' = FALSE /\ readers' = {} /\ blocked' = {}
  /\ pc' = [r \in Call |-> IF r \in InServer THEN "done" ELSE pc[r]]
  /\ res' = [r \in Call |-> IF r \in InServer THEN "error" ELSE res[r]]
  /\ seen' = [r \in Call |-> IF r \in InServer THEN NoCA ELSE seen[r]]
  /\ UNCHANGED <<registry, op, path, began, sealedSince>>

StartServer ==
  /\ "restart" \in Env /\ ~up
  /\ up' = TRUE
  /\ UNCHANGED <<mu, signer, registry, call, pc, seen, sealedSince>>

Step(r) ==
  \/ UnsealActive(r) \/ Fail(r)
  \/ Lock(r) \/ Locked(r) \/ SetSigner(r) \/ SetPath(r) \/ Unlocked(r)
  \/ ReadLock(r) \/ ReadSigner(r) \/ ReadPath(r) \/ ReadUnlock(r) \/ StatusReply(r)
  \/ SignCheck(r) \/ Sign(r) \/ LocalUnseal(r) \/ LocalSign(r)

Next ==
  \/ \E r \in Call : Begin(r) \/ Step(r) \/ End(r)
  \/ Rotate \/ Expire \/ StopServer \/ StartServer

Spec == Init /\ [][Next]_vars

(* A goroutine that can run does.  For the inner mutex that is strong      *)
(* fairness: in its starvation mode sync.Mutex hands itself to the waiter  *)
(* that has waited longest.                                                *)
FairSpec == /\ Spec
            /\ \A r \in Call : WF_vars(Step(r)) /\ SF_vars(Lock(r))
----------------------------------------------------------------------------
(* Properties.                                                             *)

(* Outside of the writers' critical section the two fields of CASigner     *)
(* agree, whatever calls of Unseal and Seal were interleaved or cut off.   *)
PathMatchesSigner == ~writing => caPath = activeSigner

(* CASigner is an atomic slot: no call sees one of its fields updated and  *)
(* the other not yet.                                                      *)
Slot == INSTANCE AtomicSigner WITH loaded <- caPath
ImplementsSlot == Slot!SlotSpec

(* "Sign() calls will be rejected until Unseal is called again"            *)
(* (signer.go:79): one that starts on a sealed signer, and during which    *)
(* none is loaded, does not succeed.                                       *)
SealedSignFails ==
  \A r \in sealedSince : At(r, {"sign"}, "done") => res[r] = "error"

Key(r) == IF seen[r] # NoCA THEN seen[r] ELSE path[r]

(* "Ensure the CA being used for signing has not expired" (rpc/ca.go:114): *)
(* no certificate is issued with a CA that had expired when the call       *)
(* began.  True while the active CA stays the same, false when it changes: *)
(* the check is of the active CA, the key is the one that was loaded.      *)
ExpiredNeverSigns ==
  \A r \in Call : At(r, {"sign"}, "done") /\ res[r] = "ok" => Key(r) \notin began[r]

(* Every call is answered: the lock is always released, a stream of        *)
(* readers does not starve a writer, nor a stream of writers a reader.     *)
CallsEnd == \A r \in Call : pc[r] # "idle" ~> pc[r] \in {"done", "idle"}

(* "Status returns the current unseal status and path of the CA"           *)
(* (rpc/ca.go:58): the two belong together.                                *)
StatusIsConsistent ==
  \A r \in Call : At(r, {"status"}, "done") /\ res[r] = "ok"
                    => (seen[r] = NoCA <=> path[r] = NoCA)
=============================================================================
