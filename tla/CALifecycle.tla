---------------------------- MODULE CALifecycle ----------------------------
(***************************************************************************)
(* The life of certificate authorities on one node: the CLI commands that  *)
(* create, rotate and revoke them (cmd/sourcevault/ca.go, ForceCreateCA in *)
(* internal/crypto/bootstrap.go, the writers of internal/registry/sync.go) *)
(* and the start of the server, which force-syncs the worktree, caches the *)
(* registry in the database and restores lost key files (EnsureRegistry,   *)
(* EnsureCA, internal/db/ca.go).  Every command is a process of its own;   *)
(* each git command, file write and SQL statement is one step, and between *)
(* any two of them the process may fail or be killed.                      *)
(***************************************************************************)
EXTENDS GitRegistry

CONSTANTS
  Cli,       \* concurrently running command-line processes
  Commands,  \* the commands the operator uses
  Env        \* what the environment may do (EnvAssumption)

(* "torn"        a process can be killed, or a file read, between the      *)
(*               truncation of a file and the write of its bytes;          *)
(* "concurrent"  commands may run at the same time;                        *)
(* "overlap"     so may commands and a start of the server;                *)
(* "dbfail"      SQL statements may fail (locked database, full disk);     *)
(* "wipe"        data/ca may be cleared while nothing runs.                *)
ASSUME EnvAssumption ==
  /\ Env \subseteq {"torn", "concurrent", "overlap", "dbfail", "wipe"}
  /\ Commands \subseteq {"create", "rotate", "revoke", "start"}

VARIABLES
  minted,    \* the UUIDs generated so far
  priv,      \* data/ca/{uuid}: the CA whose private key the file holds
  pub,       \* data/ca/{uuid}.pub: likewise for the public key
  dbRows,    \* certificate_authorities: its uuids,
  dbActive,  \*   those with is_active = 1,
  dbRevoked, \*   and those with revoked = 1
  phase,     \* of each command: what it is doing
  step,      \*   and the next step of that
  new,       \*   the CA it creates
  old,       \*   the CA it revokes
  form,      \*   the record it will write back when it revokes
  pc,        \* of the server: where its start has got to
  target,    \*   the active UUID it read from the registry
  listed,    \*   the records it has yet to cache
  source     \*   the row it restores the key files from

files  == <<priv, pub>>
db     == <<dbRows, dbActive, dbRevoked>>
cmd    == <<phase, step, new, old, form>>
server == <<pc, target, listed, source>>
vars   == <<trees, minted, files, db, cmd, server>>

Phase == {"idle", "save", "activate", "cache", "verify", "revoke"}
Step  == {"none", "read", "write", "fill", "add", "commit", "push",
          "upsert", "clear"}
Pc    == {"down", "sync", "active", "list", "cache", "clear", "check",
          "priv", "privfill", "pub", "pubfill", "up"}
UUID  == CA \cup {NoCA}
Keys  == CA \cup {Absent, Blank}
Entry == [uuid : UUID, revoked : BOOLEAN]

(* Every variable holds what its comment says.                             *)
TypeOK ==
  /\ GitTypeOK
  /\ minted \subseteq CA
  /\ priv \in [CA -> Keys] /\ pub \in [CA -> Keys]
  /\ dbRows \subseteq UUID /\ dbActive \subseteq UUID /\ dbRevoked \subseteq UUID
  /\ phase \in [Cli -> Phase] /\ step \in [Cli -> Step]
  /\ new \in [Cli -> UUID] /\ old \in [Cli -> UUID]
  /\ form \in [Cli -> Record]
  /\ pc \in Pc /\ target \in UUID /\ source \in UUID
  /\ listed \subseteq Entry

Init ==
  /\ GitInit
  /\ minted = {}
  /\ priv = [u \in CA |-> Absent] /\ pub = [u \in CA |-> Absent]
  /\ dbRows = {} /\ dbActive = {} /\ dbRevoked = {}
  /\ phase = [p \in Cli |-> "idle"] /\ step = [p \in Cli |-> "none"]
  /\ new = [p \in Cli |-> NoCA] /\ old = [p \in Cli |-> NoCA]
  /\ form = [p \in Cli |-> Husk]
  /\ pc = "down" /\ target = NoCA /\ listed = {} /\ source = NoCA

AllIdle  == \A p \in Cli : phase[p] = "idle"
Starting == pc \notin {"down", "up"}

----------------------------------------------------------------------------
(* Commands.                                                               *)

GoTo(p, ph, st) == /\ phase' = [phase EXCEPT ![p] = ph]
                   /\ step' = [step EXCEPT ![p] = st]
                   /\ UNCHANGED <<new, old, form>>

(* The process ends, and its variables with it.                            *)
Exit(p) == /\ phase' = [phase EXCEPT ![p] = "idle"]
           /\ step' = [step EXCEPT ![p] = "none"]
           /\ new' = [new EXCEPT ![p] = NoCA]
           /\ old' = [old EXCEPT ![p] = NoCA]
           /\ form' = [form EXCEPT ![p] = Husk]

Begin(p, ph, st, u, o) == /\ phase' = [phase EXCEPT ![p] = ph]
                          /\ step' = [step EXCEPT ![p] = st]
                          /\ new' = [new EXCEPT ![p] = u]
                          /\ old' = [old EXCEPT ![p] = o]
                          /\ UNCHANGED form

(* Without "overlap" no command runs while the server is still starting,   *)
(* and without "concurrent" either the operator runs one command at a time.*)
MayRun(p) ==
  /\ phase[p] = "idle"
  /\ "overlap" \in Env \/ ~Starting
  /\ Env \cap {"concurrent", "overlap"} # {} \/ AllIdle

(* uuid.New: a name nobody has used before.                                *)
FreshUUIDs == CA \ minted

BugWritePubOnly(u) == pub' = [pub EXCEPT ![u] = u] /\ UNCHANGED priv

WriteKeyFiles(u) == /\ priv' = [priv EXCEPT ![u] = u]
                    /\ pub' = [pub EXCEPT ![u] = u]

(* ForceCreateCA up to its call of SaveCAMetadata: the key pair is         *)
(* generated and both files are written before the registry hears of it.   *)
ForceCreateCA(p, u, o) ==
  /\ minted' = minted \cup {u}
  /\ WriteKeyFiles(u)
  /\ Begin(p, "save", "write", u, o)
  /\ UNCHANGED <<trees, db, server>>

Create(p) ==
  /\ "create" \in Commands /\ MayRun(p)
  /\ \E u \in FreshUUIDs : ForceCreateCA(p, u, NoCA)

(* --revoke-uuid names any CA the operator has heard of.                   *)
Rotate(p) ==
  /\ "rotate" \in Commands /\ MayRun(p)
  /\ \E u \in FreshUUIDs, o \in minted : ForceCreateCA(p, u, o)

Revoke(p) ==
  /\ "revoke" \in Commands /\ MayRun(p)
  /\ \E o \in minted : Begin(p, "revoke", "read", NoCA, o)
  /\ UNCHANGED <<trees, minted, files, db, server>>


(* The read of RevokeCAMetadata; a missing file is an error (Abort).       *)
ReadRecord(p) ==
  /\ phase[p] = "revoke" /\ step[p] = "read"
  /\ work[old[p]] # Absent
  /\ form' = [form EXCEPT ![p] = RevokedForm(work[old[p]])]
  /\ step' = [step EXCEPT ![p] = "write"]
  /\ UNCHANGED <<trees, minted, files, db, phase, new, old, server>>

(* SaveCAMetadata, SetActiveCA and RevokeCAMetadata share their shape: one *)
(* file is written, staged, committed and pushed.                          *)
Writing == {"save", "activate", "revoke"}

Subject(p) == CASE phase[p] = "save"   -> new[p]
                [] phase[p] = "revoke" -> old[p]
                [] OTHER               -> ActiveCA

BugActivateOld(p) == CASE phase[p] = "save"   -> Live
                       [] phase[p] = "revoke" -> form[p]
                       [] OTHER -> old[p]

Payload(p) == CASE phase[p] = "save"   -> Live
                [] phase[p] = "revoke" -> form[p]
                [] OTHER               -> new[p]

TruncateFile(p) ==
  /\ "torn" \in Env
  /\ phase[p] \in Writing /\ step[p] = "write"
  /\ Truncate(Subject(p))
  /\ GoTo(p, phase[p], "fill")
  /\ UNCHANGED <<minted, files, db, server>>

FillFile(p) ==
  /\ phase[p] \in Writing /\ step[p] \in {"write", "fill"}
  /\ WriteFile(Subject(p), Payload(p))
  /\ GoTo(p, phase[p], "add")
  /\ UNCHANGED <<minted, files, db, server>>

Add(p) ==
  /\ phase[p] \in Writing /\ step[p] = "add"
  /\ gitAdd(Subject(p))
  /\ GoTo(p, phase[p], "commit")
  /\ UNCHANGED <<minted, files, db, server>>

Commit(p) ==
  /\ phase[p] \in Writing /\ step[p] = "commit"
  /\ gitCommit
  /\ GoTo(p, phase[p], "push")
  /\ UNCHANGED <<minted, files, db, server>>

(* A rotation that revoked the old CA before it had made the new one.      *)
BugRevokeFirst(p) ==
  CASE phase[p] = "save" /\ old[p] # NoCA -> GoTo(p, "revoke", "read")
    [] phase[p] = "save"     -> GoTo(p, "activate", "write")
    [] phase[p] = "activate" -> GoTo(p, "cache", "upsert")
    [] OTHER                 -> Exit(p)

AfterPush(p) ==
  CASE phase[p] = "save"     -> GoTo(p, "activate", "write")
    [] phase[p] = "activate" -> GoTo(p, "cache", "upsert")
    [] OTHER                 -> Exit(p)

Push(p) ==
  /\ phase[p] \in Writing /\ step[p] = "push"
  /\ gitPush
  /\ AfterPush(p)
  /\ UNCHANGED <<minted, files, db, server>>

----------------------------------------------------------------------------
(* The database cache (UpsertCA: two statements, no transaction).          *)

BugKeepOnConflict(u, active, revoked) ==
  /\ dbRows' = dbRows \cup {u}
  /\ dbActive' = IF active /\ u \notin dbRows THEN dbActive \cup {u} ELSE dbActive
  /\ dbRevoked' = IF revoked /\ u \notin dbRows THEN dbRevoked \cup {u} ELSE dbRevoked

(* INSERT ... ON CONFLICT(uuid) DO UPDATE: the key columns of a row that   *)
(* exists keep their first value; row u always holds u's keys, and the row *)
(* of an empty or husk file, uuid "", holds empty ones.                    *)
UpsertRow(u, active, revoked) ==
  /\ dbRows' = dbRows \cup {u}
  /\ dbActive' = IF active THEN dbActive \cup {u} ELSE dbActive \ {u}
  /\ dbRevoked' = IF revoked THEN dbRevoked \cup {u} ELSE dbRevoked \ {u}

(* UPDATE ... SET is_active = 0 WHERE uuid != u.                           *)
ClearOthers(u) == dbActive' = dbActive \cap {u} /\ UNCHANGED <<dbRows, dbRevoked>>

BugAnyRow == dbRows

(* GetActiveCA of internal/db: any row with is_active = 1.                 *)
ActiveRows == dbActive

RowKey(r) == IF r \in CA THEN r ELSE Blank

CacheNew(p) ==
  /\ phase[p] = "cache" /\ step[p] = "upsert"
  /\ UpsertRow(new[p], TRUE, FALSE)
  /\ GoTo(p, "cache", "clear")
  /\ UNCHANGED <<trees, minted, files, server>>

ClearOld(p) ==
  /\ phase[p] = "cache" /\ step[p] = "clear"
  /\ ClearOthers(new[p])
  /\ GoTo(p, "verify", "none")
  /\ UNCHANGED <<trees, minted, files, server>>

(* ForceCreateCA only warns when a statement fails.                        *)
CacheFails(p) ==
  /\ "dbfail" \in Env /\ phase[p] = "cache"
  /\ GoTo(p, "verify", "none")
  /\ UNCHANGED <<trees, minted, files, db, server>>

(* The rest of a creation: unsealing the new key file, and reading the new *)
(* active CA back.  A failure, the nil dereference of a missing active CA  *)
(* included, ends the process (Abort).  A rotation goes on to revoke.      *)
Verify(p) ==
  /\ phase[p] = "verify"
  /\ priv[new[p]] = new[p]
  /\ LET a == ActiveOf(work) IN a # NoCA /\ work[a] # Absent
  /\ IF old[p] = NoCA THEN Exit(p) ELSE GoTo(p, "revoke", "read")
  /\ UNCHANGED <<trees, minted, files, db, server>>

(* A command fails, or is killed, between any two of its steps: nothing    *)
(* it has done is undone.                                                  *)
Abort(p) ==
  /\ phase[p] # "idle"
  /\ Exit(p)
  /\ UNCHANGED <<trees, minted, files, db, server>>

Command(p) ==
  \/ Create(p) \/ Rotate(p) \/ Revoke(p)
  \/ ReadRecord(p) \/ TruncateFile(p) \/ FillFile(p)
  \/ Add(p) \/ Commit(p) \/ Push(p)
  \/ CacheNew(p) \/ ClearOld(p) \/ CacheFails(p)
  \/ Verify(p) \/ Abort(p)

----------------------------------------------------------------------------
(* The start of the server, from EnsureRegistry to the end of EnsureCA.    *)

StartServer ==
  /\ "start" \in Commands /\ pc = "down"
  /\ "overlap" \in Env \/ AllIdle
  /\ pc' = "sync"
  /\ UNCHANGED <<trees, minted, files, db, cmd, target, listed, source>>

(* EnsureRegistry on an existing worktree.                                 *)
SyncWorktree ==
  /\ pc = "sync"
  /\ gitResetHard
  /\ pc' = "active"
  /\ UNCHANGED <<minted, files, db, cmd, target, listed, source>>

ReadActive ==
  /\ pc = "active"
  /\ target' = ActiveOf(work)
  /\ pc' = "list"
  /\ UNCHANGED <<trees, minted, files, db, cmd, listed, source>>

(* An empty list ends EnsureCA: the system is uninitialized.               *)
List ==
  /\ pc = "list"
  /\ listed' = Listing(work)
  /\ pc' = IF Listing(work) = {} THEN "up" ELSE "cache"
  /\ UNCHANGED <<trees, minted, files, db, cmd, target, source>>

(* The listed records are cached in the order of their random names.       *)
CacheListed ==
  /\ pc = "cache"
  /\ \E m \in listed :
       /\ UpsertRow(m.uuid, m.uuid = target, m.revoked)
       /\ listed' = listed \ {m}
       /\ pc' = IF m.uuid = target THEN "clear" ELSE "cache"
  /\ UNCHANGED <<trees, minted, files, cmd, target, source>>

ClearInactive ==
  /\ pc = "clear"
  /\ ClearOthers(target)
  /\ pc' = "cache"
  /\ UNCHANGED <<trees, minted, files, cmd, target, listed, source>>

(* EnsureCA only warns when caching a record fails, and goes on.           *)
CachingFails ==
  /\ "dbfail" \in Env
  /\ \/ pc = "cache" /\ \E m \in listed : listed' = listed \ {m}
     \/ pc = "clear" /\ UNCHANGED listed
  /\ pc' = "cache"
  /\ UNCHANGED <<trees, minted, files, db, cmd, target, source>>

AllCached ==
  /\ pc = "cache" /\ listed = {}
  /\ pc' = "check"
  /\ UNCHANGED <<trees, minted, files, db, cmd, target, listed, source>>

BugSkipRestore == pc' = "up" /\ UNCHANGED source

RestoreFromCache == \E r \in ActiveRows : source' = r /\ pc' = "priv"

(* Only the existence of the private key file is checked.  With no active  *)
(* row to restore from, the start fails (ServerStops).                     *)
CheckKeyFile ==
  /\ pc = "check"
  /\ IF target = NoCA \/ priv[target] # Absent
     THEN pc' = "up" /\ UNCHANGED source
     ELSE RestoreFromCache
  /\ UNCHANGED <<trees, minted, files, db, cmd, target, listed>>

(* restoreCA: the private, then the public key file.                       *)
RestorePrivTorn ==
  /\ "torn" \in Env /\ pc = "priv"
  /\ priv' = [priv EXCEPT ![target] = Blank]
  /\ pc' = "privfill"
  /\ UNCHANGED <<trees, minted, pub, db, cmd, target, listed, source>>

RestorePriv ==
  /\ pc \in {"priv", "privfill"}
  /\ priv' = [priv EXCEPT ![target] = RowKey(source)]
  /\ pc' = "pub"
  /\ UNCHANGED <<trees, minted, pub, db, cmd, target, listed, source>>

RestorePubTorn ==
  /\ "torn" \in Env /\ pc = "pub"
  /\ pub' = [pub EXCEPT ![target] = Blank]
  /\ pc' = "pubfill"
  /\ UNCHANGED <<trees, minted, priv, db, cmd, target, listed, source>>

RestorePub ==
  /\ pc \in {"pub", "pubfill"}
  /\ pub' = [pub EXCEPT ![target] = RowKey(source)]
  /\ pc' = "up" /\ source' = NoCA
  /\ UNCHANGED <<trees, minted, priv, db, cmd, target, listed>>

(* The start fails, or the server is stopped or killed.                    *)
ServerStops ==
  /\ pc # "down"
  /\ pc' = "down" /\ target' = NoCA /\ listed' = {} /\ source' = NoCA
  /\ UNCHANGED <<trees, minted, files, db, cmd>>

StartStep ==
  \/ SyncWorktree \/ ReadActive \/ List
  \/ CacheListed \/ ClearInactive \/ CachingFails \/ AllCached
  \/ CheckKeyFile \/ RestorePrivTorn \/ RestorePriv
  \/ RestorePubTorn \/ RestorePub

(* The loss that the restoration from the cache is there for.              *)
WipeKeyFiles ==
  /\ "wipe" \in Env
  /\ pc = "down" /\ AllIdle
  /\ priv' = [u \in CA |-> Absent] /\ pub' = [u \in CA |-> Absent]
  /\ UNCHANGED <<trees, minted, db, cmd, server>>

Next ==
  \/ \E p \in Cli : Command(p)
  \/ StartServer \/ StartStep \/ ServerStops
  \/ WipeKeyFiles

Spec == Init /\ [][Next]_vars

(* A start that has begun keeps taking its steps: it is one goroutine      *)
(* running straight through EnsureRegistry and EnsureCA.                   *)
FairSpec == Spec /\ WF_vars(StartStep)

----------------------------------------------------------------------------
(* Properties.                                                             *)

Recorded(t, u) == t[u] \in {Live, Revoked}

(* A command that has gone past SaveCAMetadata has its record, with the    *)
(* only backup of the private key, in the bare repository: the CA it goes  *)
(* on to activate, to cache and to report can be recovered from there.     *)
SavedIsPublished ==
  \A p \in Cli : phase[p] \in {"activate", "cache", "verify"}
                   => bare[new[p]] # Absent

(* A commit, published or not, that names an active CA holds its record:   *)
(* GetActiveCA never fails on a registry some crash has left behind.       *)
ActiveIsRecorded ==
  \A t \in {index, head, bare} : ActiveOf(t) # NoCA => t[ActiveOf(t)] # Absent

(* Whatever interleaving of commands and starts led there, the active CA   *)
(* of every tree has its own private key on the node: Unseal can load it.  *)
ActiveHasKey ==
  \A t \in {work, index, head, bare} :
    ActiveOf(t) # NoCA => priv[ActiveOf(t)] = ActiveOf(t)

(* Restoring never puts the key of one CA into the file of another.        *)
KeyFileHoldsOwnKey == \A u \in CA : priv[u] \in CA => priv[u] = u

(* At the end of its synchronisation EnsureCA has cached every record of   *)
(* the registry, as revoked or not and as active or not.                   *)
CacheMatchesRegistry ==
  pc = "check" =>
    \A u \in CA : Recorded(work, u) =>
      /\ u \in dbRows
      /\ u \in dbRevoked <=> work[u] = Revoked
      /\ u \in dbActive <=> u = target

(* A running server has the private key of the CA it found active, also    *)
(* when data/ca was lost and when earlier starts crashed while restoring.  *)
RunningHasKey == pc = "up" /\ target # NoCA => priv[target] = target

(* A published revocation is never undone: not by a command that read the  *)
(* record before it, nor by a crash, a reset or a late push.               *)
RevocationIsFinal ==
  [][\A u \in CA : bare[u] = Revoked => bare'[u] = Revoked]_vars

(* To its readers the bare repository is the ledger of CALedger.           *)
Ledger == INSTANCE CALedger WITH record <- [u \in CA |-> bare[u]],
                                 active <- ActiveOf(bare)
ImplementsLedger == Ledger!LedgerSpec

HasValidCA(t) == ActiveOf(t) # NoCA /\ t[ActiveOf(t)] = Live

(* "so the node is never left without a valid CA" (ca.go:252): rotations   *)
(* and creations, crashing anywhere, keep a valid CA active once there is  *)
(* one.                                                                    *)
ValidCAStays == [][HasValidCA(bare) => HasValidCA(bare')]_vars

(* A start that finds an active CA ends: it stops, or the server runs with *)
(* the CA's private key in place.                                          *)
StartRestoresKey ==
  (pc = "active" /\ ActiveOf(work) # NoCA)
    ~> (pc = "down" \/ (pc = "up" /\ target \in CA /\ priv[target] = target))

(* What the documentation says and the code does not do.                   *)

(* "Writes CA metadata to the registry worktree ... and commits the        *)
(* change" (sync.go:182): when SaveCAMetadata has returned, the commit is  *)
(* there.                                                                  *)
SaveIsCommitted ==
  \A p \in Cli : phase[p] = "activate" /\ step[p] = "write" => head[new[p]] # Absent

(* "force-sync it to exactly match the bare repo" (registry.go:97).        *)
SyncMatchesBare == pc = "active" => work = bare

(* "RevokeCAMetadata marks a CA as revoked ... by updating its YAML file"  *)
(* (sync.go:215): the rest of the record stays.                            *)
RevokeKeepsRecord ==
  [][\A u \in CA : bare[u] = Live => bare'[u] \in {Live, Revoked}]_vars

(* "attempt to restore from registry or force-create a new one"            *)
(* (start.go:138): a started server has a CA.                              *)
StartedHasCA == pc = "up" => target # NoCA

(* "Normal writes go to both simultaneously — registry first, then DB"     *)
(* (TODO.md:71): with no command at work the two agree.                    *)
WritesReachCache ==
  AllIdle /\ pc = "up" =>
    \A u \in dbRows \cap CA : bare[u] = Revoked => u \in dbRevoked

(* "guarantees that the local system is in sync with the authoritative CA" *)
(* (bootstrap.go:44): both key files are those of the active CA.           *)
StartedHasKeyPair ==
  pc = "up" /\ target # NoCA => priv[target] = target /\ pub[target] = target

=============================================================================
