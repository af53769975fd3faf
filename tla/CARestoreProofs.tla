--------------------------- MODULE CARestoreProofs ---------------------------
(***************************************************************************)
(* What a start of the server leaves behind: the database holds what the   *)
(* registry says, the key file that a start restores holds the key of the  *)
(* CA it is named after, and a running server has the key of the CA it     *)
(* found active.  A start reads the registry once and acts on it in a      *)
(* dozen steps, so that no command may run beside it (StartsAlone).        *)
(***************************************************************************)
EXTENDS CARotationProofs

StartsAlone == "overlap" \notin Env \/ "start" \notin Commands

(* The entry that ListCAMetadata returns for a whole record.               *)
OwnEntry(u) == [uuid |-> u, revoked |-> work[u] = Revoked]

Cached(u) == /\ u \in dbRows
             /\ u \in dbRevoked <=> work[u] = Revoked
             /\ u \in dbActive <=> u = target

(* While a start caches the registry, every record is either still listed  *)
(* or in its row; no listed entry is stale; none is left at the check.     *)
CacheInv ==
  /\ pc \in {"cache", "clear", "check"} =>
       \A u \in CA : Recorded(work, u) => OwnEntry(u) \in listed \/ Cached(u)
  /\ pc \in {"cache", "clear"} =>
       \A m \in listed :
         m.uuid \in CA => Recorded(work, m.uuid) /\ m = OwnEntry(m.uuid)
  /\ pc = "check" => listed = {}

(* Once the active CA is cached and the other rows are cleared, its row is *)
(* the only active one, also among rows the registry does not know of.     *)
RowInv ==
  pc \in {"cache", "check"} /\ target \in CA /\ Recorded(work, target) =>
    OwnEntry(target) \in listed \/ dbActive \subseteq {target}

(* GetActiveCA of the registry: the CA that is named has its record.       *)
ActiveFound == ActiveOf(work) # NoCA => Recorded(work, ActiveOf(work))

(* A start has found the record of the CA it restores, and restores the    *)
(* key of that CA.                                                         *)
RestoreInv ==
  /\ pc \in {"list", "cache", "clear", "check"} /\ target # NoCA => Recorded(work, target)
  /\ pc \in {"priv", "privfill", "pub", "pubfill"} => target \in CA /\ source = target
  /\ KeyFileHoldsOwnKey

(* Where no file is caught truncated, a key file that exists is whole, and *)
(* the check for its existence is enough.                                  *)
RunningInv ==
  /\ \A u \in CA : priv[u] \in {Absent, u}
  /\ pc = "pub" => priv[target] = target
  /\ pc \notin {"privfill", "pubfill"}
  /\ RunningHasKey

----------------------------------------------------------------------------
(* Caching the registry.                                                   *)

(* No command takes a step while the server is starting.                   *)
LEMMA CommandsWait ==
  ASSUME StartsAlone, TypeInv, Quiet, NEW p \in Cli, Command(p)
  PROVE  ~Starting /\ UNCHANGED server
<1>1. UNCHANGED server
  BY DEF Command, Create, Rotate, ForceCreateCA, Revoke, ReadRecord, TruncateFile, FillFile,
     Add, Commit, Push, CacheNew, ClearOld, CacheFails, Verify, Abort
<1>2. phase[p] = "idle" => MayRun(p)
  BY DEF Command, Create, Rotate, Revoke, ReadRecord, TruncateFile, FillFile, Add, Commit,
     Push, CacheNew, ClearOld, CacheFails, Verify, Abort, Writing
<1>3. ~Starting
  BY <1>2 DEF StartsAlone, Quiet, MayRun, AllIdle, Starting
<1> QED
  BY <1>1, <1>3

LEMMA AlwaysQuiet ==
  ASSUME StartsAlone
  PROVE  Spec => [](TypeInv /\ Quiet)
<1>1. Init => Quiet
  BY DEF Init, Quiet, Starting
<1>2. TypeInv /\ Quiet /\ [Next]_vars => Quiet'
  <2>1. CASE UNCHANGED vars
    BY <2>1 DEF vars, cmd, server, Quiet, Starting, AllIdle
  <2> QED
    BY <2>1, CommandQuiet, ServerQuiet DEF Next, StartsAlone
<1> QED
  BY <1>1, <1>2, AlwaysTypeInv, PTL DEF Spec

(* The entries of the listing that name a CA are those of whole records.   *)
LEMMA ListingEntries ==
  /\ \A u \in CA : Recorded(work, u) => OwnEntry(u) \in Listing(work)
  /\ \A m \in Listing(work) :
       m.uuid \in CA => Recorded(work, m.uuid) /\ m = OwnEntry(m.uuid)
<1>1. \A u \in CA : Recorded(work, u) => /\ UuidOf(work, u) = u
                                         /\ work[u] # Absent
                                         /\ (work[u] \in {Revoked, Husk}) = (work[u] = Revoked)
  BY DEF Recorded, UuidOf, Absent, Live, Revoked, Husk
<1>2. \A u \in CA : UuidOf(work, u) \in CA => Recorded(work, u)
  BY CAAssumption DEF Recorded, UuidOf
<1>3. ASSUME NEW u \in CA, Recorded(work, u) PROVE OwnEntry(u) \in Listing(work)
  BY <1>1, <1>3 DEF Listing, OwnEntry
<1>4. ASSUME NEW m \in Listing(work), m.uuid \in CA
      PROVE  Recorded(work, m.uuid) /\ m = OwnEntry(m.uuid)
  <2>1. PICK u \in CA : m = [uuid |-> UuidOf(work, u),
                             revoked |-> work[u] \in {Revoked, Husk}]
    BY <1>4 DEF Listing
  <2> QED
    BY <1>1, <1>2, <1>4, <2>1 DEF OwnEntry
<1> QED
  BY <1>3, <1>4

LEMMA CommandCacheInv ==
  ASSUME StartsAlone, TypeInv, Quiet, NEW p \in Cli, Command(p)
  PROVE  CacheInv' /\ RowInv'
  BY CommandsWait DEF CacheInv, RowInv, Starting, server

LEMMA ServerCacheInv ==
  ASSUME "dbfail" \notin Env, TypeInv, CacheInv, RowInv,
         StartServer \/ StartStep \/ ServerStops \/ WipeKeyFiles
  PROVE  CacheInv' /\ RowInv'
<1> USE DEF TypeInv, TypeOK, CacheInv, RowInv, OwnEntry, Cached, Recorded
<1>1. CASE List
  <2>1. UNCHANGED <<work, target>> /\ listed' = Listing(work) /\ pc' \in {"up", "cache"}
    BY <1>1 DEF List, trees
  <2> QED
    BY <2>1, ListingEntries
<1>2. CASE CacheListed
  <2>1. PICK m \in listed : /\ UpsertRow(m.uuid, m.uuid = target, m.revoked)
                            /\ listed' = listed \ {m}
                            /\ pc' = IF m.uuid = target THEN "clear" ELSE "cache"
    BY <1>2 DEF CacheListed
  <2>2. pc = "cache" /\ UNCHANGED <<work, target>>
    BY <1>2 DEF CacheListed, trees
  <2>3. m \in Entry /\ (m.uuid \in CA => m = OwnEntry(m.uuid))
    BY <2>2
  <2>4. \A u \in CA : u # m.uuid => OwnEntry(u) # m
    OBVIOUS
  <2>5. ASSUME NEW u \in CA, Recorded(work, u)
        PROVE  OwnEntry(u) \in listed' \/ Cached(u)'
    <3>1. CASE u = m.uuid
      <4>1. m.revoked = (work[u] = Revoked)
        BY <2>3, <3>1
      <4> QED
        BY <2>1, <2>2, <3>1, <4>1 DEF UpsertRow
    <3>2. CASE u # m.uuid
      <4>1. OwnEntry(u) \in listed \/ Cached(u)
        BY <2>2, <2>5
      <4> QED
        BY <2>1, <2>2, <2>4, <3>2, <4>1 DEF UpsertRow
    <3> QED
      BY <3>1, <3>2
  <2>6. CacheInv'
    BY <2>1, <2>2, <2>5
  <2>7. RowInv'
    <3>1. CASE m.uuid = target
      BY <2>1, <3>1
    <3>2. CASE m.uuid # target
      BY <2>1, <2>2, <2>4, <3>2 DEF UpsertRow
    <3> QED
      BY <3>1, <3>2
  <2> QED
    BY <2>6, <2>7
<1>3. CASE ClearInactive
  BY <1>3 DEF ClearInactive, ClearOthers, trees
<1>4. CASE CachingFails
  BY <1>4 DEF CachingFails
<1>5. CASE AllCached
  BY <1>5 DEF AllCached, trees, db
<1>6. CASE pc' \notin {"cache", "clear", "check"}
  BY <1>6
<1>7. CASE WipeKeyFiles
  BY <1>7 DEF WipeKeyFiles, server
<1> QED
  BY <1>1, <1>2, <1>3, <1>4, <1>5, <1>6, <1>7 DEF StartServer, ServerStops, StartStep,
     SyncWorktree, ReadActive, CheckKeyFile, RestoreFromCache, RestorePrivTorn, RestorePriv,
     RestorePubTorn, RestorePub

LEMMA AlwaysCacheInv ==
  ASSUME StartsAlone, "dbfail" \notin Env
  PROVE  Spec => [](TypeInv /\ Quiet /\ CacheInv /\ RowInv)
<1>1. Init => CacheInv /\ RowInv
  BY DEF Init, CacheInv, RowInv
<1>2. TypeInv /\ Quiet /\ CacheInv /\ RowInv /\ [Next]_vars => CacheInv' /\ RowInv'
  <2> SUFFICES ASSUME TypeInv, Quiet, CacheInv, RowInv, [Next]_vars
               PROVE  CacheInv' /\ RowInv'
    OBVIOUS
  <2>1. CASE UNCHANGED vars
    BY <2>1 DEF vars, trees, db, server, CacheInv, RowInv, OwnEntry, Cached, Recorded
  <2> QED
    BY <2>1, CommandCacheInv, ServerCacheInv DEF Next
<1> QED
  BY <1>1, <1>2, AlwaysQuiet, PTL DEF Spec

(* When EnsureCA has cached the last record, every record of the registry  *)
(* has its row, revoked or not and active or not as the registry says,     *)
(* whatever commands, crashes and truncated files came before.             *)
THEOREM CacheMatchesRegistryTheorem ==
  ASSUME StartsAlone, "dbfail" \notin Env
  PROVE  Spec => []CacheMatchesRegistry
<1>1. CacheInv => CacheMatchesRegistry
  BY DEF CacheInv, CacheMatchesRegistry, Cached
<1> QED
  BY <1>1, AlwaysCacheInv, PTL

----------------------------------------------------------------------------
(* Restoring the key files.                                                *)

(* What it takes for the active CA to have its record in the worktree:     *)
(* files are never caught truncated, or the operator only creates and      *)
(* rotates CAs, one after the other.                                       *)
Recording == StartsAlone /\ ("torn" \notin Env \/ OneAtATime)

LEMMA AlwaysActiveFound ==
  ASSUME Recording
  PROVE  Spec => []ActiveFound
<1>1. CASE "torn" \notin Env
  <2>1. TypeInv /\ HistoryInv /\ LedgerInv => ActiveFound
    BY CAAssumption DEF LedgerInv, PublishInv, NamesPublished, ActiveFound, ActiveOf, Recorded, HistoryInv,
       Ordered, AtMost, Absent, Live, Revoked
  <2> QED
    BY <1>1, <2>1, AlwaysLedgerInv, PTL DEF Recording, StartsAlone
<1>2. CASE OneAtATime
  <2>1. RotationInv => ActiveFound
    BY CAAssumption DEF RotationInv, ActiveLive, Trees, ActiveFound, ActiveOf, Recorded
  <2> QED
    BY <1>2, <2>1, AlwaysRotationInv, PTL
<1> QED
  BY <1>1, <1>2 DEF Recording

LEMMA CommandRestoreInv ==
  ASSUME StartsAlone, TypeInv, Quiet, RestoreInv, NEW p \in Cli, Command(p)
  PROVE  RestoreInv'
<1>1. ~Starting /\ UNCHANGED server
  BY CommandsWait
<1>2. UNCHANGED priv \/ \E u \in CA : priv' = [priv EXCEPT ![u] = u]
  BY DEF Command, Create, Rotate, ForceCreateCA, WriteKeyFiles, FreshUUIDs, Revoke,
     ReadRecord, TruncateFile, FillFile, Add, Commit, Push, CacheNew, ClearOld, CacheFails,
     Verify, Abort, files
<1> QED
  BY <1>1, <1>2 DEF RestoreInv, KeyFileHoldsOwnKey, Starting, server, TypeInv, TypeOK

LEMMA ServerRestoreInv ==
  ASSUME TypeInv, CacheInv, RowInv, ActiveFound, RestoreInv,
         StartServer \/ StartStep \/ ServerStops \/ WipeKeyFiles
  PROVE  RestoreInv'
<1> USE DEF TypeInv, TypeOK, UUID, trees, files, server, RestoreInv, KeyFileHoldsOwnKey
<1>0. Absent \notin CA /\ Blank \notin CA
  BY CAAssumption
<1>1. CASE StartServer \/ SyncWorktree \/ ServerStops
  BY <1>1 DEF StartServer, SyncWorktree, ServerStops
<1>2. CASE ReadActive
  BY <1>2 DEF ReadActive, ActiveFound, Recorded
<1>3. CASE List \/ CacheListed \/ ClearInactive \/ CachingFails \/ AllCached
  BY <1>3 DEF List, CacheListed, ClearInactive, CachingFails, AllCached, Recorded
<1>4. CASE CheckKeyFile
  <2>1. pc = "check" /\ UNCHANGED <<priv, target>>
    BY <1>4 DEF CheckKeyFile
  <2>2. CASE pc' = "up"
    BY <2>1, <2>2
  <2>3. CASE pc' # "up"
    <3>1. target \in CA /\ pc' = "priv" /\ source' \in dbActive
      BY <1>4, <2>3 DEF CheckKeyFile, RestoreFromCache, ActiveRows
    <3>2. Recorded(work, target)
      BY <2>1, <3>1, CAAssumption
    <3>3. dbActive \subseteq {target}
      BY <2>1, <3>1, <3>2 DEF RowInv, CacheInv
    <3> QED
      BY <2>1, <3>1, <3>3
  <2> QED
    BY <2>2, <2>3
<1>5. CASE RestorePrivTorn \/ RestorePriv
  BY <1>0, <1>5 DEF RestorePrivTorn, RestorePriv, RowKey
<1>6. CASE RestorePubTorn \/ RestorePub
  BY <1>6 DEF RestorePubTorn, RestorePub
<1>7. CASE WipeKeyFiles
  BY <1>0, <1>7 DEF WipeKeyFiles
<1> QED
  BY <1>1, <1>2, <1>3, <1>4, <1>5, <1>6, <1>7 DEF StartStep

LEMMA AlwaysRestoreInv ==
  ASSUME Recording, "dbfail" \notin Env
  PROVE  Spec => [](TypeInv /\ Quiet /\ CacheInv /\ RowInv /\ ActiveFound /\ RestoreInv)
<1>1. Init => RestoreInv
  BY CAAssumption DEF Init, RestoreInv, KeyFileHoldsOwnKey
<1>2. TypeInv /\ Quiet /\ CacheInv /\ RowInv /\ ActiveFound /\ RestoreInv /\ [Next]_vars
        => RestoreInv'
  <2> SUFFICES ASSUME TypeInv, Quiet, CacheInv, RowInv, ActiveFound, RestoreInv, [Next]_vars
               PROVE  RestoreInv'
    OBVIOUS
  <2>1. CASE UNCHANGED vars
    BY <2>1 DEF vars, trees, files, server, RestoreInv, Recorded, KeyFileHoldsOwnKey
  <2> QED
    BY <2>1, CommandRestoreInv, ServerRestoreInv DEF Next, Recording
<1> QED
  BY <1>1, <1>2, AlwaysCacheInv, AlwaysActiveFound, PTL DEF Spec, Recording

(* Whatever rows earlier starts and commands left active in the database,  *)
(* a start never writes the key of one CA into the file of another.        *)
THEOREM KeyFileHoldsOwnKeyTheorem ==
  ASSUME Recording, "dbfail" \notin Env
  PROVE  Spec => []KeyFileHoldsOwnKey
<1>1. RestoreInv => KeyFileHoldsOwnKey
  BY DEF RestoreInv
<1> QED
  BY <1>1, AlwaysRestoreInv, PTL

(* A start that looks for a row to restore the key from finds one, and it  *)
(* is that of the CA it restores: what StartRestoresKey rests on.          *)
RestoresOwnRow == pc = "check" /\ target # NoCA => ActiveRows = {target}

THEOREM RestoresOwnRowTheorem ==
  ASSUME Recording, "dbfail" \notin Env
  PROVE  Spec => []RestoresOwnRow
<1>1. TypeInv /\ CacheInv /\ RowInv /\ RestoreInv => RestoresOwnRow
  BY DEF TypeInv, TypeOK, UUID, CacheInv, Cached, RowInv, RestoreInv, RestoresOwnRow,
     ActiveRows
<1> QED
  BY <1>1, AlwaysRestoreInv, PTL

----------------------------------------------------------------------------
(* The running server.                                                     *)

LEMMA CommandRunningInv ==
  ASSUME StartsAlone, TypeInv, Quiet, RunningInv, NEW p \in Cli, Command(p)
  PROVE  RunningInv'
<1>1. ~Starting /\ UNCHANGED server
  BY CommandsWait
<1>2. UNCHANGED priv \/ \E u \in CA : priv' = [priv EXCEPT ![u] = u]
  BY DEF Command, Create, Rotate, ForceCreateCA, WriteKeyFiles, FreshUUIDs, Revoke,
     ReadRecord, TruncateFile, FillFile, Add, Commit, Push, CacheNew, ClearOld, CacheFails,
     Verify, Abort, files
<1> QED
  BY <1>1, <1>2 DEF RunningInv, RunningHasKey, Starting, server, TypeInv, TypeOK, UUID

LEMMA ServerRunningInv ==
  ASSUME "torn" \notin Env, TypeInv, RestoreInv, RunningInv,
         StartServer \/ StartStep \/ ServerStops \/ WipeKeyFiles
  PROVE  RunningInv'
<1> USE DEF TypeInv, TypeOK, UUID, files, server, RunningInv, RunningHasKey
<1>0. Absent \notin CA /\ Blank \notin CA
  BY CAAssumption
<1>1. CASE StartServer \/ SyncWorktree \/ ReadActive \/ ServerStops
  BY <1>1 DEF StartServer, SyncWorktree, ReadActive, ServerStops
<1>2. CASE List
  <2>1. target # NoCA => Listing(work) # {}
    BY <1>2, ListingEntries DEF List, RestoreInv
  <2> QED
    BY <1>2, <2>1 DEF List
<1>3. CASE CacheListed \/ ClearInactive \/ CachingFails \/ AllCached
  BY <1>3 DEF CacheListed, ClearInactive, CachingFails, AllCached
<1>4. CASE CheckKeyFile
  BY <1>4 DEF CheckKeyFile, RestoreFromCache
<1>5. CASE RestorePrivTorn \/ RestorePubTorn
  BY <1>5 DEF RestorePrivTorn, RestorePubTorn
<1>6. CASE RestorePriv
  BY <1>6 DEF RestorePriv, RowKey, RestoreInv
<1>7. CASE RestorePub
  BY <1>7 DEF RestorePub
<1>8. CASE WipeKeyFiles
  BY <1>8 DEF WipeKeyFiles
<1> QED
  BY <1>1, <1>2, <1>3, <1>4, <1>5, <1>6, <1>7, <1>8 DEF StartStep

(* A running server has the private key of the CA it found active, though  *)
(* data/ca was lost and earlier starts were killed while restoring it.     *)
THEOREM RunningHasKeyTheorem ==
  ASSUME StartsAlone, "torn" \notin Env, "dbfail" \notin Env
  PROVE  Spec => []RunningHasKey
<1>1. Init => RunningInv
  BY DEF Init, RunningInv, RunningHasKey
<1>2. TypeInv /\ Quiet /\ RestoreInv /\ RunningInv /\ [Next]_vars => RunningInv'
  <2> SUFFICES ASSUME TypeInv, Quiet, RestoreInv, RunningInv, [Next]_vars
               PROVE  RunningInv'
    OBVIOUS
  <2>1. CASE UNCHANGED vars
    BY <2>1 DEF vars, files, server, RunningInv, RunningHasKey
  <2> QED
    BY <2>1, CommandRunningInv, ServerRunningInv DEF Next
<1>3. RunningInv => RunningHasKey
  BY DEF RunningInv
<1> QED
  BY <1>1, <1>2, <1>3, AlwaysRestoreInv, PTL DEF Spec, Recording
==============================================================================
