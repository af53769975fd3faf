------------------------- MODULE CALifecycleProofs -------------------------
(***************************************************************************)
(* Theorems about CALifecycle, for any set of UUIDs, any number of         *)
(* concurrent commands and any number of crashes and restarts.             *)
(***************************************************************************)
EXTENDS CALifecycle, TLAPS

(* What the local variables of a command hold while it runs: the CA it     *)
(* creates and the CA it revokes have been minted, and its steps follow    *)
(* the function it is in.                                                  *)
CmdOK ==
  \A p \in Cli :
    /\ new[p] \in minted \cup {NoCA}
    /\ old[p] \in minted \cup {NoCA}
    /\ phase[p] \in {"save", "activate", "cache", "verify"} => new[p] \in minted
    /\ phase[p] = "revoke" => old[p] \in minted

TypeInv == TypeOK /\ CmdOK

LEMMA InitTypeInv == Init => TypeInv
  BY CAAssumption DEF Init, GitInit, NoFiles, TypeInv, TypeOK, GitTypeOK, CmdOK,
     Content, Record, UUID, Keys, Phase, Step, Pc, Entry

(* Each step of a command keeps TypeInv.                                   *)
LEMMA CommandTypeInv ==
  ASSUME TypeInv, NEW p \in Cli, Command(p)
  PROVE  TypeInv'
<1> USE DEF TypeInv, TypeOK, GitTypeOK, CmdOK, UUID, Phase, Step,
            cmd, server, files, db, trees
<1>1. CASE Create(p)
  BY <1>1 DEF Create, FreshUUIDs, ForceCreateCA, WriteKeyFiles, Begin, Keys
<1>2. CASE Rotate(p)
  BY <1>2 DEF Rotate, FreshUUIDs, ForceCreateCA, WriteKeyFiles, Begin, Keys
<1>3. CASE Revoke(p)
  BY <1>3 DEF Revoke, Begin
<1>4. CASE ReadRecord(p)
  BY <1>4 DEF ReadRecord, RevokedForm, Record
<1>5. CASE TruncateFile(p)
  BY <1>5 DEF TruncateFile, Truncate, GoTo, Writing, Content
<1>6. CASE FillFile(p)
  <2>1. Payload(p) \in Content
    BY <1>6 DEF FillFile, Writing, Payload, Content, Record
  <2> QED
    BY <1>6, <2>1 DEF FillFile, WriteFile, GoTo, Writing
<1>7. CASE Add(p)
  BY <1>7 DEF Add, gitAdd, GoTo, Writing
<1>8. CASE Commit(p)
  BY <1>8 DEF Commit, gitCommit, GoTo, Writing
<1>9. CASE Push(p)
  BY <1>9 DEF Push, gitPush, AfterPush, GoTo, Exit, Writing, Record
<1>10. CASE CacheNew(p)
  BY <1>10 DEF CacheNew, UpsertRow, GoTo
<1>11. CASE ClearOld(p)
  BY <1>11 DEF ClearOld, ClearOthers, GoTo
<1>12. CASE CacheFails(p)
  BY <1>12 DEF CacheFails, GoTo
<1>13. CASE Verify(p)
  BY <1>13 DEF Verify, GoTo, Exit, Record
<1>14. CASE Abort(p)
  BY <1>14 DEF Abort, Exit, Record
<1> QED
  BY <1>1, <1>2, <1>3, <1>4, <1>5, <1>6, <1>7, <1>8, <1>9, <1>10, <1>11, <1>12,
     <1>13, <1>14 DEF Command

(* So does each step of the server, and the loss of the key files.         *)
LEMMA ServerTypeInv ==
  ASSUME TypeInv, StartServer \/ StartStep \/ ServerStops \/ WipeKeyFiles
  PROVE  TypeInv'
<1> USE DEF TypeInv, TypeOK, GitTypeOK, CmdOK, UUID, Pc,
            cmd, server, files, db, trees
<1>1. CASE StartServer
  BY <1>1 DEF StartServer
<1>2. CASE SyncWorktree
  BY <1>2 DEF SyncWorktree, gitResetHard
<1>3. CASE ReadActive
  BY <1>3 DEF ReadActive, ActiveOf
<1>4. CASE List
  <2>1. Listing(work) \subseteq Entry
    <3> SUFFICES ASSUME NEW u \in CA
                 PROVE  [uuid |-> UuidOf(work, u),
                         revoked |-> work[u] \in {Revoked, Husk}] \in Entry
      BY Zenon DEF Listing
    <3>1. UuidOf(work, u) \in UUID
      BY DEF UuidOf
    <3>2. (work[u] \in {Revoked, Husk}) \in BOOLEAN
      BY SMT
    <3> QED
      BY <3>1, <3>2 DEF Entry
  <2> QED
    BY <1>4, <2>1 DEF List
<1>5. CASE CacheListed
  <2>1. PICK m \in listed : /\ UpsertRow(m.uuid, m.uuid = target, m.revoked)
                            /\ listed' = listed \ {m}
                            /\ pc' = IF m.uuid = target THEN "clear" ELSE "cache"
    BY <1>5 DEF CacheListed
  <2>2. m.uuid \in UUID
    BY DEF Entry
  <2> QED
    BY <1>5, <2>1, <2>2 DEF CacheListed, UpsertRow
<1>6. CASE ClearInactive
  BY <1>6 DEF ClearInactive, ClearOthers
<1>7. CASE CachingFails
  BY <1>7 DEF CachingFails
<1>8. CASE AllCached
  BY <1>8 DEF AllCached
<1>9. CASE CheckKeyFile
  BY <1>9 DEF CheckKeyFile, RestoreFromCache, ActiveRows
<1>10. CASE RestorePrivTorn
  BY <1>10 DEF RestorePrivTorn, Keys
<1>11. CASE RestorePriv
  BY <1>11 DEF RestorePriv, RowKey, Keys
<1>12. CASE RestorePubTorn
  BY <1>12 DEF RestorePubTorn, Keys
<1>13. CASE RestorePub
  BY <1>13 DEF RestorePub, RowKey, Keys
<1>14. CASE ServerStops
  BY <1>14 DEF ServerStops
<1>15. CASE WipeKeyFiles
  BY <1>15 DEF WipeKeyFiles, Keys
<1> QED
  BY <1>1, <1>2, <1>3, <1>4, <1>5, <1>6, <1>7, <1>8, <1>9, <1>10, <1>11, <1>12,
     <1>13, <1>14, <1>15 DEF StartStep

LEMMA NextTypeInv == TypeInv /\ [Next]_vars => TypeInv'
<1> SUFFICES ASSUME TypeInv, [Next]_vars PROVE TypeInv'
  OBVIOUS
<1>1. CASE Next
  BY <1>1, CommandTypeInv, ServerTypeInv DEF Next
<1>2. CASE UNCHANGED vars
  BY <1>2 DEF vars, TypeInv, TypeOK, GitTypeOK, CmdOK, cmd, server, files, db, trees
<1> QED
  BY <1>1, <1>2

LEMMA AlwaysTypeInv == Spec => []TypeInv
  BY InitTypeInv, NextTypeInv, PTL DEF Spec

(* Every variable of the model always holds a value of its type.           *)
THEOREM TypeCorrect == Spec => []TypeOK
<1>1. TypeInv => TypeOK
  BY DEF TypeInv
<1> QED
  BY AlwaysTypeInv, <1>1, PTL

----------------------------------------------------------------------------
(* A published revocation is final, unless a file can be caught between    *)
(* its truncation and its write.  The reason is that the four trees of a   *)
(* record are ordered by how far it has come (absent, live, revoked): the  *)
(* bare branch is never ahead of HEAD, HEAD never of the index, the index  *)
(* never of the worktree.  Only the command that minted a UUID writes      *)
(* Live, once, before anyone can have read the record.                     *)

AtMost(c, d) == c = d \/ c = Absent \/ (c = Live /\ d = Revoked)

Ordered ==
  \A u \in CA : /\ work[u] \in {Absent, Live, Revoked}
                /\ AtMost(bare[u], head[u])
                /\ AtMost(head[u], index[u])
                /\ AtMost(index[u], work[u])

(* Nobody but its creator writes a record whose creator has not yet.       *)
Unwritten ==
  /\ \A u \in CA \ minted : work[u] = Absent
  /\ \A p \in Cli :
       /\ step[p] # "fill"
       /\ phase[p] = "save" /\ step[p] = "write" => work[new[p]] = Absent
       /\ phase[p] = "revoke" /\ step[p] # "read" => form[p] = Revoked
  /\ \A p, q \in Cli :
       /\ p # q /\ new[p] # NoCA => new[p] # new[q]
       /\ /\ phase[p] = "save" /\ step[p] = "write"
          /\ phase[q] = "revoke" /\ step[q] # "read"
          => old[q] # new[p]

HistoryInv == Ordered /\ Unwritten

LEMMA InitHistoryInv == Init => HistoryInv
  BY CAAssumption DEF Init, GitInit, NoFiles, File, HistoryInv, Ordered, Unwritten,
     AtMost

LEMMA CommandHistoryInv ==
  ASSUME "torn" \notin Env, TypeInv, HistoryInv, NEW p \in Cli, Command(p)
  PROVE  HistoryInv'
<1> USE DEF TypeInv, TypeOK, GitTypeOK, CmdOK, UUID, cmd, trees,
            HistoryInv, Ordered, Unwritten, AtMost,
            Absent, Live, Revoked, Husk
<1>0. NoCA \notin CA /\ ActiveCA \notin CA /\ CA \subseteq File
  BY CAAssumption DEF File
<1>1. ASSUME NEW o \in minted \cup {NoCA}, NEW u \in FreshUUIDs, ForceCreateCA(p, u, o)
      PROVE  HistoryInv'
  BY <1>0, <1>1 DEF ForceCreateCA, FreshUUIDs, Begin
<1>2. CASE Create(p) \/ Rotate(p)
  BY <1>1, <1>2 DEF Create, Rotate
<1>3. CASE Revoke(p)
  BY <1>0, <1>3 DEF Revoke, Begin
<1>4. CASE ReadRecord(p)
  BY <1>0, <1>4 DEF ReadRecord, RevokedForm
<1>5. CASE TruncateFile(p)
  BY <1>5 DEF TruncateFile
<1>6. CASE FillFile(p)
  BY <1>0, <1>6 DEF FillFile, WriteFile, GoTo, Writing, Subject, Payload
<1>7. CASE Add(p)
  BY <1>0, <1>7 DEF Add, gitAdd, GoTo, Writing, Subject
<1>8. CASE Commit(p)
  BY <1>0, <1>8 DEF Commit, gitCommit, GoTo, Writing
<1>9. CASE Push(p)
  BY <1>0, <1>9 DEF Push, gitPush, AfterPush, GoTo, Exit, Writing
<1>10. CASE CacheNew(p)
  BY <1>0, <1>10 DEF CacheNew, GoTo
<1>11. CASE ClearOld(p) \/ CacheFails(p)
  BY <1>0, <1>11 DEF ClearOld, CacheFails, GoTo
<1>12. CASE Verify(p)
  BY <1>0, <1>12 DEF Verify, GoTo, Exit
<1>13. CASE Abort(p)
  BY <1>0, <1>13 DEF Abort, Exit
<1> QED
  BY <1>2, <1>3, <1>4, <1>5, <1>6, <1>7, <1>8, <1>9, <1>10, <1>11, <1>12, <1>13
  DEF Command

(* Of the server's steps only the reset changes a tree.                    *)
LEMMA ServerKeepsTrees ==
  ASSUME StartServer \/ StartStep \/ ServerStops \/ WipeKeyFiles
  PROVE  SyncWorktree \/ UNCHANGED <<trees, minted, cmd>>
  BY DEF StartServer, StartStep, ServerStops, WipeKeyFiles, SyncWorktree, ReadActive,
     List, CacheListed, ClearInactive, CachingFails, AllCached, CheckKeyFile,
     RestorePrivTorn, RestorePriv, RestorePubTorn, RestorePub

LEMMA ServerHistoryInv ==
  ASSUME TypeInv, HistoryInv, StartServer \/ StartStep \/ ServerStops \/ WipeKeyFiles
  PROVE  HistoryInv'
<1> USE DEF TypeInv, TypeOK, GitTypeOK, CmdOK, UUID, cmd, trees,
            HistoryInv, Ordered, Unwritten, AtMost
<1>1. CASE SyncWorktree
  <2>1. \A u \in CA : /\ u \in File
                      /\ work'[u] = IF bare[u] = Absent /\ index[u] = Absent
                                    THEN work[u] ELSE bare[u]
                      /\ index'[u] = bare[u] /\ head'[u] = bare[u] /\ bare'[u] = bare[u]
    BY <1>1 DEF SyncWorktree, gitResetHard, File
  <2>2. UNCHANGED <<minted, cmd>>
    BY <1>1 DEF SyncWorktree
  <2>3. Ordered'
    BY <2>1 DEF Absent, Live, Revoked
  <2>4. \A u \in CA : work[u] = Absent => work'[u] = Absent
    BY <2>1 DEF Absent, Live, Revoked
  <2>5. Unwritten'
    BY <2>2, <2>4
  <2> QED
    BY <2>3, <2>5
<1>2. CASE UNCHANGED <<trees, minted, cmd>>
  BY <1>2
<1> QED
  BY <1>1, <1>2, ServerKeepsTrees

LEMMA NextHistoryInv ==
  ASSUME "torn" \notin Env
  PROVE  TypeInv /\ HistoryInv /\ [Next]_vars => HistoryInv'
<1> SUFFICES ASSUME TypeInv, HistoryInv, [Next]_vars PROVE HistoryInv'
  OBVIOUS
<1>1. CASE Next
  BY <1>1, CommandHistoryInv, ServerHistoryInv DEF Next
<1>2. CASE UNCHANGED vars
  BY <1>2 DEF vars, cmd, trees, HistoryInv, Ordered, Unwritten, AtMost
<1> QED
  BY <1>1, <1>2

(* bare only changes by a push, which publishes HEAD.                      *)
LEMMA PushOrUnchanged ==
  ASSUME [Next]_vars
  PROVE  bare' = bare \/ \E p \in Cli : Push(p) /\ bare' = head
<1>1. CASE \E p \in Cli : Command(p)
  BY <1>1 DEF Command, Create, Rotate, ForceCreateCA, Revoke, ReadRecord, TruncateFile,
     Truncate, FillFile, WriteFile, Add, gitAdd, Commit, gitCommit, Push, gitPush,
     CacheNew, ClearOld, CacheFails, Verify, Abort, trees
<1>2. CASE StartServer \/ StartStep \/ ServerStops \/ WipeKeyFiles
  BY <1>2, ServerKeepsTrees DEF SyncWorktree, gitResetHard, trees
<1>3. CASE UNCHANGED vars
  BY <1>3 DEF vars, trees
<1> QED
  BY <1>1, <1>2, <1>3 DEF Next

(* No command, crash, restart or interleaving of them undoes a revocation  *)
(* that was pushed, whatever else the environment does.                    *)
THEOREM RevocationIsFinalTheorem ==
  ASSUME "torn" \notin Env
  PROVE  Spec => RevocationIsFinal
<1>1. TypeInv /\ HistoryInv /\ [Next]_vars
        => [\A u \in CA : bare[u] = Revoked => bare'[u] = Revoked]_vars
  BY PushOrUnchanged DEF HistoryInv, Ordered, AtMost, Absent, Live, Revoked
<1> QED
  BY <1>1, AlwaysTypeInv, InitHistoryInv, NextHistoryInv, PTL DEF Spec, RevocationIsFinal

(* RevokeCAMetadata "marks a CA as revoked ... by updating its YAML file": *)
(* without truncated files the rest of a published record stays, whatever  *)
(* commands and starts run at the same time.                               *)
THEOREM RevokeKeepsRecordTheorem ==
  ASSUME "torn" \notin Env
  PROVE  Spec => RevokeKeepsRecord
<1>1. TypeInv /\ HistoryInv /\ [Next]_vars
        => [\A u \in CA : bare[u] = Live => bare'[u] \in {Live, Revoked}]_vars
  BY PushOrUnchanged DEF HistoryInv, Ordered, AtMost, Absent, Live, Revoked
<1> QED
  BY <1>1, AlwaysTypeInv, InitHistoryInv, NextHistoryInv, PTL DEF Spec, RevokeKeepsRecord

----------------------------------------------------------------------------
(* As long as data/ca is not cleared, whatever CA a tree names as active   *)
(* has its own key in its file: the files are written before the registry  *)
(* hears of the CA, and a start never finds one missing to restore.        *)

KeyInv ==
  /\ \A u \in minted : priv[u] = u
  /\ \A t \in {work, index, head, bare} : ActiveOf(t) \in minted \cup {NoCA}
  /\ target \in minted \cup {NoCA}
  /\ pc \notin {"priv", "privfill", "pub", "pubfill"}

LEMMA InitKeyInv == Init => KeyInv
  BY CAAssumption DEF Init, GitInit, NoFiles, File, KeyInv, ActiveOf

LEMMA CommandKeyInv ==
  ASSUME TypeInv, KeyInv, NEW p \in Cli, Command(p)
  PROVE  KeyInv'
<1> USE DEF TypeInv, TypeOK, GitTypeOK, CmdOK, UUID, trees, files, server, KeyInv, ActiveOf
<1>0. /\ NoCA \notin CA /\ ActiveCA \notin CA /\ CA \subseteq File /\ ActiveCA \in File
      /\ Absent \notin CA /\ Blank \notin CA
  BY CAAssumption DEF File
<1>1. ASSUME NEW o \in minted \cup {NoCA}, NEW u \in FreshUUIDs, ForceCreateCA(p, u, o)
      PROVE  KeyInv'
  BY <1>0, <1>1 DEF ForceCreateCA, WriteKeyFiles, FreshUUIDs, Keys
<1>2. CASE Create(p) \/ Rotate(p)
  BY <1>1, <1>2 DEF Create, Rotate
<1>3. CASE TruncateFile(p)
  BY <1>0, <1>3 DEF TruncateFile, Truncate, Writing, Subject
<1>4. CASE FillFile(p)
  <2>1. CASE phase[p] = "activate"
    BY <1>0, <1>4, <2>1 DEF FillFile, WriteFile, Writing, Subject, Payload
  <2>2. CASE phase[p] # "activate"
    <3>1. Subject(p) \in CA
      BY <1>4, <2>2 DEF FillFile, Writing, Subject
    <3>2. work'[ActiveCA] = work[ActiveCA]
      BY <1>0, <1>4, <3>1 DEF FillFile, WriteFile
    <3> QED
      BY <1>0, <1>4, <3>2 DEF FillFile, WriteFile
  <2> QED
    BY <2>1, <2>2
<1>5. CASE Add(p)
  BY <1>0, <1>5 DEF Add, gitAdd
<1>6. CASE Commit(p) \/ Push(p)
  BY <1>0, <1>6 DEF Commit, gitCommit, Push, gitPush
<1>7. CASE UNCHANGED <<trees, minted, files, server>>
  BY <1>7
<1> QED
  BY <1>2, <1>3, <1>4, <1>5, <1>6, <1>7 DEF Command, Revoke, ReadRecord, CacheNew,
     ClearOld, CacheFails, Verify, Abort

LEMMA ServerKeyInv ==
  ASSUME "wipe" \notin Env, TypeInv, KeyInv,
         StartServer \/ StartStep \/ ServerStops \/ WipeKeyFiles
  PROVE  KeyInv'
<1> USE DEF TypeInv, TypeOK, GitTypeOK, UUID, trees, files, cmd, KeyInv, ActiveOf
<1>0. Absent \notin CA /\ CA \subseteq File /\ ActiveCA \in File
  BY CAAssumption DEF File
<1>1. CASE StartServer \/ ServerStops
  BY <1>1 DEF StartServer, ServerStops
<1>2. CASE SyncWorktree
  BY <1>0, <1>2 DEF SyncWorktree, gitResetHard
<1>3. CASE ReadActive \/ List
  BY <1>3 DEF ReadActive, List
<1>4. CASE CacheListed \/ ClearInactive \/ CachingFails \/ AllCached
  BY <1>4 DEF CacheListed, ClearInactive, CachingFails, AllCached
<1>5. CASE CheckKeyFile
  <2>1. target = NoCA \/ priv[target] # Absent
    BY <1>0
  <2> QED
    BY <1>5, <2>1 DEF CheckKeyFile
<1>6. CASE RestorePrivTorn \/ RestorePriv \/ RestorePubTorn \/ RestorePub
  BY <1>6 DEF RestorePrivTorn, RestorePriv, RestorePubTorn, RestorePub
<1>7. CASE WipeKeyFiles
  BY <1>7 DEF WipeKeyFiles
<1> QED
  BY <1>1, <1>2, <1>3, <1>4, <1>5, <1>6, <1>7 DEF StartStep

(* The active CA of every tree can be unsealed on this node.               *)
THEOREM ActiveHasKeyTheorem ==
  ASSUME "wipe" \notin Env
  PROVE  Spec => []ActiveHasKey
<1>1. TypeInv /\ KeyInv /\ [Next]_vars => KeyInv'
  <2> SUFFICES ASSUME TypeInv, KeyInv, [Next]_vars PROVE KeyInv'
    OBVIOUS
  <2>1. CASE UNCHANGED vars
    BY <2>1 DEF vars, trees, files, server, KeyInv, ActiveOf
  <2> QED
    BY <2>1, CommandKeyInv, ServerKeyInv DEF Next
<1>2. KeyInv => ActiveHasKey
  BY DEF KeyInv, ActiveHasKey
<1> QED
  BY <1>1, <1>2, InitKeyInv, AlwaysTypeInv, PTL DEF Spec

----------------------------------------------------------------------------
(* What a command has pushed is there to stay, provided no start of the    *)
(* server resets the worktree under a running command.  Files caught       *)
(* truncated, commands that run at the same time and revocations make no   *)
(* difference: no step but the reset takes a file out of a tree, and the   *)
(* reset makes the other trees those of the bare branch.                   *)

(* A start that has begun runs alone.                                      *)
Quiet ==
  /\ Starting => AllIdle
  /\ "start" \notin Commands => pc = "down"

(* A record that has come to one tree is in the trees before it.           *)
Grown ==
  \A u \in CA : /\ bare[u] # Absent => head[u] # Absent
                /\ head[u] # Absent => index[u] # Absent
                /\ index[u] # Absent => work[u] # Absent

(* How far the record being saved has come, by the step of its command.    *)
Saved ==
  \A p \in Cli :
    /\ phase[p] = "save" =>
         /\ step[p] \in {"write", "fill", "add", "commit", "push"}
         /\ step[p] \in {"add", "commit", "push"} => work[new[p]] # Absent
         /\ step[p] \in {"commit", "push"} => index[new[p]] # Absent
         /\ step[p] = "push" => head[new[p]] # Absent
    /\ phase[p] \in {"activate", "cache", "verify"} => bare[new[p]] # Absent

(* Only a published CA is named active, in any tree.                       *)
NamesPublished ==
  \A t \in {work, index, head, bare} :
    t[ActiveCA] \in CA => bare[t[ActiveCA]] # Absent

PublishInv == Quiet /\ Grown /\ Saved /\ NamesPublished

LEMMA InitPublishInv == Init => PublishInv
  BY CAAssumption DEF Init, GitInit, NoFiles, File, PublishInv, Quiet, Grown, Saved,
     NamesPublished, Starting, AllIdle

LEMMA CommandQuiet ==
  ASSUME "overlap" \notin Env \/ "start" \notin Commands,
         TypeInv, Quiet, NEW p \in Cli, Command(p)
  PROVE  Quiet'
<1>1. UNCHANGED pc
  BY DEF Command, Create, Rotate, ForceCreateCA, Revoke, ReadRecord, TruncateFile, FillFile,
     Add, Commit, Push, CacheNew, ClearOld, CacheFails, Verify, Abort, server
<1>2. CASE phase[p] = "idle"
  <2>1. MayRun(p)
    BY <1>2 DEF Command, Create, Rotate, Revoke, ReadRecord, TruncateFile, FillFile, Add,
       Commit, Push, CacheNew, ClearOld, CacheFails, Verify, Abort, Writing
  <2> QED
    BY <1>1, <2>1 DEF Quiet, MayRun, Starting
<1>3. CASE phase[p] # "idle"
  BY <1>1, <1>3 DEF Quiet, Starting, AllIdle
<1> QED
  BY <1>2, <1>3

LEMMA ServerQuiet ==
  ASSUME "overlap" \notin Env \/ "start" \notin Commands, Quiet,
         StartServer \/ StartStep \/ ServerStops \/ WipeKeyFiles
  PROVE  Quiet'
<1>1. UNCHANGED phase /\ (pc = "down" => pc' = "down" \/ StartServer)
  BY DEF StartServer, StartStep, ServerStops, WipeKeyFiles, SyncWorktree, ReadActive, List,
     CacheListed, ClearInactive, CachingFails, AllCached, CheckKeyFile, RestorePrivTorn,
     RestorePriv, RestorePubTorn, RestorePub, server, cmd
<1>2. CASE StartServer
  BY <1>2 DEF StartServer, Quiet, Starting, AllIdle, cmd
<1>3. CASE WipeKeyFiles
  BY <1>3 DEF WipeKeyFiles, Quiet, Starting, AllIdle, server, cmd
<1>4. CASE ServerStops
  BY <1>4 DEF ServerStops, Quiet, Starting
<1>5. CASE StartStep
  <2>1. Starting
    BY <1>5 DEF StartStep, SyncWorktree, ReadActive, List, CacheListed, ClearInactive,
       CachingFails, AllCached, CheckKeyFile, RestorePrivTorn, RestorePriv,
       RestorePubTorn, RestorePub, Starting
  <2> QED
    BY <1>1, <1>5, <2>1 DEF Quiet, Starting, AllIdle
<1> QED
  BY <1>2, <1>3, <1>4, <1>5

(* The steps that change no tree are between saving and publishing.        *)
LEMMA CommandPublishInv ==
  ASSUME TypeInv, PublishInv, NEW p \in Cli, Command(p)
  PROVE  Grown' /\ Saved' /\ NamesPublished'
<1> USE DEF TypeInv, TypeOK, GitTypeOK, CmdOK, UUID, cmd, trees,
            PublishInv, Grown, Saved, NamesPublished
<1>0. /\ NoCA \notin CA /\ ActiveCA \notin CA /\ Absent \notin CA /\ Blank \notin CA
      /\ Absent # Blank /\ Absent \notin Record /\ CA \subseteq File /\ ActiveCA \in File
  BY CAAssumption DEF File, Record, Absent, Blank, Live, Revoked, Husk
<1>1. ASSUME NEW o \in minted \cup {NoCA}, NEW u \in FreshUUIDs, ForceCreateCA(p, u, o)
      PROVE  Grown' /\ Saved' /\ NamesPublished'
  BY <1>0, <1>1 DEF ForceCreateCA, FreshUUIDs, Begin
<1>2. CASE Create(p) \/ Rotate(p)
  BY <1>1, <1>2 DEF Create, Rotate
<1>3. CASE Revoke(p)
  BY <1>0, <1>3 DEF Revoke, Begin
<1>4. CASE ReadRecord(p)
  BY <1>0, <1>4 DEF ReadRecord
<1>5. CASE TruncateFile(p)
  BY <1>0, <1>5 DEF TruncateFile, Truncate, GoTo, Writing, Subject
<1>6. CASE FillFile(p)
  BY <1>0, <1>6 DEF FillFile, WriteFile, GoTo, Writing, Subject, Payload, Record
<1>7. CASE Add(p)
  BY <1>0, <1>7 DEF Add, gitAdd, GoTo, Writing, Subject
<1>8. CASE Commit(p)
  BY <1>0, <1>8 DEF Commit, gitCommit, GoTo, Writing
<1>9. CASE Push(p)
  BY <1>0, <1>9 DEF Push, gitPush, AfterPush, GoTo, Exit, Writing
<1>10. CASE CacheNew(p)
  BY <1>0, <1>10 DEF CacheNew, GoTo
<1>11. CASE ClearOld(p) \/ CacheFails(p)
  BY <1>0, <1>11 DEF ClearOld, CacheFails, GoTo
<1>12. CASE Verify(p)
  BY <1>0, <1>12 DEF Verify, GoTo, Exit
<1>13. CASE Abort(p)
  BY <1>0, <1>13 DEF Abort, Exit
<1> QED
  BY <1>2, <1>3, <1>4, <1>5, <1>6, <1>7, <1>8, <1>9, <1>10, <1>11, <1>12, <1>13
  DEF Command

(* The reset of a start finds no command at work.                          *)
LEMMA ServerPublishInv ==
  ASSUME "overlap" \notin Env \/ "start" \notin Commands, TypeInv, PublishInv,
         StartServer \/ StartStep \/ ServerStops \/ WipeKeyFiles
  PROVE  PublishInv'
<1> USE DEF TypeInv, TypeOK, GitTypeOK, CmdOK, cmd, trees, PublishInv
<1>1. Quiet'
  BY ServerQuiet
<1>2. CASE SyncWorktree
  <2>1. AllIdle /\ UNCHANGED <<cmd, bare>>
    BY <1>2 DEF SyncWorktree, gitResetHard, Quiet, Starting
  <2>2. Saved'
    BY <2>1 DEF Saved, AllIdle
  <2>3. Grown' /\ NamesPublished'
    BY <1>2, CAAssumption DEF SyncWorktree, gitResetHard, Grown, NamesPublished, File
  <2> QED
    BY <1>1, <2>2, <2>3
<1>3. CASE UNCHANGED <<trees, minted, cmd>>
  BY <1>1, <1>3 DEF Grown, Saved, NamesPublished
<1> QED
  BY <1>2, <1>3, ServerKeepsTrees

LEMMA AlwaysPublishInv ==
  ASSUME "overlap" \notin Env \/ "start" \notin Commands
  PROVE  Spec => [](TypeInv /\ PublishInv)
<1>1. TypeInv /\ PublishInv /\ [Next]_vars => PublishInv'
  <2> SUFFICES ASSUME TypeInv, PublishInv, [Next]_vars PROVE PublishInv'
    OBVIOUS
  <2>1. CASE UNCHANGED vars
    BY <2>1 DEF vars, trees, cmd, server, PublishInv, Quiet, Grown, Saved, NamesPublished,
       Starting, AllIdle
  <2>2. ASSUME NEW p \in Cli, Command(p) PROVE PublishInv'
    BY <2>2, CommandQuiet, CommandPublishInv DEF PublishInv
  <2> QED
    BY <2>1, <2>2, ServerPublishInv DEF Next
<1> QED
  BY <1>1, InitPublishInv, AlwaysTypeInv, PTL DEF Spec

(* A command that has gone past SaveCAMetadata has its record, with the    *)
(* only backup of the private key, in the bare repository.                 *)
THEOREM SavedIsPublishedTheorem ==
  ASSUME "overlap" \notin Env \/ "start" \notin Commands
  PROVE  Spec => []SavedIsPublished
<1>1. PublishInv => SavedIsPublished
  BY DEF PublishInv, Saved, SavedIsPublished
<1> QED
  BY <1>1, AlwaysPublishInv, PTL

(* And GetActiveCA finds a record of the active CA in every commit.        *)
THEOREM ActiveIsRecordedTheorem ==
  ASSUME "overlap" \notin Env \/ "start" \notin Commands
  PROVE  Spec => []ActiveIsRecorded
<1>1. TypeInv /\ PublishInv => ActiveIsRecorded
  BY CAAssumption DEF PublishInv, Grown, NamesPublished, ActiveIsRecorded, ActiveOf, TypeInv
<1> QED
  BY <1>1, AlwaysPublishInv, PTL

(* "Writes CA metadata to the registry worktree ... and commits the        *)
(* change": the overlap of a command and the reset of a start is the only  *)
(* thing that makes SaveCAMetadata return without its commit.              *)
THEOREM SaveIsCommittedTheorem ==
  ASSUME "overlap" \notin Env \/ "start" \notin Commands
  PROVE  Spec => []SaveIsCommitted
<1>1. TypeInv /\ PublishInv => SaveIsCommitted
  BY DEF TypeInv, TypeOK, CmdOK, PublishInv, Grown, Saved, SaveIsCommitted
<1> QED
  BY <1>1, AlwaysPublishInv, PTL

----------------------------------------------------------------------------
(* The bare repository implements the ledger, if in addition no file can   *)
(* be caught between its truncation and its write.                         *)

(* ActiveCA.yaml names a CA or is absent, and a later tree does not lose   *)
(* what an earlier one names.                                              *)
ActiveInv ==
  /\ \A t \in {work, index, head, bare} : t[ActiveCA] \in CA \cup {Absent}
  /\ bare[ActiveCA] \in CA => head[ActiveCA] \in CA
  /\ head[ActiveCA] \in CA => index[ActiveCA] \in CA
  /\ index[ActiveCA] \in CA => work[ActiveCA] \in CA

LedgerInv == PublishInv /\ ActiveInv

LEMMA InitLedgerInv == Init => LedgerInv
  BY CAAssumption, InitPublishInv DEF Init, GitInit, NoFiles, File, LedgerInv, ActiveInv

LEMMA CommandActiveInv ==
  ASSUME "torn" \notin Env, TypeInv, ActiveInv, NEW p \in Cli, Command(p)
  PROVE  ActiveInv'
<1> USE DEF TypeInv, TypeOK, GitTypeOK, CmdOK, UUID, trees, ActiveInv
<1>0. ActiveCA \notin CA /\ Absent \notin CA /\ CA \subseteq File /\ ActiveCA \in File
  BY CAAssumption DEF File
<1>1. CASE TruncateFile(p)
  BY <1>1 DEF TruncateFile
<1>2. CASE FillFile(p)
  <2>1. CASE phase[p] = "activate"
    BY <1>0, <1>2, <2>1 DEF FillFile, WriteFile, Writing, Subject, Payload
  <2>2. CASE phase[p] # "activate"
    <3>1. Subject(p) \in CA
      BY <1>2, <2>2 DEF FillFile, Writing, Subject
    <3>2. work'[ActiveCA] = work[ActiveCA] /\ UNCHANGED <<index, head, bare>>
      BY <1>0, <1>2, <3>1 DEF FillFile, WriteFile
    <3> QED
      BY <3>2
  <2> QED
    BY <2>1, <2>2
<1>3. CASE Add(p)
  BY <1>0, <1>3 DEF Add, gitAdd
<1>4. CASE Commit(p) \/ Push(p)
  BY <1>0, <1>4 DEF Commit, gitCommit, Push, gitPush
<1>5. CASE UNCHANGED trees
  BY <1>5
<1> QED
  BY <1>1, <1>2, <1>3, <1>4, <1>5 DEF Command, Create, Rotate, ForceCreateCA, Revoke,
     ReadRecord, CacheNew, ClearOld, CacheFails, Verify, Abort

LEMMA ServerActiveInv ==
  ASSUME TypeInv, ActiveInv, StartServer \/ StartStep \/ ServerStops \/ WipeKeyFiles
  PROVE  ActiveInv'
<1>1. CASE SyncWorktree
  BY <1>1, CAAssumption DEF SyncWorktree, gitResetHard, ActiveInv, File
<1>2. CASE UNCHANGED <<trees, minted, cmd>>
  BY <1>2 DEF ActiveInv, trees
<1> QED
  BY <1>1, <1>2, ServerKeepsTrees

(* The step of an implementation is a Publish or nothing to the ledger.    *)
LEMMA LedgerStep ==
  ASSUME TypeInv, HistoryInv, LedgerInv, [Next]_vars
  PROVE  [Ledger!Publish]_<<[u \in CA |-> bare[u]], ActiveOf(bare)>>
<1>1. CASE bare' = bare
  BY <1>1 DEF ActiveOf
<1>2. CASE bare' = head
  <2>1. [u \in CA |-> bare'[u]] \in [CA -> {Absent, Live, Revoked}]
    BY <1>2 DEF HistoryInv, Ordered, AtMost, Absent, Live, Revoked
  <2>2. \A u \in CA : Ledger!AtMost([v \in CA |-> bare[v]][u], [v \in CA |-> bare'[v]][u])
    BY <1>2 DEF HistoryInv, Ordered, AtMost, Ledger!AtMost
  <2>3. \/ ActiveOf(bare') = ActiveOf(bare)
        \/ ActiveOf(bare') \in CA /\ [u \in CA |-> bare[u]][ActiveOf(bare')] # Absent
    BY <1>2 DEF LedgerInv, PublishInv, NamesPublished, ActiveInv, ActiveOf
  <2> QED
    BY <2>1, <2>2, <2>3 DEF Ledger!Publish, ActiveOf
<1> QED
  BY <1>1, <1>2, PushOrUnchanged

LEMMA AlwaysLedgerInv ==
  ASSUME "torn" \notin Env, "overlap" \notin Env \/ "start" \notin Commands
  PROVE  Spec => [](TypeInv /\ HistoryInv /\ LedgerInv)
<1>1. TypeInv /\ ActiveInv /\ [Next]_vars => ActiveInv'
  <2> SUFFICES ASSUME TypeInv, ActiveInv, [Next]_vars PROVE ActiveInv'
    OBVIOUS
  <2>1. CASE UNCHANGED vars
    BY <2>1 DEF vars, trees, ActiveInv
  <2> QED
    BY <2>1, CommandActiveInv, ServerActiveInv DEF Next
<1>2. Init => ActiveInv
  BY InitLedgerInv DEF LedgerInv
<1>3. PublishInv /\ ActiveInv => LedgerInv
  BY DEF LedgerInv
<1> QED
  BY <1>1, <1>2, <1>3, InitHistoryInv, NextHistoryInv, AlwaysPublishInv, PTL DEF Spec

(* Wherever commands and starts crash, and however commands interleave:    *)
(* what is published is a ledger.                                          *)
THEOREM ImplementsLedgerTheorem ==
  ASSUME "torn" \notin Env, "overlap" \notin Env \/ "start" \notin Commands
  PROVE  Spec => ImplementsLedger
<1>1. Init => Ledger!LedgerInit
  BY CAAssumption DEF Init, GitInit, NoFiles, File, ActiveOf, Ledger!LedgerInit
<1> QED
  BY <1>1, LedgerStep, AlwaysLedgerInv, PTL DEF Spec, ImplementsLedger, Ledger!LedgerSpec
=============================================================================
