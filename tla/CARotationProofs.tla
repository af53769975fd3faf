--------------------------- MODULE CARotationProofs ---------------------------
(***************************************************************************)
(* What the order of ca rotate is for: the new CA is saved, then made the  *)
(* active one, and only then is the old CA revoked.  Of a node whose       *)
(* operator creates and rotates CAs, one command at a time, this module    *)
(* proves that the active CA of every tree is a valid one, although any    *)
(* command may be killed at any step, a file may be left truncated, SQL    *)
(* statements may fail, the key files may be lost and the server may       *)
(* restart between two commands.  The second part adds revocations: what   *)
(* such a node publishes is a ledger of the status of its CAs.             *)
(***************************************************************************)
EXTENDS CALifecycleProofs

(* The operator of this module.                                            *)
OneAtATime == Env \cap {"concurrent", "overlap"} = {} /\ "revoke" \notin Commands

Trees == {work, index, head, bare}

(* Only one command runs at a time.                                        *)
Solo == \A p, q \in Cli : phase[p] # "idle" /\ phase[q] # "idle" => p = q

(* Whatever CA one tree names as active, every tree holds its full record. *)
ActiveLive == \A t, s \in Trees : t[ActiveCA] \in CA => s[t[ActiveCA]] = Live

(* Only the worktree can hold a truncated ActiveCA.yaml, and a later tree  *)
(* does not lose the active CA.                                            *)
ActiveKept ==
  /\ \A t \in {index, head, bare} : t[ActiveCA] \in CA \cup {Absent}
  /\ bare[ActiveCA] \in CA => head[ActiveCA] \in CA
  /\ head[ActiveCA] \in CA => index[ActiveCA] \in CA

(* A tree names minted CAs only.                                           *)
Named ==
  /\ ActiveKept
  /\ \A t \in Trees : t[ActiveCA] \in CA => t[ActiveCA] \in minted

WriteSteps == {"write", "fill", "add", "commit", "push"}

(* How far value c of file f has come when a command that writes it there  *)
(* has reached step s.                                                     *)
Reached(s, f, c) ==
  /\ s \in WriteSteps
  /\ s \in {"add", "commit", "push"} => work[f] = c
  /\ s \in {"commit", "push"} => index[f] = c
  /\ s = "push" => head[f] = c

(* What a command knows of the CA it creates, by the function it is in: no *)
(* tree names the CA before it is saved, every tree holds its record while *)
(* it is being activated, and every tree names it from then on.  The CA to *)
(* be revoked is another one throughout.                                   *)
Progress ==
  \A p \in Cli :
    /\ new[p] \in CA => old[p] # new[p]
    /\ phase[p] = "save" =>
         /\ \A t \in Trees : t[ActiveCA] # new[p]
         /\ Reached(step[p], new[p], Live)
    /\ phase[p] = "activate" =>
         /\ \A t \in Trees : t[new[p]] = Live
         /\ Reached(step[p], ActiveCA, new[p])
    /\ phase[p] \in {"cache", "verify", "revoke"} =>
         new[p] \in CA /\ \A t \in Trees : t[ActiveCA] = new[p]

RotationInv == Quiet /\ Solo /\ ActiveLive /\ Named /\ Progress

LEMMA InitRotationInv == Init => RotationInv
  BY CAAssumption, InitPublishInv DEF Init, GitInit, NoFiles, File, PublishInv, RotationInv,
     Solo, ActiveLive, Trees, ActiveKept, Named, Progress

LEMMA CommandSolo ==
  ASSUME Env \cap {"concurrent", "overlap"} = {}, TypeInv, Solo, NEW p \in Cli, Command(p)
  PROVE  Solo'
<1> USE DEF TypeInv, TypeOK
<1>1. \A q \in Cli : phase'[q] # "idle" => q = p \/ phase[q] # "idle"
  BY DEF Command, Create, Rotate, ForceCreateCA, Revoke, Begin, ReadRecord, TruncateFile,
     FillFile, Add, Commit, Push, AfterPush, GoTo, Exit, CacheNew, ClearOld, CacheFails,
     Verify, Abort
<1>2. CASE phase[p] = "idle"
  <2>1. MayRun(p)
    BY <1>2 DEF Command, Create, Rotate, Revoke, ReadRecord, TruncateFile, FillFile, Add,
       Commit, Push, CacheNew, ClearOld, CacheFails, Verify, Abort, Writing
  <2> QED
    BY <1>1, <2>1 DEF MayRun, AllIdle, Solo
<1>3. CASE phase[p] # "idle"
  BY <1>1, <1>3 DEF Solo
<1> QED
  BY <1>2, <1>3

(* Each step of the one command that runs keeps the rest of the invariant. *)
LEMMA CommandRotationInv ==
  ASSUME OneAtATime, TypeInv, RotationInv, NEW p \in Cli, Command(p)
  PROVE  ActiveLive' /\ Named' /\ Progress'
<1> USE DEF TypeInv, TypeOK, GitTypeOK, CmdOK, UUID, cmd, trees,
            RotationInv, ActiveLive, ActiveKept, Named, Progress, Trees, WriteSteps, Reached
<1>0. /\ NoCA \notin CA /\ ActiveCA \notin CA /\ Absent \notin CA /\ Blank \notin CA
      /\ Live \notin CA /\ CA \subseteq File /\ ActiveCA \in File
  BY CAAssumption DEF File
<1>1. \A q \in Cli \ {p} : phase[p] # "idle" => phase[q] = "idle"
  BY DEF Solo
<1>2. ASSUME NEW o \in minted \cup {NoCA}, NEW u \in FreshUUIDs, ForceCreateCA(p, u, o),
             MayRun(p)
      PROVE  ActiveLive' /\ Named' /\ Progress'
  BY <1>0, <1>2 DEF ForceCreateCA, FreshUUIDs, Begin, MayRun, AllIdle, OneAtATime
<1>3. CASE Create(p) \/ Rotate(p)
  BY <1>2, <1>3 DEF Create, Rotate
<1>4. CASE Revoke(p)
  BY <1>4 DEF Revoke, OneAtATime
<1>5. CASE ReadRecord(p)
  BY <1>0, <1>1, <1>5 DEF ReadRecord
<1>6. CASE TruncateFile(p)
  BY <1>0, <1>1, <1>6 DEF TruncateFile, Truncate, GoTo, Writing, Subject
<1>7. CASE FillFile(p)
  BY <1>0, <1>1, <1>7 DEF FillFile, WriteFile, GoTo, Writing, Subject, Payload
<1>8. CASE Add(p)
  BY <1>0, <1>1, <1>8 DEF Add, gitAdd, GoTo, Writing, Subject
<1>9. CASE Commit(p)
  BY <1>0, <1>1, <1>9 DEF Commit, gitCommit, GoTo, Writing
<1>10. CASE Push(p)
  BY <1>0, <1>1, <1>10 DEF Push, gitPush, AfterPush, GoTo, Exit, Writing
<1>11. CASE CacheNew(p)
  BY <1>0, <1>1, <1>11 DEF CacheNew, GoTo
<1>12. CASE ClearOld(p) \/ CacheFails(p)
  BY <1>0, <1>1, <1>12 DEF ClearOld, CacheFails, GoTo
<1>13. CASE Verify(p)
  BY <1>0, <1>1, <1>13 DEF Verify, GoTo, Exit
<1>14. CASE Abort(p)
  BY <1>0, <1>1, <1>14 DEF Abort, Exit
<1> QED
  BY <1>3, <1>4, <1>5, <1>6, <1>7, <1>8, <1>9, <1>10, <1>11, <1>12, <1>13, <1>14
  DEF Command

(* A start runs while no command does, and its reset copies the bare tree. *)
LEMMA ServerRotationInv ==
  ASSUME OneAtATime, TypeInv, RotationInv,
         StartServer \/ StartStep \/ ServerStops \/ WipeKeyFiles
  PROVE  RotationInv'
<1> USE DEF TypeInv, TypeOK, GitTypeOK, CmdOK, cmd, trees, RotationInv
<1>1. Quiet'
  BY ServerQuiet DEF OneAtATime
<1>2. CASE SyncWorktree
  <2>1. AllIdle /\ UNCHANGED <<minted, cmd, bare>>
    BY <1>2 DEF SyncWorktree, gitResetHard, Quiet, Starting
  <2>2. Solo' /\ Progress'
    BY <2>1 DEF Solo, Progress, AllIdle
  <2>3. /\ \A f \in File : \/ work'[f] = bare[f]
                           \/ /\ bare[f] = Absent /\ index[f] = Absent
                              /\ work'[f] = work[f]
        /\ index' = bare /\ head' = bare /\ bare' = bare
    BY <1>2 DEF SyncWorktree, gitResetHard
  <2>4. CA \subseteq File /\ ActiveCA \in File /\ Absent \notin CA
    BY CAAssumption DEF File
  <2>5. ActiveLive'
    BY <2>3, <2>4 DEF ActiveLive, Trees, Live, Absent
  <2>6. Named'
    BY <2>1, <2>3, <2>4 DEF ActiveKept, Named, Trees
  <2> QED
    BY <1>1, <2>2, <2>5, <2>6
<1>3. CASE UNCHANGED <<trees, minted, cmd>>
  BY <1>1, <1>3 DEF Solo, ActiveLive, ActiveKept, Named, Progress, Reached, Trees
<1> QED
  BY <1>2, <1>3, ServerKeepsTrees

LEMMA AlwaysRotationInv ==
  ASSUME OneAtATime
  PROVE  Spec => [](TypeInv /\ RotationInv)
<1>1. TypeInv /\ RotationInv /\ [Next]_vars => RotationInv'
  <2> SUFFICES ASSUME TypeInv, RotationInv, [Next]_vars PROVE RotationInv'
    OBVIOUS
  <2>1. CASE UNCHANGED vars
    BY <2>1 DEF vars, trees, cmd, server, RotationInv, Quiet, Starting, AllIdle, Solo,
       ActiveLive, ActiveKept, Named, Progress, Reached, Trees
  <2>2. ASSUME NEW p \in Cli, Command(p) PROVE RotationInv'
    BY <2>2, CommandQuiet, CommandSolo, CommandRotationInv DEF OneAtATime, RotationInv
  <2> QED
    BY <2>1, <2>2, ServerRotationInv DEF Next
<1> QED
  BY <1>1, InitRotationInv, AlwaysTypeInv, PTL DEF Spec

(* "so the node is never left without a valid CA": no step of a creation,  *)
(* of a rotation, of a start, of a crash or of a failure unpublishes the   *)
(* valid active CA without publishing another one.                         *)
THEOREM ValidCAStaysTheorem ==
  ASSUME OneAtATime
  PROVE  Spec => ValidCAStays
<1>1. TypeInv /\ RotationInv /\ [Next]_vars => [HasValidCA(bare) => HasValidCA(bare')]_vars
  <2> SUFFICES ASSUME TypeInv, RotationInv, [Next]_vars, HasValidCA(bare)
               PROVE  HasValidCA(bare')
    OBVIOUS
  <2>1. NoCA \notin CA
    BY CAAssumption
  <2>2. CASE bare' = head
    BY <2>1, <2>2 DEF RotationInv, ActiveLive, ActiveKept, Named, Trees, HasValidCA,
       ActiveOf
  <2>3. CASE bare' = bare
    BY <2>3 DEF HasValidCA, ActiveOf
  <2> QED
    BY <2>2, <2>3, PushOrUnchanged
<1> QED
  BY <1>1, AlwaysRotationInv, PTL DEF Spec, ValidCAStays

----------------------------------------------------------------------------
(* One command at a time, with revocations among them: a file that was     *)
(* left truncated is never staged, so that the published branch holds      *)
(* whole records and husks only, and a husk counts as a revoked CA.        *)

Dead == {Revoked, Husk}

(* What is staged is whole, and a tree is not behind the one after it.     *)
Forward ==
  \A u \in CA : /\ index[u] \in {Absent, Live} \cup Dead
                /\ head[u] \in {Absent, Live} \cup Dead
                /\ bare[u] \in {Absent, Live} \cup Dead
                /\ bare[u] \in Dead => head[u] \in Dead
                /\ head[u] \in Dead => index[u] \in Dead

(* A command stages what it has written, and nobody has revoked the CA     *)
(* that it is about to save.                                               *)
Written ==
  /\ \A u \in CA \ minted : index[u] = Absent
  /\ \A p \in Cli :
       /\ phase[p] \in Writing /\ step[p] = "add" => work[Subject(p)] = Payload(p)
       /\ phase[p] = "revoke" /\ step[p] # "read" => form[p] \in Dead
       /\ phase[p] = "save" => index[new[p]] \in {Absent, Live}

StatusInv == Solo /\ ActiveKept /\ Forward /\ Written

LEMMA InitStatusInv == Init => StatusInv
  BY CAAssumption DEF Init, GitInit, NoFiles, File, StatusInv, Solo, ActiveKept, Forward,
     Written, Writing, Dead

LEMMA CommandStatusInv ==
  ASSUME Env \cap {"concurrent", "overlap"} = {}, TypeInv, StatusInv,
         NEW p \in Cli, Command(p)
  PROVE  ActiveKept' /\ Forward' /\ Written'
<1> USE DEF TypeInv, TypeOK, GitTypeOK, CmdOK, UUID, cmd, trees,
            StatusInv, ActiveKept, Forward, Written, Dead, Writing, Subject, Payload
<1>0. /\ NoCA \notin CA /\ ActiveCA \notin CA /\ CA \subseteq File /\ ActiveCA \in File
      /\ {Absent, Live, Revoked, Husk} \cap CA = {}
      /\ Absent # Live /\ Absent \notin Dead /\ Live \notin Dead
  BY CAAssumption DEF File, Absent, Live, Revoked, Husk
<1>1. \A q \in Cli \ {p} : phase[p] # "idle" => phase[q] = "idle"
  BY DEF Solo
<1>2. ASSUME NEW o \in minted \cup {NoCA}, NEW u \in FreshUUIDs, ForceCreateCA(p, u, o),
             MayRun(p)
      PROVE  ActiveKept' /\ Forward' /\ Written'
  BY <1>0, <1>2 DEF ForceCreateCA, FreshUUIDs, Begin, MayRun, AllIdle
<1>3. CASE Create(p) \/ Rotate(p)
  BY <1>2, <1>3 DEF Create, Rotate
<1>4. CASE Revoke(p)
  BY <1>0, <1>4 DEF Revoke, Begin, MayRun, AllIdle
<1>5. CASE ReadRecord(p)
  BY <1>0, <1>1, <1>5 DEF ReadRecord, RevokedForm
<1>6. CASE TruncateFile(p)
  BY <1>0, <1>1, <1>6 DEF TruncateFile, Truncate, GoTo
<1>7. CASE FillFile(p)
  BY <1>0, <1>1, <1>7 DEF FillFile, WriteFile, GoTo
<1>8. CASE Add(p)
  BY <1>0, <1>1, <1>8 DEF Add, gitAdd, GoTo
<1>9. CASE Commit(p)
  BY <1>0, <1>1, <1>9 DEF Commit, gitCommit, GoTo
<1>10. CASE Push(p)
  BY <1>0, <1>1, <1>10 DEF Push, gitPush, AfterPush, GoTo, Exit
<1>11. CASE CacheNew(p)
  BY <1>0, <1>1, <1>11 DEF CacheNew, GoTo
<1>12. CASE ClearOld(p) \/ CacheFails(p)
  BY <1>0, <1>1, <1>12 DEF ClearOld, CacheFails, GoTo
<1>13. CASE Verify(p)
  BY <1>0, <1>1, <1>13 DEF Verify, GoTo, Exit
<1>14. CASE Abort(p)
  BY <1>0, <1>1, <1>14 DEF Abort, Exit
<1> QED
  BY <1>3, <1>4, <1>5, <1>6, <1>7, <1>8, <1>9, <1>10, <1>11, <1>12, <1>13, <1>14
  DEF Command

LEMMA ServerStatusInv ==
  ASSUME TypeInv, PublishInv, StatusInv,
         StartServer \/ StartStep \/ ServerStops \/ WipeKeyFiles
  PROVE  StatusInv'
<1> USE DEF TypeInv, TypeOK, GitTypeOK, CmdOK, cmd, trees, StatusInv
<1>1. CASE SyncWorktree
  <2>1. AllIdle /\ UNCHANGED <<minted, cmd, bare>> /\ index' = bare /\ head' = bare
    BY <1>1 DEF SyncWorktree, gitResetHard, PublishInv, Quiet, Starting
  <2>2. Solo'
    BY <2>1 DEF Solo
  <2>3. ActiveKept' /\ Forward'
    BY <2>1 DEF ActiveKept, Forward
  <2>4. \A u \in CA \ minted : bare[u] = Absent
    BY DEF PublishInv, Grown, Written
  <2>5. Written'
    BY <2>1, <2>4 DEF Written, AllIdle, Writing
  <2> QED
    BY <2>2, <2>3, <2>5
<1>2. CASE UNCHANGED <<trees, minted, cmd>>
  BY <1>2 DEF Solo, ActiveKept, Forward, Written, Writing, Subject, Payload
<1> QED
  BY <1>1, <1>2, ServerKeepsTrees

LEMMA AlwaysStatusInv ==
  ASSUME Env \cap {"concurrent", "overlap"} = {}
  PROVE  Spec => [](TypeInv /\ PublishInv /\ StatusInv)
<1>1. TypeInv /\ PublishInv /\ StatusInv /\ [Next]_vars => StatusInv'
  <2> SUFFICES ASSUME TypeInv, PublishInv, StatusInv, [Next]_vars PROVE StatusInv'
    OBVIOUS
  <2>1. CASE UNCHANGED vars
    BY <2>1 DEF vars, trees, cmd, StatusInv, Solo, ActiveKept, Forward, Written, Writing,
       Subject, Payload
  <2>2. ASSUME NEW p \in Cli, Command(p) PROVE StatusInv'
    <3>1. Solo'
      BY <2>2, CommandSolo DEF StatusInv
    <3> QED
      BY <2>2, <3>1, CommandStatusInv DEF StatusInv
  <2> QED
    BY <2>1, <2>2, ServerStatusInv DEF Next
<1>2. "overlap" \notin Env
  OBVIOUS
<1> QED
  BY <1>1, <1>2, InitStatusInv, AlwaysPublishInv, PTL DEF Spec

(* What a reader who only asks for the status of a CA sees in its record.  *)
Status(c) == IF c = Husk THEN Revoked ELSE c

StatusLedger == INSTANCE CALedger WITH record <- [u \in CA |-> Status(bare[u])],
                                       active <- ActiveOf(bare)

LEMMA StatusStep ==
  ASSUME TypeInv, PublishInv, StatusInv, [Next]_vars
  PROVE  [StatusLedger!Publish]_<<[u \in CA |-> Status(bare[u])], ActiveOf(bare)>>
<1>1. CASE bare' = bare
  BY <1>1 DEF ActiveOf
<1>2. CASE bare' = head
  <2>1. \A u \in CA : /\ AtMost(Status(bare[u]), Status(head[u]))
                      /\ Status(head[u]) \in {Absent, Live, Revoked}
    BY DEF PublishInv, Grown, StatusInv, Forward, Dead, Status, AtMost, Absent, Live,
       Revoked, Husk
  <2>2. [u \in CA |-> Status(bare'[u])] \in [CA -> {Absent, Live, Revoked}]
    BY <1>2, <2>1
  <2>3. \A u \in CA : StatusLedger!AtMost([v \in CA |-> Status(bare[v])][u],
                                         [v \in CA |-> Status(bare'[v])][u])
    BY <1>2, <2>1 DEF AtMost, StatusLedger!AtMost
  <2>4. \/ ActiveOf(bare') = ActiveOf(bare)
        \/ ActiveOf(bare') \in CA /\ [u \in CA |-> Status(bare[u])][ActiveOf(bare')] # Absent
    <3>1. \A u \in CA : bare[u] # Absent => Status(bare[u]) # Absent
      BY DEF Status, Revoked, Absent
    <3> QED
      BY <1>2, <3>1 DEF PublishInv, NamesPublished, StatusInv, ActiveKept, ActiveOf
  <2> QED
    BY <2>2, <2>3, <2>4 DEF StatusLedger!Publish, ActiveOf
<1> QED
  BY <1>1, <1>2, PushOrUnchanged

(* Also with files that are caught truncated the bare repository is to its *)
(* readers the ledger of CALedger: no record is lost, no CA comes back     *)
(* from its revocation, and only a published CA is made the active one.    *)
THEOREM ImplementsStatusLedger ==
  ASSUME Env \cap {"concurrent", "overlap"} = {}
  PROVE  Spec => StatusLedger!LedgerSpec
<1>1. Init => StatusLedger!LedgerInit
  BY CAAssumption DEF Init, GitInit, NoFiles, File, ActiveOf, Status, Absent, Husk,
     StatusLedger!LedgerInit
<1> QED
  BY <1>1, StatusStep, AlwaysStatusInv, PTL DEF Spec, StatusLedger!LedgerSpec
===============================================================================
