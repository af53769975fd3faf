---------------------- MODULE RegistryBootstrapProofs ----------------------
(***************************************************************************)
(* Theorems about RegistryBootstrap: what holds as long as the configured  *)
(* branch is not changed, no start gets into a directory that another is   *)
(* cloning into, and no command writes while a server starts; and what     *)
(* holds whatever has happened.                                            *)
(***************************************************************************)
EXTENDS RegistryBootstrap, TLAPS

(* Where a start has got to says which of the directories are there, and   *)
(* how the branch in its temporary clone relates to everybody else's.      *)
AfterBootstrap == {"worktree", "clone", "cloneRuns", "fetch", "reset", "up"}

OneBranch == current = branch /\ \A b \in Branch \ {branch} : bare[b] = {}

Bootstrapped ==
  /\ \A s \in Server : pc[s] \in AfterBootstrap => bare[branch] # {}
  /\ \A s \in Server : pc[s] \in {"reset", "up"} => workDir = "repo"

(* git clone has the worktree it makes for itself.                         *)
OneClone ==
  /\ \A s \in Cloning : workDir = "partial"
  /\ \A s, t \in Cloning : s = t

(* A root commit that is about to be pushed is nobody else's.              *)
FreshRoots ==
  /\ \A s \in Server : pc[s] = "commit" /\ branch # DefaultBranch => tmp[s] = {}
  /\ \A s \in Server : pc[s] = "push" =>
       tmp[s] # {} /\ tmp[s] \cap bare[branch] = {} /\ tmp[s] \cap local = {}
  /\ \A s, t \in Server : s # t /\ pc[s] = "push" /\ pc[t] = "push"
                            => tmp[s] \cap tmp[t] = {}

InStep ==
  workDir = "repo" =>
    /\ bare[branch] # {} /\ bare[branch] \subseteq local
    /\ origin[branch] = bare[branch]

BranchInv == TypeOK /\ OneBranch /\ Bootstrapped /\ OneClone /\ FreshRoots /\ InStep

Undisturbed == disturbed \cap {"reconfigure", "share"} = {}

(* Nothing overlaps: the commit a command is about to push is still there. *)
SavedInv ==
  /\ writing # {} => Starting = {} /\ workDir = "repo"
  /\ writing \subseteq local
  /\ saved \subseteq bare[branch]

LEMMA InitInv == Init => BranchInv /\ SavedInv
<1> SUFFICES ASSUME Init PROVE BranchInv /\ SavedInv
  OBVIOUS
<1> USE BootstrapAssumption DEF Init, NoCommits
<1>1. TypeOK
  BY DEF TypeOK, Dir, Pc
<1>2. OneBranch /\ InStep /\ SavedInv
  BY DEF OneBranch, InStep, SavedInv
<1>3. Bootstrapped /\ OneClone /\ FreshRoots
  BY DEF Bootstrapped, OneClone, Cloning, FreshRoots, AfterBootstrap
<1> QED
  BY <1>1, <1>2, <1>3 DEF BranchInv

LEMMA StepType == TypeOK /\ [Next]_vars => TypeOK'
<1> SUFFICES ASSUME TypeOK, [Next]_vars PROVE TypeOK'
  OBVIOUS
<1> USE BootstrapAssumption
    DEF TypeOK, Dir, Pc, repos, worktree, start, Goto, Moves, Disturbs
<1>1. ASSUME NEW s \in Server, EnsureRegistry(s) PROVE TypeOK'
  <2>1. CASE CheckBare(s)
    BY <2>1 DEF CheckBare
  <2>2. CASE InitDirectory(s) \/ gitInitBare(s) \/ SetIdentity(s)
    BY <2>2 DEF InitDirectory, gitInitBare, SetIdentity
  <2>3. CASE CheckBranch(s)
    BY <2>3 DEF CheckBranch
  <2>4. CASE gitCloneNoCheckout(s)
    BY <2>4 DEF gitCloneNoCheckout
  <2>5. CASE BootstrapCommit(s)
    BY <2>5 DEF BootstrapCommit
  <2>6. CASE gitPushSetUpstream(s)
    BY <2>6 DEF gitPushSetUpstream
  <2>7. CASE CheckWorktree(s) \/ CloneDirectory(s) \/ CloneFails(s)
    BY <2>7 DEF CheckWorktree, CloneDirectory, CloneFails
  <2>8. CASE gitClone(s)
    BY <2>8 DEF gitClone, CloneBranch
  <2>9. CASE gitFetch(s)
    BY <2>9 DEF gitFetch
  <2>10. CASE gitResetHard(s)
    BY <2>10 DEF gitResetHard
  <2>11. CASE Fail(s)
    BY <2>11 DEF Fail
  <2> QED
    BY <1>1, <2>1, <2>2, <2>3, <2>4, <2>5, <2>6, <2>7, <2>8, <2>9, <2>10, <2>11
    DEF EnsureRegistry
<1>2. ASSUME NEW s \in Server, StartServer(s) \/ Kill(s) \/ Stop(s) PROVE TypeOK'
  <2>1. CASE StartServer(s) \/ Stop(s)
    BY <2>1 DEF StartServer, Stop
  <2>2. CASE Kill(s)
    BY <2>2 DEF Kill
  <2> QED
    BY <1>2, <2>1, <2>2
<1>3. CASE WriteCommit
  BY <1>3 DEF WriteCommit
<1>4. CASE WritePush
  BY <1>4 DEF WritePush, PushCurrent
<1>5. CASE WriteFails
  BY <1>5 DEF WriteFails
<1>6. CASE Reconfigure
  BY <1>6 DEF Reconfigure
<1>7. CASE UNCHANGED vars
  BY <1>7 DEF vars
<1> QED
  BY <1>1, <1>2, <1>3, <1>4, <1>5, <1>6, <1>7 DEF Next

(* Type correctness, whatever the environment does.                        *)
THEOREM BootstrapTypeCorrect == Spec => []TypeOK
<1>1. Init => TypeOK
  BY InitInv DEF BranchInv
<1> QED
  BY <1>1, StepType, PTL DEF Spec

(* The steps that neither push nor touch the worktree.                     *)
LEMMA QuietSteps ==
  ASSUME BranchInv, TypeOK', NEW s \in Server,
         \/ StartServer(s) \/ CheckBare(s) \/ InitDirectory(s) \/ gitInitBare(s)
         \/ SetIdentity(s) \/ CheckBranch(s) \/ gitCloneNoCheckout(s)
         \/ CheckWorktree(s) \/ Fail(s) \/ Kill(s) \/ Stop(s)
  PROVE  BranchInv'
<1> USE DEF BranchInv, TypeOK, repos, worktree, start, Goto, Moves
<1>1. /\ UNCHANGED <<branch, bare, workDir, current, local, origin>>
      /\ \A t \in Server \ {s} : pc'[t] = pc[t] /\ tmp'[t] = tmp[t]
      /\ pc'[s] \in Pc \ {"push", "cloneRuns", "reset", "up"}
      /\ pc'[s] \in AfterBootstrap => bare[branch] # {}
      /\ pc'[s] = "commit" => tmp'[s] = bare[DefaultBranch]
  BY DEF StartServer, CheckBare, InitDirectory, gitInitBare, SetIdentity, CheckBranch,
         bareRepoHasBranch, gitCloneNoCheckout, CheckWorktree, Fail, Kill, Stop,
         Bootstrapped, AfterBootstrap, Pc
<1>2. OneBranch' /\ InStep'
  BY <1>1 DEF OneBranch, InStep
<1>3. Bootstrapped' /\ OneClone'
  BY <1>1 DEF Bootstrapped, OneClone, Cloning
<1>4. FreshRoots'
  BY <1>1, BootstrapAssumption DEF FreshRoots, OneBranch
<1> QED
  BY <1>2, <1>3, <1>4

LEMMA BootstrapCommitStep ==
  ASSUME BranchInv, TypeOK', NEW s \in Server, BootstrapCommit(s)
  PROVE  BranchInv'
<1> USE DEF BranchInv, TypeOK, repos, worktree, start, Goto, Moves
<1>1. tmp[s] = {}
  BY DEF BootstrapCommit, MayBranchOff, FreshRoots
<1>2. PICK c \in Commit \ Reachable : tmp' = [tmp EXCEPT ![s] = @ \cup {c}]
  BY DEF BootstrapCommit
<1>3. /\ UNCHANGED <<branch, bare, workDir, current, local, origin>>
      /\ pc' = [pc EXCEPT ![s] = "push"]
  BY DEF BootstrapCommit
<1>4. tmp'[s] = {c} /\ \A t \in Server \ {s} : tmp'[t] = tmp[t] /\ pc'[t] = pc[t]
  BY <1>1, <1>2, <1>3
<1>5. c \notin bare[branch] /\ c \notin local /\ \A t \in Server : c \notin tmp[t]
  BY <1>2 DEF Reachable
<1>6. OneBranch' /\ InStep' /\ Bootstrapped' /\ OneClone'
  BY <1>3 DEF OneBranch, InStep, Bootstrapped, AfterBootstrap, OneClone, Cloning
<1>7. FreshRoots'
  BY <1>3, <1>4, <1>5 DEF FreshRoots
<1> QED
  BY <1>6, <1>7

(* The bootstrap that wins is the one that finds no commits on the branch. *)
LEMMA BootstrapPushStep ==
  ASSUME BranchInv, TypeOK', NEW s \in Server, gitPushSetUpstream(s)
  PROVE  BranchInv' /\ bare[branch] = {}
<1> USE DEF BranchInv, TypeOK, repos, worktree, start, Goto, Moves
<1>1. bare[branch] = {} /\ tmp[s] # {} /\ tmp[s] \cap local = {}
  BY DEF gitPushSetUpstream, FreshRoots
<1>2. /\ UNCHANGED <<branch, workDir, current, local, origin>>
      /\ bare' = [bare EXCEPT ![branch] = tmp[s]]
      /\ tmp' = [tmp EXCEPT ![s] = {}] /\ pc' = [pc EXCEPT ![s] = "worktree"]
  BY DEF gitPushSetUpstream
<1>3. workDir # "repo"
  BY <1>1 DEF InStep
<1>4. OneBranch' /\ InStep'
  BY <1>2, <1>3 DEF OneBranch, InStep
<1>5. Bootstrapped' /\ OneClone'
  BY <1>1, <1>2, <1>3 DEF Bootstrapped, AfterBootstrap, OneClone, Cloning
<1>6. FreshRoots'
  BY <1>1, <1>2, gitPushSetUpstream(s) DEF FreshRoots, gitPushSetUpstream
<1> QED
  BY <1>1, <1>4, <1>5, <1>6

(* A clone begins only where there is no directory, and does not fail.     *)
LEMMA CloneSteps ==
  ASSUME BranchInv, TypeOK', "share" \notin disturbed', NEW s \in Server,
         CloneDirectory(s) \/ CloneFails(s)
  PROVE  BranchInv'
<1> USE DEF BranchInv, TypeOK, repos, worktree, start, Goto, Moves, Disturbs
<1>1. ~CloneFails(s)
  BY DEF CloneFails, OneClone, Cloning, Bootstrapped, AfterBootstrap
<1>2. /\ UNCHANGED <<branch, bare, current, local, origin, tmp>>
      /\ Cloning = {} /\ workDir = "missing" /\ workDir' = "partial"
      /\ pc[s] = "clone" /\ pc' = [pc EXCEPT ![s] = "cloneRuns"]
  BY <1>1 DEF CloneDirectory
<1>3. OneBranch' /\ InStep' /\ FreshRoots'
  BY <1>2 DEF OneBranch, InStep, FreshRoots
<1>4. Bootstrapped' /\ OneClone'
  BY <1>2 DEF Bootstrapped, AfterBootstrap, OneClone, Cloning
<1> QED
  BY <1>3, <1>4

(* Clone, fetch and reset: the worktree takes over the branch.             *)
LEMMA WorktreeSteps ==
  ASSUME BranchInv, TypeOK', "share" \notin disturbed', NEW s \in Server,
         gitClone(s) \/ gitFetch(s) \/ gitResetHard(s)
  PROVE  BranchInv'
<1> USE DEF BranchInv, TypeOK, repos, worktree, start, Goto, Moves, Disturbs
<1>1. /\ UNCHANGED <<branch, bare, current, tmp>> /\ workDir' = "repo"
      /\ bare[branch] # {} /\ origin'[branch] = bare[branch]
      /\ local' = local \/ local' = bare[branch]
      /\ bare[branch] \subseteq local'
      /\ Cloning \subseteq {s} /\ pc'[s] \in {"reset", "up"}
      /\ \A t \in Server \ {s} : pc'[t] = pc[t]
  <2>1. CASE gitClone(s)
    BY <2>1 DEF gitClone, CloneBranch, OneBranch, OneClone, Cloning
  <2>2. CASE gitFetch(s)
    BY <2>2 DEF gitFetch, InStep, OneClone
  <2>3. CASE gitResetHard(s)
    BY <2>3 DEF gitResetHard, Bootstrapped, InStep, OneClone
  <2> QED
    BY <2>1, <2>2, <2>3
<1>2. OneBranch' /\ InStep'
  BY <1>1 DEF OneBranch, InStep
<1>3. Bootstrapped' /\ OneClone'
  BY <1>1 DEF Bootstrapped, AfterBootstrap, OneClone, Cloning
<1>4. FreshRoots'
  BY <1>1 DEF FreshRoots
<1> QED
  BY <1>2, <1>3, <1>4

(* Commands write to the branch they find checked out, the configured one. *)
LEMMA WriteSteps ==
  ASSUME BranchInv, TypeOK', WriteCommit \/ WritePush \/ WriteFails
  PROVE  BranchInv'
<1> USE DEF BranchInv, TypeOK, repos, worktree, start
<1>1. CASE WriteCommit
  <2>1. PICK c \in Commit \ Reachable : local' = local \cup {c}
    BY <1>1 DEF WriteCommit
  <2>2. /\ UNCHANGED <<branch, bare, workDir, current, origin, pc, tmp>>
        /\ \A t \in Server : c \notin tmp[t]
    BY <1>1, <2>1 DEF WriteCommit, Reachable
  <2>3. OneBranch' /\ InStep' /\ Bootstrapped' /\ OneClone'
    BY <2>1, <2>2 DEF OneBranch, InStep, Bootstrapped, OneClone, Cloning
  <2>4. FreshRoots'
    BY <2>1, <2>2 DEF FreshRoots
  <2> QED
    BY <2>3, <2>4
<1>2. CASE WritePush
  <2>1. /\ UNCHANGED <<branch, workDir, current, local, pc, tmp>>
        /\ bare[branch] \subseteq local
        /\ bare' = [bare EXCEPT ![branch] = local]
        /\ origin' = [origin EXCEPT ![branch] = local]
    BY <1>2 DEF WritePush, PushCurrent, OneBranch
  <2>2. OneBranch' /\ InStep' /\ Bootstrapped' /\ OneClone'
    BY <2>1 DEF OneBranch, InStep, Bootstrapped, OneClone, Cloning
  <2>3. FreshRoots'
    BY <2>1 DEF FreshRoots
  <2> QED
    BY <2>2, <2>3
<1>3. CASE WriteFails
  BY <1>3 DEF WriteFails, OneBranch, InStep, Bootstrapped, OneClone, Cloning, FreshRoots
<1> QED
  BY <1>1, <1>2, <1>3

LEMMA StepBranchInv ==
  ASSUME Undisturbed', BranchInv, [Next]_vars
  PROVE  BranchInv'
<1>1. TypeOK'
  BY StepType DEF BranchInv
<1>2. ASSUME NEW s \in Server, StartServer(s) \/ EnsureRegistry(s) \/ Kill(s) \/ Stop(s)
      PROVE  BranchInv'
  BY <1>1, <1>2, QuietSteps, BootstrapCommitStep, BootstrapPushStep, CloneSteps,
     WorktreeSteps
  DEF EnsureRegistry, Undisturbed
<1>3. CASE WriteCommit \/ WritePush \/ WriteFails
  BY <1>1, <1>3, WriteSteps
<1>4. CASE UNCHANGED vars
  BY <1>1, <1>4 DEF vars, repos, worktree, start, BranchInv, OneBranch, InStep,
                    Bootstrapped, OneClone, Cloning, FreshRoots
<1>5. ~Reconfigure
  BY DEF Reconfigure, Disturbs, Undisturbed
<1> QED
  BY <1>2, <1>3, <1>4, <1>5 DEF Next

(* What has happened has happened.                                         *)
LEMMA DisturbedStays == [Next]_vars => disturbed \subseteq disturbed'
<1> SUFFICES ASSUME [Next]_vars PROVE disturbed \subseteq disturbed'
  OBVIOUS
<1> USE DEF Goto, Disturbs
<1>1. ASSUME NEW s \in Server, EnsureRegistry(s) PROVE disturbed \subseteq disturbed'
  BY <1>1 DEF EnsureRegistry, CheckBare, InitDirectory, gitInitBare, SetIdentity,
       CheckBranch, gitCloneNoCheckout, BootstrapCommit, gitPushSetUpstream,
       CheckWorktree, CloneDirectory, gitClone, CloneFails, gitFetch, gitResetHard, Fail
<1>2. ASSUME NEW s \in Server, StartServer(s) \/ Kill(s) \/ Stop(s)
      PROVE  disturbed \subseteq disturbed'
  BY <1>2 DEF StartServer, Kill, Stop
<1>3. CASE WriteCommit \/ WritePush \/ WriteFails \/ Reconfigure
  BY <1>3 DEF WriteCommit, WritePush, WriteFails, Reconfigure
<1>4. CASE UNCHANGED vars
  BY <1>4 DEF vars
<1> QED
  BY <1>1, <1>2, <1>3, <1>4 DEF Next

(* While a server is up the worktree is a repository that holds all of the *)
(* configured branch, for any number of starts that race (all of them find *)
(* no repository and no worktree, and run git init and git clone for the   *)
(* same directory), are killed (in the middle of a git command, too) and   *)
(* meet commands that write; until the branch is changed, or a start gets  *)
(* into the directory that the clone of another is filling.                *)
THEOREM UpIsReadableTheorem == Spec => []UpIsReadable
<1> DEFINE Inv == Undisturbed => BranchInv
<1>1. Init => Inv
  BY InitInv
<1>2. Inv /\ [Next]_vars => Inv'
  BY StepBranchInv, DisturbedStays DEF Undisturbed
<1>3. Inv => UpIsReadable
  BY DEF BranchInv, Bootstrapped, AfterBootstrap, InStep, UpIsReadable, Undisturbed
<1> QED
  BY <1>1, <1>2, <1>3, PTL DEF Spec

(* A start and a command do not overlap: no reset drops the commit that is *)
(* about to be pushed.                                                     *)
LEMMA StepSavedInv ==
  ASSUME disturbed' = {}, BranchInv, SavedInv, [Next]_vars, BranchInv'
  PROVE  SavedInv'
<1> USE DEF BranchInv, TypeOK, SavedInv, repos, worktree, start, Goto, Moves
<1>1. ASSUME NEW s \in Server, EnsureRegistry(s) \/ Kill(s) PROVE SavedInv'
  <2> USE DEF EnsureRegistry, CheckBare, InitDirectory, gitInitBare, SetIdentity,
        CheckBranch, gitCloneNoCheckout, BootstrapCommit, CheckWorktree,
        CloneDirectory, gitClone, CloneFails, gitFetch, gitResetHard, Fail, Kill
  <2>1. s \in Starting
    BY <1>1 DEF gitPushSetUpstream, Starting, Initializing
  <2>2. writing = {} /\ UNCHANGED <<branch, writing, saved>>
    BY <1>1, <2>1 DEF gitPushSetUpstream
  <2>3. bare' = bare \/ bare[branch] = {}
    BY <1>1, BootstrapPushStep
  <2> QED
    BY <2>2, <2>3
<1>2. ASSUME NEW s \in Server, StartServer(s) PROVE SavedInv'
  BY <1>2 DEF StartServer, Disturbs
<1>3. ASSUME NEW s \in Server, Stop(s) PROVE SavedInv'
  <2>1. Starting' = Starting
    BY <1>3 DEF Stop, Starting
  <2> QED
    BY <1>3, <2>1 DEF Stop
<1>4. CASE WriteCommit
  <2>1. Starting = {} /\ Starting' = Starting
    BY <1>4 DEF WriteCommit, Starting, Disturbs
  <2> QED
    BY <1>4, <2>1 DEF WriteCommit
<1>5. CASE WritePush
  BY <1>5 DEF WritePush, PushCurrent, OneBranch
<1>6. CASE WriteFails
  BY <1>6 DEF WriteFails
<1>7. CASE UNCHANGED vars
  BY <1>7 DEF vars, Starting
<1>8. ~Reconfigure
  BY DEF Reconfigure, Disturbs
<1> QED
  BY <1>1, <1>2, <1>3, <1>4, <1>5, <1>6, <1>7, <1>8 DEF Next

(* Until a command writes while a server starts, the branch is changed, or *)
(* two starts meet in one new worktree, what commands reported as saved is *)
(* on the branch.                                                          *)
THEOREM SavedStaysOnBranchTheorem == Spec => []SavedStaysOnBranch
<1> DEFINE Inv == disturbed = {} => BranchInv /\ SavedInv
<1>1. Init => Inv
  BY InitInv
<1>2. Inv /\ [Next]_vars => Inv'
  <2> SUFFICES ASSUME Inv, [Next]_vars, disturbed' = {} PROVE (BranchInv /\ SavedInv)'
    OBVIOUS
  <2>1. BranchInv /\ SavedInv
    BY DisturbedStays
  <2>2. BranchInv'
    BY <2>1, StepBranchInv DEF Undisturbed
  <2> QED
    BY <2>1, <2>2, StepSavedInv
<1>3. Inv => SavedStaysOnBranch
  BY DEF SavedInv, SavedStaysOnBranch
<1> QED
  BY <1>1, <1>2, <1>3, PTL DEF Spec

----------------------------------------------------------------------------
(* What Recovers rests on.                                                 *)

(* The commits that a start relies on are there when it comes to use them, *)
(* also after the configured branch was changed, and after two starts have *)
(* met in one worktree.                                                    *)
ReadyInv ==
  /\ \A s \in Server : pc[s] \in AfterBootstrap => bare[branch] # {}
  /\ \A s \in Server : pc[s] = "push" => tmp[s] # {}
  /\ \A s \in Server : pc[s] = "reset" => origin[branch] # {}

LEMMA StepReadyInv == TypeOK /\ ReadyInv /\ [Next]_vars => ReadyInv'
<1> SUFFICES ASSUME TypeOK, ReadyInv, [Next]_vars PROVE ReadyInv'
  OBVIOUS
<1> USE DEF TypeOK, ReadyInv, AfterBootstrap, repos, worktree, start, Goto, Moves
<1>1. ASSUME NEW s \in Server,
             \/ StartServer(s) \/ CheckBare(s) \/ InitDirectory(s) \/ gitInitBare(s)
             \/ SetIdentity(s) \/ CheckBranch(s) \/ gitCloneNoCheckout(s)
             \/ CheckWorktree(s) \/ Fail(s) \/ Kill(s) \/ Stop(s)
      PROVE  ReadyInv'
  BY <1>1 DEF StartServer, CheckBare, InitDirectory, gitInitBare, SetIdentity,
         CheckBranch, bareRepoHasBranch, gitCloneNoCheckout, CheckWorktree, Fail,
         Kill, Stop
<1>2. ASSUME NEW s \in Server, BootstrapCommit(s) \/ gitPushSetUpstream(s)
      PROVE  ReadyInv'
  BY <1>2 DEF BootstrapCommit, gitPushSetUpstream
<1>3. ASSUME NEW s \in Server,
             \/ CloneDirectory(s) \/ gitClone(s) \/ CloneFails(s)
             \/ gitFetch(s) \/ gitResetHard(s)
      PROVE  ReadyInv'
  BY <1>3 DEF CloneDirectory, gitClone, CloneFails, gitFetch, gitResetHard
<1>4. CASE WriteCommit \/ WriteFails
  BY <1>4 DEF WriteCommit, WriteFails
<1>5. CASE WritePush
  BY <1>5 DEF WritePush, PushCurrent
<1>6. CASE Reconfigure
  BY <1>6 DEF Reconfigure
<1>7. CASE UNCHANGED vars
  BY <1>7 DEF vars
<1> QED
  BY <1>1, <1>2, <1>3, <1>4, <1>5, <1>6, <1>7 DEF Next, EnsureRegistry

(* When git clone or the reset of the worktree comes to use the configured *)
(* branch it is there, whatever other starts, commands, crashes or a       *)
(* change of the branch have done: neither fails for want of it.           *)
BranchIsThere ==
  \A s \in Server : /\ pc[s] \in {"clone", "cloneRuns"} => bare[branch] # {}
                    /\ pc[s] = "reset" => origin[branch] # {}

THEOREM BranchIsThereTheorem == Spec => []BranchIsThere
<1>1. Init => TypeOK /\ ReadyInv
  BY InitInv DEF BranchInv, Init, ReadyInv, AfterBootstrap
<1>2. ReadyInv => BranchIsThere
  BY DEF ReadyInv, BranchIsThere, AfterBootstrap
<1> QED
  BY <1>1, <1>2, StepType, StepReadyInv, PTL DEF Spec

(* A directory that git has only begun to fill is there no longer than the *)
(* git command that fills it, unless that can be killed half-way, and a    *)
(* git clone that fills one is the only one at work: a start that comes    *)
(* later finds a repository or nothing, and can go on with it.  Only two   *)
(* starts that have met in one worktree can leave anything else.           *)
LeftoversAreWhole ==
  /\ bareDir = "partial" => \E s \in Server : pc[s] = "initRuns"
  /\ workDir = "partial" => \E s \in Server : Cloning = {s}
  /\ workDir = "shared" => "share" \in disturbed

OwnersKeep ==
  /\ \A s \in Server : pc[s] = "config" => bareDir = "repo"
  /\ Cloning # {} /\ workDir # "partial" => "share" \in disturbed

THEOREM LeftoversAreWholeTheorem ==
  ASSUME "torn" \notin Env
  PROVE  Spec => []LeftoversAreWhole
<1> DEFINE Inv == TypeOK /\ LeftoversAreWhole /\ OwnersKeep
<1>1. Init => Inv
  BY InitInv DEF BranchInv, Init, LeftoversAreWhole, OwnersKeep, Cloning
<1>2. Inv /\ [Next]_vars => LeftoversAreWhole' /\ OwnersKeep'
  <2> SUFFICES ASSUME Inv, [Next]_vars PROVE LeftoversAreWhole' /\ OwnersKeep'
    OBVIOUS
  <2> USE DEF TypeOK, LeftoversAreWhole, OwnersKeep, Cloning, repos, worktree, start,
              Goto, Moves, Disturbs
  <2>1. ASSUME NEW s \in Server, EnsureRegistry(s)
        PROVE  LeftoversAreWhole' /\ OwnersKeep'
    <3>1. CASE InitDirectory(s)
      BY <3>1 DEF InitDirectory
    <3>2. CASE gitInitBare(s)
      BY <3>2 DEF gitInitBare
    <3>3. CASE CloneDirectory(s)
      BY <3>3 DEF CloneDirectory
    <3>4. CASE gitClone(s)
      BY <3>4 DEF gitClone
    <3>5. CASE CloneFails(s)
      BY <3>5 DEF CloneFails
    <3>6. CASE gitFetch(s)
      BY <3>6 DEF gitFetch
    <3>7. CASE gitResetHard(s)
      BY <3>7 DEF gitResetHard
    <3>8. CASE Fail(s)
      BY <3>8 DEF Fail, Initializing
    <3>9. ASSUME pc[s] \notin {"initRuns", "cloneRuns"},
                 pc'[s] \notin {"initRuns", "config", "cloneRuns"},
                 UNCHANGED <<bareDir, workDir, disturbed>>,
                 \A t \in Server \ {s} : pc'[t] = pc[t]
          PROVE  LeftoversAreWhole' /\ OwnersKeep'
      BY <3>9
    <3> QED
      BY <2>1, <3>1, <3>2, <3>3, <3>4, <3>5, <3>6, <3>7, <3>8, <3>9
      DEF EnsureRegistry, CheckBare, SetIdentity, CheckBranch, gitCloneNoCheckout,
          BootstrapCommit, gitPushSetUpstream, CheckWorktree
  <2>2. ASSUME NEW s \in Server, StartServer(s) \/ Kill(s) \/ Stop(s)
        PROVE  LeftoversAreWhole' /\ OwnersKeep'
    BY <2>2 DEF StartServer, Kill, Stop
  <2>3. CASE WriteCommit \/ WritePush \/ WriteFails \/ Reconfigure
    BY <2>3 DEF WriteCommit, WritePush, WriteFails, Reconfigure
  <2>4. CASE UNCHANGED vars
    BY <2>4 DEF vars
  <2> QED
    BY <2>1, <2>2, <2>3, <2>4 DEF Next
<1> QED
  BY <1>1, <1>2, StepType, PTL DEF Spec
=============================================================================
