------------------------- MODULE RegistryBootstrap -------------------------
(***************************************************************************)
(* How data/registry comes to be and survives: EnsureRegistry of           *)
(* internal/registry/registry.go, run by every start of the server, over   *)
(* the bare repository system.git and its clone, the worktree; and, as the *)
(* clients it is there for, the commands that commit in the worktree and   *)
(* push.  Each git command is a step, a start can be killed between any    *)
(* two, and several starts may run at once.  What os.Stat finds, and the   *)
(* directory that git makes later because of it, are steps apart; git init *)
(* and git clone begin, with the directory, and end.                       *)
(*                                                                         *)
(* A branch is the set of its commits: commits are unique and a push is a  *)
(* fast-forward exactly when the remote's commits are among the pushed.    *)
(***************************************************************************)
EXTENDS Naturals

CONSTANTS
  Server,         \* server processes
  Branch,         \* branch names; one is configured, SOURCEVAULT_REGISTRY_BRANCH
  DefaultBranch,  \* the one git init makes HEAD refer to
  Commit,         \* commits; bounds how many are reachable at a time
  GlobalIdentity, \* git has a user.name and user.email outside of the repositories
  Env,            \* what the environment may do
  MaxKills        \* bound on the number of starts that are killed

(* "torn"         a start can be killed in the middle of a git command;    *)
(* "overlap"      commands write while the server starts;                  *)
(* "reconfigure"  the configured branch is changed while nothing runs;     *)
(* "share"        a start gets into the directory that the git clone of    *)
(*                another has begun to fill: most git commands refuse one  *)
(*                that is not empty, or is not yet a repository.           *)
ASSUME BootstrapAssumption ==
  /\ DefaultBranch \in Branch
  /\ GlobalIdentity \in BOOLEAN /\ MaxKills \in Nat
  /\ Env \subseteq {"torn", "overlap", "reconfigure", "share"}

VARIABLES
  branch,    \* the configured branch
  bareDir,   \* system.git: there is none, git init is at work, or it is a repository
  bare,      \*   and its branches
  workDir,   \* worktree: as system.git, or one that more than a git clone has touched
  current,   \*   its checked-out branch,
  local,     \*   the commits of that branch,
  origin,    \*   and the bare repository's branches as it last saw them
  identity,  \* the repositories with a user.name and user.email of their own
  pc,        \* of each start: the next git command
  tmp,       \*   and the branch in its temporary clone
  writing,   \* the commit a command is about to push, if any
  saved,     \* history: the commits whose command has reported success
  disturbed, \* history: what of "overlap", "reconfigure" and "share" has happened
  kills      \* the number of starts killed

worktree == <<workDir, current, local, origin>>
repos == <<bareDir, bare, worktree, identity>>
start == <<pc, tmp>>
vars  == <<branch, repos, start, writing, saved, disturbed, kills>>

Dir == {"missing", "partial", "repo"}
Pc  == {"down", "bare", "init", "initRuns", "config", "branch", "tmpclone", "commit",
        "push", "worktree", "clone", "cloneRuns", "fetch", "reset", "up"}

TypeOK ==
  /\ branch \in Branch /\ current \in Branch
  /\ bareDir \in Dir /\ workDir \in Dir \cup {"shared"}
  /\ bare \in [Branch -> SUBSET Commit] /\ origin \in [Branch -> SUBSET Commit]
  /\ local \subseteq Commit
  /\ identity \subseteq {"bare", "worktree"}
  /\ pc \in [Server -> Pc] /\ tmp \in [Server -> SUBSET Commit]
  /\ writing \subseteq Commit /\ saved \subseteq Commit
  /\ disturbed \subseteq Env \ {"torn"}
  /\ kills \in 0..MaxKills

NoCommits == [b \in Branch |-> {}]

Init ==
  /\ branch \in Branch /\ current = branch
  /\ bareDir = "missing" /\ bare = NoCommits
  /\ workDir = "missing" /\ local = {} /\ origin = NoCommits
  /\ identity = {}
  /\ pc = [s \in Server |-> "down"] /\ tmp = [s \in Server |-> {}]
  /\ writing = {} /\ saved = {} /\ disturbed = {} /\ kills = 0

Starting  == {s \in Server : pc[s] \notin {"down", "up"}}
Reachable == UNION ({bare[b] : b \in Branch} \cup {origin[b] : b \in Branch}
                    \cup {tmp[s] : s \in Server} \cup {local, writing, saved})

Disturbs(what, happens) ==
  disturbed' = IF happens THEN disturbed \cup {what} ELSE disturbed

Moves(s, at) == pc' = [pc EXCEPT ![s] = at] /\ UNCHANGED <<branch, writing, saved, kills>>
Goto(s, at)  == Moves(s, at) /\ UNCHANGED disturbed

----------------------------------------------------------------------------
(* EnsureRegistry.                                                         *)

StartServer(s) ==
  /\ pc[s] = "down"
  /\ "overlap" \in Env \/ writing = {}
  /\ Moves(s, "bare") /\ Disturbs("overlap", writing # {})
  /\ UNCHANGED <<repos, tmp>>

(* Step 1: os.Stat, then git init, which makes the directory first, and    *)
(* does no harm to one that another start has made since.                  *)
CheckBare(s) ==
  /\ pc[s] = "bare"
  /\ Goto(s, IF bareDir = "missing" THEN "init" ELSE "branch")
  /\ UNCHANGED <<repos, tmp>>

InitDirectory(s) ==
  /\ pc[s] = "init"
  /\ bareDir' = IF bareDir = "missing" THEN "partial" ELSE bareDir
  /\ Goto(s, "initRuns")
  /\ UNCHANGED <<bare, worktree, identity, tmp>>

gitInitBare(s) ==
  /\ pc[s] = "initRuns"
  /\ bareDir' = "repo" /\ Goto(s, "config")
  /\ UNCHANGED <<bare, worktree, identity, tmp>>

BugConfigTmp(s) ==
  /\ pc[s] = "config"
  /\ identity' = identity \cup {"tmp"} /\ Goto(s, "branch")
  /\ UNCHANGED <<bareDir, bare, worktree, tmp>>

SetIdentity(s) ==
  /\ pc[s] = "config"
  /\ identity' = identity \cup {"bare"} /\ Goto(s, "branch")
  /\ UNCHANGED <<bareDir, bare, worktree, tmp>>

BugBareExists == bareDir = "repo"

bareRepoHasBranch == bareDir = "repo" /\ bare[branch] # {}

(* Step 2.                                                                 *)
CheckBranch(s) ==
  /\ pc[s] = "branch"
  /\ Goto(s, IF bareRepoHasBranch THEN "worktree" ELSE "tmpclone")
  /\ UNCHANGED <<repos, tmp>>

(* bootstrapInitialCommit: the temporary clone checks out the branch that  *)
(* HEAD of the bare repository refers to, when there is one by that name.  *)
gitCloneNoCheckout(s) ==
  /\ pc[s] = "tmpclone" /\ bareDir = "repo"
  /\ tmp' = [tmp EXCEPT ![s] = bare[DefaultBranch]]
  /\ Goto(s, "commit") /\ UNCHANGED repos

(* git checkout -b, which fails when the clone has checked that branch out *)
(* already, and the commit of the directory structure.                     *)
MayBranchOff(s) == branch # DefaultBranch \/ tmp[s] = {}

BootstrapCommit(s) ==
  /\ pc[s] = "commit" /\ MayBranchOff(s)
  /\ \E c \in Commit \ Reachable : tmp' = [tmp EXCEPT ![s] = @ \cup {c}]
  /\ Goto(s, "push") /\ UNCHANGED repos

gitPushSetUpstream(s) ==
  /\ pc[s] = "push" /\ bare[branch] \subseteq tmp[s]
  /\ bare' = [bare EXCEPT ![branch] = tmp[s]]
  /\ tmp' = [tmp EXCEPT ![s] = {}]
  /\ Goto(s, "worktree")
  /\ UNCHANGED <<bareDir, worktree, identity>>

(* Step 3.                                                                 *)
CheckWorktree(s) ==
  /\ pc[s] = "worktree"
  /\ Goto(s, IF workDir = "missing" THEN "clone" ELSE "fetch")
  /\ UNCHANGED <<repos, tmp>>

Cloning == {s \in Server : pc[s] = "cloneRuns"}

(* git clone refuses a directory that is there, unless it is still empty.  *)
CloneDirectory(s) ==
  /\ pc[s] = "clone"
  /\ \/ /\ workDir = "missing" /\ Cloning = {}
        /\ workDir' = "partial" /\ Disturbs("share", FALSE)
     \/ /\ "share" \in Env /\ workDir # "repo" /\ Cloning # {}
        /\ workDir' = "shared" /\ Disturbs("share", TRUE)
  /\ Moves(s, "cloneRuns")
  /\ UNCHANGED <<bareDir, bare, current, local, origin, identity, tmp>>

BugCloneDefault == DefaultBranch

CloneBranch == branch

gitClone(s) ==
  /\ pc[s] = "cloneRuns" /\ bare[branch] # {} /\ workDir # "missing"
  /\ workDir' = "repo" /\ origin' = bare
  /\ current' = CloneBranch /\ local' = bare[CloneBranch]
  /\ Goto(s, "up") /\ UNCHANGED <<bareDir, bare, identity, tmp>>

(* A git clone that fails removes the directory it has made, with all that *)
(* is in it; of one it shares, another may keep or make again a part.      *)
CloneFails(s) ==
  /\ pc[s] = "cloneRuns"
  /\ bare[branch] = {} \/ workDir # "partial"
  /\ workDir' \in {"missing"} \cup (IF workDir = "partial" THEN {} ELSE {"shared", workDir})
  /\ Goto(s, "down")
  /\ UNCHANGED <<bareDir, bare, current, local, origin, identity, tmp>>

gitFetch(s) ==
  /\ pc[s] = "fetch"
  /\ \/ workDir = "repo" /\ workDir' = "repo" /\ Disturbs("share", FALSE)
     \/ /\ "share" \in Env /\ workDir \in {"partial", "shared"} /\ Cloning # {}
        /\ workDir' = "shared" /\ Disturbs("share", TRUE)
  /\ origin' = bare
  /\ Moves(s, "reset")
  /\ UNCHANGED <<bareDir, bare, current, local, identity, tmp>>

(* Whichever branch is checked out stays so, with another one's commits;   *)
(* while a git clone goes on, that is the one it has got to.               *)
gitResetHard(s) ==
  /\ pc[s] = "reset" /\ origin[branch] # {}
  /\ workDir = "repo" \/ (workDir = "shared" /\ Cloning # {})
  /\ workDir' = "repo" /\ local' = origin[branch]
  /\ current' \in IF workDir = "repo" THEN {current} ELSE {branch, DefaultBranch}
  /\ Goto(s, "up")
  /\ UNCHANGED <<bareDir, bare, origin, identity, tmp>>

(* A git command reports an error and EnsureRegistry returns it: git init  *)
(* and git config lose to those of another start, a clone finds that the   *)
(* worktree is there by now, a sync that it is not, or not yet.            *)
Initializing == {s \in Server : pc[s] \in {"initRuns", "config"}}

Fail(s) ==
  /\ \/ s \in Initializing /\ Initializing # {s}
     \/ pc[s] = "tmpclone" /\ bareDir # "repo"
     \/ pc[s] = "commit" /\ ~MayBranchOff(s)
     \/ pc[s] = "push" /\ ~(bare[branch] \subseteq tmp[s])
     \/ pc[s] = "clone" /\ workDir # "missing"
     \/ pc[s] = "fetch" /\ workDir # "repo"
     \/ pc[s] = "reset" /\ (workDir # "repo" \/ origin[branch] = {})
  /\ tmp' = [tmp EXCEPT ![s] = {}]
  /\ Goto(s, "down") /\ UNCHANGED repos

Kill(s) ==
  /\ s \in Starting /\ kills < MaxKills
  /\ "torn" \in Env \/ pc[s] \notin {"initRuns", "cloneRuns"}
  /\ kills' = kills + 1
  /\ pc' = [pc EXCEPT ![s] = "down"] /\ tmp' = [tmp EXCEPT ![s] = {}]
  /\ UNCHANGED <<branch, repos, writing, saved, disturbed>>

Stop(s) == pc[s] = "up" /\ Goto(s, "down") /\ UNCHANGED <<repos, tmp>>

EnsureRegistry(s) ==
  \/ CheckBare(s) \/ InitDirectory(s) \/ gitInitBare(s) \/ SetIdentity(s)
  \/ CheckBranch(s) \/ gitCloneNoCheckout(s) \/ BootstrapCommit(s) \/ gitPushSetUpstream(s)
  \/ CheckWorktree(s) \/ CloneDirectory(s) \/ gitClone(s) \/ CloneFails(s)
  \/ gitFetch(s) \/ gitResetHard(s) \/ Fail(s)

----------------------------------------------------------------------------
(* The writers of sync.go, of which only the commit matters here.          *)

(* The bound Commit leaves one commit for a bootstrap to come.              *)
WriteCommit ==
  /\ writing = {} /\ workDir = "repo"
  /\ "overlap" \in Env \/ Starting = {}
  /\ GlobalIdentity \/ "worktree" \in identity
  /\ \E c, d \in Commit \ Reachable :
       c # d /\ local' = local \cup {c} /\ writing' = {c}
  /\ Disturbs("overlap", Starting # {})
  /\ UNCHANGED <<branch, bareDir, bare, workDir, current, origin, identity,
                 start, saved, kills>>

BugNoPush == saved' = saved \cup writing /\ UNCHANGED <<bare, origin>>

(* git push origin: the checked-out branch, to its namesake.               *)
PushCurrent ==
  /\ bare[current] \subseteq local
  /\ bare' = [bare EXCEPT ![current] = local]
  /\ origin' = [origin EXCEPT ![current] = local]
  /\ saved' = saved \cup writing

WritePush ==
  /\ writing # {} /\ workDir = "repo" /\ PushCurrent /\ writing' = {}
  /\ UNCHANGED <<branch, bareDir, workDir, current, local, identity, start,
                 disturbed, kills>>

(* The push is rejected, or the command dies: its commit stays.            *)
WriteFails ==
  /\ writing # {} /\ writing' = {}
  /\ UNCHANGED <<branch, repos, start, saved, disturbed, kills>>

Reconfigure ==
  /\ "reconfigure" \in Env
  /\ \A s \in Server : pc[s] = "down"
  /\ writing = {}
  /\ branch' \in Branch \ {branch}
  /\ Disturbs("reconfigure", TRUE)
  /\ UNCHANGED <<repos, start, writing, saved, kills>>

Next ==
  \/ \E s \in Server : StartServer(s) \/ EnsureRegistry(s) \/ Kill(s) \/ Stop(s)
  \/ WriteCommit \/ WritePush \/ WriteFails
  \/ Reconfigure

Spec == Init /\ [][Next]_vars

(* A start that has begun runs on, and whoever starts the server does so   *)
(* again after it has stopped.                                             *)
FairSpec ==
  Spec /\ \A s \in Server : WF_vars(EnsureRegistry(s)) /\ WF_vars(StartServer(s))

----------------------------------------------------------------------------
(* Properties.                                                             *)

(* "EnsureRegistry guarantees the system registry is in a consistent,      *)
(* readable state before the rest of the application starts"               *)
(* (registry.go:50): while a server is up the worktree holds all of the    *)
(* configured branch, so that it can be read and added to, whatever other  *)
(* starts and commands do; unless the configured branch was changed, or a  *)
(* start has got into the directory that another was cloning into.         *)
UpIsReadable ==
  disturbed \cap {"reconfigure", "share"} = {} /\ (\E s \in Server : pc[s] = "up")
    => workDir = "repo" /\ bare[branch] # {} /\ bare[branch] \subseteq local

(* The same without that proviso: two starts that find no worktree never   *)
(* end with one of them up and without a worktree.                         *)
StartsReadable == (\E s \in Server : pc[s] = "up") => workDir = "repo"

(* What a command has reported as saved is on the configured branch of the *)
(* authoritative repository, and no bootstrap, sync or crash drops it,     *)
(* unless a command has ever written while a server started, the branch    *)
(* was changed, or two starts have met in one new worktree.                *)
SavedStaysOnBranch == disturbed = {} => saved \subseteq bare[branch]

(* "Bare repo exists but has no commits (e.g. previous run crashed)"       *)
(* (registry.go:54): however often starts were killed, or lost a race for  *)
(* a directory, a later one gets the server up; unless two have met in one *)
(* new worktree, of which half can stay.                                   *)
Recovers == []<>((\E s \in Server : pc[s] = "up") \/ "share" \in disturbed)

(* "Branch is the branch name used for the registry worktree"              *)
(* (config.go:70): what a command reports as saved, while a server runs    *)
(* that has been started with that branch, is on it.                       *)
WritesReachBranch ==
  [][(\E s \in Server : pc[s] = "up") => (saved' \ saved) \subseteq bare'[branch]]_vars

(* "This avoids "Please tell me who you are" errors in environments        *)
(* without a global git config present" (registry.go:68).                  *)
UpCanCommit ==
  (\E s \in Server : pc[s] = "up") => GlobalIdentity \/ "worktree" \in identity
=============================================================================
