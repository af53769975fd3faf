---------------------------- MODULE GitRegistry ----------------------------
(***************************************************************************)
(* The CertificateAuthority directory of the system registry, as the four  *)
(* trees that git keeps of it: the files of data/registry/worktree, the    *)
(* index and the HEAD commit of that worktree, and the branch of the bare  *)
(* repository data/registry/system.git, which is the authoritative copy.   *)
(* Source: internal/registry/git.go and the file reads and writes of       *)
(* internal/registry/sync.go.                                              *)
(*                                                                         *)
(* Definitions named Bug... are mutated forms of the one that follows;     *)
(* each breaks a property, which shows that the property says something.   *)
(*                                                                         *)
(* A file is abstracted to what the program can tell apart in it:          *)
(*   Absent   the file does not exist (in that tree)                       *)
(*   Blank    it exists and is empty: os.WriteFile truncates, then writes  *)
(*   Live     {uuid}.yaml, the full record of a CA, revoked: false         *)
(*   Revoked  {uuid}.yaml, the full record of a CA, revoked: true          *)
(*   Husk     {uuid}.yaml written back from a Blank one by a revocation:   *)
(*            revoked: true and every other field, uuid included, empty    *)
(* and ActiveCA.yaml to the UUID it names, or Absent or Blank.             *)
(*                                                                         *)
(* The worktree is the only client that pushes to the bare repository, so  *)
(* a push is always a fast-forward and the remote-tracking branch equals   *)
(* the bare one; histories are therefore abstracted to their last trees.   *)
(***************************************************************************)
EXTENDS Naturals

CONSTANT CA            \* the UUIDs of certificate authorities

ActiveCA == "ActiveCA.yaml"
NoCA     == ""         \* the empty UUID: none, and what a blank file parses to

Absent  == "absent"
Blank   == "blank"
Live    == "live"
Revoked == "revoked"
Husk    == "husk"

Record  == {Live, Revoked, Husk}
File    == CA \cup {ActiveCA}
Content == CA \cup Record \cup {Absent, Blank}

(* UUIDs are fresh random names: none is a file name or a content marker.  *)
ASSUME CAAssumption ==
  CA \cap {ActiveCA, NoCA, Absent, Blank, Live, Revoked, Husk} = {}

VARIABLES
  work,     \* the files of the worktree
  index,    \* the worktree's index: what the next commit holds
  head,     \* the last commit of the worktree's branch
  bare      \* the last commit of the branch of the bare repository

trees == <<work, index, head, bare>>

GitTypeOK == /\ work  \in [File -> Content]
             /\ index \in [File -> Content]
             /\ head  \in [File -> Content]
             /\ bare  \in [File -> Content]

(* A registry bootstrapped by EnsureRegistry: no CA yet.                   *)
NoFiles == [f \in File |-> Absent]
GitInit == work = NoFiles /\ index = NoFiles /\ head = NoFiles /\ bare = NoFiles

----------------------------------------------------------------------------
(* What the readers of sync.go find in a tree.                             *)

(* GetActiveCAUUID: "" for a missing and for an empty ActiveCA.yaml.       *)
ActiveOf(t) == IF t[ActiveCA] \in CA THEN t[ActiveCA] ELSE NoCA

(* The uuid field of the record in u's file.                               *)
UuidOf(t, u) == IF t[u] \in {Live, Revoked} THEN u ELSE NoCA

(* ListCAMetadata: one entry per {uuid}.yaml that exists, tracked or not;  *)
(* an empty or a husk file parses without error, with an empty UUID.       *)
Listing(t) == {[uuid |-> UuidOf(t, u), revoked |-> t[u] \in {Revoked, Husk}] :
                 u \in {v \in CA : t[v] # Absent}}

BugToggle(c) == IF c = Live THEN Revoked ELSE IF c = Revoked THEN Live ELSE Husk

(* The read and update half of RevokeCAMetadata: what it will write back.  *)
RevokedForm(c) == IF c \in {Live, Revoked} THEN Revoked ELSE Husk

----------------------------------------------------------------------------
(* Writing a file is opening it with O_TRUNC and then writing its bytes.   *)
Truncate(f)     == /\ work' = [work EXCEPT ![f] = Blank]
                   /\ UNCHANGED <<index, head, bare>>
WriteFile(f, c) == /\ work' = [work EXCEPT ![f] = c]
                   /\ UNCHANGED <<index, head, bare>>

BugAddActiveOnly(f) == /\ index' = IF f = ActiveCA THEN [index EXCEPT ![f] = work[f]]
                                                    ELSE index
                       /\ UNCHANGED <<work, head, bare>>

(* git add <file>: fails when neither the worktree nor the index has it.   *)
gitAdd(f) == /\ work[f] # Absent \/ index[f] # Absent
             /\ index' = [index EXCEPT ![f] = work[f]]
             /\ UNCHANGED <<work, head, bare>>

(* git commit --allow-empty: succeeds also when nothing is staged.         *)
gitCommit == head' = index /\ UNCHANGED <<work, index, bare>>

BugPushNothing == UNCHANGED trees

(* git push origin.                                                        *)
gitPush == bare' = head /\ UNCHANGED <<work, index, head>>

(* git fetch; git reset --hard origin/<branch>: tracked files become those *)
(* of the bare branch, and files neither tree knows of are left in place.  *)
gitResetHard ==
  /\ work' = [f \in File |-> IF bare[f] = Absent /\ index[f] = Absent
                             THEN work[f] ELSE bare[f]]
  /\ index' = bare
  /\ head' = bare
  /\ UNCHANGED bare

=============================================================================
