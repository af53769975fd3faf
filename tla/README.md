# SourceVault: TLA+ models, model checking and proofs

SourceVault (`src/`) is a Go server and command line for federated code
hosting. What it does so far is to keep SSH certificate authorities (CAs): it
generates their keys, records them in a Git repository (the *registry*), caches
that in SQLite, and signs certificates with the CA key that an operator has
unsealed into the server's memory. These modules model that: what is on disk, in
Git and in the database while commands and servers run, crash and overlap, what
is in memory while RPC calls interleave, how server processes come and go, and
the pure functions at the edges.

## 1. Inventory

| Component | State | Operations | Interacts with |
|---|---|---|---|
| registry files, `internal/registry/sync.go` | `CertificateAuthority/{uuid}.yaml`, `ActiveCA.yaml` in `data/registry/worktree` | `SaveCAMetadata`, `SetActiveCA`, `RevokeCAMetadata`; `GetActiveCAUUID`, `GetActiveCA`, `ListCAMetadata` | git wrapper; read by commands, server start, RPC `Sign` |
| git wrapper, `internal/registry/git.go` | index, commits, `system.git` | `gitAdd`, `gitCommit`, `gitPush`, `gitFetch`, `gitResetHard`, clones | git processes |
| registry bootstrap, `internal/registry/registry.go` | `data/registry/system.git` and `worktree` as a whole | `EnsureRegistry`, `bootstrapInitialCommit` | run by every server start |
| CA bootstrap, `internal/crypto/bootstrap.go` | key files `data/ca/{uuid}`, `.pub` | `EnsureCA`, `ForceCreateCA`, `restoreCA` | registry, database, signer |
| CA database cache, `internal/db/ca.go` | table `certificate_authorities` | `UpsertCA`, `GetActiveCA`, `GetCAByUUID` | filled by create and by start; read only to restore key files |
| CA commands, `cmd/sourcevault/ca.go` | none of their own; each is a process | create, rotate, revoke, unseal, seal, status, sign | all of the above; the server by RPC, or their own signer without one |
| CA signer, `internal/crypto/signer.go` | `mu`, `activeSigner`, `caPath` | `UnsealFromPath`, `Seal`, `IsUnsealed`, `CAPath`, `Sign` | called concurrently by net/rpc |
| RPC service, `internal/rpc/ca.go` | the socket | `Status`, `Unseal`, `Seal`, `Sign`, `StartServer`, `GetClient` | signer, registry |
| server start, `cmd/sourcevault/start.go` | the order of the above, an errgroup, a context | start, signals, shutdown | everything |
| HTTP servers, `internal/web/web.go`, `internal/metrics/metrics.go` | a port each | `Run`; stateless handlers | the errgroup and its context |
| schema, `internal/db/migrations.go`, and connection, `internal/db/db.go` | `schema_migrations` | `RunMigrations`, `Initialize` | every start, create and rotate |
| configuration, `internal/config/config.go` | none | `Load`, `sanitize` | every command, first of all; the paths of everything above |
| durations, `internal/crypto/cert.go` | none | `ParseHumanDuration` | `--valid-for` of create and sign |
| revocation lists, `internal/crypto/krl.go` | none | `GenerateKRL` | nobody calls it yet; the serials are those of `Sign` |
| key generation, logging, version, help | none | pure functions and I/O | |

What is hard about it:

* **Many processes, one worktree.** Every command is a process that runs `git
  add`, `git commit` and `git push` in the same worktree, without a lock, and
  every server start resets that worktree.
* **Long writes without a transaction.** A creation is two key files, a record,
  a pointer to it, and a cache row; a rotation is that and a revocation. It can
  stop after any of some twenty steps.
* **Three copies.** Registry, database and key files are meant to restore one
  another.
* **Check, then create.** A start asks with `os.Stat` whether a directory is
  there and only later runs the git command that makes it; another start can be
  anywhere in between.
* **Names shared by processes.** A socket file and two ports, which a new server
  takes, fails to take, or takes away, and which an old one removes when it ends
  or leaves behind when it is killed.
* **Concurrent calls** on one lock with two fields, and checks against the
  registry of something that is in memory.

What makes each component correct: the published registry only grows and only
revokes; the active CA always has its record and its key; caching and restoring
never mix up two CAs; a rotation keeps a valid CA; the signer behaves as one
atomic slot; a sealed or expired CA does not sign; a start always gets the
registry and the key back; the recorded version is the schema; a server that is
alone is found, and one that is told to stop stops; a validity that fits is
kept; what was issued can be revoked; commands agree on where the files are. `PROJECT.json` lists the hazards one by one, with
the properties that cover them.

## 2. Modules

| Module | Models | Variables and actions |
|---|---|---|
| `GitRegistry` | the four trees git keeps of `CertificateAuthority/` | `work`, `index`, `head`, `bare`; one operator for each git command of `git.go`, and the readers of `sync.go` |
| `CALifecycle` (extends it) | create, rotate, revoke (processes `Cli`), and the start of the server from `EnsureRegistry` to `EnsureCA` | `priv`, `pub` are the key files, `dbRows`, `dbActive`, `dbRevoked` the table, `phase` and `step` where each command is, `pc` where the start is; one action per file write, git command and SQL statement, `Abort` and `ServerStops` for every error return and kill |
| `CALedger` | *abstract*: what readers of the bare repository may rely on | `record`, `active`; `Publish` |
| `RegistryBootstrap` | `EnsureRegistry` from nothing on, several starts at once; commands only as commit and push | `bareDir`, `bare`, `workDir`, `current`, `local`, `origin`; `os.Stat` and the git command it leads to are actions of their own, `git init` and `git clone` one for the directory and one for the rest (`InitDirectory`, `gitInitBare`; `CloneDirectory`, `gitClone` or `CloneFails`) |
| `RWMutex` | Go's `sync.RWMutex` (external), with its two-step `Lock` | `owner`, `writing`, `readers`, `blocked` |
| `CAService` (extends it) | `CASigner`, the RPC methods, the commands unseal, seal, status and sign with their local fallback, restarts | `activeSigner`, `caPath`, the registry's `active` and `expired`, and of each call its next step and what it has read |
| `AtomicSigner` | *abstract*: a slot that is loaded, cleared and read in single steps | `loaded`, `seen` |
| `Migrations` | `RunMigrations` statement by statement, in any number of processes on one SQLite file | `applied` and `schema` are the rows and their effects, `writer` SQLite's write lock, `phase`, `version`, `currentVersion`, `executed` each process; one action per statement, `Busy`, `InsertConflicts`, `Kill` |
| `ServiceLifecycle` (extends it) | the life of a server process after the migrations: socket file, RPC listener, the goroutine that closes it, the web and metrics servers in their errgroup, signals, the end | `socket`, `port`, `listening`, `main`, `closer`, `service`, `cancelled`; one action per system call or goroutine step |
| `Validity` | `ParseHumanDuration`, the days of a CA, the lifetime of a certificate, in wrapping integers | operators |
| `KRL` | the serial of a certificate, `GenerateKRL`, and a reader of its format | operators |
| `Config` | `Load` and `sanitize`, and what uses the paths: the directories of a start, the database file, the log file | operators |
| `CALifecycleProofs`, `CARotationProofs`, `CARestoreProofs` (each extends the one before) | theorems about `CALifecycle` | |
| `CAServiceProofs`, `RegistryBootstrapProofs`, `ServiceLifecycleProofs` | theorems about the module they are named after | |
| `FunctionsProofs`, `KRLProofs` | theorems about `Validity`, `Config` and `KRL`, and about the runs of `MCFunctions` | |
| `MC...` | symmetry sets for TLC; in `MCFunctions` the inputs of the pure functions | |

`ServiceLifecycle` composes with the others by time: its processes are the
servers of `CALifecycle` (whose `StartServer` to the end of `EnsureCA` lies
between its `Start` and `RemoveSocket`) and its set `listening` is the server
that the calls of `CAService` do or do not reach.

Conventions. Actions and operators have the names of the functions they model;
the map in `PROJECT.json` gives the lines. Which part of the environment is at
work is the constant `Env` (in `CALifecycle`: `torn`, kills inside a file write;
`concurrent`, commands at the same time; `overlap`, commands and a start at the
same time; `dbfail`, failing SQL; `wipe`, loss of `data/ca`); properties that hold only without one of them are checked, and
proved, without it, and the README says so. In `RegistryBootstrap` and
`ServiceLifecycle` the proviso is part of the property instead: a history
variable records that the branch was changed, a start overlapped a write, or two
starts met in one new worktree (`disturbed`), or that a server was not the only one when it began (`alone`).
Kills *between* steps are always
possible. Operators named `Bug...` are mutated copies of the operator below them,
the bugs a change could bring in: with each of them in place of the original
some property fails.

Abstractions that matter:

* A record is `Live`, `Revoked`, `Blank` (an empty file) or `Husk` (what a
  revocation makes of an empty file); an empty YAML file parses without error,
  so `GetActiveCAUUID` and `ListCAMetadata` return an empty UUID for it.
* A key file holds the UUID its key was made for. A database row's key columns
  are never updated (`ON CONFLICT` leaves them), so row *u* holds the key of
  *u*.
* git histories are their last trees in `CALifecycle`: the worktree is the only
  client that pushes, so pushes are fast-forwards. `RegistryBootstrap` does not
  assume that; there a branch is the set of its commits and a push is rejected
  unless the remote's are among them.
* What git does with a directory that two starts fill at once is modelled from
  git's behaviour (observed with 2.39). `git init` on a repository is harmless;
  two of them, or one and a `git config` of the other start, can collide on a
  template or lock file, and one then fails, removing nothing. `git clone`
  refuses a directory that is not empty, and so does `git fetch` one that is not
  yet a repository: the normal outcome of two starts that both find no worktree
  is that one of them fails. There are two short windows, before `git clone` has
  made `.git` for another clone, and after it for a fetch, in which the second
  start gets in: `workDir` is then `"shared"`, anything can come of the two
  commands, and a clone that fails removes the directory, also one that the
  other start has by then gone up with. These windows are `share` in `Env`, and in
  `disturbed` once they were hit.
* The environment file is looked up on a disk with one such file, in one working
  directory, in the other, or where `CONFIG_FILE` can say: what `Load` depends on
  besides the environment.
* Key generation, the two `os.WriteFile` of the key files and the UUID are one
  step of `ForceCreateCA`: nobody knows the name of those files before the
  record is written.
* There is one server in `CALifecycle` and `CAService`; several are in
  `RegistryBootstrap` and `ServiceLifecycle`.
* A migration is its number. That it is `CREATE TABLE IF NOT EXISTS`, and so
  takes no lock when the table is there, is kept. There is one migration so
  far; `Latest` is any number.
* The end of a process is one step with the return of its main goroutine: the
  other goroutines have run as far as they have. A command that runs the
  migrations is a process that ends after them.
* An hour is `Hour` units and an integer has `Half` values of each sign: years,
  months and weeks keep their number of hours, and overflow after a few years
  instead of 292. Seconds and minutes take the way of hours.
* Paths are sequences of elements; there is one setting of each kind that `Load`
  treats in its own way.

## 3. Runs

The longest takes a minute and a half. Deadlock is checked in all of them (of
the additional ones `f_rotate` and `f_branch` use up their UUIDs or commits while
nothing else is to be done).

| Run | Bounds | Shows |
|---|---|---|
| `sequential` | 2 CAs, 1 command at a time, all commands and starts, `wipe`, fairness | `TypeOK`, `KeyFileHoldsOwnKey`, `CacheMatchesRegistry`, `RunningHasKey`, refinement `ImplementsLedger`, `StartRestoresKey`; kills between any two steps |
| `crashes` | 4 CAs, 1 command, create, rotate and starts, `torn`, `wipe` | `SavedIsPublished`, `ActiveIsRecorded`, `KeyFileHoldsOwnKey`, `CacheMatchesRegistry`, `ValidCAStays` over chains of rotations and restorations that leave half-written files |
| `overlap` | 2 CAs, 2 commands at once (`concurrent`), starts between them, `dbfail` | `SavedIsPublished`, `ActiveIsRecorded`, `ActiveHasKey`, `RevocationIsFinal` and the refinement, under every interleaving of two commands |
| `service` | 3 calls of all commands, 2 CAs, rotations, restarts | `TypeOK`, `PathMatchesSigner`, `SealedSignFails`, refinement `ImplementsSlot` |
| `expiry` | 3 calls of unseal and sign, 1 CA, expiry, restarts, fairness | `ExpiredNeverSigns` while the active CA does not change; `CallsEnd` |
| `bootstrap` | 2 starts, 3 commits, 2 branches, 2 kills, commands overlapping the starts, changes of the branch, starts meeting in a new worktree, fairness | `TypeOK`, `UpIsReadable`, `SavedStaysOnBranch`, `Recovers` |
| `lifecycle` | 2 servers, 2 migrations, both HTTP servers, 2 kills, fairness | `TypeOK`, `SchemaIsVersioned`, `DoneHasSchema`, `RetrySucceeds`, `AloneIsReachable`, `AloneStarts`, `ShutdownEnds` |
| `functions` | durations on both sides of every limit; lists of up to 3 of 6 random numbers; 8 variables absent, empty, usual or odd, in the environment and in a file that is in the one working directory, the other, or neither | `DaysAreKept`, `LifetimeIsKept`, `SerialsAreRevoked`, `IssuedIsRevocable`, `FilesAreTheSame`, `BareNameHasDirectory` |

What the conditions are for. `crashes` has no revocations: with `torn` a record
can be left empty, a revocation then publishes a husk of it (`f_husk`), the
database never learns the UUID, and a restoration takes the key of the CA before
(`KeyFileHoldsOwnKey` fails, as in `f_wrongkey`). `UpIsReadable` says
nothing once the branch was changed: with a writer at the same time the late
bootstrap of one server, on top of a write that went to the old branch, would be
a fast-forward of the new one under the other server's feet. Nor once two starts
have met in one new worktree, which the loser can then remove: configuration
`f_clone`. `Recovers` stops there too, as what stays may be neither a repository
nor nothing; both starts are still free to find no repository and no worktree,
to run `git init` and `git clone` for the same directory, and to fail. It
is checked with kills between git commands and not inside of them: `f_torn`.
`SavedStaysOnBranch` stops at all of these, and at a write that overlaps a start
(`f_save`). `FilesAreTheSame` needs an environment file that cannot differ: see
`f_cwd`. `AloneIsReachable` and `AloneStarts` need a server that is alone
from its start on: `f_socket` shows what a second one does.

Why the bounds are enough. Two CAs are an old and a new one, the only relation
the properties tell apart; a chain of rotations needs a third and a fourth. Two
commands are enough for every pairwise interleaving, and a third would only
meet the same shared trees. Three calls are a
writer, a reader inside and a reader turned away. Two starts are the winner and
the loser of a bootstrap; two kills let both be killed, or one twice. `MaxKills`
and `Commit` bound `RegistryBootstrap`, where writes leave one commit for a
bootstrap to come (`MCRegistryBootstrap_large.cfg` has one more, without `share`,
and takes minutes); the CA set bounds `CALifecycle`, as every creation uses one. Two server processes are all that a socket file and
a port can be contended by at a time, as each is held by at most one; two
migrations have a gap between them, and `MaxKills` allows a kill in each. In
`functions` the limits are `Half`, its double, and each divided by every unit;
three serials are a zero, and one before and after it.

Fairness. `sequential`: a start that has begun takes its next step; it is one
goroutine, and may stop at any time all the same; nothing is assumed of
commands. `bootstrap`: likewise (a git command ends, be it with an error), and who
starts the server starts it again after it has stopped (a service manager, an
operator); kills are bounded. `expiry`:
goroutines that can run do; getting the writers' inner mutex is strongly fair,
as `sync.Mutex` hands itself to its longest waiter in starvation mode.
`lifecycle`: weak fairness of each goroutine of a server, and of starting a
server that has ended; nobody has to send a signal, and kills are bounded. That
is enough for `RetrySucceeds`, since whoever loses a race leaves something
applied that nobody has to apply again.

### Findings

Four runs check one sentence each of the documentation or of a comment, and TLC
shows a behaviour of the code that breaks it:

| Run | The code says | What happens |
|---|---|---|
| `f_save` | sync.go:182 "commits the change" | a start resets the worktree between commit and push; the push has nothing to do and succeeds |
| `f_wrongkey` | TODO.md:93 "restore the active CA" | after a failed upsert another CA's key is restored in its file |
| `f_expired` | rpc/ca.go:114 "the CA being used for signing" | the check is of the active CA, not of the loaded one |
| `f_socket` | start.go:149 "to talk to the running server" | a second start takes the socket file, fails on the ports and removes the file; the first server is not found any more |

Configurations beside these runs (`tlc -config MC<module>_<name>.cfg`) show
further sentences that the code does not keep:

| Configuration | Property | The code says | What happens |
|---|---|---|---|
| `CALifecycle_f_rotate` | `ValidCAStays` | ca.go:252 "never left without a valid CA" | overlapping rotations leave a revoked CA active |
| `CALifecycle_f_sync` | `SyncMatchesBare` | registry.go:97 "exactly match the bare repo" | untracked records of killed creations survive, and are cached |
| `CALifecycle_f_husk` | `RevokeKeepsRecord` | sync.go:215 "marks a CA as revoked" | revoking a record that a kill left empty publishes an empty record |
| `CALifecycle_f_noca` | `StartedHasCA` | start.go:138 "force-create a new one" | a start on an empty registry creates none |
| `CALifecycle_f_cache` | `WritesReachCache` | TODO.md:71 "registry first, then DB" | revocations do not reach the database |
| `CALifecycle_f_pair` | `StartedHasKeyPair` | bootstrap.go:44 "in sync" | a missing public key file is never noticed |
| `RegistryBootstrap_f_torn` | `Recovers` | registry.go:54 "previous run crashed" | a kill inside `git init` or `git clone` is never recovered from |
| `RegistryBootstrap_f_branch` | `WritesReachBranch` | config.go:70 "used for the registry worktree" | after a change of branch, writes go to the old branch and are then dropped |
| `RegistryBootstrap_f_identity` | `UpCanCommit` | registry.go:67 "for all automated commits" | the identity is not set where commits are made |
| `RegistryBootstrap_f_clone` | `StartsReadable` | registry.go:50 "in a consistent, readable state" | a start syncs in the directory another is cloning into and goes up; that clone fails and removes it |
| `CAService_f_status` | `StatusIsConsistent` | rpc/ca.go:58 "status and path" | half of a seal or unseal is reported |
| `Functions_f_validity` | `CreatedIsAsked` | ca.go:446 "e.g. 1y, 2M, 30d, 12h" | a validity below a day becomes none: the CA has expired when it is created |
| `Functions_f_overflow` | `ParsedIsDocumented` | cert.go:68 "y: years (365d)" | what does not fit 64 bits of nanoseconds wraps around without an error |
| `Functions_f_rotateflags` | `RotatedIsAsked` | ca.go:456 "Validity period for the new CA" | `ca rotate` runs create on the flags of create; its own are never read |
| `Functions_f_dsn` | `DSNIsSanitized` | db.go:47 "already sanitized to an absolute path" | sanitize compares the driver exactly, Initialize in lower case: with `SQLite3` the path stays relative |
| `Functions_f_logfile` | `LogOpensAfterStart` | sourcevault.env.sample:9 and its example `logs/sourcevault.log` | nobody creates that directory; every command exits when it opens the log |
| `Functions_f_cwd` | `CommandsFindServer` | start.go:149 "to talk to the running server" | `sourcevault.env` is looked up in the working directory: elsewhere a command looks for another socket |
| `Functions_f_defaults` | `DefaultsAreDocumented` | README.md:51 `INFO`, README.md:53 `false` | `Load` starts from `ERROR` and `true` |

`CALifecycle_overlapstart` (passes) lets two commands and a start interleave and
checks `ActiveHasKey` and `RevocationIsFinal`, which are also proved for that.

## 4. Proofs

TLAPS checks these for every value of the constants.

`CALifecycleProofs`. `TypeCorrect` rests on `TypeInv`, which strengthens
`TypeOK` by what a command in each phase must have in `new` and `old` (`CmdOK`),
without which `Subject` and `Payload` are not known to be a file and its
content. `HistoryInv` (without `torn`) adds that the four trees are ordered:
for every CA, bare, head, index and work hold states of which each is at most
the next (absent, live, revoked), up to what a reset drops; `PushOrUnchanged`
then says that the bare tree changes only by a push, and
`RevocationIsFinalTheorem` follows. `KeyInv` (without `wipe`) gives
`ActiveHasKeyTheorem`: every UUID that any tree or any command may still make
active has its private key file; no restoration ever finds that file missing,
hence none writes it. `PublishInv` needs only that no start overlaps a command:
truncated files, revocations and any number of concurrent commands are allowed.
`Quiet` says that no command is under way while a start resets the worktree;
`Grown` that a record which is in one tree is in every later one, in whatever
state; `Saved` what a command has already staged, committed and pushed; and
`NamesPublished` that each tree names only an active CA whose record is published. From
it come `SavedIsPublishedTheorem`, `ActiveIsRecordedTheorem` and
`SaveIsCommittedTheorem`. It is about records being there, not about what is in
them, which is why a truncated file does no harm. `ActiveInv` (without `torn`)
adds that no tree holds a truncated `ActiveCA.yaml` and that a later tree does not
lose the active CA; with `HistoryInv` it gives the step simulation behind
`ImplementsLedgerTheorem`.

Two of these theorems are the other side of findings: `SaveIsCommittedTheorem`
shows that `f_save` needs a start that overlaps a command, and
`RevokeKeepsRecordTheorem` that `CALifecycle_f_husk` needs a truncated file. The
same can be said of `f_wrongkey` (`KeyFileHoldsOwnKeyTheorem`),
`f_expired` (`ExpiredNeverSignsTheorem`), `f_socket` (`AloneIsReachableTheorem`),
`CALifecycle_f_rotate` (`ValidCAStaysTheorem`), `RegistryBootstrap_f_torn`
(`LeftoversAreWholeTheorem`), `RegistryBootstrap_f_branch`
(`SavedStaysOnBranchTheorem`), `RegistryBootstrap_f_clone` (`UpIsReadableTheorem`)
and `Functions_f_cwd` (`SameFilesTheorem`), each with its hypotheses below.

`CARotationProofs`. What the order of `ca rotate` buys (save, make active, only
then revoke): `ValidCAStaysTheorem`. It assumes one command
at a time and no `ca revoke` by hand (`OneAtATime`); kills at any step, files
left truncated, failing SQL, lost key files and restarts of the server between
commands are allowed, and the number of CAs is any. `f_rotate` shows that two
overlapping rotations do break `ValidCAStays`, and a revocation of the active CA
is meant to. The invariant, `RotationInv`: whatever CA one tree names as active,
*every* tree holds its whole record (`ActiveLive`), so neither a reset nor the
push of what an earlier, killed command has left can bring back a tree without it; a
later tree does not lose the active CA (`ActiveKept`: only the worktree may have a
truncated `ActiveCA.yaml`); and `Progress` says what a command knows of its CA in
each phase: no tree names it while its record is being saved, every tree holds
the record while it is being made active, every tree names it from then on, and
the CA to be revoked is another one. `ValidCAStays` itself is not inductive: it
says nothing of the three trees that are not pushed yet.

With revocations and truncated files the branch does not implement `CALedger` as
`ImplementsLedger` maps it, since a revocation can publish a husk (`f_husk`). To
those who only ask for the status of a CA it still does: `StatusLedger` reads a
husk as the revoked record it stands for, and `ImplementsStatusLedger` shows
`Spec => StatusLedger!LedgerSpec` with every fault and every command allowed, one
command at a time. Its invariant is `PublishInv` with `StatusInv`: a record that
is dead in one tree, revoked or a husk, is dead in the later ones up to the index,
and none of these holds a truncated record (`Forward`); a command adds the file
that it has written itself, which for a revocation is a dead record, and nobody
has revoked the CA that it is about to save (`Written`).

`CARestoreProofs`. What a start leaves behind, if no command runs beside it
(`StartsAlone`: it reads the registry once and acts on that in a dozen steps) and
no SQL statement fails. `CacheInv` is the loop invariant of caching: each record
is still listed or already in its row, and no entry of the list is stale; it
gives `CacheMatchesRegistryTheorem`. `RowInv` adds that once the active CA is
cached its row is the only active one, rows that the registry does not know
included. Hence, in `RestoreInv`, the key that is restored is that of the CA the
file is named after: `KeyFileHoldsOwnKeyTheorem`. It needs that the CA a start
finds active has its record (`ActiveFound`), which follows from `LedgerInv`
without truncated files and from `RotationInv` with them; `Recording` is the
disjunction. That hypothesis is needed: with truncated files and `ca revoke` two
CAs and one command at a time are enough for TLC to find a wrong key
restored (as in `f_husk`), and `f_wrongkey` shows that failing SQL is enough too.
With truncated files and concurrent rotations it takes six CAs and three
processes, too many for a breadth-first search, but TLC follows the schedule: two
processes have saved *u* and *y*, and *y* is active too; two rotations name *u*, the
first killed in its truncation, the second making a husk of it, and two more do
the same to *y*; then *y* is cached, *u* is made active, `data/ca` is lost, and
a start, which no entry of the list tells that *y* is not active, restores the key
of *y* as that of *u*.
`RunningInv` (no truncated files either) says that a key file is absent or whole,
so that the check for its existence is one of its content:
`RunningHasKeyTheorem`, with any number of concurrent commands before the start.
`RestoresOwnRowTheorem` is what `StartRestoresKey` rests on: a start that gets to
looking for a backup always finds one row, that of the CA it is to restore.

`CAServiceProofs`. `LockInv` relates the lock's variables to where each call is:
who owns the mutex is in the writers' section, who is inside as a reader is at a
read, and nobody reads while someone writes; hence the two fields agree outside
of that section. `ServiceTypeCorrect` and `PathMatchesSignerTheorem` follow,
`ImplementsSlotTheorem` is its step simulation (the slot changes where `caPath`
is assigned; a read looks at it), and `SealedInv` gives
`SealedSignFailsTheorem`. `ExpiredNeverSignsTheorem` assumes that no rotation
changes the active CA (`"rotate" \notin Env`; with one, the run `f_expired`
violates the property): `SingleKey` says that every key loaded or carried by a
call is then that of the active CA, and `BeganValid` that a call of Sign past its
check began before that CA expired. `HolderRunsTheorem` is what `CallsEnd` rests
on, for any number of calls: whoever waits for the lock waits for a call that has
it and does not wait itself. `QueueInv` is the invariant: a reader that is turned
away is queued behind a writer (`blocked # {} => owner # Nobody`), the writer
waits only for readers that are already inside, and those go on to unlock.

`RegistryBootstrapProofs`. `BranchInv` holds until the configured branch
changes or two starts meet in one worktree, whatever is killed and whoever
writes: the other branches stay empty; a start past the bootstrap finds the branch
there; a `git clone` at work has the directory for itself (`OneClone`: the
starts that come to the clone later are refused), and does not fail; the root
commit in a temporary clone is in nobody else's history, so of two bootstraps only
the one that finds an empty branch can push; and a worktree that is a repository
has in `origin` what the bare repository has, and contains it.
`UpIsReadableTheorem` follows. `SavedInv` (until a write overlaps a start, too)
adds that the commit about to be pushed is still in the worktree, as no reset runs
meanwhile: `SavedStaysOnBranchTheorem`. Neither theorem assumes anything of `Env`:
the provisos are in the properties, and `DisturbedStays` carries them from step to
step. What `Recovers` rests on: `BranchIsThereTheorem` (a clone or a reset never
fails for want of the branch, whatever anyone does, changes of the branch and
meetings in one worktree included) and `LeftoversAreWholeTheorem` (a half-filled
directory is there no longer than the one git command that fills it, so that the
next start finds a repository or nothing, unless two starts have met in it).
`OwnersKeep` is what makes that inductive: whoever configures a repository has
one, and only a meeting takes its directory from a clone. The theorem
needs `"torn" \notin Env`, which is what `RegistryBootstrap_f_torn` is about.

`ServiceLifecycleProofs`. `MigrationInv` says that for some *n* the versions
`1..n` are recorded and are the schema, that a process has passed only versions
up to *n*, and that whoever has the write lock is about to commit `n + 1`;
`NextMigrates` shows that every step of a server is one of the migrations or
leaves them alone, so that `SchemaIsVersionedTheorem` and `DoneHasSchemaTheorem`
hold of the composition. `ServerInv` says what a process that is down has left
(nothing but a socket file), how its main goroutine, its closing goroutine and
its HTTP servers go together, and, for one that has been alone, that nobody else
is there and the socket file is its own until its closing goroutine has run:
`ServiceTypeCorrect`, `AloneIsReachableTheorem`, `AloneStartsTheorem`.
`MigratesInOrderTheorem` is the action property behind the invariant: every step
that changes the schema applies the next migration and records it in the same
transaction. `AllOrNoneTheorem` is what `ShutdownEnds` rests on: while the
context of a server lives it has its listener and every one of its services, so
one that has lost any of them has been cancelled (`GroupInv`, as in the error
group of start.go).

`FunctionsProofs`. The pure functions for every input instead of the inputs of
`MCFunctions`. `KeepsDaysTheorem` and `KeepsLifetimeTheorem`: for integers of any
width, every number and unit, a validity that fits is what the certificate gets
(`WrapFits`: what fits is not changed by wrapping around; `WholeDays`: whole
days survive the division to days, also that of a negative validity, which is
on the absolute value; `KeepsLifetime` is of a time that fits, too). `SameFilesTheorem`
and `BareNameTheorem`: for every environment, any number of environment files on
the disk, whose values are texts over some alphabet `E`, and every working
directory. Which file is read depends on the working directory, so that
`SameFiles` says when this makes no difference (`SameLocations`): the path of
the file is absolute, there is none in either directory, or the environment has
all of the locations itself, be they empty.
`Sanitized` says what `Load` makes of each setting; the rest is about paths
(`AbsDSN`: a DSN is absolute when the root is; `FrontJoin`: the directory of a
joined path). `InputInv` carries them to the properties of the runs.

`KRLProofs`. `RevokesSerialsTheorem`: for every list of serials, of any length, the
reader accepts what `GenerateKRL` writes and finds in it the serials that are not
0 and nothing else; `RevokesIssuedTheorem`: hence every certificate that `Sign`
issued can be revoked. No induction is needed, because of how two things are
said: a length prefix is only ever compared with the same sum over the same
fields (`Strings`), and `validSerials` numbers the serials it keeps by how many of
them there are up to each (`Ranks`, by the pigeonhole principle), where the
recursive `SelectSeq` would be beyond the prover.

All invariants of the runs are theorems now, and so are the safety properties
that are not invariants (such as `ValidCAStays`, `RevocationIsFinal`, the refinements
`ImplementsLedger` and `ImplementsSlot`). Only model-checked, as the prover has no
means for it, is liveness: `StartRestoresKey`, `Recovers`, `CallsEnd`,
`ShutdownEnds`, `RetrySucceeds`. Proved of them is the safety they rest on, for
any number of actors: `RestoresOwnRow`, `BranchIsThere` with `LeftoversAreWhole`,
`HolderRuns`, `AllOrNone`, and for `RetrySucceeds` the invariant of the
migrations. The hypotheses of each theorem hold in the runs
that check its property, so that nothing is checked there beyond what is proved.

## 5. Not modelled

Key generation and policy stubs (pure calls of the crypto libraries), the text
handler of the log, the collector of metrics, web handlers, help and version:
pure functions, pure I/O or stateless. The content of certificates beyond key,
serial and lifetime. `GetCAByUUID`, which nothing calls. The RPC accept loop
beyond "listening" (when Accept keeps failing it spins, which changes no state).
SQLite's pragmas and the pool. Git transport and locking beyond "the command
fails": a command that cannot get `index.lock` is an `Abort`. The trimming of
spaces around durations and log levels.

## 6. Plan

1. Done: `GitRegistry`, `CALifecycle`, `CALedger`; `RWMutex`, `CAService`,
   `AtomicSigner`; `RegistryBootstrap`; `Migrations`, `ServiceLifecycle`;
   `Validity`, `KRL`, `Config`; the proofs above.
2. Proofs: done for every safety property of the runs, for what the liveness
   properties rest on, and for the limits of eight findings. Left: those of
   `CALifecycle_f_sync` (a command killed before it adds its file) and
   `CAService_f_status` (a call between the two reads of another). The other
   findings need neither a fault nor an overlap.
