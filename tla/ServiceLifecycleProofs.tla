----------------------- MODULE ServiceLifecycleProofs -----------------------
(***************************************************************************)
(* Theorems about ServiceLifecycle and the Migrations it runs, for any     *)
(* number of processes, migrations and services.                           *)
(***************************************************************************)
EXTENDS ServiceLifecycle, TLAPS

(***************************************************************************)
(* The migrations.  The versions recorded are 1..n for some n; no process  *)
(* is ahead of n by more than the version it is about to apply; and whoever*)
(* has the write lock is about to record n + 1, which it has executed.     *)
(***************************************************************************)
Progress(p, n) ==
  /\ currentVersion[p] <= n /\ version[p] <= n + 1
  /\ phase[p] \in {"exec", "insert", "commit"} => version[p] <= Latest
  /\ phase[p] = "done" => version[p] = Latest + 1

Transaction(p, n) ==
  /\ p \in writer => /\ phase[p] \in {"insert", "commit"}
                     /\ version[p] = n + 1
                     /\ executed[p] = {version[p]}
                     /\ writer = {p}
  /\ phase[p] = "insert" /\ p \notin writer => version[p] <= n
  /\ phase[p] = "commit" => p \in writer

AppliedUpTo(n) ==
  /\ applied = 1..n /\ schema = 1..n
  /\ \A p \in Process : Progress(p, n) /\ Transaction(p, n)

MigrationInv == MigrationTypeOK /\ \E n \in 0..Latest : AppliedUpTo(n)

LEMMA MaxUpTo == ASSUME NEW n \in Nat PROVE Max({0} \cup 1..n) = n
<1> DEFINE S == {0} \cup 1..n
<1>1. n \in S /\ \A y \in S : n >= y
  OBVIOUS
<1>2. Max(S) \in S /\ \A y \in S : Max(S) >= y
  BY <1>1 DEF Max
<1>3. Max(S) \in Nat
  BY <1>2
<1> QED
  BY <1>1, <1>2, <1>3

LEMMA MigrationInitInv == MigrationInit => MigrationInv
<1> SUFFICES ASSUME MigrationInit PROVE MigrationInv
  OBVIOUS
<1> USE MigrationAssumption DEF MigrationInit
<1>1. MigrationTypeOK
  <2>1. 1 \in 1..(Latest + 1) /\ 0 \in 0..Latest /\ 0 \in 0..MaxKills
    OBVIOUS
  <2> QED
    BY <2>1 DEF MigrationTypeOK, Phase
<1>2. AppliedUpTo(0)
  BY DEF AppliedUpTo, Progress, Transaction
<1> QED
  BY <1>1, <1>2 DEF MigrationInv

(* A process that ends leaves the committed state alone.                   *)
LEMMA ExitStep ==
  ASSUME MigrationInv, NEW p \in Process, Exit(p), kills' \in 0..MaxKills
  PROVE  MigrationInv'
<1> USE MigrationAssumption DEF MigrationTypeOK, Exit, Version, Phase
<1>1. PICK n \in 0..Latest : AppliedUpTo(n)
  BY DEF MigrationInv
<1>2. MigrationTypeOK'
  BY DEF MigrationInv
<1>3. AppliedUpTo(n)'
  BY <1>1 DEF MigrationInv, AppliedUpTo, Progress, Transaction
<1> QED
  BY <1>2, <1>3 DEF MigrationInv

LEMMA MigrationStep ==
  ASSUME MigrationInv, [MigrationNext]_migrationVars
  PROVE  MigrationInv'
<1> USE MigrationAssumption DEF MigrationTypeOK, Version, Phase, Goto, database, local
<1>0. MigrationTypeOK
  BY DEF MigrationInv
<1>n. PICK n \in 0..Latest : AppliedUpTo(n)
  BY DEF MigrationInv
<1> SUFFICES MigrationTypeOK' /\ \E m \in 0..Latest : AppliedUpTo(m)'
  BY DEF MigrationInv
<1>1. ASSUME NEW p \in Process, Begin(p) PROVE MigrationTypeOK' /\ AppliedUpTo(n)'
  BY <1>0, <1>n, <1>1 DEF Begin, AppliedUpTo, Progress, Transaction
<1>2. ASSUME NEW p \in Process, ensureMigrationsTable(p)
      PROVE  MigrationTypeOK' /\ AppliedUpTo(n)'
  BY <1>0, <1>n, <1>2 DEF ensureMigrationsTable, AppliedUpTo, Progress, Transaction
<1>3. ASSUME NEW p \in Process, ReadVersion(p) PROVE MigrationTypeOK' /\ AppliedUpTo(n)'
  <2>1. AppliedVersion = n
    BY <1>n, MaxUpTo DEF AppliedVersion, AppliedUpTo
  <2> QED
    BY <1>0, <1>n, <1>3, <2>1 DEF ReadVersion, AppliedUpTo, Progress, Transaction
<1>4. ASSUME NEW p \in Process, NextVersion(p) PROVE MigrationTypeOK' /\ AppliedUpTo(n)'
  <2>1. CASE AlreadyApplied(p)
    <3>1. /\ version' = [version EXCEPT ![p] = @ + 1] /\ phase' = [phase EXCEPT ![p] = "loop"]
          /\ phase[p] = "loop" /\ version[p] \in 1..Latest /\ version[p] <= n
          /\ UNCHANGED <<database, currentVersion, executed, kills>>
      BY <1>0, <1>n, <1>4, <2>1 DEF NextVersion, AlreadyApplied, AppliedUpTo, Progress
    <3>2. MigrationTypeOK'
      BY <1>0, <3>1
    <3>3. AppliedUpTo(n)'
      BY <1>0, <1>n, <3>1 DEF AppliedUpTo, Progress, Transaction
    <3> QED
      BY <3>2, <3>3
  <2>2. CASE ~AlreadyApplied(p)
    BY <1>0, <1>n, <1>4, <2>2 DEF NextVersion, AppliedUpTo, Progress, Transaction
  <2> QED
    BY <2>1, <2>2
<1>5. ASSUME NEW p \in Process, ExecMigration(p) PROVE MigrationTypeOK' /\ AppliedUpTo(n)'
  <2>1. CASE version[p] \in schema
    BY <1>0, <1>n, <1>5, <2>1 DEF ExecMigration, AppliedUpTo, Progress, Transaction
  <2>2. CASE version[p] \notin schema
    <3>1. version[p] = n + 1 /\ version[p] \in 1..Latest /\ writer \subseteq {p}
      BY <1>0, <1>n, <1>5, <2>2 DEF ExecMigration, CanWrite, AppliedUpTo, Progress
    <3>2. MigrationTypeOK'
      BY <1>0, <1>5, <2>2, <3>1 DEF ExecMigration
    <3>3. AppliedUpTo(n)'
      BY <1>0, <1>n, <1>5, <2>2, <3>1 DEF ExecMigration, AppliedUpTo, Progress, Transaction
    <3> QED
      BY <3>2, <3>3
  <2> QED
    BY <2>1, <2>2
<1>6. ASSUME NEW p \in Process, InsertVersion(p) PROVE MigrationTypeOK' /\ AppliedUpTo(n)'
  BY <1>0, <1>n, <1>6 DEF InsertVersion, CanWrite, AppliedUpTo, Progress, Transaction
<1>7. ASSUME NEW p \in Process, CommitMigration(p)
      PROVE  MigrationTypeOK' /\ n + 1 \in 0..Latest /\ AppliedUpTo(n + 1)'
  <2>1. /\ writer = {p} /\ executed[p] = {n + 1} /\ version[p] = n + 1
        /\ n + 1 \in 1..Latest
    BY <1>0, <1>n, <1>7 DEF CommitMigration, AppliedUpTo, Transaction, Progress
  <2>2. applied' = 1..(n + 1) /\ schema' = 1..(n + 1)
    BY <1>n, <1>7, <2>1 DEF CommitMigration, AppliedUpTo
  <2>3. MigrationTypeOK'
    BY <1>0, <1>7, <2>1, <2>2 DEF CommitMigration
  <2>4. \A q \in Process : Progress(q, n + 1)' /\ Transaction(q, n + 1)'
    BY <1>0, <1>n, <1>7, <2>1 DEF CommitMigration, AppliedUpTo, Progress, Transaction
  <2> QED
    BY <2>1, <2>2, <2>3, <2>4 DEF AppliedUpTo
<1>8. ASSUME NEW p \in Process, UpToDate(p) PROVE MigrationTypeOK' /\ AppliedUpTo(n)'
  BY <1>0, <1>n, <1>8 DEF UpToDate, AppliedUpTo, Progress, Transaction
<1>9. ASSUME NEW p \in Process, InsertConflicts(p) \/ Busy(p) \/ Kill(p) \/ Leave(p)
      PROVE  MigrationInv'
  BY <1>0, <1>9, ExitStep DEF InsertConflicts, Busy, Kill, Leave
<1>10. CASE UNCHANGED migrationVars
  BY <1>0, <1>n, <1>10 DEF migrationVars, AppliedUpTo, Progress, Transaction
<1> QED
  BY <1>1, <1>2, <1>3, <1>4, <1>5, <1>6, <1>7, <1>8, <1>9, <1>10
  DEF MigrationNext, RunMigrations, MigrationInv

(* A step of the composition is a step of the migrations, or none of them. *)
LEMMA NextMigrates == Next => [MigrationNext]_migrationVars
<1> SUFFICES ASSUME NEW s \in Process,
                    \/ Start(s) \/ Signal(s) \/ startCmd(s) \/ EnsureCAFails(s)
                    \/ KillServer(s) \/ CloseListener(s) \/ RemoveAgain(s)
                    \/ \E v \in Service : Run(s, v)
             PROVE  MigrationNext \/ UNCHANGED migrationVars
  BY DEF Next
<1>1. CASE Start(s) \/ EnsureCAFails(s) \/ KillServer(s)
  BY <1>1 DEF Start, EnsureCAFails, KillServer, MigrationNext
<1>2. CASE startCmd(s)
  BY <1>2 DEF startCmd, RemoveSocket, Listen, ListenFails, LaunchServices,
              WaitReturns, MigrationNext
<1>3. CASE Signal(s) \/ CloseListener(s) \/ RemoveAgain(s)
  BY <1>3 DEF Signal, CloseListener, RemoveAgain
<1>4. CASE \E v \in Service : Run(s, v)
  BY <1>4 DEF Run, Bind, BindFails, Shutdown
<1> QED
  BY <1>1, <1>2, <1>3, <1>4

LEMMA MigrationInvariant == Spec => []MigrationInv
<1>1. Init => MigrationInv
  BY MigrationInitInv DEF Init
<1>2. MigrationInv /\ [Next]_vars => MigrationInv'
  BY NextMigrates, MigrationStep DEF vars
<1> QED
  BY <1>1, <1>2, PTL DEF Spec

(* The versions recorded in schema_migrations are 1..n for some n, and are *)
(* those that took effect, for any number of processes that race and die.  *)
THEOREM SchemaIsVersionedTheorem == Spec => []SchemaIsVersioned
<1>1. MigrationInv => SchemaIsVersioned
  BY MaxUpTo, MigrationAssumption
  DEF MigrationInv, AppliedUpTo, SchemaIsVersioned, AppliedVersion
<1> QED
  BY <1>1, MigrationInvariant, PTL

(* A step that changes the schema commits the next migration, together     *)
(* with its version, in one transaction: none is applied twice, left out   *)
(* or half applied.                                                        *)
MigratesInOrder ==
  [][\/ schema' = schema /\ applied' = applied
     \/ schema' = 1..(AppliedVersion + 1) /\ applied' = schema']_vars

THEOREM MigratesInOrderTheorem == Spec => MigratesInOrder
<1>1. ASSUME MigrationInv, NEW p \in Process, CommitMigration(p)
      PROVE  schema' = 1..(AppliedVersion + 1) /\ applied' = schema'
  <2> USE MigrationAssumption
  <2>1. PICK n \in 0..Latest : AppliedUpTo(n)
    BY <1>1 DEF MigrationInv
  <2>2. version[p] = n + 1 /\ executed[p] = {n + 1}
    BY <1>1, <2>1 DEF CommitMigration, AppliedUpTo, Transaction
  <2>3. applied' = 1..n \cup {n + 1} /\ schema' = 1..n \cup {n + 1}
    BY <1>1, <2>1, <2>2 DEF CommitMigration, AppliedUpTo
  <2>4. AppliedVersion = n
    BY <2>1, MaxUpTo DEF AppliedVersion, AppliedUpTo
  <2> QED
    BY <2>3, <2>4
<1>2. ASSUME NEW p \in Process, RunMigrations(p), ~CommitMigration(p)
      PROVE  schema' = schema /\ applied' = applied
  BY <1>2 DEF RunMigrations, ensureMigrationsTable, ReadVersion, NextVersion, ExecMigration,
     InsertVersion, InsertConflicts, UpToDate, Busy, Exit, Goto, database
<1>3. ASSUME NEW p \in Process, Begin(p) \/ Kill(p) \/ Leave(p)
      PROVE  schema' = schema /\ applied' = applied
  BY <1>3 DEF Begin, Kill, Leave, Exit, database
<1>4. MigrationInv /\ [Next]_vars
        => [\/ schema' = schema /\ applied' = applied
            \/ schema' = 1..(AppliedVersion + 1) /\ applied' = schema']_vars
  <2> SUFFICES ASSUME MigrationInv, [Next]_vars
               PROVE  \/ schema' = schema /\ applied' = applied
                      \/ schema' = 1..(AppliedVersion + 1) /\ applied' = schema'
    OBVIOUS
  <2>1. CASE UNCHANGED migrationVars
    BY <2>1 DEF migrationVars, database
  <2>2. CASE MigrationNext
    BY <2>2, <1>1, <1>2, <1>3 DEF MigrationNext
  <2> QED
    BY <2>1, <2>2, NextMigrates DEF vars
<1> QED
  BY <1>4, MigrationInvariant, PTL DEF Spec, MigratesInOrder

(* A process that is past RunMigrations has every table.                   *)
THEOREM DoneHasSchemaTheorem == Spec => []DoneHasSchema
<1>1. MigrationInv => DoneHasSchema
  <2> SUFFICES ASSUME MigrationInv, NEW p \in Process, phase[p] = "done"
               PROVE  schema = Version
    BY DEF DoneHasSchema
  <2>1. PICK n \in 0..Latest : AppliedUpTo(n)
    BY DEF MigrationInv
  <2>2. Latest + 1 <= n + 1
    BY <2>1 DEF AppliedUpTo, Progress
  <2> QED
    BY <2>1, <2>2, MigrationAssumption DEF AppliedUpTo, Version
<1> QED
  BY <1>1, MigrationInvariant, PTL

(***************************************************************************)
(* The server.  A process that is down holds nothing but a socket file;    *)
(* one that is alone is the only one that is not down, and as long as its  *)
(* closing goroutine has not run the socket file is its own.               *)
(***************************************************************************)
Down(s) ==
  phase[s] = "down" =>
    /\ main[s] = "start" /\ closer[s] = "none" /\ s \notin listening
    /\ s \notin cancelled /\ \A v \in Service : service[s][v] = "none"

Goroutines(s) ==
  /\ main[s] # "start" => phase[s] = "done"
  /\ s \in listening <=> closer[s] = "armed"
  /\ closer[s] = "remove" => s \in cancelled
  /\ main[s] \in {"start", "listen"} => closer[s] = "none"
  /\ main[s] # "wait" => \A v \in Service : service[s][v] = "none"
  /\ \A v \in Service : port[v] = s <=> service[s][v] = "serving"

AloneInv(s) ==
  /\ \A t \in Process \ {s} : phase[s] # "down" => phase[t] = "down"
  /\ main[s] = "listen" => socket = None
  /\ closer[s] = "armed" => socket = s

ServerInv ==
  /\ TypeOK
  /\ \A s \in Process : Down(s) /\ Goroutines(s)
  /\ alone => \A s \in Process : AloneInv(s)

(* What the steps of the migrations do to the phases.                      *)
LEMMA Phases ==
  ASSUME MigrationTypeOK, NEW s \in Process
  PROVE  /\ Begin(s) => phase[s] = "down" /\ phase' = [phase EXCEPT ![s] = "ensure"]
         /\ RunMigrations(s) => /\ phase[s] \notin {"down", "done"}
                                /\ \E x \in Phase : phase' = [phase EXCEPT ![s] = x]
         /\ Kill(s) => phase[s] # "down" /\ phase' = [phase EXCEPT ![s] = "down"]
         /\ Leave(s) => phase[s] = "done" /\ phase' = [phase EXCEPT ![s] = "down"]
<1> USE DEF Goto, Exit
<1>1. RunMigrations(s) => phase[s] \notin {"down", "done"}
  BY DEF RunMigrations, ensureMigrationsTable, ReadVersion, NextVersion, ExecMigration,
         InsertVersion, InsertConflicts, CommitMigration, UpToDate, Busy
<1>2. RunMigrations(s) => \E x \in Phase : phase' = [phase EXCEPT ![s] = x]
  BY DEF RunMigrations, ensureMigrationsTable, ReadVersion, NextVersion, ExecMigration,
         InsertVersion, InsertConflicts, CommitMigration, UpToDate, Busy, Phase
<1> QED
  BY <1>1, <1>2 DEF Begin, Kill, Leave

LEMMA InitServer == Init => ServerInv
<1> SUFFICES ASSUME Init PROVE ServerInv
  OBVIOUS
<1>1. MigrationTypeOK
  BY MigrationInitInv DEF Init, MigrationInv
<1> QED
  BY <1>1, ServiceAssumption
  DEF Init, MigrationInit, ServerInv, TypeOK, Down, Goroutines, AloneInv

(* The end of a process leaves nothing of it behind but the socket file.   *)
LEMMA EndsStep ==
  ASSUME ServerInv, MigrationTypeOK', NEW s \in Process, Ends(s),
         phase' = [phase EXCEPT ![s] = "down"]
  PROVE  ServerInv'
<1> USE ServiceAssumption DEF ServerInv, Ends
<1>1. phase \in [Process -> Phase]
  BY DEF TypeOK, MigrationTypeOK
<1>2. TypeOK'
  BY DEF TypeOK
<1>3. \A t \in Process : Down(t)'
  BY <1>1 DEF TypeOK, Down
<1>4. \A t \in Process : Goroutines(t)'
  BY <1>1 DEF TypeOK, Goroutines
<1>5. alone' => \A t \in Process : AloneInv(t)'
  BY <1>1 DEF TypeOK, AloneInv
<1> QED
  BY <1>2, <1>3, <1>4, <1>5

(* startCmd from its beginning to the services.                            *)
LEMMA MainSteps ==
  ASSUME ServerInv, MigrationTypeOK', NEW s \in Process,
         \/ Start(s) \/ RemoveSocket(s) \/ Listen(s) \/ LaunchServices(s)
         \/ RunMigrations(s) /\ phase'[s] # "down" /\ UNCHANGED servers
  PROVE  ServerInv'
<1> USE ServiceAssumption DEF ServerInv
<1>1. phase \in [Process -> Phase] /\ MigrationTypeOK
  BY DEF TypeOK, MigrationTypeOK
<1>2. CASE Start(s)
  <2>1. phase[s] = "down" /\ phase' = [phase EXCEPT ![s] = "ensure"]
    BY <1>1, <1>2, Phases DEF Start
  <2> USE <1>2 DEF Start
  <2>2. TypeOK'
    BY DEF TypeOK
  <2>3. \A t \in Process : Down(t)' /\ Goroutines(t)'
    BY <1>1, <2>1 DEF Down, Goroutines
  <2>4. ASSUME alone' PROVE \A t \in Process : AloneInv(t)'
    <3>1. \A t \in Process : phase[t] = "down"
      BY <2>4 DEF Alive
    <3> QED
      BY <1>1, <2>1, <3>1 DEF Down, AloneInv
  <2> QED
    BY <2>2, <2>3, <2>4
<1>3. CASE RemoveSocket(s)
  <2> USE <1>3 DEF RemoveSocket, migrationVars
  <2>1. TypeOK'
    BY DEF TypeOK
  <2>2. \A t \in Process : Down(t)' /\ Goroutines(t)'
    BY DEF TypeOK, Down, Goroutines
  <2>3. alone' => \A t \in Process : AloneInv(t)'
    BY DEF TypeOK, Down, Goroutines, AloneInv
  <2> QED
    BY <2>1, <2>2, <2>3
<1>4. CASE Listen(s)
  <2> USE <1>4 DEF Listen, migrationVars
  <2>1. TypeOK'
    BY DEF TypeOK
  <2>2. \A t \in Process : Down(t)' /\ Goroutines(t)'
    BY DEF TypeOK, Down, Goroutines
  <2>3. alone' => \A t \in Process : AloneInv(t)'
    BY DEF TypeOK, Down, Goroutines, AloneInv
  <2> QED
    BY <2>1, <2>2, <2>3
<1>5. CASE LaunchServices(s)
  <2> USE <1>5 DEF LaunchServices, migrationVars
  <2>1. TypeOK'
    BY DEF TypeOK
  <2>2. \A t \in Process : Down(t)' /\ Goroutines(t)'
    BY DEF TypeOK, Down, Goroutines
  <2>3. alone' => \A t \in Process : AloneInv(t)'
    BY DEF TypeOK, AloneInv
  <2> QED
    BY <2>1, <2>2, <2>3
<1>6. CASE RunMigrations(s) /\ phase'[s] # "down" /\ UNCHANGED servers
  <2> USE <1>6 DEF servers
  <2>1. PICK x \in Phase : /\ phase' = [phase EXCEPT ![s] = x]
                           /\ phase[s] \notin {"down", "done"} /\ x # "down"
    BY <1>1, Phases
  <2>2. TypeOK'
    BY DEF TypeOK
  <2>3. \A t \in Process : Down(t)' /\ Goroutines(t)' /\ (AloneInv(t) => AloneInv(t)')
    BY <1>1, <2>1 DEF Down, Goroutines, AloneInv
  <2> QED
    BY <2>2, <2>3
<1> QED
  BY <1>2, <1>3, <1>4, <1>5, <1>6

(* Its goroutines, and the signal.                                         *)
LEMMA GoroutineSteps ==
  ASSUME ServerInv, MigrationTypeOK', NEW s \in Process,
         \/ Signal(s) \/ CloseListener(s) \/ RemoveAgain(s)
         \/ \E v \in Service : Run(s, v)
  PROVE  ServerInv'
<1> USE ServiceAssumption DEF ServerInv, migrationVars
<1>1. CASE Signal(s)
  BY <1>1 DEF Signal, Alive, TypeOK, Down, Goroutines, AloneInv
<1>2. CASE CloseListener(s) \/ RemoveAgain(s)
  <2> USE <1>2 DEF CloseListener, RemoveAgain
  <2>1. TypeOK'
    BY DEF TypeOK
  <2>2. \A t \in Process : Down(t)' /\ Goroutines(t)'
    BY DEF TypeOK, Down, Goroutines
  <2>3. ASSUME alone PROVE \A t \in Process : AloneInv(t)'
    <3>1. phase[s] # "down"
      BY DEF Down
    <3>2. \A t \in Process \ {s} : phase[t] = "down"
      BY <2>3, <3>1 DEF AloneInv
    <3>3. \A t \in Process \ {s} : main[t] = "start" /\ closer[t] = "none"
      BY <3>2 DEF Down
    <3>4. closer'[s] # "armed" /\ \A t \in Process \ {s} : closer'[t] = "none"
      BY <3>3 DEF TypeOK
    <3> QED
      BY <2>3, <3>4 DEF AloneInv
  <2> QED
    BY <2>1, <2>2, <2>3
<1>3. ASSUME NEW v \in Service, Run(s, v) PROVE ServerInv'
  <2> USE <1>3 DEF Run, SetService
  <2>1. /\ service[s][v] \in {"starting", "serving"} /\ main[s] = "wait" /\ phase[s] # "down"
        /\ UNCHANGED <<migrationVars, socket, listening, main, closer, alone>>
        /\ cancelled' \in {cancelled, cancelled \cup {s}}
    BY DEF Bind, BindFails, Shutdown, Goroutines, Down
  <2>2. \E x \in {"serving", "failed", "closed"} :
          /\ service' = [service EXCEPT ![s][v] = x]
          /\ x = "serving" => port[v] = None /\ port' = [port EXCEPT ![v] = s]
          /\ x # "serving" => \/ port' = port /\ service[s][v] = "starting"
                              \/ port[v] = s /\ port' = [port EXCEPT ![v] = None]
    <3> DEFINE P(x) ==
          /\ service' = [service EXCEPT ![s][v] = x]
          /\ x = "serving" => port[v] = None /\ port' = [port EXCEPT ![v] = s]
          /\ x # "serving" => \/ port' = port /\ service[s][v] = "starting"
                              \/ port[v] = s /\ port' = [port EXCEPT ![v] = None]
    <3>1. CASE Bind(s, v)
      <4>1. P("serving")
        BY <3>1 DEF Bind
      <4> QED
        BY <4>1
    <3>2. CASE BindFails(s, v)
      <4>1. P("failed")
        BY <3>2 DEF BindFails
      <4> QED
        BY <4>1
    <3>3. CASE Shutdown(s, v)
      <4>1. port \in [Service -> Process \cup {None}]
        BY DEF TypeOK
      <4>2. service[s][v] = "serving" => port[v] = s
        BY DEF Goroutines
      <4>3. port[v] # s => port' = port
        BY <3>3, <4>1 DEF Shutdown
      <4>4. port[v] = s => port' = [port EXCEPT ![v] = None]
        BY <3>3, <4>1 DEF Shutdown
      <4>5. P("closed")
        BY <3>3, <4>2, <4>3, <4>4 DEF Shutdown
      <4> QED
        BY <4>5
    <3> QED
      BY <3>1, <3>2, <3>3
  <2>3. TypeOK'
    BY <2>1, <2>2 DEF TypeOK
  <2>4. \A t \in Process : Down(t)' /\ (AloneInv(t) => AloneInv(t)')
    BY <2>1, <2>2 DEF TypeOK, Down, AloneInv
  <2>5. \A t \in Process : Goroutines(t)'
    BY <2>1, <2>2 DEF TypeOK, Goroutines
  <2> QED
    BY <2>1, <2>3, <2>4, <2>5
<1> QED
  BY <1>1, <1>2, <1>3

LEMMA ServerStep ==
  ASSUME ServerInv, MigrationTypeOK', [Next]_vars
  PROVE  ServerInv'
<1>1. MigrationTypeOK
  BY DEF ServerInv, TypeOK
<1>2. ASSUME NEW s \in Process,
             \/ Start(s) \/ RemoveSocket(s) \/ Listen(s) \/ LaunchServices(s)
             \/ RunMigrations(s) /\ phase'[s] # "down" /\ UNCHANGED servers
             \/ Signal(s) \/ CloseListener(s) \/ RemoveAgain(s)
             \/ \E v \in Service : Run(s, v)
      PROVE  ServerInv'
  BY <1>2, MainSteps, GoroutineSteps
<1>3. ASSUME NEW s \in Process,
             \/ RunMigrations(s) /\ phase'[s] = "down" /\ Ends(s)
             \/ ListenFails(s) \/ WaitReturns(s) \/ EnsureCAFails(s) \/ KillServer(s)
      PROVE  ServerInv'
  <2>1. /\ Ends(s)
        /\ \/ Leave(s) \/ Kill(s)
           \/ RunMigrations(s) /\ phase'[s] = "down"
    BY <1>3 DEF ListenFails, WaitReturns, EnsureCAFails, KillServer
  <2>2. phase' = [phase EXCEPT ![s] = "down"]
    BY <1>1, <2>1, Phases DEF MigrationTypeOK
  <2> QED
    BY <2>1, <2>2, EndsStep
<1>4. CASE UNCHANGED vars
  BY <1>4 DEF vars, servers, migrationVars, ServerInv, TypeOK, Down, Goroutines, AloneInv
<1> QED
  BY <1>2, <1>3, <1>4 DEF Next, startCmd

LEMMA ServerInvariant == Spec => []ServerInv
<1>1. MigrationInv => MigrationTypeOK
  BY DEF MigrationInv
<1> QED
  BY <1>1, InitServer, ServerStep, MigrationInvariant, PTL DEF Spec

(* Type correctness of the service and of the migrations.                  *)
THEOREM ServiceTypeCorrect == Spec => []TypeOK
<1>1. ServerInv => TypeOK
  BY DEF ServerInv
<1> QED
  BY <1>1, ServerInvariant, PTL

(* A server that has been alone since it began is found by GetClient,      *)
(* whatever the ones before it left behind.                                *)
THEOREM AloneIsReachableTheorem == Spec => []AloneIsReachable
<1>1. ServerInv => AloneIsReachable
  BY DEF ServerInv, Goroutines, AloneInv, AloneIsReachable, Serving, GetClient
<1> QED
  BY <1>1, ServerInvariant, PTL

(* The start of one that is alone fails neither on the socket nor a port.  *)
THEOREM AloneStartsTheorem == Spec => []AloneStarts
<1>1. ServerInv => AloneStarts
  <2> SUFFICES ASSUME ServerInv, alone, NEW s \in Process, NEW v \in Service,
                      service[s][v] = "starting"
               PROVE  port[v] = None
    BY DEF ServerInv, AloneStarts, AloneInv
  <2>1. phase[s] # "down"
    BY DEF ServerInv, Down
  <2>2. ASSUME NEW t \in Process, port[v] = t PROVE FALSE
    <3>1. service[t][v] = "serving"
      BY <2>2 DEF ServerInv, Goroutines
    <3>2. t # s /\ phase[t] # "down"
      BY <3>1 DEF ServerInv, Down
    <3> QED
      BY <2>1, <3>2 DEF ServerInv, AloneInv
  <2> QED
    BY <2>2 DEF ServerInv, TypeOK
<1> QED
  BY <1>1, ServerInvariant, PTL

(***************************************************************************)
(* The end of a server.  Its HTTP servers are in one errgroup: none ends   *)
(* without ending them all, and as long as the context lives the RPC       *)
(* listener is open.                                                       *)
(***************************************************************************)
GroupInv ==
  \A s \in Process :
    /\ main[s] \in {"launch", "wait"} /\ s \notin cancelled => closer[s] = "armed"
    /\ \A v \in Service : service[s][v] \in {"closed", "failed"} => s \in cancelled

LEMMA GroupStep ==
  ASSUME ServerInv, GroupInv, [Next]_vars
  PROVE  GroupInv'
<1> USE DEF GroupInv, ServerInv, TypeOK
<1>1. CASE UNCHANGED vars
  BY <1>1 DEF vars, servers
<1>2. ASSUME NEW s \in Process, Start(s) \/ Signal(s) \/ RemoveSocket(s)
      PROVE  GroupInv'
  BY <1>2 DEF Start, Signal, RemoveSocket
<1>3. ASSUME NEW s \in Process, Listen(s) \/ LaunchServices(s)
      PROVE  GroupInv'
  BY <1>3 DEF Listen, LaunchServices, Goroutines
<1>4. ASSUME NEW s \in Process, CloseListener(s) \/ RemoveAgain(s)
      PROVE  GroupInv'
  BY <1>4 DEF CloseListener, RemoveAgain, Goroutines
<1>5. ASSUME NEW s \in Process, Ends(s) PROVE GroupInv'
  BY <1>5 DEF Ends
<1>6. ASSUME NEW s \in Process, NEW v \in Service, Run(s, v) PROVE GroupInv'
  <2>1. CASE Bind(s, v)
    BY <2>1 DEF Bind, SetService
  <2>2. CASE BindFails(s, v)
    BY <2>2 DEF BindFails, SetService
  <2>3. CASE Shutdown(s, v)
    BY <2>3 DEF Shutdown, SetService
  <2> QED
    BY <1>6, <2>1, <2>2, <2>3 DEF Run
<1>7. CASE UNCHANGED servers
  BY <1>7 DEF servers
<1> QED
  BY <1>1, <1>2, <1>3, <1>4, <1>5, <1>6, <1>7
  DEF Next, startCmd, ListenFails, WaitReturns, EnsureCAFails, KillServer

(* A server whose context lives has its listener and all of its services,  *)
(* and one that has lost any of them is on its way down: it never serves   *)
(* one port and not the other, which is what ShutdownEnds starts from.     *)
AllOrNone ==
  \A s \in Process :
    main[s] \in {"launch", "wait"} /\ s \notin cancelled =>
      /\ s \in listening
      /\ \A v \in Service : service[s][v] \notin {"closed", "failed"}

THEOREM AllOrNoneTheorem == Spec => []AllOrNone
<1>1. Init => GroupInv
  BY DEF Init, GroupInv
<1>2. ServerInv /\ GroupInv => AllOrNone
  BY DEF ServerInv, Goroutines, GroupInv, AllOrNone
<1> QED
  BY <1>1, <1>2, GroupStep, ServerInvariant, PTL DEF Spec
=============================================================================
