-------------------------- MODULE ServiceLifecycle --------------------------
(***************************************************************************)
(* The life of a server process: cmd/sourcevault/start.go from the         *)
(* migrations to the end of the process, rpc.StartServer with its socket,  *)
(* and the web and metrics servers in their errgroup.  It composes         *)
(* Migrations with what else processes share by name: the socket file and  *)
(* the ports.  The commands that run the migrations (ca create, ca rotate) *)
(* are to it starts that end after them.                                   *)
(***************************************************************************)
EXTENDS Migrations

CONSTANTS
  Service, \* the HTTP servers, web and metrics
  Enabled, \* those of them that the configuration enables
  None     \* no process

ASSUME ServiceAssumption ==
  Enabled \subseteq Service /\ None \notin Process

VARIABLES
  socket,    \* who has bound the socket file, which may be dead; None: no file
  port,      \* of each service: who listens on its port
  listening, \* the servers whose RPC listener is open
  main,      \* of each server: where startCmd is
  closer,    \*   the goroutine that closes the listener,
  service,   \*   the goroutines of its HTTP servers,
  cancelled, \*   and whether its context is done
  alone      \* history: no other server was there when the last one began

servers == <<socket, port, listening, main, closer, service, cancelled, alone>>
vars == <<migrationVars, servers>>

TypeOK ==
  /\ MigrationTypeOK
  /\ socket \in Process \cup {None} /\ port \in [Service -> Process \cup {None}]
  /\ listening \subseteq Process
  /\ main \in [Process -> {"start", "listen", "launch", "wait"}]
  /\ closer \in [Process -> {"none", "armed", "remove"}]
  /\ service \in [Process -> [Service -> {"none", "starting", "serving",
                                         "closed", "failed"}]]
  /\ cancelled \subseteq Process /\ alone \in BOOLEAN

Init ==
  /\ MigrationInit
  /\ socket = None /\ port = [v \in Service |-> None] /\ listening = {}
  /\ main = [s \in Process |-> "start"] /\ closer = [s \in Process |-> "none"]
  /\ service = [s \in Process |-> [v \in Service |-> "none"]]
  /\ cancelled = {} /\ alone = TRUE

Alive == {s \in Process : phase[s] # "down"}

----------------------------------------------------------------------------
(* startCmd.                                                               *)

Start(s) ==
  /\ Begin(s) /\ alone' = (Alive = {})
  /\ UNCHANGED <<socket, port, listening, main, closer, service, cancelled>>

(* SIGINT or SIGTERM, caught from the first statements of startCmd on.     *)
Signal(s) ==
  /\ s \in Alive \ cancelled
  /\ cancelled' = cancelled \cup {s}
  /\ UNCHANGED <<migrationVars, socket, port, listening, main, closer, service, alone>>

BugKeepSocket(s) ==
  /\ phase[s] = "done" /\ main[s] = "start"
  /\ main' = [main EXCEPT ![s] = "listen"]
  /\ UNCHANGED <<migrationVars, socket, port, listening, closer, service, cancelled, alone>>

(* rpc.StartServer: os.Remove, then net.Listen, which fails on any file.   *)
RemoveSocket(s) ==
  /\ phase[s] = "done" /\ main[s] = "start"
  /\ socket' = None /\ main' = [main EXCEPT ![s] = "listen"]
  /\ UNCHANGED <<migrationVars, port, listening, closer, service, cancelled, alone>>

BugListenThenRemove(s) ==
  /\ main[s] = "listen" /\ socket = None
  /\ listening' = listening \cup {s}
  /\ main' = [main EXCEPT ![s] = "launch"]
  /\ closer' = [closer EXCEPT ![s] = "armed"]
  /\ UNCHANGED <<migrationVars, socket, port, service, cancelled, alone>>

Listen(s) ==
  /\ main[s] = "listen" /\ socket = None
  /\ socket' = s /\ listening' = listening \cup {s}
  /\ main' = [main EXCEPT ![s] = "launch"]
  /\ closer' = [closer EXCEPT ![s] = "armed"]
  /\ UNCHANGED <<migrationVars, port, service, cancelled, alone>>

LaunchServices(s) ==
  /\ main[s] = "launch"
  /\ service' = [service EXCEPT ![s] =
                   [v \in Service |-> IF v \in Enabled THEN "starting" ELSE "none"]]
  /\ main' = [main EXCEPT ![s] = "wait"]
  /\ UNCHANGED <<migrationVars, socket, port, listening, closer, cancelled, alone>>

(* The end of a process: the kernel closes its listeners; the socket file  *)
(* stays, if it is there, and its goroutines have run as far as they have. *)
Ends(s) ==
  /\ listening' = listening \ {s}
  /\ port' = [v \in Service |-> IF port[v] = s THEN None ELSE port[v]]
  /\ main' = [main EXCEPT ![s] = "start"]
  /\ closer' = [closer EXCEPT ![s] = "none"]
  /\ service' = [service EXCEPT ![s] = [v \in Service |-> "none"]]
  /\ cancelled' = cancelled \ {s}
  /\ UNCHANGED <<socket, alone>>

(* net.Listen's error is returned.                                         *)
ListenFails(s) ==
  main[s] = "listen" /\ socket # None /\ Leave(s) /\ Ends(s)

(* g.Wait, or the wait for ctx.Done() when no service is enabled.          *)
WaitReturns(s) ==
  /\ main[s] = "wait"
  /\ IF Enabled = {} THEN s \in cancelled
     ELSE \A v \in Enabled : service[s][v] \in {"closed", "failed"}
  /\ Leave(s) /\ Ends(s)

startCmd(s) ==
  \/ RunMigrations(s) /\ phase'[s] # "down" /\ UNCHANGED servers
  \/ RunMigrations(s) /\ phase'[s] = "down" /\ Ends(s)
  \/ RemoveSocket(s) \/ Listen(s) \/ ListenFails(s)
  \/ LaunchServices(s) \/ WaitReturns(s)

----------------------------------------------------------------------------
(* Its goroutines.                                                         *)

(* l.Close unlinks the file by its name before it closes the listener.     *)
CloseListener(s) ==
  /\ closer[s] = "armed" /\ s \in cancelled
  /\ socket' = None /\ listening' = listening \ {s}
  /\ closer' = [closer EXCEPT ![s] = "remove"]
  /\ UNCHANGED <<migrationVars, port, main, service, cancelled, alone>>

(* os.Remove, once more.                                                   *)
RemoveAgain(s) ==
  /\ closer[s] = "remove"
  /\ socket' = None
  /\ closer' = [closer EXCEPT ![s] = "none"]
  /\ UNCHANGED <<migrationVars, port, listening, main, service, cancelled, alone>>

SetService(s, v, state) == service' = [service EXCEPT ![s][v] = state]

(* ListenAndServe.                                                         *)
Bind(s, v) ==
  /\ service[s][v] = "starting" /\ port[v] = None
  /\ port' = [port EXCEPT ![v] = s] /\ SetService(s, v, "serving")
  /\ UNCHANGED <<migrationVars, socket, listening, main, closer, cancelled, alone>>

(* Its error ends the goroutine, and the errgroup cancels the context.     *)
BugNoCancel(s, v) ==
  /\ service[s][v] = "starting" /\ port[v] # None
  /\ SetService(s, v, "failed")
  /\ UNCHANGED <<migrationVars, socket, port, listening, main, closer, cancelled, alone>>

BindFails(s, v) ==
  /\ service[s][v] = "starting" /\ port[v] # None
  /\ SetService(s, v, "failed") /\ cancelled' = cancelled \cup {s}
  /\ UNCHANGED <<migrationVars, socket, port, listening, main, closer, alone>>

(* srv.Shutdown; ListenAndServe, at once or when it is called, returns     *)
(* http.ErrServerClosed, which is no error.                                *)
Shutdown(s, v) ==
  /\ s \in cancelled /\ service[s][v] \in {"starting", "serving"}
  /\ SetService(s, v, "closed")
  /\ port' = [port EXCEPT ![v] = IF @ = s THEN None ELSE @]
  /\ UNCHANGED <<migrationVars, socket, listening, main, closer, cancelled, alone>>

Run(s, v) == Bind(s, v) \/ BindFails(s, v) \/ Shutdown(s, v)

----------------------------------------------------------------------------
KillServer(s) == Kill(s) /\ Ends(s)

(* EnsureCA returns an error, or the process is a command.                 *)
EnsureCAFails(s) ==
  phase[s] = "done" /\ main[s] = "start" /\ Leave(s) /\ Ends(s)

Next ==
  \E s \in Process :
    \/ Start(s) \/ Signal(s) \/ startCmd(s) \/ EnsureCAFails(s) \/ KillServer(s)
    \/ CloseListener(s) \/ RemoveAgain(s)
    \/ \E v \in Service : Run(s, v)

Spec == Init /\ [][Next]_vars

(* Goroutines run, and who starts a server does so again after it has      *)
(* ended.  Nobody has to send a signal.                                    *)
FairSpec ==
  Spec /\ \A s \in Process :
    /\ WF_vars(Start(s)) /\ WF_vars(startCmd(s))
    /\ WF_vars(CloseListener(s)) /\ WF_vars(RemoveAgain(s))
    /\ \A v \in Service : WF_vars(Run(s, v))

----------------------------------------------------------------------------
(* Properties.                                                             *)

(* What a command gets from rpc.GetClient: the server that has bound the   *)
(* socket file, unless there is no file, or nobody listens any more.       *)
GetClient == IF socket \in listening THEN socket ELSE None

Serving(s) == s \in listening \ cancelled

(* "This is required for 'ca status', 'unseal', etc. to talk to the        *)
(* running server" (start.go:149): a server is found, whatever killed the  *)
(* ones before it left behind, provided that no other was there when it    *)
(* began or has begun since.                                               *)
AloneIsReachable == alone => \A s \in Process : Serving(s) => GetClient = s

(* ... and nothing that was left behind can make its start fail.           *)
AloneStarts ==
  alone => \A s \in Process :
    /\ main[s] = "listen" => socket = None
    /\ \A v \in Service : service[s][v] = "starting" => port[v] = None

(* "graceful shutdown" (start.go:88): a signal, or the failure of one HTTP *)
(* server, ends the process, whatever its goroutines are at.               *)
ShutdownEnds ==
  \A s \in Process :
    (s \in cancelled \/ \E v \in Service : service[s][v] = "failed")
      ~> phase[s] = "down"

(* The same sentence without the proviso: a server that goes on serving is *)
(* found, at some time.                                                    *)
StaysReachable ==
  \A s \in Process : Serving(s) ~> (GetClient = s \/ ~Serving(s))
=============================================================================
