------------------------------- MODULE Config -------------------------------
(***************************************************************************)
(* internal/config/config.go: what Load makes of the defaults, the         *)
(* environment file and the environment, for a command run in some working *)
(* directory, and what depends on the paths in it: the directories that    *)
(* the start of a server creates, the database that db.Initialize opens,   *)
(* the log file.                                                           *)
(*                                                                         *)
(* The environment is a function of the variables that are set; the disk   *)
(* one of the environment files that exist, each to such settings.         *)
(*                                                                         *)
(* A text is a sequence: a path is the sequence of its elements, after "/" *)
(* if it is absolute and "file:" if it is a URI; any other value has one   *)
(* element; <<>> is the empty string.  Of the settings there is one of     *)
(* each kind that Load treats in a way of its own.                         *)
(***************************************************************************)
EXTENDS Integers, Sequences, SequencesExt

Default ==
  [ROOT_DIR |-> <<"/", "home", "sourcevault">>, LOG_FILE |-> <<>>,
   LOG_LEVEL |-> <<"ERROR">>, DB_DRIVER |-> <<"sqlite3">>,
   DB_DSN |-> <<"data", "database", "sourcevault.db">>,
   WEB_ENABLED |-> <<"true">>, WEB_PORT |-> <<"8080">>]

Numeral == {"8080", "9090"}
Lowercase ==
  [SQLite3 |-> "sqlite3", TRUE |-> "true", ERROR |-> "error", WARN |-> "warn",
   WARNING |-> "warning", INFO |-> "info", DEBUG |-> "debug"]
Lower(text) ==
  IF Len(text) = 1 /\ text[1] \in DOMAIN Lowercase THEN <<Lowercase[text[1]]>> ELSE text

normalizeLogLevel(level) ==
  CASE Lower(level) = <<"error">> -> <<"ERROR">>
    [] Lower(level) \in {<<"warn">>, <<"warning">>} -> <<"WARN">>
    [] Lower(level) = <<"debug">> -> <<"DEBUG">>
    [] OTHER -> <<"INFO">>

(* f, and what only g has (the @@ of TLC, which the provers do not know).  *)
Overlay(f, g) ==
  [n \in DOMAIN f \cup DOMAIN g |-> IF n \in DOMAIN f THEN f[n] ELSE g[n]]

(* godotenv.Load sets the variables that the environment does not have, an *)
(* empty one being one that it has.                                        *)
Environment(env, file) == Overlay(env, file)

(* One variable that is not empty: a flag is case-insensitive, a number    *)
(* that is none leaves the default.                                        *)
Override(n, val) ==
  CASE n = "LOG_LEVEL" -> normalizeLogLevel(val)
    [] n = "WEB_ENABLED" -> IF Lower(val) = <<"true">> THEN <<"true">> ELSE <<"false">>
    [] n = "WEB_PORT" -> IF val[1] \in Numeral THEN val ELSE Default[n]
    [] OTHER -> val

Overridden(environment) ==
  [n \in DOMAIN Default |->
     IF n \in DOMAIN environment /\ environment[n] # <<>>
       THEN Override(n, environment[n]) ELSE Default[n]]

----------------------------------------------------------------------------
(* Paths.                                                                  *)
IsAbs(path) == path # <<>> /\ path[1] = "/"
IsURI(path) == path # <<>> /\ path[1] = "file:"
Abs(cwd, path) == IF IsAbs(path) THEN path ELSE cwd \o path

Anchored(root, path) == IF IsAbs(path) THEN path ELSE root \o path

IsSQLite(driver) == driver \in {<<"sqlite3">>, <<"sqlite">>}
IsBareName(path) == Len(path) = 1 /\ ~IsAbs(path) /\ ~IsURI(path)

(* The environment file: unless CONFIG_FILE says another, a name that is   *)
(* looked up in the working directory.  That there is none is no error.    *)
EnvFile(env) ==
  IF "CONFIG_FILE" \in DOMAIN env /\ env["CONFIG_FILE"] # <<>>
    THEN env["CONFIG_FILE"] ELSE <<"sourcevault.env">>

EnvPath(env, cwd) == Abs(cwd, EnvFile(env))

NoSettings == [n \in {} |-> <<>>]

FileSettings(env, disk, cwd) ==
  IF EnvPath(env, cwd) \in DOMAIN disk THEN disk[EnvPath(env, cwd)] ELSE NoSettings

(* The settings before their paths are resolved.                           *)
Settings(env, disk, cwd) == Overridden(Environment(env, FileSettings(env, disk, cwd)))

BugFromCwd(root, driver, dsn) ==
  IF IsSQLite(driver) /\ IsBareName(dsn)
    THEN root \o <<"data", "database">> \o dsn ELSE dsn

(* A bare file name goes to data/database.                                 *)
SanitizedDSN(root, driver, dsn) ==
  IF ~IsSQLite(driver) \/ IsURI(dsn) THEN dsn
  ELSE IF IsBareName(dsn) THEN root \o <<"data", "database">> \o dsn
  ELSE Anchored(root, dsn)

(* The socket has no variable; its default is a path below RootDir.        *)
sanitize(c, cwd) ==
  LET root == Abs(cwd, c.ROOT_DIR)
  IN  Overlay([ROOT_DIR |-> root,
               LOG_FILE |-> IF c.LOG_FILE = <<>> THEN <<>> ELSE Anchored(root, c.LOG_FILE),
               DB_DSN |-> SanitizedDSN(root, c.DB_DRIVER, c.DB_DSN),
               SOCKET |-> root \o <<"data", "sourcevault.sock">>], c)

Load(env, disk, cwd) == sanitize(Settings(env, disk, cwd), cwd)

----------------------------------------------------------------------------
BugDirectories(c) ==
  {c.ROOT_DIR} \cup {c.ROOT_DIR \o <<"data">>, c.ROOT_DIR \o <<"volumes">>}
    \cup {c.ROOT_DIR \o <<"data", d>> : d \in {"cache", "ca", "registry"}}

(* startCmd: os.MkdirAll.                                                  *)
Directories(c) ==
  {c.ROOT_DIR} \cup {c.ROOT_DIR \o <<"data">>, c.ROOT_DIR \o <<"volumes">>}
    \cup {c.ROOT_DIR \o <<"data", d>> : d \in {"cache", "ca", "registry"}}
    \cup IF IsSQLite(c.DB_DRIVER) THEN {c.ROOT_DIR \o <<"data", "database">>} ELSE {}

(* db.Initialize, to which the case of the driver is nothing.  SQLite      *)
(* opens the path in the working directory of the process.                 *)
Initialize(c) == IsSQLite(Lower(c.DB_DRIVER))
DatabaseFile(c, cwd) == Abs(cwd, c.DB_DSN)

(* log.Init: the file is created if its directory exists, or the process   *)
(* exits.                                                                  *)
LogOpens(c) == c.LOG_FILE = <<>> \/ Front(c.LOG_FILE) \in Directories(c)

----------------------------------------------------------------------------
(* Properties of an environment, the environment files on the disk, and a  *)
(* working directory, or two of them.                                      *)

(* The settings that say where the files are.                              *)
Locations == {"ROOT_DIR", "LOG_FILE", "DB_DRIVER", "DB_DSN"}

(* Commands run in different directories find the same database, socket    *)
(* and log file if no environment file can make a difference: CONFIG_FILE  *)
(* is absolute, or there is none in either directory, or the environment   *)
(* has every location, if only as an empty variable; and if RootDir is     *)
(* absolute, the driver spelt as sanitize expects and the DSN no URI.      *)
SameFiles(env, disk, cwd1, cwd2) ==
  LET c1 == Load(env, disk, cwd1)
      c2 == Load(env, disk, cwd2)
      raw == Settings(env, disk, cwd1)
  IN  /\ \/ IsAbs(EnvFile(env))
         \/ {EnvPath(env, cwd1), EnvPath(env, cwd2)} \cap DOMAIN disk = {}
         \/ Locations \subseteq DOMAIN env
      /\ IsAbs(raw.ROOT_DIR) /\ IsSQLite(raw.DB_DRIVER) /\ ~IsURI(raw.DB_DSN)
      => /\ DatabaseFile(c1, cwd1) = DatabaseFile(c2, cwd2)
         /\ c1.SOCKET = c2.SOCKET /\ c1.LOG_FILE = c2.LOG_FILE

(* The RPC server "is required for 'ca status', 'unseal', etc. to talk to  *)
(* the running server" (start.go:149): with the same variables, a command  *)
(* looks for it where it listens, whatever directory each was started in,  *)
(* if RootDir is absolute.                                                 *)
SameSocket(env, disk, cwd1, cwd2) ==
  (\A cwd \in {cwd1, cwd2} : IsAbs(Settings(env, disk, cwd).ROOT_DIR)) =>
    Load(env, disk, cwd1).SOCKET = Load(env, disk, cwd2).SOCKET

(* "If it's just a raw filename like 'sourcevault.db', place it in         *)
(* data/database/" (config.go:270), which the start of a server creates.   *)
DatabaseHasDirectory(env, disk, cwd) ==
  LET raw == Settings(env, disk, cwd)
      c == Load(env, disk, cwd)
  IN  IsSQLite(raw.DB_DRIVER) /\ IsBareName(raw.DB_DSN) =>
        Front(DatabaseFile(c, cwd)) \in Directories(c)

(* The defaults of README.md:51 and :53, of what is set nowhere.           *)
DefaultsAsDocumented(env, disk, cwd) ==
  LET c == Load(env, disk, cwd)
      set == DOMAIN env \cup DOMAIN FileSettings(env, disk, cwd)
  IN  /\ "LOG_LEVEL" \notin set => c.LOG_LEVEL = <<"INFO">>
      /\ "WEB_ENABLED" \notin set => c.WEB_ENABLED = <<"false">>

(* "The path is already sanitized to an absolute path in config.go"        *)
(* (db.go:47), unless it is a URI.                                         *)
DSNIsAbsolute(env, disk, cwd) ==
  LET c == Load(env, disk, cwd) IN Initialize(c) /\ ~IsURI(c.DB_DSN) => IsAbs(c.DB_DSN)

(* "Relative paths are resolved against ROOT_DIR"                          *)
(* (sourcevault.env.sample:9, whose example is logs/sourcevault.log): the  *)
(* log file opens, at the latest when a server has started.                *)
LogFileOpens(env, disk, cwd) == LogOpens(Load(env, disk, cwd))
=============================================================================
