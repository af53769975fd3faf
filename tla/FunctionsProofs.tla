-------------------------- MODULE FunctionsProofs --------------------------
(***************************************************************************)
(* Theorems about the pure functions of Validity and Config: first of each *)
(* function, for every input, then of the runs of MCFunctions, whose       *)
(* inputs are some of those.                                               *)
(***************************************************************************)
EXTENDS MCFunctions, TLAPS

(* A duration that fits in 64 bits is not changed by the wrap around.      *)
LEMMA WrapFits == \A x \in Int64 : Wrap(x) = x
  BY ValidityAssumption DEF Int64, Wrap

(* Whole multiples of D survive the division by D, the negative ones when  *)
(* it is done on the absolute value.                                       *)
LEMMA WholeDays ==
  ASSUME NEW n \in Int, NEW D \in Nat \ {0}, n % D = 0
  PROVE  /\ (n \div D) * D = n
         /\ (-((-n) \div D)) * D = n
<1>1. PICK k \in Int : k = n \div D
  OBVIOUS
<1>2. n = k * D
  BY <1>1
<1>3. (-n) \div D = -k
  <2>1. -n = (-k) * D
    BY <1>2
  <2> DEFINE j == (-n) \div D
             r == (-n) % D
  <2>2. j \in Int /\ r \in 0..(D - 1) /\ -n = j * D + r
    OBVIOUS
  <2> HIDE DEF j, r
  <2>3. ((-k) - j) * D = r
    <3>1. ((-k) - j) * D = ((-k) * D) - (j * D)
      BY <2>2
    <3> QED
      BY <2>1, <2>2, <3>1
  <2>4. CASE (-k) - j >= 1
    <3>1. ((-k) - j) * D >= D
      BY <2>2, <2>4
    <3> QED
      BY <2>2, <2>3, <3>1
  <2>5. CASE (-k) - j <= -1
    <3>1. ((-k) - j) * D <= -D
      BY <2>2, <2>5
    <3> QED
      BY <2>2, <2>3, <3>1
  <2>6. CASE (-k) - j = 0
    BY <2>2, <2>6 DEF j
  <2> QED
    BY <2>2, <2>4, <2>5, <2>6
<1> QED
  BY <1>1, <1>2, <1>3

LEMMA Multiples ==
  ASSUME NEW t \in Text
  PROVE  t.val * Multiplier[t.unit] = Asked(t) /\ Asked(t) \in Int /\ Day \in Nat \ {0}
  BY ValidityAssumption DEF Text, Multiplier, Asked, Day

(* Both ways through ParseHumanDuration give what was asked if it fits.    *)
LEMMA ParsesWhatFits ==
  ASSUME NEW t \in Text, Asked(t) \in Int64
  PROVE  ParseHumanDuration(t) = Asked(t)
<1>1. CASE Standard(t)
  BY <1>1 DEF Standard, ParseHumanDuration, Asked
<1>2. CASE ~Standard(t)
  BY <1>2, Multiples, WrapFits DEF ParseHumanDuration
<1> QED
  BY <1>1, <1>2

(* For every number, every unit and every width of the integers, a CA is   *)
(* valid for the whole days it was asked to be.                            *)
THEOREM KeepsDaysTheorem == \A t \in Text : KeepsDays(t)
<1> SUFFICES ASSUME NEW t \in Text, Asked(t) \in Int64, Asked(t) % Day = 0
             PROVE  Created(t) = Asked(t)
  BY DEF KeepsDays
<1> DEFINE d == Asked(t)
<1>1. d \in Int /\ Day \in Nat \ {0}
  BY Multiples
<1>2. (d \div Day) * Day = d /\ (-((-d) \div Day)) * Day = d
  BY <1>1, WholeDays
<1>3. DefaultValidDays(d) * Day = d
  BY <1>1, <1>2 DEF DefaultValidDays
<1> QED
  BY <1>3, ParsesWhatFits, WrapFits DEF Created, ValidFor

(* And a certificate for the time it was asked to be, whatever the time of *)
(* its signature that the clock of the node can show.                      *)
THEOREM KeepsLifetimeTheorem == \A t \in Text, now \in 0..Half : KeepsLifetime(t, now)
<1> SUFFICES ASSUME NEW t \in Text, NEW now \in 0..Half, Asked(t) \in 0..(Half - 1)
             PROVE  ValidBefore(now, ParseHumanDuration(t)) - now = Asked(t)
  BY DEF KeepsLifetime
<1>1. ParseHumanDuration(t) = Asked(t)
  BY ParsesWhatFits, ValidityAssumption DEF Int64
<1> QED
  BY <1>1, ValidityAssumption DEF ValidBefore

----------------------------------------------------------------------------
(* Configuration, of paths with any elements.                              *)

Literals == {"/", "home", "sourcevault", "data", "database", "sourcevault.db", "sqlite3"}

(* Variables with any names, each with a text over E.                      *)
Variables(env, E) == \A n \in DOMAIN env : env[n] \in Seq(E)

Files(disk, E) == \A path \in DOMAIN disk : Variables(disk[path], E)

LEMMA Texts ==
  ASSUME NEW E
  PROVE  /\ <<>> \in Seq(E)
         /\ \A a \in E : <<a>> \in Seq(E)
         /\ \A a, b \in E : <<a, b>> \in Seq(E)
         /\ \A a, b, c \in E : <<a, b, c>> \in Seq(E)
  OBVIOUS

(* Load takes the locations as they are.                                   *)
LEMMA OverrideLocation == \A n \in Locations : \A val : Override(n, val) = val
  BY DEF Locations, Override

LEMMA RawTexts ==
  ASSUME NEW E, Literals \subseteq E, NEW env, NEW disk, NEW cwd,
         Variables(env, E), Files(disk, E)
  PROVE  \A n \in Locations : Settings(env, disk, cwd)[n] \in Seq(E)
<1> DEFINE file == FileSettings(env, disk, cwd)
           e == Environment(env, file)
<1>0. Variables(file, E)
  BY DEF FileSettings, NoSettings, Files, Variables
<1> HIDE DEF file
<1>1. \A n \in DOMAIN e : e[n] \in Seq(E)
  BY <1>0 DEF Environment, Overlay, Variables
<1>2. /\ <<"/", "home", "sourcevault">> \in Seq(E) /\ <<>> \in Seq(E)
      /\ <<"sqlite3">> \in Seq(E) /\ <<"data", "database", "sourcevault.db">> \in Seq(E)
  BY Texts DEF Literals
<1>3. \A n \in Locations : n \in DOMAIN Default /\ Default[n] \in Seq(E)
  <2>1. Locations \subseteq DOMAIN Default
    BY DEF Default, Locations
  <2>2. /\ Default["ROOT_DIR"] = <<"/", "home", "sourcevault">>
        /\ Default["LOG_FILE"] = <<>> /\ Default["DB_DRIVER"] = <<"sqlite3">>
        /\ Default["DB_DSN"] = <<"data", "database", "sourcevault.db">>
    BY DEF Default
  <2>3. \A n \in Locations : Default[n] \in Seq(E)
    BY <1>2, <2>2, Zenon DEF Locations
  <2> QED
    BY <2>1, <2>3
<1> HIDE DEF e
<1>4. \A n \in Locations : Overridden(e)[n] = IF n \in DOMAIN e /\ e[n] # <<>> THEN e[n]
                                             ELSE Default[n]
  BY <1>3, OverrideLocation DEF Overridden
<1> QED
  BY <1>1, <1>3, <1>4 DEF e, file, Settings

LEMMA AbsJoin ==
  ASSUME NEW E, NEW root \in Seq(E), NEW path \in Seq(E), IsAbs(root)
  PROVE  IsAbs(root \o path)
  BY DEF IsAbs

(* The directory for databases below an absolute root.                     *)
LEMMA DatabaseDirectory ==
  ASSUME NEW E, Literals \subseteq E, NEW root \in Seq(E), IsAbs(root)
  PROVE  /\ root \o <<"data", "database">> \in Seq(E)
         /\ IsAbs(root \o <<"data", "database">>)
<1>1. PICK sub \in Seq(E) : sub = <<"data", "database">>
  BY Texts DEF Literals
<1>2. root \o sub \in Seq(E) /\ IsAbs(root \o sub)
  BY AbsJoin
<1> QED
  BY <1>1, <1>2, Zenon

LEMMA JoinedLength ==
  ASSUME NEW E, NEW s \in Seq(E), NEW t \in Seq(E)
  PROVE  Len(s \o t) = Len(s) + Len(t)
  OBVIOUS

LEMMA FrontJoin ==
  ASSUME NEW E, NEW s \in Seq(E), NEW t \in Seq(E), Len(t) = 1
  PROVE  Front(s \o t) = s
<1> DEFINE u == s \o t
           f == SubSeq(u, 1, Len(s))
<1>1. /\ u \in Seq(E) /\ Len(u) = Len(s) + 1 /\ Len(s) \in Nat
      /\ \A i \in 1..Len(s) : u[i] = s[i]
  <2>1. Len(u) = Len(s) + 1
    BY JoinedLength
  <2>2. u \in Seq(E) /\ Len(s) \in Nat
    OBVIOUS
  <2>3. \A i \in 1..Len(s) : u[i] = s[i]
    OBVIOUS
  <2> QED
    BY <2>1, <2>2, <2>3
<1> HIDE DEF u
<1>2. Front(u) = f
  BY <1>1 DEF Front
<1>3. f \in Seq(E) /\ Len(f) = Len(s) /\ \A i \in 1..Len(s) : f[i] = u[i]
  BY <1>1
<1> HIDE DEF f
<1>4. f = s
  BY <1>1, <1>3
<1> QED
  BY <1>2, <1>4 DEF u

(* What sanitize makes of the settings.                                    *)
LEMMA Sanitized ==
  ASSUME NEW env, NEW disk, NEW cwd
  PROVE  LET raw == Settings(env, disk, cwd)
             c == Load(env, disk, cwd)
             root == Abs(cwd, raw.ROOT_DIR)
         IN  /\ c.ROOT_DIR = root /\ c.DB_DRIVER = raw.DB_DRIVER
             /\ c.DB_DSN = SanitizedDSN(root, raw.DB_DRIVER, raw.DB_DSN)
             /\ c.SOCKET = root \o <<"data", "sourcevault.sock">>
             /\ c.LOG_FILE = IF raw.LOG_FILE = <<>> THEN <<>> ELSE Anchored(root, raw.LOG_FILE)
<1> DEFINE raw == Settings(env, disk, cwd)
<1>1. DOMAIN raw = {"ROOT_DIR", "LOG_FILE", "LOG_LEVEL", "DB_DRIVER", "DB_DSN",
                    "WEB_ENABLED", "WEB_PORT"}
  BY DEF Settings, Overridden, Default
<1> HIDE DEF raw
<1>2. Load(env, disk, cwd) = sanitize(raw, cwd)
  BY DEF Load, raw
<1>3. LET c == sanitize(raw, cwd)
          root == Abs(cwd, raw.ROOT_DIR)
      IN  /\ c.ROOT_DIR = root /\ c.DB_DRIVER = raw.DB_DRIVER
          /\ c.DB_DSN = SanitizedDSN(root, raw.DB_DRIVER, raw.DB_DSN)
          /\ c.SOCKET = root \o <<"data", "sourcevault.sock">>
          /\ c.LOG_FILE = IF raw.LOG_FILE = <<>> THEN <<>> ELSE Anchored(root, raw.LOG_FILE)
  BY <1>1 DEF sanitize, Overlay
<1> QED
  BY <1>2, <1>3 DEF raw

(* The path of a SQLite database is absolute.                              *)
LEMMA AbsDSN ==
  ASSUME NEW E, Literals \subseteq E, NEW root \in Seq(E), IsAbs(root),
         NEW driver, IsSQLite(driver), NEW dsn \in Seq(E), ~IsURI(dsn)
  PROVE  IsAbs(SanitizedDSN(root, driver, dsn))
<1>1. CASE IsBareName(dsn)
  <2>1. SanitizedDSN(root, driver, dsn) = (root \o <<"data", "database">>) \o dsn
    BY <1>1 DEF SanitizedDSN
  <2> QED
    BY <2>1, DatabaseDirectory, AbsJoin
<1>2. CASE ~IsBareName(dsn)
  BY <1>2, AbsJoin DEF SanitizedDSN, Anchored
<1> QED
  BY <1>1, <1>2

(* The locations depend on the working directory only through the          *)
(* environment file, and not if it cannot say any, or has none to say.     *)
LEMMA SameLocations ==
  ASSUME NEW env, NEW disk, NEW cwd1, NEW cwd2,
         \/ IsAbs(EnvFile(env))
         \/ {EnvPath(env, cwd1), EnvPath(env, cwd2)} \cap DOMAIN disk = {}
         \/ Locations \subseteq DOMAIN env
  PROVE  \A n \in Locations : Settings(env, disk, cwd1)[n] = Settings(env, disk, cwd2)[n]
<1> DEFINE f1 == FileSettings(env, disk, cwd1)
           f2 == FileSettings(env, disk, cwd2)
<1>1. CASE f1 = f2
  BY <1>1 DEF Settings
<1>2. CASE Locations \subseteq DOMAIN env
  <2> HIDE DEF f1, f2
  <2>1. \A n \in Locations : /\ n \in DOMAIN Environment(env, f1)
                             /\ n \in DOMAIN Environment(env, f2)
                             /\ Environment(env, f1)[n] = Environment(env, f2)[n]
    BY <1>2 DEF Environment, Overlay
  <2>2. Locations \subseteq DOMAIN Default
    BY DEF Default, Locations
  <2> QED
    BY <2>1, <2>2 DEF Settings, Overridden, f1, f2
<1>3. CASE \/ IsAbs(EnvFile(env))
           \/ {EnvPath(env, cwd1), EnvPath(env, cwd2)} \cap DOMAIN disk = {}
  <2>1. f1 = f2
    BY <1>3 DEF FileSettings, EnvPath, Abs
  <2> QED
    BY <1>1, <2>1
<1> QED
  BY <1>2, <1>3

(* The files are the same from any two directories, if no environment file *)
(* can make a difference between them.                                     *)
THEOREM SameFilesTheorem ==
  ASSUME NEW E, Literals \subseteq E, NEW env, NEW disk, Variables(env, E), Files(disk, E),
         NEW cwd1, NEW cwd2
  PROVE  SameFiles(env, disk, cwd1, cwd2)
<1> DEFINE raw == Settings(env, disk, cwd1)
           raw2 == Settings(env, disk, cwd2)
           c1 == Load(env, disk, cwd1)
           c2 == Load(env, disk, cwd2)
<1> SUFFICES ASSUME \/ IsAbs(EnvFile(env))
                    \/ {EnvPath(env, cwd1), EnvPath(env, cwd2)} \cap DOMAIN disk = {}
                    \/ Locations \subseteq DOMAIN env,
                    IsAbs(raw.ROOT_DIR), IsSQLite(raw.DB_DRIVER), ~IsURI(raw.DB_DSN)
             PROVE  /\ DatabaseFile(c1, cwd1) = DatabaseFile(c2, cwd2)
                    /\ c1.SOCKET = c2.SOCKET /\ c1.LOG_FILE = c2.LOG_FILE
  BY DEF SameFiles
<1>1. /\ raw2.ROOT_DIR = raw.ROOT_DIR /\ raw2.LOG_FILE = raw.LOG_FILE
      /\ raw2.DB_DRIVER = raw.DB_DRIVER /\ raw2.DB_DSN = raw.DB_DSN
  BY SameLocations DEF Locations
<1>2. raw.ROOT_DIR \in Seq(E) /\ raw.DB_DSN \in Seq(E)
  BY RawTexts DEF Locations
<1>3. /\ c1 = Load(env, disk, cwd1) /\ c2 = Load(env, disk, cwd2)
      /\ Abs(cwd1, raw.ROOT_DIR) = raw.ROOT_DIR /\ Abs(cwd2, raw2.ROOT_DIR) = raw2.ROOT_DIR
  BY <1>1 DEF Abs
<1>4. /\ c1.DB_DSN = SanitizedDSN(raw.ROOT_DIR, raw.DB_DRIVER, raw.DB_DSN)
      /\ c2.DB_DSN = c1.DB_DSN
      /\ c1.SOCKET = c2.SOCKET /\ c1.LOG_FILE = c2.LOG_FILE
  <2> HIDE DEF c1, c2
  <2>1. /\ c1.DB_DSN = SanitizedDSN(raw.ROOT_DIR, raw.DB_DRIVER, raw.DB_DSN)
        /\ c1.SOCKET = raw.ROOT_DIR \o <<"data", "sourcevault.sock">>
        /\ c1.LOG_FILE = IF raw.LOG_FILE = <<>> THEN <<>> ELSE Anchored(raw.ROOT_DIR, raw.LOG_FILE)
    BY <1>3, Sanitized
  <2>2. /\ c2.DB_DSN = SanitizedDSN(raw2.ROOT_DIR, raw2.DB_DRIVER, raw2.DB_DSN)
        /\ c2.SOCKET = raw2.ROOT_DIR \o <<"data", "sourcevault.sock">>
        /\ c2.LOG_FILE = IF raw2.LOG_FILE = <<>> THEN <<>> ELSE Anchored(raw2.ROOT_DIR, raw2.LOG_FILE)
    BY <1>3, Sanitized
  <2> QED
    BY <1>1, <2>1, <2>2
<1>5. IsAbs(c1.DB_DSN)
  BY <1>2, <1>4, AbsDSN
<1>6. DatabaseFile(c1, cwd1) = c1.DB_DSN /\ DatabaseFile(c2, cwd2) = c2.DB_DSN
  <2> HIDE DEF c1, c2
  <2> QED
    BY <1>4, <1>5 DEF DatabaseFile, Abs
<1> QED
  BY <1>4, <1>6

(* A start creates the directory of a database with a bare name.           *)
THEOREM BareNameTheorem ==
  ASSUME NEW E, Literals \subseteq E, NEW env, NEW disk, Variables(env, E), Files(disk, E),
         NEW cwd \in Seq(E), IsAbs(cwd)
  PROVE  DatabaseHasDirectory(env, disk, cwd)
<1> DEFINE raw == Settings(env, disk, cwd)
           c == Load(env, disk, cwd)
           root == Abs(cwd, raw.ROOT_DIR)
           dir == root \o <<"data", "database">>
<1> SUFFICES ASSUME IsSQLite(raw.DB_DRIVER), IsBareName(raw.DB_DSN)
             PROVE  Front(DatabaseFile(c, cwd)) \in Directories(c)
  BY DEF DatabaseHasDirectory
<1>1. raw.ROOT_DIR \in Seq(E) /\ raw.DB_DSN \in Seq(E)
  BY RawTexts DEF Locations
<1>2. root \in Seq(E) /\ IsAbs(root)
  BY <1>1, AbsJoin DEF Abs
<1>4. /\ c.ROOT_DIR = root /\ c.DB_DRIVER = raw.DB_DRIVER
      /\ c.DB_DSN = SanitizedDSN(root, raw.DB_DRIVER, raw.DB_DSN)
  BY Sanitized
<1> HIDE DEF raw, c, root
<1>5. c.DB_DSN = dir \o raw.DB_DSN
  BY <1>4 DEF SanitizedDSN, IsBareName
<1>6. dir \in Seq(E) /\ IsAbs(dir)
  BY <1>2, DatabaseDirectory
<1> HIDE DEF dir
<1>7. DatabaseFile(c, cwd) = dir \o raw.DB_DSN
  BY <1>1, <1>5, <1>6, AbsJoin DEF DatabaseFile, Abs
<1>8. Front(dir \o raw.DB_DSN) = dir
  BY <1>1, <1>6, FrontJoin DEF IsBareName
<1> QED
  BY <1>4, <1>7, <1>8 DEF Directories, dir

----------------------------------------------------------------------------
(* The runs of MCFunctions.                                                *)

InputInv == input \in {None} \cup Durations \cup Revocations \cup Configurations

LEMMA AlwaysInputInv == Spec => []InputInv
<1>1. Init => InputInv
  BY DEF Init, InputInv
<1>2. InputInv /\ [Next]_input => InputInv'
  BY DEF Next, Parse, Revoke, Configure, Return, InputInv
<1> QED
  BY <1>1, <1>2, PTL DEF Spec

LEMMA InputKinds ==
  ASSUME InputInv
  PROVE  /\ input.kind = "duration" => input \in Durations
         /\ input.kind = "revocation" => input \in Revocations
         /\ input.kind = "config" => input \in Configurations
<1>1. None.kind = "none"
  BY DEF None
<1>2. \A i \in Durations : i.kind = "duration"
  BY DEF Durations
<1>3. \A i \in Revocations : i.kind = "revocation"
  BY DEF Revocations
<1>4. \A i \in Configurations : i.kind = "config"
  BY DEF Configurations
<1> QED
  BY <1>1, <1>2, <1>3, <1>4 DEF InputInv

LEMMA DurationInputs == \A i \in Durations : i.text \in Text /\ i.now \in 0..Half
<1> SUFFICES ASSUME NEW i \in Durations PROVE i.text \in Text /\ i.now \in 0..Half
  OBVIOUS
<1>1. PICK u \in {"h", "d", "w", "M", "y"} :
        i \in [kind : {"duration"}, text : [val : Vals(u), unit : {u}],
               now : {Half \div 5}, days : {0, 365}]
  BY DEF Durations
<1>2. Vals(u) \subseteq Int
  BY DEF Vals, Near
<1>3. i.text \in Text
  BY <1>1, <1>2 DEF Text
<1>4. Half \div 5 \in 0..Half
  BY ValidityAssumption
<1> QED
  BY <1>1, <1>3, <1>4

(* What the paths and the values of the inputs are made of.                *)
Elements ==
  Literals \cup {"etc", "sv.env", "sourcevault.env", "srv", "app.log", "logs", "absent", "sqlite", "SQLite3", "postgres",
                 "a.db", "dir", "var", "file:", "tmp",
                 "WARNING", "loud", "TRUE", "no", "9090", "ninety"}

LEMMA ConfigurationInputs ==
  \A i \in Configurations : Variables(i.env, Elements) /\ Files(i.disk, Elements)
<1> DEFINE Ok(v) == v \in Seq(Elements)
<1>0. /\ Ok(<<>>) /\ Ok(<<"absent">>)
      /\ \A a \in Elements : Ok(<<a>>)
      /\ \A a, b \in Elements : Ok(<<a, b>>)
      /\ \A a, b, c \in Elements : Ok(<<a, b, c>>)
  BY Texts DEF Elements
<1> HIDE DEF Ok
<1>1. \A r \in Places : \A n \in DOMAIN r : Ok(r[n])
  <2> SUFFICES ASSUME NEW r \in Places, NEW n \in DOMAIN r PROVE Ok(r[n])
    OBVIOUS
  <2>1. n \in {"CONFIG_FILE", "ROOT_DIR", "LOG_FILE", "DB_DRIVER", "DB_DSN"}
    BY DEF Places
  <2>2. \A v \in {Absent, <<"/", "srv">>, <<"srv">>} : Ok(v)
    BY <1>0 DEF Elements, Literals, Absent
  <2>3. \A v \in {Absent, <<"app.log">>, <<"logs", "app.log">>} : Ok(v)
    BY <1>0 DEF Elements, Literals, Absent
  <2>4. \A v \in {Absent, <<"sqlite">>, <<"SQLite3">>, <<"postgres">>} : Ok(v)
    BY <1>0 DEF Elements, Literals, Absent
  <2>5. \A v \in {Absent, <<>>, <<"a.db">>, <<"dir", "a.db">>, <<"/", "var", "a.db">>,
                  <<"file:", "a.db">>} : Ok(v)
    BY <1>0 DEF Elements, Literals, Absent
  <2>6. \A v \in {Absent, <<>>, <<"/", "etc", "sv.env">>} : Ok(v)
    BY <1>0 DEF Elements, Literals, Absent
  <2> QED
    BY <2>1, <2>2, <2>3, <2>4, <2>5, <2>6 DEF Places
<1>2. \A r \in Switches : \A n \in DOMAIN r : Ok(r[n])
  <2> SUFFICES ASSUME NEW r \in Switches, NEW n \in DOMAIN r PROVE Ok(r[n])
    OBVIOUS
  <2>1. n \in {"LOG_LEVEL", "WEB_ENABLED", "WEB_PORT"}
    BY DEF Switches
  <2>2. \A v \in {Absent, <<"WARNING">>, <<"loud">>} : Ok(v)
    BY <1>0 DEF Elements, Literals, Absent
  <2>3. \A v \in {Absent, <<>>, <<"TRUE">>, <<"no">>} : Ok(v)
    BY <1>0 DEF Elements, Literals, Absent
  <2>4. \A v \in {Absent, <<"9090">>, <<"ninety">>} : Ok(v)
    BY <1>0 DEF Elements, Literals, Absent
  <2> QED
    BY <2>1, <2>2, <2>3, <2>4 DEF Switches
<1>3. \A r : (\A n \in DOMAIN r : Ok(r[n])) => Variables(Present(r), Elements)
  BY DEF Present, Variables, Ok
<1>4. \A e \in Partial(Places) \cup Partial(Switches) \cup Partial(Elsewhere) :
        Variables(e, Elements)
  BY <1>1, <1>2, <1>3 DEF Partial, Elsewhere
<1>5. \A rs : \A d \in Disks(rs) : \A path \in DOMAIN d : d[path] \in Partial(rs)
  BY DEF Disks
<1>6. \A d \in Disks(Elsewhere) \cup Disks(Switches) : Files(d, Elements)
  BY <1>4, <1>5 DEF Files
<1> QED
  BY <1>4, <1>6 DEF Configurations

(* The days of ca create are kept.                                         *)
THEOREM DaysAreKeptTheorem == Spec => []DaysAreKept
<1>1. InputInv => DaysAreKept
  BY InputKinds, DurationInputs, KeepsDaysTheorem DEF DaysAreKept
<1> QED
  BY <1>1, AlwaysInputInv, PTL

(* The lifetime of ca sign is kept.                                        *)
THEOREM LifetimeIsKeptTheorem == Spec => []LifetimeIsKept
<1>1. InputInv => LifetimeIsKept
  BY InputKinds, DurationInputs, KeepsLifetimeTheorem DEF LifetimeIsKept
<1> QED
  BY <1>1, AlwaysInputInv, PTL

(* Commands in two directories find the same files, if no environment file *)
(* can make a difference between them.                                     *)
THEOREM FilesAreTheSameTheorem == Spec => []FilesAreTheSame
<1>1. InputInv => FilesAreTheSame
  BY InputKinds, ConfigurationInputs, SameFilesTheorem DEF FilesAreTheSame, Elements
<1> QED
  BY <1>1, AlwaysInputInv, PTL

(* A database with a bare name has its directory.                          *)
THEOREM BareNameHasDirectoryTheorem == Spec => []BareNameHasDirectory
<1>1. Tmp \in Seq(Elements) /\ IsAbs(Tmp)
  BY Texts DEF Tmp, Elements, Literals, IsAbs
<1>2. InputInv => BareNameHasDirectory
  BY <1>1, InputKinds, ConfigurationInputs, BareNameTheorem DEF BareNameHasDirectory, Elements
<1> QED
  BY <1>2, AlwaysInputInv, PTL
=============================================================================
