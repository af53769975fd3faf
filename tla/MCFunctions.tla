---------------------------- MODULE MCFunctions ----------------------------
(***************************************************************************)
(* The pure functions of Validity, KRL and Config, one call after another, *)
(* each with any of the inputs below: the numbers on both sides of every   *)
(* limit, every list of up to MaxSerials random numbers, and each setting  *)
(* absent, usual or odd, in the environment, an environment file, or both. *)
(***************************************************************************)
EXTENDS Validity, KRL, Config, FiniteSetsExt

CONSTANT MaxSerials \* bound on the length of a revocation list

VARIABLE input \* of the call there is now, or of none

Near(n) == (n - 2)..(n + 2)

Vals(unit) ==
  LET limit == Half \div Asked([val |-> 1, unit |-> unit])
  IN  -50..50 \cup UNION {Near(k) : k \in {-limit, limit, 2 * limit, 720, Half, -720}}

Durations ==
  UNION {[kind : {"duration"}, text : [val : Vals(u), unit : {u}],
          now : {Half \div 5}, days : {0, 365}]
          : u \in {"h", "d", "w", "M", "y"}}

Revocations ==
  [kind : {"revocation"}, list : SeqOf(0..(2 * HalfSerial - 1), MaxSerials)]

Absent == <<"absent">>
Present(r) == [n \in {x \in DOMAIN r : r[x] # Absent} |-> r[n]]

Places ==
  [CONFIG_FILE : {Absent, <<>>, <<"/", "etc", "sv.env">>},
   ROOT_DIR : {Absent, <<"/", "srv">>, <<"srv">>},
   LOG_FILE : {Absent, <<"app.log">>, <<"logs", "app.log">>},
   DB_DRIVER : {Absent, <<"sqlite">>, <<"SQLite3">>, <<"postgres">>},
   DB_DSN : {Absent, <<>>, <<"a.db">>, <<"dir", "a.db">>, <<"/", "var", "a.db">>,
             <<"file:", "a.db">>}]

Switches ==
  [LOG_LEVEL : {Absent, <<"WARNING">>, <<"loud">>},
   WEB_ENABLED : {Absent, <<>>, <<"TRUE">>, <<"no">>},
   WEB_PORT : {Absent, <<"9090">>, <<"ninety">>}]

Partial(rs) == {Present(r) : r \in rs}

(* What a file can say of the places.                                      *)
Elsewhere ==
  {p \in Places : /\ p.CONFIG_FILE = Absent /\ p.LOG_FILE = Absent
                  /\ p.DB_DRIVER \in {Absent, <<"SQLite3">>}
                  /\ p.DB_DSN \notin {Absent, <<>>}}

(* One environment file, in one of the working directories or in neither.  *)
Home == <<"/", "home">>
Tmp  == <<"/", "tmp">>
Disks(rs) ==
  UNION {[{path} -> Partial(rs)] :
           path \in {Home \o <<"sourcevault.env">>, Tmp \o <<"sourcevault.env">>,
                     <<"/", "etc", "sv.env">>}}

Configurations ==
  [kind : {"config"}, env : Partial(Places), disk : Disks(Elsewhere)]
    \cup [kind : {"config"}, env : Partial(Switches), disk : Disks(Switches)]

None == [kind |-> "none"]

Init == input = None

Parse == input = None /\ input' \in Durations
Revoke == input = None /\ input' \in Revocations
Configure == input = None /\ input' \in Configurations
Return == input # None /\ input' = None

Next == Parse \/ Revoke \/ Configure \/ Return

Spec == Init /\ [][Next]_input

----------------------------------------------------------------------------
(* Each property of the three modules, of the input there is.              *)

(* --valid-for of ca create, through hours and days.                       *)
DaysAreKept == input.kind = "duration" => KeepsDays(input.text)

(* --valid-for of ca sign.                                                 *)
LifetimeIsKept == input.kind = "duration" => KeepsLifetime(input.text, input.now)

(* A revocation list, with zeros in it.                                    *)
SerialsAreRevoked == input.kind = "revocation" => RevokesSerials(input.list)

(* A revocation list of certificates that Sign issued.                     *)
IssuedIsRevocable == input.kind = "revocation" => RevokesIssued(input.list)

(* Two working directories.                                                *)
FilesAreTheSame ==
  input.kind = "config" => SameFiles(input.env, input.disk, Home, Tmp)

(* A bare file name as DSN.                                                *)
BareNameHasDirectory ==
  input.kind = "config" => DatabaseHasDirectory(input.env, input.disk, Tmp)

(* What the help of ca create says, hours included.                        *)
CreatedIsAsked == input.kind = "duration" => CreatesAsAsked(input.text)

(* What ParseHumanDuration's comment says, whatever the number.            *)
ParsedIsDocumented == input.kind = "duration" => ParsesAsDocumented(input.text)

(* What the help of ca rotate says.                                        *)
RotatedIsAsked ==
  input.kind = "duration" => RotatesAsAsked(input.text, input.days)

(* What db.Initialize's comment says.                                      *)
DSNIsSanitized ==
  input.kind = "config" => DSNIsAbsolute(input.env, input.disk, Tmp)

(* What the sample environment file says.                                  *)
LogOpensAfterStart ==
  input.kind = "config" => LogFileOpens(input.env, input.disk, Tmp)

(* What start.go says of the commands, in two working directories.         *)
CommandsFindServer ==
  input.kind = "config" => SameSocket(input.env, input.disk, Home, Tmp)

(* What README.md says of the defaults.                                    *)
DefaultsAreDocumented ==
  input.kind = "config" => DefaultsAsDocumented(input.env, input.disk, Tmp)
=============================================================================
