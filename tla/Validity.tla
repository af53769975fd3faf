------------------------------ MODULE Validity ------------------------------
(***************************************************************************)
(* How long a CA and a certificate are valid: from the text of --valid-for *)
(* through ParseHumanDuration (internal/crypto/cert.go), the days of       *)
(* CAConfig and time.Duration, which counts nanoseconds in 64 bits and     *)
(* wraps around, to ValidUntil of a CA and ValidBefore of a certificate.   *)
(*                                                                         *)
(* The width is a constant, and so is how many units of time an hour has:  *)
(* with both as small as TLC needs them the order of the cases is kept, as *)
(* a year still has 8760 hours and fits only a few times.  Minutes and     *)
(* seconds take the way of hours, with less to multiply by.                *)
(***************************************************************************)
EXTENDS Integers

CONSTANTS
  Half, \* 2^63: integers are -Half..(Half - 1)
  Hour  \* time.Hour

ASSUME ValidityAssumption == Half \in Nat \ {0} /\ Hour \in Nat \ {0}

Int64 == -Half..(Half - 1)
Wrap(x) == ((x + Half) % (2 * Half)) - Half
Day == 24 * Hour

(* The text of a duration: a number, its sign included, and a unit.        *)
Text == [val : Int, unit : {"h", "d", "w", "M", "y"}]

(* What the text means, by the documentation: "d: days (24h)", "w: weeks   *)
(* (7d)", "M: months (30d)", "y: years (365d)".                            *)
Asked(t) ==
  t.val * (CASE t.unit = "h" -> Hour
             [] t.unit = "d" -> 24 * Hour
             [] t.unit = "w" -> 7 * 24 * Hour
             [] t.unit = "M" -> 30 * 24 * Hour
             [] t.unit = "y" -> 365 * 24 * Hour)

(* Hours go to time.ParseDuration, which knows a sign and reports overflow.*)
(* What it rejects meets the regular expression, which knows no sign, then *)
(* strconv.ParseInt.                                                       *)
Standard(t) == t.unit = "h" /\ t.val * Hour \in Int64

Accepted(t) == Standard(t) \/ t.val \in 0..(Half - 1)

BugMultiplier == [h |-> Hour, d |-> Day, w |-> 7 * Day, M |-> 30 * 24, y |-> 365 * Day]

Multiplier == [h |-> Hour, d |-> Day, w |-> 7 * Day, M |-> 30 * Day, y |-> 365 * Day]

ParseHumanDuration(t) ==
  IF Standard(t) THEN t.val * Hour ELSE Wrap(t.val * Multiplier[t.unit])

----------------------------------------------------------------------------
(* int(d.Hours() / 24), which truncates towards zero.                      *)
DefaultValidDays(d) == IF d >= 0 THEN d \div Day ELSE -((-d) \div Day)

(* time.Duration(days) * 24 * time.Hour.                                   *)
ValidFor(days) == Wrap(days * Day)

(* ca create: what its CA gets, and ca rotate, which runs the code of ca   *)
(* create on the flags of ca create, and these nobody has set.             *)
Created(t) == ValidFor(DefaultValidDays(ParseHumanDuration(t)))
Rotated(t, defaultDays) == ValidFor(defaultDays)

BugValidBefore(now, d) == now + ValidFor(DefaultValidDays(d))

(* ca sign: uint64(now.Add(cfg.ValidFor).Unix()).                          *)
ValidBefore(now, d) == (now + d) % (2 * Half)

----------------------------------------------------------------------------
(* Properties of a text t, and of a time now.                              *)

(* A whole number of days that fits is what the CA is valid for, in        *)
(* whatever unit it was given and through both conversions.                *)
KeepsDays(t) ==
  Accepted(t) /\ Asked(t) \in Int64 /\ Asked(t) % Day = 0 => Created(t) = Asked(t)

(* "ValidFor is the certificate lifetime from the moment of signing"       *)
(* (cert.go:53), for a lifetime that fits.                                 *)
KeepsLifetime(t, now) ==
  Accepted(t) /\ Asked(t) \in 0..(Half - 1) =>
    ValidBefore(now, ParseHumanDuration(t)) - now = Asked(t)

(* "Certificate validity period e.g. 1y, 2M, 30d, 12h" (ca.go:446): a CA   *)
(* is valid for what was asked.                                            *)
CreatesAsAsked(t) ==
  Accepted(t) /\ Asked(t) \in 0..(Half - 1) => Created(t) = Asked(t)

(* A text that is accepted means what the documentation says.              *)
ParsesAsDocumented(t) == Accepted(t) => ParseHumanDuration(t) = Asked(t)

(* "Validity period for the new CA e.g. 1y" (ca.go:456).                   *)
RotatesAsAsked(t, defaultDays) ==
  Accepted(t) /\ Asked(t) \in 1..(Half - 1) => Rotated(t, defaultDays) = Created(t)
=============================================================================
