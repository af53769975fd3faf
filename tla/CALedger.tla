----------------------------- MODULE CALedger -----------------------------
(***************************************************************************)
(* What the registry promises to those who only read its published branch: *)
(* a ledger of certificate authorities.  A record, once published, is      *)
(* never lost and only ever changes from live to revoked, and only a CA    *)
(* that is already in the ledger is made the active one.                   *)
(***************************************************************************)
CONSTANTS CA, NoCA, Absent, Live, Revoked

VARIABLES
  record,    \* the published state of every CA
  active     \* the CA published as active

LedgerInit == record = [u \in CA |-> Absent] /\ active = NoCA

(* A record may be published and revoked by one push, when the command     *)
(* that made it died between its commit and its push.                      *)
AtMost(c, d) == c = d \/ c = Absent \/ (c = Live /\ d = Revoked)

(* One push publishes everything committed since the last one, what        *)
(* commands that died left behind included.                                *)
Publish ==
  /\ record' \in [CA -> {Absent, Live, Revoked}]
  /\ \A u \in CA : AtMost(record[u], record'[u])
  /\ active' = active \/ (active' \in CA /\ record[active'] # Absent)

LedgerSpec == LedgerInit /\ [][Publish]_<<record, active>>
=============================================================================
