-------------------------------- MODULE KRL --------------------------------
(***************************************************************************)
(* The serial that CASigner.Sign gives a certificate and the binary list   *)
(* of revoked serials that GenerateKRL (internal/crypto/krl.go) writes for *)
(* sshd, against a reader of that format (external: OpenSSH).  Bytes are   *)
(* sequences of fields, each with its width in bytes, so that a length     *)
(* prefix that counts something else is seen.                              *)
(***************************************************************************)
EXTENDS Integers, Sequences, FiniteSets, SequencesExt

CONSTANT HalfSerial \* 2^63: a random serial is below its double

ASSUME KRLAssumption == HalfSerial \in Nat \ {0}

Field(width, value) == [width |-> width, value |-> value]
Bytes(data) == FoldLeft(LAMBDA n, f : n + f.width, 0, data)

writeSSHString(data) == <<Field(4, Bytes(data))>> \o data

BugSerial(random) == random % HalfSerial

(* The mask makes it fit a signed 64 bit integer, and it is never 0.       *)
Serial(random) == IF random % HalfSerial = 0 THEN 1 ELSE random % HalfSerial

----------------------------------------------------------------------------
(* The magic number, the version of the format, the time twice, flags, a   *)
(* reserved string and the comment.                                        *)
Header ==
  <<Field(8, 0), Field(4, 1), Field(8, 0), Field(8, 0), Field(8, 0)>>
    \o writeSSHString(<<>>) \o writeSSHString(<<Field(24, 0)>>)

SerialList(serials) ==
  writeSSHString(<<>>) \o writeSSHString(<<>>) \o <<Field(1, 32)>>
    \o writeSSHString([i \in DOMAIN serials |-> Field(8, serials[i])])

BugKeepZeros(serials) == serials

(* The serials that are not 0, in their order: the k-th of them is where k *)
(* of them have been seen (SelectSeq, which the provers do not know).      *)
validSerials(serials) ==
  LET valid == {i \in DOMAIN serials : serials[i] # 0}
      nth(k) == CHOOSE i \in valid : Cardinality(valid \cap (1..i)) = k
  IN  [k \in 1..Cardinality(valid) |-> serials[nth(k)]]

GenerateKRL(serials) ==
  Header \o
    IF validSerials(serials) = <<>> THEN <<>>
    ELSE <<Field(1, 1)>> \o writeSSHString(SerialList(validSerials(serials)))

----------------------------------------------------------------------------
(* The reader.  A string is as many fields as its prefix says bytes.       *)

From(data, i) == SubSeq(data, i, Len(data))

Ends(data) == {k \in 1..Len(data) : Bytes(SubSeq(data, 2, k)) = data[1].value}
IsString(data) == data # <<>> /\ Ends(data) # {}
Content(data) == SubSeq(data, 2, Max(Ends(data)))

(* Two strings, for any CA and reserved, and the list of serials.          *)
IsSection(s) ==
  /\ Len(s) >= 4 /\ s[1] = Field(4, 0) /\ s[2] = Field(4, 0) /\ s[3] = Field(1, 32)
  /\ IsString(From(s, 4)) /\ Content(From(s, 4)) = From(s, 5)
  /\ \A i \in 5..Len(s) : s[i].width = 8 /\ s[i].value # 0

Sections(krl) == From(krl, Len(Header) + 1)

(* No section, or one to the end of the file; a serial 0 is an error.      *)
Readable(krl) ==
  LET rest == Sections(krl)
  IN  \/ rest = <<>>
      \/ /\ rest[1] = Field(1, 1) /\ IsString(Tail(rest))
         /\ Content(Tail(rest)) = From(rest, 3) /\ IsSection(From(rest, 3))

RevokedBy(krl) == {Sections(krl)[i].value : i \in 7..Len(Sections(krl))}

----------------------------------------------------------------------------
(* Properties of a list of serials, and of the random numbers that gave it.*)

(* The list is read back as what it revokes; the zeros in it are left out, *)
(* as the reader would reject the whole list for one, and a list of zeros  *)
(* alone has no section.                                                   *)
RevokesSerials(serials) ==
  LET krl == GenerateKRL(serials)
  IN  Readable(krl) /\ RevokedBy(krl) = ToSet(serials) \ {0}

(* Whatever Sign has issued can be revoked.                                *)
RevokesIssued(randoms) ==
  LET issued == [i \in DOMAIN randoms |-> Serial(randoms[i])]
  IN  RevokedBy(GenerateKRL(issued)) = ToSet(issued)
=============================================================================
