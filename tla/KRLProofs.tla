------------------------------ MODULE KRLProofs ------------------------------
(***************************************************************************)
(* The revocation lists of KRL, for every list of serials: the proofs need *)
(* no induction, as a list prefix is compared with the same sum that wrote *)
(* it, and the serials that are kept are numbered by how many there are up *)
(* to each.                                                                *)
(***************************************************************************)
EXTENDS FunctionsProofs, FiniteSetTheorems

(* The elements of a set of indexes and their ranks, 1 to their number,    *)
(* correspond to each other.                                               *)
LEMMA Ranks ==
  ASSUME NEW n \in Nat, NEW I \in SUBSET (1..n)
  PROVE  /\ Cardinality(I) \in Nat
         /\ Cardinality(I) = 0 <=> I = {}
         /\ \A i \in I : Cardinality(I \cap (1..i)) \in 1..Cardinality(I)
         /\ \A i, j \in I : Cardinality(I \cap (1..i)) = Cardinality(I \cap (1..j)) => i = j
         /\ \A k \in 1..Cardinality(I) : \E i \in I : Cardinality(I \cap (1..i)) = k
<1> DEFINE rank(i) == Cardinality(I \cap (1..i))
           N == Cardinality(I)
<1>1. IsFiniteSet(I) /\ N \in Nat /\ (N = 0 <=> I = {})
  <2>1. IsFiniteSet(1..n)
    BY FS_Interval
  <2>2. IsFiniteSet(I)
    BY <2>1, FS_Subset
  <2> QED
    BY <2>2, FS_CardinalityType, FS_EmptySet
<1>2. \A S \in SUBSET I : Cardinality(S) \in 0..N /\ (Cardinality(S) = 0 <=> S = {})
  <2> TAKE S \in SUBSET I
  <2>1. IsFiniteSet(S) /\ Cardinality(S) <= N
    BY <1>1, FS_Subset
  <2>2. Cardinality(S) \in Nat /\ (Cardinality(S) = 0 <=> S = {})
    BY <2>1, FS_CardinalityType, FS_EmptySet
  <2> QED
    BY <2>1, <2>2, <1>1
<1>3. \A i \in I : rank(i) \in 1..N
  <2> TAKE i \in I
  <2>1. i \in I \cap (1..i)
    OBVIOUS
  <2> QED
    BY <2>1, <1>2, <1>1
<1>4. \A i, j \in I : i < j => rank(i) < rank(j)
  <2> SUFFICES ASSUME NEW i \in I, NEW j \in I, i < j
               PROVE  rank(i) < rank(j)
    OBVIOUS
  <2> DEFINE S == I \cap (1..i)
             T == I \cap (1..j)
  <2>1. S \subseteq T /\ j \in T /\ j \notin S
    OBVIOUS
  <2>2. IsFiniteSet(T) /\ Cardinality(S) \in Nat /\ Cardinality(T) \in Nat
    BY <1>1, <1>2, FS_Subset
  <2>3. Cardinality(S) <= Cardinality(T) /\ (Cardinality(S) = Cardinality(T) => S = T)
    BY <2>1, <2>2, FS_Subset
  <2> HIDE DEF S, T
  <2>4. Cardinality(S) < Cardinality(T)
    BY <2>1, <2>2, <2>3
  <2> QED
    BY <2>4 DEF S, T
<1>5. \A i, j \in I : rank(i) = rank(j) => i = j
  <2> SUFFICES ASSUME NEW i \in I, NEW j \in I, rank(i) = rank(j)
               PROVE  i = j
    OBVIOUS
  <2>1. i \in Int /\ j \in Int /\ rank(i) \in Int /\ rank(j) \in Int
    BY <1>1, <1>3
  <2>2. ~(i < j) /\ ~(j < i)
    <3> HIDE DEF rank
    <3> QED
      BY <1>4, <2>1
  <2> QED
    BY <2>1, <2>2
<1>6. \A k \in 1..N : \E i \in I : rank(i) = k
  <2> SUFFICES ASSUME NEW k \in 1..N, \A i \in I : rank(i) # k
               PROVE  FALSE
    OBVIOUS
  <2> DEFINE r == [i \in I |-> rank(i)]
             T == (1..N) \ {k}
  <2>1. IsFiniteSet(1..N) /\ Cardinality(1..N) = N
    BY <1>1, FS_Interval
  <2>2. IsFiniteSet(T) /\ Cardinality(T) = N - 1
    <3>1. Cardinality(T) = IF k \in 1..N THEN Cardinality(1..N) - 1 ELSE Cardinality(1..N)
      BY <2>1, FS_RemoveElement, Zenon
    <3>2. IsFiniteSet(T)
      BY <2>1, FS_RemoveElement, Zenon
    <3> QED
      BY <2>1, <3>1, <3>2
  <2>3. r \in [I -> T]
    <3> HIDE DEF rank
    <3> QED
      BY <1>3
  <2>4. Cardinality(T) < Cardinality(I)
    BY <2>2, <1>1
  <2> HIDE DEF T
  <2>5. \E i, j \in I : i # j /\ r[i] = r[j]
    BY <2>2, <2>3, <2>4, <1>1, FS_PigeonHole
  <2> QED
    BY <2>5, <1>5
<1> QED
  BY <1>1, <1>3, <1>5, <1>6

(* What is kept are the serials that are not 0, each of them.              *)
LEMMA ValidSerials ==
  ASSUME NEW serials \in Seq(Nat)
  PROVE  /\ validSerials(serials) \in Seq(Nat \ {0})
         /\ ToSet(validSerials(serials)) = ToSet(serials) \ {0}
<1> DEFINE I == {i \in DOMAIN serials : serials[i] # 0}
           rank(i) == Cardinality(I \cap (1..i))
           nth(k) == CHOOSE i \in I : rank(i) = k
           N == Cardinality(I)
           v == validSerials(serials)
<1>1. I \in SUBSET (1..Len(serials)) /\ Len(serials) \in Nat
  OBVIOUS
<1>2. v = [k \in 1..N |-> serials[nth(k)]]
  BY DEF validSerials
<1>3. /\ N \in Nat
      /\ \A i \in I : rank(i) \in 1..N
      /\ \A i, j \in I : rank(i) = rank(j) => i = j
      /\ \A k \in 1..N : \E i \in I : rank(i) = k
  <2> HIDE DEF I
  <2> QED
    BY <1>1, Ranks
<1> HIDE DEF rank, v
<1>4. \A k \in 1..N : nth(k) \in I
  BY <1>3
<1>5. \A i \in I : nth(rank(i)) = i
  BY <1>3
<1> HIDE DEF nth, N
<1>6. \A k \in 1..N : serials[nth(k)] \in Nat \ {0}
  BY <1>4
<1>7. v \in Seq(Nat \ {0})
  BY <1>2, <1>3, <1>6
<1>8. ToSet(v) = {serials[i] : i \in I}
  BY <1>2, <1>3, <1>4, <1>5 DEF ToSet
<1>9. ToSet(serials) \ {0} = {serials[i] : i \in I}
  BY DEF ToSet
<1> QED
  BY <1>7, <1>8, <1>9 DEF v

----------------------------------------------------------------------------
(* Sequences of fields.                                                    *)

LEMMA NoBytes == Bytes(<<>>) = 0
<1> DEFINE Is(iter) ==
             iter = [s \in SUBSET {} |-> IF s = {} THEN 0
                                         ELSE LET x == Max(s)
                                              IN  iter[s \ {x}] + <<>>[x].width]
           iter0 == [s \in SUBSET {} |-> 0]
<1>1. DOMAIN <<>> = {}
  OBVIOUS
<1>2. Bytes(<<>>) = (CHOOSE iter : Is(iter))[{}]
  BY <1>1 DEF Bytes, FoldLeft, MapThenFoldSet
<1>3. Is(iter0)
  OBVIOUS
<1>4. \A iter : Is(iter) => iter[{}] = 0
  OBVIOUS
<1> HIDE DEF Is
<1> QED
  BY <1>2, <1>3, <1>4

LEMMA Suffix ==
  ASSUME NEW E, NEW s \in Seq(E), NEW t \in Seq(E), NEW n \in Nat, Len(s) = n + Len(t),
         \A i \in 1..Len(t) : s[n + i] = t[i]
  PROVE  From(s, n + 1) = t
<1> DEFINE d == SubSeq(s, n + 1, Len(s))
<1>1. Len(s) \in Nat /\ Len(t) \in Nat
  OBVIOUS
<1>2. d \in Seq(E) /\ Len(d) = Len(t) /\ \A i \in 1..Len(t) : d[i] = s[n + i]
  BY <1>1
<1>3. From(s, n + 1) = d
  BY DEF From
<1> HIDE DEF d
<1> QED
  BY <1>1, <1>2, <1>3

LEMMA Joined ==
  ASSUME NEW E, NEW s \in Seq(E), NEW t \in Seq(E)
  PROVE  /\ s \o t \in Seq(E)
         /\ \A i \in 1..Len(s) : (s \o t)[i] = s[i]
         /\ \A i \in 1..Len(t) : (s \o t)[Len(s) + i] = t[i]
  OBVIOUS

LEMMA Dropped ==
  ASSUME NEW E, NEW s \in Seq(E), NEW t \in Seq(E)
  PROVE  From(s \o t, Len(s) + 1) = t
<1> DEFINE u == s \o t
<1>1. u \in Seq(E) /\ \A i \in 1..Len(t) : u[Len(s) + i] = t[i]
  BY Joined
<1>2. Len(u) = Len(s) + Len(t)
  BY JoinedLength
<1>3. Len(s) \in Nat
  OBVIOUS
<1> HIDE DEF u
<1>4. From(u, Len(s) + 1) = t
  BY <1>1, <1>2, <1>3, Suffix, Zenon
<1> QED
  BY <1>4 DEF u

LEMMA Prefixed ==
  ASSUME NEW E, NEW f \in E, NEW data \in Seq(E)
  PROVE  LET s == <<f>> \o data
         IN  /\ s \in Seq(E)
             /\ Len(s) = Len(data) + 1
             /\ s[1] = f
             /\ \A i \in 1..Len(data) : s[i + 1] = data[i]
             /\ From(s, 2) = data
<1>1. PICK p \in Seq(E) : p = <<f>>
  BY Texts
<1>2. Len(p) = 1 /\ p[1] = f
  BY <1>1
<1>3. Len(p \o data) = Len(p) + Len(data) /\ Len(data) \in Nat
  BY JoinedLength
<1>4. /\ p \o data \in Seq(E)
      /\ \A i \in 1..Len(p) : (p \o data)[i] = p[i]
      /\ \A i \in 1..Len(data) : (p \o data)[Len(p) + i] = data[i]
  BY Joined
<1> DEFINE s == p \o data
<1> HIDE DEF s
<1>6. /\ s \in Seq(E) /\ Len(s) = Len(data) + 1 /\ s[1] = f
      /\ \A i \in 1..Len(data) : s[i + 1] = data[i]
  BY <1>2, <1>3, <1>4 DEF s
<1>7. From(s, 1 + 1) = data
  BY <1>6, Suffix
<1> QED
  BY <1>1, <1>6, <1>7 DEF s

(* What writeSSHString writes is a string to the reader, with the content  *)
(* it was given.                                                           *)
LEMMA Strings ==
  ASSUME NEW E, NEW data \in Seq(E), Field(4, Bytes(data)) \in E
  PROVE  LET s == writeSSHString(data)
         IN  /\ s \in Seq(E)
             /\ Len(s) = Len(data) + 1
             /\ s[1] = Field(4, Bytes(data))
             /\ \A i \in 1..Len(data) : s[i + 1] = data[i]
             /\ IsString(s)
             /\ Content(s) = data
<1> DEFINE f == Field(4, Bytes(data))
           s == <<f>> \o data
<1>2. writeSSHString(data) = s
  BY DEF writeSSHString
<1>3. f.value = Bytes(data)
  BY DEF Field
<1> HIDE DEF f
<1>5. /\ s \in Seq(E)
      /\ Len(s) = Len(data) + 1
      /\ s[1] = f
      /\ \A i \in 1..Len(data) : s[i + 1] = data[i]
      /\ From(s, 2) = data
  BY Prefixed DEF f
<1> HIDE DEF s
<1>7. Len(data) \in Nat /\ s # <<>>
  BY <1>5
<1>8. Ends(s) \in SUBSET (1..Len(s)) /\ Len(s) \in Ends(s)
  <2>1. Bytes(SubSeq(s, 2, Len(s))) = s[1].value
    BY <1>3, <1>5 DEF From
  <2>2. Len(s) \in 1..Len(s)
    BY <1>5, <1>7
  <2> QED
    BY <2>1, <2>2, Zenon DEF Ends
<1>9. Max(Ends(s)) = Len(s)
  <2> DEFINE T == Ends(s)
  <2> HIDE DEF T
  <2>1. T \in SUBSET (1..Len(s)) /\ Len(s) \in T /\ Len(s) \in Nat
    BY <1>8, <1>5, <1>7 DEF T
  <2>2. \A x \in T : (\A y \in T : x >= y) => x = Len(s)
    BY <2>1
  <2>3. \A y \in T : Len(s) >= y
    BY <2>1
  <2>4. Max(T) = Len(s)
    BY <2>1, <2>2, <2>3 DEF Max
  <2> QED
    BY <2>4 DEF T
<1>10. IsString(s) /\ Content(s) = data
  BY <1>5, <1>7, <1>8, <1>9 DEF IsString, Content, From
<1> QED
  BY <1>2, <1>5, <1>10 DEF f

LEMMA EmptyString == writeSSHString(<<>>) = <<Field(4, 0)>>
<1>1. \A f : <<f>> \o <<>> = <<f>>
  OBVIOUS
<1> QED
  BY <1>1, NoBytes DEF writeSSHString

LEMMA Concatenated ==
  ASSUME NEW E, NEW a \in E, NEW b \in E, NEW c \in E
  PROVE  LET h == <<a>> \o <<b>> \o <<c>>
         IN  h \in Seq(E) /\ Len(h) = 3 /\ h[1] = a /\ h[2] = b /\ h[3] = c
  OBVIOUS

----------------------------------------------------------------------------
(* The list.                                                               *)

SerialFields(v) == [i \in DOMAIN v |-> Field(8, v[i])]

(* The section of certificates is one to the reader, and its fields from   *)
(* the fifth on are the serials.                                           *)
LEMMA SerialLists ==
  ASSUME NEW E, NEW v \in Seq(Nat \ {0}), SerialFields(v) \in Seq(E),
         Field(4, 0) \in E, Field(1, 32) \in E, Field(4, Bytes(SerialFields(v))) \in E
  PROVE  LET s == SerialList(v)
         IN  /\ s \in Seq(E)
             /\ Len(s) = 4 + Len(v)
             /\ \A i \in 1..Len(v) : s[4 + i] = Field(8, v[i])
             /\ IsSection(s)
<1> DEFINE h == <<Field(4, 0)>> \o <<Field(4, 0)>> \o <<Field(1, 32)>>
           d == SerialFields(v)
           t == writeSSHString(d)
           s == h \o t
<1>1. SerialList(v) = s
  BY EmptyString DEF SerialList, SerialFields
<1>2. h \in Seq(E) /\ Len(h) = 3 /\ h[1] = Field(4, 0) /\ h[2] = Field(4, 0) /\ h[3] = Field(1, 32)
  BY Concatenated
<1>3. /\ Len(d) = Len(v) /\ Len(v) \in Nat
      /\ \A i \in 1..Len(v) : d[i] = Field(8, v[i]) /\ v[i] # 0
  BY DEF SerialFields
<1>4. /\ t \in Seq(E) /\ Len(t) = Len(d) + 1
      /\ \A i \in 1..Len(d) : t[i + 1] = d[i]
      /\ IsString(t) /\ Content(t) = d
  BY Strings
<1>5. d \in Seq(E)
  OBVIOUS
<1> HIDE DEF h, t, d
<1>6. /\ s \in Seq(E) /\ Len(s) = Len(h) + Len(t)
      /\ \A i \in 1..Len(h) : s[i] = h[i]
      /\ \A i \in 1..Len(t) : s[Len(h) + i] = t[i]
  <2>1. h \in Seq(E) /\ t \in Seq(E)
    BY <1>2, <1>4
  <2>2. /\ s \in Seq(E)
        /\ \A i \in 1..Len(h) : s[i] = h[i]
        /\ \A i \in 1..Len(t) : s[Len(h) + i] = t[i]
    BY <2>1, Joined
  <2>3. Len(s) = Len(h) + Len(t)
    BY <2>1, JoinedLength
  <2> QED
    BY <2>2, <2>3
<1> HIDE DEF s
<1>7. /\ Len(s) = 4 + Len(v)
      /\ s[1] = Field(4, 0) /\ s[2] = Field(4, 0) /\ s[3] = Field(1, 32)
      /\ \A i \in 1..Len(t) : s[3 + i] = t[i]
  BY <1>2, <1>3, <1>4, <1>6
<1>8. \A i \in 1..Len(v) : s[4 + i] = d[i]
  <2> TAKE i \in 1..Len(v)
  <2>1. i + 1 \in 1..Len(t) /\ t[i + 1] = d[i] /\ 3 + (i + 1) = 4 + i
    BY <1>3, <1>4
  <2> QED
    BY <2>1, <1>7
<1>9. From(s, 3 + 1) = t
  <2>1. 3 \in Nat /\ t \in Seq(E) /\ Len(s) = 3 + Len(t)
    BY <1>2, <1>4, <1>6
  <2> QED
    BY <2>1, <1>6, <1>7, Suffix, Zenon
<1>10. From(s, 4 + 1) = d
  <2>1. 4 \in Nat /\ Len(s) = 4 + Len(d)
    BY <1>3, <1>7
  <2>2. \A i \in 1..Len(d) : s[4 + i] = d[i]
    BY <1>3, <1>8
  <2> QED
    BY <2>1, <2>2, <1>5, <1>6, Suffix, Zenon
<1>11. \A i \in 5..Len(s) : s[i].width = 8 /\ s[i].value # 0
  <2> TAKE i \in 5..Len(s)
  <2>1. i - 4 \in 1..Len(v) /\ 4 + (i - 4) = i
    BY <1>3, <1>7
  <2>2. s[i] = Field(8, v[i - 4]) /\ v[i - 4] # 0
    BY <2>1, <1>3, <1>8
  <2> QED
    BY <2>2 DEF Field
<1>12. IsSection(s)
  BY <1>3, <1>4, <1>7, <1>9, <1>10, <1>11 DEF IsSection
<1> QED
  BY <1>1, <1>3, <1>6, <1>7, <1>8, <1>12

FieldsOf(V) == [width : Nat, value : V]

LEMMA FieldType == \A V, w, x : w \in Nat /\ x \in V => Field(w, x) \in FieldsOf(V)
  BY DEF Field, FieldsOf

LEMMA FiveFields ==
  ASSUME NEW E, NEW a \in E, NEW b \in E, NEW c \in E, NEW d \in E, NEW e \in E
  PROVE  <<a, b, c, d, e>> \in Seq(E)
  OBVIOUS

LEMMA HeaderType ==
  ASSUME NEW V, Nat \subseteq V, Bytes(<<Field(24, 0)>>) \in V
  PROVE  Header \in Seq(FieldsOf(V))
<1> DEFINE E == FieldsOf(V)
           h == <<Field(8, 0), Field(4, 1), Field(8, 0), Field(8, 0), Field(8, 0)>>
           r == <<Field(4, 0)>>
           c == writeSSHString(<<Field(24, 0)>>)
<1>1. /\ Field(8, 0) \in E /\ Field(4, 1) \in E /\ Field(4, 0) \in E /\ Field(24, 0) \in E
      /\ Field(4, Bytes(<<Field(24, 0)>>)) \in E
  BY FieldType
<1> HIDE DEF E
<1>2. h \in Seq(E)
  BY <1>1, FiveFields
<1>3. r \in Seq(E) /\ <<Field(24, 0)>> \in Seq(E)
  BY <1>1, Texts
<1>4. c \in Seq(E)
  BY <1>1, <1>3, Strings
<1>5. Header = h \o r \o c
  BY EmptyString DEF Header
<1> HIDE DEF h, r, c
<1>6. h \o r \in Seq(E)
  BY <1>2, <1>3, Joined
<1>7. (h \o r) \o c \in Seq(E)
  BY <1>4, <1>6, Joined
<1> QED
  BY <1>5, <1>7 DEF E

(* GenerateKRL writes a list that the reader accepts, and that revokes the *)
(* serials that are not 0 and nothing else, whatever serials it is given.  *)
THEOREM RevokesSerialsTheorem == \A serials \in Seq(Nat) : RevokesSerials(serials)
<1> SUFFICES ASSUME NEW serials \in Seq(Nat)
             PROVE  LET krl == GenerateKRL(serials)
                    IN  Readable(krl) /\ RevokedBy(krl) = ToSet(serials) \ {0}
  BY DEF RevokesSerials
<1> DEFINE v == validSerials(serials)
           d == SerialFields(v)
           t == SerialList(v)
           p == writeSSHString(t)
           V == Nat \cup {Bytes(<<Field(24, 0)>>), Bytes(d), Bytes(t)}
           E == FieldsOf(V)
           rest == IF v = <<>> THEN <<>> ELSE <<Field(1, 1)>> \o p
           krl == GenerateKRL(serials)
<1>1. v \in Seq(Nat \ {0}) /\ ToSet(v) = ToSet(serials) \ {0}
  BY ValidSerials
<1>2. Header \in Seq(E)
  BY HeaderType
<1>3. krl = Header \o rest
  BY DEF GenerateKRL
<1>4. /\ Field(4, 0) \in E /\ Field(1, 32) \in E /\ Field(1, 1) \in E
      /\ Field(4, Bytes(d)) \in E /\ Field(4, Bytes(t)) \in E
      /\ \A x \in Nat : Field(8, x) \in E
  BY FieldType
<1>5. d \in Seq(E)
  <2> HIDE DEF E, v
  <2> QED
    BY <1>1, <1>4 DEF SerialFields
<1> HIDE DEF E
<1>6. /\ t \in Seq(E) /\ Len(t) = 4 + Len(v)
      /\ \A i \in 1..Len(v) : t[4 + i] = Field(8, v[i])
      /\ IsSection(t)
  <2> HIDE DEF v
  <2> QED
    BY <1>1, <1>4, <1>5, SerialLists
<1> HIDE DEF t
<1>7. /\ p \in Seq(E) /\ Len(p) = Len(t) + 1 /\ IsString(p) /\ Content(p) = t
      /\ \A i \in 1..Len(t) : p[i + 1] = t[i]
  BY <1>4, <1>6, Strings
<1> HIDE DEF p, v
<1>8. rest \in Seq(E) => Sections(krl) = rest
  BY <1>2, <1>3, Dropped, Zenon DEF Sections
<1>9. CASE v = <<>>
  <2>1. Sections(krl) = <<>>
    BY <1>8, <1>9, Texts
  <2>2. RevokedBy(krl) = {} /\ ToSet(v) = {}
    BY <1>9, <2>1 DEF RevokedBy, ToSet
  <2> QED
    BY <1>1, <2>1, <2>2 DEF Readable
<1>10. CASE v # <<>>
  <2> DEFINE r == <<Field(1, 1)>> \o p
  <2>1. /\ r \in Seq(E) /\ Len(r) = Len(p) + 1 /\ r[1] = Field(1, 1)
        /\ \A i \in 1..Len(p) : r[i + 1] = p[i]
        /\ From(r, 2) = p
    BY <1>4, <1>7, Prefixed
  <2>2. Sections(krl) = r
    BY <1>8, <1>10, <2>1, Zenon
  <2> HIDE DEF r, krl
  <2>3. Len(t) \in Nat /\ Len(v) \in Nat /\ Len(r) = 2 + Len(t) /\ Len(r) = 6 + Len(v)
    BY <1>1, <1>6, <1>7, <2>1
  <2>4. \A i \in 1..Len(t) : r[2 + i] = t[i]
    <3> TAKE i \in 1..Len(t)
    <3>1. i + 1 \in 1..Len(p) /\ (i + 1) + 1 = 2 + i
      BY <1>7, <2>3
    <3> QED
      BY <1>7, <2>1, <3>1
  <2>5. From(r, 3) = t
    <3>1. 2 \in Nat /\ r \in Seq(E) /\ t \in Seq(E) /\ Len(r) = 2 + Len(t) /\ 2 + 1 = 3
      BY <1>6, <2>1, <2>3
    <3>2. From(r, 2 + 1) = t
      BY <3>1, <2>4, Suffix, Zenon
    <3> QED
      BY <3>1, <3>2, Zenon
  <2>6. Tail(r) = p
    BY <2>1 DEF From
  <2>7. Readable(krl)
    BY <1>6, <1>7, <2>1, <2>2, <2>5, <2>6 DEF Readable
  <2>8. \A i \in 1..Len(v) : r[6 + i].value = v[i]
    <3> TAKE i \in 1..Len(v)
    <3>1. 4 + i \in 1..Len(t) /\ 2 + (4 + i) = 6 + i
      BY <1>6, <2>3
    <3>2. r[6 + i] = Field(8, v[i])
      BY <1>6, <2>4, <3>1
    <3> QED
      BY <3>2 DEF Field
  <2>9. \A i \in 7..Len(r) : i - 6 \in 1..Len(v) /\ r[i].value = v[i - 6]
    <3> TAKE i \in 7..Len(r)
    <3>1. i - 6 \in 1..Len(v) /\ 6 + (i - 6) = i
      BY <2>3
    <3> QED
      BY <2>8, <3>1
  <2>10. \A i \in 1..Len(v) : 6 + i \in 7..Len(r)
    BY <2>3
  <2>11. {r[i].value : i \in 7..Len(r)} = {v[i] : i \in 1..Len(v)}
    <3>1. \A i \in 7..Len(r) : \E j \in 1..Len(v) : r[i].value = v[j]
      BY <2>9
    <3>2. \A j \in 1..Len(v) : \E i \in 7..Len(r) : r[i].value = v[j]
      BY <2>8, <2>10
    <3>3. \A x : x \in {r[i].value : i \in 7..Len(r)} => x \in {v[i] : i \in 1..Len(v)}
      BY <3>1, Zenon
    <3>4. \A x : x \in {v[i] : i \in 1..Len(v)} => x \in {r[i].value : i \in 7..Len(r)}
      BY <3>2, Zenon
    <3> QED
      BY <3>3, <3>4, Zenon
  <2>12. ToSet(v) = {v[i] : i \in 1..Len(v)}
    BY <1>1 DEF ToSet
  <2>13. RevokedBy(krl) = ToSet(serials) \ {0}
    BY <1>1, <2>2, <2>11, <2>12 DEF RevokedBy
  <2> QED
    BY <2>7, <2>13 DEF krl
<1> QED
  BY <1>9, <1>10

(* Every certificate that Sign issued can be revoked: no serial of one is  *)
(* 0, which GenerateKRL would leave out.                                   *)
THEOREM RevokesIssuedTheorem == \A randoms \in Seq(Nat) : RevokesIssued(randoms)
<1> SUFFICES ASSUME NEW randoms \in Seq(Nat)
             PROVE  LET issued == [i \in DOMAIN randoms |-> Serial(randoms[i])]
                    IN  RevokedBy(GenerateKRL(issued)) = ToSet(issued)
  BY DEF RevokesIssued
<1> DEFINE issued == [i \in DOMAIN randoms |-> Serial(randoms[i])]
<1>1. \A r \in Nat : Serial(r) \in Nat \ {0}
  BY KRLAssumption DEF Serial
<1>2. issued \in Seq(Nat) /\ 0 \notin ToSet(issued)
  <2>1. issued \in Seq(Nat)
    <3>1. \A i \in 1..Len(randoms) : Serial(randoms[i]) \in Nat
      <4>1. \A i \in 1..Len(randoms) : randoms[i] \in Nat
        OBVIOUS
      <4> QED
        BY <4>1, <1>1, Zenon
    <3>2. issued = [i \in 1..Len(randoms) |-> Serial(randoms[i])] /\ Len(randoms) \in Nat
      OBVIOUS
    <3> HIDE DEF issued
    <3> QED
      BY <3>1, <3>2
  <2>2. \A i \in DOMAIN issued : issued[i] # 0
    BY <1>1
  <2> QED
    BY <2>1, <2>2, Zenon DEF ToSet
<1> HIDE DEF issued
<1>3. RevokedBy(GenerateKRL(issued)) = ToSet(issued) \ {0}
  BY <1>2, RevokesSerialsTheorem DEF RevokesSerials
<1> QED
  BY <1>2, <1>3 DEF issued

----------------------------------------------------------------------------
(* The runs of MCFunctions.                                                *)

LEMMA RevocationInputs == \A i \in Revocations : i.list \in Seq(Nat)
<1>1. 0..(2 * HalfSerial - 1) \subseteq Nat
  BY KRLAssumption
<1>2. SeqOf(0..(2 * HalfSerial - 1), MaxSerials) \subseteq Seq(Nat)
  BY <1>1 DEF SeqOf
<1> QED
  BY <1>2 DEF Revocations

(* What a list is to revoke is what it is read to revoke.                  *)
THEOREM SerialsAreRevokedTheorem == Spec => []SerialsAreRevoked
<1>1. InputInv => SerialsAreRevoked
  BY InputKinds, RevocationInputs, RevokesSerialsTheorem DEF SerialsAreRevoked
<1> QED
  BY <1>1, AlwaysInputInv, PTL

(* What was issued can be revoked.                                         *)
THEOREM IssuedIsRevocableTheorem == Spec => []IssuedIsRevocable
<1>1. InputInv => IssuedIsRevocable
  BY InputKinds, RevocationInputs, RevokesIssuedTheorem DEF IssuedIsRevocable
<1> QED
  BY <1>1, AlwaysInputInv, PTL
=============================================================================
