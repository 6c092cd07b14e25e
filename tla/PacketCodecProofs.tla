--------------------------- MODULE PacketCodecProofs ---------------------------
(***************************************************************************)
(* Proofs about PacketCodec: what serialize writes, deserialize reads, for *)
(* every packet that fits, its values and texts whatever they are.         *)
(***************************************************************************)
EXTENDS PacketCodec, TLAPS, WellFoundedInduction, FiniteSetTheorems

-----------------------------------------------------------------------------
(* Induction on a set of numbers: the least one outside it has a           *)
(* predecessor in it.                                                      *)

Less == {p \in Nat \X Nat : p[1] < p[2]}

LEMMA LessWellFounded == IsWellFoundedOn(Less, Nat)
BY NatLessThanWellFounded DEF OpToRel, Less

LEMMA SetInduction ==
  ASSUME NEW S, 0 \in S, \A n \in Nat : n \in S => n + 1 \in S
  PROVE  Nat \subseteq S
<1> SUFFICES ASSUME Nat \ S # {} PROVE FALSE
  OBVIOUS
<1>1. PICK x \in Nat \ S : \A y \in Nat \ S : ~ (<<y, x>> \in Less)
  BY LessWellFounded, WFMin
<1>2. x # 0 /\ x \in Nat
  OBVIOUS
<1>3. x - 1 \in Nat /\ <<x - 1, x>> \in Less /\ (x - 1) + 1 = x
  BY <1>2 DEF Less
<1>4. x - 1 \in S
  BY <1>1, <1>3
<1> QED BY <1>3, <1>4

-----------------------------------------------------------------------------
(* Parts that are put one after the other: where they end                  *)

SumsTo(f, lengths, m) ==
  /\ f \in [0..m -> Nat] /\ f[0] = 0
  /\ \A n \in 1..m : f[n] = f[n - 1] + lengths[n]

LEMMA SumsExist ==
  ASSUME NEW lengths \in Seq(Nat)
  PROVE  \E f : SumsTo(f, lengths, Len(lengths))
<1> DEFINE S == {m \in Nat : m <= Len(lengths) => \E f : SumsTo(f, lengths, m)}
<1>1. 0 \in S
  <2>1. SumsTo([n \in 0..0 |-> 0], lengths, 0)
    BY DEF SumsTo
  <2> QED BY <2>1
<1>2. ASSUME NEW m \in Nat, m \in S PROVE m + 1 \in S
  <2> SUFFICES ASSUME m + 1 <= Len(lengths) PROVE \E f : SumsTo(f, lengths, m + 1)
    OBVIOUS
  <2>1. PICK f : SumsTo(f, lengths, m)
    BY <1>2
  <2> DEFINE g == [n \in 0..(m + 1) |-> IF n <= m THEN f[n] ELSE f[m] + lengths[m + 1]]
  <2>2. lengths[m + 1] \in Nat /\ f[m] \in Nat
    BY <2>1 DEF SumsTo
  <2>3. g \in [0..(m + 1) -> Nat] /\ g[0] = 0
    BY <2>1, <2>2 DEF SumsTo
  <2>4. ASSUME NEW n \in 1..(m + 1) PROVE g[n] = g[n - 1] + lengths[n]
    <3>1. CASE n <= m
      <4>1. n \in 0..(m + 1) /\ n - 1 \in 0..(m + 1) /\ n - 1 <= m /\ n \in 1..m
        BY <3>1
      <4>2. g[n] = f[n] /\ g[n - 1] = f[n - 1]
        BY <3>1, <4>1
      <4> QED BY <2>1, <4>1, <4>2 DEF SumsTo
    <3>2. CASE n = m + 1
      BY <3>2
    <3> QED BY <3>1, <3>2
  <2>5. SumsTo(g, lengths, m + 1)
    BY <2>3, <2>4 DEF SumsTo
  <2> QED BY <2>5
<1>3. Nat \subseteq S
  <2> HIDE DEF S
  <2> QED BY <1>1, <1>2, SetInduction
<1>4. Len(lengths) \in S
  BY <1>3
<1> QED BY <1>4

LEMMA EndsOf == ASSUME NEW lengths \in Seq(Nat) PROVE SumsTo(Ends(lengths), lengths, Len(lengths))
<1> DEFINE Is(f) ==
      f = [n \in 0..Len(lengths) |-> IF n = 0 THEN 0 ELSE f[n - 1] + lengths[n]]
<1>1. PICK f : SumsTo(f, lengths, Len(lengths))
  BY SumsExist
<1>2. Is(f)
  BY <1>1 DEF SumsTo
<1>3. Ends(lengths) = CHOOSE g : Is(g)
  BY DEF Ends
<1>4. Is(Ends(lengths))
  <2> HIDE DEF Is
  <2> QED BY <1>2, <1>3
<1> DEFINE S == {m \in Nat : m <= Len(lengths) => Ends(lengths)[m] \in Nat}
<1> HIDE DEF Is
<1>5. DOMAIN Ends(lengths) = 0..Len(lengths) /\ Ends(lengths)[0] = 0
  BY <1>4 DEF Is
<1>6. \A n \in 1..Len(lengths) : Ends(lengths)[n] = Ends(lengths)[n - 1] + lengths[n]
  <2> SUFFICES ASSUME NEW n \in 1..Len(lengths)
               PROVE  Ends(lengths)[n] = Ends(lengths)[n - 1] + lengths[n]
    OBVIOUS
  <2> DEFINE e == Ends(lengths)
  <2>1. e = [k \in 0..Len(lengths) |-> IF k = 0 THEN 0 ELSE e[k - 1] + lengths[k]]
    BY <1>4 DEF Is
  <2>2. n \in 0..Len(lengths) /\ n # 0
    OBVIOUS
  <2> HIDE DEF e
  <2>3. e[n] = IF n = 0 THEN 0 ELSE e[n - 1] + lengths[n]
    BY <2>1, <2>2
  <2> QED BY <2>2, <2>3 DEF e
<1>7. 0 \in S
  BY <1>5
<1>8. ASSUME NEW m \in Nat, m \in S PROVE m + 1 \in S
  <2> SUFFICES ASSUME m + 1 <= Len(lengths) PROVE Ends(lengths)[m + 1] \in Nat
    OBVIOUS
  <2>1. Ends(lengths)[m] \in Nat /\ lengths[m + 1] \in Nat /\ m + 1 \in 1..Len(lengths)
    BY <1>8
  <2> QED BY <1>6, <2>1
<1>9. Nat \subseteq S
  <2> HIDE DEF S
  <2> QED BY <1>7, <1>8, SetInduction
<1>10. \A n \in 0..Len(lengths) : Ends(lengths)[n] \in Nat
  BY <1>9
<1>11. Ends(lengths) = [n \in 0..Len(lengths) |-> Ends(lengths)[n]]
  BY <1>4 DEF Is
<1>12. Ends(lengths) \in [0..Len(lengths) -> Nat]
  BY <1>10, <1>11
<1> QED BY <1>5, <1>6, <1>12 DEF SumsTo

LEMMA EndsGrow ==
  ASSUME NEW lengths \in Seq(Nat), NEW k \in 0..Len(lengths), NEW m \in k..Len(lengths)
  PROVE  Ends(lengths)[k] <= Ends(lengths)[m]
<1> DEFINE e == Ends(lengths)
           S == {n \in Nat : k <= n /\ n <= Len(lengths) => e[k] <= e[n]}
<1>1. SumsTo(e, lengths, Len(lengths))
  BY EndsOf
<1> HIDE DEF e
<1>2. \A n \in 0..Len(lengths) : e[n] \in Nat
  BY <1>1 DEF SumsTo
<1>3. 0 \in S
  BY <1>2
<1>4. ASSUME NEW n \in Nat, n \in S PROVE n + 1 \in S
  <2> SUFFICES ASSUME k <= n + 1, n + 1 <= Len(lengths) PROVE e[k] <= e[n + 1]
    OBVIOUS
  <2>1. e[n + 1] = e[n] + lengths[n + 1] /\ lengths[n + 1] \in Nat /\ e[n] \in Nat /\ e[k] \in Nat
    BY <1>1, <1>2 DEF SumsTo
  <2>2. CASE k = n + 1
    BY <2>1, <2>2
  <2>3. CASE k <= n
    <3>1. e[k] <= e[n]
      BY <1>4, <2>3
    <3> QED BY <2>1, <3>1
  <2> QED BY <2>2, <2>3
<1>5. m \in S
  <2>1. Nat \subseteq S
    <3> HIDE DEF S
    <3> QED BY <1>3, <1>4, SetInduction
  <2> QED BY <2>1
<1> QED BY <1>5 DEF e

LEMMA TotalType == ASSUME NEW lengths \in Seq(Nat) PROVE Total(lengths) \in Nat
BY EndsOf DEF Total, SumsTo

-----------------------------------------------------------------------------
(* Sequences that are put one after the other: each lies between the ends  *)
(* of the one before it and its own.                                       *)

Join(s, t) == s \o t

IsSeq(f, m) == f = [n \in 1..m |-> f[n]]

Joins(f, seqs, m) ==
  /\ IsSeq(f, m)
  /\ f[1] = seqs[1]
  /\ \A n \in 2..m : f[n] = Join(f[n - 1], seqs[n])

LEMMA JoinsExist ==
  ASSUME NEW A, NEW seqs \in Seq(A), Len(seqs) # 0
  PROVE  \E f : Joins(f, seqs, Len(seqs))
<1> DEFINE S == {m \in Nat : m + 1 <= Len(seqs) => \E f : Joins(f, seqs, m + 1)}
<1>1. 0 \in S
  <2>1. Joins([n \in 1..1 |-> seqs[1]], seqs, 1)
    BY DEF Joins, IsSeq
  <2> QED BY <2>1
<1>2. ASSUME NEW m \in Nat, m \in S PROVE m + 1 \in S
  <2> SUFFICES ASSUME m + 2 <= Len(seqs) PROVE \E f : Joins(f, seqs, m + 2)
    OBVIOUS
  <2>1. PICK f : Joins(f, seqs, m + 1)
    BY <1>2
  <2> DEFINE g == [n \in 1..(m + 2) |-> IF n <= m + 1 THEN f[n] ELSE Join(f[m + 1], seqs[m + 2])]
  <2>2. IsSeq(g, m + 2) /\ g[1] = seqs[1]
    BY <2>1 DEF Joins, IsSeq
  <2>3. ASSUME NEW n \in 2..(m + 2) PROVE g[n] = Join(g[n - 1], seqs[n])
    <3>1. CASE n <= m + 1
      <4>1. n \in 1..(m + 2) /\ n - 1 \in 1..(m + 2) /\ n - 1 <= m + 1 /\ n \in 2..(m + 1)
        BY <3>1
      <4>2. g[n] = f[n] /\ g[n - 1] = f[n - 1]
        BY <3>1, <4>1
      <4> QED BY <2>1, <4>1, <4>2 DEF Joins
    <3>2. CASE n = m + 2
      BY <3>2
    <3> QED BY <3>1, <3>2
  <2>4. Joins(g, seqs, m + 2)
    <3> HIDE DEF g
    <3> QED BY <2>2, <2>3 DEF Joins
  <2> QED BY <2>4
<1>3. Nat \subseteq S
  <2> HIDE DEF S
  <2> QED BY <1>1, <1>2, SetInduction
<1>4. Len(seqs) - 1 \in Nat /\ (Len(seqs) - 1) + 1 = Len(seqs)
  OBVIOUS
<1>5. Len(seqs) - 1 \in S
  BY <1>3, <1>4
<1> QED BY <1>4, <1>5

LEMMA FlattenJoins ==
  ASSUME NEW A, NEW seqs \in Seq(A), Len(seqs) # 0
  PROVE  \E f : Joins(f, seqs, Len(seqs)) /\ FlattenSeq(seqs) = f[Len(seqs)]
<1> DEFINE Is(f) == f = [n \in 1..Len(seqs) |-> IF n = 1 THEN seqs[n] ELSE Join(f[n - 1], seqs[n])]
           flat == CHOOSE g : Is(g)
<1>1. PICK f : Joins(f, seqs, Len(seqs))
  BY JoinsExist
<1>2. Is(f)
  <2>1. ASSUME NEW n \in 1..Len(seqs)
        PROVE  f[n] = IF n = 1 THEN seqs[n] ELSE Join(f[n - 1], seqs[n])
    <3>1. CASE n = 1
      BY <1>1, <3>1 DEF Joins
    <3>2. CASE n # 1
      BY <1>1, <3>2 DEF Joins
    <3> QED BY <3>1, <3>2
  <2>2. f = [n \in 1..Len(seqs) |-> f[n]]
    BY <1>1 DEF Joins, IsSeq
  <2> QED BY <2>1, <2>2
<1>3. Is(flat)
  <2> HIDE DEF Is
  <2> QED BY <1>2
<1>4. FlattenSeq(seqs) = flat[Len(seqs)]
  BY DEF FlattenSeq, Join
<1> HIDE DEF flat
<1>5. Joins(flat, seqs, Len(seqs))
  <2>1. IsSeq(flat, Len(seqs))
    BY <1>3 DEF IsSeq
  <2>2. ASSUME NEW n \in 1..Len(seqs)
        PROVE  flat[n] = IF n = 1 THEN seqs[n] ELSE Join(flat[n - 1], seqs[n])
    BY <1>3
  <2> QED BY <2>1, <2>2 DEF Joins
<1> QED BY <1>4, <1>5

Joined(q, s, t, A) ==
  /\ q \in Seq(A) /\ Len(q) = Len(s) + Len(t)
  /\ \A i \in 1..Len(s) : q[i] = s[i]
  /\ \A j \in 1..Len(t) : q[Len(s) + j] = t[j]

LEMMA JoinParts ==
  ASSUME NEW A, NEW s \in Seq(A), NEW t \in Seq(A)
  PROVE  Joined(Join(s, t), s, t, A)
BY DEF Join, Joined

LEMMA Within ==
  ASSUME NEW a \in Nat, NEW l \in Nat, NEW j \in 1..l, NEW c \in Nat, a + l <= c
  PROVE  a + j \in 1..c
OBVIOUS

(* f[m] is what the first m sequences make. *)
Holds(f, seqs, lengths, A, m) ==
  /\ f[m] \in Seq(A) /\ Len(f[m]) = Ends(lengths)[m]
  /\ \A n \in 1..m : \A j \in 1..lengths[n] : f[m][Ends(lengths)[n - 1] + j] = seqs[n][j]

LEMMA JoinsHold ==
  ASSUME NEW A, NEW seqs \in Seq(Seq(A)), NEW lengths \in Seq(Nat), Len(lengths) = Len(seqs),
         \A n \in 1..Len(seqs) : lengths[n] = Len(seqs[n]),
         NEW f, Joins(f, seqs, Len(seqs)), NEW m \in 1..Len(seqs)
  PROVE  Holds(f, seqs, lengths, A, m)
<1> DEFINE e == Ends(lengths)
           S == {k \in Nat : k + 1 <= Len(seqs) => Holds(f, seqs, lengths, A, k + 1)}
<1>1. /\ e[0] = 0 /\ \A n \in 0..Len(seqs) : e[n] \in Nat
      /\ \A n \in 1..Len(seqs) : e[n] = e[n - 1] + lengths[n] /\ seqs[n] \in Seq(A)
  BY EndsOf DEF SumsTo
<1>2. \A n, k \in 0..Len(seqs) : n <= k => e[n] <= e[k]
  BY EndsGrow
<1> HIDE DEF e
<1>3. 0 \in S
  <2> SUFFICES ASSUME 1 <= Len(seqs) PROVE Holds(f, seqs, lengths, A, 1)
    OBVIOUS
  <2>1. f[1] = seqs[1] /\ seqs[1] \in Seq(A) /\ e[1] = Len(seqs[1]) /\ e[0] = 0
    BY <1>1 DEF Joins
  <2> QED BY <2>1 DEF Holds, e
<1>4. ASSUME NEW k \in Nat, k \in S PROVE k + 1 \in S
  <2> SUFFICES ASSUME k + 2 <= Len(seqs) PROVE Holds(f, seqs, lengths, A, k + 2)
    OBVIOUS
  <2>1. k + 1 \in 1..Len(seqs) /\ k + 2 \in 2..Len(seqs) /\ (k + 2) - 1 = k + 1
    OBVIOUS
  <2> DEFINE s == f[k + 1]
             t == seqs[k + 2]
  <2>2. /\ s \in Seq(A) /\ Len(s) = e[k + 1]
        /\ \A n \in 1..(k + 1) : \A j \in 1..lengths[n] : s[e[n - 1] + j] = seqs[n][j]
    BY <1>4, <2>1 DEF Holds, e
  <2>3. t \in Seq(A) /\ Len(t) = lengths[k + 2] /\ f[k + 2] = Join(s, t)
    BY <2>1 DEF Joins
  <2>4. e[k + 2] = e[k + 1] + lengths[k + 2]
    BY <1>1, <2>1
  <2> HIDE DEF s, t
  <2>a. /\ Join(s, t) \in Seq(A) /\ Len(Join(s, t)) = Len(s) + Len(t)
        /\ \A i \in 1..Len(s) : Join(s, t)[i] = s[i]
        /\ \A j \in 1..Len(t) : Join(s, t)[Len(s) + j] = t[j]
    <3>1. Joined(Join(s, t), s, t, A)
      BY <2>2, <2>3, JoinParts, Zenon
    <3> QED BY <3>1, Zenon DEF Joined
  <2>5. f[k + 2] \in Seq(A) /\ Len(f[k + 2]) = e[k + 2]
    BY <2>2, <2>3, <2>4, <2>a
  <2>6. ASSUME NEW n \in 1..(k + 2), NEW j \in 1..lengths[n]
        PROVE  f[k + 2][e[n - 1] + j] = seqs[n][j]
    <3>1. CASE n \in 1..(k + 1)
      <4>0. n \in 1..Len(seqs) /\ n - 1 \in 0..Len(seqs)
        BY <2>1, <3>1
      <4>1. n \in 1..Len(seqs) /\ n - 1 \in 0..Len(seqs) /\ lengths[n] \in Nat
        BY <4>0
      <4>2. e[n - 1] \in Nat /\ e[n] \in Nat /\ e[n] = e[n - 1] + lengths[n] /\ e[n] <= e[k + 1]
        BY <1>1, <1>2, <2>1, <3>1, <4>1
      <4>3. e[n - 1] + j \in 1..Len(s)
        <5>1. Len(s) \in Nat /\ Len(s) = e[k + 1]
          BY <2>2
        <5>2. e[n - 1] + lengths[n] <= Len(s)
          BY <4>2, <5>1
        <5> QED BY <4>1, <4>2, <5>1, <5>2, Within
      <4>4. Join(s, t)[e[n - 1] + j] = s[e[n - 1] + j]
        BY <2>a, <4>3
      <4> QED BY <2>2, <2>3, <3>1, <4>4
    <3>2. CASE n = k + 2
      <4>1. j \in 1..Len(t) /\ e[n - 1] = Len(s)
        BY <2>1, <2>2, <2>3, <3>2
      <4>2. Join(s, t)[Len(s) + j] = t[j]
        BY <2>a, <4>1
      <4> QED BY <2>3, <3>2, <4>1, <4>2 DEF t
    <3> QED BY <3>1, <3>2
  <2> QED BY <2>5, <2>6 DEF Holds, e
<1>5. Nat \subseteq S
  <2> HIDE DEF S
  <2> QED BY <1>3, <1>4, SetInduction
<1>6. m - 1 \in Nat /\ (m - 1) + 1 = m /\ m <= Len(seqs)
  OBVIOUS
<1>7. m - 1 \in S
  BY <1>5, <1>6
<1> QED BY <1>6, <1>7

LEMMA FlattenOf ==
  ASSUME NEW A, NEW seqs \in Seq(Seq(A)), NEW lengths \in Seq(Nat), Len(lengths) = Len(seqs),
         \A n \in 1..Len(seqs) : lengths[n] = Len(seqs[n])
  PROVE  /\ FlattenSeq(seqs) \in Seq(A) /\ Len(FlattenSeq(seqs)) = Total(lengths)
         /\ \A n \in 1..Len(seqs) : \A j \in 1..lengths[n] :
              FlattenSeq(seqs)[Ends(lengths)[n - 1] + j] = seqs[n][j]
<1>1. CASE Len(seqs) = 0
  <2>1. FlattenSeq(seqs) = << >>
    BY <1>1 DEF FlattenSeq
  <2>2. Total(lengths) = 0
    BY <1>1, EndsOf DEF Total, SumsTo
  <2> QED BY <1>1, <2>1, <2>2
<1>2. CASE Len(seqs) # 0
  <2>1. PICK f : Joins(f, seqs, Len(seqs)) /\ FlattenSeq(seqs) = f[Len(seqs)]
    BY <1>2, FlattenJoins
  <2>2. Holds(f, seqs, lengths, A, Len(seqs))
    BY <1>2, <2>1, JoinsHold
  <2> QED BY <2>1, <2>2 DEF Holds, Total
<1> QED BY <1>1, <1>2

Parts(seqs, lengths, A) ==
  /\ seqs \in Seq(Seq(A)) /\ lengths \in Seq(Nat) /\ Len(lengths) = Len(seqs)
  /\ \A n \in 1..Len(seqs) : lengths[n] = Len(seqs[n])

Flat(flat, seqs, lengths, A) ==
  /\ flat \in Seq(A) /\ Len(flat) = Total(lengths)
  /\ \A n \in 1..Len(seqs) : \A j \in 1..lengths[n] :
       flat[Ends(lengths)[n - 1] + j] = seqs[n][j]

LEMMA PartsFlat ==
  ASSUME NEW A, NEW seqs, NEW lengths, Parts(seqs, lengths, A)
  PROVE  Flat(FlattenSeq(seqs), seqs, lengths, A)
BY FlattenOf DEF Parts, Flat

-----------------------------------------------------------------------------
(* What the formats have in common: the names of fields and texts are      *)
(* distinct, and the length of each text is a field of its own.            *)

WellFormedFields(fields) ==
  /\ Len(fields) \in Nat \ {0} /\ DOMAIN fields = 1..Len(fields)
  /\ \A n \in 1..Len(fields) : fields[n][2] \in Nat \ {0}
  /\ \A m, n \in 1..Len(fields) :
       fields[m][1] = fields[n][1] => m = n \/ fields[n][1] = "padding"

WellFormedTexts(fields, texts) ==
  /\ Len(texts) \in 0..2 /\ DOMAIN texts = 1..Len(texts)
  /\ \A n \in 1..Len(texts) :
       /\ texts[n][2] \notin {"status", "padding", "total_size"}
       /\ \E k \in 1..Len(fields) : fields[k][1] = texts[n][2]
  /\ \A m, n \in 1..Len(texts) :
       texts[m][1] = texts[n][1] \/ texts[m][2] = texts[n][2] => m = n

WellFormed(format) == WellFormedFields(format.fields) /\ WellFormedTexts(format.fields, format.texts)

LEMMA FormatsWellFormed ==
  /\ WellFormed(HandshakeRequest)
  /\ WellFormed(HandshakeResponse)
  /\ WellFormed(AuthenticationRequest)
  /\ WellFormed(AuthenticationResponse)
  /\ WellFormed(FileEntryDTO)
  /\ WellFormed(CreateDirRequest)
  /\ WellFormed(CreateDirResponse)
  /\ WellFormed(UploadRequest)
  /\ WellFormed(UploadDirRequest)
  /\ WellFormed(Refusal)
  /\ WellFormed(UploadResponse(0))
  /\ WellFormed(DownloadRequest)
  /\ WellFormed(DownloadResponse(0))
  /\ WellFormed(ResumeRequest)
  /\ WellFormed(ResumeResponse(0))
  /\ WellFormed(FileChunk)
  /\ WellFormed(FileChunkACK)
  /\ WellFormed(CloseSessionPacket)
  /\ WellFormed(ErrorPacket)
<1> USE WidthsAssumption DEF Format, WellFormed, WellFormedFields, WellFormedTexts, NoTexts, Message
<1>1. WellFormed(HandshakeRequest)
  BY DEF HandshakeRequest
<1>2. WellFormed(HandshakeResponse)
  BY DEF HandshakeResponse
<1>3. WellFormed(AuthenticationRequest)
  BY DEF AuthenticationRequest
<1>4. WellFormed(AuthenticationResponse)
  BY DEF AuthenticationResponse
<1>5. WellFormed(FileEntryDTO)
  BY DEF FileEntryDTO
<1>6. WellFormed(CreateDirRequest)
  BY DEF CreateDirRequest
<1>7. WellFormed(CreateDirResponse)
  BY DEF CreateDirResponse
<1>8. WellFormed(UploadRequest)
  BY DEF UploadRequest
<1>9. WellFormed(UploadDirRequest)
  BY DEF UploadDirRequest
<1>10. WellFormed(Refusal)
  BY DEF Refusal
<1>11. WellFormed(UploadResponse(0))
  BY DEF UploadResponse
<1>12. WellFormed(DownloadRequest)
  BY DEF DownloadRequest
<1>13. WellFormed(DownloadResponse(0))
  BY DEF DownloadResponse
<1>14. WellFormed(ResumeRequest)
  BY DEF ResumeRequest
<1>15. WellFormed(ResumeResponse(0))
  BY DEF ResumeResponse
<1>16. WellFormed(FileChunk)
  BY DEF FileChunk
<1>17. WellFormed(FileChunkACK)
  BY DEF FileChunkACK
<1>18. WellFormed(CloseSessionPacket)
  BY DEF CloseSessionPacket
<1>19. WellFormed(ErrorPacket)
  BY DEF ErrorPacket
<1> QED BY <1>1, <1>2, <1>3, <1>4, <1>5, <1>6, <1>7, <1>8, <1>9, <1>10, <1>11, <1>12, <1>13, <1>14, <1>15, <1>16, <1>17, <1>18, <1>19

(* A response that may refuse begins with its status; others have none.    *)
WithStatus == {"UPLOAD_RESPONSE", "DOWNLOAD_RESPONSE", "RESUME_RESPONSE"}

LEMMA IntervalCount == ASSUME NEW b \in Nat PROVE Cardinality(0..b) = b + 1
BY FS_Interval

LEMMA Counts == Cardinality(0..1) > 1 /\ Cardinality(0..2) > 1
<1>1. 1 \in Nat /\ 2 \in Nat
  OBVIOUS
<1>2. Cardinality(0..1) = 1 + 1 /\ Cardinality(0..2) = 2 + 1
  BY <1>1, IntervalCount, Zenon
<1> QED BY <1>2

LEMMA StatusCounts ==
  ASSUME NEW type
  PROVE  /\ type \in WithStatus => Cardinality(Statuses(type)) > 1 /\ Statuses(type) \subseteq Nat
         /\ type \notin WithStatus => Cardinality(Statuses(type)) = 1 /\ Statuses(type) = {0}
<1>1. CASE type \in {"UPLOAD_RESPONSE", "RESUME_RESPONSE"}
  <2>1. Statuses(type) = 0..1
    BY <1>1 DEF Statuses
  <2> QED BY <1>1, <2>1, Counts DEF WithStatus
<1>2. CASE type = "DOWNLOAD_RESPONSE"
  <2>1. Statuses(type) = 0..2
    BY <1>2 DEF Statuses
  <2> QED BY <1>2, <2>1, Counts DEF WithStatus
<1>3. CASE type \notin WithStatus
  <2>1. Statuses(type) = {0}
    BY <1>3 DEF Statuses, WithStatus
  <2>2. Cardinality({0}) = 1
    BY FS_Singleton
  <2> QED BY <1>3, <2>1, <2>2
<1> QED BY <1>1, <1>2, <1>3 DEF WithStatus

LEMMA FormatsBegin ==
  /\ Refusal.fields[1][1] = "status"
  /\ UploadResponse(0).fields[1][1] = "status"
  /\ DownloadResponse(0).fields[1][1] = "status"
  /\ ResumeResponse(0).fields[1][1] = "status"
BY DEF Refusal, UploadResponse, DownloadResponse, ResumeResponse, Format

LEMMA StatusFormats ==
  ASSUME NEW type \in WithStatus, NEW status
  PROVE  WellFormed(FormatOf(type, status)) /\ FormatOf(type, status).fields[1][1] = "status"
<1>1. CASE type = "UPLOAD_RESPONSE"
  <2>1. FormatOf(type, status) \in {UploadResponse(0), Refusal}
    BY <1>1 DEF FormatOf, UploadResponse
  <2> QED BY <2>1, FormatsWellFormed, FormatsBegin
<1>2. CASE type = "DOWNLOAD_RESPONSE"
  <2>1. FormatOf(type, status) \in {DownloadResponse(0), Refusal}
    BY <1>2 DEF FormatOf, DownloadResponse
  <2> QED BY <2>1, FormatsWellFormed, FormatsBegin
<1>3. CASE type = "RESUME_RESPONSE"
  <2>1. FormatOf(type, status) \in {ResumeResponse(0), Refusal}
    BY <1>3 DEF FormatOf, ResumeResponse
  <2> QED BY <2>1, FormatsWellFormed, FormatsBegin
<1> QED BY <1>1, <1>2, <1>3 DEF WithStatus

LEMMA FormatsOf ==
  ASSUME NEW type \in PacketTypes, NEW status
  PROVE  WellFormed(FormatOf(type, status))
<1>1. CASE type \in WithStatus
  BY <1>1, StatusFormats
<1>2. CASE type \notin WithStatus
  <2>1. FormatOf(type, status) \in
          {HandshakeRequest, HandshakeResponse, AuthenticationRequest, AuthenticationResponse,
           FileEntryDTO, CreateDirRequest, CreateDirResponse, UploadRequest, UploadDirRequest,
           DownloadRequest, ResumeRequest, FileChunk, FileChunkACK, CloseSessionPacket, ErrorPacket}
    BY <1>2 DEF FormatOf, PacketTypes, WithStatus
  <2> QED BY <2>1, FormatsWellFormed
<1> QED BY <1>1, <1>2

(* Only the length of chunk data is not cast. *)
LEMMA ChunkFormat ==
  ASSUME NEW status
  PROVE  /\ FormatOf("FILE_CHUNK", status) = FileChunk
         /\ FileChunk.texts[1][2] = "chunk_size" /\ Len(FileChunk.texts) = 1
BY DEF FormatOf, FileChunk, Format

-----------------------------------------------------------------------------
(* What serialize writes *)

Cells == Int \X Nat

TextNames(format) == {x[1] : x \in ToSet(format.texts)}

IsPacket(p) ==
  /\ p.type \in PacketTypes /\ p.status \in Statuses(p.type)
  /\ p.value \in [ValueFields(FormatOfPacket(p)) -> Int]
  /\ p.text \in [TextNames(FormatOfPacket(p)) -> Seq(Cells)]

LEMMA BytesType ==
  ASSUME NEW v \in Int, NEW width \in Nat
  PROVE  /\ Bytes(v, width) \in Seq(Cells) /\ Len(Bytes(v, width)) = width
         /\ \A j \in 1..width : Bytes(v, width)[j] = <<v, j>>
<1>1. \A j \in 1..width : <<v, j>> \in Cells
  BY DEF Cells
<1> QED BY <1>1 DEF Bytes

LEMMA PacketFormat ==
  ASSUME NEW p, IsPacket(p)
  PROVE  WellFormed(FormatOfPacket(p)) /\ p.status \in Nat
<1>1. p.status \in Nat
  BY StatusCounts DEF IsPacket
<1> QED BY <1>1, FormatsOf DEF IsPacket, FormatOfPacket

(* The texts, by their number *)
LEMMA TextsOf ==
  ASSUME NEW p, IsPacket(p), NEW texts, texts = FormatOfPacket(p).texts, NEW n \in 1..Len(texts)
  PROVE  texts[n][1] \in DOMAIN p.text /\ p.text[texts[n][1]] \in Seq(Cells)
<1>1. n \in DOMAIN texts
  BY PacketFormat DEF WellFormed, WellFormedTexts
<1>2. texts[n] \in ToSet(texts)
  BY <1>1 DEF ToSet
<1>3. texts[n][1] \in TextNames(FormatOfPacket(p))
  BY <1>2 DEF TextNames
<1> QED BY <1>3 DEF IsPacket

LEMMA TextLengthsType ==
  ASSUME NEW p, IsPacket(p), NEW texts, texts = FormatOfPacket(p).texts
  PROVE  /\ TextLengths(p) \in Seq(Nat) /\ Len(TextLengths(p)) = Len(texts)
         /\ \A n \in 1..Len(texts) :
              TextLengths(p)[n] = Len(p.text[texts[n][1]]) /\ TextLengths(p)[n] \in Nat
<1>1. DOMAIN texts = 1..Len(texts) /\ Len(texts) \in Nat
  BY PacketFormat DEF WellFormed, WellFormedTexts
<1>2. \A n \in 1..Len(texts) : Len(p.text[texts[n][1]]) \in Nat
  BY TextsOf
<1>3. TextLengths(p) = [n \in 1..Len(texts) |-> Len(p.text[texts[n][1]])]
  BY <1>1 DEF TextLengths
<1> QED BY <1>1, <1>2, <1>3

LEMMA FieldWidthsType ==
  ASSUME NEW format, WellFormedFields(format.fields)
  PROVE  /\ FieldWidths(format) \in Seq(Nat) /\ Len(FieldWidths(format)) = Len(format.fields)
         /\ \A n \in 1..Len(format.fields) :
              FieldWidths(format)[n] = format.fields[n][2] /\ FieldWidths(format)[n] \in Nat \ {0}
<1> DEFINE fields == format.fields
<1>1. DOMAIN fields = 1..Len(fields) /\ Len(fields) \in Nat
      /\ \A n \in 1..Len(fields) : fields[n][2] \in Nat \ {0}
  BY DEF WellFormedFields
<1>2. FieldWidths(format) = [n \in 1..Len(fields) |-> fields[n][2]]
  BY <1>1 DEF FieldWidths
<1> HIDE DEF fields
<1>3. FieldWidths(format) \in Seq(Nat) /\ Len(FieldWidths(format)) = Len(fields)
      /\ \A n \in 1..Len(fields) : FieldWidths(format)[n] = fields[n][2]
  BY <1>1, <1>2
<1> QED BY <1>1, <1>3 DEF fields

LEMMA SizeType == ASSUME NEW p, IsPacket(p) PROVE Size(p) \in Nat
<1>1. Total(TextLengths(p)) \in Nat
  BY TextLengthsType, TotalType
<1>2. Width(FormatOfPacket(p)) \in Nat
  BY PacketFormat, FieldWidthsType, TotalType DEF Width, WellFormed
<1> QED BY <1>1, <1>2 DEF Size

LEMMA NoLengths ==
  ASSUME NEW p, IsPacket(p), NEW t \in ToSet(FormatOfPacket(p).texts)
  PROVE  t[2] \notin {"status", "padding", "total_size"}
BY PacketFormat DEF WellFormed, WellFormedTexts, ToSet

LEMMA WrittenStatus ==
  ASSUME NEW p, IsPacket(p)
  PROVE  Written(p, "status") = p.status /\ Written(p, "padding") = 0
BY NoLengths DEF Written

(* The length that is written for a text is its own. *)
LEMMA WrittenLength ==
  ASSUME NEW p, IsPacket(p), Fits(p), NEW texts, texts = FormatOfPacket(p).texts,
         NEW n \in 1..Len(texts)
  PROVE  Written(p, texts[n][2]) = Len(p.text[texts[n][1]])
<1> DEFINE field == texts[n][2]
           text == p.text[texts[n][1]]
<1>1. DOMAIN texts = 1..Len(texts) /\ field \notin {"status", "padding", "total_size"}
  BY PacketFormat DEF WellFormed, WellFormedTexts
<1>2. \A t \in ToSet(texts) : t[2] = field => t = texts[n]
  BY <1>1, PacketFormat DEF WellFormed, WellFormedTexts, ToSet
<1>3. texts[n] \in ToSet(texts)
  BY <1>1 DEF ToSet
<1>4. (CHOOSE t \in ToSet(texts) : t[2] = field) = texts[n]
  BY <1>2, <1>3
<1>5. Written(p, field) = Cast(field, Len(text))
  BY <1>1, <1>3, <1>4 DEF Written
<1>6. texts[n][1] \in DOMAIN p.text /\ Len(text) \in Nat
  BY TextsOf
<1>7. CASE p.type = "FILE_CHUNK"
  <2>1. texts = FileChunk.texts
    BY <1>7, ChunkFormat DEF FormatOfPacket
  <2>2. n = 1
    <3>1. Len(texts) = 1
      BY <2>1, ChunkFormat
    <3> QED BY <3>1
  <2>3. field = "chunk_size"
    BY <2>1, <2>2, ChunkFormat
  <2> QED BY <1>5, <2>3 DEF Cast
<1>8. CASE p.type # "FILE_CHUNK"
  <2>1. Len(text) < LenMod
    BY <1>6, <1>8 DEF Fits
  <2>2. Len(text) % LenMod = Len(text)
    <3>1. LenMod \in Nat \ {0}
      BY WidthsAssumption
    <3> HIDE DEF text
    <3> QED BY <1>6, <2>1, <3>1
  <2> QED BY <1>5, <2>2 DEF Cast
<1> QED BY <1>7, <1>8

LEMMA WrittenValue ==
  ASSUME NEW p, IsPacket(p), NEW field \in ValueFields(FormatOfPacket(p))
  PROVE  Written(p, field) = IF p.type = "UPLOAD_DIR_REQUEST" /\ field = "total_size"
                             THEN Size(p) ELSE p.value[field]
BY DEF Written, ValueFields, LengthFields

LEMMA WrittenType ==
  ASSUME NEW p, IsPacket(p), Fits(p), NEW n \in 1..Len(FormatOfPacket(p).fields)
  PROVE  Written(p, FormatOfPacket(p).fields[n][1]) \in Int
<1> DEFINE format == FormatOfPacket(p)
           field == format.fields[n][1]
<1>1. CASE field = "status"
  BY <1>1, WrittenStatus, PacketFormat
<1>2. CASE field = "padding"
  BY <1>2, WrittenStatus
<1>3. CASE field \in LengthFields(format)
  <2>1. PICK t \in ToSet(format.texts) : t[2] = field
    BY <1>3 DEF LengthFields
  <2>2. PICK k \in 1..Len(format.texts) : t = format.texts[k]
    BY <2>1, PacketFormat DEF ToSet, WellFormed, WellFormedTexts
  <2>3. Written(p, field) = Len(p.text[format.texts[k][1]])
    BY <2>1, <2>2, WrittenLength
  <2> QED BY <2>3, <2>2, TextLengthsType
<1>4. CASE field \in ValueFields(format)
  BY <1>4, WrittenValue, SizeType DEF IsPacket
<1>5. field \in {f[1] : f \in ToSet(format.fields)}
  <2>1. format.fields[n] \in ToSet(format.fields)
    BY PacketFormat DEF WellFormed, WellFormedFields, ToSet
  <2> QED BY <2>1
<1> QED BY <1>1, <1>2, <1>3, <1>4, <1>5 DEF ValueFields

LEMMA SeqFrom ==
  ASSUME NEW S, NEW k \in Nat, NEW f \in [1..k -> S]
  PROVE  f \in Seq(S) /\ Len(f) = k
OBVIOUS

(* The fields, as far as they are within a buffer, and the texts *)

FieldsLaid(p, buf) ==
  LET format == FormatOfPacket(p)
  IN \A n \in 1..Len(format.fields) :
       buf[Ends(FieldWidths(format))[n - 1] + 1][1] = Written(p, format.fields[n][1])

TextsLaid(p, buf) ==
  LET format == FormatOfPacket(p)
  IN \A n \in 1..Len(format.texts) : \A j \in 1..TextLengths(p)[n] :
       buf[Width(format) + (Ends(TextLengths(p))[n - 1] + j)] = p.text[format.texts[n][1]][j]

(* Where a field begins *)
LEMMA FieldWithin ==
  ASSUME NEW format, WellFormedFields(format.fields), NEW n \in 1..Len(format.fields)
  PROVE  /\ Ends(FieldWidths(format))[n - 1] + 1 \in 1..Width(format)
         /\ Ends(FieldWidths(format))[n - 1] \in Nat /\ Width(format) \in Nat
<1> DEFINE w == FieldWidths(format)
           e == Ends(w)
<1>1. /\ w \in Seq(Nat) /\ Len(w) = Len(format.fields) /\ w[n] \in Nat \ {0}
      /\ Len(format.fields) \in Nat
  BY FieldWidthsType DEF WellFormedFields
<1>2. SumsTo(e, w, Len(w))
  BY <1>1, EndsOf
<1>3. e[n] <= e[Len(w)]
  <2>1. n \in 0..Len(w) /\ Len(w) \in n..Len(w)
    BY <1>1
  <2> QED BY <1>1, <2>1, EndsGrow
<1>4. Width(format) = e[Len(w)]
  BY DEF Width, Total
<1> HIDE DEF w, e
<1>5. n - 1 \in 0..Len(w) /\ n \in 1..Len(w) /\ n \in 0..Len(w) /\ Len(w) \in 0..Len(w)
  BY <1>1
<1>6. e[n - 1] \in Nat /\ e[n] = e[n - 1] + w[n] /\ e[n] \in Nat /\ e[Len(w)] \in Nat
  BY <1>2, <1>5 DEF SumsTo
<1>7. e[n - 1] + 1 \in 1..e[Len(w)]
  <2>1. 1 \in 1..w[n] /\ w[n] \in Nat
    BY <1>1
  <2>2. e[n - 1] + w[n] <= e[Len(w)]
    BY <1>3, <1>6
  <2> QED BY <1>6, <2>1, <2>2, Within
<1> QED BY <1>4, <1>6, <1>7 DEF e, w

LEMMA FieldBytes ==
  ASSUME NEW p, IsPacket(p), Fits(p), NEW format, format = FormatOfPacket(p),
         NEW bytes, bytes = FlattenSeq([n \in DOMAIN format.fields |->
                              Bytes(Written(p, format.fields[n][1]), format.fields[n][2])])
  PROVE  bytes \in Seq(Cells) /\ Len(bytes) = Width(format) /\ FieldsLaid(p, bytes)
<1> DEFINE fields == format.fields
           w == FieldWidths(format)
           parts == [n \in DOMAIN fields |-> Bytes(Written(p, fields[n][1]), fields[n][2])]
<1>1. WellFormedFields(fields)
  BY PacketFormat DEF WellFormed
<1>2. /\ w \in Seq(Nat) /\ Len(w) = Len(fields)
      /\ \A n \in 1..Len(fields) : w[n] = fields[n][2] /\ w[n] \in Nat \ {0}
  BY <1>1, FieldWidthsType
<1>3. DOMAIN fields = 1..Len(fields) /\ Len(fields) \in Nat
  BY <1>1 DEF WellFormedFields
<1>4. ASSUME NEW n \in 1..Len(fields)
      PROVE  /\ Bytes(Written(p, fields[n][1]), fields[n][2]) \in Seq(Cells)
             /\ Len(Bytes(Written(p, fields[n][1]), fields[n][2])) = w[n]
             /\ Bytes(Written(p, fields[n][1]), fields[n][2])[1] = <<Written(p, fields[n][1]), 1>>
  <2> DEFINE v == Written(p, fields[n][1])
             width == fields[n][2]
  <2>1. v \in Int
    BY WrittenType
  <2>2. width \in Nat /\ width = w[n] /\ 1 \in 1..width
    BY <1>2
  <2> HIDE DEF v, width
  <2>3. /\ Bytes(v, width) \in Seq(Cells) /\ Len(Bytes(v, width)) = width
        /\ Bytes(v, width)[1] = <<v, 1>>
    BY <2>1, <2>2, BytesType
  <2> QED BY <2>2, <2>3 DEF v, width
<1>5. parts = [n \in 1..Len(fields) |-> Bytes(Written(p, fields[n][1]), fields[n][2])]
  BY <1>3
<1>6. /\ parts \in Seq(Seq(Cells)) /\ Len(parts) = Len(fields)
      /\ \A n \in 1..Len(fields) :
           Len(parts[n]) = w[n] /\ parts[n][1] = <<Written(p, fields[n][1]), 1>>
  <2> HIDE DEF parts, fields, w
  <2>1. parts \in [1..Len(fields) -> Seq(Cells)]
    BY <1>4, <1>5
  <2>2. parts \in Seq(Seq(Cells)) /\ Len(parts) = Len(fields)
    BY <1>3, <2>1, SeqFrom, Zenon
  <2>3. \A n \in 1..Len(fields) :
          parts[n] = Bytes(Written(p, fields[n][1]), fields[n][2])
    BY <1>5
  <2> QED BY <1>4, <2>2, <2>3, Zenon
<1>7. bytes = FlattenSeq(parts)
  OBVIOUS
<1> HIDE DEF parts, w, fields
<1>8. /\ bytes \in Seq(Cells) /\ Len(bytes) = Total(w)
      /\ \A n \in 1..Len(parts) : \A j \in 1..w[n] : bytes[Ends(w)[n - 1] + j] = parts[n][j]
  <2>1. Parts(parts, w, Cells)
    <3>1. Len(w) = Len(parts)
      BY <1>2, <1>6, Zenon
    <3>2. \A n \in 1..Len(parts) : w[n] = Len(parts[n])
      BY <1>6, Zenon
    <3> QED BY <1>2, <1>6, <3>1, <3>2, Zenon DEF Parts
  <2>2. Flat(bytes, parts, w, Cells)
    BY <1>7, <2>1, PartsFlat, Zenon
  <2> QED BY <2>2, Zenon DEF Flat
<1>9. ASSUME NEW n \in 1..Len(fields)
      PROVE  bytes[Ends(w)[n - 1] + 1][1] = Written(p, fields[n][1])
  <2>1. 1 \in 1..w[n] /\ n \in 1..Len(parts)
    BY <1>2, <1>6
  <2>2. bytes[Ends(w)[n - 1] + 1] = parts[n][1]
    BY <1>8, <2>1
  <2>3. <<Written(p, fields[n][1]), 1>>[1] = Written(p, fields[n][1])
    OBVIOUS
  <2> QED BY <1>6, <2>2, <2>3
<1> QED BY <1>8, <1>9 DEF FieldsLaid, Width, w, fields

LEMMA TextBytes ==
  ASSUME NEW p, IsPacket(p), NEW texts, texts = FormatOfPacket(p).texts,
         NEW bytes, bytes = FlattenSeq([n \in DOMAIN texts |-> p.text[texts[n][1]]])
  PROVE  /\ bytes \in Seq(Cells) /\ Len(bytes) = Total(TextLengths(p))
         /\ \A n \in 1..Len(texts) : \A j \in 1..TextLengths(p)[n] :
              bytes[Ends(TextLengths(p))[n - 1] + j] = p.text[texts[n][1]][j]
<1> DEFINE parts == [n \in DOMAIN texts |-> p.text[texts[n][1]]]
           l == TextLengths(p)
<1>1. DOMAIN texts = 1..Len(texts) /\ Len(texts) \in Nat
  BY PacketFormat DEF WellFormed, WellFormedTexts
<1>2. \A n \in 1..Len(texts) : p.text[texts[n][1]] \in Seq(Cells)
  BY TextsOf
<1>3. /\ l \in Seq(Nat) /\ Len(l) = Len(texts)
      /\ \A n \in 1..Len(texts) : l[n] = Len(p.text[texts[n][1]])
  BY TextLengthsType
<1>4. /\ parts \in Seq(Seq(Cells)) /\ Len(parts) = Len(texts)
      /\ \A n \in 1..Len(texts) : parts[n] = p.text[texts[n][1]]
  BY <1>1, <1>2
<1>5. bytes = FlattenSeq(parts)
  OBVIOUS
<1> HIDE DEF parts, l
<1>6. /\ bytes \in Seq(Cells) /\ Len(bytes) = Total(l)
      /\ \A n \in 1..Len(parts) : \A j \in 1..l[n] : bytes[Ends(l)[n - 1] + j] = parts[n][j]
  <2>1. Parts(parts, l, Cells)
    <3>1. Len(l) = Len(parts)
      BY <1>3, <1>4, Zenon
    <3>2. \A n \in 1..Len(texts) : l[n] = Len(parts[n])
      BY <1>3, <1>4, Zenon
    <3>3. \A n \in 1..Len(parts) : l[n] = Len(parts[n])
      BY <1>4, <3>2, Zenon
    <3> QED BY <1>3, <1>4, <3>1, <3>3, Zenon DEF Parts
  <2>2. Flat(bytes, parts, l, Cells)
    BY <1>5, <2>1, PartsFlat, Zenon
  <2> QED BY <2>2, Zenon DEF Flat
<1>7. \A n \in 1..Len(texts) : \A j \in 1..l[n] :
        bytes[Ends(l)[n - 1] + j] = p.text[texts[n][1]][j]
  <2> SUFFICES ASSUME NEW n \in 1..Len(texts), NEW j \in 1..l[n]
               PROVE  bytes[Ends(l)[n - 1] + j] = p.text[texts[n][1]][j]
    BY Zenon
  <2>1. n \in 1..Len(parts) /\ parts[n] = p.text[texts[n][1]]
    BY <1>4, Zenon
  <2> QED BY <1>6, <2>1, Zenon
<1> QED BY <1>6, <1>7, Zenon DEF l

LEMMA PartWithin ==
  ASSUME NEW lengths \in Seq(Nat), NEW n \in 1..Len(lengths)
  PROVE  /\ Ends(lengths)[n - 1] \in Nat /\ lengths[n] \in Nat
         /\ Ends(lengths)[n - 1] + lengths[n] <= Total(lengths)
<1> DEFINE e == Ends(lengths)
<1>1. SumsTo(e, lengths, Len(lengths))
  BY EndsOf
<1>2. e[n] <= e[Len(lengths)]
  <2>1. n \in 0..Len(lengths) /\ Len(lengths) \in n..Len(lengths)
    OBVIOUS
  <2> HIDE DEF e
  <2> QED BY <2>1, EndsGrow DEF e
<1> HIDE DEF e
<1>3. e[n - 1] \in Nat /\ e[n] = e[n - 1] + lengths[n] /\ lengths[n] \in Nat
  <2>1. n - 1 \in 0..Len(lengths)
    OBVIOUS
  <2>2. lengths[n] \in Nat
    OBVIOUS
  <2>3. e \in [0..Len(lengths) -> Nat] /\ e[n] = e[n - 1] + lengths[n]
    BY <1>1, Zenon DEF SumsTo
  <2> QED BY <2>1, <2>2, <2>3
<1> QED BY <1>2, <1>3 DEF e, Total

ThreeJoined(q, s, t, u, A) ==
  /\ q \in Seq(A) /\ Len(q) = Len(s) + Len(t) + Len(u)
  /\ \A i \in 1..Len(s) : q[i] = s[i]
  /\ \A j \in 1..Len(t) : q[Len(s) + j] = t[j]

LEMMA ThreeParts ==
  ASSUME NEW A, NEW s \in Seq(A), NEW t \in Seq(A), NEW u \in Seq(A)
  PROVE  ThreeJoined(Join(Join(s, t), u), s, t, u, A)
<1> DEFINE st == Join(s, t)
           all == Join(st, u)
<1>1. Joined(st, s, t, A)
  BY JoinParts, Zenon
<1> HIDE DEF st
<1>2. Joined(all, st, u, A)
  <2>1. st \in Seq(A)
    BY <1>1, Zenon DEF Joined
  <2> QED BY <2>1, JoinParts, Zenon
<1> HIDE DEF all
<1>3. Len(s) \in Nat /\ Len(t) \in Nat
  OBVIOUS
<1>4. \A i \in 1..Len(s) : i \in 1..Len(st)
  BY <1>1, <1>3 DEF Joined
<1>5. \A j \in 1..Len(t) : Len(s) + j \in 1..Len(st)
  BY <1>1, <1>3 DEF Joined
<1>6. \A i \in 1..Len(s) : all[i] = s[i]
  BY <1>1, <1>2, <1>4, Zenon DEF Joined
<1>7. \A j \in 1..Len(t) : all[Len(s) + j] = t[j]
  BY <1>1, <1>2, <1>5, Zenon DEF Joined
<1>8. all \in Seq(A) /\ Len(all) = Len(s) + Len(t) + Len(u)
  BY <1>1, <1>2 DEF Joined
<1> QED BY <1>6, <1>7, <1>8 DEF ThreeJoined, all, st

LEMMA ExcessType == ASSUME NEW type PROVE Excess(type) \in Nat
BY DEF Excess

Laid(p, buf) ==
  /\ buf \in Seq(Cells) /\ Len(buf) = Size(p) + Excess(p.type)
  /\ FieldsLaid(p, buf) /\ TextsLaid(p, buf)

LEMMA PayloadLaid ==
  ASSUME NEW p, IsPacket(p), Fits(p)
  PROVE  Laid(p, Payload(p))
<1> DEFINE format == FormatOfPacket(p)
           fields == format.fields
           texts == format.texts
           l == TextLengths(p)
           s == FlattenSeq([n \in DOMAIN fields |-> Bytes(Written(p, fields[n][1]), fields[n][2])])
           t == FlattenSeq([n \in DOMAIN texts |-> p.text[texts[n][1]]])
           u == Bytes(0, Excess(p.type))
           all == Payload(p)
<1>1. all = Join(Join(s, t), u)
  BY DEF Payload, Serialize, Join
<1>2. s \in Seq(Cells) /\ Len(s) = Width(format) /\ FieldsLaid(p, s)
  BY FieldBytes
<1>3. /\ t \in Seq(Cells) /\ Len(t) = Total(l)
      /\ \A n \in 1..Len(texts) : \A j \in 1..l[n] :
           t[Ends(l)[n - 1] + j] = p.text[texts[n][1]][j]
  BY TextBytes
<1>4. u \in Seq(Cells) /\ Len(u) = Excess(p.type)
  BY ExcessType, BytesType
<1>5. l \in Seq(Nat) /\ Len(l) = Len(texts)
  BY TextLengthsType
<1>6. WellFormedFields(fields)
  BY PacketFormat DEF WellFormed
<1>7. Width(format) \in Nat /\ Total(l) \in Nat /\ Excess(p.type) \in Nat
  BY <1>2, <1>3, ExcessType
<1> HIDE DEF s, t, u, all, l
<1>8. /\ all \in Seq(Cells) /\ Len(all) = Len(s) + Len(t) + Len(u)
      /\ \A i \in 1..Len(s) : all[i] = s[i]
      /\ \A j \in 1..Len(t) : all[Len(s) + j] = t[j]
  <2>1. s \in Seq(Cells) /\ t \in Seq(Cells) /\ u \in Seq(Cells)
    BY <1>2, <1>3, <1>4
  <2>2. ThreeJoined(all, s, t, u, Cells)
    BY <1>1, <2>1, ThreeParts, Zenon
  <2> QED BY <2>2, Zenon DEF ThreeJoined
<1>9. FieldsLaid(p, all)
  <2> SUFFICES ASSUME NEW n \in 1..Len(fields)
               PROVE  all[Ends(FieldWidths(format))[n - 1] + 1][1] = Written(p, fields[n][1])
    BY DEF FieldsLaid
  <2>1. s[Ends(FieldWidths(format))[n - 1] + 1][1] = Written(p, fields[n][1])
    BY <1>2 DEF FieldsLaid
  <2>2. Ends(FieldWidths(format))[n - 1] + 1 \in 1..Len(s)
    BY <1>2, <1>6, FieldWithin
  <2> QED BY <1>8, <2>1, <2>2, Zenon
<1>10. TextsLaid(p, all)
  <2> SUFFICES ASSUME NEW n \in 1..Len(texts), NEW j \in 1..l[n]
               PROVE  all[Width(format) + (Ends(l)[n - 1] + j)] = p.text[texts[n][1]][j]
    BY DEF TextsLaid, l
  <2>1. /\ Ends(l)[n - 1] \in Nat /\ l[n] \in Nat /\ Ends(l)[n - 1] + l[n] <= Total(l)
    BY <1>5, PartWithin
  <2>2. Ends(l)[n - 1] + j \in 1..Total(l)
    BY <1>7, <2>1, Within, Zenon
  <2> QED BY <1>2, <1>3, <1>8, <2>2, Zenon
<1>11. Len(all) = Size(p) + Excess(p.type)
  BY <1>2, <1>3, <1>4, <1>7, <1>8 DEF Size, l
<1> QED BY <1>8, <1>9, <1>10, <1>11 DEF Laid, all

-----------------------------------------------------------------------------
(* What deserialize reads *)

(* The first of two equal numbers is the only one. *)
LEMMA ReadField ==
  ASSUME NEW p, IsPacket(p), NEW buf, FieldsLaid(p, buf), NEW format, format = FormatOfPacket(p),
         NEW n \in 1..Len(format.fields), format.fields[n][1] # "padding"
  PROVE  Read(format, buf, format.fields[n][1]) = Written(p, format.fields[n][1])
<1> DEFINE fields == format.fields
<1>1. /\ DOMAIN fields = 1..Len(fields)
      /\ \A k \in 1..Len(fields) : fields[k][1] = fields[n][1] => k = n
  BY PacketFormat DEF WellFormed, WellFormedFields
<1>2. (CHOOSE k \in DOMAIN fields : fields[k][1] = fields[n][1]) = n
  BY <1>1
<1>3. Read(format, buf, fields[n][1]) = buf[Ends(FieldWidths(format))[n - 1] + 1][1]
  BY <1>2 DEF Read
<1> QED BY <1>3 DEF FieldsLaid

(* The status can be told from the first cell. *)
LEMMA StatusRead ==
  ASSUME NEW p, IsPacket(p), NEW all, FieldsLaid(p, all), NEW buf, buf[1] = all[1]
  PROVE  StatusOf(p.type, buf) = p.status
<1>1. CASE p.type \in WithStatus
  <2> DEFINE format == FormatOfPacket(p)
             e == Ends(FieldWidths(format))
  <2>1. format.fields[1][1] = "status"
    BY <1>1, StatusFormats DEF FormatOfPacket
  <2>2. WellFormedFields(format.fields)
    BY PacketFormat DEF WellFormed
  <2>3. e[0] = 0
    BY <2>2, FieldWidthsType, EndsOf DEF SumsTo
  <2>4. 1 \in 1..Len(format.fields)
    BY <2>2 DEF WellFormedFields
  <2>5. all[e[1 - 1] + 1][1] = Written(p, format.fields[1][1])
    BY <2>4 DEF FieldsLaid
  <2> HIDE DEF e, format
  <2>6. all[1][1] = Written(p, "status")
    BY <2>1, <2>3, <2>5
  <2>7. Cardinality(Statuses(p.type)) > 1
    BY <1>1, StatusCounts
  <2> QED BY <2>6, <2>7, WrittenStatus DEF StatusOf
<1>2. CASE p.type \notin WithStatus
  <2>1. Cardinality(Statuses(p.type)) = 1 /\ p.status \in {0}
    BY <1>2, StatusCounts DEF IsPacket
  <2> QED BY <2>1 DEF StatusOf
<1> QED BY <1>1, <1>2

LEMMA LengthsRead ==
  ASSUME NEW p, IsPacket(p), Fits(p), NEW buf, FieldsLaid(p, buf),
         NEW format, format = FormatOfPacket(p), p.type # "AUTHENTICATION_RESPONSE"
  PROVE  ReadLengths(p.type, format, buf) = TextLengths(p)
<1> DEFINE fields == format.fields
           texts == format.texts
<1>1. WellFormedTexts(fields, texts) /\ DOMAIN texts = 1..Len(texts)
  BY PacketFormat DEF WellFormed, WellFormedTexts
<1>2. ASSUME NEW n \in 1..Len(texts)
      PROVE  TextLength(p.type, format, buf, texts[n]) = Len(p.text[texts[n][1]])
  <2>1. PICK k \in 1..Len(fields) : fields[k][1] = texts[n][2]
    BY <1>1 DEF WellFormedTexts
  <2>2. fields[k][1] # "padding"
    BY <1>1, <2>1 DEF WellFormedTexts
  <2>3. Read(format, buf, fields[k][1]) = Written(p, fields[k][1])
    BY <2>2, ReadField
  <2>4. Written(p, texts[n][2]) = Len(p.text[texts[n][1]])
    BY WrittenLength
  <2> QED BY <2>1, <2>3, <2>4 DEF TextLength
<1>3. /\ ReadLengths(p.type, format, buf)
           = [n \in 1..Len(texts) |-> TextLength(p.type, format, buf, texts[n])]
      /\ TextLengths(p) = [n \in 1..Len(texts) |-> Len(p.text[texts[n][1]])]
  BY <1>1 DEF ReadLengths, TextLengths
<1> HIDE DEF texts, fields
<1> QED BY <1>2, <1>3

(* The message of AuthenticationResponse is not looked at. *)
LEMMA NothingRead ==
  ASSUME NEW p, IsPacket(p), p.type = "AUTHENTICATION_RESPONSE", NEW buf
  PROVE  Total(ReadLengths(p.type, FormatOfPacket(p), buf)) = 0
<1> DEFINE l == ReadLengths(p.type, FormatOfPacket(p), buf)
<1>1. FormatOfPacket(p).texts = Message
  BY DEF FormatOfPacket, FormatOf, AuthenticationResponse, Format
<1>2. l = [n \in 1..1 |-> 0]
  BY <1>1 DEF ReadLengths, TextLength, Message
<1> HIDE DEF l
<1>3. l \in Seq(Nat) /\ Len(l) = 1 /\ l[1] = 0
  BY <1>2
<1>4. SumsTo(Ends(l), l, 1)
  BY <1>3, EndsOf
<1>5. Ends(l)[1] = Ends(l)[1 - 1] + l[1] /\ Ends(l)[0] = 0
  BY <1>4 DEF SumsTo
<1>6. Total(l) = 0
  BY <1>3, <1>5 DEF Total
<1> QED BY <1>6 DEF l

LEMMA SizesType ==
  ASSUME NEW p, IsPacket(p)
  PROVE  /\ Width(FormatOfPacket(p)) \in Nat \ {0} /\ Total(TextLengths(p)) \in Nat
         /\ Excess(p.type) \in Nat
<1> DEFINE format == FormatOfPacket(p)
<1>1. WellFormedFields(format.fields) /\ 1 \in 1..Len(format.fields)
  BY PacketFormat DEF WellFormed, WellFormedFields
<1>2. /\ Ends(FieldWidths(format))[1 - 1] + 1 \in 1..Width(format)
      /\ Ends(FieldWidths(format))[1 - 1] \in Nat /\ Width(format) \in Nat
  <2> HIDE DEF format
  <2> QED BY <1>1, FieldWithin
<1>3. Width(format) \in Nat \ {0}
  <2> HIDE DEF format
  <2> QED BY <1>2
<1> QED BY <1>3, TextLengthsType, TotalType, ExcessType

(* The sizes of a payload are what is checked, once its fields are there. *)
LEMMA SizesChecked ==
  ASSUME NEW p, IsPacket(p), Fits(p), NEW buf, Len(buf) \in Nat, FieldsLaid(p, buf),
         StatusOf(p.type, buf) = p.status, p.type # "AUTHENTICATION_RESPONSE"
  PROVE  LongEnough(p.type, buf) <=> Len(buf) >= Size(p) + Excess(p.type)
<1> DEFINE w == Width(FormatOfPacket(p))
           x == Excess(p.type)
           m == Total(TextLengths(p))
<1>1. w \in Nat \ {0} /\ m \in Nat /\ x \in Nat
  BY SizesType
<1>2. Total(ReadLengths(p.type, FormatOfPacket(p), buf)) = m
  BY LengthsRead
<1>3. LongEnough(p.type, buf) <=>
        Len(buf) >= 1 /\ Len(buf) >= w + x /\ Len(buf) >= (w + x) + m
  BY <1>2 DEF LongEnough, FormatOfPacket
<1>4. Size(p) = w + m
  BY DEF Size
<1> HIDE DEF w, x, m
<1> QED BY <1>1, <1>3, <1>4 DEF x

LEMMA PayloadLongEnough ==
  ASSUME NEW p, IsPacket(p), Fits(p), NEW buf, Laid(p, buf)
  PROVE  LongEnough(p.type, buf) /\ StatusOf(p.type, buf) = p.status
<1>1. StatusOf(p.type, buf) = p.status
  BY StatusRead DEF Laid
<1>2. /\ Len(buf) = Size(p) + Excess(p.type) /\ Size(p) \in Nat /\ Excess(p.type) \in Nat
      /\ Len(buf) \in Nat
  BY SizeType, ExcessType DEF Laid
<1>3. CASE p.type # "AUTHENTICATION_RESPONSE"
  <2>1. Len(buf) >= Size(p) + Excess(p.type)
    BY <1>2
  <2> QED BY <1>1, <1>2, <1>3, <2>1, SizesChecked DEF Laid
<1>4. CASE p.type = "AUTHENTICATION_RESPONSE"
  <2> DEFINE w == Width(FormatOfPacket(p))
             x == Excess(p.type)
             m == Total(TextLengths(p))
  <2>1. w \in Nat \ {0} /\ m \in Nat /\ x \in Nat
    BY SizesType
  <2>2. Total(ReadLengths(p.type, FormatOfPacket(p), buf)) = 0
    BY <1>4, NothingRead
  <2>3. LongEnough(p.type, buf) <=>
          Len(buf) >= 1 /\ Len(buf) >= w + x /\ Len(buf) >= (w + x) + 0
    BY <1>1, <2>2 DEF LongEnough, FormatOfPacket
  <2>4. Len(buf) = w + m + x
    BY <1>2 DEF Size
  <2> HIDE DEF w, m, x
  <2> QED BY <1>1, <2>1, <2>3, <2>4
<1> QED BY <1>3, <1>4

LEMMA PartOfSeq ==
  ASSUME NEW A, NEW s \in Seq(A), NEW t \in Seq(A), NEW a \in Nat, a + Len(t) <= Len(s),
         \A j \in 1..Len(t) : s[a + j] = t[j]
  PROVE  SubSeq(s, a + 1, a + Len(t)) = t
<1> DEFINE part == SubSeq(s, a + 1, a + Len(t))
<1>1. Len(t) \in Nat /\ Len(s) \in Nat /\ DOMAIN t = 1..Len(t)
  OBVIOUS
<1>2. part = [j \in 1..Len(t) |-> s[a + j]]
  BY <1>1
<1>3. t = [j \in 1..Len(t) |-> t[j]]
  BY <1>1
<1> HIDE DEF part
<1> QED BY <1>2, <1>3 DEF part

LEMMA TextRead ==
  ASSUME NEW p, IsPacket(p), NEW buf, Laid(p, buf), NEW format, format = FormatOfPacket(p),
         NEW lengths, lengths = TextLengths(p), NEW n \in 1..Len(format.texts)
  PROVE  SubSeq(buf, (Width(format) + Ends(lengths)[n - 1]) + 1,
                SmallerOf((Width(format) + Ends(lengths)[n - 1]) + lengths[n], Len(buf)))
           = p.text[format.texts[n][1]]
<1> DEFINE w == Width(format)
           e == Ends(lengths)[n - 1]
           m == Total(lengths)
           l == lengths[n]
           t == p.text[format.texts[n][1]]
<1>1. w \in Nat /\ m \in Nat /\ Excess(p.type) \in Nat
  BY SizesType
<1>2. lengths \in Seq(Nat) /\ Len(lengths) = Len(format.texts) /\ l = Len(t)
  BY TextLengthsType
<1>3. e \in Nat /\ l \in Nat /\ e + l <= m
  BY <1>2, PartWithin
<1>4. t \in Seq(Cells)
  BY TextsOf
<1>5. buf \in Seq(Cells) /\ Len(buf) = (w + m) + Excess(p.type)
  BY DEF Laid, Size
<1>6. \A j \in 1..l : buf[w + (e + j)] = t[j]
  BY DEF Laid, TextsLaid
<1> HIDE DEF w, e, m, l, t
<1>7. \A j \in 1..l : w + (e + j) = (w + e) + j
  BY <1>1, <1>3
<1>8. \A j \in 1..l : buf[(w + e) + j] = t[j]
  BY <1>6, <1>7
<1>9. w + e \in Nat /\ (w + e) + l <= Len(buf) /\ Len(buf) \in Nat
  BY <1>1, <1>3, <1>5
<1>10. SmallerOf((w + e) + l, Len(buf)) = (w + e) + l
  BY <1>3, <1>9 DEF SmallerOf
<1>11. SubSeq(buf, (w + e) + 1, (w + e) + l) = t
  BY <1>2, <1>4, <1>5, <1>8, <1>9, PartOfSeq
<1> QED BY <1>10, <1>11 DEF w, e, l, t

(* What serialize wrote, deserialize reads: each field and each text of a  *)
(* packet that fits its length fields, but for the message of              *)
(* AuthenticationResponse and total_size of UploadDirRequest               *)
(* (packet_def.hpp, each pair of serialize and deserialize).               *)
THEOREM WhatIsWrittenIsRead ==
  ASSUME NEW p, IsPacket(p), Fits(p)
  PROVE  AsSent(p, Deserialize(p.type, Payload(p)))
<1> DEFINE buf == Payload(p)
           format == FormatOfPacket(p)
           lengths == ReadLengths(p.type, format, buf)
           start(n) == Width(format) + Ends(lengths)[n - 1]
           value == [f \in ValueFields(format) |-> Read(format, buf, f)]
           number(t) == CHOOSE n \in DOMAIN format.texts : format.texts[n][1] = t
           textAt(n) == SubSeq(buf, start(n) + 1, SmallerOf(start(n) + lengths[n], Len(buf)))
           text == [t \in TextNames(format) |-> textAt(number(t))]
           q == Deserialize(p.type, buf)
<1>1. Laid(p, buf)
  BY PayloadLaid
<1>2. LongEnough(p.type, buf) /\ StatusOf(p.type, buf) = p.status
  <2> HIDE DEF buf
  <2> QED BY <1>1, PayloadLongEnough
<1>3. q = [type |-> p.type, status |-> p.status, value |-> value, text |-> text]
  BY <1>2 DEF Deserialize, FormatOfPacket, TextNames
<1>4. ASSUME p.type # "UPLOAD_DIR_REQUEST" PROVE value = p.value
  <2> HIDE DEF buf
  <2>1. ASSUME NEW f \in ValueFields(format) PROVE Read(format, buf, f) = p.value[f]
    <3>1. f # "padding" /\ \E x \in ToSet(format.fields) : x[1] = f
      BY DEF ValueFields
    <3>2. PICK n \in 1..Len(format.fields) : format.fields[n][1] = f
      BY <3>1, PacketFormat DEF ToSet, WellFormed, WellFormedFields
    <3>3. FieldsLaid(p, buf)
      BY <1>1 DEF Laid
    <3> HIDE DEF format
    <3>4. Read(format, buf, format.fields[n][1]) = Written(p, format.fields[n][1])
      BY <3>1, <3>2, <3>3, ReadField DEF format
    <3>5. Written(p, f) = p.value[f]
      BY <1>4, WrittenValue DEF format
    <3> QED BY <3>2, <3>4, <3>5
  <2>2. p.value = [f \in ValueFields(format) |-> p.value[f]]
    BY DEF IsPacket
  <2> HIDE DEF format
  <2> QED BY <2>1, <2>2
<1>5. ASSUME p.type # "AUTHENTICATION_RESPONSE" PROVE text = p.text
  <2>1. lengths = TextLengths(p)
    <3> HIDE DEF buf
    <3> QED BY <1>1, <1>5, LengthsRead DEF Laid
  <2>2. ASSUME NEW t \in TextNames(format) PROVE textAt(number(t)) = p.text[t]
    <3>1. \E x \in ToSet(format.texts) : x[1] = t
      BY DEF TextNames
    <3>2. PICK n \in 1..Len(format.texts) : format.texts[n][1] = t
      BY <3>1, PacketFormat DEF ToSet, WellFormed, WellFormedTexts
    <3>3. number(t) = n
      BY <3>2, PacketFormat DEF WellFormed, WellFormedTexts
    <3>4. textAt(n) = p.text[format.texts[n][1]]
      <4> HIDE DEF buf, lengths, format
      <4> QED BY <1>1, <2>1, TextRead DEF format
    <3> HIDE DEF number, textAt, format
    <3> QED BY <3>2, <3>3, <3>4
  <2>3. p.text = [t \in TextNames(format) |-> p.text[t]]
    BY DEF IsPacket
  <2> HIDE DEF number, textAt, format
  <2> QED BY <2>2, <2>3
<1> HIDE DEF value, text, q
<1> QED BY <1>3, <1>4, <1>5 DEF AsSent, q

(* No deserialize but that of AuthenticationResponse takes a payload that  *)
(* ends early for a packet, wherever it ends (packet_def.hpp, the checks   *)
(* of each deserialize).                                                   *)
THEOREM EarlyEndIsRefused ==
  ASSUME NEW p, IsPacket(p), Fits(p), p.type # "AUTHENTICATION_RESPONSE",
         NEW n \in 0..(Len(Payload(p)) - 1)
  PROVE  Deserialize(p.type, SubSeq(Payload(p), 1, n)) = Thrown
<1> DEFINE all == Payload(p)
           buf == SubSeq(all, 1, n)
           w == Width(FormatOfPacket(p))
           x == Excess(p.type)
<1>1. Laid(p, all)
  BY PayloadLaid
<1> HIDE DEF all
<1>2. all \in Seq(Cells) /\ Len(all) \in Nat /\ n \in 0..(Len(all) - 1)
  BY <1>1 DEF Laid, all
<1>3. n \in Nat /\ Len(buf) = n /\ n < Len(all) /\ \A i \in 1..n : buf[i] = all[i]
  BY <1>2
<1> HIDE DEF buf
<1>4. w \in Nat /\ x \in Nat
  BY SizesType
<1>5. SUFFICES ~LongEnough(p.type, buf)
  BY DEF Deserialize, buf, all
<1>6. CASE n = 0
  BY <1>3, <1>6 DEF LongEnough
<1>7. CASE n # 0
  <2>1. StatusOf(p.type, buf) = p.status
    <3>1. buf[1] = all[1]
      BY <1>3, <1>7
    <3>2. FieldsLaid(p, all)
      BY <1>1 DEF Laid
    <3> QED BY <3>1, <3>2, StatusRead
  <2>2. CASE n < w + x
    <3>1. LongEnough(p.type, buf) => Len(buf) >= w + x
      BY <2>1 DEF LongEnough, FormatOfPacket
    <3> HIDE DEF w, x
    <3> QED BY <1>3, <1>4, <2>2, <3>1
  <2>3. CASE ~(n < w + x)
    <3>1. FieldsLaid(p, buf)
      <4> DEFINE format == FormatOfPacket(p)
      <4> SUFFICES ASSUME NEW k \in 1..Len(format.fields)
                   PROVE  buf[Ends(FieldWidths(format))[k - 1] + 1][1]
                            = Written(p, format.fields[k][1])
        BY DEF FieldsLaid
      <4>1. all[Ends(FieldWidths(format))[k - 1] + 1][1] = Written(p, format.fields[k][1])
        BY <1>1 DEF Laid, FieldsLaid
      <4>2. Ends(FieldWidths(format))[k - 1] + 1 \in 1..w
        BY PacketFormat, FieldWithin DEF WellFormed
      <4>3. \A i \in 1..w : i \in 1..n
        <5> HIDE DEF w, x
        <5> QED BY <1>3, <1>4, <2>3
      <4> QED BY <1>3, <4>1, <4>2, <4>3, Zenon
    <3>2. LongEnough(p.type, buf) <=> Len(buf) >= Size(p) + Excess(p.type)
      BY <1>3, <2>1, <3>1, SizesChecked
    <3>3. Len(all) = Size(p) + Excess(p.type)
      BY <1>1 DEF Laid
    <3> QED BY <1>2, <1>3, <3>2, <3>3
  <2> QED BY <2>2, <2>3
<1> QED BY <1>6, <1>7

LEMMA OneOrTwo == ASSUME NEW m \in 0..2, NEW k \in 1..m PROVE k \in {1, 2}
OBVIOUS

(* The packets that are looked at in runs are packets. *)
LEMMA PacketIsOne ==
  ASSUME NEW type \in PacketTypes, NEW status \in Statuses(type), NEW lengths \in Nat \X Nat
  PROVE  IsPacket(Packet(type, status, lengths))
<1> DEFINE format == FormatOf(type, status)
           number(seq, name) == CHOOSE n \in DOMAIN seq : seq[n][1] = name
           value == [f \in ValueFields(format) |-> 1000 + number(format.fields, f)]
           text == [t \in TextNames(format) |->
                     Bytes(-number(format.texts, t), lengths[number(format.texts, t)])]
           p == Packet(type, status, lengths)
<1>1. WellFormed(format)
  BY FormatsOf
<1>2. /\ DOMAIN format.fields = 1..Len(format.fields) /\ Len(format.fields) \in Nat
      /\ DOMAIN format.texts = 1..Len(format.texts) /\ Len(format.texts) \in 0..2
  BY <1>1 DEF WellFormed, WellFormedFields, WellFormedTexts
<1>3. p = [type |-> type, status |-> status, value |-> value, text |-> text]
  BY DEF Packet, TextNames
<1> HIDE DEF format
<1>4. ASSUME NEW f \in ValueFields(format) PROVE 1000 + number(format.fields, f) \in Int
  <2>1. \E x \in ToSet(format.fields) : x[1] = f
    BY DEF ValueFields
  <2>2. \E n \in DOMAIN format.fields : format.fields[n][1] = f
    BY <2>1 DEF ToSet
  <2>3. number(format.fields, f) \in DOMAIN format.fields
    BY <2>2
  <2> HIDE DEF number
  <2> QED BY <1>2, <2>3
<1>5. ASSUME NEW t \in TextNames(format)
      PROVE  Bytes(-number(format.texts, t), lengths[number(format.texts, t)]) \in Seq(Cells)
  <2>1. \E x \in ToSet(format.texts) : x[1] = t
    BY DEF TextNames
  <2>2. \E n \in DOMAIN format.texts : format.texts[n][1] = t
    BY <2>1 DEF ToSet
  <2>3. number(format.texts, t) \in DOMAIN format.texts
    BY <2>2
  <2> HIDE DEF number
  <2>4. number(format.texts, t) \in {1, 2}
    BY <1>2, <2>3, OneOrTwo, Zenon
  <2>5. -number(format.texts, t) \in Int /\ lengths[number(format.texts, t)] \in Nat
    BY <2>4
  <2> QED BY <2>5, BytesType
<1> HIDE DEF number
<1>6. value \in [ValueFields(format) -> Int] /\ text \in [TextNames(format) -> Seq(Cells)]
  BY <1>4, <1>5
<1> HIDE DEF value, text, p
<1>7. p.type = type /\ p.status = status /\ p.value = value /\ p.text = text
  BY <1>3
<1>8. FormatOfPacket(p) = format
  BY <1>7 DEF FormatOfPacket, format
<1>9. IsPacket(p)
  BY <1>6, <1>7, <1>8 DEF IsPacket
<1> QED BY <1>9 DEF p

LEMMA AllArePackets ==
  ASSUME NEW Lens, Lens \subseteq Nat, NEW p \in AllPackets(Lens)
  PROVE  IsPacket(p)
<1> DEFINE Of(type) == {Packet(type, status, <<m, n>>) : m, n \in Lens, status \in Statuses(type)}
<1>1. PICK type \in PacketTypes : p \in Of(type)
  <2>1. p \in UNION {Of(type) : type \in PacketTypes}
    BY DEF AllPackets
  <2> HIDE DEF Of
  <2> QED BY <2>1
<1>2. PICK m \in Lens, n \in Lens, status \in Statuses(type) : p = Packet(type, status, <<m, n>>)
  BY <1>1
<1>3. <<m, n>> \in Nat \X Nat
  OBVIOUS
<1> QED BY <1>2, <1>3, PacketIsOne

(* But for an entry of a directory, what serialize writes is the payload. *)
LEMMA SerializedWhole ==
  ASSUME NEW p, IsPacket(p), Fits(p), p.type # "FILE_ENTRY"
  PROVE  Payload(p) = Serialize(p)
<1> DEFINE format == FormatOfPacket(p)
           fields == format.fields
           texts == format.texts
           s == FlattenSeq([n \in DOMAIN fields |-> Bytes(Written(p, fields[n][1]), fields[n][2])])
           t == FlattenSeq([n \in DOMAIN texts |-> p.text[texts[n][1]]])
<1>1. s \in Seq(Cells) /\ t \in Seq(Cells)
  BY FieldBytes, TextBytes
<1>2. Serialize(p) = Join(s, t)
  BY DEF Serialize, Join
<1> HIDE DEF s, t
<1>3. Serialize(p) \in Seq(Cells)
  BY <1>1, <1>2, JoinParts, Zenon DEF Joined
<1>4. Bytes(0, Excess(p.type)) = << >>
  BY DEF Excess, Bytes
<1> QED BY <1>3, <1>4 DEF Payload

=============================================================================
