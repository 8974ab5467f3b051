------------------------- MODULE CommandCodecProofs -------------------------
(***************************************************************************)
(* What the coding and decoding of CommandCodec do with every input: lines *)
(* are split into the words that joining them again came from, and the     *)
(* entries of the statistics are read back as the rows they were written   *)
(* from.                                                                   *)
(***************************************************************************)
EXTENDS CommandCodec, SetInduction

-----------------------------------------------------------------------------
(* FlattenSeq.                                                             *)

\* The function that FlattenSeq computes, and one step of it.
Flat(ss) ==
  CHOOSE f : f = [i \in 1..Len(ss) |-> IF i = 1 THEN ss[i] ELSE f[i - 1] \o ss[i]]

LEMMA FlatDef ==
  ASSUME NEW S, NEW ss \in Seq(Seq(S)), ss # <<>>
  PROVE  /\ Flat(ss) \in [1..Len(ss) -> Seq(S)]
         /\ Flat(ss)[1] = ss[1]
         /\ \A i \in 2..Len(ss) : Flat(ss)[i] = Flat(ss)[i - 1] \o ss[i]
<1> DEFINE m == Len(ss)
           step == [i \in 1..m |-> [v \in Seq(S) |-> v \o ss[i]]]
<1>1. m \in Nat /\ 1 <= m /\ \A i \in 1..m : ss[i] \in Seq(S)
  BY LenProperties, EmptySeq, ElementOfSeq
<1>2. \A i \in 1..m, v \in Seq(S) : step[i][v] = v \o ss[i] /\ step[i][v] \in Seq(S)
  BY <1>1, ConcatProperties
<1>3. PICK f \in [1..m -> Seq(S)] :
        f[1] = ss[1] /\ \A i \in 1..m : i # 1 => f[i] = step[i][f[i - 1]]
  <2> HIDE DEF m, step
  <2> DEFINE V == Seq(S)
             first == ss[1]
  <2>1. StepWithin(step, 1, m, V)
    BY <1>2 DEF StepWithin
  <2>2. first \in V /\ 1 \in Nat /\ m \in Nat /\ 1 <= m
    BY <1>1
  <2>3. \E f \in [1..m -> V] : Recursive(f, 1, m, first, step)
    <3> HIDE DEF V, first
    <3> QED
      BY <2>1, <2>2, RecursiveFunction
  <2>4. QED
    BY <2>3 DEF Recursive
<1>4. ASSUME NEW i \in 1..m
      PROVE  f[i] = IF i = 1 THEN ss[i] ELSE f[i - 1] \o ss[i]
  <2>1. CASE i = 1
    BY <1>3, <2>1
  <2>2. CASE i # 1
    <3>1. f[i - 1] \in Seq(S) /\ i \in 2..m
      <4>1. i \in 2..m /\ i - 1 \in 1..m
        BY <1>1, <2>2
      <4> HIDE DEF m
      <4>2. QED
        BY <4>1
    <3>2. f[i] = step[i][f[i - 1]]
      <4> HIDE DEF step
      <4> QED
        BY <1>3, <2>2
    <3>3. QED
      BY <1>2, <2>2, <3>1, <3>2
  <2>3. QED
    BY <2>1, <2>2
<1>5. f = [i \in 1..m |-> IF i = 1 THEN ss[i] ELSE f[i - 1] \o ss[i]]
  BY <1>4
<1>6. Flat(ss) = [i \in 1..m |-> IF i = 1 THEN ss[i] ELSE Flat(ss)[i - 1] \o ss[i]]
  BY <1>5 DEF Flat
<1>7. PICK g : g = Flat(ss)
  OBVIOUS
<1>8. \A i \in 1..m : g[i] = IF i = 1 THEN ss[i] ELSE g[i - 1] \o ss[i]
  BY <1>6, <1>7
<1>9. g = [i \in 1..m |-> g[i]]
  BY <1>6, <1>7
<1>10. \A i \in 1..m : g[i] \in Seq(S)
  <2> DEFINE T == {k \in Nat : k + 1 <= m => g[k + 1] \in Seq(S)}
  <2>1. 0 \in T
    BY <1>1, <1>8
  <2>2. ASSUME NEW k \in Nat, k \in T
        PROVE  k + 1 \in T
    <3>1. SUFFICES ASSUME k + 2 <= m
                   PROVE  g[k + 2] \in Seq(S)
      OBVIOUS
    <3>2. g[k + 2] = g[k + 1] \o ss[k + 2]
      <4>1. k + 2 \in 1..m /\ k + 2 # 1 /\ (k + 2) - 1 = k + 1
        BY <1>1, <3>1
      <4> HIDE DEF m
      <4>2. QED
        BY <1>8, <4>1
    <3>3. g[k + 1] \in Seq(S) /\ ss[k + 2] \in Seq(S)
      BY <1>1, <2>2, <3>1
    <3>4. QED
      BY <3>2, <3>3, ConcatProperties
  <2>3. Nat \subseteq T
    <3> HIDE DEF T
    <3> QED
      BY <2>1, <2>2, NatSetInduction
  <2>4. ASSUME NEW i \in 1..m
        PROVE  g[i] \in Seq(S)
    <3>1. i - 1 \in Nat /\ (i - 1) + 1 = i /\ i <= m
      BY <1>1
    <3>2. i - 1 \in T
      BY <2>3, <3>1
    <3>3. QED
      BY <3>1, <3>2
  <2>5. QED
    BY <2>4
<1>11. g \in [1..m -> Seq(S)]
  BY <1>9, <1>10
<1>12. g[1] = ss[1]
  BY <1>1, <1>8
<1>13. ASSUME NEW i \in 2..m
       PROVE  g[i] = g[i - 1] \o ss[i]
  <2>1. i \in 1..m /\ i # 1
    BY <1>1
  <2> HIDE DEF m
  <2>2. QED
    BY <1>8, <2>1
<1>14. QED
  BY <1>7, <1>11, <1>12, <1>13

LEMMA FlattenSeqIsFlat ==
  ASSUME NEW S, NEW ss \in Seq(Seq(S)), ss # <<>>
  PROVE  FlattenSeq(ss) = Flat(ss)[Len(ss)]
BY EmptySeq DEF FlattenSeq, Flat

LEMMA FlattenSeqEmpty == FlattenSeq(<<>>) = <<>>
BY DEF FlattenSeq

LEMMA FlattenSeqType ==
  ASSUME NEW S, NEW ss \in Seq(Seq(S))
  PROVE  FlattenSeq(ss) \in Seq(S)
<1>1. CASE ss = <<>>
  BY <1>1, FlattenSeqEmpty, EmptySeq
<1>2. CASE ss # <<>>
  <2>1. FlattenSeq(ss) = Flat(ss)[Len(ss)] /\ Flat(ss) \in [1..Len(ss) -> Seq(S)]
    BY <1>2, FlattenSeqIsFlat, FlatDef
  <2>2. Len(ss) \in 1..Len(ss)
    BY <1>2, EmptySeq
  <2>3. QED
    BY <2>1, <2>2
<1>3. QED
  BY <1>1, <1>2

LEMMA FlattenSeqAppend ==
  ASSUME NEW S, NEW ss \in Seq(Seq(S)), NEW s \in Seq(S)
  PROVE  FlattenSeq(Append(ss, s)) = FlattenSeq(ss) \o s
<1> DEFINE tt == Append(ss, s)
           m == Len(ss)
<1>1. /\ tt \in Seq(Seq(S)) /\ tt # <<>> /\ Len(tt) = m + 1 /\ m \in Nat
      /\ \A i \in 1..m : tt[i] = ss[i]
      /\ tt[m + 1] = s
  BY AppendProperties, LenProperties
<1> HIDE DEF tt
<1>2. /\ FlattenSeq(tt) = Flat(tt)[m + 1]
      /\ Flat(tt)[1] = tt[1]
      /\ \A i \in 2..(m + 1) : Flat(tt)[i] = Flat(tt)[i - 1] \o tt[i]
  BY <1>1, FlattenSeqIsFlat, FlatDef
<1>3. CASE ss = <<>>
  <2>1. m = 0
    BY <1>3
  <2>2. FlattenSeq(tt) = s
    BY <1>1, <1>2, <2>1
  <2>3. QED
    BY <1>3, <2>2, FlattenSeqEmpty, ConcatEmptySeq DEF tt
<1>4. CASE ss # <<>>
  <2> DEFINE T == {k \in Nat : k + 1 <= m => Flat(tt)[k + 1] = Flat(ss)[k + 1]}
  <2>1. /\ FlattenSeq(ss) = Flat(ss)[m]
        /\ Flat(ss)[1] = ss[1]
        /\ \A i \in 2..m : Flat(ss)[i] = Flat(ss)[i - 1] \o ss[i]
    BY <1>4, FlattenSeqIsFlat, FlatDef
  <2>0. m >= 1
    BY <1>4, EmptySeq
  <2> HIDE DEF m
  <2>2. 0 \in T
    BY <1>1, <1>2, <2>0, <2>1
  <2>3. ASSUME NEW k \in Nat, k \in T
        PROVE  k + 1 \in T
    <3>1. SUFFICES ASSUME k + 2 <= m
                   PROVE  Flat(tt)[k + 2] = Flat(ss)[k + 2]
      OBVIOUS
    <3>2. Flat(tt)[k + 1] = Flat(ss)[k + 1]
      BY <1>1, <2>3, <3>1
    <3>0. k + 2 \in 2..m /\ k + 2 \in 2..(m + 1) /\ (k + 2) - 1 = k + 1
      BY <1>1, <3>1
    <3>3. Flat(tt)[k + 2] = Flat(tt)[k + 1] \o tt[k + 2]
      BY <1>2, <3>0
    <3>4. Flat(ss)[k + 2] = Flat(ss)[k + 1] \o ss[k + 2]
      BY <2>1, <3>0
    <3>5. tt[k + 2] = ss[k + 2]
      BY <1>1, <3>1
    <3>6. QED
      BY <3>2, <3>3, <3>4, <3>5
  <2>4. Nat \subseteq T
    <3> HIDE DEF T
    <3> QED
      BY <2>2, <2>3, NatSetInduction
  <2>5. Flat(tt)[m] = Flat(ss)[m]
    <3>1. m - 1 \in Nat /\ (m - 1) + 1 = m /\ m <= m
      BY <1>1, <2>0
    <3>2. m - 1 \in T
      BY <2>4, <3>1
    <3>3. QED
      BY <3>1, <3>2
  <2>6. Flat(tt)[m + 1] = Flat(tt)[m] \o tt[m + 1]
    <3>1. m + 1 \in 2..(m + 1) /\ (m + 1) - 1 = m
      BY <1>1, <2>0
    <3>2. QED
      BY <1>2, <3>1
  <2>7. QED
    BY <1>1, <1>2, <2>1, <2>5, <2>6 DEF tt
<1>5. QED
  BY <1>3, <1>4

LEMMA FlattenSeqOne ==
  ASSUME NEW S, NEW s \in Seq(S)
  PROVE  FlattenSeq(<<s>>) = s
<1>1. <<>> \in Seq(Seq(S)) /\ <<s>> = Append(<<>>, s)
  BY EmptySeq
<1>2. FlattenSeq(<<s>>) = <<>> \o s
  BY <1>1, FlattenSeqAppend, FlattenSeqEmpty
<1>3. QED
  BY <1>2, ConcatEmptySeq

LEMMA ToSetConcat ==
  ASSUME NEW S, NEW s \in Seq(S), NEW t \in Seq(S)
  PROVE  ToSet(s \o t) = ToSet(s) \cup ToSet(t)
<1>1. /\ Len(s) \in Nat /\ Len(t) \in Nat /\ DOMAIN s = 1..Len(s) /\ DOMAIN t = 1..Len(t)
      /\ DOMAIN (s \o t) = 1..(Len(s) + Len(t))
      /\ \A i \in 1..(Len(s) + Len(t)) :
           (s \o t)[i] = IF i <= Len(s) THEN s[i] ELSE t[i - Len(s)]
  BY ConcatProperties, LenProperties
<1>2. ASSUME NEW i \in 1..Len(s)
      PROVE  s[i] \in ToSet(s \o t)
  <2>1. i \in 1..(Len(s) + Len(t)) /\ i <= Len(s)
    BY <1>1
  <2>2. s[i] = (s \o t)[i]
    BY <1>1, <2>1
  <2>3. QED
    BY <1>1, <2>1, <2>2 DEF ToSet
<1>3. ASSUME NEW i \in 1..Len(t)
      PROVE  t[i] \in ToSet(s \o t)
  <2>1. i + Len(s) \in 1..(Len(s) + Len(t)) /\ ~ (i + Len(s) <= Len(s))
        /\ (i + Len(s)) - Len(s) = i
    BY <1>1
  <2>2. t[i] = (s \o t)[i + Len(s)]
    BY <1>1, <2>1
  <2>3. QED
    BY <1>1, <2>1, <2>2 DEF ToSet
<1>4. ASSUME NEW i \in 1..(Len(s) + Len(t))
      PROVE  (s \o t)[i] \in ToSet(s) \cup ToSet(t)
  <2>1. CASE i <= Len(s)
    BY <1>1, <2>1 DEF ToSet
  <2>2. CASE ~ (i <= Len(s))
    <3>1. i - Len(s) \in 1..Len(t)
      BY <1>1, <2>2
    <3>2. QED
      BY <1>1, <2>2, <3>1 DEF ToSet
  <2>3. QED
    BY <2>1, <2>2
<1>5. QED
  BY <1>1, <1>2, <1>3, <1>4 DEF ToSet

\* What a flattened sequence holds is what its parts hold.
LEMMA FlattenSeqHolds ==
  ASSUME NEW S, NEW ss \in Seq(Seq(S))
  PROVE  ToSet(FlattenSeq(ss)) = UNION {ToSet(ss[i]) : i \in 1..Len(ss)}
<1> DEFINE T == {tt \in Seq(Seq(S)) :
                   ToSet(FlattenSeq(tt)) = UNION {ToSet(tt[i]) : i \in 1..Len(tt)}}
<1>1. <<>> \in T
  BY FlattenSeqEmpty, EmptySeq DEF ToSet
<1>2. ASSUME NEW tt \in Seq(Seq(S)), NEW e \in Seq(S), tt \in T
      PROVE  Append(tt, e) \in T
  <2> DEFINE uu == Append(tt, e)
             m == Len(tt)
  <2>1. /\ uu \in Seq(Seq(S)) /\ Len(uu) = m + 1 /\ m \in Nat
        /\ \A i \in 1..m : uu[i] = tt[i]
        /\ uu[m + 1] = e
    BY AppendProperties, LenProperties
  <2>2. ToSet(FlattenSeq(uu)) = ToSet(FlattenSeq(tt)) \cup ToSet(e)
    <3>1. FlattenSeq(uu) = FlattenSeq(tt) \o e
      BY FlattenSeqAppend
    <3>2. FlattenSeq(tt) \in Seq(S)
      BY FlattenSeqType
    <3>3. QED
      BY <3>1, <3>2, ToSetConcat
  <2> HIDE DEF uu
  <2>3. 1..(m + 1) = (1..m) \cup {m + 1}
    BY <2>1
  <2>4. UNION {ToSet(uu[i]) : i \in 1..(m + 1)}
          = (UNION {ToSet(tt[i]) : i \in 1..m}) \cup ToSet(e)
    BY <2>1, <2>3
  <2>5. ToSet(FlattenSeq(uu)) = UNION {ToSet(uu[i]) : i \in 1..Len(uu)}
    BY <1>2, <2>1, <2>2, <2>4
  <2>6. QED
    BY <2>1, <2>5 DEF uu
<1>3. Seq(Seq(S)) \subseteq T
  <2> HIDE DEF T
  <2> QED
    BY <1>1, <1>2, SeqSetInduction
<1>4. QED
  BY <1>3

LEMMA FrontLast ==
  ASSUME NEW A, NEW s \in Seq(A), s # <<>>
  PROVE  Front(s) \in Seq(A) /\ Last(s) \in A /\ s = Append(Front(s), Last(s))
<1>1. Len(s) \in Nat \ {0} /\ s \in [1..Len(s) -> A]
  BY EmptySeq, LenProperties
<1>2. Last(s) \in A
  BY <1>1 DEF Last
<1>3. /\ Front(s) \in Seq(A) /\ Len(Front(s)) = Len(s) - 1
      /\ \A i \in 1..(Len(s) - 1) : Front(s)[i] = s[i]
  <2>1. \A i \in 1..(Len(s) - 1) : s[i] \in A
    BY <1>1
  <2>2. QED
    BY <1>1, <2>1, SubSeqProperties DEF Front
<1>4. /\ Append(Front(s), Last(s)) \in Seq(A) /\ Len(Append(Front(s), Last(s))) = Len(s)
      /\ \A i \in 1..(Len(s) - 1) : Append(Front(s), Last(s))[i] = Front(s)[i]
      /\ Append(Front(s), Last(s))[Len(s)] = Last(s)
  <2> DEFINE f == Front(s)
             e == Last(s)
             t == Append(f, e)
  <2>1. /\ t \in Seq(A) /\ Len(t) = Len(f) + 1
        /\ \A i \in 1..Len(f) : t[i] = f[i]
        /\ t[Len(f) + 1] = e
    <3> HIDE DEF f, e
    <3> QED
      BY <1>2, <1>3, AppendProperties DEF f, e
  <2>2. Len(f) = Len(s) - 1 /\ Len(f) + 1 = Len(s)
    BY <1>1, <1>3
  <2> HIDE DEF f, e, t
  <2>3. QED
    BY <2>1, <2>2 DEF f, e, t
<1>5. \A i \in 1..Len(s) : s[i] = Append(Front(s), Last(s))[i]
  BY <1>1, <1>3, <1>4 DEF Last
<1>6. QED
  BY <1>2, <1>3, <1>4, <1>5, SeqEqual

LEMMA FrontLastOfAppend ==
  ASSUME NEW A, NEW s \in Seq(A), NEW e \in A
  PROVE  Front(Append(s, e)) = s /\ Last(Append(s, e)) = e
<1>1. Append(s, e) \in Seq(A) /\ Append(s, e) # <<>>
  BY AppendProperties
<1>2. /\ Front(Append(s, e)) \in Seq(A) /\ Last(Append(s, e)) \in A
      /\ Append(s, e) = Append(Front(Append(s, e)), Last(Append(s, e)))
  BY <1>1, FrontLast
<1>3. QED
  BY <1>2, AppendInjective

-----------------------------------------------------------------------------
(* extract_words and string_list_to_string.                                *)

Piece == Verbs \cup Hosts
Word == Seq(Piece) \ {<<>>}

\* The runs between spaces of a text, the last of which may be empty.
Runs == Seq(Seq(Piece)) \ {<<>>}

\* One more piece of text after the runs before it.
Cut(before, piece) ==
  IF piece # Space
  THEN Append(Front(before), Append(Last(before), piece))
  ELSE IF Last(before) = <<>> THEN before ELSE Append(before, <<>>)

Split(str) ==
  CHOOSE f : f = [n \in 0..Len(str) |->
                    IF n = 0 THEN << <<>> >> ELSE Cut(f[n - 1], str[n])]

SplitAll(str) == Split(str)[Len(str)]

LEMMA CutType ==
  ASSUME NEW before \in Runs, NEW piece \in Piece \cup {Space}
  PROVE  Cut(before, piece) \in Runs
<1>1. Front(before) \in Seq(Seq(Piece)) /\ Last(before) \in Seq(Piece)
  BY FrontLast DEF Runs
<1>2. CASE piece # Space
  <2>1. Append(Last(before), piece) \in Seq(Piece)
    BY <1>1, <1>2, AppendProperties
  <2>2. QED
    <3>1. /\ Append(Front(before), Append(Last(before), piece)) \in Seq(Seq(Piece))
          /\ Append(Front(before), Append(Last(before), piece)) # <<>>
      <4> DEFINE A == Seq(Piece)
                 f == Front(before)
                 e == Append(Last(before), piece)
      <4>1. f \in Seq(A) /\ e \in A
        BY <1>1, <2>1
      <4> HIDE DEF A, f, e
      <4>2. Append(f, e) \in Seq(A) /\ Append(f, e) # <<>>
        BY <4>1, AppendProperties
      <4>3. QED
        BY <4>2 DEF A, f, e
    <3>2. QED
      BY <1>2, <3>1 DEF Cut, Runs
<1>3. CASE piece = Space
  <2>1. <<>> \in Seq(Piece)
    BY EmptySeq
  <2>2. QED
    BY <1>3, <2>1, AppendProperties DEF Cut, Runs
<1>4. QED
  BY <1>2, <1>3

LEMMA SplitDef ==
  ASSUME NEW str \in Text
  PROVE  /\ Split(str) \in [0..Len(str) -> Runs]
         /\ Split(str)[0] = << <<>> >>
         /\ \A n \in 1..Len(str) : Split(str)[n] = Cut(Split(str)[n - 1], str[n])
<1> DEFINE m == Len(str)
           step == [n \in 0..m |-> [v \in Runs |-> IF n = 0 THEN v ELSE Cut(v, str[n])]]
           first == << <<>> >>
           Fits(f) == f = [n \in 0..m |-> IF n = 0 THEN first ELSE Cut(f[n - 1], str[n])]
<1>1. m \in Nat /\ \A n \in 1..m : str[n] \in Piece \cup {Space}
  BY LenProperties, ElementOfSeq DEF Text, Piece
<1>2. first \in Runs
  <2>1. <<>> \in Seq(Piece) /\ <<>> \in Seq(Seq(Piece))
    BY EmptySeq
  <2>2. first = Append(<<>>, <<>>)
    OBVIOUS
  <2>3. QED
    BY <2>1, <2>2, AppendProperties DEF Runs
<1>3. \A n \in 0..m, v \in Runs :
        step[n][v] = (IF n = 0 THEN v ELSE Cut(v, str[n])) /\ step[n][v] \in Runs
  <2>1. ASSUME NEW n \in 0..m, NEW v \in Runs, n # 0
        PROVE  Cut(v, str[n]) \in Runs
    <3>1. str[n] \in Piece \cup {Space}
      BY <1>1, <2>1
    <3>2. QED
      BY <3>1, CutType
  <2>2. QED
    BY <2>1
<1>4. PICK f \in [0..m -> Runs] : Recursive(f, 0, m, first, step)
  <2>1. StepWithin(step, 0, m, Runs)
    <3> HIDE DEF step
    <3> QED
      BY <1>3 DEF StepWithin
  <2>2. 0 \in Nat /\ m \in Nat /\ 0 <= m
    BY <1>1
  <2> HIDE DEF step, first, m
  <2>3. QED
    BY <1>2, <2>1, <2>2, RecursiveFunction
<1>5. ASSUME NEW n \in 0..m
      PROVE  f[n] = IF n = 0 THEN first ELSE Cut(f[n - 1], str[n])
  <2>1. CASE n = 0
    BY <1>4, <2>1 DEF Recursive
  <2>2. CASE n # 0
    <3>1. f[n - 1] \in Runs
      <4>1. n - 1 \in 0..m
        BY <1>1, <2>2
      <4> HIDE DEF m
      <4>2. QED
        BY <4>1
    <3>2. f[n] = step[n][f[n - 1]]
      <4> HIDE DEF step
      <4> QED
        BY <1>4, <2>2 DEF Recursive
    <3> HIDE DEF step
    <3>3. QED
      BY <1>3, <2>2, <3>1, <3>2
  <2>3. QED
    BY <2>1, <2>2
<1>6. Fits(f)
  BY <1>5
<1>7. Fits(Split(str))
  BY <1>6 DEF Split
<1>8. PICK g : g = Split(str)
  OBVIOUS
<1>9. \A n \in 0..m : g[n] = IF n = 0 THEN first ELSE Cut(g[n - 1], str[n])
  BY <1>7, <1>8
<1>10. g = [n \in 0..m |-> g[n]]
  BY <1>7, <1>8
<1>11. ASSUME NEW n \in Nat, n <= m
       PROVE  g[n] \in Runs
  <2> DEFINE T == {k \in Nat : k <= m => g[k] \in Runs}
  <2>1. 0 \in T
    BY <1>1, <1>2, <1>9
  <2>2. ASSUME NEW k \in Nat, k \in T
        PROVE  k + 1 \in T
    <3>1. SUFFICES ASSUME k + 1 <= m
                   PROVE  g[k + 1] \in Runs
      OBVIOUS
    <3>2. k + 1 \in 0..m /\ k + 1 # 0 /\ (k + 1) - 1 = k /\ k + 1 \in 1..m
      BY <1>1, <3>1
    <3>3. g[k + 1] = Cut(g[k], str[k + 1])
      <4> HIDE DEF m, first
      <4> QED
        BY <1>9, <3>2
    <3>4. g[k] \in Runs
      BY <1>1, <2>2, <3>1
    <3>5. QED
      BY <1>1, <3>2, <3>3, <3>4, CutType
  <2>3. Nat \subseteq T
    <3> HIDE DEF T
    <3> QED
      BY <2>1, <2>2, NatSetInduction
  <2>4. QED
    BY <1>11, <2>3
<1>12. g \in [0..m -> Runs]
  <2>1. \A n \in 0..m : g[n] \in Runs
    BY <1>1, <1>11
  <2>2. QED
    BY <1>10, <2>1
<1>13. \A n \in 1..m : g[n] = Cut(g[n - 1], str[n])
  <2>1. \A n \in 1..m : n \in 0..m /\ n # 0
    BY <1>1
  <2> HIDE DEF m, first
  <2>2. QED
    BY <1>9, <2>1
<1>14. g[0] = first
  BY <1>1, <1>9
<1>15. QED
  BY <1>8, <1>12, <1>13, <1>14

Sign == Piece \cup {Space}

LEMMA TextIsSigns == Text = Seq(Sign)
BY DEF Text, Sign, Piece

LEMMA SplitAllEmpty == SplitAll(<<>>) = << <<>> >>
<1>1. <<>> \in Text /\ Len(<<>>) = 0
  BY EmptySeq DEF Text
<1>2. QED
  BY <1>1, SplitDef DEF SplitAll

LEMMA SplitAllType ==
  ASSUME NEW str \in Text
  PROVE  SplitAll(str) \in Runs
<1>1. Len(str) \in 0..Len(str)
  BY LenProperties DEF Text
<1>2. QED
  BY <1>1, SplitDef DEF SplitAll

LEMMA SplitAllAppend ==
  ASSUME NEW str \in Text, NEW p \in Sign
  PROVE  Append(str, p) \in Text /\ SplitAll(Append(str, p)) = Cut(SplitAll(str), p)
<1> DEFINE m == Len(str)
           ext == Append(str, p)
           T == {k \in Nat : k <= m => Split(ext)[k] = Split(str)[k]}
<1>1. /\ ext \in Text /\ Len(ext) = m + 1 /\ m \in Nat
      /\ \A i \in 1..m : ext[i] = str[i]
      /\ ext[m + 1] = p
  <2> HIDE DEF Sign
  <2> QED
    BY AppendProperties, LenProperties, TextIsSigns
<1>2. /\ Split(ext)[0] = << <<>> >>
      /\ \A n \in 1..(m + 1) : Split(ext)[n] = Cut(Split(ext)[n - 1], ext[n])
  <2> HIDE DEF ext
  <2> QED
    BY <1>1, SplitDef
<1>3. /\ Split(str)[0] = << <<>> >>
      /\ \A n \in 1..m : Split(str)[n] = Cut(Split(str)[n - 1], str[n])
  BY SplitDef
<1> HIDE DEF m, ext
<1>4. 0 \in T
  BY <1>2, <1>3
<1>5. ASSUME NEW k \in Nat, k \in T
      PROVE  k + 1 \in T
  <2>1. SUFFICES ASSUME k + 1 <= m
                 PROVE  Split(ext)[k + 1] = Split(str)[k + 1]
    OBVIOUS
  <2>2. k + 1 \in 1..m /\ k + 1 \in 1..(m + 1) /\ (k + 1) - 1 = k
    BY <1>1, <2>1
  <2>3. Split(ext)[k] = Split(str)[k]
    BY <1>1, <1>5, <2>1
  <2>4. Split(ext)[k + 1] = Cut(Split(ext)[k], ext[k + 1])
    BY <1>2, <2>2
  <2>5. Split(str)[k + 1] = Cut(Split(str)[k], str[k + 1])
    BY <1>3, <2>2
  <2>6. QED
    BY <1>1, <2>2, <2>3, <2>4, <2>5
<1>6. Nat \subseteq T
  <2> HIDE DEF T
  <2> QED
    BY <1>4, <1>5, NatSetInduction
<1>7. Split(ext)[m] = Split(str)[m]
  BY <1>1, <1>6
<1>8. Split(ext)[m + 1] = Cut(Split(ext)[m], p)
  <2>1. m + 1 \in 1..(m + 1) /\ (m + 1) - 1 = m
    BY <1>1
  <2>2. QED
    BY <1>1, <1>2, <2>1
<1>9. QED
  BY <1>1, <1>7, <1>8 DEF SplitAll, m, ext

LEMMA ExtractIsTrimmed ==
  ASSUME NEW str \in Text
  PROVE  extract_words(str) = IF Last(SplitAll(str)) = <<>>
                              THEN Front(SplitAll(str)) ELSE SplitAll(str)
BY DEF extract_words, SplitAll, Split, Cut

\* Induction on a text for a property of the text.
LEMMA TextInduction ==
  ASSUME NEW T, <<>> \in T, \A s \in Text, p \in Sign : s \in T => Append(s, p) \in T
  PROVE  Text \subseteq T
<1> HIDE DEF Sign
<1> QED
  BY TextIsSigns, SeqSetInduction

\* Runs in the middle of a text are not empty.
LEMMA SplitFrontWords ==
  ASSUME NEW str \in Text
  PROVE  Front(SplitAll(str)) \in Seq(Word) /\ Last(SplitAll(str)) \in Seq(Piece)
<1>1. ASSUME NEW s \in Text
      PROVE  Last(SplitAll(s)) \in Seq(Piece)
  BY SplitAllType, FrontLast DEF Runs
<1> DEFINE T == {s \in Text : Front(SplitAll(s)) \in Seq(Word)}
<1>2. <<>> \in T
  <2>1. <<>> \in Text
    BY EmptySeq DEF Text
  <2>2. Front(<< <<>> >>) = <<>>
    BY SubSeqEmpty DEF Front
  <2>3. QED
    BY <2>1, <2>2, SplitAllEmpty, EmptySeq
<1>3. ASSUME NEW s \in Text, NEW p \in Sign, s \in T
      PROVE  Append(s, p) \in T
  <2> DEFINE before == SplitAll(s)
  <2>1. Append(s, p) \in Text /\ SplitAll(Append(s, p)) = Cut(before, p)
    BY SplitAllAppend
  <2>2. /\ before \in Seq(Seq(Piece)) /\ before # <<>>
        /\ Front(before) \in Seq(Seq(Piece)) /\ Last(before) \in Seq(Piece)
        /\ before = Append(Front(before), Last(before))
    BY SplitAllType, FrontLast DEF Runs
  <2>3. Front(before) \in Seq(Word)
    BY <1>3
  <2> HIDE DEF before
  <2>4. CASE p # Space
    <3>1. Append(Last(before), p) \in Seq(Piece)
      BY <2>2, <2>4, AppendProperties DEF Sign
    <3>2. Front(Append(Front(before), Append(Last(before), p))) = Front(before)
      BY <2>2, <3>1, FrontLastOfAppend
    <3>3. QED
      BY <2>1, <2>3, <2>4, <3>2 DEF Cut
  <2>5. CASE p = Space /\ Last(before) = <<>>
    BY <2>1, <2>3, <2>5 DEF Cut
  <2>6. CASE p = Space /\ Last(before) # <<>>
    <3>1. <<>> \in Seq(Piece)
      BY EmptySeq
    <3>2. Front(Append(before, <<>>)) = before
      <4> DEFINE A == Seq(Piece)
                 e == <<>>
      <4>1. before \in Seq(A) /\ e \in A
        BY <2>2, <3>1
      <4> HIDE DEF A, e
      <4>2. Front(Append(before, e)) = before
        BY <4>1, FrontLastOfAppend
      <4>3. QED
        BY <4>2 DEF e
    <3>3. Last(before) \in Word
      BY <2>2, <2>6 DEF Word
    <3>4. Append(Front(before), Last(before)) \in Seq(Word)
      BY <2>3, <3>3, AppendProperties
    <3>5. QED
      BY <2>1, <2>2, <2>6, <3>2, <3>4 DEF Cut
  <2>7. QED
    BY <2>4, <2>5, <2>6
<1>4. Text \subseteq T
  <2> HIDE DEF T
  <2> QED
    BY <1>2, <1>3, TextInduction
<1>5. QED
  BY <1>1, <1>4

\* The words of a text are never empty.
LEMMA ExtractType ==
  ASSUME NEW str \in Text
  PROVE  extract_words(str) \in Seq(Word)
<1> DEFINE runs == SplitAll(str)
<1>1. /\ Front(runs) \in Seq(Word) /\ Last(runs) \in Seq(Piece)
      /\ runs = Append(Front(runs), Last(runs))
  BY SplitFrontWords, SplitAllType, FrontLast DEF Runs
<1> HIDE DEF runs
<1>2. CASE Last(runs) = <<>>
  BY <1>1, <1>2, ExtractIsTrimmed DEF runs
<1>3. CASE Last(runs) # <<>>
  <2>1. Last(runs) \in Word
    BY <1>1, <1>3 DEF Word
  <2>2. Append(Front(runs), Last(runs)) \in Seq(Word)
    BY <1>1, <2>1, AppendProperties
  <2>3. QED
    BY <1>1, <1>3, <2>2, ExtractIsTrimmed DEF runs
<1>4. QED
  BY <1>2, <1>3

-----------------------------------------------------------------------------
(* Splitting loses no word and keeps their order.                          *)

\* What is left of a text without its spaces, and its parts.
Marks(str) == [i \in DOMAIN str |-> IF str[i] = Space THEN <<>> ELSE <<str[i]>>]
Kept(str) == FlattenSeq(Marks(str))

Mark(p) == IF p = Space THEN <<>> ELSE <<p>>

LEMMA MarkType ==
  ASSUME NEW p \in Sign
  PROVE  Mark(p) \in Seq(Piece)
<1>1. <<>> \in Seq(Piece)
  BY EmptySeq
<1>2. p # Space => <<p>> \in Seq(Piece)
  <2>1. p # Space => p \in Piece
    BY DEF Sign
  <2> HIDE DEF Piece
  <2>2. p # Space => <<p>> = Append(<<>>, p)
    OBVIOUS
  <2>3. QED
    BY <1>1, <2>1, <2>2, AppendProperties
<1>3. QED
  BY <1>1, <1>2 DEF Mark

LEMMA MarksType ==
  ASSUME NEW str \in Text
  PROVE  Marks(str) \in Seq(Seq(Piece)) /\ Len(Marks(str)) = Len(str)
<1>1. Len(str) \in Nat /\ DOMAIN str = 1..Len(str) /\ \A i \in 1..Len(str) : str[i] \in Sign
  BY LenProperties, ElementOfSeq DEF Text, Sign, Piece
<1>2. \A i \in 1..Len(str) : Mark(str[i]) \in Seq(Piece)
  BY <1>1, MarkType
<1>3. Marks(str) = [i \in 1..Len(str) |-> Mark(str[i])]
  BY <1>1 DEF Marks, Mark
<1>4. QED
  BY <1>1, <1>2, <1>3

LEMMA KeptType ==
  ASSUME NEW str \in Text
  PROVE  Kept(str) \in Seq(Piece)
BY MarksType, FlattenSeqType DEF Kept

LEMMA KeptEmpty == Kept(<<>>) = <<>>
<1>1. Marks(<<>>) = <<>>
  BY DEF Marks
<1>2. QED
  BY <1>1, FlattenSeqEmpty DEF Kept

LEMMA KeptAppend ==
  ASSUME NEW str \in Text, NEW p \in Sign
  PROVE  Kept(Append(str, p)) = Kept(str) \o Mark(p)
<1> DEFINE ext == Append(str, p)
           m == Len(str)
           A == Seq(Piece)
<1>1. /\ ext \in Text /\ Len(ext) = m + 1 /\ m \in Nat
      /\ \A i \in 1..m : ext[i] = str[i]
      /\ ext[m + 1] = p
      /\ DOMAIN ext = 1..(m + 1) /\ DOMAIN str = 1..m
  <2> HIDE DEF Sign
  <2> QED
    BY AppendProperties, LenProperties, TextIsSigns
<1>2. /\ Marks(str) \in Seq(A) /\ Len(Marks(str)) = m
      /\ Marks(ext) \in Seq(A) /\ Len(Marks(ext)) = m + 1
      /\ Mark(p) \in A
  <2> HIDE DEF ext, m
  <2> QED
    BY <1>1, MarksType, MarkType DEF m
<1> HIDE DEF ext, m, A
<1>3. /\ \A i \in 1..m : Marks(ext)[i] = Marks(str)[i]
      /\ Marks(ext)[m + 1] = Mark(p)
  BY <1>1 DEF Marks, Mark
<1>4. /\ Append(Marks(str), Mark(p)) \in Seq(A)
      /\ Len(Append(Marks(str), Mark(p))) = m + 1
      /\ \A i \in 1..m : Append(Marks(str), Mark(p))[i] = Marks(str)[i]
      /\ Append(Marks(str), Mark(p))[m + 1] = Mark(p)
  BY <1>2, AppendProperties
<1>5. \A i \in 1..(m + 1) : Marks(ext)[i] = Append(Marks(str), Mark(p))[i]
  BY <1>1, <1>3, <1>4
<1>6. Marks(ext) = Append(Marks(str), Mark(p))
  BY <1>2, <1>4, <1>5, SeqEqual
<1>7. QED
  BY <1>2, <1>6, FlattenSeqAppend DEF Kept, ext, A

LEMMA ConcatAppend ==
  ASSUME NEW S, NEW s \in Seq(S), NEW t \in Seq(S), NEW e \in S
  PROVE  s \o Append(t, e) = Append(s \o t, e)
<1>1. Append(t, e) = t \o <<e>> /\ <<e>> \in Seq(S)
  <2>1. <<e>> = Append(<<>>, e) /\ <<>> \in Seq(S)
    BY EmptySeq
  <2>2. QED
    BY <2>1, AppendIsConcat, AppendProperties
<1>2. s \o t \in Seq(S)
  BY ConcatProperties
<1>3. Append(s \o t, e) = (s \o t) \o <<e>>
  BY <1>2, AppendIsConcat
<1>4. QED
  BY <1>1, <1>3, ConcatAssociative

\* The flattened sequence without its last part, then that part.
LEMMA FlattenSeqFront ==
  ASSUME NEW S, NEW ss \in Seq(Seq(S)), ss # <<>>
  PROVE  FlattenSeq(ss) = FlattenSeq(Front(ss)) \o Last(ss)
<1> DEFINE A == Seq(S)
<1>1. Front(ss) \in Seq(A) /\ Last(ss) \in A /\ ss = Append(Front(ss), Last(ss))
  <2>1. ss \in Seq(A)
    OBVIOUS
  <2> HIDE DEF A
  <2>2. QED
    BY <2>1, FrontLast
<1>2. FlattenSeq(Append(Front(ss), Last(ss))) = FlattenSeq(Front(ss)) \o Last(ss)
  BY <1>1, FlattenSeqAppend
<1>3. QED
  BY <1>1, <1>2

LEMMA SplitKeeps ==
  ASSUME NEW str \in Text
  PROVE  FlattenSeq(SplitAll(str)) = Kept(str)
<1> DEFINE T == {s \in Text : FlattenSeq(SplitAll(s)) = Kept(s)}
<1>1. <<>> \in T
  <2>1. <<>> \in Text /\ <<>> \in Seq(Piece)
    BY EmptySeq DEF Text
  <2>2. FlattenSeq(<< <<>> >>) = <<>>
    BY <2>1, FlattenSeqOne
  <2>3. QED
    BY <2>1, <2>2, SplitAllEmpty, KeptEmpty
<1>2. ASSUME NEW s \in Text, NEW p \in Sign, s \in T
      PROVE  Append(s, p) \in T
  <2> DEFINE before == SplitAll(s)
             front == Front(before)
             last == Last(before)
  <2>1. Append(s, p) \in Text /\ SplitAll(Append(s, p)) = Cut(before, p)
    BY SplitAllAppend
  <2>2. /\ before \in Seq(Seq(Piece)) /\ before # <<>>
        /\ front \in Seq(Seq(Piece)) /\ last \in Seq(Piece)
    BY SplitAllType, FrontLast DEF Runs
  <2>3. FlattenSeq(before) = FlattenSeq(front) \o last
    BY <2>2, FlattenSeqFront
  <2>4. FlattenSeq(front) \in Seq(Piece) /\ FlattenSeq(before) \in Seq(Piece)
    BY <2>2, FlattenSeqType
  <2>5. FlattenSeq(before) = Kept(s)
    BY <1>2
  <2>6. Kept(Append(s, p)) = FlattenSeq(before) \o Mark(p)
    BY <2>5, KeptAppend
  <2> HIDE DEF before, front, last
  <2>7. CASE p # Space
    <3>1. p \in Piece /\ Mark(p) = <<p>>
      BY <2>7 DEF Mark, Sign
    <3>2. Append(last, p) \in Seq(Piece)
      BY <2>2, <3>1, AppendProperties
    <3>3. FlattenSeq(Append(front, Append(last, p))) = FlattenSeq(front) \o Append(last, p)
      BY <2>2, <3>2, FlattenSeqAppend
    <3>4. FlattenSeq(front) \o Append(last, p) = Append(FlattenSeq(front) \o last, p)
      BY <2>2, <2>4, <3>1, ConcatAppend
    <3>5. Append(FlattenSeq(before), p) = FlattenSeq(before) \o <<p>>
      BY <2>4, <3>1, AppendIsConcat
    <3>6. Cut(before, p) = Append(front, Append(last, p))
      BY <2>7 DEF Cut, front, last
    <3>7. QED
      BY <2>1, <2>3, <2>6, <3>1, <3>3, <3>4, <3>5, <3>6
  <2>8. CASE p = Space
    <3>1. Mark(p) = <<>> /\ <<>> \in Seq(Piece)
      BY <2>8, EmptySeq DEF Mark
    <3>2. FlattenSeq(Append(before, <<>>)) = FlattenSeq(before) \o <<>>
      BY <2>2, <3>1, FlattenSeqAppend
    <3>3. FlattenSeq(before) \o <<>> = FlattenSeq(before)
      BY <2>4, ConcatEmptySeq
    <3>4. Cut(before, p) = before \/ Cut(before, p) = Append(before, <<>>)
      BY <2>8 DEF Cut
    <3>5. QED
      BY <2>1, <2>6, <3>1, <3>2, <3>3, <3>4
  <2>9. QED
    BY <2>7, <2>8
<1>3. Text \subseteq T
  <2> HIDE DEF T
  <2> QED
    BY <1>1, <1>2, TextInduction
<1>4. QED
  BY <1>3

\* The words of a text, one behind the other, are the text without its spaces
\* (extract_words, string_helpers.c:18-38).
THEOREM ExtractKeeps ==
  ASSUME NEW str \in Text
  PROVE  FlattenSeq(extract_words(str)) = Kept(str)
<1> DEFINE runs == SplitAll(str)
<1>1. /\ runs \in Seq(Seq(Piece)) /\ runs # <<>> /\ Front(runs) \in Seq(Seq(Piece))
  BY SplitAllType, FrontLast DEF Runs
<1>2. FlattenSeq(runs) = Kept(str) /\ FlattenSeq(runs) = FlattenSeq(Front(runs)) \o Last(runs)
  BY <1>1, SplitKeeps, FlattenSeqFront
<1>3. FlattenSeq(Front(runs)) \o <<>> = FlattenSeq(Front(runs))
  BY <1>1, FlattenSeqType, ConcatEmptySeq
<1>4. QED
  BY <1>2, <1>3, ExtractIsTrimmed

-----------------------------------------------------------------------------
(* Splitting undoes joining.                                               *)

LEMMA PieceIsNoSpace == \A p \in Piece : p # Space /\ p \in Sign
BY TextAssumption DEF Piece, Sign

\* A word written behind a text makes its last run longer.
LEMMA SplitWord ==
  ASSUME NEW str \in Text, NEW w \in Seq(Piece)
  PROVE  /\ str \o w \in Text
         /\ SplitAll(str \o w) = Append(Front(SplitAll(str)), Last(SplitAll(str)) \o w)
<1> DEFINE front == Front(SplitAll(str))
           last == Last(SplitAll(str))
           T == {v \in Seq(Piece) : /\ str \o v \in Text
                                    /\ SplitAll(str \o v) = Append(front, last \o v)}
<1>1. /\ front \in Seq(Seq(Piece)) /\ last \in Seq(Piece)
      /\ SplitAll(str) = Append(front, last)
  BY SplitAllType, FrontLast DEF Runs
<1> HIDE DEF front, last
<1>2. <<>> \in T
  <2>1. str \o <<>> = str
    <3>1. str \in Seq(Sign)
      BY TextIsSigns
    <3> HIDE DEF Sign
    <3>2. QED
      BY <3>1, ConcatEmptySeq
  <2>2. last \o <<>> = last /\ <<>> \in Seq(Piece)
    BY <1>1, ConcatEmptySeq, EmptySeq
  <2>3. QED
    BY <1>1, <2>1, <2>2
<1>3. ASSUME NEW v \in Seq(Piece), NEW p \in Piece, v \in T
      PROVE  Append(v, p) \in T
  <2>1. str \o v \in Text /\ SplitAll(str \o v) = Append(front, last \o v)
    BY <1>3
  <2>2. p \in Sign /\ p # Space
    BY PieceIsNoSpace
  <2>3. str \o Append(v, p) = Append(str \o v, p)
    <3>1. str \in Seq(Sign) /\ v \in Seq(Sign)
      BY TextIsSigns, SeqMonotonic DEF Sign
    <3> HIDE DEF Sign
    <3>2. QED
      BY <2>2, <3>1, ConcatAppend
  <2>4. last \o v \in Seq(Piece) /\ last \o Append(v, p) = Append(last \o v, p)
    BY <1>1, ConcatProperties, ConcatAppend
  <2>5. /\ Append(str \o v, p) \in Text
        /\ SplitAll(Append(str \o v, p)) = Cut(Append(front, last \o v), p)
    BY <2>1, <2>2, SplitAllAppend
  <2>6. Front(Append(front, last \o v)) = front /\ Last(Append(front, last \o v)) = last \o v
    BY <1>1, <2>4, FrontLastOfAppend
  <2>7. Cut(Append(front, last \o v), p) = Append(front, Append(last \o v, p))
    BY <2>2, <2>6 DEF Cut
  <2>8. Append(v, p) \in Seq(Piece)
    BY AppendProperties
  <2>9. QED
    BY <2>3, <2>4, <2>5, <2>7, <2>8
<1>4. Seq(Piece) \subseteq T
  <2> HIDE DEF T
  <2> QED
    BY <1>2, <1>3, SeqSetInduction
<1>5. QED
  BY <1>4 DEF front, last

\* Each word with the space behind it.
Spaced(list) == [i \in DOMAIN list |-> Append(list[i], Space)]

LEMMA WordIsText ==
  ASSUME NEW w \in Seq(Piece)
  PROVE  w \in Seq(Sign) /\ w \in Text /\ Append(w, Space) \in Seq(Sign)
<1>1. w \in Seq(Sign)
  BY SeqMonotonic DEF Sign
<1>2. Space \in Sign
  BY DEF Sign
<1>3. Append(w, Space) \in Seq(Sign)
  <2> HIDE DEF Sign
  <2> QED
    BY <1>1, <1>2, AppendProperties
<1>4. QED
  BY <1>1, <1>3, TextIsSigns

LEMMA SpacedType ==
  ASSUME NEW list \in Seq(Word)
  PROVE  Spaced(list) \in Seq(Seq(Sign)) /\ Len(Spaced(list)) = Len(list)
<1>1. Len(list) \in Nat /\ DOMAIN list = 1..Len(list)
      /\ \A i \in 1..Len(list) : list[i] \in Word
  BY LenProperties, ElementOfSeq
<1>2. \A i \in 1..Len(list) : Append(list[i], Space) \in Seq(Sign)
  BY <1>1, WordIsText DEF Word
<1>3. Spaced(list) = [i \in 1..Len(list) |-> Append(list[i], Space)]
  BY <1>1 DEF Spaced
<1> HIDE DEF Sign
<1>4. QED
  BY <1>1, <1>2, <1>3

LEMMA SpacedAppend ==
  ASSUME NEW list \in Seq(Word), NEW w \in Word
  PROVE  Spaced(Append(list, w)) = Append(Spaced(list), Append(w, Space))
<1> DEFINE ext == Append(list, w)
           m == Len(list)
           A == Seq(Sign)
           e == Append(w, Space)
<1>1. /\ ext \in Seq(Word) /\ Len(ext) = m + 1 /\ m \in Nat
      /\ \A i \in 1..m : ext[i] = list[i]
      /\ ext[m + 1] = w
      /\ DOMAIN ext = 1..(m + 1) /\ DOMAIN list = 1..m
  BY AppendProperties, LenProperties
<1>2. /\ Spaced(list) \in Seq(A) /\ Len(Spaced(list)) = m
      /\ Spaced(ext) \in Seq(A) /\ Len(Spaced(ext)) = m + 1
      /\ e \in A
  <2>1. e \in A
    BY WordIsText DEF Word
  <2> HIDE DEF ext, e
  <2>2. QED
    BY <1>1, <2>1, SpacedType
<1> HIDE DEF ext, m, A
<1>3. /\ \A i \in 1..m : Spaced(ext)[i] = Spaced(list)[i]
      /\ Spaced(ext)[m + 1] = e
  BY <1>1 DEF Spaced
<1> HIDE DEF e
<1>4. /\ Append(Spaced(list), e) \in Seq(A)
      /\ Len(Append(Spaced(list), e)) = m + 1
      /\ \A i \in 1..m : Append(Spaced(list), e)[i] = Spaced(list)[i]
      /\ Append(Spaced(list), e)[m + 1] = e
  BY <1>2, AppendProperties
<1>5. \A i \in 1..(m + 1) : Spaced(ext)[i] = Append(Spaced(list), e)[i]
  BY <1>1, <1>3, <1>4
<1>6. QED
  BY <1>2, <1>4, <1>5, SeqEqual DEF ext, e

\* The last word of a joined list has no space behind it, the others have.
LEMMA JoinAppend ==
  ASSUME NEW list \in Seq(Word), NEW w \in Word
  PROVE  string_list_to_string(Append(list, w)) = FlattenSeq(Spaced(list)) \o w
<1> DEFINE ext == Append(list, w)
           m == Len(list)
           A == Seq(Sign)
           parts == [i \in DOMAIN ext |-> IF i = Len(ext) THEN ext[i]
                                          ELSE Append(ext[i], Space)]
<1>1. /\ ext \in Seq(Word) /\ Len(ext) = m + 1 /\ m \in Nat
      /\ \A i \in 1..m : ext[i] = list[i]
      /\ ext[m + 1] = w
      /\ DOMAIN ext = 1..(m + 1) /\ DOMAIN list = 1..m
  BY AppendProperties, LenProperties
<1>2. w \in A /\ Spaced(list) \in Seq(A) /\ Len(Spaced(list)) = m
  BY WordIsText, SpacedType DEF Word
<1> HIDE DEF ext, m, A
<1>3. /\ \A i \in 1..m : parts[i] = Spaced(list)[i]
      /\ parts[m + 1] = w
      /\ DOMAIN parts = 1..(m + 1)
  BY <1>1 DEF Spaced
<1>4. /\ Append(Spaced(list), w) \in Seq(A)
      /\ Len(Append(Spaced(list), w)) = m + 1
      /\ \A i \in 1..m : Append(Spaced(list), w)[i] = Spaced(list)[i]
      /\ Append(Spaced(list), w)[m + 1] = w
      /\ Append(Spaced(list), w) \in [1..(m + 1) -> A]
  <2>1. /\ Append(Spaced(list), w) \in Seq(A)
        /\ Len(Append(Spaced(list), w)) = m + 1
        /\ \A i \in 1..m : Append(Spaced(list), w)[i] = Spaced(list)[i]
        /\ Append(Spaced(list), w)[m + 1] = w
    BY <1>2, AppendProperties
  <2>2. QED
    BY <2>1, LenProperties
<1>5. \A i \in 1..(m + 1) : parts[i] = Append(Spaced(list), w)[i]
  <2>1. \A i \in 1..(m + 1) : i \in 1..m \/ i = m + 1
    BY <1>1
  <2> HIDE DEF parts
  <2>2. QED
    BY <1>3, <1>4, <2>1
<1>6. parts = Append(Spaced(list), w)
  <2>1. parts = [i \in 1..(m + 1) |-> parts[i]]
    BY <1>3
  <2> HIDE DEF parts
  <2>2. QED
    BY <1>4, <1>5, <2>1
<1>7. FlattenSeq(Append(Spaced(list), w)) = FlattenSeq(Spaced(list)) \o w
  BY <1>2, FlattenSeqAppend DEF A
<1>8. string_list_to_string(ext) = FlattenSeq(parts)
  BY DEF string_list_to_string
<1> HIDE DEF parts
<1>9. QED
  BY <1>6, <1>7, <1>8 DEF ext

LEMMA JoinOne ==
  ASSUME NEW w \in Word
  PROVE  string_list_to_string(<<w>>) = w
<1>1. <<>> \in Seq(Word) /\ Append(<<>>, w) = <<w>>
  BY EmptySeq
<1>2. Spaced(<<>>) = <<>>
  BY DEF Spaced
<1>3. string_list_to_string(<<w>>) = <<>> \o w
  BY <1>1, <1>2, JoinAppend, FlattenSeqEmpty
<1>4. QED
  BY <1>3, ConcatEmptySeq DEF Word

LEMMA JoinMore ==
  ASSUME NEW list \in Seq(Word), list # <<>>, NEW w \in Word
  PROVE  /\ string_list_to_string(list) \in Text
         /\ string_list_to_string(Append(list, w))
              = Append(string_list_to_string(list), Space) \o w
<1> DEFINE f == Front(list)
           v == Last(list)
           pre == FlattenSeq(Spaced(f))
<1>1. f \in Seq(Word) /\ v \in Word /\ list = Append(f, v)
  BY FrontLast
<1>2. pre \in Seq(Sign) /\ v \in Seq(Sign) /\ Append(v, Space) \in Seq(Sign) /\ Space \in Sign
  BY <1>1, SpacedType, FlattenSeqType, WordIsText DEF Word, Sign
<1> HIDE DEF Sign
<1>3. string_list_to_string(list) = pre \o v
  BY <1>1, JoinAppend
<1>4. pre \o v \in Text
  BY <1>2, ConcatProperties, TextIsSigns
<1>5. FlattenSeq(Spaced(list)) = pre \o Append(v, Space)
  <2>1. Spaced(list) = Append(Spaced(f), Append(v, Space)) /\ Spaced(f) \in Seq(Seq(Sign))
    BY <1>1, SpacedAppend, SpacedType
  <2>2. QED
    BY <1>2, <2>1, FlattenSeqAppend
<1>6. pre \o Append(v, Space) = Append(pre \o v, Space)
  BY <1>2, ConcatAppend
<1>7. string_list_to_string(Append(list, w)) = FlattenSeq(Spaced(list)) \o w
  BY JoinAppend
<1>8. QED
  BY <1>3, <1>4, <1>5, <1>6, <1>7

\* Joining words and splitting the text again gives the same words
\* (string_helpers.c:18-77): no word is lost, merged or cut.
THEOREM SplitUndoesJoin ==
  ASSUME NEW list \in Seq(Word), list # <<>>
  PROVE  /\ string_list_to_string(list) \in Text
         /\ extract_words(string_list_to_string(list)) = list
<1> DEFINE Good(l) == /\ string_list_to_string(l) \in Text
                      /\ SplitAll(string_list_to_string(l)) = l
           T == {l \in Seq(Word) : l # <<>> => Good(l)}
<1>0. \A l : l \in T <=> (l \in Seq(Word) /\ (l # <<>> => Good(l)))
  <2> HIDE DEF Good
  <2> QED
    OBVIOUS
<1>1. <<>> \in T
  BY EmptySeq
<1> HIDE DEF T
<1>2. ASSUME NEW l \in Seq(Word), NEW w \in Word, l \in T
      PROVE  Append(l, w) \in T
  <2>1. Append(l, w) \in Seq(Word) /\ w \in Seq(Piece) /\ w # <<>>
    BY AppendProperties DEF Word
  <2>2. CASE l = <<>>
    <3>1. Append(l, w) = <<w>> /\ string_list_to_string(<<w>>) = w /\ w \in Text
      BY <2>1, <2>2, JoinOne, WordIsText
    <3>2. <<>> \in Text /\ <<>> \in Seq(Piece)
      BY EmptySeq DEF Text
    <3>3. <<>> \o w = w
      BY <2>1, ConcatEmptySeq
    <3>4. SplitAll(w) = Append(Front(<< <<>> >>), Last(<< <<>> >>) \o w)
      BY <2>1, <3>2, <3>3, SplitWord, SplitAllEmpty
    <3>5. Front(<< <<>> >>) = <<>> /\ Last(<< <<>> >>) = <<>>
      BY SubSeqEmpty DEF Front, Last
    <3>6. SplitAll(w) = <<w>>
      BY <3>3, <3>4, <3>5
    <3>7. Good(<<w>>)
      BY <3>1, <3>6
    <3> HIDE DEF Good
    <3>8. QED
      BY <1>0, <2>1, <3>1, <3>7
  <2>3. CASE l # <<>>
    <3> DEFINE text == string_list_to_string(l)
    <3>1. text \in Text /\ SplitAll(text) = l
      <4> USE <1>0, <1>2, <2>3
      <4> HIDE DEF Good, text
      <4>1. Good(l)
        OBVIOUS
      <4>2. QED
        BY <4>1 DEF Good, text
    <3>2. string_list_to_string(Append(l, w)) = Append(text, Space) \o w
      BY <2>3, JoinMore
    <3> HIDE DEF text
    <3>3. Space \in Sign
      BY DEF Sign
    <3>4. Append(text, Space) \in Text /\ SplitAll(Append(text, Space)) = Cut(l, Space)
      BY <3>1, <3>3, SplitAllAppend
    <3>5. Cut(l, Space) = Append(l, <<>>)
      <4>1. Last(l) \in Word
        BY <2>3, FrontLast
      <4>2. QED
        BY <4>1 DEF Cut, Word
    <3>6. Front(Append(l, <<>>)) = l /\ Last(Append(l, <<>>)) = <<>>
      <4> DEFINE A == Seq(Piece)
                 e == <<>>
      <4>1. l \in Seq(A) /\ e \in A
        BY SeqMonotonic, EmptySeq DEF Word
      <4> HIDE DEF A, e
      <4>2. Front(Append(l, e)) = l /\ Last(Append(l, e)) = e
        BY <4>1, FrontLastOfAppend
      <4>3. QED
        BY <4>2 DEF e
    <3>7. /\ Append(text, Space) \o w \in Text
          /\ SplitAll(Append(text, Space) \o w) = Append(l, <<>> \o w)
      <4> DEFINE t == Append(text, Space)
      <4>1. t \in Text /\ SplitAll(t) = Append(l, <<>>)
        BY <3>4, <3>5
      <4> HIDE DEF t
      <4>2. /\ t \o w \in Text
            /\ SplitAll(t \o w) = Append(Front(SplitAll(t)), Last(SplitAll(t)) \o w)
        BY <2>1, <4>1, SplitWord
      <4>3. QED
        BY <3>6, <4>1, <4>2 DEF t
    <3>8. <<>> \o w = w
      BY <2>1, ConcatEmptySeq
    <3>9. Good(Append(l, w))
      BY <3>2, <3>7, <3>8
    <3> HIDE DEF Good
    <3>10. QED
      BY <1>0, <2>1, <3>9
  <2>4. QED
    BY <2>2, <2>3
<1>3. Seq(Word) \subseteq T
  <2> HIDE DEF T
  <2> QED
    BY <1>1, <1>2, SeqSetInduction
<1>4. Good(list)
  <2> HIDE DEF Good
  <2> QED
    BY <1>0, <1>3
<1>5. Last(list) # <<>>
  <2>1. Last(list) \in Word
    BY FrontLast
  <2>2. QED
    BY <2>1 DEF Word
<1>6. QED
  BY <1>4, <1>5, ExtractIsTrimmed

-----------------------------------------------------------------------------
(* Commands.                                                               *)

LEMMA WordsAfterTwo ==
  ASSUME NEW words \in Seq(Word), Len(words) > 2
  PROVE  /\ SubSeq(words, 3, Len(words)) \in Seq(Word) \ {<<>>}
         /\ Len(SubSeq(words, 3, Len(words))) = Len(words) - 2
         /\ \A i \in 1..(Len(words) - 2) : SubSeq(words, 3, Len(words))[i] = words[i + 2]
<1> DEFINE m == Len(words)
           list == SubSeq(words, 3, m)
<1>1. m \in Nat /\ \A i \in 3..m : words[i] \in Word
  BY LenProperties, ElementOfSeq
<1> HIDE DEF m
<1>2. /\ list \in Seq(Word)
      /\ Len(list) = IF 3 <= m THEN m - 3 + 1 ELSE 0
      /\ \A i \in 1..(m - 3 + 1) : list[i] = words[3 + i - 1]
  <2> HIDE DEF Word
  <2> QED
    BY <1>1, SubSeqProperties
<1>3. m > 2 /\ 3 <= m /\ m - 3 + 1 = m - 2 /\ \A i \in 1..(m - 2) : 3 + i - 1 = i + 2
  BY <1>1 DEF m
<1>4. Len(list) = m - 2 /\ \A i \in 1..(m - 2) : list[i] = words[i + 2]
  <2> HIDE DEF list
  <2> QED
    BY <1>2, <1>3
<1>5. list # <<>>
  <2>1. Len(list) # 0
    BY <1>1, <1>3, <1>4
  <2>2. QED
    BY <2>1, EmptySeq
<1>6. QED
  BY <1>2, <1>4, <1>5 DEF m

\* What a typed line is made into: no command; or one whose verbs are the
\* first words, with every word behind them as an argument of `hostname add`.
IsCommand(words, cmd) ==
  \/ cmd = None
  \/ /\ cmd.code = "add" /\ Len(words) > 2
     /\ words[1] = <<"hostname">> /\ words[2] = <<"add">>
     /\ cmd = Command("add", string_list_to_string(SubSeq(words, 3, Len(words))))
  \/ /\ cmd = Command("list", <<>>) /\ Len(words) >= 2
     /\ words[1] = <<"hostname">> /\ words[2] = <<"list">>
  \/ /\ cmd = Command("start", <<>>) /\ Len(words) >= 2
     /\ words[1] = <<"server">> /\ words[2] = <<"start">>
  \/ /\ cmd = Command("stop", <<>>) /\ Len(words) >= 2
     /\ words[1] = <<"server">> /\ words[2] = <<"stop">>
  \/ cmd = Command("stats", <<>>) /\ Len(words) >= 1 /\ words[1] = <<"stats">>

LEMMA BuildIsCommand ==
  ASSUME NEW str \in Text
  PROVE  IsCommand(extract_words(str), build_cmd_from_str(str))
<1> DEFINE words == extract_words(str)
<1>1. Len(words) \in Nat
  BY ExtractType, LenProperties
<1> HIDE DEF words
<1>2. IsCommand(words, words_to_cmd(words))
  BY <1>1 DEF IsCommand, words_to_cmd, Command
<1>3. QED
  BY <1>2 DEF build_cmd_from_str, words

LEMMA BuildType ==
  ASSUME NEW str \in Text
  PROVE  /\ build_cmd_from_str(str) \in [code : Codes \cup {"none"}, args : Text]
         /\ build_cmd_from_str(str).code = "none" <=> build_cmd_from_str(str) = None
         /\ build_cmd_from_str(str).args # <<>> => build_cmd_from_str(str).code = "add"
         /\ build_cmd_from_str(str).code = "add" =>
              \E list \in Seq(Word) \ {<<>>} :
                /\ build_cmd_from_str(str).args = string_list_to_string(list)
                /\ build_cmd_from_str(str).args # <<>>
                /\ list = SubSeq(extract_words(str), 3, Len(extract_words(str)))
                /\ Len(list) = Len(extract_words(str)) - 2
                /\ Len(extract_words(str)) > 2
                /\ \A i \in 1..Len(list) : list[i] = extract_words(str)[i + 2]
<1> DEFINE words == extract_words(str)
           cmd == build_cmd_from_str(str)
           list == SubSeq(words, 3, Len(words))
<1>1. words \in Seq(Word) /\ IsCommand(words, cmd)
  BY ExtractType, BuildIsCommand
<1>2. <<>> \in Text
  BY EmptySeq DEF Text
<1> HIDE DEF words, cmd
<1>3. CASE cmd # None /\ cmd.code = "add"
  <2>1. Len(words) > 2 /\ cmd = [code |-> "add", args |-> string_list_to_string(list)]
    BY <1>1, <1>3 DEF IsCommand, Command
  <2>2. /\ list \in Seq(Word) \ {<<>>} /\ Len(list) = Len(words) - 2
        /\ \A i \in 1..(Len(words) - 2) : list[i] = words[i + 2]
    BY <1>1, <2>1, WordsAfterTwo
  <2>3. string_list_to_string(list) \in Text /\ extract_words(string_list_to_string(list)) = list
    BY <2>2, SplitUndoesJoin
  <2>4. string_list_to_string(list) # <<>>
    <3>1. extract_words(<<>>) = <<>>
      <4>1. Front(<< <<>> >>) = <<>> /\ Last(<< <<>> >>) = <<>>
        BY SubSeqEmpty DEF Front, Last
      <4>2. QED
        BY <1>2, <4>1, ExtractIsTrimmed, SplitAllEmpty
    <3>2. QED
      BY <2>2, <2>3, <3>1
  <2> HIDE DEF list
  <2>5. cmd.code = "add" /\ cmd.args = string_list_to_string(list) /\ cmd.args # <<>>
    BY <2>1, <2>4
  <2>6. cmd \in [code : Codes \cup {"none"}, args : Text]
    BY <2>1, <2>3 DEF Codes
  <2>7. cmd.code # "none" /\ cmd # None
    BY <1>3
  <2>8. \A i \in 1..Len(list) : list[i] = words[i + 2]
    BY <2>2
  <2>9. /\ cmd \in [code : Codes \cup {"none"}, args : Text]
        /\ cmd.code = "none" <=> cmd = None
        /\ cmd.args # <<>> => cmd.code = "add"
        /\ cmd.code = "add" =>
             \E l \in Seq(Word) \ {<<>>} :
               /\ cmd.args = string_list_to_string(l)
               /\ cmd.args # <<>>
               /\ l = list
               /\ Len(l) = Len(words) - 2
               /\ Len(words) > 2
               /\ \A i \in 1..Len(l) : l[i] = words[i + 2]
    BY <2>1, <2>2, <2>5, <2>6, <2>7, <2>8
  <2>10. QED
    BY <2>9 DEF cmd, words, list
<1>4. CASE cmd = None
  BY <1>2, <1>4 DEF cmd, None, Command, Codes
<1>5. CASE cmd # None /\ cmd.code # "add"
  <2>1. \E code \in Codes \ {"add"} : cmd = [code |-> code, args |-> <<>>]
    BY <1>1, <1>5 DEF IsCommand, Command, Codes
  <2>2. QED
    BY <1>2, <1>5, <2>1 DEF cmd, None, Command, Codes
<1>6. QED
  BY <1>3, <1>4, <1>5

-----------------------------------------------------------------------------
(* Lines whose pieces are whole words.                                     *)

Separated(str) == \A i \in 1..(Len(str) - 1) : Space \in {str[i], str[i + 1]}

Short == {w \in Seq(Piece) : Len(w) <= 1}

\* The last run is empty at the beginning and behind a space.
Closed(str) == str = <<>> \/ str[Len(str)] = Space

LEMMA SplitShort ==
  ASSUME NEW str \in Text, Separated(str)
  PROVE  SplitAll(str) \in Seq(Short)
<1> DEFINE T == {s \in Text : Separated(s) => /\ SplitAll(s) \in Seq(Short)
                                              /\ Closed(s) => Last(SplitAll(s)) = <<>>}
<1>1. <<>> \in T
  <2>1. <<>> \in Text /\ <<>> \in Short
    BY EmptySeq DEF Text, Short
  <2>2. << <<>> >> \in Seq(Short) /\ Last(<< <<>> >>) = <<>>
    BY <2>1 DEF Last
  <2>3. QED
    BY <2>1, <2>2, SplitAllEmpty
<1>2. ASSUME NEW s \in Text, NEW p \in Sign, s \in T
      PROVE  Append(s, p) \in T
  <2> DEFINE ext == Append(s, p)
             m == Len(s)
             before == SplitAll(s)
  <2>1. /\ ext \in Text /\ Len(ext) = m + 1 /\ m \in Nat
        /\ \A i \in 1..m : ext[i] = s[i]
        /\ ext[m + 1] = p
        /\ s # <<>> => m \in 1..m
        /\ ext # <<>>
    <3>1. s \in Seq(Sign)
      BY TextIsSigns
    <3> HIDE DEF Sign
    <3>2. QED
      BY <3>1, AppendProperties, LenProperties, EmptySeq, TextIsSigns
  <2>2. /\ before \in Seq(Seq(Piece)) /\ before # <<>> /\ Last(before) \in Seq(Piece)
        /\ SplitAll(ext) = Cut(before, p)
    BY SplitAllType, FrontLast, SplitAllAppend DEF Runs
  <2> HIDE DEF ext, m, before
  <2>3. SUFFICES ASSUME Separated(ext)
                 PROVE  /\ SplitAll(ext) \in Seq(Short)
                        /\ Closed(ext) => Last(SplitAll(ext)) = <<>>
    BY <2>1 DEF ext
  <2>4. Separated(s)
    <3>1. ASSUME NEW i \in 1..(m - 1)
          PROVE  Space \in {s[i], s[i + 1]}
      <4>1. i \in 1..(Len(ext) - 1) /\ i \in 1..m /\ i + 1 \in 1..m
        BY <2>1
      <4>2. QED
        BY <2>1, <2>3, <4>1 DEF Separated
    <3>2. QED
      BY <3>1 DEF Separated, m
  <2>5. before \in Seq(Short) /\ (Closed(s) => Last(before) = <<>>)
    BY <1>2, <2>4 DEF before
  <2>6. Front(before) \in Seq(Short)
    BY <2>2, <2>5, FrontLast
  <2>7. CASE p # Space
    <3>1. Closed(s)
      <4>1. CASE s = <<>>
        BY <4>1 DEF Closed
      <4>2. CASE s # <<>>
        <5>1. m \in 1..(Len(ext) - 1)
          BY <2>1, <4>2
        <5>2. Space \in {ext[m], ext[m + 1]}
          BY <2>3, <5>1 DEF Separated
        <5>3. s[m] = Space
          BY <2>1, <2>7, <4>2, <5>2
        <5>4. QED
          BY <5>3 DEF Closed, m
      <4>3. QED
        BY <4>1, <4>2
    <3>2. Append(Last(before), p) = <<p>> /\ p \in Piece
      BY <2>5, <2>7, <3>1 DEF Sign
    <3>3. <<p>> \in Short
      BY <3>2 DEF Short
    <3>4. Append(Front(before), <<p>>) \in Seq(Short)
      BY <2>6, <3>3, AppendProperties
    <3>5. ~ Closed(ext)
      BY <2>1, <2>7 DEF Closed
    <3>6. QED
      BY <2>2, <2>7, <3>2, <3>4, <3>5 DEF Cut
  <2>8. CASE p = Space
    <3>1. <<>> \in Short
      BY EmptySeq DEF Short
    <3>2. /\ Append(before, <<>>) \in Seq(Short)
          /\ Last(Append(before, <<>>)) = <<>>
      <4> DEFINE e == <<>>
      <4>1. e \in Short
        BY <3>1
      <4> HIDE DEF e
      <4>2. Append(before, e) \in Seq(Short) /\ Last(Append(before, e)) = e
        BY <2>5, <4>1, AppendProperties, FrontLastOfAppend
      <4>3. QED
        BY <4>2 DEF e
    <3>3. QED
      BY <2>2, <2>5, <2>8, <3>2 DEF Cut
  <2>9. QED
    BY <2>7, <2>8
<1>3. Text \subseteq T
  <2> HIDE DEF T
  <2> QED
    BY <1>1, <1>2, TextInduction
<1>4. QED
  BY <1>3

LEMMA ExtractShort ==
  ASSUME NEW str \in Text, Separated(str)
  PROVE  extract_words(str) \in Seq({<<p>> : p \in Piece})
<1> DEFINE words == extract_words(str)
<1>1. words \in Seq(Word)
  BY ExtractType
<1>2. words \in Seq(Short)
  <2>1. SplitAll(str) \in Seq(Short) /\ SplitAll(str) # <<>>
    BY SplitShort, SplitAllType DEF Runs
  <2>2. Front(SplitAll(str)) \in Seq(Short)
    BY <2>1, FrontLast
  <2>3. QED
    BY <2>1, <2>2, ExtractIsTrimmed
<1> HIDE DEF words
<1>3. Len(words) \in Nat /\ words \in [1..Len(words) -> Word] /\ words \in [1..Len(words) -> Short]
  BY <1>1, <1>2, LenProperties
<1>4. ASSUME NEW w \in Word, w \in Short
      PROVE  w \in {<<p>> : p \in Piece}
  <2>1. w \in Seq(Piece) /\ w # <<>> /\ Len(w) <= 1
    BY <1>4 DEF Word, Short
  <2> HIDE DEF Piece
  <2>2. Len(w) = 1
    <3> DEFINE k == Len(w)
    <3>1. k # 0 /\ k \in Nat /\ k <= 1
      BY <2>1, EmptySeq, LenProperties
    <3> HIDE DEF k
    <3>2. k = 1
      BY <3>1
    <3>3. QED
      BY <3>2 DEF k
  <2>3. w[1] \in Piece
    BY <2>1, <2>2, ElementOfSeq
  <2>4. w = <<w[1]>>
    BY <2>1, <2>2
  <2>5. QED
    BY <2>3, <2>4
<1>5. words \in [1..Len(words) -> {<<p>> : p \in Piece}]
  BY <1>3, <1>4
<1>6. QED
  BY <1>3, <1>5 DEF words

LEMMA FlattenSeqSingles ==
  ASSUME NEW S, NEW ss \in Seq({<<p>> : p \in S})
  PROVE  /\ Len(FlattenSeq(ss)) = Len(ss)
         /\ \A i \in 1..Len(ss) : ss[i] = <<FlattenSeq(ss)[i]>>
<1> DEFINE One == {<<p>> : p \in S}
           Same(tt) == /\ Len(FlattenSeq(tt)) = Len(tt)
                       /\ \A i \in 1..Len(tt) : tt[i] = <<FlattenSeq(tt)[i]>>
           T == {tt \in Seq(One) : Same(tt)}
<1>1. <<>> \in T
  BY FlattenSeqEmpty, EmptySeq
<1>2. ASSUME NEW tt \in Seq(One), NEW e \in One, tt \in T
      PROVE  Append(tt, e) \in T
  <2>1. PICK p \in S : e = <<p>>
    OBVIOUS
  <2> DEFINE flat == FlattenSeq(tt)
             m == Len(tt)
             uu == Append(tt, e)
  <2>2. tt \in Seq(Seq(S)) /\ e \in Seq(S)
    <3>1. One \subseteq Seq(S)
      <4>1. ASSUME NEW q \in S
            PROVE  <<q>> \in Seq(S)
        OBVIOUS
      <4>2. QED
        BY <4>1
    <3> HIDE DEF One
    <3>2. QED
      BY <3>1, SeqMonotonic
  <2>3. FlattenSeq(uu) = flat \o e /\ flat \in Seq(S)
    BY <2>2, FlattenSeqAppend, FlattenSeqType
  <2>4. flat \o e = Append(flat, p)
    BY <2>1, <2>3, AppendIsConcat
  <2>5. Len(flat) = m /\ \A i \in 1..m : tt[i] = <<flat[i]>>
    BY <1>2
  <2>6. /\ uu \in Seq(One) /\ Len(uu) = m + 1 /\ m \in Nat
        /\ \A i \in 1..m : uu[i] = tt[i]
        /\ uu[m + 1] = e
    <3> HIDE DEF One
    <3> QED
      BY AppendProperties, LenProperties
  <2> HIDE DEF flat, m, uu
  <2>7. /\ Len(Append(flat, p)) = m + 1
        /\ \A i \in 1..m : Append(flat, p)[i] = flat[i]
        /\ Append(flat, p)[m + 1] = p
    BY <2>3, <2>5, AppendProperties
  <2>8. ASSUME NEW i \in 1..(m + 1)
        PROVE  uu[i] = <<Append(flat, p)[i]>>
    <3>1. i \in 1..m \/ i = m + 1
      BY <2>6
    <3>2. QED
      BY <2>1, <2>5, <2>6, <2>7, <3>1
  <2>9. Same(uu)
    BY <2>3, <2>4, <2>6, <2>7, <2>8
  <2> HIDE DEF Same
  <2>10. QED
    BY <2>6, <2>9 DEF uu
<1>3. Seq(One) \subseteq T
  <2> HIDE DEF T, One
  <2> QED
    BY <1>1, <1>2, SeqSetInduction
<1>4. QED
  BY <1>3

\* The words of a line whose pieces are kept apart by spaces are these pieces,
\* in order (extract_words, string_helpers.c:18-38).
THEOREM WordsAsTyped ==
  ASSUME NEW str \in Text, Separated(str)
  PROVE  /\ Len(Kept(str)) = Len(extract_words(str))
         /\ \A i \in 1..Len(Kept(str)) : extract_words(str)[i] = <<Kept(str)[i]>>
<1>1. /\ Len(FlattenSeq(extract_words(str))) = Len(extract_words(str))
      /\ \A i \in 1..Len(extract_words(str)) :
           extract_words(str)[i] = <<FlattenSeq(extract_words(str))[i]>>
  BY ExtractShort, FlattenSeqSingles
<1>2. QED
  BY <1>1, ExtractKeeps
-----------------------------------------------------------------------------
(* Statistics.                                                             *)

UnitSet == [n : Nat, of : Hosts \cup {Unset}]

LEMMA UnitType ==
  ASSUME NEW n \in Nat, NEW of \in Hosts \cup {Unset}
  PROVE  Unit(n, of) \in UnitSet /\ Unit(n, of).n = n /\ Unit(n, of).of = of
BY DEF Unit, UnitSet

\* The units of one entry: the first tells how long it is, the second has the
\* name.
LEMMA EntryUnits ==
  ASSUME NEW h \in Hosts
  PROVE  /\ NameSize[h] \in Nat
         /\ Entry(h) \in Seq(UnitSet)
         /\ Len(Entry(h)) = NameSize[h] + 3
         /\ Entry(h)[1].n = NameSize[h]
         /\ Entry(h)[2].of = h
<1> DEFINE size == NameSize[h]
           u == Unit(size, Unset)
           v == Unit(0, h)
           name == [k \in 1..(size + 1) |-> v]
<1>1. size \in Nat
  BY SizeAssumption
<1>2. u \in UnitSet /\ u.n = size /\ v \in UnitSet /\ v.of = h /\ Other \in UnitSet
  BY <1>1, UnitType DEF Other
<1>3. Entry(h) = (<<u>> \o name) \o <<Other>>
  BY DEF Entry
<1> HIDE DEF size, u, v
<1>4. /\ name \in Seq(UnitSet) /\ Len(name) = size + 1
      /\ \A k \in 1..(size + 1) : name[k] = v
  <2>1. name \in [1..(size + 1) -> UnitSet] /\ size + 1 \in Nat
    BY <1>1, <1>2
  <2>2. QED
    BY <2>1, <1>1
<1> HIDE DEF name
<1>5. /\ <<u>> \in Seq(UnitSet) /\ Len(<<u>>) = 1 /\ <<u>>[1] = u
      /\ <<Other>> \in Seq(UnitSet) /\ Len(<<Other>>) = 1
  BY <1>2
<1> DEFINE first == <<u>>
           last == <<Other>>
           two == first \o name
           all == two \o last
<1>6. /\ first \in Seq(UnitSet) /\ Len(first) = 1 /\ first[1] = u
      /\ last \in Seq(UnitSet) /\ Len(last) = 1
  BY <1>5
<1> HIDE DEF first, last
<1>7. /\ two \in Seq(UnitSet) /\ Len(two) = 1 + (size + 1)
      /\ \A i \in 1..(1 + (size + 1)) : two[i] = IF i <= 1 THEN first[i] ELSE name[i - 1]
  <2>1. /\ two \in Seq(UnitSet) /\ Len(two) = Len(first) + Len(name)
        /\ \A i \in 1..(Len(first) + Len(name)) :
             two[i] = IF i <= Len(first) THEN first[i] ELSE name[i - Len(first)]
    BY <1>4, <1>6, ConcatProperties
  <2> HIDE DEF two
  <2>2. QED
    BY <2>1, <1>4, <1>6
<1>8. two[1] = u /\ two[2] = v
  <2>1. 1 \in 1..(1 + (size + 1)) /\ 2 \in 1..(1 + (size + 1)) /\ 1 \in 1..(size + 1)
        /\ 2 - 1 = 1
    BY <1>1
  <2>2. two[1] = first[1] /\ two[2] = name[1]
    BY <1>7, <2>1
  <2>3. QED
    BY <1>4, <1>6, <2>1, <2>2
<1> HIDE DEF two
<1>9. /\ all \in Seq(UnitSet) /\ Len(all) = Len(two) + 1
      /\ \A i \in 1..(Len(two) + 1) : all[i] = IF i <= Len(two) THEN two[i] ELSE last[i - Len(two)]
  <2>1. /\ all \in Seq(UnitSet) /\ Len(all) = Len(two) + Len(last)
        /\ \A i \in 1..(Len(two) + Len(last)) :
             all[i] = IF i <= Len(two) THEN two[i] ELSE last[i - Len(two)]
    BY <1>6, <1>7, ConcatProperties
  <2> HIDE DEF all
  <2>2. QED
    BY <2>1, <1>6
<1>10. Len(all) = size + 3 /\ all[1] = u /\ all[2] = v
  <2>1. 1 \in 1..(Len(two) + 1) /\ 2 \in 1..(Len(two) + 1) /\ 1 <= Len(two) /\ 2 <= Len(two)
    BY <1>1, <1>7
  <2>2. all[1] = two[1] /\ all[2] = two[2]
    BY <1>9, <2>1
  <2>3. QED
    BY <1>1, <1>7, <1>8, <1>9, <2>2
<1>11. Entry(h) = all
  BY <1>3 DEF all, two, first, last
<1> HIDE DEF all
<1>12. QED
  BY <1>1, <1>2, <1>9, <1>10, <1>11 DEF size

LEMMA EntriesEmpty == Entries(<<>>) = <<>>
<1>1. [i \in DOMAIN <<>> |-> Entry(<<>>[i])] = <<>>
  OBVIOUS
<1>2. QED
  BY <1>1, FlattenSeqEmpty DEF Entries

LEMMA EntriesAppend ==
  ASSUME NEW rows \in Seq(Hosts), NEW h \in Hosts
  PROVE  /\ Entries(rows) \in Seq(UnitSet)
         /\ Entries(Append(rows, h)) = Entries(rows) \o Entry(h)
<1> DEFINE m == Len(rows)
           ext == Append(rows, h)
           A == Seq(UnitSet)
           parts == [i \in 1..m |-> Entry(rows[i])]
           e == Entry(h)
<1>1. /\ ext \in Seq(Hosts) /\ Len(ext) = m + 1 /\ m \in Nat /\ DOMAIN rows = 1..m
      /\ \A i \in 1..m : ext[i] = rows[i] /\ rows[i] \in Hosts
      /\ ext[m + 1] = h /\ DOMAIN ext = 1..(m + 1)
  BY AppendProperties, LenProperties
<1> HIDE DEF ext, m
<1>2. parts \in [1..m -> A] /\ e \in A
  BY <1>1, EntryUnits
<1>3. parts \in Seq(A) /\ Len(parts) = m
  <2> HIDE DEF parts, A
  <2> QED
    BY <1>1, <1>2
<1>4. Entries(rows) = FlattenSeq(parts)
  BY <1>1 DEF Entries
<1>5. [i \in DOMAIN ext |-> Entry(ext[i])] = Append(parts, e)
  <2> DEFINE more == [i \in 1..(m + 1) |-> Entry(ext[i])]
  <2>1. /\ Append(parts, e) \in Seq(A) /\ Len(Append(parts, e)) = m + 1
        /\ \A i \in 1..m : Append(parts, e)[i] = parts[i]
        /\ Append(parts, e)[m + 1] = e
    <3> HIDE DEF parts, e, A
    <3> QED
      BY <1>2, <1>3, AppendProperties
  <2>2. \A i \in 1..m : parts[i] = Entry(rows[i])
    OBVIOUS
  <2>3. \A i \in 1..(m + 1) : Entry(ext[i]) \in A
    BY <1>1, EntryUnits
  <2>4. more \in [1..(m + 1) -> A] /\ \A i \in 1..(m + 1) : more[i] = Entry(ext[i])
    BY <2>3
  <2> HIDE DEF parts, A, more
  <2>5. more \in Seq(A) /\ Len(more) = m + 1
    BY <1>1, <2>4
  <2>6. ASSUME NEW i \in 1..(m + 1)
        PROVE  more[i] = Append(parts, e)[i]
    <3>1. CASE i \in 1..m
      BY <1>1, <2>1, <2>2, <2>4, <3>1
    <3>2. CASE i = m + 1
      BY <1>1, <2>1, <2>4, <3>2
    <3>3. i \in 1..m \/ i = m + 1
      BY <1>1
    <3>4. QED
      BY <3>1, <3>2, <3>3
  <2>7. more = Append(parts, e)
    <3> DEFINE app == Append(parts, e)
    <3>1. app \in Seq(A) /\ Len(app) = m + 1 /\ \A i \in 1..(m + 1) : more[i] = app[i]
      BY <2>1, <2>6
    <3> HIDE DEF app
    <3>2. more = app
      BY <2>5, <3>1, SeqEqual
    <3>3. QED
      BY <3>2 DEF app
  <2>8. QED
    BY <1>1, <2>7 DEF more
<1>6. FlattenSeq(parts) \in Seq(UnitSet) /\ FlattenSeq(Append(parts, e)) = FlattenSeq(parts) \o e
  <2> HIDE DEF parts, e
  <2> QED
    BY <1>2, <1>3, FlattenSeqType, FlattenSeqAppend DEF A
<1>7. Entries(ext) = FlattenSeq(Append(parts, e))
  BY <1>5 DEF Entries
<1>8. QED
  BY <1>4, <1>6, <1>7 DEF ext
\* Where each entry begins: the first unit tells how far the next one is, the
\* second has the name, and the last entry ends with the units.
Offsets(rows, off) ==
  /\ off \in [1..(Len(rows) + 1) -> Nat]
  /\ off[1] = 1
  /\ off[Len(rows) + 1] = Len(Entries(rows)) + 1
  /\ \A k \in 1..Len(rows) :
       /\ off[k] \in 1..Len(Entries(rows)) /\ off[k] + 1 \in 1..Len(Entries(rows))
       /\ off[k + 1] = off[k] + Entries(rows)[off[k]].n + 3
       /\ Entries(rows)[off[k] + 1].of = rows[k]

LEMMA OffsetsExist ==
  ASSUME NEW rows \in Seq(Hosts)
  PROVE  \E off : Offsets(rows, off)
<1> DEFINE T == {r \in Seq(Hosts) : \E off : Offsets(r, off)}
<1>0. \A r \in Seq(Hosts) : r \in T <=> \E off : Offsets(r, off)
  <2> HIDE DEF Offsets
  <2> QED
    OBVIOUS
<1> HIDE DEF T
<1>1. <<>> \in T
  <2>1. Offsets(<<>>, [k \in 1..1 |-> 1])
    BY EntriesEmpty DEF Offsets
  <2>2. <<>> \in Seq(Hosts)
    BY EmptySeq
  <2>3. QED
    <3> HIDE DEF Offsets
    <3> QED
      BY <1>0, <2>1, <2>2
<1>2. ASSUME NEW r \in Seq(Hosts), NEW h \in Hosts, r \in T
      PROVE  Append(r, h) \in T
  <2>1. PICK off : Offsets(r, off)
    BY <1>0, <1>2
  <2> DEFINE m == Len(r)
             ext == Append(r, h)
             e == Entry(h)
             raw == Entries(r)
             l == Len(raw)
             all == Entries(ext)
             size == NameSize[h]
             new == [k \in 1..(m + 2) |-> IF k <= m + 1 THEN off[k] ELSE l + size + 4]
  <2>2. /\ ext \in Seq(Hosts) /\ Len(ext) = m + 1 /\ m \in Nat
        /\ \A k \in 1..m : ext[k] = r[k]
        /\ ext[m + 1] = h
    BY AppendProperties, LenProperties
  <2>3. /\ size \in Nat /\ e \in Seq(UnitSet) /\ Len(e) = size + 3
        /\ e[1].n = size /\ e[2].of = h
    BY EntryUnits
  <2>4. raw \in Seq(UnitSet) /\ all = raw \o e /\ l \in Nat
    BY EntriesAppend, LenProperties
  <2> HIDE DEF e, size, raw, all, ext, m
  <2>5. /\ Len(all) = l + size + 3
        /\ \A i \in 1..(l + size + 3) : all[i] = IF i <= l THEN raw[i] ELSE e[i - l]
    <3>1. /\ Len(all) = Len(raw) + Len(e)
          /\ \A i \in 1..(Len(raw) + Len(e)) :
               all[i] = IF i <= Len(raw) THEN raw[i] ELSE e[i - Len(raw)]
      BY <2>3, <2>4, ConcatProperties
    <3>2. Len(raw) + Len(e) = l + size + 3
      BY <2>3, <2>4
    <3>3. QED
      BY <3>1, <3>2
  <2>6. /\ off \in [1..(m + 1) -> Nat] /\ off[1] = 1 /\ off[m + 1] = l + 1
        /\ \A k \in 1..m :
             /\ off[k] \in 1..l /\ off[k] + 1 \in 1..l
             /\ off[k + 1] = off[k] + raw[off[k]].n + 3
             /\ raw[off[k] + 1].of = r[k]
    BY <2>1 DEF Offsets, m, raw
  <2> HIDE DEF l
  <2>7. /\ new \in [1..(m + 2) -> Nat]
        /\ \A k \in 1..(m + 1) : new[k] = off[k]
        /\ new[m + 2] = l + size + 4
    BY <2>2, <2>3, <2>4, <2>6
  <2> HIDE DEF new
  <2>8. ASSUME NEW k \in 1..(m + 1)
        PROVE  /\ new[k] \in 1..Len(all) /\ new[k] + 1 \in 1..Len(all)
               /\ new[k + 1] = new[k] + all[new[k]].n + 3
               /\ all[new[k] + 1].of = ext[k]
    <3>1. CASE k \in 1..m
      <4>1. new[k] = off[k] /\ new[k + 1] = off[k + 1]
        <5>1. k \in 1..(m + 1) /\ k + 1 \in 1..(m + 1)
          BY <2>2, <3>1
        <5>2. QED
          BY <2>7, <5>1
      <4>2. off[k] \in 1..l /\ off[k] + 1 \in 1..l
        BY <2>6, <3>1
      <4>3. /\ off[k] \in 1..(l + size + 3) /\ off[k] <= l
            /\ off[k] + 1 \in 1..(l + size + 3) /\ off[k] + 1 <= l
        BY <2>3, <2>4, <4>2
      <4>4. all[off[k]] = raw[off[k]] /\ all[off[k] + 1] = raw[off[k] + 1]
        BY <2>5, <4>3
      <4>5. QED
        BY <2>2, <2>5, <2>6, <3>1, <4>1, <4>3, <4>4
    <3>2. CASE k = m + 1
      <4>1. new[k] = l + 1 /\ new[k + 1] = l + size + 4
        BY <2>2, <2>6, <2>7, <3>2
      <4>2. all[l + 1] = e[1] /\ all[l + 2] = e[2]
        <5>1. /\ l + 1 \in 1..(l + size + 3) /\ ~ (l + 1 <= l) /\ (l + 1) - l = 1
              /\ l + 2 \in 1..(l + size + 3) /\ ~ (l + 2 <= l) /\ (l + 2) - l = 2
          BY <2>3, <2>4
        <5>2. QED
          BY <2>5, <5>1
      <4>3. /\ l + 1 \in 1..(l + size + 3) /\ (l + 1) + 1 = l + 2
            /\ l + 2 \in 1..(l + size + 3)
            /\ l + size + 4 = (l + 1) + size + 3
        BY <2>3, <2>4
      <4>4. QED
        BY <2>2, <2>3, <2>5, <3>2, <4>1, <4>2, <4>3
    <3>3. k \in 1..m \/ k = m + 1
      BY <2>2
    <3>4. QED
      BY <3>1, <3>2, <3>3
  <2>9. Offsets(ext, new)
    <3>1. m + 2 = (m + 1) + 1 /\ 1 \in 1..(m + 1)
      BY <2>2
    <3>2. new[1] = 1
      BY <2>6, <2>7, <3>1
    <3>3. new[(m + 1) + 1] = Len(all) + 1
      BY <2>3, <2>4, <2>5, <2>7, <3>1
    <3>4. new \in [1..((m + 1) + 1) -> Nat]
      BY <2>7, <3>1
    <3>5. QED
      BY <2>2, <2>8, <3>2, <3>3, <3>4 DEF Offsets, all
  <2>10. QED
    <3> HIDE DEF Offsets
    <3> QED
      BY <1>0, <2>2, <2>9 DEF ext
<1>3. Seq(Hosts) \subseteq T
  BY <1>1, <1>2, SeqSetInduction
<1>4. QED
  BY <1>0, <1>3

\* The function that deserialize_sessions computes.
ReadAt(raw, i) == IF i \in DOMAIN raw THEN raw[i] ELSE Other

NamesFrom(raw, f, i) ==
  IF i > Len(raw) THEN <<>>
  ELSE <<ReadAt(raw, i + 1).of>> \o f[i + ReadAt(raw, i).n + 3]

Names(raw) == CHOOSE f : f = [i \in Nat |-> NamesFrom(raw, f, i)]

\* It exists: a name is found behind the one before it, never before.
LEMMA NamesDef ==
  ASSUME NEW raw \in Seq(UnitSet)
  PROVE  \A i \in Nat : Names(raw)[i] = NamesFrom(raw, Names(raw), i)
<1> DEFINE m == Len(raw)
           From(g, d) == /\ g = [i \in Nat |-> g[i]]
                         /\ \A i \in Nat : i > m - d => g[i] = NamesFrom(raw, g, i)
           Built == {d \in Nat : \E g : From(g, d)}
<1>0. \A d \in Nat : d \in Built <=> \E g : From(g, d)
  <2> HIDE DEF From
  <2> QED
    OBVIOUS
<1>1. /\ m \in Nat
      /\ \A i \in Nat : ReadAt(raw, i).n \in Nat
  <2>1. DOMAIN raw = 1..m /\ m \in Nat /\ \A i \in 1..m : raw[i] \in UnitSet
    BY LenProperties, ElementOfSeq
  <2>2. Other \in UnitSet
    BY UnitType DEF Other
  <2>3. QED
    BY <2>1, <2>2 DEF ReadAt, UnitSet
<1> HIDE DEF Built
<1>2. 0 \in Built
  <2>1. From([i \in Nat |-> <<>>], 0)
    BY <1>1 DEF NamesFrom
  <2>2. QED
    <3> HIDE DEF From
    <3> QED
      BY <1>0, <2>1
<1> HIDE DEF m
<1>3. ASSUME NEW d \in Nat, d \in Built
      PROVE  d + 1 \in Built
  <2>1. PICK g : From(g, d)
    <3> HIDE DEF From
    <3> QED
      BY <1>0, <1>3
  <2> DEFINE h == [i \in Nat |-> IF i = m - d THEN NamesFrom(raw, g, i) ELSE g[i]]
  <2>2. h = [i \in Nat |-> h[i]] /\ \A i \in Nat : i # m - d => h[i] = g[i]
    OBVIOUS
  <2>3. m - d \in Nat => h[m - d] = NamesFrom(raw, g, m - d)
    OBVIOUS
  <2> HIDE DEF h
  <2>4. ASSUME NEW i \in Nat, i > m - (d + 1)
        PROVE  h[i] = NamesFrom(raw, h, i)
    <3> DEFINE next == i + ReadAt(raw, i).n + 3
    <3>1. next \in Nat /\ next # m - d
      BY <1>1, <2>4
    <3>2. h[next] = g[next]
      <4> HIDE DEF next
      <4> QED
        BY <2>2, <3>1
    <3>3. NamesFrom(raw, h, i) = NamesFrom(raw, g, i)
      BY <3>2 DEF NamesFrom
    <3>4. h[i] = NamesFrom(raw, g, i)
      <4>1. CASE i = m - d
        BY <2>3, <4>1
      <4>2. CASE i # m - d
        <5>1. i > m - d
          BY <1>1, <2>4, <4>2
        <5>2. g[i] = NamesFrom(raw, g, i)
          BY <2>1, <5>1
        <5>3. QED
          BY <2>2, <4>2, <5>2
      <4>3. QED
        BY <4>1, <4>2
    <3>5. QED
      BY <3>3, <3>4
  <2>5. From(h, d + 1)
    BY <2>2, <2>4
  <2>6. QED
    <3> HIDE DEF From
    <3> QED
      BY <1>0, <2>5
<1>4. m + 1 \in Built
  <2>1. Nat \subseteq Built
    BY <1>2, <1>3, NatSetInduction
  <2>2. QED
    BY <1>1, <2>1
<1>5. PICK g : From(g, m + 1)
  <2> HIDE DEF From
  <2> QED
    BY <1>0, <1>1, <1>4
<1>6. g = [i \in Nat |-> NamesFrom(raw, g, i)]
  <2>1. \A i \in Nat : g[i] = NamesFrom(raw, g, i)
    <3>1. \A i \in Nat : i > m - (m + 1)
      BY <1>1
    <3>2. QED
      BY <1>5, <3>1
  <2> HIDE DEF NamesFrom
  <2>2. QED
    BY <1>5, <2>1
<1>7. Names(raw) = [i \in Nat |-> NamesFrom(raw, Names(raw), i)]
  <2> HIDE DEF NamesFrom
  <2> QED
    BY <1>6 DEF Names
<1>8. PICK f : f = Names(raw)
  OBVIOUS
<1>9. f = [i \in Nat |-> NamesFrom(raw, f, i)]
  BY <1>7, <1>8
<1>10. \A i \in Nat : f[i] = NamesFrom(raw, f, i)
  <2> HIDE DEF NamesFrom
  <2> QED
    BY <1>9
<1>11. QED
  BY <1>8, <1>10

\* The client reads back the rows that the server wrote: the length in each
\* entry leads to the next one, and the last to the end (cmd_handler.c:9-51,
\* session.c:6-48).
THEOREM StatisticsRoundTrip ==
  ASSUME NEW rows \in Seq(Hosts)
  PROVE  deserialize_sessions(Entries(rows)) = rows
<1> DEFINE raw == Entries(rows)
           m == Len(rows)
           f == Names(raw)
<1>1. PICK off : Offsets(rows, off)
  BY OffsetsExist
<1>2. raw \in Seq(UnitSet) /\ DOMAIN raw = 1..Len(raw) /\ Len(raw) \in Nat /\ m \in Nat
  <2>1. raw \in Seq(UnitSet)
    <3>1. CASE Hosts = {}
      <4>1. rows = <<>>
        BY <3>1, EmptySeq, ElementOfSeq
      <4>2. QED
        BY <4>1, EntriesEmpty, EmptySeq
    <3>2. CASE Hosts # {}
      BY <3>2, EntriesAppend
    <3>3. QED
      BY <3>1, <3>2
  <2>2. QED
    BY <2>1, LenProperties
<1>3. \A i \in Nat : f[i] = NamesFrom(raw, f, i)
  BY <1>2, NamesDef
<1>4. /\ off \in [1..(m + 1) -> Nat] /\ off[1] = 1 /\ off[m + 1] = Len(raw) + 1
      /\ \A k \in 1..m :
           /\ off[k] \in 1..Len(raw) /\ off[k] + 1 \in 1..Len(raw)
           /\ off[k + 1] = off[k] + raw[off[k]].n + 3
           /\ raw[off[k] + 1].of = rows[k]
  BY <1>1 DEF Offsets
<1> HIDE DEF raw, f, m
<1> DEFINE T == {d \in Nat : d <= m => f[off[(m + 1) - d]] = SubSeq(rows, (m + 1) - d, m)}
<1>5. 0 \in T
  <2>1. (m + 1) - 0 = m + 1 /\ Len(raw) + 1 \in Nat /\ Len(raw) + 1 > Len(raw)
    BY <1>2
  <2>2. f[off[m + 1]] = <<>>
    BY <1>3, <1>4, <2>1 DEF NamesFrom
  <2>3. SubSeq(rows, m + 1, m) = <<>>
    BY <1>2, SubSeqEmpty
  <2>4. QED
    BY <2>1, <2>2, <2>3
<1>6. ASSUME NEW d \in Nat, d \in T
      PROVE  d + 1 \in T
  <2>1. SUFFICES ASSUME d + 1 <= m
                 PROVE  f[off[(m + 1) - (d + 1)]] = SubSeq(rows, (m + 1) - (d + 1), m)
    OBVIOUS
  <2> DEFINE k == m - d
  <2>2. k \in 1..m /\ (m + 1) - (d + 1) = k /\ (m + 1) - d = k + 1 /\ d <= m
    BY <1>2, <2>1
  <2>3. f[off[k + 1]] = SubSeq(rows, k + 1, m)
    BY <1>6, <2>2
  <2> HIDE DEF k, T
  <2>4. /\ off[k] \in 1..Len(raw) /\ off[k] + 1 \in 1..Len(raw)
        /\ off[k + 1] = off[k] + raw[off[k]].n + 3
        /\ raw[off[k] + 1].of = rows[k]
    BY <1>4, <2>2
  <2>5. ReadAt(raw, off[k]) = raw[off[k]] /\ ReadAt(raw, off[k] + 1) = raw[off[k] + 1]
    BY <1>2, <2>4 DEF ReadAt
  <2>6. off[k] \in Nat /\ ~ (off[k] > Len(raw))
    BY <1>2, <2>4
  <2>7. f[off[k]] = <<raw[off[k] + 1].of>> \o f[off[k] + raw[off[k]].n + 3]
    BY <1>3, <2>5, <2>6 DEF NamesFrom
  <2>8. f[off[k]] = <<rows[k]>> \o SubSeq(rows, k + 1, m)
    BY <2>3, <2>4, <2>7
  <2>9. SubSeq(rows, k, m) = <<rows[k]>> \o SubSeq(rows, k + 1, m)
    <3>1. m \in k..Len(rows) /\ k \in 1..Len(rows)
      BY <1>2, <2>2 DEF m
    <3>2. QED
      BY <3>1, SubSeqRecursiveFirst
  <2>10. QED
    BY <2>2, <2>8, <2>9
<1>7. m \in T
  <2> HIDE DEF T
  <2>1. Nat \subseteq T
    BY <1>5, <1>6, NatSetInduction
  <2>2. QED
    BY <1>2, <2>1
<1>8. f[1] = SubSeq(rows, 1, m)
  <2>1. m <= m /\ (m + 1) - m = 1
    BY <1>2
  <2>2. QED
    BY <1>4, <1>7, <2>1
<1>9. f[1] = rows
  BY <1>8, SubSeqFull DEF m
<1>10. deserialize_sessions(raw) = f[1]
  BY DEF deserialize_sessions, f, Names, NamesFrom, ReadAt
<1>11. QED
  BY <1>9, <1>10 DEF raw

LEMMA SizeType ==
  ASSUME NEW rows \in Seq(Hosts)
  PROVE  Size(rows) \in Nat
<1> DEFINE m == Len(rows)
           step == [n \in 0..m |-> [v \in Nat |-> IF n = 0 THEN v ELSE v + NameSize[rows[n]] + 3]]
           zero == 0
           g == CHOOSE f : f = [n \in 0..m |-> IF n = 0 THEN 0 ELSE f[n - 1] + NameSize[rows[n]] + 3]
<1>1. m \in Nat /\ \A n \in 1..m : NameSize[rows[n]] \in Nat
  <2>1. m \in Nat /\ \A n \in 1..m : rows[n] \in Hosts
    BY LenProperties, ElementOfSeq
  <2>2. QED
    BY <2>1, SizeAssumption
<1>2. \A n \in 0..m, v \in Nat :
        /\ step[n][v] \in Nat
        /\ n # 0 => step[n][v] = v + NameSize[rows[n]] + 3
  <2>1. ASSUME NEW n \in 0..m, NEW v \in Nat
        PROVE  /\ step[n][v] = IF n = 0 THEN v ELSE v + NameSize[rows[n]] + 3
               /\ (IF n = 0 THEN v ELSE v + NameSize[rows[n]] + 3) \in Nat
    <3>1. n # 0 => n \in 1..m
      BY <1>1
    <3>2. n # 0 => NameSize[rows[n]] \in Nat
      BY <1>1, <3>1
    <3>3. QED
      BY <3>2
  <2>2. QED
    BY <2>1
<1> HIDE DEF m, step
<1>3. PICK f \in [0..m -> Nat] : Recursive(f, 0, m, zero, step)
  <2>1. StepWithin(step, 0, m, Nat)
    BY <1>2 DEF StepWithin
  <2>2. 0 \in Nat /\ 0 <= m /\ zero \in Nat
    BY <1>1
  <2> HIDE DEF zero
  <2>3. QED
    BY <1>1, <2>1, <2>2, RecursiveFunction
<1>4. ASSUME NEW n \in 0..m
      PROVE  f[n] = IF n = 0 THEN 0 ELSE f[n - 1] + NameSize[rows[n]] + 3
  <2>1. CASE n = 0
    BY <1>3, <2>1 DEF Recursive
  <2>2. CASE n # 0
    <3>1. f[n] = step[n][f[n - 1]]
      BY <1>3, <2>2 DEF Recursive
    <3>2. n - 1 \in 0..m
      BY <1>1, <2>2
    <3>3. f[n - 1] \in Nat
      BY <3>2
    <3>4. step[n][f[n - 1]] = f[n - 1] + NameSize[rows[n]] + 3
      BY <1>2, <2>2, <3>3
    <3>5. QED
      BY <2>2, <3>1, <3>4
  <2>3. QED
    BY <2>1, <2>2
<1>5. f = [n \in 0..m |-> IF n = 0 THEN 0 ELSE f[n - 1] + NameSize[rows[n]] + 3]
  BY <1>4
<1>6. g = [n \in 0..m |-> IF n = 0 THEN 0 ELSE g[n - 1] + NameSize[rows[n]] + 3]
  BY <1>5
<1> HIDE DEF g
<1>7. \A n \in 0..m : g[n] = IF n = 0 THEN 0 ELSE g[n - 1] + NameSize[rows[n]] + 3
  <2>1. PICK w : w = [n \in 0..m |-> IF n = 0 THEN 0 ELSE g[n - 1] + NameSize[rows[n]] + 3]
    OBVIOUS
  <2>2. g = w
    BY <1>6, <2>1
  <2>3. \A n \in 0..m : w[n] = IF n = 0 THEN 0 ELSE g[n - 1] + NameSize[rows[n]] + 3
    BY <2>1
  <2>4. QED
    BY <2>2, <2>3
<1> DEFINE T == {n \in Nat : n <= m => g[n] \in Nat}
<1>8. 0 \in T
  BY <1>1, <1>7
<1>9. ASSUME NEW n \in Nat, n \in T
      PROVE  n + 1 \in T
  <2>1. SUFFICES ASSUME n + 1 <= m
                 PROVE  g[n + 1] \in Nat
    OBVIOUS
  <2>2. n + 1 \in 0..m /\ n + 1 \in 1..m /\ n + 1 # 0 /\ (n + 1) - 1 = n /\ n <= m
    BY <1>1, <2>1
  <2>3. g[n] \in Nat /\ NameSize[rows[n + 1]] \in Nat
    BY <1>1, <1>9, <2>2
  <2>4. g[n + 1] = g[n] + NameSize[rows[n + 1]] + 3
    BY <1>7, <2>2
  <2>5. QED
    BY <2>3, <2>4
<1>10. g[m] \in Nat
  <2> HIDE DEF T
  <2>1. Nat \subseteq T
    BY <1>8, <1>9, NatSetInduction
  <2>2. QED
    BY <1>1, <2>1 DEF T
<1>11. Size(rows) = g[m]
  BY DEF Size, g, m
<1>12. QED
  BY <1>10, <1>11

LEMMA SizeEmpty == Size(<<>>) = 0
<1> DEFINE g == CHOOSE f : f = [n \in 0..0 |-> IF n = 0 THEN 0 ELSE f[n - 1] + NameSize[<<>>[n]] + 3]
           z == [n \in 0..0 |-> 0]
<1>1. z = [n \in 0..0 |-> IF n = 0 THEN 0 ELSE z[n - 1] + NameSize[<<>>[n]] + 3]
  OBVIOUS
<1>2. g = [n \in 0..0 |-> IF n = 0 THEN 0 ELSE g[n - 1] + NameSize[<<>>[n]] + 3]
  <2> HIDE DEF z
  <2> QED
    BY <1>1
<1>3. Size(<<>>) = g[0]
  BY DEF Size
<1> HIDE DEF g
<1>4. g[0] = 0
  BY <1>2
<1>5. QED
  BY <1>3, <1>4

\* There is always a number of entries to write: those before the first that
\* does not fit.
LEMMA SerializedType ==
  ASSUME NEW rows \in Seq(Hosts)
  PROVE  Serialized(rows) \in 0..Len(rows)
<1> DEFINE m == Len(rows)
           size(n) == Size(SubSeq(rows, 1, n))
           Full(n) == n < m => size(n + 1) > Room
           Stops == {n \in 0..m : Full(n)}
<1>1. m \in Nat /\ \A n \in 0..m : SubSeq(rows, 1, n) \in Seq(Hosts)
  <2>1. m \in Nat /\ \A i \in 1..m : rows[i] \in Hosts
    BY LenProperties, ElementOfSeq
  <2>2. ASSUME NEW n \in 0..m
        PROVE  SubSeq(rows, 1, n) \in Seq(Hosts)
    <3>1. n \in Int /\ \A i \in 1..n : rows[i] \in Hosts
      BY <2>1
    <3>2. QED
      BY <3>1, SubSeqProperties
  <2>3. QED
    BY <2>1, <2>2
<1>2. \A n \in 0..m : size(n) \in Nat
  BY <1>1, SizeType
<1>3. size(0) = 0
  <2>1. SubSeq(rows, 1, 0) = <<>>
    BY SubSeqEmpty
  <2>2. QED
    BY <2>1, SizeEmpty
<1>4. Serialized(rows) = CHOOSE n \in 0..m : size(n) <= Room /\ Full(n)
  BY DEF Serialized
<1> HIDE DEF m, size
<1>5. m \in Stops /\ Stops \in SUBSET Nat
  BY <1>1
<1>6. PICK x \in Stops : \A y \in Stops : x <= y
  <2> HIDE DEF Stops
  <2> QED
    BY <1>5, LeastElement
<1>7. size(x) <= Room
  <2>1. CASE x = 0
    BY <1>3, <2>1, SizeAssumption
  <2>2. CASE x # 0
    <3>1. x - 1 \in 0..m /\ x - 1 < m /\ (x - 1) + 1 = x /\ ~ (x <= x - 1) /\ x \in 0..m
      BY <1>1, <2>2
    <3>2. x - 1 \notin Stops
      <4> HIDE DEF Stops
      <4> QED
        BY <1>6, <3>1
    <3>3. ~ (size(x) > Room)
      BY <3>1, <3>2
    <3>4. size(x) \in Nat
      BY <1>2, <3>1
    <3>5. QED
      BY <3>3, <3>4, SizeAssumption
  <2>3. QED
    BY <2>1, <2>2
<1>8. x \in 0..m /\ Full(x)
  OBVIOUS
<1> HIDE DEF Full
<1>9. QED
  BY <1>4, <1>7, <1>8 DEF m
=============================================================================
