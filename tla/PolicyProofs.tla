------------------------------ MODULE PolicyProofs ------------------------------
(***************************************************************************)
(* Facts about the operators of Policy, for any sequences: what is dropped *)
(* from a sequence, where a line is split, where an extension begins.      *)
(*                                                                         *)
(* Induction is stated here of sets: a set of numbers (of sequences) that  *)
(* holds the first one and with each the next holds them all.              *)
(***************************************************************************)
EXTENDS Policy, SequenceTheorems, FiniteSetTheorems, WellFoundedInduction, TLAPS

-----------------------------------------------------------------------------
(* Induction.                                                              *)

LEMMA LeastNat ==
  ASSUME NEW T, T \subseteq Nat, T # {}
  PROVE  \E n \in T : \A m \in T : n <= m
<1> DEFINE R == StrictSubsetOrdering(Nat)
           U == {1 .. n : n \in T}
<1>1. IsWellFoundedOn(R, FiniteSubsetsOf(Nat))
  BY FS_StrictSubsetOrderingWellFounded
<1>2. U \subseteq FiniteSubsetsOf(Nat) /\ U # {}
  <2>1. ASSUME NEW n \in T  PROVE 1 .. n \in FiniteSubsetsOf(Nat)
    <3>1. IsFiniteSet(1 .. n)
      BY FS_Interval
    <3> QED BY <3>1 DEF FiniteSubsetsOf
  <2> QED BY <2>1
<1>3. PICK u \in U : \A v \in U : ~(<<v, u>> \in R)
  <2> HIDE DEF R, U
  <2> QED BY <1>1, <1>2, WFMin
<1>4. PICK n \in T : u = 1 .. n
  OBVIOUS
<1>5. ASSUME NEW m \in T, m < n  PROVE FALSE
  <2>1. (1 .. m) \subseteq (1 .. n) /\ (1 .. m) # (1 .. n)
    <3>1. n \in 1 .. n /\ n \notin 1 .. m
      BY <1>5
    <3> QED BY <1>5, <3>1
  <2>2. <<1 .. m, 1 .. n>> \in R
    BY <2>1 DEF StrictSubsetOrdering
  <2> QED BY <2>2, <1>3, <1>4
<1> QED BY <1>5

LEMMA NatSetInduction ==
  ASSUME NEW T, T \subseteq Nat, 0 \in T, \A n \in T : n + 1 \in T
  PROVE  T = Nat
<1> SUFFICES ASSUME Nat \ T # {} PROVE FALSE
  OBVIOUS
<1>1. PICK n \in Nat \ T : \A m \in Nat \ T : n <= m
  BY LeastNat
<1>2. n - 1 \in T
  BY <1>1
<1> QED BY <1>1, <1>2

LEMMA SeqSetInduction ==
  ASSUME NEW S, NEW T, T \subseteq Seq(S), <<>> \in T, \A s \in T, e \in S : Append(s, e) \in T
  PROVE  T = Seq(S)
<1> DEFINE N == {n \in Nat : \A s \in Seq(S) : Len(s) = n => s \in T}
<1>1. 0 \in N
  OBVIOUS
<1>2. ASSUME NEW n \in N  PROVE n + 1 \in N
  <2> SUFFICES ASSUME NEW s \in Seq(S), Len(s) = n + 1 PROVE s \in T
    OBVIOUS
  <2>0. s # <<>>
    OBVIOUS
  <2>1. PICK t \in Seq(S), e \in S : s = Append(t, e)
    BY <2>0, SequenceEmptyOrAppend
  <2>2. Len(t) = n
    BY <2>1
  <2> QED BY <2>1, <2>2, <1>2
<1>3. N = Nat
  <2> HIDE DEF N
  <2>1. N \subseteq Nat 
    BY DEF N
  <2> QED BY <1>1, <1>2, <2>1, NatSetInduction
<1>4. ASSUME NEW s \in Seq(S) PROVE s \in T
  <2>1. Len(s) \in N
    BY <1>3
  <2> QED BY <2>1
<1> QED BY <1>4
\* A sequence given by its elements is one element longer.
LEMMA IsAppend ==
  ASSUME NEW S, NEW s \in Seq(S), NEW e \in S, NEW f,
         f = [i \in 1 .. Len(s) + 1 |-> IF i = Len(s) + 1 THEN e ELSE s[i]]
  PROVE  f = Append(s, e)
<1>1. Len(s) \in Nat /\ \A i \in 1 .. Len(s) : s[i] \in S
  BY LenProperties, ElementOfSeq
<1>2. /\ Append(s, e) \in Seq(S) /\ Len(Append(s, e)) = Len(s) + 1
      /\ \A i \in 1 .. Len(s) : Append(s, e)[i] = s[i]
      /\ Append(s, e)[Len(s) + 1] = e
  BY AppendProperties
<1>3. \A i \in 1 .. Len(s) + 1 : f[i] \in S /\ f[i] = Append(s, e)[i]
  BY <1>1, <1>2
<1>4. f \in Seq(S) /\ Len(f) = Len(s) + 1
  <2>1. f \in [1 .. Len(s) + 1 -> S]
    BY <1>3
  <2>2. Len(s) + 1 \in Nat
    BY <1>1
  <2>3. f \in Seq(S)
    BY <2>1, <2>2, SeqDef
  <2>4. DOMAIN f = 1 .. Len(s) + 1 /\ DOMAIN f = 1 .. Len(f) /\ Len(f) \in Nat
    BY <2>1, <2>3, LenProperties
  <2>5. QED  BY <2>2, <2>3, <2>4
<1>5. QED  BY <1>2, <1>3, <1>4, SeqEqual

-----------------------------------------------------------------------------
(* Without.                                                                *)

\* F is the recursive function of Without on the first n elements of s.
IsKept(F, s, D, n) ==
  F = [i \in 0 .. n |->
        IF i = 0 THEN <<>>
        ELSE IF s[i] \in D THEN F[i - 1] ELSE Append(F[i - 1], s[i])]

LEMMA KeptExists ==
  ASSUME NEW s, NEW D, NEW m \in Nat
  PROVE  \E F : IsKept(F, s, D, m)
<1> DEFINE T == {n \in Nat : \E F : IsKept(F, s, D, n)}
<1>1. 0 \in T
  <2> DEFINE F == [i \in 0 .. 0 |-> <<>>]
  <2>1. IsKept(F, s, D, 0)
    BY DEF IsKept
  <2>2. QED  BY <2>1
<1>2. ASSUME NEW n \in T PROVE n + 1 \in T
  <2>1. PICK F : IsKept(F, s, D, n)
    OBVIOUS
  <2> DEFINE last == IF s[n + 1] \in D THEN F[n] ELSE Append(F[n], s[n + 1])
             G == [i \in 0 .. n + 1 |-> IF i = n + 1 THEN last ELSE F[i]]
  <2>2. n \in Nat
    OBVIOUS
  <2>3. \A i \in 0 .. n : F[i] = IF i = 0 THEN <<>>
                                ELSE IF s[i] \in D THEN F[i - 1] ELSE Append(F[i - 1], s[i])
    BY <2>1 DEF IsKept
  <2>4. \A i \in 0 .. n : G[i] = F[i]
    BY <2>2
  <2>5. G[n + 1] = last
    BY <2>2
  <2>6. \A i \in 0 .. n + 1 :
          G[i] = IF i = 0 THEN <<>> ELSE IF s[i] \in D THEN G[i - 1] ELSE Append(G[i - 1], s[i])
    <3> SUFFICES ASSUME NEW i \in 0 .. n + 1
                 PROVE  G[i] = IF i = 0 THEN <<>>
                               ELSE IF s[i] \in D THEN G[i - 1] ELSE Append(G[i - 1], s[i])
      OBVIOUS
    <3>1. CASE i = n + 1
      <4>1. i # 0 /\ i - 1 = n /\ n \in 0 .. n
        BY <2>2, <3>1
      <4>2. QED  BY <3>1, <4>1, <2>4, <2>5
    <3>2. CASE i = 0
      BY <3>2, <2>2, <2>3, <2>4
    <3>3. CASE i \in 1 .. n
      <4>1. i \in 0 .. n /\ i - 1 \in 0 .. n /\ i # 0
        BY <2>2, <3>3
      <4> HIDE DEF G
      <4>2. QED  BY <4>1, <2>3, <2>4
    <3>4. QED  BY <2>2, <3>1, <3>2, <3>3
  <2>7. IsKept(G, s, D, n + 1)
    <3>1. G = [i \in 0 .. n + 1 |-> G[i]]
      OBVIOUS
    <3> HIDE DEF G
    <3>2. QED  BY <2>6, <3>1 DEF IsKept
  <2>8. QED  BY <2>2, <2>7
<1>3. T = Nat
  <2>1. T \subseteq Nat
    OBVIOUS
  <2> HIDE DEF T
  <2>2. QED  BY <1>1, <1>2, <2>1, NatSetInduction
<1>4. QED  BY <1>3

LEMMA WithoutKept ==
  ASSUME NEW S, NEW s \in Seq(S), NEW D
  PROVE  \E F : IsKept(F, s, D, Len(s)) /\ Without(s, D) = F[Len(s)]
<1> DEFINE F == CHOOSE G : IsKept(G, s, D, Len(s))
<1>1. Len(s) \in Nat
  BY LenProperties
<1>2. IsKept(F, s, D, Len(s))
  BY <1>1, KeptExists
<1>3. Without(s, D) = F[Len(s)]
  BY DEF Without, IsKept
<1>4. QED  BY <1>2, <1>3

\* The function depends only on the elements it has seen.
LEMMA KeptUnique ==
  ASSUME NEW s, NEW t, NEW D, NEW F, NEW G, NEW m \in Nat, NEW n \in Nat,
         IsKept(F, s, D, m), IsKept(G, t, D, n), NEW k \in 0 .. m, k <= n,
         \A i \in 1 .. k : s[i] = t[i]
  PROVE  F[k] = G[k]
<1> DEFINE T == {i \in Nat : i <= k => F[i] = G[i]}
<1>1. \A i \in 0 .. m : F[i] = IF i = 0 THEN <<>>
                              ELSE IF s[i] \in D THEN F[i - 1] ELSE Append(F[i - 1], s[i])
  BY DEF IsKept
<1>2. \A i \in 0 .. n : G[i] = IF i = 0 THEN <<>>
                              ELSE IF t[i] \in D THEN G[i - 1] ELSE Append(G[i - 1], t[i])
  BY DEF IsKept
<1>3. 0 \in T
  BY <1>1, <1>2
<1>4. ASSUME NEW i \in T PROVE i + 1 \in T
  <2>1. CASE i + 1 <= k
    <3>1. i + 1 \in 0 .. m /\ i + 1 \in 0 .. n /\ i + 1 # 0 /\ (i + 1) - 1 = i /\ i + 1 \in 1 .. k
      BY <2>1
    <3>2. F[i] = G[i]
      BY <2>1
    <3>3. QED  BY <1>1, <1>2, <3>1, <3>2
  <2>2. QED  BY <2>1
<1>5. T = Nat
  <2>1. T \subseteq Nat
    OBVIOUS
  <2> HIDE DEF T
  <2>2. QED  BY <1>3, <1>4, <2>1, NatSetInduction
<1>6. QED  BY <1>5

LEMMA WithoutEmpty ==
  ASSUME NEW D
  PROVE  Without(<<>>, D) = <<>>
<1>1. PICK F : IsKept(F, <<>>, D, Len(<<>>)) /\ Without(<<>>, D) = F[Len(<<>>)]
  BY WithoutKept, EmptySeq
<1>2. QED  BY <1>1, EmptySeq DEF IsKept

\* An element more adds itself or nothing.
LEMMA WithoutAppend ==
  ASSUME NEW S, NEW s \in Seq(S), NEW e \in S, NEW D
  PROVE  Without(Append(s, e), D) = IF e \in D THEN Without(s, D) ELSE Append(Without(s, D), e)
<1> DEFINE t == Append(s, e)
<1>1. /\ t \in Seq(S) /\ Len(t) = Len(s) + 1 /\ Len(s) \in Nat /\ t[Len(s) + 1] = e
      /\ \A i \in 1 .. Len(s) : t[i] = s[i]
  BY AppendProperties, LenProperties
<1> HIDE DEF t
<1>2. PICK F : IsKept(F, s, D, Len(s)) /\ Without(s, D) = F[Len(s)]
  BY WithoutKept
<1>3. PICK G : IsKept(G, t, D, Len(s) + 1) /\ Without(t, D) = G[Len(s) + 1]
  BY <1>1, WithoutKept
<1>4. F[Len(s)] = G[Len(s)]
  BY <1>1, <1>2, <1>3, KeptUnique
<1>5. G[Len(s) + 1] = IF e \in D THEN G[Len(s)] ELSE Append(G[Len(s)], e)
  <2>1. Len(s) + 1 \in 0 .. Len(s) + 1 /\ Len(s) + 1 # 0 /\ (Len(s) + 1) - 1 = Len(s)
    BY <1>1
  <2>2. QED  BY <1>1, <1>3, <2>1 DEF IsKept
<1>6. QED  BY <1>2, <1>3, <1>4, <1>5 DEF t

\* What is left are elements of s that are not in D.
LEMMA WithoutType ==
  ASSUME NEW S, NEW s \in Seq(S), NEW D
  PROVE  Without(s, D) \in Seq(S \ D)
<1> DEFINE T == {t \in Seq(S) : Without(t, D) \in Seq(S \ D)}
<1>1. <<>> \in T
  BY WithoutEmpty, EmptySeq
<1>2. ASSUME NEW t \in T, NEW e \in S PROVE Append(t, e) \in T
  <2>1. Without(Append(t, e), D) = IF e \in D THEN Without(t, D) ELSE Append(Without(t, D), e)
    BY WithoutAppend
  <2>2. e \notin D => Append(Without(t, D), e) \in Seq(S \ D)
    BY AppendProperties
  <2>3. Append(t, e) \in Seq(S)
    BY AppendProperties
  <2>4. QED  BY <2>1, <2>2, <2>3
<1>3. T = Seq(S)
  <2>1. T \subseteq Seq(S)
    OBVIOUS
  <2> HIDE DEF T
  <2>2. QED  BY <1>1, <1>2, <2>1, SeqSetInduction
<1>4. QED  BY <1>3

LEMMA PairSeq ==
  ASSUME NEW S, NEW a \in S, NEW b \in S
  PROVE  Append(<<a>>, b) = <<a, b>> /\ <<a>> \o <<b>> = <<a, b>>
<1> DEFINE s == Append(<<a>>, b)
           t == <<a, b>>
<1>1. s \in Seq(S) /\ Len(s) = 2 /\ s[1] = a /\ s[2] = b
  BY AppendProperties
<1>2. t \in Seq(S) /\ Len(t) = 2 /\ t[1] = a /\ t[2] = b
  OBVIOUS
<1> HIDE DEF s, t
<1>3. \A i \in 1 .. 2 : s[i] = t[i]
  BY <1>1, <1>2
<1>4. s = t
  BY <1>1, <1>2, <1>3, SeqEqual
<1>5. <<a>> \in Seq(S)
  OBVIOUS
<1>6. Append(<<a>>, b) = <<a>> \o <<b>>
  BY <1>5, AppendIsConcat
<1>7. QED  BY <1>4, <1>6 DEF s, t

LEMMA ToSetAppend ==
  ASSUME NEW S, NEW s \in Seq(S), NEW e \in S
  PROVE  ToSet(Append(s, e)) = ToSet(s) \cup {e}
<1>1. /\ Append(s, e) \in Seq(S) /\ Len(Append(s, e)) = Len(s) + 1 /\ Len(s) \in Nat
      /\ Append(s, e)[Len(s) + 1] = e /\ \A i \in 1 .. Len(s) : Append(s, e)[i] = s[i]
  BY AppendProperties, LenProperties
<1>2. DOMAIN s = 1 .. Len(s) /\ DOMAIN Append(s, e) = 1 .. Len(s) + 1
  BY <1>1, LenProperties
<1>3. QED  BY <1>1, <1>2 DEF ToSet

LEMMA WithoutSet ==
  ASSUME NEW S, NEW s \in Seq(S), NEW D
  PROVE  ToSet(Without(s, D)) = ToSet(s) \ D
<1> DEFINE T == {t \in Seq(S) : ToSet(Without(t, D)) = ToSet(t) \ D}
<1>1. <<>> \in T
  BY WithoutEmpty, EmptySeq DEF ToSet
<1>2. ASSUME NEW t \in T, NEW e \in S PROVE Append(t, e) \in T
  <2>1. Without(Append(t, e), D) = IF e \in D THEN Without(t, D) ELSE Append(Without(t, D), e)
    BY WithoutAppend
  <2>2. Append(t, e) \in Seq(S) /\ ToSet(Append(t, e)) = ToSet(t) \cup {e}
    BY AppendProperties, ToSetAppend
  <2>3. Without(t, D) \in Seq(S)
    <3>1. Without(t, D) \in Seq(S \ D)
      BY WithoutType
    <3>2. QED  BY <3>1, SeqMonotonic
  <2>4. ToSet(Append(Without(t, D), e)) = ToSet(Without(t, D)) \cup {e}
    BY <2>3, ToSetAppend
  <2>5. QED  BY <2>1, <2>2, <2>4
<1>3. T = Seq(S)
  <2>1. T \subseteq Seq(S)
    OBVIOUS
  <2> HIDE DEF T
  <2>2. QED  BY <1>1, <1>2, <2>1, SeqSetInduction
<1>4. QED  BY <1>3

LEMMA WithoutAll ==
  ASSUME NEW S, NEW s \in Seq(S), NEW D, S \cap D = {}
  PROVE  Without(s, D) = s
<1> DEFINE T == {t \in Seq(S) : Without(t, D) = t}
<1>1. <<>> \in T
  BY WithoutEmpty, EmptySeq
<1>2. ASSUME NEW t \in T, NEW e \in S PROVE Append(t, e) \in T
  BY WithoutAppend, AppendProperties
<1>3. T = Seq(S)
  <2>1. T \subseteq Seq(S)
    OBVIOUS
  <2> HIDE DEF T
  <2>2. QED  BY <1>1, <1>2, <2>1, SeqSetInduction
<1>4. QED  BY <1>3

\* A first element that is dropped makes no difference.
LEMMA WithoutFirst ==
  ASSUME NEW S, NEW s \in Seq(S), NEW x \in S, NEW D, x \in D
  PROVE  Without(<<x>> \o s, D) = Without(s, D)
<1> DEFINE T == {t \in Seq(S) : Without(<<x>> \o t, D) = Without(t, D)}
<1>1. <<x>> \in Seq(S) /\ <<>> \in Seq(S)
  BY EmptySeq
<1>2. <<>> \in T
  <2>1. <<x>> \o <<>> = <<x>> /\ <<x>> = Append(<<>>, x)
    BY <1>1
  <2>2. Without(Append(<<>>, x), D) = Without(<<>>, D)
    BY <1>1, WithoutAppend
  <2>3. QED  BY <1>1, <2>1, <2>2
<1>3. ASSUME NEW t \in T, NEW e \in S PROVE Append(t, e) \in T
  <2>1. t \in Seq(S) /\ Append(t, e) \in Seq(S) /\ <<x>> \o t \in Seq(S)
    BY <1>1, AppendProperties, ConcatProperties
  <2>2. <<x>> \o Append(t, e) = Append(<<x>> \o t, e)
    BY <1>1, <2>1
  <2>3. Without(Append(<<x>> \o t, e), D) =
          IF e \in D THEN Without(<<x>> \o t, D) ELSE Append(Without(<<x>> \o t, D), e)
    BY <2>1, WithoutAppend
  <2>4. Without(Append(t, e), D) = IF e \in D THEN Without(t, D) ELSE Append(Without(t, D), e)
    BY <2>1, WithoutAppend
  <2>5. QED  BY <2>1, <2>2, <2>3, <2>4
<1>4. T = Seq(S)
  <2>1. T \subseteq Seq(S)
    OBVIOUS
  <2> HIDE DEF T
  <2>2. QED  BY <1>2, <1>3, <2>1, SeqSetInduction
<1>5. QED  BY <1>4

-----------------------------------------------------------------------------
(* Lines and tokens.                                                       *)

\* A text is split at its first delimiter, if it has one.
LEMMA SplitCases ==
  ASSUME NEW S, NEW s \in Seq(S), NEW x
  PROVE  \/ /\ \A i \in 1 .. Len(s) : s[i] # x
            /\ split_once(s, x) = <<s, <<>>>>
         \/ \E k \in 1 .. Len(s) :
              /\ s[k] = x /\ \A i \in 1 .. k - 1 : s[i] # x
              /\ split_once(s, x) = <<SubSeq(s, 1, k - 1), SubSeq(s, k + 1, Len(s))>>
<1> DEFINE I == {i \in 1 .. Len(s) : s[i] = x}
           pos == IF I # {} THEN Min(I) ELSE 0
<1>1. split_once(s, x) = IF pos = 0 THEN <<s, <<>>>>
                         ELSE <<SubSeq(s, 1, pos - 1), SubSeq(s, pos + 1, Len(s))>>
  BY DEF split_once, SelectInSeq
<1>2. Len(s) \in Nat
  BY LenProperties
<1>3. CASE I = {}
  BY <1>1, <1>3
<1>4. CASE I # {}
  <2>1. \E i \in I : \A j \in I : i <= j
    <3>1. I \subseteq Nat
      BY <1>2
    <3> HIDE DEF I
    <3>2. QED  BY <1>4, <3>1, LeastNat
  <2>2. pos \in I /\ \A j \in I : pos <= j
    <3>1. Min(I) \in I /\ \A j \in I : Min(I) <= j
      BY <2>1 DEF Min
    <3>2. QED  BY <1>4, <3>1
  <2> HIDE DEF pos
  <2>3. pos \in 1 .. Len(s) /\ s[pos] = x /\ pos # 0
    BY <1>2, <2>2
  <2>4. ASSUME NEW i \in 1 .. pos - 1 PROVE s[i] # x
    <3>1. i \in 1 .. Len(s) /\ ~(pos <= i)
      BY <1>2, <2>3
    <3>2. QED  BY <2>2, <3>1
  <2>5. QED  BY <1>1, <2>3, <2>4
<1>5. QED  BY <1>3, <1>4

LEMMA SplitFirst ==
  ASSUME NEW S, NEW s \in Seq(S), NEW x, NEW k \in 1 .. Len(s),
         s[k] = x, \A j \in 1 .. k - 1 : s[j] # x
  PROVE  split_once(s, x) = <<SubSeq(s, 1, k - 1), SubSeq(s, k + 1, Len(s))>>
<1>1. ~ \A i \in 1 .. Len(s) : s[i] # x
  OBVIOUS
<1>2. PICK n \in 1 .. Len(s) :
        /\ s[n] = x /\ \A i \in 1 .. n - 1 : s[i] # x
        /\ split_once(s, x) = <<SubSeq(s, 1, n - 1), SubSeq(s, n + 1, Len(s))>>
  BY <1>1, SplitCases
<1>3. n = k
  <2>1. Len(s) \in Nat
    BY LenProperties
  <2>2. QED  BY <1>2, <2>1
<1>4. QED  BY <1>2, <1>3

\* What is written around a delimiter is what the split finds, if the first
\* text has no delimiter in it.
LEMMA SplitWritten ==
  ASSUME NEW S, NEW c \in Seq(S), NEW x \in S, NEW a \in Seq(S),
         \A i \in 1 .. Len(c) : c[i] # x
  PROVE  split_once(c \o <<x>> \o a, x) = <<c, a>>
<1> DEFINE h == c \o <<x>>
           s == h \o a
           k == Len(c) + 1
<1>1. <<x>> \in Seq(S) /\ Len(<<x>>) = 1 /\ Len(c) \in Nat /\ Len(a) \in Nat
  BY LenProperties
<1>2. h \in Seq(S) /\ Len(h) = k /\ h[k] = x /\ \A i \in 1 .. Len(c) : h[i] = c[i]
  <2>1. /\ h \in Seq(S) /\ Len(h) = Len(c) + Len(<<x>>)
        /\ \A i \in 1 .. Len(c) + Len(<<x>>) :
             h[i] = IF i <= Len(c) THEN c[i] ELSE <<x>>[i - Len(c)]
    BY <1>1, ConcatProperties
  <2>2. QED  BY <1>1, <2>1
<1> HIDE DEF h
<1>3. /\ s \in Seq(S) /\ Len(s) = k + Len(a)
      /\ \A i \in 1 .. k + Len(a) : s[i] = IF i <= k THEN h[i] ELSE a[i - k]
  <2>1. /\ s \in Seq(S) /\ Len(s) = Len(h) + Len(a)
        /\ \A i \in 1 .. Len(h) + Len(a) : s[i] = IF i <= Len(h) THEN h[i] ELSE a[i - Len(h)]
    BY <1>2, ConcatProperties
  <2> HIDE DEF s, k
  <2>2. QED  BY <1>2, <2>1
<1>4. \A i \in 1 .. k + Len(a) : s[i] \in S
  BY <1>3, ElementOfSeq
<1> HIDE DEF s
<1>5. k \in 1 .. Len(s) /\ s[k] = x /\ \A j \in 1 .. k - 1 : s[j] # x
  BY <1>1, <1>2, <1>3
<1>6. split_once(s, x) = <<SubSeq(s, 1, k - 1), SubSeq(s, k + 1, Len(s))>>
  <2> HIDE DEF k
  <2>1. QED  BY <1>3, <1>5, SplitFirst
<1>7. SubSeq(s, 1, k - 1) = c
  <2>1. \A i \in 1 .. k - 1 : s[i] \in S
    BY <1>1, <1>4
  <2>2. /\ SubSeq(s, 1, k - 1) \in Seq(S)
        /\ Len(SubSeq(s, 1, k - 1)) = IF 1 <= k - 1 THEN k - 1 - 1 + 1 ELSE 0
        /\ \A i \in 1 .. k - 1 - 1 + 1 : SubSeq(s, 1, k - 1)[i] = s[1 + i - 1]
    BY <1>1, <2>1, SubSeqProperties
  <2>3. /\ Len(SubSeq(s, 1, k - 1)) = Len(c)
        /\ \A i \in 1 .. Len(c) : SubSeq(s, 1, k - 1)[i] = c[i]
    BY <1>1, <1>2, <1>3, <2>2
  <2>4. QED  BY <2>2, <2>3, SeqEqual
<1>8. SubSeq(s, k + 1, Len(s)) = a
  <2>1. k + 1 \in Int /\ Len(s) \in Int /\ \A i \in k + 1 .. Len(s) : s[i] \in S
    BY <1>1, <1>3, <1>4
  <2>2. /\ SubSeq(s, k + 1, Len(s)) \in Seq(S)
        /\ Len(SubSeq(s, k + 1, Len(s))) = IF k + 1 <= Len(s) THEN Len(s) - (k + 1) + 1 ELSE 0
        /\ \A i \in 1 .. Len(s) - (k + 1) + 1 : SubSeq(s, k + 1, Len(s))[i] = s[k + 1 + i - 1]
    BY <2>1, SubSeqProperties
  <2>3. Len(SubSeq(s, k + 1, Len(s))) = Len(a)
    BY <1>1, <1>3, <2>2
  <2>4. ASSUME NEW i \in 1 .. Len(a) PROVE SubSeq(s, k + 1, Len(s))[i] = a[i]
    <3>1. SubSeq(s, k + 1, Len(s))[i] = s[k + i]
      BY <1>1, <1>3, <2>2
    <3>2. s[k + i] = a[i]
      BY <1>1, <1>3
    <3>3. QED  BY <3>1, <3>2
  <2>5. QED  BY <2>2, <2>3, <2>4, SeqEqual
<1>9. QED  BY <1>6, <1>7, <1>8 DEF s, h

LEMMA SplitType ==
  ASSUME NEW S, NEW s \in Seq(S), NEW x
  PROVE  split_once(s, x)[1] \in Seq(S) /\ split_once(s, x)[2] \in Seq(S)
<1>1. Len(s) \in Nat /\ \A k \in 1 .. Len(s) : s[k] \in S
  BY LenProperties, ElementOfSeq
<1>2. CASE split_once(s, x) = <<s, <<>>>>
  BY <1>2, EmptySeq
<1>3. ASSUME NEW k \in 1 .. Len(s),
             split_once(s, x) = <<SubSeq(s, 1, k - 1), SubSeq(s, k + 1, Len(s))>>
      PROVE  split_once(s, x)[1] \in Seq(S) /\ split_once(s, x)[2] \in Seq(S)
  <2>1. SubSeq(s, 1, k - 1) \in Seq(S)
    BY <1>1, SubSeqProperties
  <2>2. SubSeq(s, k + 1, Len(s)) \in Seq(S)
    BY <1>1, SubSeqProperties
  <2>3. QED  BY <1>3, <2>1, <2>2
<1>4. QED  BY <1>2, <1>3, SplitCases

TokenSet(S) == [command : Seq(S), argument : Seq(S)]

LEMMA TokenType ==
  ASSUME NEW S, NEW line \in Seq(S)
  PROVE  Token(line) \in TokenSet(S) /\ Token(line) # NoToken
<1>1. split_once(line, ":")[1] \in Seq(S) /\ split_once(line, ":")[2] \in Seq(S)
  BY SplitType
<1>2. \A t \in Seq(S) : WithoutBlanks(t) \in Seq(S)
  <2> SUFFICES ASSUME NEW t \in Seq(S) PROVE WithoutBlanks(t) \in Seq(S)
    OBVIOUS
  <2>1. Without(t, {" "}) \in Seq(S \ {" "})
    BY WithoutType
  <2>2. QED  BY <2>1, SeqMonotonic DEF WithoutBlanks
<1>3. Token(line) \in TokenSet(S)
  BY <1>1, <1>2 DEF Token, TokenSet
<1>4. DOMAIN Token(line) = {"command", "argument"} /\ DOMAIN NoToken = {}
  BY EmptySeq DEF Token, NoToken
<1>5. QED  BY <1>3, <1>4

LEMMA TokenizeType ==
  ASSUME NEW S, NEW lines \in Seq(Seq(S))
  PROVE  tokenize(lines) \in Seq(TokenSet(S))
<1> DEFINE E == TokenSet(S) \cup {NoToken}
           read == [i \in DOMAIN lines |->
                      IF Skipped(lines[i]) THEN NoToken ELSE Token(lines[i])]
<1>1. DOMAIN lines = 1 .. Len(lines) /\ Len(lines) \in Nat
  BY LenProperties
<1>2. \A i \in 1 .. Len(lines) :
        (IF Skipped(lines[i]) THEN NoToken ELSE Token(lines[i])) \in E
  BY ElementOfSeq, TokenType
<1>3. read \in Seq(E)
  BY <1>1, <1>2, IsASeq
<1>4. tokenize(lines) = Without(read, {NoToken})
  BY DEF tokenize
<1> HIDE DEF read
<1>5. tokenize(lines) \in Seq(E \ {NoToken})
  BY <1>3, <1>4, WithoutType
<1>6. E \ {NoToken} \subseteq TokenSet(S)
  OBVIOUS
<1> HIDE DEF E
<1>7. QED  BY <1>5, <1>6, SeqMonotonic

\* The rules of a kind are the arguments of the tokens with its command.
LEMMA ArgumentsSet ==
  ASSUME NEW R, NEW tks \in Seq(R), NEW command
  PROVE  ToSet(Arguments(tks, command)) =
           {tks[i].argument : i \in {j \in DOMAIN tks : tks[j].command = command}}
<1> DEFINE D == {tk \in ToSet(tks) : tk.command # command}
           chosen == Without(tks, D)
<1>1. ToSet(chosen) = ToSet(tks) \ D
  BY WithoutSet
<1>2. Arguments(tks, command) = [i \in DOMAIN chosen |-> chosen[i].argument]
  BY DEF Arguments
<1> HIDE DEF chosen
<1>3. ToSet(Arguments(tks, command)) = {x.argument : x \in ToSet(chosen)}
  BY <1>2 DEF ToSet
<1>4. ToSet(tks) \ D = {tks[i] : i \in {j \in DOMAIN tks : tks[j].command = command}}
  BY DEF ToSet
<1>5. QED  BY <1>1, <1>3, <1>4

=============================================================================
