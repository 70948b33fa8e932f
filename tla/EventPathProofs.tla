---------------------------- MODULE EventPathProofs ----------------------------
(***************************************************************************)
(* Proofs about EventPath, for any threads, CPUs, files, paths, slots and  *)
(* policies, with and without preemption of the hooks.                     *)
(***************************************************************************)
EXTENDS EventPath, PolicyProofs

(***************************************************************************)
(* The inductive invariant.  That a saved context is the call's own follows *)
(* from what the scratch context of its CPU holds while the entry hook is  *)
(* between two of its steps, and without preemption from the fact that no  *)
(* two hooks share a CPU.                                                  *)
(***************************************************************************)

OwnCtx(t) == [filepath |-> construct_path[call[t].file], before_size |-> call[t].before]

\* A thread that is not between calls is in one, and a hook has a CPU.
CallOf(t) ==
  /\ at[t] # "idle" => call[t] \in Call
  /\ InHook(t) => cpu[t] \in CPU

\* What the scratch context of thread t holds between two steps of its hook.
ScratchOf(t) ==
  t \notin disturbed =>
    /\ at[t] = "copy" => heap[cpu[t]].before_size = call[t].before
    /\ at[t] = "save" => heap[cpu[t]] = OwnCtx(t)

\* Before the entry hook saves it, and after the return hook, there is no
\* context; once it is saved it is the call's own.
SavedOf(t) ==
  /\ at[t] \in {"idle", "copy", "save"} => LruMap[t] = None
  /\ t \notin disturbed /\ LruMap[t] # None => LruMap[t] = OwnCtx(t)

\* Without preemption a CPU runs one hook to its end, and no hook overwrites
\* what another has not saved.
Alone == \A t, u \in Thread : t # u /\ InHook(t) /\ InHook(u) => cpu[t] # cpu[u]
Undisturbed == ~Preemptible => disturbed = {} /\ Alone

IInv ==
  /\ TypeOK /\ Undisturbed
  /\ \A t \in Thread : CallOf(t) /\ ScratchOf(t) /\ SavedOf(t)

-----------------------------------------------------------------------------
(* Beginnings and ends of a text.                                          *)

LEMMA PrefixIs ==
  ASSUME NEW S, NEW s \in Seq(S), NEW t \in Seq(S)
  PROVE  IsPrefix(s, t) <=> Len(s) <= Len(t) /\ \A i \in 1 .. Len(s) : s[i] = t[i]
<1>1. /\ Len(s) \in Nat /\ Len(t) \in Nat
      /\ \A i \in 1 .. Len(s) : s[i] \in S
      /\ \A i \in 1 .. Len(t) : t[i] \in S
  BY LenProperties, ElementOfSeq
<1>2. ASSUME Len(s) <= Len(t)
      PROVE  SubSeq(s, 1, Len(s)) = SubSeq(t, 1, Len(s)) <=> \A i \in 1 .. Len(s) : s[i] = t[i]
  <2>1. SubSeq(s, 1, Len(s)) = [i \in 1 .. Len(s) |-> s[i]]
    BY <1>1
  <2>2. SubSeq(t, 1, Len(s)) = [i \in 1 .. Len(s) |-> t[i]]
    BY <1>1, <1>2
  <2>3. QED  BY <2>1, <2>2
<1>3. QED  BY <1>2 DEF IsPrefix

LEMMA ReverseIs ==
  ASSUME NEW S, NEW s \in Seq(S)
  PROVE  /\ Reverse(s) \in Seq(S) /\ Len(Reverse(s)) = Len(s)
         /\ \A i \in 1 .. Len(s) : Reverse(s)[i] = s[Len(s) - i + 1]
<1>1. Len(s) \in Nat /\ \A i \in 1 .. Len(s) : s[i] \in S
  BY LenProperties, ElementOfSeq
<1>2. \A i \in 1 .. Len(s) : s[Len(s) - i + 1] \in S
  BY <1>1
<1>3. Reverse(s) = [i \in 1 .. Len(s) |-> s[Len(s) - i + 1]]
  BY DEF Reverse
<1>4. Reverse(s) \in Seq(S)
  BY <1>1, <1>2, <1>3, IsASeq
<1>5. Len(Reverse(s)) = Len(s)
  BY <1>1, <1>3, <1>4, LenProperties
<1>6. QED  BY <1>3, <1>4, <1>5

LEMMA SuffixIs ==
  ASSUME NEW S, NEW s \in Seq(S), NEW t \in Seq(S)
  PROVE  IsSuffix(s, t) <=>
           Len(s) <= Len(t) /\ \A i \in 1 .. Len(s) : t[Len(t) - Len(s) + i] = s[i]
<1> DEFINE m == Len(s)
           n == Len(t)
<1>1. m \in Nat /\ n \in Nat
  BY LenProperties
<1>2. /\ Reverse(s) \in Seq(S) /\ Len(Reverse(s)) = m
      /\ Reverse(t) \in Seq(S) /\ Len(Reverse(t)) = n
      /\ \A i \in 1 .. m : Reverse(s)[i] = s[m - i + 1]
      /\ \A i \in 1 .. n : Reverse(t)[i] = t[n - i + 1]
  BY ReverseIs
<1>3. IsSuffix(s, t) <=> m <= n /\ \A i \in 1 .. m : Reverse(s)[i] = Reverse(t)[i]
  BY <1>2, PrefixIs DEF IsSuffix
<1> HIDE DEF m, n
<1>4. ASSUME m <= n
      PROVE  (\A i \in 1 .. m : Reverse(s)[i] = Reverse(t)[i]) <=>
             (\A i \in 1 .. m : t[n - m + i] = s[i])
  <2>1. \A i \in 1 .. m : Reverse(s)[i] = s[m - i + 1] /\ Reverse(t)[i] = t[n - i + 1]
    BY <1>1, <1>2, <1>4
  <2>2. ASSUME \A i \in 1 .. m : Reverse(s)[i] = Reverse(t)[i], NEW i \in 1 .. m
        PROVE  t[n - m + i] = s[i]
    <3>1. m - i + 1 \in 1 .. m /\ m - (m - i + 1) + 1 = i /\ n - (m - i + 1) + 1 = n - m + i
      BY <1>1
    <3>2. QED  BY <2>1, <2>2, <3>1
  <2>3. ASSUME \A i \in 1 .. m : t[n - m + i] = s[i], NEW i \in 1 .. m
        PROVE  Reverse(s)[i] = Reverse(t)[i]
    <3>1. m - i + 1 \in 1 .. m /\ n - m + (m - i + 1) = n - i + 1
      BY <1>1
    <3>2. QED  BY <2>1, <2>3, <3>1
  <2>4. QED  BY <2>2, <2>3
<1>5. QED  BY <1>3, <1>4 DEF m, n

\* The extension begins after the last dot, if there is one.
LEMMA ExtensionCases ==
  ASSUME NEW name \in Text
  PROVE  \/ /\ \A i \in 1 .. Len(name) : name[i] # "."
            /\ Extension(name) = <<>>
         \/ \E k \in 1 .. Len(name) :
              /\ name[k] = "." /\ \A i \in k + 1 .. Len(name) : name[i] # "."
              /\ Extension(name) = SubSeq(name, k + 1, Len(name))
<1> DEFINE I == {i \in 1 .. Len(name) : name[i] = "."}
           pos == IF I # {} THEN Max(I) ELSE 0
<1>1. Extension(name) = IF pos = 0 THEN <<>> ELSE SubSeq(name, pos + 1, Len(name))
  BY DEF Extension, SelectLastInSeq
<1>2. Len(name) \in Nat
  BY LenProperties DEF Text
<1>3. CASE I = {}
  BY <1>1, <1>3
<1>4. CASE I # {}
  <2>1. \E i \in I : \A j \in I : i >= j
    <3> DEFINE T == {Len(name) - i : i \in I}
    <3>1. T \subseteq Nat /\ T # {}
      BY <1>2, <1>4
    <3>2. PICK n \in T : \A m \in T : n <= m
      <4> HIDE DEF T
      <4>1. QED  BY <3>1, LeastNat
    <3>3. PICK i \in I : n = Len(name) - i
      BY <3>2
    <3>4. ASSUME NEW j \in I PROVE i >= j
      <4>1. Len(name) - j \in T
        OBVIOUS
      <4>2. i \in Nat /\ j \in Nat
        BY <1>2
      <4> HIDE DEF T, I
      <4>3. Len(name) - i <= Len(name) - j
        BY <3>2, <3>3, <4>1
      <4>4. QED  BY <1>2, <4>2, <4>3
    <3>5. QED  BY <3>4
  <2>2. pos \in I /\ \A j \in I : pos >= j
    <3>1. Max(I) \in I /\ \A j \in I : Max(I) >= j
      BY <2>1 DEF Max
    <3>2. QED  BY <1>4, <3>1
  <2> HIDE DEF pos
  <2>3. pos \in 1 .. Len(name) /\ name[pos] = "." /\ pos # 0
    BY <1>2, <2>2
  <2>4. ASSUME NEW i \in pos + 1 .. Len(name) PROVE name[i] # "."
    <3>1. i \in 1 .. Len(name) /\ ~(pos >= i)
      BY <1>2, <2>3
    <3>2. QED  BY <2>2, <3>1
  <2>5. QED  BY <1>1, <2>3, <2>4
<1>5. QED  BY <1>3, <1>4

\* An extension that is not empty is the end of the name without a dot that
\* stands behind a dot.
LEMMA ExtensionIs ==
  ASSUME NEW name \in Text, NEW ext \in Text, ext # <<>>
  PROVE  Extension(name) = ext <=> ~Contains(ext, ".") /\ IsSuffix(<<".">> \o ext, name)
<1> DEFINE n == Len(name)
           m == Len(ext)
<1>1. /\ name \in Seq(STRING) /\ ext \in Seq(STRING) /\ n \in Nat /\ m \in Nat \ {0}
  BY LenProperties, EmptySeq DEF Text
<1> HIDE DEF n, m
<1>2. IsSuffix(<<".">> \o ext, name) <=>
        m + 1 <= n /\ name[n - m] = "." /\ \A j \in 1 .. m : name[n - m + j] = ext[j]
  <2> DEFINE S == STRING \cup {"."}
             d == <<".">> \o ext
  <2>1. <<".">> \in Seq(S) /\ Len(<<".">>) = 1 /\ <<".">>[1] = "."
    OBVIOUS
  <2>2. ext \in Seq(S) /\ name \in Seq(S)
    BY <1>1, SeqMonotonic
  <2>3. /\ d \in Seq(S) /\ Len(d) = m + 1 /\ d[1] = "."
        /\ \A j \in 1 .. m : d[j + 1] = ext[j]
    <3>1. d \in Seq(S) /\ Len(d) = 1 + m
      BY <2>1, <2>2, ConcatProperties DEF m
    <3>2. \A i \in 1 .. 1 + m : d[i] = IF i <= 1 THEN <<".">>[i] ELSE ext[i - 1]
      BY <2>1, <2>2, ConcatProperties DEF m
    <3>3. 1 \in 1 .. 1 + m /\ \A j \in 1 .. m : j + 1 \in 1 .. 1 + m /\ ~(j + 1 <= 1) /\ (j + 1) - 1 = j
      BY <1>1
    <3> HIDE DEF d
    <3>4. d[1] = "."
      BY <2>1, <3>2, <3>3
    <3>5. \A j \in 1 .. m : d[j + 1] = ext[j]
      BY <3>2, <3>3
    <3>6. QED  BY <1>1, <3>1, <3>4, <3>5
  <2> HIDE DEF d
  <2>4. IsSuffix(d, name) <=> m + 1 <= n /\ \A i \in 1 .. m + 1 : name[n - (m + 1) + i] = d[i]
    <3>1. IsSuffix(d, name) <=>
            Len(d) <= Len(name) /\ \A i \in 1 .. Len(d) : name[Len(name) - Len(d) + i] = d[i]
      BY <2>2, <2>3, SuffixIs
    <3>2. QED  BY <2>3, <3>1 DEF n
  <2>5. ASSUME \A i \in 1 .. m + 1 : name[n - (m + 1) + i] = d[i]
        PROVE  name[n - m] = "." /\ \A j \in 1 .. m : name[n - m + j] = ext[j]
    <3>1. 1 \in 1 .. m + 1 /\ n - (m + 1) + 1 = n - m
      BY <1>1
    <3>2. \A j \in 1 .. m : j + 1 \in 1 .. m + 1 /\ n - (m + 1) + (j + 1) = n - m + j
      BY <1>1
    <3>3. QED  BY <2>3, <2>5, <3>1, <3>2
  <2>6. ASSUME name[n - m] = ".", \A j \in 1 .. m : name[n - m + j] = ext[j], NEW i \in 1 .. m + 1
        PROVE  name[n - (m + 1) + i] = d[i]
    <3>1. CASE i = 1
      <4>1. n - (m + 1) + i = n - m
        BY <1>1, <3>1
      <4>2. QED  BY <2>3, <2>6, <3>1, <4>1
    <3>2. CASE i # 1
      <4>1. i - 1 \in 1 .. m /\ (i - 1) + 1 = i /\ n - (m + 1) + i = n - m + (i - 1)
        BY <1>1, <3>2
      <4>2. QED  BY <2>3, <2>6, <4>1
    <3>3. QED  BY <3>1, <3>2
  <2>7. QED  BY <2>4, <2>5, <2>6 DEF d
<1>3. \A k \in 1 .. n : /\ SubSeq(name, k + 1, n) \in Seq(STRING) /\ Len(SubSeq(name, k + 1, n)) = n - k
                        /\ \A j \in 1 .. n - k : SubSeq(name, k + 1, n)[j] = name[k + j]
  <2> SUFFICES ASSUME NEW k \in 1 .. n
               PROVE  /\ SubSeq(name, k + 1, n) \in Seq(STRING) /\ Len(SubSeq(name, k + 1, n)) = n - k
                      /\ \A j \in 1 .. n - k : SubSeq(name, k + 1, n)[j] = name[k + j]
    OBVIOUS
  <2>1. \A i \in k + 1 .. n : name[i] \in STRING
    <3>1. \A i \in k + 1 .. n : i \in 1 .. Len(name)
      BY <1>1 DEF n
    <3>2. QED  BY <1>1, <3>1, ElementOfSeq
  <2>2. k + 1 \in Int /\ n \in Int
    BY <1>1
  <2>3. /\ SubSeq(name, k + 1, n) \in Seq(STRING)
        /\ Len(SubSeq(name, k + 1, n)) = IF k + 1 <= n THEN n - (k + 1) + 1 ELSE 0
        /\ \A j \in 1 .. n - (k + 1) + 1 : SubSeq(name, k + 1, n)[j] = name[(k + 1) + j - 1]
    BY <2>1, <2>2, SubSeqProperties
  <2>4. /\ n - (k + 1) + 1 = n - k /\ (k + 1 <= n \/ n - k = 0)
        /\ \A j \in 1 .. n - k : (k + 1) + j - 1 = k + j
    BY <1>1
  <2>5. QED  BY <2>3, <2>4
<1>4. ASSUME Extension(name) = ext
      PROVE  ~Contains(ext, ".") /\ IsSuffix(<<".">> \o ext, name)
  <2>1. PICK k \in 1 .. n : /\ name[k] = "." /\ \A i \in k + 1 .. n : name[i] # "."
                            /\ ext = SubSeq(name, k + 1, n)
    BY <1>4, ExtensionCases DEF n
  <2>2. m = n - k /\ \A j \in 1 .. n - k : ext[j] = name[k + j]
    BY <1>3, <2>1 DEF m
  <2>3. n - m = k /\ m + 1 <= n /\ \A j \in 1 .. m : k + j \in k + 1 .. n
    BY <1>1, <2>1, <2>2
  <2>4. IsSuffix(<<".">> \o ext, name)
    BY <1>2, <2>1, <2>2, <2>3
  <2>5. \A j \in 1 .. m : ext[j] # "."
    BY <2>1, <2>2, <2>3
  <2>6. QED  BY <2>4, <2>5 DEF Contains, m
<1>5. ASSUME ~Contains(ext, "."), IsSuffix(<<".">> \o ext, name)
      PROVE  Extension(name) = ext
  <2>1. m + 1 <= n /\ name[n - m] = "." /\ \A j \in 1 .. m : name[n - m + j] = ext[j]
    BY <1>2, <1>5
  <2>2. \A j \in 1 .. m : ext[j] # "."
    BY <1>5 DEF Contains, m
  <2>3. n - m \in 1 .. n
    BY <1>1, <2>1
  <2>4. \A i \in n - m + 1 .. n : name[i] # "."
    <3>1. \A i \in n - m + 1 .. n : i - (n - m) \in 1 .. m /\ n - m + (i - (n - m)) = i
      BY <1>1
    <3>2. QED  BY <2>1, <2>2, <3>1
  <2>5. PICK k \in 1 .. n : /\ name[k] = "." /\ \A i \in k + 1 .. n : name[i] # "."
                            /\ Extension(name) = SubSeq(name, k + 1, n)
    BY <2>1, <2>3, ExtensionCases DEF n
  <2>6. k = n - m
    BY <1>1, <2>1, <2>3, <2>4, <2>5
  <2>7. n - k = m
    BY <1>1, <2>6
  <2>8. \A j \in 1 .. m : SubSeq(name, k + 1, n)[j] = ext[j]
    BY <1>3, <2>1, <2>6, <2>7
  <2>9. SubSeq(name, k + 1, n) \in Seq(STRING) /\ Len(SubSeq(name, k + 1, n)) = m
    BY <1>3, <2>7
  <2>10. QED  BY <1>1, <2>5, <2>8, <2>9, SeqEqual DEF m
<1>6. QED  BY <1>4, <1>5

-----------------------------------------------------------------------------
(* Paths and records.                                                      *)

\* A name in its slot keeps its first characters, all of them if they fit.
LEMMA CutIs ==
  ASSUME NEW name \in Name
  PROVE  /\ Cut(name) \in Name /\ IsPrefix(Cut(name), name)
         /\ Len(name) < PER_LEVEL => Cut(name) = name
<1> DEFINE n == IF Len(name) < PER_LEVEL THEN Len(name) ELSE PER_LEVEL - 1
<1>1. /\ name \in Seq(STRING) /\ Len(name) \in Nat \ {0} /\ PER_LEVEL \in Nat \ {0, 1}
  BY LenProperties, EmptySeq, EventPathAssumption DEF Name, Text
<1>2. n \in 1 .. Len(name)
  BY <1>1
<1>3. Cut(name) = SubSeq(name, 1, n)
  BY DEF Cut
<1> HIDE DEF n
<1>4. /\ Cut(name) \in Seq(STRING) /\ Len(Cut(name)) = n
      /\ \A i \in 1 .. n : Cut(name)[i] = name[i]
  <2>1. n - 1 + 1 = n /\ 1 <= n + 1 /\ n <= Len(name)
    BY <1>1, <1>2
  <2>2. \A i \in 1 .. n : name[i] \in STRING
    BY <1>1, <1>2, ElementOfSeq
  <2>3. QED  BY <1>1, <1>2, <1>3, <2>1, <2>2, SubSeqProperties
<1>5. Cut(name) \in Name
  BY <1>1, <1>2, <1>4, EmptySeq DEF Name, Text
<1>6. IsPrefix(Cut(name), name)
  BY <1>1, <1>2, <1>4, PrefixIs
<1>7. ASSUME Len(name) < PER_LEVEL PROVE Cut(name) = name
  <2>1. n = Len(name)
    BY <1>7 DEF n
  <2>2. QED  BY <1>1, <1>4, <2>1, SeqEqual
<1>8. QED  BY <1>5, <1>6, <1>7

LEMMA PathType == construct_path \in [File -> Layout]
<1>1. SUFFICES ASSUME NEW f \in File PROVE construct_path[f] \in Seq(Name)
  BY DEF construct_path, Layout
<1>2. PathOf[f] \in Seq(Name) /\ Len(PathOf[f]) \in Nat /\ MAX_DEPTH \in Nat
  BY EventPathAssumption, LenProperties
<1> DEFINE n == IF Len(PathOf[f]) < MAX_DEPTH THEN Len(PathOf[f]) ELSE MAX_DEPTH
<1>3. n \in Nat /\ n <= Len(PathOf[f])
  BY <1>2
<1>4. \A i \in 1 .. n : PathOf[f][i] \in Name
  BY <1>2, <1>3, ElementOfSeq
<1>5. \A i \in 1 .. n : Cut(PathOf[f][i]) \in Name
  BY <1>4, CutIs
<1>6. construct_path[f] = [i \in 1 .. n |-> Cut(PathOf[f][i])]
  BY DEF construct_path
<1> HIDE DEF n
<1>7. QED  BY <1>3, <1>5, <1>6, IsASeq

\* A record that does not fit is dropped: the ring never overflows.
LEMMA ReserveType ==
  ASSUME rb \in Seq(Record), Len(rb) <= RingMax, NEW t \in Thread, NEW c \in Call,
         NEW e \in EVENT, NEW b \in BOOLEAN, Reserve(t, c, e, b)
  PROVE  rb' \in Seq(Record) /\ Len(rb') <= RingMax
<1> DEFINE r == [event |-> e, by |-> t, busy |-> b, of |-> c,
                 clean |-> e.change_type \in {"CREATE", "WRITE_INTENT"} \/ t \notin disturbed]
<1>1. r \in Record
  BY DEF Record
<1>2. Len(rb) \in Nat /\ RingMax \in Nat
  BY LenProperties, EventPathAssumption
<1>3. Append(rb, r) \in Seq(Record) /\ Len(Append(rb, r)) = Len(rb) + 1
  BY <1>1, AppendProperties
<1>4. rb' = IF RingHasRoom THEN Append(rb, r) ELSE rb
  BY DEF Reserve
<1> HIDE DEF r
<1>5. QED  BY <1>2, <1>3, <1>4 DEF RingHasRoom

\* Filling the scratch context of CPU c disturbs exactly the hooks of other
\* threads there that have not saved theirs.
LEMMA FillType ==
  ASSUME TypeOK, NEW t \in Thread, NEW c \in CPU, NEW ctx \in Ctx, Fill(t, c, ctx)
  PROVE  /\ heap' \in [CPU -> Ctx] /\ disturbed' \in SUBSET Thread
         /\ heap'[c] = ctx /\ \A d \in CPU \ {c} : heap'[d] = heap[d]
         /\ \A u \in Thread \ {t} :
              u \in disturbed' <=> u \in disturbed \/ (at[u] \in {"copy", "save"} /\ cpu[u] = c)
         /\ t \in disturbed' <=> t \in disturbed /\ at[t] # "idle"
BY DEF Fill, Scratch, TypeOK

LEMMA CallType ==
  ASSUME TypeOK, NEW op \in Op, NEW f \in File
  PROVE  /\ NewCall(op, f) \in Call /\ NewCall(op, f).file = f
         /\ NewCall(op, f).before = size[f] /\ size[f] \in Int
<1>1. size[f] \in Int
  BY EventPathAssumption DEF TypeOK
<1>2. QED  BY <1>1 DEF NewCall, Call

-----------------------------------------------------------------------------
(* The policy and the payload.                                             *)

LEMMA RulesType ==
  ASSUME NEW tks \in TokenLists, NEW command
  PROVE  Arguments(tks, command) \in Seq(Text)
<1> DEFINE R == [command : Text, argument : Text]
           D == {tk \in ToSet(tks) : tk.command # command}
           chosen == Without(tks, D)
<1>1. tks \in Seq(R)
  BY EventPathAssumption
<1>2. chosen \in Seq(R)
  <2>1. chosen \in Seq(R \ D)
    BY <1>1, WithoutType
  <2> HIDE DEF chosen, R, D
  <2>2. QED  BY <2>1, SeqMonotonic
<1>3. Arguments(tks, command) = [i \in DOMAIN chosen |-> chosen[i].argument]
  BY DEF Arguments
<1> HIDE DEF chosen
<1>4. DOMAIN chosen = 1 .. Len(chosen) /\ Len(chosen) \in Nat
  BY <1>2, LenProperties
<1>5. \A i \in 1 .. Len(chosen) : chosen[i].argument \in Text
  <2>1. \A i \in 1 .. Len(chosen) : chosen[i] \in R
    BY <1>2, ElementOfSeq
  <2>2. QED  BY <2>1
<1>6. QED  BY <1>3, <1>4, <1>5, IsASeq

LEMMA HeadersType ==
  ASSUME tokens \in TokenLists
  PROVE  headers \in SUBSET (Text \X Text)
<1> DEFINE a == Arguments(tokens, <<"API_HEADER">>)
<1>1. a \in Seq(Text)
  BY RulesType
<1>2. DOMAIN a = 1 .. Len(a)
  BY <1>1, LenProperties
<1>3. \A i \in DOMAIN a : split_once(a[i], "=") \in Text \X Text
  <2> SUFFICES ASSUME NEW i \in DOMAIN a PROVE split_once(a[i], "=") \in Text \X Text
    OBVIOUS
  <2>1. a[i] \in Text
    BY <1>1, <1>2, ElementOfSeq
  <2>2. split_once(a[i], "=")[1] \in Text /\ split_once(a[i], "=")[2] \in Text
    BY <2>1, SplitType DEF Text
  <2>3. \E x, y : split_once(a[i], "=") = <<x, y>>
    BY DEF split_once
  <2>4. QED  BY <2>2, <2>3
<1>4. api_header(tokens) = [i \in DOMAIN a |-> split_once(a[i], "=")]
  BY DEF api_header
<1> HIDE DEF a
<1>5. QED  BY <1>3, <1>4 DEF headers

\* The path of a payload is the layout of its event backwards, and nothing is
\* skipped: a name that was cut still has a character.
LEMMA PathconstructionIs ==
  ASSUME NEW e \in EVENT
  PROVE  pathconstruction(e) = Reverse(e.filepath) /\ pathconstruction(e) \in Layout
<1>1. e.filepath \in Seq(Name)
  BY DEF EVENT, Layout
<1>2. Reverse(e.filepath) \in Seq(Name)
  BY <1>1, ReverseIs
<1>3. Name \cap {<<>>} = {}
  BY DEF Name
<1>4. QED  BY <1>2, <1>3, WithoutAll DEF pathconstruction, Layout

LEMMA RequestType ==
  ASSUME tokens \in TokenLists, NEW r \in Record
  PROVE  [payload |-> Process(r.event), headers |-> headers, of |-> r.of, clean |-> r.clean]
           \in Request
<1>1. r.event \in EVENT /\ r.of \in Call /\ r.clean \in BOOLEAN
  BY DEF Record
<1>2. changeType(r.event) \in {<<"CREATE">>, <<"DELETE">>, <<"WRITE_INTENT">>} \cup ({"MODIFY"} \X Int)
  BY <1>1 DEF changeType, EVENT
<1>3. Process(r.event) \in Payload
  BY <1>1, <1>2, PathconstructionIs DEF Process, Payload, EVENT
<1>4. QED  BY <1>1, <1>3, HeadersType DEF Request

-----------------------------------------------------------------------------
(* The steps.                                                              *)

\* A step of thread t that leaves the places, calls and contexts of the other
\* threads alone, and the scratch contexts too unless t may run on the CPU
\* whose context it fills, keeps what the invariant says of the others.
LEMMA OthersKeep ==
  ASSUME IInv, NEW t \in Thread,
         \A u \in Thread \ {t} :
           at'[u] = at[u] /\ call'[u] = call[u] /\ cpu'[u] = cpu[u] /\ LruMap'[u] = LruMap[u],
         \/ UNCHANGED <<heap, disturbed>>
         \/ \E c \in CPU, ctx \in Ctx : CanRun(t, c) /\ Fill(t, c, ctx),
         InHook(t)' => \/ InHook(t) /\ cpu'[t] = cpu[t]
                       \/ CanRun(t, cpu'[t])
  PROVE  /\ \A u \in Thread \ {t} : CallOf(u)' /\ ScratchOf(u)' /\ SavedOf(u)'
         /\ Undisturbed'
         /\ heap' \in [CPU -> Ctx] /\ disturbed' \in SUBSET Thread
<1>1. \/ heap' = heap /\ disturbed' = disturbed
      \/ \E c \in CPU, ctx \in Ctx : CanRun(t, c) /\ Fill(t, c, ctx)
  OBVIOUS
<1>2. /\ heap' \in [CPU -> Ctx] /\ disturbed' \in SUBSET Thread
      /\ \A u \in Thread \ {t} : u \notin disturbed' => u \notin disturbed
      /\ \A u \in Thread \ {t} :
           u \notin disturbed' /\ at[u] \in {"copy", "save"} => heap'[cpu[u]] = heap[cpu[u]]
  <2>1. CASE heap' = heap /\ disturbed' = disturbed
    BY <2>1 DEF IInv, TypeOK
  <2>2. ASSUME NEW c \in CPU, NEW ctx \in Ctx, CanRun(t, c), Fill(t, c, ctx)
        PROVE  /\ heap' \in [CPU -> Ctx] /\ disturbed' \in SUBSET Thread
               /\ \A u \in Thread \ {t} : u \notin disturbed' => u \notin disturbed
               /\ \A u \in Thread \ {t} :
                    u \notin disturbed' /\ at[u] \in {"copy", "save"} => heap'[cpu[u]] = heap[cpu[u]]
    <3>1. \A u \in Thread : at[u] \in {"copy", "save"} => cpu[u] \in CPU
      BY DEF IInv, CallOf, InHook
    <3>2. QED  BY <2>2, <3>1, FillType DEF IInv
  <2>3. QED  BY <1>1, <2>1, <2>2
<1>3. ASSUME NEW u \in Thread \ {t} PROVE CallOf(u)' /\ ScratchOf(u)' /\ SavedOf(u)'
  <2>1. CallOf(u) /\ ScratchOf(u) /\ SavedOf(u)
    BY DEF IInv
  <2>2. CallOf(u)' /\ SavedOf(u)'
    BY <1>2, <2>1 DEF CallOf, SavedOf, OwnCtx, InHook
  <2>3. ScratchOf(u)'
    BY <1>2, <2>1 DEF ScratchOf, OwnCtx
  <2>4. QED  BY <2>2, <2>3
<1>4. ASSUME ~Preemptible PROVE disturbed' = {} /\ Alone'
  <2>1. disturbed = {} /\ Alone
    BY <1>4 DEF IInv, Undisturbed
  <2>2. \A c \in CPU : CanRun(t, c) => \A u \in Thread \ {t} : InHook(u) => cpu[u] # c
    BY <1>4 DEF CanRun
  <2>3. disturbed' = {}
    <3>1. ASSUME NEW c \in CPU, NEW ctx \in Ctx, CanRun(t, c), Fill(t, c, ctx)
          PROVE  disturbed' = {}
      BY <2>1, <2>2, <3>1 DEF Fill, InHook
    <3>2. QED  BY <1>1, <2>1, <3>1
  <2>4. ASSUME NEW u \in Thread \ {t}, InHook(t)', InHook(u)' PROVE cpu'[t] # cpu'[u]
    <3>1. InHook(u) /\ cpu'[u] = cpu[u]
      BY <2>4 DEF InHook
    <3>2. CASE InHook(t) /\ cpu'[t] = cpu[t]
      BY <2>1, <3>1, <3>2 DEF Alone
    <3>3. CASE CanRun(t, cpu'[t])
      BY <1>4, <3>1, <3>3 DEF CanRun
    <3>4. QED  BY <2>4, <3>2, <3>3
  <2>5. ASSUME NEW u \in Thread \ {t}, NEW v \in Thread \ {t}, u # v, InHook(u)', InHook(v)'
        PROVE  cpu'[u] # cpu'[v]
    BY <2>1, <2>5 DEF Alone, InHook
  <2>6. Alone'
    BY <2>4, <2>5 DEF Alone
  <2>7. QED  BY <2>3, <2>6
<1>5. QED  BY <1>2, <1>3, <1>4 DEF Undisturbed

LEMMA CreateStep ==
  ASSUME IInv, NEW t \in Thread, NEW f \in File, NEW c \in CPU, lsm_inode_create(t, f, c)
  PROVE  IInv'
<1> DEFINE e == Ev("CREATE", construct_path[f], 0, 0, 0)
<1>1. e \in EVENT
  BY PathType DEF Ev, EVENT
<1>2. NewCall("create", f) \in Call
  BY CallType DEF IInv, Op
<1>3. rb' \in Seq(Record) /\ Len(rb') <= RingMax
  BY <1>1, <1>2, ReserveType DEF lsm_inode_create, IInv, TypeOK
<1>4. /\ UNCHANGED <<at, call, cpu, size, heap, LruMap, disturbed, tokens, request>>
      /\ calls' \in 0 .. MaxCalls
  BY EventPathAssumption DEF lsm_inode_create, Begin, IInv, TypeOK
<1>5. QED
  BY <1>3, <1>4 DEF IInv, TypeOK, Undisturbed, Alone, CallOf, ScratchOf, SavedOf, OwnCtx, InHook

LEMMA UnlinkStep ==
  ASSUME IInv, NEW t \in Thread, NEW f \in File, NEW c \in CPU, fentry_vfs_unlink(t, f, c)
  PROVE  IInv'
<1> DEFINE n   == NewCall("unlink", f)
           ctx == [filepath |-> construct_path[f], before_size |-> size[f]]
<1>1. n \in Call /\ n.file = f /\ n.before = size[f] /\ size[f] \in Int
  BY CallType DEF IInv, Op
<1>2. ctx \in Ctx
  BY <1>1, PathType DEF Ctx
<1> HIDE DEF n
<1>3. /\ call' = [call EXCEPT ![t] = n] /\ LruMap' = [LruMap EXCEPT ![t] = ctx]
      /\ at' = [at EXCEPT ![t] = "call"] /\ UNCHANGED <<cpu, size, rb, tokens, request>>
      /\ CanRun(t, c) /\ Fill(t, c, ctx) /\ calls' \in 0 .. MaxCalls
  BY EventPathAssumption DEF fentry_vfs_unlink, Begin, IInv, TypeOK, n
<1>4. TypeOK /\ ctx.filepath = construct_path[f] /\ ctx.before_size = size[f]
  BY DEF IInv
<1> HIDE DEF ctx
<1>5. /\ at'[t] = "call" /\ call'[t] = n /\ LruMap'[t] = ctx
      /\ \A u \in Thread \ {t} :
           at'[u] = at[u] /\ call'[u] = call[u] /\ cpu'[u] = cpu[u] /\ LruMap'[u] = LruMap[u]
  BY <1>3, <1>4 DEF TypeOK
<1>6. /\ \A u \in Thread \ {t} : CallOf(u)' /\ ScratchOf(u)' /\ SavedOf(u)'
      /\ Undisturbed'
      /\ heap' \in [CPU -> Ctx] /\ disturbed' \in SUBSET Thread
  BY <1>2, <1>3, <1>5, OthersKeep DEF InHook
<1>7. TypeOK'
  BY <1>1, <1>2, <1>3, <1>4, <1>6 DEF TypeOK
<1>8. CallOf(t)' /\ ScratchOf(t)' /\ SavedOf(t)'
  BY <1>1, <1>5 DEF CallOf, ScratchOf, SavedOf, OwnCtx, InHook, ctx
<1>9. QED  BY <1>6, <1>7, <1>8 DEF IInv

LEMMA PermissionStep ==
  ASSUME IInv, NEW t \in Thread, NEW f \in File, NEW c \in CPU, NEW op \in {"write", "writev"},
         fim_file_permission(t, op, f, c)
  PROVE  IInv'
<1> DEFINE n   == NewCall(op, f)
           e   == Ev("WRITE_INTENT", construct_path[f], size[f], -1, 0)
           ctx == [Blank EXCEPT !.before_size = size[f]]
<1>1. n \in Call /\ n.file = f /\ n.before = size[f] /\ size[f] \in Int
  BY CallType DEF IInv, Op
<1>2. e \in EVENT
  BY <1>1, PathType DEF Ev, EVENT
<1>3. ctx \in Ctx /\ ctx.before_size = size[f]
  <2>1. Blank \in Ctx
    BY EmptySeq DEF Blank, Ctx, Layout
  <2>2. QED  BY <1>1, <2>1 DEF Ctx
<1>4. rb' \in Seq(Record) /\ Len(rb') <= RingMax
  BY <1>1, <1>2, ReserveType DEF fim_file_permission, IInv, TypeOK
<1> HIDE DEF n, ctx
<1>5. /\ call' = [call EXCEPT ![t] = n] /\ UNCHANGED <<LruMap, size, tokens, request>> /\ at[t] = "idle"
      /\ CanRun(t, c) /\ calls' \in 0 .. MaxCalls
      /\ \/ /\ Fill(t, c, ctx) /\ at' = [at EXCEPT ![t] = "copy"] /\ cpu' = [cpu EXCEPT ![t] = c]
         \/ /\ at' = [at EXCEPT ![t] = "call"] /\ UNCHANGED <<cpu, heap, disturbed>>
  BY EventPathAssumption DEF fim_file_permission, Begin, IInv, TypeOK, n, ctx
<1>6. TypeOK /\ LruMap[t] = None
  BY <1>5 DEF IInv, SavedOf
<1>7. /\ at'[t] \in {"copy", "call"} /\ call'[t] = n /\ LruMap'[t] = None
      /\ at'[t] = "copy" => cpu'[t] = c /\ Fill(t, c, ctx)
      /\ \A u \in Thread \ {t} :
           at'[u] = at[u] /\ call'[u] = call[u] /\ cpu'[u] = cpu[u] /\ LruMap'[u] = LruMap[u]
  BY <1>5, <1>6 DEF TypeOK
<1>8. /\ \A u \in Thread \ {t} : CallOf(u)' /\ ScratchOf(u)' /\ SavedOf(u)'
      /\ Undisturbed'
      /\ heap' \in [CPU -> Ctx] /\ disturbed' \in SUBSET Thread
  BY <1>3, <1>5, <1>7, OthersKeep DEF InHook
<1>9. TypeOK'
  BY <1>1, <1>4, <1>5, <1>6, <1>8 DEF TypeOK
<1>10. at'[t] = "copy" => heap'[c] = ctx
  BY <1>3, <1>6, <1>7, FillType
<1>11. CallOf(t)' /\ ScratchOf(t)' /\ SavedOf(t)'
  BY <1>1, <1>3, <1>7, <1>10 DEF CallOf, ScratchOf, SavedOf, InHook
<1>12. QED  BY <1>8, <1>9, <1>11 DEF IInv

LEMMA CopyStep ==
  ASSUME IInv, NEW t \in Thread, copy_path(t)
  PROVE  IInv'
<1> DEFINE c   == cpu[t]
           ctx == [heap[c] EXCEPT !.filepath = construct_path[call[t].file]]
<1>1. at[t] = "copy" /\ TypeOK /\ call[t] \in Call /\ c \in CPU /\ LruMap[t] = None
  BY DEF copy_path, IInv, CallOf, SavedOf, InHook
<1>2. heap[c] \in Ctx /\ call[t].file \in File
  BY <1>1 DEF TypeOK, Call
<1>3. ctx \in Ctx
  BY <1>2, PathType DEF Ctx
<1>4. t \notin disturbed => ctx = OwnCtx(t)
  BY <1>1, <1>2 DEF IInv, ScratchOf, OwnCtx, Ctx
<1> HIDE DEF ctx
<1>5. /\ CanRun(t, c) /\ Fill(t, c, ctx) /\ at' = [at EXCEPT ![t] = "save"]
      /\ UNCHANGED <<call, cpu, size, LruMap, rb, tokens, request, calls>>
  BY DEF copy_path, Scratch, ctx
<1>6. /\ \A u \in Thread \ {t} : CallOf(u)' /\ ScratchOf(u)' /\ SavedOf(u)'
      /\ Undisturbed'
      /\ heap' \in [CPU -> Ctx] /\ disturbed' \in SUBSET Thread
  BY <1>1, <1>3, <1>5, OthersKeep DEF InHook, TypeOK
<1>7. TypeOK'
  BY <1>1, <1>5, <1>6 DEF TypeOK
<1>8. at'[t] = "save" /\ heap'[c] = ctx /\ (t \in disturbed' <=> t \in disturbed)
  BY <1>1, <1>3, <1>5, FillType DEF TypeOK
<1>9. CallOf(t)' /\ ScratchOf(t)' /\ SavedOf(t)'
  BY <1>1, <1>4, <1>5, <1>8 DEF CallOf, ScratchOf, SavedOf, OwnCtx, InHook
<1>10. QED  BY <1>6, <1>7, <1>9 DEF IInv

LEMMA SaveStep ==
  ASSUME IInv, NEW t \in Thread, save_ctx(t)
  PROVE  IInv'
<1>1. at[t] = "save" /\ TypeOK /\ call[t] \in Call /\ cpu[t] \in CPU
  BY DEF save_ctx, IInv, CallOf, InHook
<1>2. /\ LruMap' = [LruMap EXCEPT ![t] = heap[cpu[t]]] /\ at' = [at EXCEPT ![t] = "submit"]
      /\ UNCHANGED <<call, cpu, size, heap, rb, tokens, request, disturbed, calls>>
  BY DEF save_ctx, Scratch
<1>3. heap[cpu[t]] \in Ctx /\ (t \notin disturbed => heap[cpu[t]] = OwnCtx(t))
  BY <1>1 DEF TypeOK, IInv, ScratchOf
<1>4. /\ \A u \in Thread \ {t} : CallOf(u)' /\ ScratchOf(u)' /\ SavedOf(u)'
      /\ Undisturbed'
      /\ heap' \in [CPU -> Ctx] /\ disturbed' \in SUBSET Thread
  BY <1>1, <1>2, OthersKeep DEF InHook, TypeOK
<1>5. TypeOK'
  BY <1>1, <1>2, <1>3 DEF TypeOK
<1>6. at'[t] = "submit" /\ LruMap'[t] = heap[cpu[t]]
  BY <1>1, <1>2 DEF TypeOK
<1>7. CallOf(t)' /\ ScratchOf(t)' /\ SavedOf(t)'
  BY <1>1, <1>2, <1>3, <1>6 DEF CallOf, ScratchOf, SavedOf, OwnCtx, InHook
<1>8. QED  BY <1>4, <1>5, <1>7 DEF IInv

LEMMA SubmitStep ==
  ASSUME IInv, NEW t \in Thread, submit_intent(t)
  PROVE  IInv'
<1>1. at[t] = "submit" /\ TypeOK /\ call[t] \in Call /\ SavedOf(t)
  BY DEF submit_intent, IInv, CallOf
<1>2. /\ at' = [at EXCEPT ![t] = "call"] /\ cpu' = [cpu EXCEPT ![t] = None]
      /\ UNCHANGED <<call, size, heap, LruMap, tokens, request, disturbed, calls>>
  BY DEF submit_intent
<1>3. rb' \in Seq(Record) /\ Len(rb') <= RingMax
  <2> DEFINE mark(i) == IF rb[i].by = t THEN [rb[i] EXCEPT !.busy = FALSE] ELSE rb[i]
  <2>1. rb \in Seq(Record) /\ DOMAIN rb = 1 .. Len(rb) /\ Len(rb) \in Nat /\ Len(rb) <= RingMax
    BY <1>1, LenProperties DEF TypeOK
  <2>2. \A i \in 1 .. Len(rb) : rb[i] \in Record
    BY <2>1, ElementOfSeq
  <2>3. \A i \in 1 .. Len(rb) : mark(i) \in Record
    BY <2>2 DEF Record
  <2>4. rb' = [i \in 1 .. Len(rb) |-> mark(i)]
    BY <2>1 DEF submit_intent
  <2> HIDE DEF mark
  <2>5. rb' \in Seq(Record)
    BY <2>1, <2>3, <2>4, IsASeq
  <2>6. Len(rb') = Len(rb)
    BY <2>1, <2>4, <2>5, LenProperties
  <2>7. QED  BY <2>1, <2>5, <2>6
<1>4. /\ \A u \in Thread \ {t} : CallOf(u)' /\ ScratchOf(u)' /\ SavedOf(u)'
      /\ Undisturbed'
      /\ heap' \in [CPU -> Ctx] /\ disturbed' \in SUBSET Thread
  BY <1>1, <1>2, OthersKeep DEF InHook, TypeOK
<1>5. TypeOK'
  BY <1>1, <1>2, <1>3 DEF TypeOK
<1>6. at'[t] = "call"
  BY <1>1, <1>2 DEF TypeOK
<1>7. CallOf(t)' /\ ScratchOf(t)' /\ SavedOf(t)'
  BY <1>1, <1>2, <1>6 DEF CallOf, ScratchOf, SavedOf, OwnCtx, InHook
<1>8. QED  BY <1>4, <1>5, <1>7 DEF IInv

LEMMA EffectStep ==
  ASSUME IInv, NEW t \in Thread, Effect(t)
  PROVE  IInv'
<1>1. at[t] = "call" /\ TypeOK /\ call[t] \in Call /\ SavedOf(t)
  BY DEF Effect, IInv, CallOf
<1>2. PICK r \in -1 .. 1 :
        /\ r = 1 => size[call[t].file] < MaxSize
        /\ call' = [call EXCEPT ![t].ret = r]
        /\ size' = [size EXCEPT ![call[t].file] = IF r = 1 THEN @ + 1 ELSE @]
  BY DEF Effect
<1>3. /\ at' = [at EXCEPT ![t] = "return"]
      /\ UNCHANGED <<cpu, heap, LruMap, rb, tokens, request, disturbed, calls>>
  BY DEF Effect
<1>4. size' \in [File -> 0 .. MaxSize]
  BY <1>1, <1>2, EventPathAssumption DEF TypeOK, Call
<1>5. /\ call'[t] = [call[t] EXCEPT !.ret = r] /\ at'[t] = "return"
      /\ \A u \in Thread \ {t} : call'[u] = call[u] /\ at'[u] = at[u]
  BY <1>1, <1>2, <1>3 DEF TypeOK
<1>6. /\ call'[t] \in Call /\ call'[t].file = call[t].file /\ call'[t].before = call[t].before
  BY <1>1, <1>5 DEF Call
<1>7. call' \in [Thread -> Call \cup {None}]
  BY <1>1, <1>2, <1>5, <1>6 DEF TypeOK
<1>8. /\ \A u \in Thread \ {t} : CallOf(u)' /\ ScratchOf(u)' /\ SavedOf(u)'
      /\ Undisturbed'
      /\ heap' \in [CPU -> Ctx] /\ disturbed' \in SUBSET Thread
  BY <1>3, <1>5, OthersKeep DEF InHook
<1>9. TypeOK'
  BY <1>1, <1>3, <1>4, <1>7 DEF TypeOK
<1>10. CallOf(t)' /\ ScratchOf(t)' /\ SavedOf(t)'
  BY <1>1, <1>3, <1>5, <1>6 DEF CallOf, ScratchOf, SavedOf, OwnCtx, InHook
<1>11. QED  BY <1>8, <1>9, <1>10 DEF IInv

\* The return hooks, whatever event they submit.
LEMMA ReturnStep ==
  ASSUME IInv, NEW t \in Thread, NEW op \in Op, NEW STATE success, NEW STATE events,
         LruMap[t] # None /\ at[t] = "return" => events \subseteq EVENT,
         Return(t, op, success, events)
  PROVE  IInv'
<1>1. at[t] = "return" /\ TypeOK /\ call[t] \in Call
  BY DEF Return, IInv, CallOf
<1>2. /\ LruMap' = [LruMap EXCEPT ![t] = None] /\ at' = [at EXCEPT ![t] = "idle"]
      /\ call' = [call EXCEPT ![t] = None]
      /\ UNCHANGED <<cpu, size, heap, tokens, request, disturbed, calls>>
  BY DEF Return
<1>3. rb' \in Seq(Record) /\ Len(rb') <= RingMax
  <2>1. ASSUME NEW e \in EVENT, Reserve(t, call[t], e, FALSE)
        PROVE  rb' \in Seq(Record) /\ Len(rb') <= RingMax
    BY <1>1, <2>1, ReserveType DEF TypeOK
  <2>2. rb' = rb \/ \E e \in EVENT : Reserve(t, call[t], e, FALSE)
    BY <1>1 DEF Return
  <2>3. QED  BY <1>1, <2>1, <2>2 DEF TypeOK
<1>4. /\ at'[t] = "idle" /\ LruMap'[t] = None
      /\ \A u \in Thread \ {t} : at'[u] = at[u] /\ call'[u] = call[u] /\ LruMap'[u] = LruMap[u]
  BY <1>1, <1>2 DEF TypeOK
<1>5. /\ \A u \in Thread \ {t} : CallOf(u)' /\ ScratchOf(u)' /\ SavedOf(u)'
      /\ Undisturbed'
      /\ heap' \in [CPU -> Ctx] /\ disturbed' \in SUBSET Thread
  BY <1>2, <1>4, OthersKeep DEF InHook
<1>6. TypeOK'
  BY <1>1, <1>2, <1>3 DEF TypeOK
<1>7. CallOf(t)' /\ ScratchOf(t)' /\ SavedOf(t)'
  BY <1>4 DEF CallOf, ScratchOf, SavedOf, InHook
<1>8. QED  BY <1>5, <1>6, <1>7 DEF IInv

LEMMA ReturnTypes ==
  ASSUME IInv, NEW t \in Thread, LruMap[t] # None, at[t] = "return"
  PROVE  /\ LruMap[t].filepath \in Layout /\ LruMap[t].before_size \in Int
         /\ call[t].ret \in Int /\ call[t].vlen \in Int /\ size[call[t].file] \in Int
<1>1. TypeOK /\ call[t] \in Call
  BY DEF IInv, CallOf
<1>2. QED  BY <1>1, EventPathAssumption DEF TypeOK, Ctx, Call

LEMMA FexitStep ==
  ASSUME IInv, NEW t \in Thread,
         fexit_vfs_unlink(t) \/ fexit_vfs_write(t) \/ fexit_vfs_writev(t)
  PROVE  IInv'
<1>1. CASE fexit_vfs_unlink(t)
  <2>1. LruMap[t] # None /\ at[t] = "return" =>
          {Ev("DELETE", LruMap[t].filepath, LruMap[t].before_size, 0, 0)} \subseteq EVENT
    BY ReturnTypes DEF Ev, EVENT
  <2>2. QED  BY <1>1, <2>1, ReturnStep DEF fexit_vfs_unlink, Op
<1>2. CASE fexit_vfs_write(t)
  <2>1. LruMap[t] # None /\ at[t] = "return" =>
          {Ev("WRITE", LruMap[t].filepath, LruMap[t].before_size, j, call[t].ret) : j \in Junk}
            \subseteq EVENT
    BY ReturnTypes, EventPathAssumption DEF Ev, EVENT
  <2>2. QED  BY <1>2, <2>1, ReturnStep DEF fexit_vfs_write, Op
<1>3. CASE fexit_vfs_writev(t)
  <2>1. LruMap[t] # None /\ at[t] = "return" =>
          {Ev("WRITE", LruMap[t].filepath, LruMap[t].before_size, size[call[t].file], call[t].vlen)}
            \subseteq EVENT
    BY ReturnTypes DEF Ev, EVENT
  <2>2. QED  BY <1>3, <2>1, ReturnStep DEF fexit_vfs_writev, Op
<1>4. QED  BY <1>1, <1>2, <1>3

LEMMA ConsumerStep ==
  ASSUME IInv, consumer
  PROVE  IInv'
<1>1. TypeOK /\ rb # <<>> /\ rb' = Tail(rb)
      /\ UNCHANGED <<at, call, cpu, size, heap, LruMap, tokens, disturbed, calls>>
  BY DEF consumer, IInv
<1>2. Len(rb) \in Nat /\ Tail(rb) \in Seq(Record) /\ Len(Tail(rb)) = Len(rb) - 1
  BY <1>1, HeadTailProperties, LenProperties DEF TypeOK
<1>3. request' \in Request \cup {None}
  <2>1. Head(rb) \in Record
    BY <1>1, HeadTailProperties DEF TypeOK
  <2>2. QED  BY <1>1, <2>1, RequestType DEF consumer, log, TypeOK
<1>4. TypeOK'
  BY <1>1, <1>2, <1>3, EventPathAssumption DEF TypeOK
<1>5. QED
  BY <1>1, <1>4 DEF IInv, Undisturbed, Alone, CallOf, ScratchOf, SavedOf, OwnCtx, InHook

-----------------------------------------------------------------------------
(* What a record tells of its call.  A clean record holds the path and the *)
(* size of its own call from the step that puts it into rb to the one that *)
(* takes it out, and the payload is built from nothing else.               *)

Tells(e, c) ==
  /\ e.filepath = construct_path[c.file]
  /\ c.op # "create" => e.before_size = c.before
  /\ changeType(e) \in ChangesBy(c)

RecordsTell == \A i \in DOMAIN rb : rb[i].clean => Tells(rb[i].event, rb[i].of)

LEMMA PathIsTrue ==
  ASSUME NEW f \in File
  PROVE  TrueOf(Reverse(construct_path[f]), f)
<1> DEFINE p    == PathOf[f]
           cp   == construct_path[f]
           path == Reverse(cp)
           true == Reverse(p)
           n    == IF Len(p) < MAX_DEPTH THEN Len(p) ELSE MAX_DEPTH
<1>1. p \in Seq(Name) /\ Len(p) \in Nat /\ n \in Nat /\ n <= Len(p)
  BY EventPathAssumption, LenProperties
<1>2. cp \in Seq(Name)
  BY PathType DEF Layout
<1>3. cp = [i \in 1 .. n |-> Cut(p[i])]
  BY DEF construct_path
<1> HIDE DEF n, cp
<1>4. Len(cp) = n
  BY <1>1, <1>2, <1>3, LenProperties
<1>5. /\ path \in Seq(Name) /\ Len(path) = n /\ \A i \in 1 .. n : path[i] = cp[n - i + 1]
      /\ true \in Seq(Name) /\ Len(true) = Len(p)
      /\ \A i \in 1 .. Len(p) : true[i] = p[Len(p) - i + 1]
  BY <1>1, <1>2, <1>4, ReverseIs
<1>6. \A i \in 1 .. n : p[i] \in Name /\ cp[i] = Cut(p[i])
  <2>1. \A i \in 1 .. n : i \in 1 .. Len(p)
    BY <1>1
  <2>2. QED  BY <1>1, <1>3, <2>1, ElementOfSeq
<1>7. ASSUME Fits(f) PROVE path = true
  <2>1. n = Len(p)
    BY <1>1, <1>7, EventPathAssumption DEF Fits, n
  <2>2. \A i \in 1 .. n : cp[i] = p[i]
    <3>1. \A i \in 1 .. n : Len(p[i]) < PER_LEVEL
      BY <1>1, <1>7, <2>1, LenProperties DEF Fits
    <3>2. QED  BY <1>6, <3>1, CutIs
  <2>3. cp = p
    BY <1>1, <1>2, <1>4, <2>1, <2>2, SeqEqual
  <2>4. QED  BY <2>3
<1>8. /\ Len(path) = IF Len(true) < MAX_DEPTH THEN Len(true) ELSE MAX_DEPTH
      /\ \A k \in DOMAIN path : IsPrefix(path[k], true[Len(true) - Len(path) + k])
  <2>1. Len(path) = IF Len(true) < MAX_DEPTH THEN Len(true) ELSE MAX_DEPTH
    BY <1>5 DEF n
  <2>2. ASSUME NEW k \in DOMAIN path PROVE IsPrefix(path[k], true[Len(true) - Len(path) + k])
    <3>1. k \in 1 .. n
      BY <1>5, LenProperties
    <3>2. /\ n - k + 1 \in 1 .. n /\ Len(p) - n + k \in 1 .. Len(p)
          /\ Len(p) - (Len(p) - n + k) + 1 = n - k + 1
      BY <1>1, <3>1
    <3>3. path[k] = Cut(p[n - k + 1]) /\ true[Len(p) - n + k] = p[n - k + 1]
      BY <1>5, <1>6, <3>1, <3>2
    <3>4. IsPrefix(Cut(p[n - k + 1]), p[n - k + 1])
      BY <1>6, <3>2, CutIs
    <3>5. QED  BY <1>5, <3>3, <3>4
  <2>3. QED  BY <2>1, <2>2
<1>9. QED  BY <1>7, <1>8 DEF TrueOf, cp

LEMMA ReserveTells ==
  ASSUME rb \in Seq(Record), RecordsTell, NEW t \in Thread, NEW c \in Call, NEW e \in EVENT,
         NEW b \in BOOLEAN, Reserve(t, c, e, b),
         e.change_type \in {"CREATE", "WRITE_INTENT"} \/ t \notin disturbed => Tells(e, c)
  PROVE  RecordsTell'
<1> DEFINE r == [event |-> e, by |-> t, busy |-> b, of |-> c,
                 clean |-> e.change_type \in {"CREATE", "WRITE_INTENT"} \/ t \notin disturbed]
<1>1. r \in Record /\ (r.clean => Tells(r.event, r.of))
  BY DEF Record
<1>2. rb' = Append(rb, r) \/ rb' = rb
  BY DEF Reserve
<1> HIDE DEF r
<1>3. CASE rb' = rb
  BY <1>3 DEF RecordsTell, Tells, changeType, ChangesBy
<1>4. CASE rb' = Append(rb, r)
  <2>1. /\ Len(rb) \in Nat /\ DOMAIN rb = 1 .. Len(rb)
        /\ Append(rb, r) \in Seq(Record) /\ Len(Append(rb, r)) = Len(rb) + 1
        /\ Append(rb, r)[Len(rb) + 1] = r /\ \A i \in 1 .. Len(rb) : Append(rb, r)[i] = rb[i]
    BY <1>1, AppendProperties, LenProperties
  <2>2. DOMAIN rb' = 1 .. Len(rb) + 1
    BY <1>4, <2>1, LenProperties
  <2>3. ASSUME NEW i \in 1 .. Len(rb) + 1, rb'[i].clean PROVE Tells(rb'[i].event, rb'[i].of)
    <3>1. CASE i = Len(rb) + 1
      BY <1>1, <1>4, <2>1, <2>3, <3>1
    <3>2. CASE i \in 1 .. Len(rb)
      BY <1>4, <2>1, <2>3, <3>2 DEF RecordsTell
    <3>3. QED  BY <2>1, <3>1, <3>2
  <2>4. QED  BY <2>2, <2>3 DEF RecordsTell
<1>5. QED  BY <1>2, <1>3, <1>4

\* Entering a call with a hook that reserves a record.
LEMMA EntryTells ==
  ASSUME IInv, RecordsTell, NEW t \in Thread, NEW f \in File, NEW c \in CPU,
         \/ lsm_inode_create(t, f, c)
         \/ \E op \in {"write", "writev"} : fim_file_permission(t, op, f, c)
  PROVE  RecordsTell'
<1>1. CASE lsm_inode_create(t, f, c)
  <2> DEFINE n == NewCall("create", f)
             e == Ev("CREATE", construct_path[f], 0, 0, 0)
  <2>1. n \in Call /\ n.file = f /\ n.op = "create"
    BY CallType DEF IInv, Op, NewCall
  <2>2. e \in EVENT /\ e.filepath = construct_path[f] /\ changeType(e) = <<"CREATE">>
    BY PathType DEF Ev, EVENT, changeType
  <2>3. Reserve(t, n, e, FALSE)
    BY <1>1 DEF lsm_inode_create
  <2> HIDE DEF n, e
  <2>4. Tells(e, n)
    BY <2>1, <2>2 DEF Tells, ChangesBy
  <2>5. QED  BY <2>1, <2>2, <2>3, <2>4, ReserveTells DEF IInv, TypeOK
<1>2. ASSUME NEW op \in {"write", "writev"}, fim_file_permission(t, op, f, c)
      PROVE  RecordsTell'
  <2> DEFINE n == NewCall(op, f)
             e == Ev("WRITE_INTENT", construct_path[f], size[f], -1, 0)
  <2>1. n \in Call /\ n.file = f /\ n.op = op /\ n.before = size[f] /\ size[f] \in Int
    BY CallType DEF IInv, Op, NewCall
  <2>2. /\ e \in EVENT /\ e.filepath = construct_path[f] /\ e.before_size = size[f]
        /\ changeType(e) = <<"WRITE_INTENT">>
    BY <2>1, PathType DEF Ev, EVENT, changeType
  <2>3. Reserve(t, n, e, TRUE)
    BY <1>2 DEF fim_file_permission
  <2> HIDE DEF n, e
  <2>4. Tells(e, n)
    BY <2>1, <2>2 DEF Tells, ChangesBy
  <2>5. QED  BY <2>1, <2>2, <2>3, <2>4, ReserveTells DEF IInv, TypeOK
<1>3. QED  BY <1>1, <1>2

\* Returning from a call: the context is the call's own, or the record says
\* that it is not clean.
LEMMA ReturnTells ==
  ASSUME IInv, RecordsTell, NEW t \in Thread,
         fexit_vfs_unlink(t) \/ fexit_vfs_write(t) \/ fexit_vfs_writev(t)
  PROVE  RecordsTell'
<1>1. rb \in Seq(Record) /\ at[t] = "return" /\ call[t] \in Call /\ SavedOf(t)
  BY DEF IInv, TypeOK, CallOf, fexit_vfs_unlink, fexit_vfs_write, fexit_vfs_writev, Return
<1>2. CASE UNCHANGED rb
  BY <1>2 DEF RecordsTell, Tells, changeType, ChangesBy
<1>3. ASSUME LruMap[t] # None, NEW e \in EVENT, Reserve(t, call[t], e, FALSE),
             e.filepath = LruMap[t].filepath, e.before_size = LruMap[t].before_size,
             changeType(e) \in ChangesBy(call[t]), e.change_type \in {"DELETE", "WRITE"}
      PROVE  RecordsTell'
  <2>1. t \notin disturbed => Tells(e, call[t])
    BY <1>1, <1>3 DEF SavedOf, OwnCtx, Tells
  <2>2. QED  BY <1>1, <1>3, <2>1, ReserveTells
<1>4. ASSUME LruMap[t] # None
      PROVE  /\ LruMap[t].filepath \in Layout /\ LruMap[t].before_size \in Int
             /\ call[t].ret \in Int /\ call[t].vlen \in Int /\ size[call[t].file] \in Int
  BY <1>1, <1>4, ReturnTypes
<1>5. CASE fexit_vfs_unlink(t)
  <2> DEFINE e == Ev("DELETE", LruMap[t].filepath, LruMap[t].before_size, 0, 0)
  <2>1. call[t].op = "unlink" /\ (UNCHANGED rb \/ (LruMap[t] # None /\ Reserve(t, call[t], e, FALSE)))
    BY <1>5 DEF fexit_vfs_unlink, Return
  <2>2. LruMap[t] # None => e \in EVENT
    BY <1>4 DEF Ev, EVENT
  <2>3. /\ e.filepath = LruMap[t].filepath /\ e.before_size = LruMap[t].before_size
        /\ e.change_type = "DELETE" /\ changeType(e) \in ChangesBy(call[t])
    BY <2>1 DEF Ev, changeType, ChangesBy
  <2> HIDE DEF e
  <2>4. QED  BY <1>2, <1>3, <2>1, <2>2, <2>3
<1>6. CASE fexit_vfs_write(t)
  <2>1. /\ call[t].op = "write"
        /\ \/ UNCHANGED rb
           \/ /\ LruMap[t] # None
              /\ \E j \in Junk :
                   Reserve(t, call[t], Ev("WRITE", LruMap[t].filepath, LruMap[t].before_size,
                                          j, call[t].ret), FALSE)
    BY <1>6 DEF fexit_vfs_write, Return
  <2>2. ASSUME LruMap[t] # None, NEW j \in Junk,
               Reserve(t, call[t], Ev("WRITE", LruMap[t].filepath, LruMap[t].before_size,
                                      j, call[t].ret), FALSE)
        PROVE  RecordsTell'
    <3> DEFINE e == Ev("WRITE", LruMap[t].filepath, LruMap[t].before_size, j, call[t].ret)
    <3>1. e \in EVENT
      BY <1>4, <2>2, EventPathAssumption DEF Ev, EVENT
    <3>2. /\ e.filepath = LruMap[t].filepath /\ e.before_size = LruMap[t].before_size
          /\ e.change_type = "WRITE" /\ changeType(e) \in ChangesBy(call[t])
      BY <2>1 DEF Ev, changeType, ChangesBy
    <3> HIDE DEF e
    <3>3. QED  BY <1>3, <2>2, <3>1, <3>2 DEF e
  <2>3. QED  BY <1>2, <2>1, <2>2
<1>7. CASE fexit_vfs_writev(t)
  <2> DEFINE e == Ev("WRITE", LruMap[t].filepath, LruMap[t].before_size,
                     size[call[t].file], call[t].vlen)
  <2>1. call[t].op = "writev" /\ (UNCHANGED rb \/ (LruMap[t] # None /\ Reserve(t, call[t], e, FALSE)))
    BY <1>7 DEF fexit_vfs_writev, Return
  <2>2. LruMap[t] # None => e \in EVENT
    BY <1>4 DEF Ev, EVENT
  <2>3. /\ e.filepath = LruMap[t].filepath /\ e.before_size = LruMap[t].before_size
        /\ e.change_type = "WRITE" /\ changeType(e) = <<"MODIFY", call[t].vlen>>
    BY DEF Ev, changeType
  <2>4. call[t].vlen \in Int /\ ChangesBy(call[t]) = {<<"WRITE_INTENT">>} \cup ({"MODIFY"} \X Int)
    BY <1>1, <2>1 DEF ChangesBy, Call
  <2> HIDE DEF e
  <2>5. changeType(e) \in ChangesBy(call[t])
    BY <2>3, <2>4
  <2>6. QED  BY <1>2, <1>3, <2>1, <2>2, <2>3, <2>5
<1>8. QED  BY <1>5, <1>6, <1>7

\* The step that submits a record does not change what it tells.
LEMMA SubmitTells ==
  ASSUME IInv, RecordsTell, NEW t \in Thread, submit_intent(t)
  PROVE  RecordsTell'
<1>1. rb \in Seq(Record)
  BY DEF IInv, TypeOK
<1>2. DOMAIN rb = 1 .. Len(rb) /\ \A i \in 1 .. Len(rb) : rb[i] \in Record
  BY <1>1, LenProperties, ElementOfSeq
<1>3. rb' = [i \in DOMAIN rb |-> IF rb[i].by = t THEN [rb[i] EXCEPT !.busy = FALSE] ELSE rb[i]]
  BY DEF submit_intent
<1>4. DOMAIN rb' = DOMAIN rb
  BY <1>3
<1>5. \A i \in DOMAIN rb : /\ rb'[i].clean = rb[i].clean /\ rb'[i].event = rb[i].event
                           /\ rb'[i].of = rb[i].of
  BY <1>2, <1>3 DEF Record
<1>6. ASSUME NEW i \in DOMAIN rb', rb'[i].clean PROVE Tells(rb'[i].event, rb'[i].of)
  BY <1>4, <1>5, <1>6 DEF RecordsTell
<1>7. QED  BY <1>6 DEF RecordsTell

LEMMA ConsumerTells ==
  ASSUME IInv, RecordsTell, consumer
  PROVE  RecordsTell' /\ PayloadIsTrue'
<1>1. rb \in Seq(Record) /\ rb # <<>> /\ rb' = Tail(rb) /\ tokens \in TokenLists
  BY DEF IInv, TypeOK, consumer
<1>2. /\ Head(rb) \in Record /\ Tail(rb) \in Seq(Record) /\ Len(Tail(rb)) = Len(rb) - 1
      /\ \A i \in 1 .. Len(Tail(rb)) : Tail(rb)[i] = rb[i + 1]
      /\ Len(rb) \in Nat \ {0} /\ DOMAIN rb = 1 .. Len(rb) /\ Head(rb) = rb[1]
      /\ DOMAIN Tail(rb) = 1 .. Len(Tail(rb))
  BY <1>1, HeadTailProperties, LenProperties, EmptySeq
<1>3. RecordsTell'
  <2>1. ASSUME NEW i \in DOMAIN rb', rb'[i].clean PROVE Tells(rb'[i].event, rb'[i].of)
    <3>1. i + 1 \in DOMAIN rb /\ rb'[i] = rb[i + 1]
      BY <1>1, <1>2
    <3>2. QED  BY <2>1, <3>1 DEF RecordsTell
  <2>2. QED  BY <2>1 DEF RecordsTell
<1>4. ASSUME request' = None PROVE PayloadIsTrue'
  BY <1>4 DEF PayloadIsTrue
<1>5. ASSUME log(Head(rb)) PROVE PayloadIsTrue'
  <2> DEFINE r == Head(rb)
  <2>1. /\ request'.payload = Process(r.event) /\ request'.of = r.of
        /\ request'.clean = r.clean
    BY <1>5 DEF log
  <2>2. r \in Record /\ r.event \in EVENT /\ r.of \in Call /\ r.of.file \in File
    BY <1>2 DEF Record, Call
  <2>3. 1 \in DOMAIN rb /\ r = rb[1]
    BY <1>2
  <2> HIDE DEF r
  <2>4. ASSUME r.clean
        PROVE  /\ Process(r.event).change_type \in ChangesBy(r.of)
               /\ r.of.op # "create" => Process(r.event).before_size = r.of.before
               /\ TrueOf(Process(r.event).file_path, r.of.file)
    <3>1. Tells(r.event, r.of)
      BY <2>3, <2>4 DEF RecordsTell
    <3>2. Process(r.event).file_path = Reverse(construct_path[r.of.file])
      BY <2>2, <3>1, PathconstructionIs DEF Process, Tells
    <3>3. QED  BY <2>2, <3>1, <3>2, PathIsTrue DEF Process, Tells
  <2>5. QED  BY <2>1, <2>4 DEF PayloadIsTrue
<1>6. QED  BY <1>3, <1>4, <1>5 DEF consumer

LEMMA TellsNext == IInv /\ RecordsTell /\ PayloadIsTrue /\ [Next]_vars => RecordsTell' /\ PayloadIsTrue'
<1> SUFFICES ASSUME IInv, RecordsTell, PayloadIsTrue, [Next]_vars
             PROVE  RecordsTell' /\ PayloadIsTrue'
  OBVIOUS
<1>1. UNCHANGED rb => RecordsTell'
  BY DEF RecordsTell, Tells, changeType, ChangesBy
<1>2. UNCHANGED request => PayloadIsTrue'
  BY DEF PayloadIsTrue
<1>3. ASSUME NEW t \in Thread, Hooks(t) PROVE RecordsTell' /\ PayloadIsTrue'
  <2>1. UNCHANGED request
    BY <1>3 DEF Hooks, lsm_inode_create, fentry_vfs_unlink, fim_file_permission, Begin, copy_path,
       save_ctx, submit_intent, fexit_vfs_unlink, fexit_vfs_write, fexit_vfs_writev, Return
  <2>2. RecordsTell'
    <3>1. CASE \E f \in File, c \in CPU : fentry_vfs_unlink(t, f, c)
      BY <1>1, <3>1 DEF fentry_vfs_unlink
    <3>2. CASE \E f \in File, c \in CPU :
                 \/ lsm_inode_create(t, f, c)
                 \/ \E op \in {"write", "writev"} : fim_file_permission(t, op, f, c)
      BY <3>2, EntryTells
    <3>3. CASE copy_path(t) \/ save_ctx(t)
      BY <1>1, <3>3 DEF copy_path, save_ctx
    <3>4. CASE submit_intent(t)
      BY <3>4, SubmitTells
    <3>5. CASE fexit_vfs_unlink(t) \/ fexit_vfs_write(t) \/ fexit_vfs_writev(t)
      BY <3>5, ReturnTells
    <3>6. QED  BY <1>3, <3>1, <3>2, <3>3, <3>4, <3>5 DEF Hooks
  <2>3. QED  BY <1>2, <2>1, <2>2
<1>4. ASSUME NEW t \in Thread, Effect(t) PROVE RecordsTell' /\ PayloadIsTrue'
  BY <1>1, <1>2, <1>4 DEF Effect
<1>5. CASE consumer
  BY <1>5, ConsumerTells
<1>6. CASE UNCHANGED vars
  BY <1>1, <1>2, <1>6 DEF vars
<1>7. QED  BY <1>3, <1>4, <1>5, <1>6 DEF Next

\* What the filter sees of a clean record whose last name fits its slot is
\* that name.
LEMMA FilterSees ==
  ASSUME IInv, RecordsTell, consumer, Head(rb).clean, Len(LastName(Head(rb))) < PER_LEVEL
  PROVE  filterEvent(Head(rb).event) <=> Excluded(LastName(Head(rb)))
<1> DEFINE r    == Head(rb)
           name == LastName(r)
           path == PathOf[r.of.file]
<1>1. rb \in Seq(Record) /\ rb # <<>> /\ tokens \in TokenLists
  BY DEF IInv, TypeOK, consumer
<1>2. r \in Record /\ 1 \in DOMAIN rb /\ r = rb[1]
  BY <1>1, HeadTailProperties, LenProperties, EmptySeq
<1>3. r.of.file \in File
  BY <1>2 DEF Record, Call
<1>4. path \in Seq(Name) /\ Len(path) \in Nat \ {0} /\ name = path[1]
  BY <1>3, EventPathAssumption, EmptySeq DEF LastName
<1>5. name \in Name
  BY <1>4, ElementOfSeq
<1>6. r.event.filepath # <<>> /\ r.event.filepath[1] = name
  <2> DEFINE n == IF Len(path) < MAX_DEPTH THEN Len(path) ELSE MAX_DEPTH
  <2>1. r.event.filepath = construct_path[r.of.file]
    BY <1>2 DEF RecordsTell, Tells
  <2>2. construct_path[r.of.file] = [i \in 1 .. n |-> Cut(path[i])]
    BY <1>3 DEF construct_path
  <2>3. 1 \in 1 .. n
    BY <1>4, EventPathAssumption
  <2>4. Cut(name) = name
    BY <1>5, CutIs
  <2> HIDE DEF n
  <2>5. construct_path[r.of.file][1] = Cut(path[1])
    BY <2>2, <2>3
  <2>6. construct_path[r.of.file] # <<>>
    <3>1. DOMAIN construct_path[r.of.file] = 1 .. n
      BY <2>2
    <3>2. DOMAIN <<>> = {}
      OBVIOUS
    <3>3. QED  BY <2>3, <3>1, <3>2
  <2>7. QED  BY <1>4, <2>1, <2>4, <2>5, <2>6
<1>7. name \in Text /\ exclude_extension(tokens) \subseteq Text
  <2>1. Arguments(tokens, <<"EE">>) \in Seq(Text)
    BY <1>1, RulesType
  <2>2. QED  BY <1>5, <2>1, LenProperties, ElementOfSeq DEF Name, exclude_extension, ToSet
<1> HIDE DEF r, name
<1>8. (Extension(name) # <<>> /\ Extension(name) \in exclude_extension(tokens)) <=>
        \E ext \in exclude_extension(tokens) :
          ext # <<>> /\ ~Contains(ext, ".") /\ IsSuffix(<<".">> \o ext, name)
  BY <1>7, ExtensionIs
<1>9. QED  BY <1>6, <1>8 DEF filterEvent, Excluded, r, name

LEMMA FilterStep ==
  ASSUME IInv, RecordsTell, consumer, Head(rb).clean, Len(LastName(Head(rb))) < PER_LEVEL
  PROVE  request' = None <=> Excluded(LastName(Head(rb)))
<1>1. Head(rb) \in Record /\ tokens \in TokenLists
  BY HeadTailProperties DEF IInv, TypeOK, consumer
<1>2. log(Head(rb)) => request' # None
  BY <1>1, RequestType, EventPathAssumption DEF log
<1>3. QED  BY <1>2, FilterSees DEF consumer

-----------------------------------------------------------------------------
(* The theorems.                                                           *)

LEMMA InvariantInit == Init => IInv
<1> SUFFICES ASSUME Init PROVE IInv
  OBVIOUS
<1>1. Blank \in Ctx
  BY EmptySeq DEF Blank, Ctx, Layout
<1>2. <<>> \in Seq(Record) /\ Len(<<>>) = 0
  BY EmptySeq
<1>3. TypeOK
  BY <1>1, <1>2, EventPathAssumption DEF Init, TypeOK
<1>4. Undisturbed /\ \A t \in Thread : CallOf(t) /\ ScratchOf(t) /\ SavedOf(t)
  BY DEF Init, Undisturbed, Alone, CallOf, ScratchOf, SavedOf, InHook
<1>5. QED  BY <1>3, <1>4 DEF IInv

LEMMA InvariantNext == IInv /\ [Next]_vars => IInv'
<1> SUFFICES ASSUME IInv, [Next]_vars PROVE IInv'
  OBVIOUS
<1>1. ASSUME NEW t \in Thread, Hooks(t) PROVE IInv'
  BY <1>1, CreateStep, UnlinkStep, PermissionStep, CopyStep, SaveStep, SubmitStep, FexitStep
  DEF Hooks
<1>2. ASSUME NEW t \in Thread, Effect(t) PROVE IInv'
  BY <1>2, EffectStep
<1>3. CASE consumer
  BY <1>3, ConsumerStep
<1>4. CASE UNCHANGED vars
  BY <1>4 DEF vars, IInv, TypeOK, Undisturbed, Alone, CallOf, ScratchOf, SavedOf, OwnCtx, InHook
<1>5. QED  BY <1>1, <1>2, <1>3, <1>4 DEF Next

\* Every variable keeps its type and the ring buffer never holds more records
\* than fit, however many threads run their hooks and however the consumer
\* keeps up.
THEOREM TypeCorrect == Spec => []TypeOK
<1>1. IInv => TypeOK
  BY DEF IInv
<1>2. QED  BY <1>1, InvariantInit, InvariantNext, PTL DEF Spec

\* The context a return hook finds is that of the call that returns, path and
\* size, for any number of threads and CPUs, unless the entry hook lost its
\* scratch context to a hook that preempted it; and without preemption that
\* never happens.
THEOREM ContextIsOwn == Spec => []CtxIsOwn
<1>1. IInv => CtxIsOwn
  BY DEF IInv, CtxIsOwn, SavedOf, OwnCtx, Undisturbed
<1>2. QED  BY <1>1, InvariantInit, InvariantNext, PTL DEF Spec

\* What the server is told of a call is true of it, for any files, names,
\* slots, threads and policies: the kind of change, the bytes of a write, the
\* size when the call began and the path, cut to what fits, however the hooks
\* of other calls interleave and however many records are dropped, if the entry
\* hook had the scratch context to itself.  Nothing is said of the number told
\* of a writev.
THEOREM PayloadTrue == Spec => []PayloadIsTrue
<1>1. Init => RecordsTell /\ PayloadIsTrue
  BY DEF Init, RecordsTell, PayloadIsTrue
<1>2. QED  BY <1>1, InvariantInit, InvariantNext, TellsNext, PTL DEF Spec

\* The consumer holds an event back exactly if a rule of the policy excludes
\* the name of the call's file, for any policy and any name that fits a slot.
THEOREM FilterObeysRules == Spec => FilterFollowsRules
<1>1. Init => RecordsTell /\ PayloadIsTrue
  BY DEF Init, RecordsTell, PayloadIsTrue
<1>2. IInv /\ RecordsTell /\ [Next]_vars =>
        [consumer /\ Head(rb).clean /\ Len(LastName(Head(rb))) < PER_LEVEL =>
           (request' = None <=> Excluded(LastName(Head(rb))))]_vars
  BY FilterStep
<1>3. QED
  BY <1>1, <1>2, InvariantInit, InvariantNext, TellsNext, PTL DEF Spec, FilterFollowsRules

=============================================================================
