------------------------------- MODULE SetupProofs -------------------------------
(***************************************************************************)
(* Proofs about Setup, for any trees, names, policies, depths and sizes of *)
(* InodeMap, and any number of directories made and removed meanwhile.     *)
(***************************************************************************)
EXTENDS Setup, PolicyProofs

(***************************************************************************)
(* The inductive invariant.  It has four parts: the tokens are those of    *)
(* the policy and validated; the tree stays a tree and the directories     *)
(* that stay keep all that is above them; a directory the rules reach is   *)
(* found or lies ahead of the iterator; and the iterator is only where its *)
(* rule reaches.                                                           *)
(***************************************************************************)

\* The parser is done with all rules.
Past == {"open", "attach", "load", "init", "started"}

\* The daemon has got past the validation.
PolicyInv ==
  /\ pc # "compile" => tokens = tokenize(policy)
  /\ pc \in {"rules", "scan"} \cup Past =>
       syntaxValidation(tokens) /\ semanticValidation(tokens) /\ ~RegexThrows(tokens)
  /\ attached => pc \in {"load", "init", "started"}

\* While the iterator is at work it has a directory open or about to be opened.
ScanInv ==
  pc = "scan" => /\ rule \in 1 .. Len(tokens) /\ tokens[rule].command = <<"D">>
                 /\ pending # <<>> \/ stack # <<>>

TypeInv == TypeOK /\ IsFiniteSet(InodeMap) /\ PolicyInv /\ ScanInv

-----------------------------------------------------------------------------
(* Paths and places.                                                       *)

LEMMA ResolveType ==
  ASSUME NEW path \in Text
  PROVE  Resolve(path) \in Seq(STRING \ {"/"}) /\ Resolve(path) \in Text
<1>1. Resolve(path) \in Seq(STRING \ {"/"})
  BY WithoutType DEF Resolve, Text
<1>2. QED  BY <1>1, SeqMonotonic DEF Text

\* The path of an entry is that of its directory and its name.
LEMMA EntryResolve ==
  ASSUME NEW path \in Text, NEW n \in Name
  PROVE  /\ EntryPath(path, n) \in Text /\ EntryPath(path, n) # <<>>
         /\ Resolve(EntryPath(path, n)) = Append(Resolve(path), n)
<1> DEFINE dir == IF Last(path) = "/" THEN path ELSE Append(path, "/")
<1>1. n \in STRING /\ n # "/" /\ "/" \in STRING
  BY SetupAssumption
<1>2. dir \in Text
  BY <1>1, AppendProperties DEF Text
<1>3. Resolve(dir) = Resolve(path)
  BY <1>1, WithoutAppend DEF Resolve, Text
<1>4. EntryPath(path, n) = Append(dir, n)
  <2>1. EntryPath(path, n) = dir \o <<n>>
    BY DEF EntryPath
  <2> HIDE DEF dir
  <2>2. QED  BY <1>1, <1>2, <2>1, AppendIsConcat DEF Text
<1> HIDE DEF dir
<1>5. Append(dir, n) \in Text /\ Append(dir, n) # <<>>
  BY <1>1, <1>2, AppendProperties DEF Text
<1>6. Resolve(Append(dir, n)) = Append(Resolve(dir), n)
  BY <1>1, <1>2, WithoutAppend DEF Resolve, Text
<1>7. QED  BY <1>3, <1>4, <1>5, <1>6

LEMMA PlaceIsSeq == Place = {p \in Seq(Name) : Len(p) <= Depth}
<1>1. Depth \in Nat
  BY SetupAssumption
<1>2. ASSUME NEW p \in Place PROVE p \in Seq(Name) /\ Len(p) <= Depth
  <2>1. PICK n \in 0 .. Depth : p \in [1 .. n -> Name]
    BY DEF Place
  <2>2. n \in Nat /\ n <= Depth
    BY <1>1
  <2>3. p \in Seq(Name)
    BY <2>1, <2>2, SeqDef
  <2>4. DOMAIN p = 1 .. n /\ DOMAIN p = 1 .. Len(p) /\ Len(p) \in Nat
    BY <2>1, <2>3, LenProperties
  <2>5. QED  BY <2>2, <2>3, <2>4
<1>3. ASSUME NEW p \in Seq(Name), Len(p) <= Depth PROVE p \in Place
  <2>1. Len(p) \in 0 .. Depth /\ p \in [1 .. Len(p) -> Name]
    BY <1>1, <1>3, LenProperties
  <2>2. QED  BY <2>1 DEF Place
<1>4. QED  BY <1>2, <1>3

LEMMA PrefixPlace ==
  ASSUME NEW p \in Place, NEW n \in 0 .. Len(p)
  PROVE  /\ SubSeq(p, 1, n) \in Place /\ Len(SubSeq(p, 1, n)) = n
         /\ \A m \in 0 .. n : SubSeq(SubSeq(p, 1, n), 1, m) = SubSeq(p, 1, m)
         /\ n < Len(p) => /\ SubSeq(p, 1, n + 1) = Append(SubSeq(p, 1, n), p[n + 1])
                          /\ p[n + 1] \in Name
<1>1. p \in Seq(Name) /\ Len(p) <= Depth /\ Len(p) \in Nat /\ Depth \in Nat
  BY PlaceIsSeq, LenProperties, SetupAssumption
<1>2. \A i \in 1 .. Len(p) : p[i] \in Name
  BY <1>1, ElementOfSeq
<1>3. \A k \in 0 .. Len(p) :
        /\ SubSeq(p, 1, k) \in Seq(Name) /\ Len(SubSeq(p, 1, k)) = k
        /\ \A i \in 1 .. k : SubSeq(p, 1, k)[i] = p[i]
  <2> SUFFICES ASSUME NEW k \in 0 .. Len(p)
               PROVE  /\ SubSeq(p, 1, k) \in Seq(Name) /\ Len(SubSeq(p, 1, k)) = k
                      /\ \A i \in 1 .. k : SubSeq(p, 1, k)[i] = p[i]
    OBVIOUS
  <2>1. k \in Int /\ \A i \in 1 .. k : p[i] \in Name
    BY <1>1, <1>2
  <2>2. /\ SubSeq(p, 1, k) \in Seq(Name)
        /\ Len(SubSeq(p, 1, k)) = IF 1 <= k THEN k - 1 + 1 ELSE 0
        /\ \A i \in 1 .. k - 1 + 1 : SubSeq(p, 1, k)[i] = p[1 + i - 1]
    BY <2>1, SubSeqProperties
  <2>3. QED  BY <1>1, <2>2
<1>4. SubSeq(p, 1, n) \in Place /\ Len(SubSeq(p, 1, n)) = n
  BY <1>1, <1>3, PlaceIsSeq
<1>5. ASSUME NEW m \in 0 .. n PROVE SubSeq(SubSeq(p, 1, n), 1, m) = SubSeq(p, 1, m)
  <2> DEFINE q == SubSeq(p, 1, n)
  <2>1. q \in Seq(Name) /\ Len(q) = n /\ \A i \in 1 .. m : q[i] = p[i] /\ q[i] \in Name
    BY <1>1, <1>2, <1>3
  <2> HIDE DEF q
  <2>2. /\ SubSeq(q, 1, m) \in Seq(Name)
        /\ Len(SubSeq(q, 1, m)) = IF 1 <= m THEN m - 1 + 1 ELSE 0
        /\ \A i \in 1 .. m - 1 + 1 : SubSeq(q, 1, m)[i] = q[1 + i - 1]
    BY <2>1, SubSeqProperties
  <2>3. Len(SubSeq(q, 1, m)) = m /\ \A i \in 1 .. m : SubSeq(q, 1, m)[i] = p[i]
    BY <2>1, <2>2
  <2>4. m \in 0 .. Len(p)
    BY <1>1
  <2>5. QED  BY <1>3, <2>2, <2>3, <2>4, SeqEqual DEF q
<1>6. ASSUME n < Len(p)
      PROVE  SubSeq(p, 1, n + 1) = Append(SubSeq(p, 1, n), p[n + 1]) /\ p[n + 1] \in Name
  <2>1. n + 1 \in 0 .. Len(p) /\ n + 1 \in 1 .. Len(p)
    BY <1>1, <1>6
  <2>2. p[n + 1] \in Name
    BY <1>2, <2>1
  <2> DEFINE q == SubSeq(p, 1, n)
             r == SubSeq(p, 1, n + 1)
  <2>3. /\ q \in Seq(Name) /\ Len(q) = n /\ \A i \in 1 .. n : q[i] = p[i]
        /\ r \in Seq(Name) /\ Len(r) = n + 1 /\ \A i \in 1 .. n + 1 : r[i] = p[i]
    BY <1>3, <2>1
  <2> HIDE DEF q, r
  <2>4. /\ Append(q, p[n + 1]) \in Seq(Name) /\ Len(Append(q, p[n + 1])) = n + 1
        /\ \A i \in 1 .. n : Append(q, p[n + 1])[i] = q[i]
        /\ Append(q, p[n + 1])[n + 1] = p[n + 1]
    BY <2>2, <2>3, AppendProperties
  <2>5. \A i \in 1 .. n + 1 : r[i] = Append(q, p[n + 1])[i]
    BY <1>1, <2>3, <2>4
  <2>6. r = Append(q, p[n + 1])
    BY <2>3, <2>4, <2>5, SeqEqual
  <2>7. QED  BY <2>2, <2>6 DEF q, r
<1>7. QED  BY <1>4, <1>5, <1>6

LEMMA FrontPlace ==
  ASSUME NEW p \in Place, p # <<>>
  PROVE  /\ Front(p) \in Place /\ Last(p) \in Name /\ p = Append(Front(p), Last(p))
         /\ Len(p) \in Nat \ {0} /\ Len(Front(p)) = Len(p) - 1 /\ Front(p) = SubSeq(p, 1, Len(p) - 1)
<1>1. p \in Seq(Name) /\ Len(p) \in Nat \ {0}
  BY PlaceIsSeq, EmptySeq
<1> DEFINE n == Len(p) - 1
<1>2. n \in 0 .. Len(p) /\ n < Len(p) /\ n + 1 = Len(p)
  BY <1>1
<1>3. SubSeq(p, 1, Len(p)) = p
  BY <1>1, SubSeqFull
<1> HIDE DEF n
<1>4. QED  BY <1>1, <1>2, <1>3, PrefixPlace DEF Front, Last, n

-----------------------------------------------------------------------------
(* Types, the validated tokens and the iterator's state.                   *)

LEMMA StatType ==
  ASSUME TypeOK
  PROVE  /\ \A path : stat(path) \in Inode \cup {None}
         /\ \A p : Entries(p) \in [Name -> Inode \cup {None}]
BY DEF TypeOK, stat, Entries

LEMMA TokensType ==
  ASSUME policy \in Seq(Line)
  PROVE  tokenize(policy) \in Seq([command : Text, argument : Text])
<1>1. policy \in Seq(Seq(STRING))
  BY SetupAssumption, SeqMonotonic DEF Text
<1>2. QED  BY <1>1, TokenizeType DEF TokenSet, Text

\* A map is never fuller than it may be.
LEMMA AddKey ==
  ASSUME IsFiniteSet(InodeMap), Cardinality(InodeMap) <= InodeMapMax, InodeMap \subseteq Inode,
         NEW k \in Inode, HasRoom(k)
  PROVE  /\ IsFiniteSet(InodeMap \cup {k}) /\ Cardinality(InodeMap \cup {k}) <= InodeMapMax
         /\ InodeMap \cup {k} \subseteq Inode
<1>1. /\ IsFiniteSet(InodeMap \cup {k}) /\ Cardinality(InodeMap) \in Nat
      /\ Cardinality(InodeMap \cup {k}) =
           IF k \in InodeMap THEN Cardinality(InodeMap) ELSE Cardinality(InodeMap) + 1
  BY FS_AddElement, FS_CardinalityType
<1>2. QED  BY <1>1, SetupAssumption DEF HasRoom

LEMMA DropKey ==
  ASSUME IsFiniteSet(InodeMap), Cardinality(InodeMap) <= InodeMapMax, InodeMap \subseteq Inode, NEW k
  PROVE  /\ IsFiniteSet(InodeMap \ {k}) /\ Cardinality(InodeMap \ {k}) <= InodeMapMax
         /\ InodeMap \ {k} \subseteq Inode
<1>1. /\ IsFiniteSet(InodeMap \ {k}) /\ Cardinality(InodeMap) \in Nat
      /\ Cardinality(InodeMap \ {k}) =
           IF k \in InodeMap THEN Cardinality(InodeMap) - 1 ELSE Cardinality(InodeMap)
  BY FS_RemoveElement, FS_CardinalityType
<1>2. QED  BY <1>1, SetupAssumption

LEMMA InitType == Init => TypeInv
<1> SUFFICES ASSUME Init PROVE TypeInv
  OBVIOUS
<1>1. IsFiniteSet({}) /\ Cardinality({}) = 0
  BY FS_EmptySet
<1>2. /\ policy \in Seq(Line) /\ fs \in [Place -> Inode \cup {None}] /\ old \in SUBSET Place
      /\ loaded \in 0 .. 0 /\ 0 <= InodeMapMax /\ changes \in 0 .. MaxChanges
  BY SetupAssumption DEF Init
<1>3. /\ Len(include_dir) = 0 /\ include_dir \in Seq(Inode) /\ stack \in Seq(Frame) /\ pending \in Text
      /\ tokens \in Seq([command : Text, argument : Text])
  BY EmptySeq DEF Init, Text
<1>4. /\ pc \in Running \cup Ended /\ rule \in Nat \ {0} /\ attached \in BOOLEAN
      /\ InodeMap \in SUBSET Inode /\ Cardinality(InodeMap) <= InodeMapMax
      /\ loaded \in 0 .. Len(include_dir)
  <2>1. pc \in Running \cup Ended /\ rule \in Nat \ {0} /\ attached \in BOOLEAN
    <3>1. pc = "compile" /\ rule = 1 /\ attached = FALSE
      BY DEF Init
    <3>2. pc \in Running /\ rule \in Nat \ {0}
      BY <3>1 DEF Running
    <3>3. attached \in BOOLEAN
      BY <3>1
    <3>4. QED  BY <3>2, <3>3
  <2>2. InodeMap \in SUBSET Inode /\ Cardinality(InodeMap) <= InodeMapMax
    <3>1. InodeMap = {}
      BY DEF Init
    <3>2. QED  BY <1>1, <1>2, <3>1
  <2>3. loaded \in 0 .. Len(include_dir)
    <3>1. loaded = 0
      BY DEF Init
    <3>2. QED  BY <1>3, <3>1
  <2>4. QED  BY <2>1, <2>2, <2>3
<1>5. TypeOK
  BY <1>2, <1>3, <1>4 DEF TypeOK
<1>6. QED  BY <1>1, <1>5 DEF Init, TypeInv, PolicyInv, ScanInv, Past

\* A validated rule that includes has a path.
LEMMA RuleHasPath ==
  ASSUME semanticValidation(tokens), NEW i \in DOMAIN tokens,
         tokens[i].command \in {<<"D">>, <<"IF">>, <<"E">>}
  PROVE  tokens[i].argument # <<>> /\ tokens[i].argument[1] = "/"
BY DEF semanticValidation, Acceptable, starts_with

LEMMA TypeStep ==
  ASSUME TypeInv, [Next]_vars
  PROVE  TypeInv'
<1> USE DEF TypeInv, Goto
<1>1. CASE compile
  <2>1. /\ pc = "compile" /\ tokens' = tokenize(policy)
        /\ UNCHANGED <<policy, rule, pending, stack, include_dir, attached, loaded, InodeMap,
                       fs, old, changes>>
        /\ \/ pc' \in {"failed", "aborted"}
           \/ /\ pc' = "rules" /\ syntaxValidation(tokens') /\ semanticValidation(tokens')
              /\ ~RegexThrows(tokens')
    BY <1>1 DEF compile, kernel, world
  <2>2. tokens' \in Seq([command : Text, argument : Text])
    BY <2>1, TokensType DEF TypeOK
  <2>3. TypeOK'
    BY <2>1, <2>2 DEF TypeOK, Running, Ended
  <2>4. PolicyInv' /\ ScanInv'
    BY <2>1 DEF PolicyInv, ScanInv, Past
  <2>5. QED  BY <2>1, <2>3, <2>4
<1>2. CASE parseRule
  <2> DEFINE tk  == tokens[rule]
             key == stat(tk.argument)
  <2>1. /\ pc = "rules" /\ rule \in 1 .. Len(tokens)
        /\ UNCHANGED <<policy, tokens, attached, loaded, InodeMap, fs, old, changes>>
        /\ stack' = stack
    BY <1>2, LenProperties DEF parseRule, kernel, world, NextRule, TypeOK
  <2>2. tk \in [command : Text, argument : Text]
    BY <2>1, ElementOfSeq DEF TypeOK
  <2>3. key \in Inode \cup {None}
    BY StatType
  <2>4. \/ pc' = "rules" /\ rule' = rule + 1 /\ pending' = pending /\ include_dir' = include_dir
        \/ pc' = "failed" /\ UNCHANGED <<rule, pending, include_dir>>
        \/ /\ pc' = "rules" /\ rule' = rule + 1 /\ pending' = pending
           /\ key # None /\ include_dir' = include_dir \o <<key>>
        \/ /\ pc' = "scan" /\ pending' = tk.argument /\ rule' = rule /\ tk.command = <<"D">>
           /\ key # None /\ include_dir' = include_dir \o <<key>>
    BY <1>2 DEF parseRule, NextRule, Taken
  <2> HIDE DEF key
  <2>5. /\ include_dir' \in Seq(Inode) /\ Len(include_dir) \in Nat
        /\ include_dir' = include_dir \/ Len(include_dir') = Len(include_dir) + 1
    <3>1. include_dir \in Seq(Inode) /\ Len(include_dir) \in Nat
      BY LenProperties DEF TypeOK
    <3>2. CASE key # None /\ include_dir' = include_dir \o <<key>>
      BY <2>3, <3>1, <3>2, AppendIsConcat, AppendProperties
    <3>3. QED  BY <2>4, <3>1, <3>2
  <2>6. rule' \in Nat \ {0} /\ pc' \in {"rules", "failed", "scan"} /\ pending' \in Text
    BY <2>1, <2>2, <2>4 DEF TypeOK
  <2>7. TypeOK'
    BY <2>1, <2>5, <2>6 DEF TypeOK, Running, Ended
  <2>8. PolicyInv'
    BY <2>1, <2>6 DEF PolicyInv, Past
  <2>9. ScanInv'
    <3>1. ASSUME pc' = "scan" PROVE pending' # <<>> /\ tk.command = <<"D">> /\ rule' = rule
      <4>1. pending' = tk.argument /\ tk.command = <<"D">> /\ rule' = rule
        BY <2>4, <3>1
      <4>2. semanticValidation(tokens) /\ rule \in DOMAIN tokens
        BY <2>1, LenProperties DEF PolicyInv, TypeOK
      <4>3. QED  BY <4>1, <4>2, RuleHasPath
    <3>2. QED  BY <2>1, <3>1 DEF ScanInv
  <2>10. QED  BY <2>1, <2>7, <2>8, <2>9
<1>3. CASE scan_open
  <2>1. /\ pc = "scan" /\ UNCHANGED <<policy, tokens, rule, include_dir, attached, loaded, InodeMap,
                                      fs, old, changes>>
        /\ \/ /\ stat(pending) \in Dir /\ pc' = pc /\ pending' = <<>>
              /\ stack' = Append(stack, [path |-> pending, dir |-> stat(pending),
                                         listing |-> Entries(Resolve(pending)), seen |-> {}])
           \/ pc' = "aborted" /\ UNCHANGED <<stack, pending>>
    BY <1>3 DEF scan_open, kernel, world
  <2>2. stack' \in Seq(Frame) /\ (pc' = "scan" => stack' # <<>>)
    <3> DEFINE f == [path |-> pending, dir |-> stat(pending),
                     listing |-> Entries(Resolve(pending)), seen |-> {}]
    <3>1. CASE stat(pending) \in Dir /\ stack' = Append(stack, f)
      <4>1. f \in Frame
        BY <3>1, StatType DEF Frame, TypeOK
      <4> HIDE DEF f
      <4>2. QED  BY <3>1, <4>1, AppendProperties DEF TypeOK
    <3>2. QED  BY <2>1, <3>1 DEF TypeOK
  <2>3. TypeOK'
    BY <2>1, <2>2, EmptySeq DEF TypeOK, Running, Ended, Text
  <2>4. PolicyInv' /\ ScanInv'
    BY <2>1, <2>2 DEF PolicyInv, ScanInv, Past
  <2>5. QED  BY <2>1, <2>3, <2>4
<1>4. CASE scan_entry
  <2>1. PICK n \in Offered(Last(stack)) :
          Advance(n) /\ Turn(EntryPath(Last(stack).path, n), stat(EntryPath(Last(stack).path, n)))
    BY <1>4 DEF scan_entry
  <2>2. /\ pc = "scan" /\ pending = <<>>
        /\ UNCHANGED <<pc, policy, tokens, rule, attached, loaded, InodeMap, fs, old, changes>>
    BY <1>4 DEF scan_entry, kernel, world
  <2> DEFINE path == EntryPath(Last(stack).path, n)
             key  == stat(path)
  <2>3. stack # <<>> /\ Len(stack) \in 1 .. Len(stack) /\ Last(stack) \in Frame /\ n \in Name
    <3>1. stack # <<>> /\ stack \in Seq(Frame)
      BY <2>2 DEF ScanInv, TypeOK
    <3>2. Len(stack) \in Nat \ {0}
      BY <3>1, EmptySeq
    <3>3. QED  BY <3>1, <3>2, ElementOfSeq DEF Last, Offered
  <2>4. path \in Text
    BY <2>3, EntryResolve DEF Frame
  <2>5. key \in Inode \cup {None}
    BY StatType
  <2> HIDE DEF path, key
  <2>6. /\ pending' \in Text /\ include_dir' \in Seq(Inode)
        /\ loaded' \in 0 .. Len(include_dir')
    <3>1. include_dir \in Seq(Inode) /\ Len(include_dir) \in Nat /\ loaded \in 0 .. Len(include_dir)
      BY LenProperties DEF TypeOK
    <3>2. \/ UNCHANGED <<pending, include_dir>>
          \/ pending' = path /\ include_dir' = include_dir
          \/ pending' = path /\ key # None /\ include_dir' = Append(include_dir, key)
      BY <2>1 DEF Turn, path, key
    <3>3. key # None => /\ Append(include_dir, key) \in Seq(Inode)
                        /\ Len(Append(include_dir, key)) = Len(include_dir) + 1
      BY <2>5, <3>1, AppendProperties
    <3>4. pending' \in Text
      BY <2>4, <3>2 DEF TypeOK
    <3>5. include_dir' \in Seq(Inode) /\ Len(include_dir') \in {Len(include_dir), Len(include_dir) + 1}
      BY <3>1, <3>2, <3>3
    <3>6. QED  BY <2>2, <3>1, <3>4, <3>5
  <2>7. stack' \in Seq(Frame) /\ stack' # <<>>
    <3> DEFINE f == [Last(stack) EXCEPT !.seen = @ \cup {n}]
    <3>1. f \in Frame
      BY <2>3 DEF Frame
    <3>2. stack' = [stack EXCEPT ![Len(stack)] = f]
      BY <2>1, <2>3 DEF Advance, Last, TypeOK
    <3> HIDE DEF f
    <3>3. stack' \in Seq(Frame) /\ Len(stack') = Len(stack)
      BY <2>3, <3>1, <3>2, ExceptSeq DEF TypeOK
    <3>4. QED  BY <2>3, <3>3, EmptySeq
  <2>8. TypeOK'
    BY <2>2, <2>6, <2>7 DEF TypeOK
  <2>9. PolicyInv' /\ ScanInv'
    BY <2>2, <2>7 DEF PolicyInv, ScanInv
  <2>10. QED  BY <2>2, <2>8, <2>9
<1>5. CASE scan_close
  <2>1. /\ pc = "scan" /\ pending = <<>> /\ stack' = Front(stack)
        /\ UNCHANGED <<policy, tokens, pending, include_dir, attached, loaded, InodeMap, fs, old, changes>>
        /\ IF Len(stack) = 1 THEN pc' = "rules" /\ rule' = rule + 1 ELSE UNCHANGED <<pc, rule>>
    BY <1>5 DEF scan_close, kernel, world
  <2>2. stack \in Seq(Frame) /\ Len(stack) \in Nat \ {0} /\ \A i \in 1 .. Len(stack) : stack[i] \in Frame
    BY <2>1, EmptySeq, ElementOfSeq DEF ScanInv, TypeOK
  <2>3. stack' \in Seq(Frame) /\ Len(stack') = Len(stack) - 1
    <3> DEFINE m == Len(stack) - 1
    <3>1. m \in Int /\ m >= 0 /\ \A i \in 1 .. m : stack[i] \in Frame
      BY <2>2
    <3>2. /\ SubSeq(stack, 1, m) \in Seq(Frame)
          /\ Len(SubSeq(stack, 1, m)) = IF 1 <= m THEN m - 1 + 1 ELSE 0
      BY <3>1, SubSeqProperties
    <3>3. m = Len(stack) - 1 /\ stack' = SubSeq(stack, 1, m)
      BY <2>1 DEF Front
    <3> HIDE DEF m
    <3>4. Len(stack') = m
      BY <3>1, <3>2, <3>3
    <3>5. QED  BY <3>2, <3>3, <3>4
  <2>4. TypeOK'
    BY <2>1, <2>3 DEF TypeOK, Running
  <2>5. PolicyInv'
    BY <2>1 DEF PolicyInv
  <2>6. ScanInv'
    BY <2>1, <2>2, <2>3, EmptySeq DEF ScanInv
  <2>7. QED  BY <2>1, <2>4, <2>5, <2>6
<1>6. CASE compiled \/ open_and_load \/ attach \/ init
  <2>1. /\ UNCHANGED <<policy, tokens, rule, pending, stack, include_dir, loaded, InodeMap, fs, old, changes>>
        /\ \/ pc = "rules" /\ pc' = "open" /\ attached' = attached
           \/ pc = "open" /\ pc' \in {"attach", "failed"} /\ attached' = attached
           \/ pc = "attach" /\ pc' = "load" /\ attached' = TRUE
           \/ pc = "attach" /\ pc' = "failed" /\ attached' = attached
           \/ pc = "init" /\ pc' = "started" /\ attached' = attached
    BY <1>6 DEF compiled, open_and_load, attach, init, parser, kernel, world
  <2>2. TypeOK'
    BY <2>1 DEF TypeOK, Running, Ended
  <2>3. PolicyInv' /\ ScanInv'
    BY <2>1 DEF PolicyInv, ScanInv, Past
  <2>4. QED  BY <2>1, <2>2, <2>3
<1>7. CASE load_Inode_map
  <2>1. /\ pc = "load"
        /\ UNCHANGED <<policy, tokens, rule, pending, stack, include_dir, attached, fs, old, changes>>
        /\ \/ /\ loaded < Len(include_dir) /\ HasRoom(include_dir[loaded + 1]) /\ pc' = pc
              /\ InodeMap' = InodeMap \cup {include_dir[loaded + 1]} /\ loaded' = loaded + 1
           \/ pc' = "init" /\ UNCHANGED <<InodeMap, loaded>>
    BY <1>7 DEF load_Inode_map, parser, world
  <2>2. include_dir \in Seq(Inode) /\ Len(include_dir) \in Nat /\ loaded \in 0 .. Len(include_dir)
    BY LenProperties DEF TypeOK
  <2>3. loaded < Len(include_dir) => include_dir[loaded + 1] \in Inode /\ loaded + 1 \in 0 .. Len(include_dir)
    BY <2>2, ElementOfSeq
  <2>4. /\ IsFiniteSet(InodeMap') /\ Cardinality(InodeMap') <= InodeMapMax /\ InodeMap' \subseteq Inode
        /\ loaded' \in 0 .. Len(include_dir)
    BY <2>1, <2>2, <2>3, AddKey DEF TypeOK
  <2>5. TypeOK'
    BY <2>1, <2>4 DEF TypeOK, Running
  <2>6. PolicyInv' /\ ScanInv'
    BY <2>1 DEF PolicyInv, ScanInv, Past
  <2>7. QED  BY <2>4, <2>5, <2>6
<1>8. CASE Others
  <2>1. PICK p \in Place : MakeDir(p) \/ RemoveDir(p)
    BY <1>8 DEF Others
  <2>2. /\ UNCHANGED <<pc, policy, tokens, rule, pending, stack, include_dir, attached, loaded>>
        /\ changes' \in 0 .. MaxChanges
    BY <1>8, SetupAssumption DEF Others, parser, TypeOK
  <2>3. /\ IsFiniteSet(InodeMap') /\ Cardinality(InodeMap') <= InodeMapMax /\ InodeMap' \subseteq Inode
        /\ fs' \in [Place -> Inode \cup {None}] /\ old' \subseteq Place
    <3>1. CASE MakeDir(p)
      <4>1. PICK k \in Dir \ {fs[q] : q \in Place} :
              /\ fs' = [fs EXCEPT ![p] = k] /\ old' = old
              /\ InodeMap' = IF attached /\ fs[Front(p)] \in InodeMap /\ HasRoom(k)
                             THEN InodeMap \cup {k} ELSE InodeMap
        BY <3>1 DEF MakeDir
      <4>2. k \in Inode
        BY DEF Inode
      <4>3. fs' \in [Place -> Inode \cup {None}] /\ old' \subseteq Place
        BY <4>1, <4>2 DEF TypeOK
      <4>4. QED  BY <4>1, <4>2, <4>3, AddKey DEF TypeOK
    <3>2. CASE RemoveDir(p)
      <4>1. /\ fs' = [fs EXCEPT ![p] = None] /\ old' = old \ {p}
            /\ InodeMap' = IF attached THEN InodeMap \ {fs[p]} ELSE InodeMap
        BY <3>2 DEF RemoveDir
      <4>2. fs' \in [Place -> Inode \cup {None}] /\ old' \subseteq Place
        BY <4>1 DEF TypeOK
      <4>3. QED  BY <4>1, <4>2, DropKey DEF TypeOK
    <3>3. QED  BY <2>1, <3>1, <3>2
  <2>4. TypeOK'
    BY <2>2, <2>3 DEF TypeOK
  <2>5. PolicyInv' /\ ScanInv'
    BY <2>2 DEF PolicyInv, ScanInv
  <2>6. QED  BY <2>3, <2>4, <2>5
<1>9. CASE UNCHANGED vars
  BY <1>9 DEF vars, parser, kernel, world, TypeOK, PolicyInv, ScanInv
<1>10. QED
  BY <1>1, <1>2, <1>3, <1>4, <1>5, <1>6, <1>7, <1>8, <1>9 DEF Next, main

LEMMA TypeInvHolds == Spec => []TypeInv
<1>1. QED  BY InitType, TypeStep, PTL DEF Spec

(***************************************************************************)
(* Whatever the policy, the iterator and other processes do, the stack of  *)
(* the iterator is well formed, InodeMap holds inodes and never more than  *)
(* it has room for, and no more keys are loaded than were found.           *)
(***************************************************************************)
THEOREM TypeCorrect == Spec => []TypeOK
<1>1. TypeInv => TypeOK
  BY DEF TypeInv
<1>2. QED  BY <1>1, TypeInvHolds, PTL

-----------------------------------------------------------------------------
(* The policy is understood.                                               *)

\* The token of the line written for the rule r.
AsRead(r) == [command |-> r.command, argument |-> WithoutBlanks(r.argument)]

\* What has no b in it loses none.
LEMMA NoneDropped ==
  ASSUME NEW S, NEW b, NEW c \in Seq(S), \A i \in 1 .. Len(c) : c[i] # b
  PROVE  Without(c, {b}) = c
<1> DEFINE P == S \ {b}
<1>1. \A i \in 1 .. Len(c) : c[i] \in P
  BY ElementOfSeq
<1>2. P \cap {b} = {}
  OBVIOUS
<1> HIDE DEF P
<1>3. c \in Seq(P)
  <2>1. Len(c) \in Nat /\ c = [i \in 1 .. Len(c) |-> c[i]]
    BY LenProperties
  <2>2. [i \in 1 .. Len(c) |-> c[i]] \in Seq(P)
    BY <1>1, <2>1, IsASeq
  <2>3. QED  BY <2>1, <2>2
<1>4. QED  BY <1>2, <1>3, WithoutAll

\* A b before the argument, or none, makes no difference.
LEMMA GapDropped ==
  ASSUME NEW S, NEW b \in S, NEW a \in Seq(S), NEW gap \in {<<>>, <<b>>}
  PROVE  gap \o a \in Seq(S) /\ Without(gap \o a, {b}) = Without(a, {b})
<1>1. <<>> \in Seq(S) /\ <<b>> \in Seq(S)
  BY EmptySeq
<1>2. gap \o a \in Seq(S)
  BY <1>1, ConcatProperties
<1>3. CASE gap = <<>>
  BY <1>2, <1>3, EmptySeq
<1>4. CASE gap = <<b>>
  <2>1. Without(<<b>> \o a, {b}) = Without(a, {b})
    BY WithoutFirst
  <2>2. QED  BY <1>2, <1>4, <2>1
<1>5. QED  BY <1>3, <1>4

\* The name keeps the literal out of the obligations.
Blank == " "

LEMMA LineIsRead ==
  ASSUME NEW line \in Line
  PROVE  IF Skipped(line) THEN RuleOf(line) = None
         ELSE /\ RuleOf(line) # None /\ RuleOf(line) \in Rule
              /\ Token(line) = AsRead(RuleOf(line)) /\ Token(line) # NoToken
<1>1. CASE Skipped(line)
  BY <1>1, LineAssumption
<1>2. CASE ~Skipped(line)
  <2> DEFINE r == RuleOf(line)
             S == STRING \cup {":", Blank}
             c == r.command
             a == r.argument
  <2>1. r # None /\ r \in Rule
    BY <1>2, LineAssumption
  <2>2. PICK gap \in {<<>>, <<Blank>>} : line = c \o <<":">> \o (gap \o a)
    BY <1>2, LineAssumption, Zenon DEF Blank
  <2> HIDE DEF r
  <2>3. c \in Seq(S) /\ a \in Seq(S)
    <3>1. c \in Seq(STRING) /\ a \in Seq(STRING)
      BY <2>1 DEF Rule, Text
    <3>2. QED  BY <3>1, SeqMonotonic
  <2>4. \A i \in 1 .. Len(c) : c[i] # ":" /\ c[i] # Blank
    <3>1. {":", Blank} \cap ToSet(c) = {}
      BY <2>1, Zenon DEF Rule, Blank
    <3>2. QED  BY <2>3, <3>1, LenProperties DEF ToSet
  <2>5. ":" \in S /\ Blank \in S
    OBVIOUS
  <2> HIDE DEF c, a, S
  <2>6. gap \o a \in Seq(S) /\ Without(gap \o a, {Blank}) = Without(a, {Blank})
    BY <2>3, <2>5, GapDropped
  <2>7. split_once(line, ":") = <<c, gap \o a>>
    <3> DEFINE colon == ":"
               rest  == gap \o a
    <3>1. colon \in S /\ rest \in Seq(S) /\ \A i \in 1 .. Len(c) : c[i] # colon
      BY <2>4, <2>5, <2>6
    <3>2. line = c \o <<colon>> \o rest
      BY <2>2
    <3> HIDE DEF colon, rest
    <3>3. split_once(c \o <<colon>> \o rest, colon) = <<c, rest>>
      BY <2>3, <3>1, SplitWritten
    <3>4. QED  BY <3>2, <3>3 DEF colon, rest
  <2>8. WithoutBlanks(c) = c /\ WithoutBlanks(gap \o a) = WithoutBlanks(a)
    <3>1. Without(c, {Blank}) = c
      BY <2>3, <2>4, NoneDropped
    <3>2. QED  BY <2>6, <3>1, Zenon DEF WithoutBlanks, Blank
  <2>9. Token(line) = AsRead(r)
    <3> HIDE DEF WithoutBlanks
    <3>1. Token(line) = [command |-> WithoutBlanks(split_once(line, ":")[1]),
                         argument |-> WithoutBlanks(split_once(line, ":")[2])]
      BY DEF Token
    <3>2. split_once(line, ":")[1] = c /\ split_once(line, ":")[2] = gap \o a
      BY <2>7
    <3>3. QED  BY <2>8, <3>1, <3>2 DEF AsRead, c, a
  <2>10. Token(line) # NoToken
    BY SetupAssumption, TokenType DEF Text
  <2>11. QED  BY <1>2, <2>1, <2>9, <2>10 DEF r
<1>3. QED  BY <1>1, <1>2

Read(lines)     == [i \in DOMAIN lines |->
                      IF Skipped(lines[i]) THEN NoToken ELSE Token(lines[i])]
RulesOf(lines)  == [i \in DOMAIN lines |-> RuleOf(lines[i])]

\* The tokens tks read the rules, one by one.
ReadAs(tks, rules) == Len(tks) = Len(rules) /\ \A i \in 1 .. Len(rules) : tks[i] = AsRead(rules[i])

\* A token more reads a rule more.
LEMMA ReadAsAppend ==
  ASSUME NEW E, NEW M, NEW tks \in Seq(E), NEW rules \in Seq(M), NEW e \in E, NEW m \in M,
         ReadAs(tks, rules), e = AsRead(m)
  PROVE  ReadAs(Append(tks, e), Append(rules, m))
<1>1. /\ Len(Append(tks, e)) = Len(tks) + 1 /\ Append(tks, e)[Len(tks) + 1] = e
      /\ \A i \in 1 .. Len(tks) : Append(tks, e)[i] = tks[i]
  BY AppendProperties
<1>2. /\ Len(Append(rules, m)) = Len(rules) + 1 /\ Append(rules, m)[Len(rules) + 1] = m
      /\ \A i \in 1 .. Len(rules) : Append(rules, m)[i] = rules[i]
  BY AppendProperties
<1>3. Len(rules) \in Nat
  BY LenProperties
<1>4. ASSUME NEW i \in 1 .. Len(rules) + 1 PROVE Append(tks, e)[i] = AsRead(Append(rules, m)[i])
  <2>1. CASE i = Len(rules) + 1
    BY <1>1, <1>2, <2>1 DEF ReadAs
  <2>2. CASE i \in 1 .. Len(rules)
    BY <1>1, <1>2, <2>2 DEF ReadAs
  <2>3. i = Len(rules) + 1 \/ i \in 1 .. Len(rules)
    BY <1>3
  <2>4. QED  BY <2>1, <2>2, <2>3
<1>5. QED  BY <1>1, <1>2, <1>4 DEF ReadAs

LEMMA TokensAreRead ==
  ASSUME NEW lines \in Seq(Line)
  PROVE  /\ ReadAs(tokenize(lines), Without(RulesOf(lines), {None}))
         /\ Without(RulesOf(lines), {None}) \in Seq(Rule)
<1> DEFINE E == {NoToken} \cup {Token(line) : line \in Line}
           M == {RuleOf(line) : line \in Line}
           T == {t \in Seq(Line) : ReadAs(Without(Read(t), {NoToken}), Without(RulesOf(t), {None}))}
<1>1. <<>> \in T
  <2>1. <<>> \in Seq(Line) /\ DOMAIN <<>> = {}
    BY EmptySeq
  <2>2. Read(<<>>) = <<>> /\ RulesOf(<<>>) = <<>>
    BY <2>1 DEF Read, RulesOf
  <2>3. ReadAs(<<>>, <<>>)
    BY EmptySeq DEF ReadAs
  <2>4. QED  BY <2>1, <2>2, <2>3, WithoutEmpty
<1>2. ASSUME NEW t \in T, NEW line \in Line PROVE Append(t, line) \in T
  <2> DEFINE u == Append(t, line)
             r == IF Skipped(line) THEN NoToken ELSE Token(line)
  <2>1. t \in Seq(Line) /\ Len(t) \in Nat /\ DOMAIN t = 1 .. Len(t)
        /\ \A i \in 1 .. Len(t) : t[i] \in Line
    BY LenProperties, ElementOfSeq
  <2>2. /\ u \in Seq(Line) /\ Len(u) = Len(t) + 1 /\ DOMAIN u = 1 .. Len(t) + 1
        /\ u[Len(t) + 1] = line /\ \A i \in 1 .. Len(t) : u[i] = t[i]
    BY <2>1, AppendProperties, LenProperties
  <2>3. \A i \in 1 .. Len(t) :
          /\ (IF Skipped(t[i]) THEN NoToken ELSE Token(t[i])) \in E
          /\ RuleOf(t[i]) \in M
    BY <2>1
  <2>4. Read(t) \in Seq(E) /\ RulesOf(t) \in Seq(M)
    <3>1. Read(t) = [i \in 1 .. Len(t) |-> IF Skipped(t[i]) THEN NoToken ELSE Token(t[i])]
      BY <2>1 DEF Read
    <3>2. RulesOf(t) = [i \in 1 .. Len(t) |-> RuleOf(t[i])]
      BY <2>1 DEF RulesOf
    <3> HIDE DEF E, M
    <3>3. Read(t) \in Seq(E)
      BY <2>1, <2>3, <3>1, IsASeq
    <3>4. RulesOf(t) \in Seq(M)
      BY <2>1, <2>3, <3>2, IsASeq
    <3>5. QED  BY <3>3, <3>4
  <2>5. Len(Read(t)) = Len(t) /\ Len(RulesOf(t)) = Len(t)
    BY <2>1 DEF Read, RulesOf
  <2>6. r \in E /\ RuleOf(line) \in M
    OBVIOUS
  <2> HIDE DEF E, M, u
  <2>7. Read(u) = Append(Read(t), r)
    <3>1. Read(u) = [i \in 1 .. Len(t) + 1 |-> IF i = Len(t) + 1 THEN r ELSE Read(t)[i]]
      BY <2>1, <2>2 DEF Read
    <3> HIDE DEF r
    <3>2. Read(u) = [i \in 1 .. Len(Read(t)) + 1 |-> IF i = Len(Read(t)) + 1 THEN r ELSE Read(t)[i]]
      BY <2>5, <3>1
    <3>3. QED  BY <2>4, <2>6, <3>2, IsAppend
  <2>8. RulesOf(u) = Append(RulesOf(t), RuleOf(line))
    <3>1. RulesOf(u) = [i \in 1 .. Len(t) + 1 |->
                           IF i = Len(t) + 1 THEN RuleOf(line) ELSE RulesOf(t)[i]]
      BY <2>1, <2>2 DEF RulesOf
    <3>2. RulesOf(u) = [i \in 1 .. Len(RulesOf(t)) + 1 |->
                           IF i = Len(RulesOf(t)) + 1 THEN RuleOf(line) ELSE RulesOf(t)[i]]
      BY <2>5, <3>1
    <3>3. QED  BY <2>4, <2>6, <3>2, IsAppend
  <2>9. /\ Without(Read(u), {NoToken}) =
             IF r = NoToken THEN Without(Read(t), {NoToken}) ELSE Append(Without(Read(t), {NoToken}), r)
        /\ Without(RulesOf(u), {None}) =
             IF RuleOf(line) = None THEN Without(RulesOf(t), {None})
             ELSE Append(Without(RulesOf(t), {None}), RuleOf(line))
    <3> HIDE DEF r
    <3>1. Without(Append(Read(t), r), {NoToken}) =
             IF r \in {NoToken} THEN Without(Read(t), {NoToken}) ELSE Append(Without(Read(t), {NoToken}), r)
      BY <2>4, <2>6, WithoutAppend
    <3>2. Without(Append(RulesOf(t), RuleOf(line)), {None}) =
             IF RuleOf(line) \in {None} THEN Without(RulesOf(t), {None})
             ELSE Append(Without(RulesOf(t), {None}), RuleOf(line))
      BY <2>4, <2>6, WithoutAppend
    <3>3. QED  BY <2>7, <2>8, <3>1, <3>2
  <2>10. ReadAs(Without(Read(u), {NoToken}), Without(RulesOf(u), {None}))
    <3>1. ReadAs(Without(Read(t), {NoToken}), Without(RulesOf(t), {None}))
      OBVIOUS
    <3>2. Without(Read(t), {NoToken}) \in Seq(E) /\ Without(RulesOf(t), {None}) \in Seq(M)
      <4>1. Without(Read(t), {NoToken}) \in Seq(E \ {NoToken})
        BY <2>4, WithoutType
      <4>2. Without(RulesOf(t), {None}) \in Seq(M \ {None})
        BY <2>4, WithoutType
      <4>3. QED  BY <4>1, <4>2, SeqMonotonic
    <3>3. IF Skipped(line) THEN r = NoToken /\ RuleOf(line) = None
          ELSE r = AsRead(RuleOf(line)) /\ r # NoToken /\ RuleOf(line) # None
      BY LineIsRead
    <3> HIDE DEF r, T
    <3>4. CASE Skipped(line)
      BY <2>9, <3>1, <3>3, <3>4
    <3>5. CASE ~Skipped(line)
      <4>1. ReadAs(Append(Without(Read(t), {NoToken}), r),
                   Append(Without(RulesOf(t), {None}), RuleOf(line)))
        BY <2>6, <3>1, <3>2, <3>3, <3>5, ReadAsAppend
      <4>2. QED  BY <2>9, <3>3, <3>5, <4>1
    <3>6. QED  BY <3>4, <3>5
  <2>11. QED  BY <2>2, <2>10 DEF u
<1>3. T = Seq(Line)
  <2>1. T \subseteq Seq(Line)
    OBVIOUS
  <2> HIDE DEF T
  <2>2. QED  BY <1>1, <1>2, <2>1, SeqSetInduction
<1>4. tokenize(lines) = Without(Read(lines), {NoToken})
  BY DEF tokenize, Read
<1>5. Without(RulesOf(lines), {None}) \in Seq(Rule)
  <2>1. \A i \in 1 .. Len(lines) : RuleOf(lines[i]) \in Rule \cup {None}
    BY ElementOfSeq, LineIsRead
  <2>2. Len(lines) \in Nat /\ RulesOf(lines) = [i \in 1 .. Len(lines) |-> RuleOf(lines[i])]
    BY LenProperties DEF RulesOf
  <2>3. RulesOf(lines) \in Seq(Rule \cup {None})
    BY <2>1, <2>2, IsASeq
  <2>4. Without(RulesOf(lines), {None}) \in Seq((Rule \cup {None}) \ {None})
    BY <2>3, WithoutType
  <2>5. QED  BY <2>4, SeqMonotonic
<1>6. QED  BY <1>3, <1>4, <1>5

\* An argument without blanks is read as it is written.
LEMMA ArgumentIsRead ==
  ASSUME NEW r \in Rule, ~HasBlank(r.argument)
  PROVE  AsRead(r).argument = r.argument
<1> DEFINE a == r.argument
           S == STRING \ {" "}
<1>1. a \in Seq(STRING)
  BY DEF Rule, Text
<1>2. \A i \in 1 .. Len(a) : a[i] \in S
  <2>1. \A i \in 1 .. Len(a) : a[i] \in ToSet(a) /\ a[i] \in STRING
    BY <1>1, LenProperties, ElementOfSeq DEF ToSet
  <2>2. QED  BY <2>1 DEF HasBlank
<1> HIDE DEF a, S
<1>3. a \in Seq(S)
  <2>1. Len(a) \in Nat /\ a = [i \in 1 .. Len(a) |-> a[i]]
    BY <1>1, LenProperties
  <2>2. [i \in 1 .. Len(a) |-> a[i]] \in Seq(S)
    BY <1>2, <2>1, IsASeq
  <2>3. QED  BY <2>1, <2>2
<1>4. S \cap {" "} = {}
  BY DEF S
<1>5. WithoutBlanks(a) = a
  BY <1>3, <1>4, WithoutAll DEF WithoutBlanks
<1>6. QED  BY <1>5 DEF AsRead, a

\* The three passes let no rule through that the daemon cannot work with.
LEMMA AcceptedIsUsable ==
  ASSUME syntaxValidation(tokens), semanticValidation(tokens), ~RegexThrows(tokens), TypeOK,
         NEW i \in DOMAIN tokens, NEW r \in Rule, tokens[i] = AsRead(r)
  PROVE  ~Unusable(r)
<1> DEFINE arg == r.argument
<1>1. /\ tokens[i].command \in Commands /\ Acceptable(tokens[i])
      /\ tokens[i].command = r.command
  BY DEF syntaxValidation, semanticValidation, AsRead
<1>2. SUFFICES ASSUME ~HasBlank(arg)
               PROVE  /\ r.command \in {<<"D">>, <<"E">>, <<"IF">>} => starts_with(arg, "/")
                      /\ r.command = <<"API_URL">> => arg # <<>>
                      /\ r.command = <<"API_HEADER">> => \E k \in 2 .. Len(arg) - 1 : arg[k] = "="
                      /\ r.command = <<"EE">> => ~starts_with(arg, ".")
                      /\ r.command = <<"P">> => arg \notin BadRegex
  BY <1>1 DEF Unusable
<1>3. tokens[i].argument = arg
  BY <1>2, ArgumentIsRead
<1>4. r.command \in {<<"D">>, <<"E">>, <<"IF">>} => starts_with(arg, "/")
  BY <1>1, <1>3 DEF Acceptable
<1>5. r.command = <<"API_URL">> => arg # <<>>
  BY <1>1, <1>3 DEF Acceptable
<1>6. r.command = <<"EE">> => ~starts_with(arg, ".")
  BY <1>1, <1>3 DEF Acceptable
<1>7. ASSUME r.command = <<"API_HEADER">> PROVE \E k \in 2 .. Len(arg) - 1 : arg[k] = "="
  <2>1. \A j \in 1 .. 2 : split_once(arg, "=")[j] # <<>>
    BY <1>1, <1>3, <1>7 DEF Acceptable
  <2>2. split_once(arg, "=")[1] # <<>> /\ split_once(arg, "=")[2] # <<>>
    BY <2>1
  <2>3. arg \in Seq(STRING) /\ Len(arg) \in Nat
    BY LenProperties DEF Rule, Text
  <2> HIDE DEF arg
  <2>4. PICK k \in 1 .. Len(arg) :
          /\ arg[k] = "="
          /\ split_once(arg, "=") = <<SubSeq(arg, 1, k - 1), SubSeq(arg, k + 1, Len(arg))>>
    <3>1. split_once(arg, "=") # <<arg, <<>>>>
      BY <2>2
    <3>2. QED  BY <2>3, <3>1, SplitCases
  <2>5. SubSeq(arg, 1, k - 1) # <<>> /\ SubSeq(arg, k + 1, Len(arg)) # <<>>
    <3> DEFINE name  == SubSeq(arg, 1, k - 1)
               value == SubSeq(arg, k + 1, Len(arg))
    <3>1. split_once(arg, "=") = <<name, value>>
      BY <2>4
    <3> HIDE DEF name, value
    <3>2. split_once(arg, "=")[1] = name /\ split_once(arg, "=")[2] = value
      BY <3>1
    <3>3. name # <<>> /\ value # <<>>
      BY <2>2, <3>2
    <3>4. QED  BY <3>3 DEF name, value
  <2>6. k # 1 /\ k # Len(arg)
    <3>1. ASSUME NEW m \in Int, NEW n \in Int, n < m PROVE SubSeq(arg, m, n) = <<>>
      <4>1. SubSeq(arg, m, n) \in Seq(STRING) /\ Len(SubSeq(arg, m, n)) = 0
        BY <3>1, SubSeqProperties
      <4>2. QED  BY <4>1, EmptySeq
    <3>2. k = 1 => SubSeq(arg, 1, k - 1) = <<>>
      BY <3>1
    <3>3. k = Len(arg) => SubSeq(arg, k + 1, Len(arg)) = <<>>
      BY <2>3, <3>1
    <3>4. QED  BY <2>5, <3>2, <3>3
  <2>7. QED  BY <2>3, <2>4, <2>6
<1>8. r.command = <<"P">> => arg \notin BadRegex
  <2>1. tokens \in Seq([command : Text, argument : Text])
    BY DEF TypeOK
  <2>2. exclude_pattern(tokens) =
          {tokens[j].argument : j \in {n \in DOMAIN tokens : tokens[n].command = <<"P">>}}
    BY <2>1, ArgumentsSet DEF exclude_pattern
  <2>3. r.command = <<"P">> => arg \in exclude_pattern(tokens)
    BY <1>1, <1>3, <2>2
  <2>4. QED  BY <2>3 DEF RegexThrows
<1>9. QED  BY <1>4, <1>5, <1>6, <1>7, <1>8

(***************************************************************************)
(* Of every policy whose lines are written as the format has it, the       *)
(* daemon reads the rules in their order, each argument without a blank in *)
(* it exactly; and with a rule among them it cannot work with it attaches  *)
(* no hook, whichever of its passes has to find that out.                  *)
(***************************************************************************)
THEOREM PolicyUnderstood == Spec => []PolicyIsUnderstood
<1>1. TypeInv => PolicyIsUnderstood
  <2> SUFFICES ASSUME TypeInv PROVE PolicyIsUnderstood
    OBVIOUS
  <2> DEFINE rules == Without([i \in DOMAIN policy |-> RuleOf(policy[i])], {None})
  <2>1. ReadAs(tokenize(policy), rules) /\ rules \in Seq(Rule)
    BY TokensAreRead DEF TypeInv, TypeOK, RulesOf
  <2>2. pc # "compile" => ReadAs(tokens, rules)
    BY <2>1 DEF TypeInv, PolicyInv
  <2> HIDE DEF rules
  <2>3. DOMAIN rules = 1 .. Len(rules) /\ \A i \in DOMAIN rules : rules[i] \in Rule
    BY <2>1, LenProperties, ElementOfSeq
  <2>4. ASSUME pc # "compile", NEW i \in DOMAIN rules
        PROVE  /\ tokens[i].command = rules[i].command
               /\ HasBlank(rules[i].argument) \/ tokens[i].argument = rules[i].argument
    <3>1. tokens[i] = AsRead(rules[i]) /\ rules[i] \in Rule
      BY <2>2, <2>3, <2>4 DEF ReadAs
    <3>2. tokens[i].command = rules[i].command
      BY <3>1 DEF AsRead
    <3>3. QED  BY <3>1, <3>2, ArgumentIsRead
  <2>5. ASSUME attached, NEW i \in DOMAIN rules PROVE ~Unusable(rules[i])
    <3>1. /\ pc # "compile" /\ syntaxValidation(tokens) /\ semanticValidation(tokens)
          /\ ~RegexThrows(tokens)
      BY <2>5 DEF TypeInv, PolicyInv, Past
    <3>2. i \in DOMAIN tokens /\ tokens[i] = AsRead(rules[i]) /\ rules[i] \in Rule
      <4>1. DOMAIN tokens = 1 .. Len(tokens)
        BY LenProperties DEF TypeInv, TypeOK
      <4>2. QED  BY <2>2, <2>3, <3>1, <4>1 DEF ReadAs
    <3>3. QED  BY <3>1, <3>2, AcceptedIsUsable DEF TypeInv
  <2>6. pc # "compile" => Len(tokens) = Len(rules)
    BY <2>2 DEF ReadAs
  <2>7. QED  BY <2>4, <2>5, <2>6 DEF PolicyIsUnderstood, rules
<1>2. QED  BY <1>1, TypeInvHolds, PTL

-----------------------------------------------------------------------------
(* The tree.                                                               *)

\* The tree stays one, and what is above a directory that stays has stayed.
TreeInv ==
  /\ WellFormed(fs)
  /\ \A p \in old : fs[p] \in Dir /\ \A n \in 0 .. Len(p) : SubSeq(p, 1, n) \in old

LEMMA DirsAbove ==
  ASSUME WellFormed(fs), NEW p \in Place, fs[p] \in Dir, NEW n \in 0 .. Len(p)
  PROVE  fs[SubSeq(p, 1, n)] \in Dir
<1> DEFINE up(j) == SubSeq(p, 1, Len(p) - j)
           T == {j \in Nat : j <= Len(p) => fs[up(j)] \in Dir}
<1>1. p \in Seq(Name) /\ Len(p) \in Nat
  BY PlaceIsSeq, LenProperties
<1>2. 0 \in T
  <2>1. SubSeq(p, 1, Len(p)) = p /\ Len(p) - 0 = Len(p)
    BY <1>1, SubSeqFull
  <2>2. QED  BY <2>1
<1>3. ASSUME NEW j \in T PROVE j + 1 \in T
  <2>1. SUFFICES ASSUME j + 1 <= Len(p) PROVE fs[up(j + 1)] \in Dir
    OBVIOUS
  <2> DEFINE m == Len(p) - j
             q == SubSeq(p, 1, m)
  <2>2. m \in 1 .. Len(p) /\ fs[q] \in Dir /\ m - 1 \in 0 .. m
    BY <1>1, <2>1
  <2>3. q \in Place /\ Len(q) = m /\ \A i \in 0 .. m : SubSeq(q, 1, i) = SubSeq(p, 1, i)
    BY <1>1, <2>2, PrefixPlace
  <2>4. q # <<>>
    <3> HIDE DEF q
    <3>1. QED  BY <1>1, <2>2, <2>3, EmptySeq
  <2>5. Front(q) = SubSeq(p, 1, m - 1)
    <3> HIDE DEF q
    <3>1. Front(q) = SubSeq(q, 1, Len(q) - 1)
      BY <2>3, <2>4, FrontPlace
    <3>2. QED  BY <2>2, <2>3, <3>1
  <2>6. fs[q] # None
    BY <2>2, SetupAssumption DEF Inode
  <2>7. fs[Front(q)] \in Dir
    BY <2>3, <2>4, <2>6 DEF WellFormed
  <2>8. m - 1 = Len(p) - (j + 1)
    BY <1>1
  <2>9. QED  BY <2>5, <2>7, <2>8
<1>4. T = Nat
  <2>1. T \subseteq Nat
    OBVIOUS
  <2> HIDE DEF T
  <2>2. QED  BY <1>2, <1>3, <2>1, NatSetInduction
<1>5. Len(p) - n \in Nat /\ Len(p) - n <= Len(p) /\ Len(p) - (Len(p) - n) = n
  BY <1>1
<1>6. QED  BY <1>4, <1>5

LEMMA TreeInit == Init => TreeInv
<1> SUFFICES ASSUME Init PROVE TreeInv
  OBVIOUS
<1>1. WellFormed(fs)
  BY TreeAssumption DEF Init
<1>2. ASSUME NEW p \in old PROVE fs[p] \in Dir /\ \A n \in 0 .. Len(p) : SubSeq(p, 1, n) \in old
  <2>1. p \in Place /\ fs[p] \in Dir
    BY DEF Init
  <2>2. \A n \in 0 .. Len(p) : SubSeq(p, 1, n) \in Place /\ fs[SubSeq(p, 1, n)] \in Dir
    BY <1>1, <2>1, DirsAbove, PrefixPlace
  <2>3. QED  BY <2>1, <2>2 DEF Init
<1>3. QED  BY <1>1, <1>2 DEF TreeInv

\* Only what is empty is removed, and only where nothing is is something made.
LEMMA MakeTree ==
  ASSUME TypeOK, TreeInv, NEW p \in Place, MakeDir(p)
  PROVE  TreeInv' /\ old' = old /\ \A q \in old : fs'[q] = fs[q]
<1>1. PICK k \in Dir \ {fs[q] : q \in Place} :
        /\ p # <<>> /\ fs[p] = None /\ fs[Front(p)] \in Dir
        /\ fs' = [fs EXCEPT ![p] = k] /\ old' = old
  BY DEF MakeDir
<1>2. fs'[p] = k /\ \A q \in Place \ {p} : fs'[q] = fs[q]
  BY <1>1 DEF TypeOK
<1>3. None \notin Dir
  BY SetupAssumption DEF Inode
<1>4. \A q \in Place : fs[q] \in Dir => q # p
  BY <1>1, <1>3
<1>5. \A q \in old : q \in Place /\ fs'[q] = fs[q]
  BY <1>2, <1>4 DEF TypeOK, TreeInv
<1>6. ASSUME NEW q \in Place \ {<<>>}, fs'[q] # None PROVE fs'[Front(q)] \in Dir
  <2>1. Front(q) \in Place
    BY FrontPlace
  <2>2. fs[Front(q)] \in Dir
    BY <1>1, <1>2, <1>6 DEF TreeInv, WellFormed
  <2>3. QED  BY <1>2, <1>4, <2>1, <2>2
<1>7. ASSUME NEW q \in Place, NEW r \in Place, fs'[q] \in Dir, fs'[q] = fs'[r] PROVE q = r
  <2>1. CASE q = p \/ r = p
    BY <1>1, <1>2, <1>7, <2>1
  <2>2. CASE q # p /\ r # p
    BY <1>2, <1>7, <2>2 DEF TreeInv, WellFormed
  <2>3. QED  BY <2>1, <2>2
<1>8. WellFormed(fs')
  BY <1>6, <1>7 DEF WellFormed
<1>9. QED  BY <1>1, <1>5, <1>8 DEF TreeInv

LEMMA RemoveTree ==
  ASSUME TypeOK, TreeInv, NEW p \in Place, RemoveDir(p)
  PROVE  TreeInv' /\ old' = old \ {p} /\ \A q \in old' : fs'[q] = fs[q]
<1>1. /\ p # <<>> /\ fs[p] \in Dir /\ \A n \in Name : Entries(p)[n] = None
      /\ fs' = [fs EXCEPT ![p] = None] /\ old' = old \ {p}
  BY DEF RemoveDir
<1>2. fs'[p] = None /\ \A q \in Place \ {p} : fs'[q] = fs[q]
  BY <1>1 DEF TypeOK
<1>3. None \notin Dir
  BY SetupAssumption DEF Inode
<1>4. ASSUME NEW q \in Place, q # <<>>, Front(q) = p PROVE fs[q] = None
  <2>1. Last(q) \in Name /\ q = Append(p, Last(q))
    BY <1>4, FrontPlace
  <2>2. Entries(p)[Last(q)] = fs[q]
    BY <2>1 DEF Entries
  <2>3. QED  BY <1>1, <2>1, <2>2
<1>5. ASSUME NEW q \in Place \ {<<>>}, fs'[q] # None PROVE fs'[Front(q)] \in Dir
  <2>1. Front(q) \in Place /\ fs[q] # None
    BY <1>2, <1>5, FrontPlace
  <2>2. fs[Front(q)] \in Dir /\ Front(q) # p
    BY <1>4, <2>1 DEF TreeInv, WellFormed
  <2>3. QED  BY <1>2, <2>1, <2>2
<1>6. ASSUME NEW q \in Place, NEW r \in Place, fs'[q] \in Dir, fs'[q] = fs'[r] PROVE q = r
  BY <1>2, <1>3, <1>6 DEF TreeInv, WellFormed
<1>7. WellFormed(fs')
  BY <1>5, <1>6 DEF WellFormed
<1>8. ASSUME NEW q \in old' PROVE fs'[q] = fs[q] /\ fs[q] \in Dir /\ q \in Place /\ q \in old /\ q # p
  BY <1>1, <1>2 DEF TypeOK, TreeInv
<1>9. ASSUME NEW q \in old', NEW n \in 0 .. Len(q) PROVE SubSeq(q, 1, n) \in old'
  <2>1. q \in Place /\ q \in Seq(Name) /\ Len(q) \in Nat /\ SubSeq(q, 1, n) \in old
    BY <1>8, PlaceIsSeq, LenProperties DEF TreeInv
  <2>2. ASSUME SubSeq(q, 1, n) = p PROVE FALSE
    <3>1. n < Len(q)
      <4>1. SubSeq(q, 1, Len(q)) = q
        BY <2>1, SubSeqFull
      <4>2. QED  BY <1>8, <2>1, <2>2, <4>1
    <3> DEFINE r == SubSeq(q, 1, n + 1)
    <3>2. n + 1 \in 0 .. Len(q) /\ n \in 0 .. n + 1
      BY <2>1, <3>1
    <3>3. r \in Place /\ Len(r) = n + 1 /\ SubSeq(r, 1, n) = SubSeq(q, 1, n)
      BY <2>1, <3>2, PrefixPlace
    <3>4. fs[r] \in Dir
      BY <1>8, <3>2 DEF TreeInv
    <3> HIDE DEF r
    <3>5. r # <<>> /\ n \in Nat
      BY <2>1, <3>3, EmptySeq
    <3>6. Front(r) = SubSeq(r, 1, Len(r) - 1)
      BY <3>3, <3>5, FrontPlace
    <3>7. Len(r) - 1 = n
      BY <3>3, <3>5
    <3>8. Front(r) = p
      BY <2>2, <3>3, <3>6, <3>7
    <3>9. QED  BY <1>3, <1>4, <3>3, <3>4, <3>5, <3>8
  <2>3. QED  BY <1>1, <2>1, <2>2
<1>10. QED  BY <1>1, <1>7, <1>8, <1>9 DEF TreeInv

\* What stays keeps its inode, whatever happens.
LEMMA TreeStep ==
  ASSUME TypeInv, TreeInv, [Next]_vars
  PROVE  TreeInv' /\ old' \subseteq old /\ \A p \in old' : fs'[p] = fs[p]
<1>1. CASE Others
  <2>1. PICK p \in Place : MakeDir(p) \/ RemoveDir(p)
    BY <1>1 DEF Others
  <2>2. QED  BY <2>1, MakeTree, RemoveTree DEF TypeInv
<1>2. CASE ~Others
  <2>1. UNCHANGED <<fs, old>>
    BY <1>2 DEF Next, main, vars, world, compile, parseRule, scan_open, scan_entry, scan_close,
                compiled, open_and_load, attach, load_Inode_map, init
  <2>2. QED  BY <2>1 DEF TreeInv
<1>3. QED  BY <1>1, <1>2

-----------------------------------------------------------------------------
(* What the rules reach is found.                                          *)

Barred == {Resolve(e) : e \in exclude_dir(tokens)}
Base   == Resolve(tokens[rule].argument)

Reached(i, p) == Reaches(tokens[i], p, Barred)
Found(p)      == fs[p] \in ToSet(include_dir)

\* The iterator still has to come to p: some directory above p is about to be
\* opened, or is open and has yet to return the next name towards p.
Coming(p, n) == pending # <<>> /\ Resolve(pending) = SubSeq(p, 1, n)
Open(f, p, n) ==
  /\ Resolve(f.path) = SubSeq(p, 1, n) /\ f.dir = fs[SubSeq(p, 1, n)]
  /\ p[n + 1] \notin f.seen /\ f.listing[p[n + 1]] = fs[SubSeq(p, 1, n + 1)]
Ahead(p) ==
  \E n \in Len(Base) .. Len(p) - 1 : Coming(p, n) \/ \E i \in DOMAIN stack : Open(stack[i], p, n)

CoverInv ==
  /\ pc = "compile" => rule = 1
  /\ pc \in {"rules", "scan"} \cup Past =>
       \A i \in DOMAIN tokens, p \in old : i < rule /\ Reached(i, p) => Found(p)
  /\ pc \in Past => \A i \in DOMAIN tokens : i < rule
  /\ pc = "scan" => \A p \in old : Reached(rule, p) => Found(p) \/ Ahead(p)

LEMMA BaseType ==
  ASSUME TypeInv, NEW i \in 1 .. Len(tokens)
  PROVE  /\ tokens[i] \in [command : Text, argument : Text] /\ tokens[i].argument \in Text
         /\ Resolve(tokens[i].argument) \in Text /\ Len(Resolve(tokens[i].argument)) \in Nat
         /\ i \in DOMAIN tokens
<1>1. tokens[i] \in [command : Text, argument : Text] /\ i \in DOMAIN tokens
  BY ElementOfSeq, LenProperties DEF TypeInv, TypeOK
<1>2. QED  BY <1>1, ResolveType, LenProperties DEF Text

\* A D rule reaches what is at or below its directory, past the exclusions.
LEMMA ReachedBelow ==
  ASSUME TypeInv, NEW i \in 1 .. Len(tokens), tokens[i].command = <<"D">>, NEW p \in Place, Reached(i, p)
  PROVE  LET base == Resolve(tokens[i].argument) IN
         /\ Len(base) \in 0 .. Len(p) /\ base = SubSeq(p, 1, Len(base)) /\ base \in Place
         /\ \A n \in Len(base) .. Len(p) : SubSeq(p, 1, n) \notin Barred
<1> DEFINE base == Resolve(tokens[i].argument)
<1>1. base \in Text /\ Len(base) \in Nat
  BY BaseType
<1>2. IsPrefix(base, p) /\ \A n \in Len(base) .. Len(p) : SubSeq(p, 1, n) \notin Barred
  BY DEF Reached, Reaches
<1> HIDE DEF base
<1>3. Len(base) <= Len(p) /\ SubSeq(base, 1, Len(base)) = SubSeq(p, 1, Len(base))
  BY <1>2 DEF IsPrefix
<1>4. SubSeq(base, 1, Len(base)) = base
  BY <1>1, SubSeqFull DEF Text
<1>5. p \in Seq(Name) /\ Len(p) \in Nat
  BY PlaceIsSeq, LenProperties
<1>6. Len(base) \in 0 .. Len(p) /\ base = SubSeq(p, 1, Len(base))
  BY <1>1, <1>3, <1>4, <1>5
<1>7. base \in Place
  BY <1>6, PrefixPlace
<1>8. QED  BY <1>2, <1>6, <1>7 DEF base

LEMMA NotExcluded ==
  ASSUME NEW path, Resolve(path) \notin Barred
  PROVE  ~Excluded(path)
BY DEF Barred, Excluded

\* A key found stays found, and what stays keeps its inode.
LEMMA FoundKeeps ==
  ASSUME TypeInv, include_dir' = include_dir \/ \E k \in Inode : include_dir' = Append(include_dir, k)
  PROVE  ToSet(include_dir) \subseteq ToSet(include_dir')
<1>1. include_dir \in Seq(Inode)
  BY DEF TypeInv, TypeOK
<1>2. ASSUME NEW k \in Inode, include_dir' = Append(include_dir, k)
      PROVE  ToSet(include_dir) \subseteq ToSet(include_dir')
  <2>1. ToSet(Append(include_dir, k)) = ToSet(include_dir) \cup {k}
    BY <1>1, ToSetAppend
  <2>2. QED  BY <1>2, <2>1
<1>3. QED  BY <1>2

\* While the tree, the stack and the rule stand still, so does what is ahead.
LEMMA AheadKeeps ==
  ASSUME TypeInv, TreeInv, NEW p \in old, \A q \in old' : q \in old /\ fs'[q] = fs[q], p \in old',
         pc = "scan", Reached(rule, p), TreeInv', UNCHANGED <<tokens, rule>>,
         NEW n \in Len(Base) .. Len(p) - 1, NEW f, Open(f, p, n)
  PROVE  Open(f, p, n)'
<1>1. p \in Place /\ p \in Seq(Name) /\ Len(p) \in Nat
  BY PlaceIsSeq, LenProperties DEF TypeInv, TypeOK
<1>2. rule \in 1 .. Len(tokens) /\ tokens[rule].command = <<"D">>
  BY DEF TypeInv, ScanInv
<1>3. Len(Base) \in 0 .. Len(p)
  BY <1>1, <1>2, ReachedBelow DEF Base
<1>4. n \in 0 .. Len(p) /\ n + 1 \in 0 .. Len(p)
  BY <1>1, <1>3
<1>5. SubSeq(p, 1, n) \in old' /\ SubSeq(p, 1, n + 1) \in old'
  BY <1>4 DEF TreeInv
<1>6. QED  BY <1>5 DEF Open

LEMMA CoverParse ==
  ASSUME TypeInv, TreeInv, CoverInv, parseRule
  PROVE  CoverInv'
<1> DEFINE tk   == tokens[rule]
           base == Resolve(tk.argument)
           key  == stat(tk.argument)
<1>1. /\ pc = "rules" /\ rule \in 1 .. Len(tokens)
      /\ UNCHANGED <<policy, tokens, stack, fs, old>>
  BY LenProperties DEF parseRule, NextRule, world, TypeInv, TypeOK
<1>2. \/ tk.command \notin {<<"D">>, <<"IF">>} /\ pc' = "rules" /\ rule' = rule + 1 /\ include_dir' = include_dir
      \/ pc' = "failed" /\ UNCHANGED <<rule, include_dir>>
      \/ Excluded(tk.argument) /\ pc' = "rules" /\ rule' = rule + 1 /\ include_dir' = include_dir
      \/ /\ key # None /\ include_dir' = include_dir \o <<key>>
         /\ \/ pc' = "scan" /\ pending' = tk.argument /\ rule' = rule
            \/ pc' = "rules" /\ rule' = rule + 1 /\ ~(tk.command = <<"D">> /\ key \in Dir)
  BY <1>1 DEF parseRule, NextRule, Goto, Taken
<1>3. include_dir' = include_dir \/ (include_dir' = Append(include_dir, key) /\ key \in Inode)
  <2>1. include_dir \in Seq(Inode) /\ key \in Inode \cup {None}
    BY StatType DEF TypeInv, TypeOK
  <2> HIDE DEF key
  <2>2. QED  BY <1>2, <2>1, AppendIsConcat
<1>4. ToSet(include_dir) \subseteq ToSet(include_dir')
  <2> HIDE DEF key
  <2>1. QED  BY <1>3, FoundKeeps
<1>5. ASSUME NEW p \in old, Reached(rule, p)
      PROVE  /\ tk.command \in {<<"D">>, <<"IF">>} /\ ~Excluded(tk.argument)
             /\ Len(base) \in 0 .. Len(p) /\ base = SubSeq(p, 1, Len(base))
             /\ key = fs[base] /\ key \in Dir /\ (tk.command = <<"IF">> => base = p)
  <2>1. p \in Place /\ p \in Seq(Name) /\ Len(p) \in Nat
    BY PlaceIsSeq, LenProperties DEF TypeInv, TypeOK
  <2>2. tk.command \in {<<"D">>, <<"IF">>}
    BY <1>5 DEF Reached, Reaches
  <2>3. /\ Len(base) \in 0 .. Len(p) /\ base = SubSeq(p, 1, Len(base)) /\ base \in Place
        /\ base \notin Barred /\ (tk.command = <<"IF">> => base = p)
    <3>1. CASE tk.command = <<"D">>
      <4>1. /\ Len(base) \in 0 .. Len(p) /\ base = SubSeq(p, 1, Len(base)) /\ base \in Place
            /\ \A n \in Len(base) .. Len(p) : SubSeq(p, 1, n) \notin Barred
        BY <1>1, <1>5, <2>1, <3>1, ReachedBelow
      <4>2. Len(base) \in Len(base) .. Len(p)
        BY <2>1, <4>1
      <4> HIDE DEF base
      <4>3. base \notin Barred
        BY <4>1, <4>2
      <4>4. QED  BY <3>1, <4>1, <4>3
    <3>2. CASE tk.command = <<"IF">>
      <4>1. p = base /\ p \notin Barred
        BY <1>5, <3>2 DEF Reached, Reaches
      <4> HIDE DEF base
      <4>2. QED  BY <2>1, <4>1, SubSeqFull
    <3>3. QED  BY <2>2, <3>1, <3>2
  <2>4. ~Excluded(tk.argument)
    BY <2>3, NotExcluded
  <2>5. key = fs[base]
    BY <2>3 DEF stat
  <2>6. base \in old
    BY <2>3 DEF TreeInv
  <2>7. key \in Dir
    BY <2>5, <2>6 DEF TreeInv
  <2>8. QED  BY <2>2, <2>3, <2>4, <2>5, <2>7
<1>6. ASSUME NEW p \in old, Reached(rule, p), key # None, include_dir' = include_dir \o <<key>>
      PROVE  base = p => Found(p)'
  <2>1. key \in Inode /\ include_dir' = Append(include_dir, key) /\ include_dir \in Seq(Inode)
    <3>1. key = fs[base] /\ key \in Dir
      BY <1>5, <1>6
    <3>2. include_dir \in Seq(Inode)
      BY DEF TypeInv, TypeOK
    <3> HIDE DEF key
    <3>3. QED  BY <1>6, <3>1, <3>2, AppendIsConcat DEF Inode
  <2>2. key \in ToSet(include_dir')
    <3> HIDE DEF key
    <3>1. QED  BY <2>1, ToSetAppend
  <2>3. key = fs[base] /\ fs' = fs
    BY <1>1, <1>5, <1>6
  <2>4. QED  BY <2>2, <2>3 DEF Found
<1>7. \A i, p : Reached(i, p)' <=> Reached(i, p)
  BY <1>1 DEF Reached, Barred
<1>8. \A p : Found(p) => Found(p)'
  BY <1>1, <1>4 DEF Found
<1>9. CASE pc' = "rules" /\ rule' = rule + 1
  <2>1. ASSUME NEW i \in DOMAIN tokens, NEW p \in old, i < rule + 1, Reached(i, p) PROVE Found(p)'
    <3>1. CASE i = rule
      <4>1. key # None /\ include_dir' = include_dir \o <<key>> /\ base = p
        <5>1. /\ tk.command \in {<<"D">>, <<"IF">>} /\ ~Excluded(tk.argument) /\ key \in Dir
              /\ (tk.command = <<"IF">> => base = p)
          BY <1>5, <2>1, <3>1
        <5> HIDE DEF key, base, tk
        <5>2. QED  BY <1>1, <1>2, <1>9, <5>1
      <4>2. QED  BY <1>6, <2>1, <3>1, <4>1
    <3>2. CASE i # rule
      <4>1. i < rule
        <5>1. i \in 1 .. Len(tokens) /\ Len(tokens) \in Nat
          BY LenProperties DEF TypeInv, TypeOK
        <5>2. QED  BY <1>1, <2>1, <3>2, <5>1
      <4>2. QED  BY <1>1, <1>8, <2>1, <4>1 DEF CoverInv
    <3>3. QED  BY <3>1, <3>2
  <2>2. QED  BY <1>1, <1>7, <1>9, <2>1 DEF CoverInv, Past
<1>10. CASE pc' = "scan"
  <2>1. /\ key # None /\ include_dir' = include_dir \o <<key>> /\ pending' = tk.argument /\ rule' = rule
    BY <1>2, <1>10
  <2>2. ASSUME NEW p \in old, Reached(rule, p) PROVE Found(p)' \/ Ahead(p)'
    <3>1. CASE base = p
      BY <1>6, <2>1, <2>2, <3>1
    <3>2. CASE base # p
      <4>1. p \in Seq(Name) /\ Len(p) \in Nat /\ SubSeq(p, 1, Len(p)) = p
        BY PlaceIsSeq, LenProperties, SubSeqFull DEF TypeInv, TypeOK
      <4>2. Len(base) \in 0 .. Len(p) /\ base = SubSeq(p, 1, Len(base))
        BY <1>5, <2>2
      <4> HIDE DEF base
      <4>3. Len(base) \in Len(base) .. Len(p) - 1
        BY <3>2, <4>1, <4>2
      <4>4. tk.argument # <<>>
        <5>1. tk.command = <<"D">>
          BY <1>1, <1>10, TypeStep DEF parseRule, NextRule, Goto
        <5>2. QED  BY <1>1, <5>1, RuleHasPath, BaseType DEF TypeInv, PolicyInv
      <4>5. Base' = base /\ base' = base
        BY <1>1, <2>1 DEF Base, base
      <4>6. pending' # <<>> /\ Resolve(pending') = SubSeq(p, 1, Len(base))
        BY <2>1, <4>2, <4>4 DEF base
      <4>7. PICK n \in Len(Base') .. Len(p) - 1 : n = Len(base)
        BY <4>3, <4>5
      <4>8. Coming(p, n)'
        BY <4>6, <4>7 DEF Coming
      <4>9. QED  BY <4>7, <4>8 DEF Ahead
    <3>3. QED  BY <3>1, <3>2
  <2>3. QED  BY <1>1, <1>7, <1>8, <1>10, <2>1, <2>2 DEF CoverInv, Past
<1>11. CASE pc' = "failed"
  BY <1>11 DEF CoverInv, Past
<1>12. QED  BY <1>2, <1>9, <1>10, <1>11


\* The step down from a directory the rule reaches through.
LEMMA StepDown ==
  ASSUME TypeInv, TreeInv, pc = "scan", NEW p \in old, Reached(rule, p),
         NEW n \in Len(Base) .. Len(p) - 1
  PROVE  LET q == SubSeq(p, 1, n)
             r == SubSeq(p, 1, n + 1)
         IN  /\ n + 1 \in Len(Base) .. Len(p) /\ (n + 1 = Len(p) => r = p) /\ Len(Base) \in Nat
             /\ q \in Place /\ r \in Place /\ r = Append(q, p[n + 1]) /\ p[n + 1] \in Name
             /\ fs[q] \in Dir /\ fs[r] \in Dir /\ r \notin Barred
<1>1. p \in Place /\ p \in Seq(Name) /\ Len(p) \in Nat /\ SubSeq(p, 1, Len(p)) = p
  BY PlaceIsSeq, LenProperties, SubSeqFull DEF TypeInv, TypeOK
<1>2. rule \in 1 .. Len(tokens) /\ tokens[rule].command = <<"D">>
  BY DEF TypeInv, ScanInv
<1>3. Len(Base) \in 0 .. Len(p) /\ \A m \in Len(Base) .. Len(p) : SubSeq(p, 1, m) \notin Barred
  BY <1>1, <1>2, ReachedBelow DEF Base
<1>4. n \in 0 .. Len(p) /\ n < Len(p) /\ n + 1 \in 0 .. Len(p) /\ n + 1 \in Len(Base) .. Len(p)
  BY <1>1, <1>3
<1>5. /\ SubSeq(p, 1, n) \in Place /\ SubSeq(p, 1, n + 1) \in Place
      /\ SubSeq(p, 1, n + 1) = Append(SubSeq(p, 1, n), p[n + 1]) /\ p[n + 1] \in Name
  BY <1>1, <1>4, PrefixPlace
<1>6. fs[SubSeq(p, 1, n)] \in Dir /\ fs[SubSeq(p, 1, n + 1)] \in Dir
  BY <1>4 DEF TreeInv
<1>7. SubSeq(p, 1, n + 1) \notin Barred
  BY <1>3, <1>4
<1>8. n + 1 = Len(p) => SubSeq(p, 1, n + 1) = p
  BY <1>1
<1>9. Len(Base) \in Nat
  BY <1>3
<1>10. QED  BY <1>4, <1>5, <1>6, <1>7, <1>8, <1>9

\* A turn of the scan keeps what is covered if it loses nothing that is ahead.
LEMMA CoverScan ==
  ASSUME TypeInv, CoverInv, pc = "scan", pc' = "scan", UNCHANGED <<tokens, rule, fs, old>>,
         ToSet(include_dir) \subseteq ToSet(include_dir'),
         \A p \in old : Reached(rule, p) /\ Ahead(p) => Found(p)' \/ Ahead(p)'
  PROVE  CoverInv'
<1>1. \A i, p : Reached(i, p)' <=> Reached(i, p)
  BY DEF Reached, Barred
<1>2. \A p : Found(p) => Found(p)'
  BY DEF Found
<1>3. QED  BY <1>1, <1>2 DEF CoverInv, Past

LEMMA CoverOpen ==
  ASSUME TypeInv, TreeInv, CoverInv, scan_open
  PROVE  CoverInv'
<1>1. CASE pc' = "aborted"
  BY <1>1 DEF CoverInv, Past
<1>2. CASE pc' # "aborted"
  <2> DEFINE g == [path |-> pending, dir |-> stat(pending),
                   listing |-> Entries(Resolve(pending)), seen |-> {}]
  <2>1. /\ pc = "scan" /\ pc' = "scan" /\ UNCHANGED <<tokens, rule, fs, old, include_dir>>
        /\ pending # <<>> /\ stack' = Append(stack, g)
    BY <1>2 DEF scan_open, world, Goto
  <2>2. /\ g.path = pending /\ g.dir = stat(pending) /\ g.listing = Entries(Resolve(pending))
        /\ g.seen = {}
    OBVIOUS
  <2>3. g \in Frame /\ stack \in Seq(Frame)
    <3>1. g.dir \in Dir
      BY <1>2 DEF scan_open, Goto
    <3>2. QED  BY <3>1, StatType DEF Frame, TypeInv, TypeOK
  <2> HIDE DEF g
  <2>4. /\ DOMAIN stack = 1 .. Len(stack) /\ DOMAIN stack' = 1 .. Len(stack) + 1 /\ Len(stack) \in Nat
        /\ stack'[Len(stack) + 1] = g /\ \A i \in DOMAIN stack : stack'[i] = stack[i]
    BY <2>1, <2>3, AppendProperties, LenProperties
  <2>5. ASSUME NEW p \in old, Reached(rule, p), Ahead(p) PROVE Ahead(p)'
    <3>1. PICK n \in Len(Base) .. Len(p) - 1 :
            Coming(p, n) \/ \E i \in DOMAIN stack : Open(stack[i], p, n)
      BY <2>5 DEF Ahead
    <3> DEFINE q == SubSeq(p, 1, n)
               r == SubSeq(p, 1, n + 1)
    <3>2. /\ q \in Place /\ r \in Place /\ r = Append(q, p[n + 1]) /\ p[n + 1] \in Name
      BY <2>1, <2>5, StepDown
    <3>3. CASE Coming(p, n)
      <4>1. Resolve(pending) = q
        BY <3>3 DEF Coming
      <4>2. stat(pending) = fs[q]
        BY <3>2, <4>1 DEF stat
      <4>3. Entries(Resolve(pending))[p[n + 1]] = fs[r]
        BY <3>2, <4>1 DEF Entries
      <4> HIDE DEF q, r
      <4>4. Resolve(g.path) = q /\ g.dir = fs[q] /\ p[n + 1] \notin g.seen /\ g.listing[p[n + 1]] = fs[r]
        BY <2>2, <4>1, <4>2, <4>3
      <4>5. Open(g, p, n)
        BY <4>4 DEF Open, q, r
      <4>6. PICK i \in DOMAIN stack' : stack'[i] = g
        BY <2>4
      <4>7. Open(stack[i], p, n)'
        BY <2>1, <4>5, <4>6 DEF Open
      <4>8. QED  BY <2>1, <3>1, <4>6, <4>7 DEF Ahead, Base
    <3>4. CASE \E i \in DOMAIN stack : Open(stack[i], p, n)
      <4>1. PICK i \in DOMAIN stack : Open(stack[i], p, n)
        BY <3>4
      <4>2. stack'[i] = stack[i] /\ i \in DOMAIN stack'
        BY <2>4
      <4>3. Open(stack[i], p, n)'
        BY <2>1, <4>1, <4>2 DEF Open
      <4>4. QED  BY <2>1, <3>1, <4>2, <4>3 DEF Ahead, Base
    <3>5. QED  BY <3>1, <3>3, <3>4
  <2>6. QED  BY <2>1, <2>5, CoverScan
<1>3. QED  BY <1>1, <1>2


LEMMA CoverEntry ==
  ASSUME TypeInv, TreeInv, CoverInv, scan_entry
  PROVE  CoverInv'
<1> DEFINE f == Last(stack)
           L == Len(stack)
<1>1. PICK m \in Offered(f) :
        Advance(m) /\ Turn(EntryPath(f.path, m), stat(EntryPath(f.path, m)))
  BY DEF scan_entry
<1> DEFINE path == EntryPath(f.path, m)
           key  == stat(path)
<1>2. /\ pc = "scan" /\ pc' = "scan" /\ pending = <<>> /\ UNCHANGED <<tokens, rule, fs, old>>
  BY DEF scan_entry, world
<1>3. stack \in Seq(Frame) /\ stack # <<>> /\ L \in 1 .. L /\ f = stack[L] /\ f \in Frame /\ m \in Name
  <2>1. stack \in Seq(Frame) /\ stack # <<>>
    BY <1>2 DEF TypeInv, TypeOK, ScanInv
  <2>2. Len(stack) \in Nat \ {0}
    BY <2>1, EmptySeq
  <2>3. QED  BY <1>1, <2>1, <2>2, ElementOfSeq DEF Last, Offered
<1>4. /\ DOMAIN stack' = DOMAIN stack /\ DOMAIN stack = 1 .. L
      /\ \A i \in DOMAIN stack : i # L => stack'[i] = stack[i]
      /\ stack'[L] = [f EXCEPT !.seen = @ \cup {m}]
  BY <1>1, <1>3, LenProperties DEF Advance
<1>5. /\ stack'[L].path = f.path /\ stack'[L].dir = f.dir /\ stack'[L].listing = f.listing
      /\ stack'[L].seen = f.seen \cup {m}
  BY <1>3, <1>4 DEF Frame
<1>6. path # <<>> /\ Resolve(path) = Append(Resolve(f.path), m)
  BY <1>3, EntryResolve DEF Frame
<1>7. \/ UNCHANGED <<pending, include_dir>> /\ (key \in File \/ Excluded(path))
      \/ /\ pending' = path /\ key \notin File
         /\ include_dir' = IF key = None THEN include_dir ELSE Append(include_dir, key)
  BY <1>1 DEF Turn
<1>8. include_dir \in Seq(Inode) /\ key \in Inode \cup {None}
  BY StatType DEF TypeInv, TypeOK
<1>9. ToSet(include_dir) \subseteq ToSet(include_dir')
  <2> HIDE DEF key, path
  <2>1. include_dir' = include_dir \/ (include_dir' = Append(include_dir, key) /\ key \in Inode)
    BY <1>7, <1>8
  <2>2. QED  BY <2>1, FoundKeeps
<1>10. ASSUME NEW p \in old, Reached(rule, p), Ahead(p) PROVE Found(p)' \/ Ahead(p)'
  <2>1. PICK n \in Len(Base) .. Len(p) - 1 : \E i \in DOMAIN stack : Open(stack[i], p, n)
    BY <1>2, <1>10 DEF Ahead, Coming
  <2>2. PICK i \in DOMAIN stack : Open(stack[i], p, n)
    BY <2>1
  <2> DEFINE q == SubSeq(p, 1, n)
             r == SubSeq(p, 1, n + 1)
  <2>3. /\ n + 1 \in Len(Base) .. Len(p) /\ (n + 1 = Len(p) => r = p) /\ Len(Base) \in Nat
        /\ q \in Place /\ r \in Place /\ r = Append(q, p[n + 1]) /\ p[n + 1] \in Name
        /\ fs[r] \in Dir /\ r \notin Barred
    BY <1>2, <1>10, <2>1, StepDown
  <2>4. CASE i = L /\ p[n + 1] = m
    <3>1. Resolve(path) = r
      BY <1>3, <1>6, <2>2, <2>3, <2>4 DEF Open
    <3>2. key = fs[r]
      BY <2>3, <3>1 DEF stat
    <3>3. key \in Dir /\ key \notin File /\ key # None /\ key \in Inode
      BY <2>3, <3>2, SetupAssumption DEF Inode
    <3>4. ~Excluded(path)
      BY <2>3, <3>1, NotExcluded
    <3> HIDE DEF key, path, q, r
    <3>5. pending' = path /\ include_dir' = Append(include_dir, key)
      BY <1>7, <3>3, <3>4
    <3>6. CASE n + 1 = Len(p)
      <4>1. key \in ToSet(include_dir')
        BY <1>8, <3>3, <3>5, ToSetAppend
      <4>2. fs'[p] = key
        BY <1>2, <2>3, <3>2, <3>6
      <4>3. QED  BY <4>1, <4>2 DEF Found
    <3>7. CASE n + 1 # Len(p)
      <4>1. n + 1 \in Len(Base) .. Len(p) - 1
        <5>1. p \in Place
          BY DEF TypeInv, TypeOK
        <5>2. Len(p) \in Nat
          BY <5>1, PlaceIsSeq, LenProperties
        <5>3. QED  BY <2>3, <3>7, <5>2
      <4>2. Coming(p, n + 1)'
        BY <1>6, <3>1, <3>5 DEF Coming, r
      <4>3. Base' = Base
        BY <1>2 DEF Base
      <4>4. QED  BY <4>1, <4>2, <4>3 DEF Ahead
    <3>8. QED  BY <3>6, <3>7
  <2>5. CASE ~(i = L /\ p[n + 1] = m)
    <3>1. /\ stack'[i].path = stack[i].path /\ stack'[i].dir = stack[i].dir
          /\ stack'[i].listing = stack[i].listing /\ p[n + 1] \notin stack'[i].seen
      BY <1>3, <1>4, <1>5, <2>2, <2>5 DEF Open
    <3>2. Open(stack[i], p, n)'
      BY <1>2, <2>2, <3>1 DEF Open
    <3>3. QED  BY <1>2, <1>4, <2>1, <2>2, <3>2 DEF Ahead, Base
  <2>6. QED  BY <2>4, <2>5
<1>11. QED  BY <1>2, <1>9, <1>10, CoverScan

LEMMA CoverClose ==
  ASSUME TypeInv, TreeInv, CoverInv, scan_close
  PROVE  CoverInv'
<1> DEFINE f == Last(stack)
           L == Len(stack)
<1>1. /\ pc = "scan" /\ pending = <<>> /\ Owed(f) = {} /\ stack' = Front(stack)
      /\ UNCHANGED <<tokens, pending, include_dir, fs, old>>
      /\ IF L = 1 THEN pc' = "rules" /\ rule' = rule + 1 ELSE UNCHANGED <<pc, rule>>
  BY DEF scan_close, world, Goto
<1>2. stack \in Seq(Frame) /\ L \in Nat \ {0} /\ f = stack[L] /\ DOMAIN stack = 1 .. L
  BY <1>1, EmptySeq, LenProperties DEF TypeInv, TypeOK, ScanInv, Last
<1>3. DOMAIN stack' = 1 .. L - 1 /\ \A i \in 1 .. L - 1 : stack'[i] = stack[i]
  BY <1>1, <1>2 DEF Front
<1>4. ASSUME NEW p \in old, Reached(rule, p), Ahead(p)
      PROVE  \E n \in Len(Base) .. Len(p) - 1 : \E i \in 1 .. L - 1 : Open(stack[i], p, n)
  <2>1. PICK n \in Len(Base) .. Len(p) - 1 : \E i \in DOMAIN stack : Open(stack[i], p, n)
    BY <1>1, <1>4 DEF Ahead, Coming
  <2>2. PICK i \in DOMAIN stack : Open(stack[i], p, n)
    BY <2>1
  <2> DEFINE q == SubSeq(p, 1, n)
             r == SubSeq(p, 1, n + 1)
  <2>3. /\ q \in Place /\ r \in Place /\ r = Append(q, p[n + 1]) /\ p[n + 1] \in Name
        /\ fs[r] \in Dir
    BY <1>1, <1>4, <2>1, StepDown
  <2>4. ASSUME i = L PROVE FALSE
    <3>1. /\ Resolve(f.path) = q /\ f.dir = fs[q] /\ p[n + 1] \notin f.seen
          /\ f.listing[p[n + 1]] = fs[r]
      BY <1>2, <2>2, <2>4 DEF Open
    <3>2. stat(f.path) = fs[q]
      BY <2>3, <3>1 DEF stat
    <3>3. Holds(f, p[n + 1]) = fs[r]
      BY <2>3, <3>1, <3>2 DEF Holds, Entries
    <3>4. fs[r] # None
      BY <2>3, SetupAssumption DEF Inode
    <3> HIDE DEF q, r, f
    <3>5. p[n + 1] \in Owed(f)
      BY <2>3, <3>1, <3>3, <3>4 DEF Owed
    <3>6. QED  BY <1>1, <3>5
  <2>5. i \in 1 .. L - 1
    BY <1>2, <2>4
  <2>6. QED  BY <2>1, <2>2, <2>5
<1>5. CASE L = 1
  <2>1. \A p \in old : Reached(rule, p) => Found(p)
    BY <1>1, <1>4, <1>5 DEF CoverInv
  <2>2. pc' = "rules" /\ rule' = rule + 1
    BY <1>1, <1>5
  <2>3. \A i, p : Reached(i, p)' <=> Reached(i, p)
    BY <1>1 DEF Reached, Barred
  <2>4. \A p : Found(p) => Found(p)'
    BY <1>1 DEF Found
  <2>5. ASSUME NEW i \in DOMAIN tokens, i < rule + 1 PROVE i < rule \/ i = rule
    <3>1. i \in Nat /\ rule \in Nat
      BY LenProperties DEF TypeInv, TypeOK
    <3>2. QED  BY <2>5, <3>1
  <2>6. QED  BY <1>1, <2>1, <2>2, <2>3, <2>4, <2>5 DEF CoverInv, Past
<1>6. CASE L # 1
  <2>1. pc' = "scan" /\ rule' = rule
    BY <1>1, <1>6
  <2>2. ASSUME NEW p \in old, Reached(rule, p), Ahead(p) PROVE Ahead(p)'
    <3>1. PICK n \in Len(Base) .. Len(p) - 1 : \E i \in 1 .. L - 1 : Open(stack[i], p, n)
      BY <1>4, <2>2
    <3>2. PICK i \in 1 .. L - 1 : Open(stack[i], p, n)
      BY <3>1
    <3>3. Open(stack[i], p, n)'
      BY <1>1, <1>3, <3>2 DEF Open
    <3>4. QED  BY <1>1, <1>3, <2>1, <3>1, <3>2, <3>3 DEF Ahead, Base
  <2>3. QED  BY <1>1, <2>1, <2>2, CoverScan
<1>7. QED  BY <1>5, <1>6

LEMMA CoverOthers ==
  ASSUME TypeInv, TreeInv, CoverInv, Others
  PROVE  CoverInv'
<1>1. TreeInv' /\ old' \subseteq old /\ \A p \in old' : fs'[p] = fs[p]
  BY TreeStep DEF Next
<1>2. UNCHANGED <<pc, tokens, rule, pending, stack, include_dir>>
  BY DEF Others, parser
<1>3. \A i, p : Reached(i, p)' <=> Reached(i, p)
  BY <1>2 DEF Reached, Barred
<1>4. \A p \in old' : Found(p) => Found(p)'
  BY <1>1, <1>2 DEF Found
<1>5. ASSUME pc = "scan", NEW p \in old', Reached(rule, p), Ahead(p) PROVE Ahead(p)'
  <2>1. PICK n \in Len(Base) .. Len(p) - 1 :
          Coming(p, n) \/ \E i \in DOMAIN stack : Open(stack[i], p, n)
    BY <1>5 DEF Ahead
  <2>2. Coming(p, n) => Coming(p, n)'
    BY <1>2 DEF Coming
  <2>3. ASSUME NEW i \in DOMAIN stack, Open(stack[i], p, n) PROVE Open(stack[i], p, n)'
    <3>1. PICK f : f = stack[i]
      OBVIOUS
    <3>2. Open(f, p, n)'
      BY <1>1, <1>2, <1>5, <2>1, <2>3, <3>1, AheadKeeps
    <3>3. stack'[i] = f
      BY <1>2, <3>1
    <3>4. QED  BY <3>2, <3>3 DEF Open
  <2>4. QED  BY <1>2, <2>1, <2>2, <2>3 DEF Ahead, Base
<1>6. QED  BY <1>1, <1>2, <1>3, <1>4, <1>5 DEF CoverInv

LEMMA CoverStep ==
  ASSUME TypeInv, TreeInv, CoverInv, [Next]_vars
  PROVE  CoverInv'
<1>1. CASE compile
  <2>1. pc' \in {"failed", "aborted", "rules"} /\ rule' = 1
    BY <1>1 DEF compile, Goto, CoverInv
  <2>2. tokens' \in Seq([command : Text, argument : Text])
    BY TypeStep DEF TypeInv, TypeOK
  <2>3. \A i \in DOMAIN tokens' : ~(i < 1)
    BY <2>2, LenProperties
  <2>4. QED  BY <2>1, <2>3 DEF CoverInv, Past
<1>2. CASE compiled \/ open_and_load \/ attach \/ load_Inode_map \/ init
  <2>1. /\ UNCHANGED <<tokens, rule, pending, stack, include_dir, fs, old>>
        /\ \/ pc = "rules" /\ pc' = "open" /\ rule > Len(tokens)
           \/ pc \in Past /\ pc' \in Past \cup {"failed"}
    BY <1>2 DEF compiled, open_and_load, attach, load_Inode_map, init, parser, world, Past, Goto
  <2>2. \A i, p : Reached(i, p)' <=> Reached(i, p)
    BY <2>1 DEF Reached, Barred
  <2>3. \A p : Found(p) => Found(p)'
    BY <2>1 DEF Found
  <2>4. DOMAIN tokens = 1 .. Len(tokens) /\ Len(tokens) \in Nat /\ rule \in Nat
    BY LenProperties DEF TypeInv, TypeOK
  <2>5. QED  BY <2>1, <2>2, <2>3, <2>4 DEF CoverInv, Past
<1>3. CASE UNCHANGED vars
  BY <1>3 DEF vars, parser, world, CoverInv, Reached, Barred, Found, Ahead, Coming, Open, Base
<1>4. QED
  BY <1>1, <1>2, <1>3, CoverParse, CoverOpen, CoverEntry, CoverClose, CoverOthers DEF Next, main


-----------------------------------------------------------------------------
(* What is found is loaded, and what is loaded stays.                      *)

LoadInv ==
  /\ loaded > 0 => pc \in {"load", "init", "started"}
  /\ \A j \in 1 .. loaded : \A p \in old : fs[p] = include_dir[j] => fs[p] \in InodeMap

LEMMA LoadStep ==
  ASSUME TypeInv, TreeInv, LoadInv, [Next]_vars
  PROVE  LoadInv'
<1>1. loaded \in Nat /\ Len(include_dir) \in Nat
  BY LenProperties DEF TypeInv, TypeOK
<1>2. CASE compile \/ parseRule \/ scan_open \/ scan_entry \/ scan_close \/ compiled \/ open_and_load
           \/ attach
  <2>1. pc \notin {"load", "init", "started"} /\ loaded' = loaded
    BY <1>2 DEF compile, parseRule, scan_open, scan_entry, scan_close, compiled, open_and_load, attach,
                kernel
  <2>2. loaded' = 0
    BY <1>1, <2>1 DEF LoadInv
  <2>3. QED  BY <2>2 DEF LoadInv
<1>3. CASE load_Inode_map
  <2>1. /\ UNCHANGED <<include_dir, fs, old>> /\ pc' \in {"load", "init"}
        /\ \/ InodeMap' = InodeMap \cup {include_dir[loaded + 1]} /\ loaded' = loaded + 1
           \/ UNCHANGED <<InodeMap, loaded>>
    BY <1>3 DEF load_Inode_map, parser, world, Goto
  <2>2. ASSUME NEW j \in 1 .. loaded', NEW p \in old, fs[p] = include_dir[j] PROVE fs[p] \in InodeMap'
    <3>1. j \in 1 .. loaded \/ (j = loaded + 1 /\ loaded' = loaded + 1)
      BY <1>1, <2>1
    <3>2. QED  BY <2>1, <2>2, <3>1 DEF LoadInv
  <2>3. QED  BY <2>1, <2>2 DEF LoadInv
<1>4. CASE init \/ UNCHANGED vars
  <2>1. UNCHANGED <<include_dir, fs, old, InodeMap, loaded>> /\ (pc' = pc \/ pc' = "started")
    BY <1>4 DEF init, vars, parser, kernel, world, Goto
  <2>2. QED  BY <2>1 DEF LoadInv
<1>5. CASE Others
  <2>1. UNCHANGED <<pc, include_dir, loaded>>
    BY <1>5 DEF Others, parser
  <2>2. old' \subseteq old /\ \A p \in old' : fs'[p] = fs[p]
    BY <1>5, TreeStep DEF Next
  <2>3. ASSUME NEW p \in old', fs[p] \in InodeMap PROVE fs[p] \in InodeMap'
    <3>1. PICK q \in Place : MakeDir(q) \/ RemoveDir(q)
      BY <1>5 DEF Others
    <3>2. CASE MakeDir(q)
      BY <2>3, <3>2 DEF MakeDir
    <3>3. CASE RemoveDir(q)
      <4>1. p \in old /\ p # q /\ fs[q] \in Dir /\ InodeMap \ {fs[q]} \subseteq InodeMap'
        BY <2>3, <3>3 DEF RemoveDir
      <4>2. p \in Place
        BY <4>1 DEF TypeInv, TypeOK
      <4>3. fs[p] # fs[q]
        BY <4>1, <4>2 DEF TreeInv, WellFormed
      <4>4. QED  BY <2>3, <4>1, <4>3
    <3>4. QED  BY <3>1, <3>2, <3>3
  <2>4. QED  BY <2>1, <2>2, <2>3 DEF LoadInv
<1>6. QED  BY <1>2, <1>3, <1>4, <1>5 DEF Next, main

CoveredInv == TypeInv /\ TreeInv /\ CoverInv /\ LoadInv

LEMMA CoveredInvHolds == Spec => []CoveredInv
<1>1. Init => CoveredInv
  <2> SUFFICES ASSUME Init PROVE CoverInv /\ LoadInv
    BY InitType, TreeInit DEF CoveredInv
  <2>1. pc = "compile" /\ rule = 1 /\ loaded = 0
    BY DEF Init
  <2>2. QED  BY <2>1 DEF CoverInv, LoadInv, Past
<1>2. CoveredInv /\ [Next]_vars => CoveredInv'
  BY TypeStep, TreeStep, CoverStep, LoadStep DEF CoveredInv
<1>3. QED  BY <1>1, <1>2, PTL DEF Spec

(***************************************************************************)
(* For any tree, policy and order in which the iterator returns entries,   *)
(* and whatever other processes make and remove during the scan and the    *)
(* loading: each directory that was there before the daemon and stayed and *)
(* that a rule reaches is monitored once all the keys are loaded.  The     *)
(* iterator always has it found or ahead, and its key is only ever taken   *)
(* out of InodeMap by its own removal.                                     *)
(***************************************************************************)
THEOREM CoveredAreMonitored == Spec => []CoveredIsMonitored
<1>1. CoveredInv => CoveredIsMonitored
  <2> SUFFICES ASSUME CoveredInv, pc = "started", loaded = Len(include_dir),
                      NEW p \in old, NEW i \in DOMAIN tokens,
                      Reaches(tokens[i], p, {Resolve(e) : e \in exclude_dir(tokens)})
               PROVE  fs[p] \in InodeMap
    BY DEF CoveredIsMonitored
  <2>1. Found(p)
    BY DEF CoveredInv, CoverInv, Past, Reached, Barred
  <2>2. DOMAIN include_dir = 1 .. loaded
    BY LenProperties DEF CoveredInv, TypeInv, TypeOK
  <2>3. PICK j \in 1 .. loaded : fs[p] = include_dir[j]
    BY <2>1, <2>2 DEF Found, ToSet
  <2>4. QED  BY <2>3 DEF CoveredInv, LoadInv
<1>2. QED  BY <1>1, CoveredInvHolds, PTL


-----------------------------------------------------------------------------
(* The scan stays where its rule reaches.                                  *)

LEMMA WrittenEmpty == Written(<<>>) = <<"/">>
  BY DEF Written

LEMMA Halves ==
  ASSUME NEW l \in Nat
  PROVE  /\ \A i \in 1 .. 2 * l : i % 2 # 1 => i \div 2 \in 1 .. l
         /\ (2 * l + 1) % 2 = 1 /\ (2 * l + 2) % 2 # 1 /\ (2 * l + 2) \div 2 = l + 1
  OBVIOUS

\* A place longer by one name is written with a slash and the name more.
LEMMA WrittenAppend ==
  ASSUME NEW q \in Seq(STRING \ {"/"}), NEW n \in STRING \ {"/"}, "/" \in STRING
  PROVE  /\ Written(q) \in Text /\ Written(q) # <<>>
         /\ q # <<>> => Last(Written(q)) # "/"
         /\ Written(Append(q, n)) = IF q = <<>> THEN <<"/", n>> ELSE Append(Append(Written(q), "/"), n)
<1> DEFINE l == Len(q)
           u == Append(q, n)
           At(s, i) == IF i % 2 = 1 THEN "/" ELSE s[i \div 2]
<1>1. /\ l \in Nat /\ \A i \in 1 .. l : q[i] \in STRING \ {"/"}
      /\ q # <<>> => l # 0
  BY LenProperties, ElementOfSeq, EmptySeq
<1>2. /\ u # <<>> /\ Len(u) = l + 1 /\ u[l + 1] = n /\ \A i \in 1 .. l : u[i] = q[i]
  BY AppendProperties
<1> HIDE DEF l
<1>3. /\ \A i \in 1 .. 2 * l : i % 2 # 1 => i \div 2 \in 1 .. l
      /\ (2 * l + 1) % 2 = 1 /\ (2 * l + 2) % 2 # 1 /\ (2 * l + 2) \div 2 = l + 1
  BY <1>1, Halves
<1>4. Written(u) = [i \in 1 .. 2 * (l + 1) |-> At(u, i)]
  BY <1>2 DEF Written
<1>5. CASE q = <<>>
  <2>1. l = 0 /\ u = <<n>>
    BY <1>5 DEF l
  <2>2. 2 * (l + 1) = 2 /\ 1 % 2 = 1 /\ 2 % 2 # 1 /\ 2 \div 2 = 1
    BY <2>1
  <2>3. Written(u) = [i \in 1 .. 2 |-> At(u, i)] /\ At(u, 1) = "/" /\ At(u, 2) = n
    BY <1>2, <1>4, <2>1, <2>2
  <2> HIDE DEF At, u
  <2>4. Written(u) = <<"/", n>>
    BY <2>3
  <2>5. Written(q) = <<"/">>
    BY <1>5, WrittenEmpty
  <2>6. QED  BY <1>5, <2>4, <2>5 DEF Text, u
<1>6. CASE q # <<>>
  <2> DEFINE w == Written(q)
  <2>1. w = [i \in 1 .. 2 * l |-> At(q, i)]
    BY <1>6 DEF Written, l
  <2>2. \A i \in 1 .. 2 * l : At(q, i) \in STRING /\ At(u, i) = At(q, i)
    BY <1>1, <1>2, <1>3
  <2>3. At(u, 2 * l + 1) = "/" /\ At(u, 2 * l + 2) = n
    BY <1>2, <1>3
  <2>4. At(q, 2 * l) # "/"
    <3>1. 2 * l \in 1 .. 2 * l /\ (2 * l) % 2 # 1
      BY <1>1, <1>6
    <3>2. (2 * l) \div 2 \in 1 .. l
      BY <1>3, <3>1
    <3>3. QED  BY <1>1, <3>1, <3>2
  <2> HIDE DEF At, u, w
  <2>5. w \in Seq(STRING) /\ Len(w) = 2 * l
    <3>1. 2 * l \in Nat
      BY <1>1
    <3>2. w \in Seq(STRING)
      BY <2>1, <2>2, <3>1, IsASeq
    <3>3. QED  BY <2>1, <3>1, <3>2, LenProperties
  <2>6. w # <<>> /\ Last(w) # "/"
    <3>1. 2 * l \in 1 .. 2 * l
      BY <1>1, <1>6
    <3>2. w[2 * l] # "/"
      BY <2>1, <2>4, <3>1
    <3>3. QED  BY <2>5, <3>1, <3>2, EmptySeq DEF Last
  <2> DEFINE a == Append(w, "/")
             b == Append(a, n)
  <2>7. /\ a \in Seq(STRING) /\ Len(a) = 2 * l + 1 /\ a[2 * l + 1] = "/"
        /\ \A i \in 1 .. 2 * l : a[i] = w[i]
    BY <2>5, AppendProperties
  <2>8. b = Written(u)
    <3>1. Written(u) = [i \in 1 .. Len(a) + 1 |-> IF i = Len(a) + 1 THEN n ELSE a[i]]
      <4>1. 2 * (l + 1) = Len(a) + 1 /\ Len(a) + 1 = 2 * l + 2
        BY <1>1, <2>7
      <4>2. \A i \in 1 .. Len(a) + 1 : i \in 1 .. 2 * l \/ i = 2 * l + 1 \/ i = 2 * l + 2
        BY <1>1, <4>1
      <4>3. \A i \in 1 .. Len(a) + 1 : At(u, i) = IF i = Len(a) + 1 THEN n ELSE a[i]
        <5> SUFFICES ASSUME NEW i \in 1 .. Len(a) + 1
                     PROVE  At(u, i) = IF i = Len(a) + 1 THEN n ELSE a[i]
          OBVIOUS
        <5>1. CASE i \in 1 .. 2 * l
          BY <1>1, <2>1, <2>2, <2>7, <4>1, <5>1
        <5>2. CASE i = 2 * l + 1
          BY <1>1, <2>3, <2>7, <4>1, <5>2
        <5>3. CASE i = 2 * l + 2
          BY <2>3, <4>1, <5>3
        <5>4. QED  BY <4>2, <5>1, <5>2, <5>3
      <4> HIDE DEF a
      <4>4. QED  BY <1>4, <4>1, <4>3
    <3> HIDE DEF a
    <3>2. QED  BY <2>7, <3>1, IsAppend DEF b
  <2>9. QED  BY <1>6, <2>5, <2>6, <2>8 DEF Text, u, w
<1>7. QED  BY <1>5, <1>6

\* The iterator writes no superfluous slash.
LEMMA EntryPlain ==
  ASSUME NEW path \in Text, Plain(path), NEW n \in Name
  PROVE  Plain(EntryPath(path, n))
<1> DEFINE q == Resolve(path)
<1>1. q \in Seq(STRING \ {"/"}) /\ n \in STRING \ {"/"} /\ "/" \in STRING /\ path = Written(q)
  BY ResolveType, SetupAssumption DEF Plain
<1>2. Resolve(EntryPath(path, n)) = Append(q, n)
  BY EntryResolve
<1> HIDE DEF q
<1>3. /\ q # <<>> => Last(path) # "/"
      /\ Written(Append(q, n)) = IF q = <<>> THEN <<"/", n>> ELSE Append(Append(path, "/"), n)
  BY <1>1, WrittenAppend
<1>4. CASE q = <<>>
  <2>1. path = <<"/">>
    BY <1>1, <1>4, WrittenEmpty
  <2>2. Last(path) = "/" /\ path \o <<n>> = <<"/", n>>
    <3>1. Last(path) = "/"
      BY <2>1 DEF Last
    <3>2. <<"/">> \o <<n>> = <<"/", n>>
      BY <1>1, PairSeq
    <3>3. QED  BY <2>1, <3>1, <3>2
  <2>3. EntryPath(path, n) = <<"/", n>>
    BY <2>2 DEF EntryPath
  <2>4. QED  BY <1>2, <1>3, <1>4, <2>3 DEF Plain
<1>5. CASE q # <<>>
  <2>1. EntryPath(path, n) = Append(path, "/") \o <<n>>
    BY <1>3, <1>5 DEF EntryPath
  <2>2. Append(path, "/") \in Seq(STRING)
    BY <1>1, AppendProperties DEF Text
  <2>3. Append(path, "/") \o <<n>> = Append(Append(path, "/"), n)
    BY <1>1, <2>2, AppendIsConcat
  <2>4. QED  BY <1>2, <1>3, <1>5, <2>1, <2>3 DEF Plain
<1>6. QED  BY <1>4, <1>5


PlainBarred == {Resolve(e) : e \in {x \in exclude_dir(tokens) : Plain(x)}}

\* The plain path is at or below the directory of the rule, past the exclusions.
Inside(path) ==
  /\ Plain(path) /\ IsPrefix(Base, Resolve(path))
  /\ \A n \in Len(Base) .. Len(Resolve(path)) : SubSeq(Resolve(path), 1, n) \notin PlainBarred

PlainInv ==
  /\ pc \in {"compile", "rules"} => stack = <<>>
  /\ pc = "scan" /\ Plain(tokens[rule].argument) =>
       /\ pending # <<>> => Inside(pending)
       /\ \A i \in DOMAIN stack : Inside(stack[i].path)

\* Plain paths of one place are one path.
LEMMA PlainExcluded ==
  ASSUME NEW path, Plain(path), ~Excluded(path)
  PROVE  Resolve(path) \notin PlainBarred
BY DEF Plain, Excluded, PlainBarred

LEMMA InsideBase ==
  ASSUME TypeInv, rule \in 1 .. Len(tokens), Plain(tokens[rule].argument), ~Excluded(tokens[rule].argument)
  PROVE  Inside(tokens[rule].argument)
<1>1. Base \in Text /\ Len(Base) \in Nat /\ Base = Resolve(tokens[rule].argument)
  BY BaseType DEF Base
<1>2. SubSeq(Base, 1, Len(Base)) = Base
  BY <1>1, SubSeqFull DEF Text
<1>3. Base \notin PlainBarred
  BY <1>1, PlainExcluded
<1>4. IsPrefix(Base, Base)
  BY <1>1, <1>2 DEF IsPrefix
<1>5. \A n \in Len(Base) .. Len(Base) : n = Len(Base)
  BY <1>1
<1>6. QED  BY <1>1, <1>2, <1>3, <1>4, <1>5 DEF Inside

LEMMA InsideEntry ==
  ASSUME TypeInv, pc = "scan", NEW path \in Text, Inside(path), NEW n \in Name,
         ~Excluded(EntryPath(path, n))
  PROVE  Inside(EntryPath(path, n))
<1> DEFINE q == Resolve(path)
           r == Resolve(EntryPath(path, n))
<1>1. Plain(EntryPath(path, n)) /\ r = Append(q, n)
  BY EntryPlain, EntryResolve DEF Inside
<1>2. r \notin PlainBarred
  BY <1>1, PlainExcluded
<1>3. Base \in Text /\ Len(Base) \in Nat
  BY BaseType DEF Base, TypeInv, ScanInv
<1>4. q \in Text /\ Len(q) \in Nat /\ n \in STRING
  BY ResolveType, LenProperties, SetupAssumption DEF Text
<1>5. /\ Len(Base) <= Len(q) /\ SubSeq(Base, 1, Len(Base)) = SubSeq(q, 1, Len(Base))
      /\ \A m \in Len(Base) .. Len(q) : SubSeq(q, 1, m) \notin PlainBarred
  BY DEF Inside, IsPrefix
<1> HIDE DEF q, r
<1>6. /\ r \in Text /\ Len(r) = Len(q) + 1 /\ SubSeq(r, 1, Len(r)) = r
      /\ \A i \in 1 .. Len(q) : r[i] = q[i]
  BY <1>1, <1>4, AppendProperties, SubSeqFull DEF Text
<1>7. ASSUME NEW m \in 0 .. Len(q) PROVE SubSeq(r, 1, m) = SubSeq(q, 1, m)
  BY <1>4, <1>6, <1>7 DEF Text
<1>8. IsPrefix(Base, r)
  <2>1. Len(Base) \in 0 .. Len(q) /\ Len(Base) <= Len(r)
    BY <1>3, <1>4, <1>5, <1>6
  <2>2. QED  BY <1>5, <1>7, <2>1 DEF IsPrefix
<1>9. ASSUME NEW m \in Len(Base) .. Len(r) PROVE SubSeq(r, 1, m) \notin PlainBarred
  <2>1. CASE m = Len(r)
    BY <1>2, <1>6, <2>1
  <2>2. CASE m # Len(r)
    <3>1. m \in 0 .. Len(q) /\ m \in Len(Base) .. Len(q)
      BY <1>3, <1>4, <1>6, <2>2
    <3>2. QED  BY <1>5, <1>7, <3>1
  <2>3. QED  BY <2>1, <2>2
<1>10. QED  BY <1>1, <1>8, <1>9 DEF Inside, r



\* What a turn of the scan has to keep.
LEMMA PlainScan ==
  ASSUME UNCHANGED <<tokens, rule>>, pc' = "scan",
         Plain(tokens[rule].argument) =>
           /\ pending' # <<>> => Inside(pending')
           /\ \A i \in DOMAIN stack' : Inside(stack'[i].path)
  PROVE  PlainInv'
<1>1. ASSUME NEW path, Inside(path) PROVE Inside(path)'
  BY <1>1 DEF Inside, Base, PlainBarred
<1>2. ASSUME Plain(tokens[rule].argument), pending' # <<>> PROVE Inside(pending)'
  <2>1. PICK path : path = pending'
    OBVIOUS
  <2>2. Inside(path)'
    BY <1>1, <1>2, <2>1
  <2>3. QED  BY <2>1, <2>2 DEF Inside
<1>3. ASSUME Plain(tokens[rule].argument), NEW i \in DOMAIN stack' PROVE Inside(stack[i].path)'
  <2>1. PICK path : path = stack'[i].path
    OBVIOUS
  <2>2. Inside(path)'
    BY <1>1, <1>3, <2>1
  <2>3. QED  BY <2>1, <2>2 DEF Inside
<1>4. QED  BY <1>2, <1>3 DEF PlainInv

\* A directory the iterator is not kept out of is one the rule reaches.
LEMMA EntryInside ==
  ASSUME TypeInv, PlainInv, pc = "scan", pending = <<>>, Plain(tokens[rule].argument),
         NEW m \in Offered(Last(stack)), ~Excluded(EntryPath(Last(stack).path, m))
  PROVE  Inside(EntryPath(Last(stack).path, m))
<1>1. stack \in Seq(Frame) /\ stack # <<>>
  BY DEF TypeInv, TypeOK, ScanInv
<1>2. Len(stack) \in DOMAIN stack /\ Last(stack) = stack[Len(stack)]
  BY <1>1, EmptySeq, LenProperties DEF Last
<1>3. Last(stack).path \in Text /\ m \in Name
  <2>1. stack[Len(stack)] \in Frame
    BY <1>1, <1>2, ElementOfSeq, LenProperties
  <2>2. QED  BY <1>2, <2>1 DEF Frame, Offered
<1>4. Inside(Last(stack).path)
  BY <1>2 DEF PlainInv
<1>5. QED  BY <1>3, <1>4, InsideEntry

LEMMA PlainStep ==
  ASSUME TypeInv, PlainInv, [Next]_vars
  PROVE  PlainInv'
<1>1. CASE parseRule
  <2>1. pc = "rules" /\ stack = <<>> /\ UNCHANGED <<tokens, stack>> /\ rule \in 1 .. Len(tokens)
    BY <1>1, LenProperties DEF parseRule, NextRule, PlainInv, TypeInv, TypeOK
  <2>2. CASE pc' # "scan"
    BY <2>1, <2>2 DEF PlainInv
  <2>3. CASE pc' = "scan"
    <3>1. rule' = rule /\ ~Excluded(tokens[rule].argument) /\ pending' = tokens[rule].argument
      BY <1>1, <2>1, <2>3 DEF parseRule, NextRule, Goto
    <3>2. Plain(tokens[rule].argument) => Inside(tokens[rule].argument)
      BY <2>1, <3>1, InsideBase
    <3>3. DOMAIN stack' = {}
      BY <2>1
    <3>4. QED  BY <2>1, <2>3, <3>1, <3>2, <3>3, PlainScan
  <2>4. QED  BY <2>2, <2>3
<1>2. CASE scan_open
  <2>1. CASE pc' = "aborted"
    BY <2>1 DEF PlainInv
  <2>2. CASE pc' # "aborted"
    <3> DEFINE g == [path |-> pending, dir |-> stat(pending),
                     listing |-> Entries(Resolve(pending)), seen |-> {}]
    <3>1. /\ pc = "scan" /\ pc' = "scan" /\ UNCHANGED <<tokens, rule>> /\ pending # <<>>
          /\ pending' = <<>> /\ stack' = Append(stack, g) /\ stat(pending) \in Dir
      BY <1>2, <2>2 DEF scan_open, Goto
    <3>2. g.path = pending /\ g \in Frame /\ stack \in Seq(Frame)
      BY <3>1, StatType DEF Frame, TypeInv, TypeOK
    <3> HIDE DEF g
    <3>3. /\ DOMAIN stack = 1 .. Len(stack) /\ DOMAIN stack' = 1 .. Len(stack) + 1
          /\ Len(stack) \in Nat /\ stack'[Len(stack) + 1] = g
          /\ \A i \in DOMAIN stack : stack'[i] = stack[i]
      BY <3>1, <3>2, AppendProperties, LenProperties
    <3>4. \A i \in DOMAIN stack' : i \in DOMAIN stack \/ stack'[i] = g
      BY <3>3
    <3>5. Plain(tokens[rule].argument) => \A i \in DOMAIN stack' : Inside(stack'[i].path)
      BY <3>1, <3>2, <3>3, <3>4 DEF PlainInv
    <3>6. QED  BY <3>1, <3>5, PlainScan
  <2>3. QED  BY <2>1, <2>2
<1>3. CASE scan_entry
  <2> DEFINE f == Last(stack)
  <2>1. PICK m \in Offered(f) :
          Advance(m) /\ Turn(EntryPath(f.path, m), stat(EntryPath(f.path, m)))
    BY <1>3 DEF scan_entry
  <2> DEFINE path == EntryPath(f.path, m)
  <2>2. pc = "scan" /\ pc' = "scan" /\ pending = <<>> /\ UNCHANGED <<tokens, rule>>
    BY <1>3 DEF scan_entry
  <2>3. pending' # <<>> => pending' = path /\ ~Excluded(path)
    BY <2>1, <2>2 DEF Turn
  <2>4. Plain(tokens[rule].argument) /\ pending' # <<>> => Inside(pending')
    BY <2>2, <2>3, EntryInside
  <2>5. stack \in Seq(Frame) /\ DOMAIN stack = 1 .. Len(stack) /\ \A i \in DOMAIN stack : stack[i] \in Frame
    BY LenProperties, ElementOfSeq DEF TypeInv, TypeOK
  <2>6. \A i \in DOMAIN stack' : i \in DOMAIN stack /\ stack'[i].path = stack[i].path
    BY <2>1, <2>5 DEF Advance, Frame
  <2>7. Plain(tokens[rule].argument) => \A i \in DOMAIN stack' : Inside(stack'[i].path)
    BY <2>2, <2>6 DEF PlainInv
  <2>8. QED  BY <2>2, <2>4, <2>7, PlainScan
<1>4. CASE scan_close
  <2>1. /\ pc = "scan" /\ pending = <<>> /\ stack' = Front(stack) /\ UNCHANGED <<tokens, pending>>
        /\ IF Len(stack) = 1 THEN pc' = "rules" ELSE UNCHANGED <<pc, rule>>
    BY <1>4 DEF scan_close, Goto
  <2>2. stack \in Seq(Frame) /\ Len(stack) \in Nat \ {0} /\ DOMAIN stack = 1 .. Len(stack)
    BY <2>1, EmptySeq, LenProperties DEF TypeInv, TypeOK, ScanInv
  <2>3. /\ DOMAIN stack' = 1 .. Len(stack) - 1 /\ \A i \in 1 .. Len(stack) - 1 : stack'[i] = stack[i]
    BY <2>1, <2>2 DEF Front
  <2>4. CASE Len(stack) = 1
    <3>1. stack' = <<>>
      <4>1. stack' \in Seq(Frame)
        BY TypeStep DEF TypeInv, TypeOK
      <4>2. Len(stack') = 0
        BY <2>3, <2>4, <4>1, LenProperties
      <4>3. QED  BY <4>1, <4>2, EmptySeq
    <3>2. QED  BY <2>1, <2>4, <3>1 DEF PlainInv
  <2>5. CASE Len(stack) # 1
    <3>1. \A i \in DOMAIN stack' : i \in DOMAIN stack /\ stack'[i] = stack[i]
      BY <2>2, <2>3
    <3>2. Plain(tokens[rule].argument) => \A i \in DOMAIN stack' : Inside(stack'[i].path)
      BY <2>1, <3>1 DEF PlainInv
    <3>3. QED  BY <2>1, <2>5, <3>2, PlainScan
  <2>6. QED  BY <2>4, <2>5
<1>5. CASE Others \/ UNCHANGED vars
  <2>1. UNCHANGED <<pc, tokens, rule, pending, stack>>
    BY <1>5 DEF Others, vars, parser
  <2>2. QED  BY <2>1 DEF PlainInv, Inside, Base, PlainBarred
<1>6. CASE compile
  <2>1. pc = "compile" /\ pc' # "scan" /\ stack' = stack
    BY <1>6 DEF compile, Goto
  <2>2. QED  BY <2>1 DEF PlainInv
<1>7. CASE compiled \/ open_and_load \/ attach \/ load_Inode_map \/ init
  <2>1. pc' \notin {"compile", "rules", "scan"}
    BY <1>7 DEF compiled, open_and_load, attach, load_Inode_map, init, Goto
  <2>2. QED  BY <2>1 DEF PlainInv
<1>8. QED  BY <1>1, <1>2, <1>3, <1>4, <1>5, <1>6, <1>7 DEF Next, main

\* A plain path that is inside has a place the rule reaches.
LEMMA InsideReaches ==
  ASSUME NEW path, Inside(path), tokens[rule].command = <<"D">>
  PROVE  Reaches(tokens[rule], Resolve(path), PlainBarred)
BY DEF Inside, Reaches, Base

OnlyReached ==
  Len(include_dir') > Len(include_dir) /\ Plain(tokens[rule].argument) =>
    \E p \in Place :
      /\ fs[p] = Last(include_dir')
      /\ Reaches(tokens[rule], p, PlainBarred)

LEMMA StatPlace ==
  ASSUME NEW path, stat(path) # None
  PROVE  Resolve(path) \in Place /\ fs[Resolve(path)] = stat(path)
BY DEF stat

LEMMA OnlyReachedStep ==
  ASSUME TypeInv, PlainInv, [Next]_vars
  PROVE  OnlyReached
<1> SUFFICES ASSUME Len(include_dir') > Len(include_dir), Plain(tokens[rule].argument)
             PROVE  \E p \in Place :
                      /\ fs[p] = Last(include_dir')
                      /\ Reaches(tokens[rule], p, PlainBarred)
  BY DEF OnlyReached
<1>1. include_dir \in Seq(Inode) /\ Len(include_dir) \in Nat
  BY LenProperties DEF TypeInv, TypeOK
<1>2. include_dir' # include_dir
  BY <1>1
<1>3. ASSUME NEW key \in Inode, include_dir' = Append(include_dir, key)
      PROVE  Last(include_dir') = key
  <2>1. Len(include_dir') = Len(include_dir) + 1 /\ include_dir'[Len(include_dir) + 1] = key
    BY <1>1, <1>3, AppendProperties
  <2>2. QED  BY <2>1 DEF Last
<1>4. CASE parseRule
  <2> DEFINE tk  == tokens[rule]
             key == stat(tk.argument)
  <2>1. /\ tk.command \in {<<"D">>, <<"IF">>} /\ key # None /\ ~Excluded(tk.argument)
        /\ include_dir' = include_dir \o <<key>> /\ rule \in 1 .. Len(tokens)
    <3>1. rule \in 1 .. Len(tokens)
      BY <1>4, LenProperties DEF parseRule, TypeInv, TypeOK
    <3>2. /\ tk.command \in {<<"D">>, <<"IF">>} /\ key # None /\ ~Excluded(tk.argument)
          /\ include_dir' = include_dir \o Taken(tk, key)
      BY <1>2, <1>4 DEF parseRule
    <3>3. QED  BY <3>1, <3>2 DEF Taken
  <2>2. key \in Inode
    BY <2>1, StatType DEF TypeInv
  <2>3. Last(include_dir') = key
    <3> HIDE DEF key
    <3>1. QED  BY <1>1, <1>3, <2>1, <2>2, AppendIsConcat
  <2>4. Resolve(tk.argument) \in Place /\ fs[Resolve(tk.argument)] = key
    BY <2>1, StatPlace
  <2>5. Reaches(tk, Resolve(tk.argument), PlainBarred)
    <3>1. CASE tk.command = <<"D">>
      BY <2>1, <3>1, InsideBase, InsideReaches
    <3>2. CASE tk.command = <<"IF">>
      BY <2>1, <3>2, PlainExcluded DEF Reaches
    <3>3. QED  BY <2>1, <3>1, <3>2
  <2>6. QED  BY <2>3, <2>4, <2>5
<1>5. CASE scan_entry
  <2> DEFINE f == Last(stack)
  <2>1. PICK m \in Offered(f) :
          Advance(m) /\ Turn(EntryPath(f.path, m), stat(EntryPath(f.path, m)))
    BY <1>5 DEF scan_entry
  <2> DEFINE path == EntryPath(f.path, m)
             key  == stat(path)
  <2>2. pc = "scan" /\ pending = <<>> /\ tokens[rule].command = <<"D">>
    BY <1>5 DEF scan_entry, TypeInv, ScanInv
  <2>3. ~Excluded(path) /\ key # None /\ include_dir' = Append(include_dir, key)
    BY <1>2, <2>1 DEF Turn
  <2>4. Last(include_dir') = key
    <3>1. key \in Inode
      BY <2>3, StatType DEF TypeInv
    <3> HIDE DEF key
    <3>2. QED  BY <1>3, <2>3, <3>1
  <2>5. Reaches(tokens[rule], Resolve(path), PlainBarred)
    BY <2>2, <2>3, EntryInside, InsideReaches
  <2>6. Resolve(path) \in Place /\ fs[Resolve(path)] = key
    BY <2>3, StatPlace
  <2>7. QED  BY <2>4, <2>5, <2>6
<1>6. CASE ~parseRule /\ ~scan_entry
  <2>1. include_dir' = include_dir
    BY <1>6 DEF Next, main, vars, parser, compile, scan_open, scan_close, compiled, open_and_load,
                attach, load_Inode_map, init, Others
  <2>2. QED  BY <1>2, <2>1
<1>7. QED  BY <1>4, <1>5, <1>6

(***************************************************************************)
(* Whatever is moved under the iterator, and wherever the E rules stand in *)
(* the policy: a rule with a plain path takes no inode but one at a place  *)
(* the rule reaches, at the moment it is taken, past all plain exclusions. *)
(***************************************************************************)
THEOREM OnlyReachedAreTaken == Spec => OnlyReachedIsTaken
<1>1. Init => PlainInv
  <2> SUFFICES ASSUME Init PROVE PlainInv
    OBVIOUS
  <2>1. pc = "compile" /\ stack = <<>>
    BY DEF Init
  <2>2. QED  BY <2>1 DEF PlainInv
<1>2. TypeInv /\ PlainInv /\ [Next]_vars => PlainInv'
  BY PlainStep
<1>3. TypeInv /\ PlainInv /\ [Next]_vars => [OnlyReached]_vars
  BY OnlyReachedStep
<1>4. Spec => [][OnlyReached]_vars
  BY <1>1, <1>2, <1>3, TypeInvHolds, PTL DEF Spec
<1>5. QED  BY <1>4, PTL DEF OnlyReachedIsTaken, OnlyReached, PlainBarred

=============================================================================
