--------------------------- MODULE KernelHooksProofs ---------------------------
(***************************************************************************)
(* Proofs about KernelHooks, for any threads, directories and files, any   *)
(* build and any sizes of the maps and the ring buffer.                    *)
(***************************************************************************)
EXTENDS KernelHooks, SequenceTheorems, FiniteSetTheorems, TLAPS

\* Every call after whose entry hook a context may be saved has a return hook
\* that drops it: the builds and calls for which CtxOwned is claimed.
PairedHooks == "splice" \notin Syscall \/ "MODIFY" \notin Feature

\* LruMap has a place for the context of every thread.
NoEvictions == IsFiniteSet(Thread) /\ Cardinality(Thread) <= LruMax

-----------------------------------------------------------------------------
(* The inductive invariant: TypeOK holds because a saved directory context *)
(* carries a directory's key, and a rename has a new directory.            *)

\* The feature whose entry hook watches a call.
FeatureOf(op) ==
  IF op = "create" THEN "CREATE"
  ELSE IF op \in {"unlink", "rmdir"} THEN "DELETE"
  ELSE IF op = "rename" THEN "RENAME" ELSE "MODIFY"

CallInv ==
  \A t \in Thread : call[t] # None =>
    /\ call[t].op \in Syscall
    /\ call[t].op = "rename" => call[t].newdir \in Dir
    /\ call[t].watched => call[t].op # "mkdir" /\ FeatureOf(call[t].op) \in Feature

CtxInv ==
  \A t \in Thread : LruMap[t] # None /\ LruMap[t].is_dir => LruMap[t].inode \in Dir

TypeInv == TypeOK /\ CallInv /\ CtxInv

-----------------------------------------------------------------------------
(* The helpers.                                                            *)

\* A record that does not fit is dropped: the ring never overflows.
LEMMA SubmitType ==
  ASSUME NEW q \in Seq(Event), Len(q) <= RingMax, NEW e \in Event
  PROVE  Submit(q, e) \in Seq(Event) /\ Len(Submit(q, e)) <= RingMax
<1>1. Len(q) \in Nat /\ RingMax \in Nat
  BY LenProperties, HooksAssumption
<1>2. Append(q, e) \in Seq(Event) /\ Len(Append(q, e)) = Len(q) + 1
  BY AppendProperties
<1>3. QED  BY <1>1, <1>2 DEF Submit, RingHasRoom

LEMMA AddKeyType ==
  ASSUME NEW m \in SUBSET Dir, NEW k \in Dir
  PROVE  AddKey(m, k) \in SUBSET Dir
BY DEF AddKey

\* Saving a context for a thread leaves every other thread its own or none.
LEMMA SaveCtxEffect ==
  ASSUME LruMap \in [Thread -> dentry_ctx \cup {None}],
         NEW t \in Thread, NEW ctx \in dentry_ctx, SaveCtx(t, ctx)
  PROVE  /\ LruMap' \in [Thread -> dentry_ctx \cup {None}]
         /\ LruMap'[t] = ctx
         /\ \A u \in Thread \ {t} : LruMap'[u] \in {LruMap[u], None}
<1>1. CASE LruMap' = [LruMap EXCEPT ![t] = ctx]
  BY <1>1
<1>2. ASSUME NEW v \in SavedKeys, LruMap' = [LruMap EXCEPT ![v] = None, ![t] = ctx]
      PROVE  /\ LruMap' \in [Thread -> dentry_ctx \cup {None}]
             /\ LruMap'[t] = ctx
             /\ \A u \in Thread \ {t} : LruMap'[u] \in {LruMap[u], None}
  BY <1>2 DEF SavedKeys
<1>3. QED  BY <1>1, <1>2 DEF SaveCtx, bpf_get_current_pid_tgid

\* With a place for every thread, saving a context evicts none.
LEMMA NothingEvicted ==
  ASSUME NoEvictions, LruMap \in [Thread -> dentry_ctx \cup {None}],
         NEW t \in Thread, NEW ctx \in dentry_ctx, SaveCtx(t, ctx)
  PROVE  LruMap'[t] = ctx /\ \A u \in Thread \ {t} : LruMap'[u] = LruMap[u]
<1>1. t \in SavedKeys \/ Cardinality(SavedKeys) < LruMax
  <2>1. SUFFICES ASSUME t \notin SavedKeys PROVE Cardinality(SavedKeys) < LruMax
    OBVIOUS
  <2>2. SavedKeys \subseteq Thread \ {t}
    BY <2>1 DEF SavedKeys
  <2>3. IsFiniteSet(Thread \ {t}) /\ Cardinality(Thread \ {t}) = Cardinality(Thread) - 1
    BY FS_RemoveElement DEF NoEvictions
  <2>4. Cardinality(SavedKeys) <= Cardinality(Thread \ {t}) /\ IsFiniteSet(SavedKeys)
    BY <2>2, <2>3, FS_Subset
  <2>5. Cardinality(SavedKeys) \in Nat /\ Cardinality(Thread) \in Nat
    BY <2>4, FS_CardinalityType DEF NoEvictions
  <2>6. QED  BY <2>3, <2>4, <2>5, HooksAssumption DEF NoEvictions
<1>2. LruMap' = [LruMap EXCEPT ![t] = ctx]
  BY <1>1 DEF SaveCtx, bpf_get_current_pid_tgid
<1>3. QED  BY <1>2

LEMMA DropCtxEffect ==
  ASSUME LruMap \in [Thread -> dentry_ctx \cup {None}], NEW t \in Thread, DropCtx(t)
  PROVE  /\ LruMap' \in [Thread -> dentry_ctx \cup {None}]
         /\ LruMap'[t] = None
         /\ \A u \in Thread \ {t} : LruMap'[u] = LruMap[u]
BY DEF DropCtx, bpf_get_current_pid_tgid

LEMMA BlankCtxType ==
  ASSUME NEW p \in Path
  PROVE  BlankCtx(p) \in dentry_ctx /\ BlankCtx(p).filepath = p /\ ~BlankCtx(p).is_dir
BY DEF BlankCtx, dentry_ctx

LEMMA CountHitType ==
  ASSUME counter \in 0 .. CounterMod - 1, CountHit
  PROVE  counter' \in 0 .. CounterMod - 1
BY HooksAssumption DEF CountHit

\* Entering a call with its entry hook: LruMap is left alone, or a context is
\* saved that describes the call.
LEMMA EnterKeeps ==
  ASSUME TypeInv, NEW t \in Thread, call[t] = None,
         NEW op \in DirCalls \cup WriteCalls, NEW d \in Dir, NEW x \in Node,
         NEW d2 \in Dir \cup {None}, NEW y \in Node \cup {None}, NEW w \in BOOLEAN,
         op = "rename" => d2 \in Dir,
         w => op # "mkdir" /\ FeatureOf(op) \in Feature,
         Begin(t, op, d, x, d2, y, w),
         NEW ctx \in dentry_ctx, ctx.is_dir => ctx.inode \in Dir,
         \/ UNCHANGED LruMap
         \/ SaveCtx(t, ctx) /\ (PairedHooks => SavedBy(ctx, call'[t]))
  PROVE  /\ call' \in [Thread -> Call \cup {None}] /\ CallInv' /\ parent' = parent
         /\ LruMap' \in [Thread -> dentry_ctx \cup {None}] /\ CtxInv'
         /\ PairedHooks /\ CtxOwned => CtxOwned'
<1>1. /\ call' \in [Thread -> Call \cup {None}] /\ CallInv' /\ parent' = parent
      /\ \A u \in Thread \ {t} : call'[u] = call[u]
  <2> DEFINE c == [op |-> op, dir |-> d, obj |-> x, newdir |-> d2, target |-> y,
                   watched |-> w, ret |-> None]
  <2>1. c \in Call
    BY DEF Call
  <2>2. call' = [call EXCEPT ![t] = c] /\ parent' = parent /\ op \in Syscall
    BY DEF Begin
  <2>3. call' \in [Thread -> Call \cup {None}] /\ call'[t] = c
        /\ \A u \in Thread \ {t} : call'[u] = call[u]
    BY <2>1, <2>2 DEF TypeInv, TypeOK
  <2>4. CallInv'
    BY <2>2, <2>3 DEF TypeInv, CallInv
  <2>5. QED  BY <2>2, <2>3, <2>4
<1>2. CASE UNCHANGED LruMap
  <2>1. PairedHooks /\ CtxOwned => CtxOwned'
    <3>1. CtxOwned => LruMap[t] = None
      BY DEF CtxOwned, SavedCtx, SavedBy, bpf_get_current_pid_tgid
    <3>2. QED  BY <1>1, <1>2, <3>1 DEF CtxOwned, SavedCtx, bpf_get_current_pid_tgid
  <2>2. QED  BY <1>1, <1>2, <2>1 DEF TypeInv, TypeOK, CtxInv
<1>3. CASE SaveCtx(t, ctx) /\ (PairedHooks => SavedBy(ctx, call'[t]))
  <2>1. /\ LruMap' \in [Thread -> dentry_ctx \cup {None}] /\ LruMap'[t] = ctx
        /\ \A u \in Thread \ {t} : LruMap'[u] \in {LruMap[u], None}
    BY <1>3, SaveCtxEffect DEF TypeInv, TypeOK
  <2>2. CtxInv'
    BY <2>1 DEF TypeInv, CtxInv
  <2>3. PairedHooks /\ CtxOwned => CtxOwned'
    BY <1>1, <1>3, <2>1 DEF CtxOwned, SavedCtx, bpf_get_current_pid_tgid
  <2>4. QED  BY <1>1, <2>1, <2>2, <2>3
<1>4. QED  BY <1>2, <1>3

\* The effect of a call.
LEMMA EffectKeeps ==
  ASSUME TypeInv, NEW t \in Thread, call[t] # None, NEW r \in {-1, 0, 1}, SetRet(t, r),
         UNCHANGED LruMap
  PROVE  /\ call' \in [Thread -> Call \cup {None}] /\ CallInv'
         /\ LruMap' \in [Thread -> dentry_ctx \cup {None}] /\ CtxInv'
         /\ PairedHooks /\ CtxOwned => CtxOwned'
<1>1. call[t] \in Call
  BY DEF TypeInv, TypeOK
<1> DEFINE c == [call[t] EXCEPT !.ret = r]
<1>2. /\ c \in Call /\ c.op = call[t].op /\ c.dir = call[t].dir /\ c.obj = call[t].obj
      /\ c.newdir = call[t].newdir /\ c.target = call[t].target /\ c.watched = call[t].watched
  BY <1>1 DEF Call
<1>3. call' = [call EXCEPT ![t] = c]
  BY DEF SetRet
<1>4. c # None
  BY <1>2, NoneAssumption
<1>5. call' \in [Thread -> Call \cup {None}] /\ call'[t] = c
      /\ \A u \in Thread \ {t} : call'[u] = call[u]
  BY <1>2, <1>3 DEF TypeInv, TypeOK
<1> HIDE DEF c
<1>6. CallInv'
  BY <1>2, <1>4, <1>5 DEF TypeInv, CallInv
<1>7. CtxOwned => CtxOwned'
  <2>1. SUFFICES ASSUME CtxOwned, NEW u \in Thread, LruMap[u] # None
                 PROVE  SavedBy(LruMap[u], call'[u])
    BY DEF CtxOwned, SavedCtx, bpf_get_current_pid_tgid
  <2>2. SavedBy(LruMap[u], call[u])
    BY <2>1 DEF CtxOwned, SavedCtx, bpf_get_current_pid_tgid
  <2>3. CASE u = t
    BY <2>2, <2>3, <1>2, <1>4, <1>5 DEF SavedBy
  <2>4. CASE u # t
    BY <2>2, <2>4, <1>5
  <2>5. QED  BY <2>3, <2>4
<1>8. QED  BY <1>5, <1>6, <1>7 DEF TypeInv, TypeOK, CtxInv

\* The end of a call with its return hook: the context is dropped, or the hook
\* found none.
LEMMA ReturnKeeps ==
  ASSUME TypeInv, NEW t \in Thread, call[t] # None, Finish(t),
         \/ DropCtx(t)
         \/ /\ UNCHANGED LruMap
            /\ \/ call[t].op \in {"create", "mkdir", "splice"}
               \/ ~FindsCtx(t, FeatureOf(call[t].op))
  PROVE  /\ call' \in [Thread -> Call \cup {None}] /\ CallInv' /\ parent' = parent
         /\ LruMap' \in [Thread -> dentry_ctx \cup {None}] /\ CtxInv'
         /\ CtxOwned => CtxOwned'
<1>1. /\ call' \in [Thread -> Call \cup {None}] /\ parent' = parent /\ call'[t] = None
      /\ \A u \in Thread \ {t} : call'[u] = call[u]
  BY DEF Finish, TypeInv, TypeOK
<1>2. CallInv'
  BY <1>1 DEF TypeInv, CallInv
<1>3. CASE DropCtx(t)
  <2>1. /\ LruMap' \in [Thread -> dentry_ctx \cup {None}] /\ LruMap'[t] = None
        /\ \A u \in Thread \ {t} : LruMap'[u] = LruMap[u]
    BY <1>3, DropCtxEffect DEF TypeInv, TypeOK
  <2>2. CtxInv'
    BY <2>1 DEF TypeInv, CtxInv
  <2>3. CtxOwned => CtxOwned'
    BY <1>1, <2>1 DEF CtxOwned, SavedCtx, bpf_get_current_pid_tgid
  <2>4. QED  BY <1>1, <1>2, <2>1, <2>2, <2>3
<1>4. CASE /\ UNCHANGED LruMap
           /\ \/ call[t].op \in {"create", "mkdir", "splice"}
              \/ ~FindsCtx(t, FeatureOf(call[t].op))
  <2>1. CtxOwned => LruMap[t] = None
    <3>1. SUFFICES ASSUME CtxOwned, LruMap[t] # None PROVE FALSE
      OBVIOUS
    <3>2. call[t].watched /\ call[t].op \notin {"create", "mkdir", "splice"}
      BY <3>1 DEF CtxOwned, SavedBy, SavedCtx, bpf_get_current_pid_tgid
    <3>3. FindsCtx(t, FeatureOf(call[t].op))
      BY <3>1, <3>2 DEF TypeInv, CallInv, FindsCtx, SavedCtx, bpf_get_current_pid_tgid
    <3>4. QED  BY <1>4, <3>2, <3>3
  <2>2. CtxOwned => CtxOwned'
    BY <1>1, <1>4, <2>1 DEF CtxOwned, SavedCtx, bpf_get_current_pid_tgid
  <2>3. QED  BY <1>1, <1>2, <1>4, <2>2 DEF TypeInv, TypeOK, CtxInv
<1>5. QED  BY <1>3, <1>4

-----------------------------------------------------------------------------
(* The steps.                                                              *)

\* What a step must keep.
Kept == TypeInv' /\ (PairedHooks /\ CtxOwned => CtxOwned')

\* The rest of the type invariant.
RestType ==
  /\ parent \in [Node -> Dir \cup {None}] /\ InodeMap \in SUBSET Dir
  /\ rb \in Seq(Event) /\ Len(rb) <= RingMax
  /\ counter \in 0 .. CounterMod - 1

LEMMA KeptFromParts ==
  ASSUME RestType', call' \in [Thread -> Call \cup {None}], CallInv',
         LruMap' \in [Thread -> dentry_ctx \cup {None}], CtxInv',
         PairedHooks /\ CtxOwned => CtxOwned'
  PROVE  Kept
BY DEF Kept, TypeInv, TypeOK, RestType

LEMMA CreateKeeps ==
  ASSUME TypeInv, NEW t \in Thread, NEW d \in Dir, NEW f \in File, call[t] = None,
         lsm_inode_create(t, d, f)
  PROVE  Kept
<1> DEFINE hit == "CREATE" \in Feature /\ is_monitored(d)
<1>1. hit \in BOOLEAN /\ (hit => FeatureOf("create") \in Feature)
  BY DEF FeatureOf
<1>2. Begin(t, "create", d, f, None, None, hit) /\ UNCHANGED <<InodeMap, LruMap, counter>>
      /\ (emit_event(<<d, f>>, "CREATE") \/ UNCHANGED rb)
  BY DEF lsm_inode_create
<1>3. PICK p \in Path : p = <<d, f>>
  BY DEF Path, Node
<1>4. BlankCtx(p) \in dentry_ctx /\ ~BlankCtx(p).is_dir
  BY BlankCtxType
<1> HIDE DEF hit
<1>5. /\ call' \in [Thread -> Call \cup {None}] /\ CallInv' /\ parent' = parent
      /\ LruMap' \in [Thread -> dentry_ctx \cup {None}] /\ CtxInv'
      /\ PairedHooks /\ CtxOwned => CtxOwned'
  BY <1>1, <1>2, <1>4, EnterKeeps DEF DirCalls, Node
<1>6. RestType'
  <2>1. Ev("CREATE", p) \in Event
    BY DEF Ev, Event, EventTypes
  <2>2. rb' \in Seq(Event) /\ Len(rb') <= RingMax
    BY <1>2, <1>3, <2>1, SubmitType DEF emit_event, TypeInv, TypeOK
  <2>3. QED  BY <1>2, <1>5, <2>2 DEF TypeInv, TypeOK, RestType
<1>7. QED  BY <1>5, <1>6, KeptFromParts

LEMMA MkdirKeeps ==
  ASSUME TypeInv, NEW t \in Thread, NEW d \in Dir, NEW n \in Dir, call[t] = None,
         vfs_mkdir_entry(t, d, n)
  PROVE  Kept
<1>1. Begin(t, "mkdir", d, n, None, None, FALSE) /\ UNCHANGED <<InodeMap, LruMap, rb, counter>>
  BY DEF vfs_mkdir_entry, hookVars
<1>2. PICK p \in Path : p = <<d, n>>
  BY DEF Path, Node
<1>3. BlankCtx(p) \in dentry_ctx /\ ~BlankCtx(p).is_dir
  BY BlankCtxType
<1>4. /\ call' \in [Thread -> Call \cup {None}] /\ CallInv' /\ parent' = parent
      /\ LruMap' \in [Thread -> dentry_ctx \cup {None}] /\ CtxInv'
      /\ PairedHooks /\ CtxOwned => CtxOwned'
  BY <1>1, <1>3, EnterKeeps DEF DirCalls, Node
<1>5. RestType'
  BY <1>1, <1>4 DEF TypeInv, TypeOK, RestType
<1>6. QED  BY <1>4, <1>5, KeptFromParts

LEMMA UnlinkKeeps ==
  ASSUME TypeInv, NEW t \in Thread, NEW d \in Dir, NEW f \in File, call[t] = None,
         fentry_vfs_unlink(t, d, f)
  PROVE  Kept
<1> DEFINE hit == "DELETE" \in Feature /\ is_monitored(d)
<1>1. hit \in BOOLEAN /\ (hit => FeatureOf("unlink") \in Feature)
  BY DEF FeatureOf
<1>2. /\ Begin(t, "unlink", d, f, None, None, hit) /\ UNCHANGED <<InodeMap, rb>>
      /\ IF hit THEN SaveCtx(t, BlankCtx(<<d, f>>)) ELSE UNCHANGED LruMap
      /\ CountHit \/ UNCHANGED counter
  BY DEF fentry_vfs_unlink
<1>3. PICK p \in Path : p = <<d, f>>
  BY DEF Path, Node
<1>4. BlankCtx(p) \in dentry_ctx /\ BlankCtx(p).filepath = p /\ ~BlankCtx(p).is_dir
  BY BlankCtxType
<1> HIDE DEF hit
<1>5. UNCHANGED LruMap \/ (SaveCtx(t, BlankCtx(p)) /\ SavedBy(BlankCtx(p), call'[t]))
  <2>1. CASE hit
    <3>1. call'[t] = [op |-> "unlink", dir |-> d, obj |-> f, newdir |-> None, target |-> None,
                      watched |-> hit, ret |-> None]
      BY <1>2 DEF Begin, TypeInv, TypeOK
    <3>2. call'[t] # None
      BY <3>1, <1>1, NoneAssumption DEF Call, DirCalls, Node
    <3>3. QED  BY <1>2, <1>3, <1>4, <2>1, <3>1, <3>2 DEF SavedBy
  <2>2. CASE ~hit
    BY <1>2, <2>2
  <2>3. QED  BY <2>1, <2>2
<1>6. /\ call' \in [Thread -> Call \cup {None}] /\ CallInv' /\ parent' = parent
      /\ LruMap' \in [Thread -> dentry_ctx \cup {None}] /\ CtxInv'
      /\ PairedHooks /\ CtxOwned => CtxOwned'
  BY <1>1, <1>2, <1>4, <1>5, EnterKeeps DEF DirCalls, Node
<1>7. RestType'
  BY <1>2, <1>6, CountHitType DEF TypeInv, TypeOK, RestType
<1>8. QED  BY <1>6, <1>7, KeptFromParts

LEMMA RmdirKeeps ==
  ASSUME TypeInv, NEW t \in Thread, NEW d \in Dir, NEW n \in Dir, call[t] = None,
         fentry_vfs_rmdir(t, d, n)
  PROVE  Kept
<1> DEFINE hit == "DELETE" \in Feature /\ is_monitored(n)
           ctx == [BlankCtx(<<d, n>>) EXCEPT !.inode = n]
<1>1. hit \in BOOLEAN /\ (hit => FeatureOf("rmdir") \in Feature)
  BY DEF FeatureOf
<1>2. /\ Begin(t, "rmdir", d, n, None, None, hit) /\ UNCHANGED <<InodeMap, rb>>
      /\ IF hit THEN SaveCtx(t, ctx) ELSE UNCHANGED LruMap
      /\ CountHit \/ UNCHANGED counter
  BY DEF fentry_vfs_rmdir
<1>3. <<d, n>> \in Path
  BY DEF Path, Node
<1>4. /\ ctx \in dentry_ctx /\ ctx.filepath = <<d, n>> /\ ctx.inode = n
      /\ ctx.is_dir => ctx.inode \in Dir
  BY <1>3 DEF BlankCtx, dentry_ctx, Node
<1> HIDE DEF hit, ctx
<1>5. UNCHANGED LruMap \/ (SaveCtx(t, ctx) /\ SavedBy(ctx, call'[t]))
  <2>1. CASE hit
    <3>1. call'[t] = [op |-> "rmdir", dir |-> d, obj |-> n, newdir |-> None, target |-> None,
                      watched |-> hit, ret |-> None]
      BY <1>2 DEF Begin, TypeInv, TypeOK
    <3>2. call'[t] # None
      BY <3>1, <1>1, NoneAssumption DEF Call, DirCalls, Node
    <3>3. QED  BY <1>2, <1>4, <2>1, <3>1, <3>2 DEF SavedBy
  <2>2. CASE ~hit
    BY <1>2, <2>2
  <2>3. QED  BY <2>1, <2>2
<1>6. /\ call' \in [Thread -> Call \cup {None}] /\ CallInv' /\ parent' = parent
      /\ LruMap' \in [Thread -> dentry_ctx \cup {None}] /\ CtxInv'
      /\ PairedHooks /\ CtxOwned => CtxOwned'
  <2>1. /\ "rmdir" \in DirCalls \cup WriteCalls /\ n \in Node /\ d \in Dir
        /\ "rmdir" # "rename" /\ (hit => "rmdir" # "mkdir" /\ FeatureOf("rmdir") \in Feature)
    BY <1>1 DEF DirCalls, Node
  <2>2. QED  BY <1>1, <1>2, <1>4, <1>5, <2>1, EnterKeeps
<1>7. RestType'
  BY <1>2, <1>6, CountHitType DEF TypeInv, TypeOK, RestType
<1>8. QED  BY <1>6, <1>7, KeptFromParts

LEMMA RenameKeeps ==
  ASSUME TypeInv, NEW t \in Thread, NEW d \in Dir, NEW x \in Node, NEW d2 \in Dir,
         NEW y \in Node \cup {None}, call[t] = None, fentry_vfs_rename(t, d, x, d2, y)
  PROVE  Kept
<1> DEFINE is_dir == x \in Dir
           hit == /\ "RENAME" \in Feature
                  /\ (IF is_dir THEN is_monitored(x) ELSE is_monitored(d)) \/ is_monitored(d2)
           ctx == [filepath |-> <<d, x>>, inode |-> x, is_dir |-> is_dir,
                   inode_mon |-> is_dir /\ is_monitored(x),
                   is_new_dir_mon |-> is_monitored(d2),
                   is_cross_dir |-> d # d2, overwrite |-> y # None]
<1>1. hit \in BOOLEAN /\ (hit => FeatureOf("rename") \in Feature)
  BY DEF FeatureOf
<1>2. /\ Begin(t, "rename", d, x, d2, y, hit) /\ UNCHANGED <<InodeMap, rb, counter>>
      /\ IF hit THEN SaveCtx(t, ctx) ELSE UNCHANGED LruMap
  BY DEF fentry_vfs_rename
<1>3. <<d, x>> \in Path
  BY DEF Path
<1>4. /\ ctx \in dentry_ctx /\ ctx.filepath = <<d, x>> /\ ctx.inode = x
      /\ ctx.is_dir => ctx.inode \in Dir
      /\ ctx.is_cross_dir = (d # d2) /\ ctx.overwrite = (y # None)
  <2>1. ctx \in dentry_ctx
    BY <1>3 DEF dentry_ctx, is_monitored
  <2>2. ctx.filepath = <<d, x>> /\ ctx.inode = x
    OBVIOUS
  <2>3. ctx.is_dir => ctx.inode \in Dir
    OBVIOUS
  <2>4. ctx.is_cross_dir = (d # d2) /\ ctx.overwrite = (y # None)
    OBVIOUS
  <2>5. QED  BY <2>1, <2>2, <2>3, <2>4
<1> HIDE DEF hit, ctx
<1>5. UNCHANGED LruMap \/ (SaveCtx(t, ctx) /\ SavedBy(ctx, call'[t]))
  <2>1. CASE hit
    <3>1. call'[t] = [op |-> "rename", dir |-> d, obj |-> x, newdir |-> d2, target |-> y,
                      watched |-> hit, ret |-> None]
      BY <1>2 DEF Begin, TypeInv, TypeOK
    <3>2. call'[t] # None
      BY <3>1, <1>1, NoneAssumption DEF Call, DirCalls, Node
    <3>3. QED  BY <1>2, <1>4, <2>1, <3>1, <3>2 DEF SavedBy
  <2>2. CASE ~hit
    BY <1>2, <2>2
  <2>3. QED  BY <2>1, <2>2
<1>6. /\ call' \in [Thread -> Call \cup {None}] /\ CallInv' /\ parent' = parent
      /\ LruMap' \in [Thread -> dentry_ctx \cup {None}] /\ CtxInv'
      /\ PairedHooks /\ CtxOwned => CtxOwned'
  BY <1>1, <1>2, <1>4, <1>5, EnterKeeps DEF DirCalls, Node
<1>7. RestType'
  BY <1>2, <1>6 DEF TypeInv, TypeOK, RestType
<1>8. QED  BY <1>6, <1>7, KeptFromParts

LEMMA FilePermissionKeeps ==
  ASSUME TypeInv, NEW t \in Thread, NEW op \in WriteCalls, NEW f \in File, call[t] = None,
         fim_file_permission(t, op, f)
  PROVE  Kept
<1> DEFINE d   == parent[f]
           hit == "MODIFY" \in Feature /\ is_monitored(d) /\ RingHasRoom(rb)
<1>1. hit \in BOOLEAN /\ (hit => FeatureOf(op) \in Feature)
  BY DEF FeatureOf, WriteCalls
<1>2. /\ Begin(t, op, d, f, None, None, hit) /\ UNCHANGED <<InodeMap, counter>>
      /\ IF hit THEN emit_event(<<d, f>>, "WRITE_INTENT") /\ SaveCtx(t, BlankCtx(<<d, f>>))
                ELSE UNCHANGED <<rb, LruMap>>
  BY DEF fim_file_permission
<1>3. d \in Dir /\ op # "mkdir" /\ op # "rename"
  BY HooksAssumption DEF fim_file_permission, Linked, TypeInv, TypeOK, Node, WriteCalls
<1>4. PICK p \in Path : p = <<d, f>>
  BY <1>3 DEF Path, Node
<1>5. BlankCtx(p) \in dentry_ctx /\ BlankCtx(p).filepath = p /\ ~BlankCtx(p).is_dir
  BY BlankCtxType
<1> HIDE DEF hit, d
<1>6. UNCHANGED LruMap
      \/ (SaveCtx(t, BlankCtx(p)) /\ (PairedHooks => SavedBy(BlankCtx(p), call'[t])))
  <2>1. CASE hit
    <3>1. call'[t] = [op |-> op, dir |-> d, obj |-> f, newdir |-> None, target |-> None,
                      watched |-> hit, ret |-> None] /\ op \in Syscall
      BY <1>2 DEF Begin, TypeInv, TypeOK
    <3>2. call'[t] # None
      BY <3>1, <1>1, <1>3, NoneAssumption DEF Call, Node
    <3>3. PairedHooks => op # "splice"
      BY <2>1, <3>1 DEF PairedHooks, hit
    <3>4. op \in {"write", "writev", "splice"}
      BY DEF WriteCalls
    <3>5. QED  BY <1>2, <1>4, <1>5, <2>1, <3>1, <3>2, <3>3, <3>4 DEF SavedBy
  <2>2. CASE ~hit
    BY <1>2, <2>2
  <2>3. QED  BY <2>1, <2>2
<1>7. /\ call' \in [Thread -> Call \cup {None}] /\ CallInv' /\ parent' = parent
      /\ LruMap' \in [Thread -> dentry_ctx \cup {None}] /\ CtxInv'
      /\ PairedHooks /\ CtxOwned => CtxOwned'
  BY <1>1, <1>2, <1>3, <1>5, <1>6, EnterKeeps DEF Node
<1>8. RestType'
  <2>1. Ev("WRITE_INTENT", p) \in Event
    BY DEF Ev, Event, EventTypes
  <2>2. rb' \in Seq(Event) /\ Len(rb') <= RingMax
    BY <1>2, <1>4, <2>1, SubmitType DEF emit_event, TypeInv, TypeOK
  <2>3. QED  BY <1>2, <1>7, <2>2 DEF TypeInv, TypeOK, RestType
<1>9. QED  BY <1>7, <1>8, KeptFromParts

-----------------------------------------------------------------------------
(* The effect of a call touches the tree and the return value only.        *)

LEMMA EffectStep ==
  ASSUME TypeInv, NEW t \in Thread, call[t] # None, NEW r \in {-1, 0, 1}, SetRet(t, r),
         parent' \in [Node -> Dir \cup {None}], UNCHANGED hookVars
  PROVE  Kept
<1>1. UNCHANGED <<InodeMap, LruMap, rb, counter>>
  BY DEF hookVars
<1>2. /\ call' \in [Thread -> Call \cup {None}] /\ CallInv'
      /\ LruMap' \in [Thread -> dentry_ctx \cup {None}] /\ CtxInv'
      /\ PairedHooks /\ CtxOwned => CtxOwned'
  BY <1>1, EffectKeeps
<1>3. RestType'
  BY <1>1 DEF TypeInv, TypeOK, RestType
<1>4. QED  BY <1>2, <1>3, KeptFromParts

LEMMA TakeEffectKeeps ==
  ASSUME TypeInv, NEW t \in Thread, TakeEffect(t)
  PROVE  Kept
<1>1. parent \in [Node -> Dir \cup {None}] /\ call \in [Thread -> Call \cup {None}] /\ CallInv
  BY DEF TypeInv, TypeOK
<1>2. CASE VfsFail(t)
  <2>1. call[t] # None /\ SetRet(t, -1) /\ UNCHANGED <<parent, hookVars>>
    BY <1>2 DEF VfsFail, Running
  <2>2. QED  BY <1>1, <2>1, EffectStep
<1>3. CASE VfsLink(t)
  <2>1. call[t] # None /\ SetRet(t, 0) /\ UNCHANGED hookVars
    BY <1>3 DEF VfsLink, Running
  <2>2. parent' \in [Node -> Dir \cup {None}]
    BY <1>1, <1>3, <2>1 DEF VfsLink, Call
  <2>3. QED  BY <2>1, <2>2, EffectStep
<1>4. CASE VfsRemove(t)
  <2>1. call[t] # None /\ SetRet(t, 0) /\ UNCHANGED hookVars
    BY <1>4 DEF VfsRemove, Running
  <2>2. parent' \in [Node -> Dir \cup {None}]
    BY <1>1, <1>4 DEF VfsRemove
  <2>3. QED  BY <2>1, <2>2, EffectStep
<1>5. CASE VfsMove(t)
  <2>1. call[t] # None /\ SetRet(t, 0) /\ UNCHANGED hookVars /\ call[t].op = "rename"
    BY <1>5 DEF VfsMove, Running
  <2>2. call[t].newdir \in Dir
    BY <1>1, <2>1 DEF CallInv
  <2>3. parent' \in [Node -> Dir \cup {None}]
    BY <1>1, <1>5, <2>2 DEF VfsMove
  <2>4. QED  BY <2>1, <2>3, EffectStep
<1>6. CASE VfsWrite(t)
  <2>1. call[t] # None /\ UNCHANGED <<parent, hookVars>>
    BY <1>6 DEF VfsWrite, Running
  <2>2. PICK r \in {0, 1} : SetRet(t, r)
    BY <1>6 DEF VfsWrite
  <2>3. QED  BY <1>1, <2>1, <2>2, EffectStep
<1>7. QED  BY <1>2, <1>3, <1>4, <1>5, <1>6 DEF TakeEffect

-----------------------------------------------------------------------------
(* The return hooks.                                                       *)

\* A context a hook finds has a path in the types of Event, and a return hook
\* leaves the tree alone.
LEMMA SavedCtxType ==
  ASSUME TypeInv, NEW t \in Thread, SavedCtx(t) # None
  PROVE  /\ SavedCtx(t) \in dentry_ctx /\ SavedCtx(t).filepath \in Path
         /\ SavedCtx(t).is_dir => SavedCtx(t).inode \in Dir
<1>1. SavedCtx(t) = LruMap[t] /\ LruMap[t] \in dentry_ctx
  BY DEF SavedCtx, bpf_get_current_pid_tgid, TypeInv, TypeOK
<1>2. QED  BY <1>1 DEF TypeInv, CtxInv, dentry_ctx

LEMMA EmitType ==
  ASSUME TypeInv, NEW p \in Path, NEW type \in EventTypes, emit_event(p, type)
  PROVE  rb' \in Seq(Event) /\ Len(rb') <= RingMax
<1>1. Ev(type, p) \in Event
  BY DEF Ev, Event
<1>2. rb' = Submit(rb, Ev(type, p)) /\ rb \in Seq(Event) /\ Len(rb) <= RingMax
  BY DEF emit_event, TypeInv, TypeOK
<1>3. QED  BY <1>1, <1>2, SubmitType

LEMMA ReturnStep ==
  ASSUME TypeInv, NEW t \in Thread, call[t] # None, Finish(t),
         \/ DropCtx(t)
         \/ /\ UNCHANGED LruMap
            /\ \/ call[t].op \in {"create", "mkdir", "splice"}
               \/ ~FindsCtx(t, FeatureOf(call[t].op)),
         InodeMap' \in SUBSET Dir, rb' \in Seq(Event), Len(rb') <= RingMax,
         CountHit \/ UNCHANGED counter
  PROVE  Kept
<1>1. /\ call' \in [Thread -> Call \cup {None}] /\ CallInv' /\ parent' = parent
      /\ LruMap' \in [Thread -> dentry_ctx \cup {None}] /\ CtxInv'
      /\ CtxOwned => CtxOwned'
  BY ReturnKeeps
<1>2. counter' \in 0 .. CounterMod - 1
  BY CountHitType DEF TypeInv, TypeOK
<1>3. RestType'
  BY <1>1, <1>2 DEF TypeInv, TypeOK, RestType
<1>4. QED  BY <1>1, <1>3, KeptFromParts

LEMMA UnhookedReturns ==
  ASSUME TypeInv, NEW t \in Thread, ReturnUnhooked(t)
  PROVE  Kept
<1>1. /\ call[t] # None /\ call[t].op \in {"create", "mkdir", "splice"} /\ Finish(t)
      /\ UNCHANGED <<InodeMap, LruMap, rb, counter>>
  BY DEF ReturnUnhooked, Returned, hookVars
<1>2. InodeMap' \in SUBSET Dir /\ rb' \in Seq(Event) /\ Len(rb') <= RingMax
  BY <1>1 DEF TypeInv, TypeOK
<1>3. QED  BY <1>1, <1>2, ReturnStep

LEMMA MkdirReturns ==
  ASSUME TypeInv, NEW t \in Thread, fexit_vfs_mkdir(t)
  PROVE  Kept
<1>1. /\ call[t] # None /\ call[t].op \in {"create", "mkdir", "splice"} /\ Finish(t)
      /\ UNCHANGED <<LruMap, counter>>
  BY DEF fexit_vfs_mkdir, Returned
<1>2. <<call[t].dir, call[t].obj>> \in Path
  BY <1>1 DEF TypeInv, TypeOK, Call, Path
<1>3. InodeMap \in SUBSET Dir /\ rb \in Seq(Event) /\ Len(rb) <= RingMax
  BY DEF TypeInv, TypeOK
<1>4. InodeMap' \in SUBSET Dir
  BY <1>3, AddKeyType DEF fexit_vfs_mkdir, update_dir_map
<1>5. rb' \in Seq(Event) /\ Len(rb') <= RingMax
  BY <1>2, <1>3, EmitType DEF fexit_vfs_mkdir, EventTypes
<1>6. QED  BY <1>1, <1>4, <1>5, ReturnStep

LEMMA UnlinkReturns ==
  ASSUME TypeInv, NEW t \in Thread, fexit_vfs_unlink(t)
  PROVE  Kept
<1>1. call[t] # None /\ call[t].op = "unlink" /\ Finish(t) /\ UNCHANGED InodeMap
      /\ (CountHit \/ UNCHANGED counter)
  BY DEF fexit_vfs_unlink, Returned
<1>2. InodeMap \in SUBSET Dir /\ rb \in Seq(Event) /\ Len(rb) <= RingMax
  BY DEF TypeInv, TypeOK
<1>3. CASE FindsCtx(t, "DELETE")
  <2>1. SavedCtx(t).filepath \in Path
    BY <1>3, SavedCtxType DEF FindsCtx
  <2>2. DropCtx(t) /\ (emit_event(SavedCtx(t).filepath, "DELETE") \/ UNCHANGED rb)
    BY <1>3 DEF fexit_vfs_unlink
  <2>3. rb' \in Seq(Event) /\ Len(rb') <= RingMax
    BY <1>2, <2>1, <2>2, EmitType DEF EventTypes
  <2>4. QED  BY <1>1, <1>2, <2>2, <2>3, ReturnStep
<1>4. CASE ~FindsCtx(t, "DELETE")
  <2>1. UNCHANGED <<rb, LruMap>>
    BY <1>4 DEF fexit_vfs_unlink
  <2>2. FeatureOf(call[t].op) = "DELETE"
    BY <1>1 DEF FeatureOf
  <2>3. QED  BY <1>1, <1>2, <1>4, <2>1, <2>2, ReturnStep
<1>5. QED  BY <1>3, <1>4

LEMMA RmdirReturns ==
  ASSUME TypeInv, NEW t \in Thread, fexit_vfs_rmdir(t)
  PROVE  Kept
<1>1. call[t] # None /\ call[t].op = "rmdir" /\ Finish(t) /\ (CountHit \/ UNCHANGED counter)
  BY DEF fexit_vfs_rmdir, Returned
<1>2. InodeMap \in SUBSET Dir /\ rb \in Seq(Event) /\ Len(rb) <= RingMax
  BY DEF TypeInv, TypeOK
<1>3. CASE FindsCtx(t, "DELETE")
  <2>1. SavedCtx(t).filepath \in Path
    BY <1>3, SavedCtxType DEF FindsCtx
  <2>2. /\ DropCtx(t)
        /\ \/ ForgetDir(SavedCtx(t).inode) /\ emit_event(SavedCtx(t).filepath, "DELETE")
           \/ UNCHANGED <<InodeMap, rb>>
    BY <1>3 DEF fexit_vfs_rmdir
  <2>3. rb' \in Seq(Event) /\ Len(rb') <= RingMax
    BY <1>2, <2>1, <2>2, EmitType DEF EventTypes
  <2>4. InodeMap' \in SUBSET Dir
    BY <1>2, <2>2 DEF ForgetDir
  <2>5. QED  BY <1>1, <2>2, <2>3, <2>4, ReturnStep
<1>4. CASE ~FindsCtx(t, "DELETE")
  <2>1. UNCHANGED <<InodeMap, rb, LruMap>>
    BY <1>4 DEF fexit_vfs_rmdir
  <2>2. FeatureOf(call[t].op) = "DELETE"
    BY <1>1 DEF FeatureOf
  <2>3. QED  BY <1>1, <1>2, <1>4, <2>1, <2>2, ReturnStep
<1>5. QED  BY <1>3, <1>4

LEMMA WriteReturns ==
  ASSUME TypeInv, NEW t \in Thread, NEW op \in {"write", "writev"}, NEW least \in {0, 1},
         WriteReturn(t, op, least)
  PROVE  Kept
<1>1. call[t] # None /\ call[t].op = op /\ Finish(t) /\ UNCHANGED <<InodeMap, counter>>
  BY DEF WriteReturn, Returned
<1>2. InodeMap \in SUBSET Dir /\ rb \in Seq(Event) /\ Len(rb) <= RingMax
  BY DEF TypeInv, TypeOK
<1>3. CASE FindsCtx(t, "MODIFY")
  <2>1. SavedCtx(t).filepath \in Path
    BY <1>3, SavedCtxType DEF FindsCtx
  <2>2. DropCtx(t) /\ (emit_event(SavedCtx(t).filepath, "WRITE") \/ UNCHANGED rb)
    BY <1>3 DEF WriteReturn
  <2>3. rb' \in Seq(Event) /\ Len(rb') <= RingMax
    BY <1>2, <2>1, <2>2, EmitType DEF EventTypes
  <2>4. QED  BY <1>1, <1>2, <2>2, <2>3, ReturnStep
<1>4. CASE ~FindsCtx(t, "MODIFY")
  <2>1. UNCHANGED <<rb, LruMap>>
    BY <1>4 DEF WriteReturn
  <2>2. FeatureOf(call[t].op) = "MODIFY"
    BY <1>1 DEF FeatureOf
  <2>3. QED  BY <1>1, <1>2, <1>4, <2>1, <2>2, ReturnStep
<1>5. QED  BY <1>3, <1>4

\* A rename reserves as many of its two records as fit.
LEMMA RenameEmits ==
  ASSUME NEW c \in Call, c.newdir \in Dir, NEW ctx \in dentry_ctx,
         NEW q \in Seq(Event), Len(q) <= RingMax, NEW room, room = RingMax - Len(q)
  PROVE  LET fit == SubSeq(RenameEvents(c, ctx), 1, IF room < 2 THEN room ELSE 2)
         IN  q \o fit \in Seq(Event) /\ Len(q \o fit) <= RingMax
<1> DEFINE e1 == Ev("RENAME_D", ctx.filepath)
           e2 == Ev(IF ctx.overwrite THEN "RENAME_OW" ELSE "RENAME_C", <<c.newdir, c.obj>>)
           n  == IF room < 2 THEN room ELSE 2
<1>1. e1 \in Event
  BY DEF Ev, Event, EventTypes, dentry_ctx
<1>2. e2 \in Event
  <2>1. <<c.newdir, c.obj>> \in Path
    BY DEF Path, Call
  <2>2. QED  BY <2>1 DEF Ev, Event, EventTypes
<1>3. Len(q) \in Nat /\ RingMax \in Nat
  BY LenProperties, HooksAssumption
<1>4. room \in Nat /\ n \in 0 .. 2 /\ n <= room
  BY <1>3
<1>5. RenameEvents(c, ctx) = <<e1, e2>>
  BY DEF RenameEvents
<1> HIDE DEF e1, e2, n
<1>6. <<e1, e2>> \in Seq(Event) /\ Len(<<e1, e2>>) = 2
  BY <1>1, <1>2
<1>7. SubSeq(<<e1, e2>>, 1, n) \in Seq(Event) /\ Len(SubSeq(<<e1, e2>>, 1, n)) = n
  BY <1>4, <1>6
<1>8. ASSUME NEW r \in Seq(Event), Len(r) = n
      PROVE  q \o r \in Seq(Event) /\ Len(q \o r) <= RingMax
  <2>1. q \o r \in Seq(Event) /\ Len(q \o r) = Len(q) + Len(r)
    BY ConcatProperties
  <2>2. QED  BY <1>3, <1>4, <1>8, <2>1
<1>9. QED  BY <1>5, <1>7, <1>8 DEF n

LEMMA RenameReturns ==
  ASSUME TypeInv, NEW t \in Thread, fexit_vfs_rename(t)
  PROVE  Kept
<1>1. call[t] # None /\ call[t].op = "rename" /\ Finish(t) /\ UNCHANGED counter
  BY DEF fexit_vfs_rename, Returned
<1>2. InodeMap \in SUBSET Dir /\ rb \in Seq(Event) /\ Len(rb) <= RingMax
  BY DEF TypeInv, TypeOK
<1>3. CASE FindsCtx(t, "RENAME")
  <2> DEFINE ctx  == SavedCtx(t)
             room == RingMax - Len(rb)
  <2>1. ctx \in dentry_ctx /\ (ctx.is_dir => ctx.inode \in Dir)
    BY <1>3, SavedCtxType DEF FindsCtx
  <2>2. DropCtx(t)
    BY <1>3 DEF fexit_vfs_rename
  <2>3. rb' \in Seq(Event) /\ Len(rb') <= RingMax
    <3>1. CASE UNCHANGED rb
      BY <1>2, <3>1
    <3>2. CASE rb' = rb \o SubSeq(RenameEvents(call[t], ctx), 1, IF room < 2 THEN room ELSE 2)
      <4>1. call[t] \in Call /\ call[t].newdir \in Dir
        BY <1>1 DEF TypeInv, TypeOK, CallInv
      <4>2. QED  BY <1>2, <2>1, <3>2, <4>1, RenameEmits
    <3>3. QED  BY <1>3, <3>1, <3>2 DEF fexit_vfs_rename
  <2>4. InodeMap' \in SUBSET Dir
    <3>1. EntersArea(ctx) => AddKey(InodeMap, ctx.inode) \in SUBSET Dir
      BY <1>2, <2>1, AddKeyType DEF EntersArea
    <3>2. QED  BY <1>2, <1>3, <3>1 DEF fexit_vfs_rename, RenamedMap
  <2>5. QED  BY <1>1, <2>2, <2>3, <2>4, ReturnStep
<1>4. CASE ~FindsCtx(t, "RENAME")
  <2>1. UNCHANGED <<InodeMap, rb, LruMap>>
    BY <1>4 DEF fexit_vfs_rename
  <2>2. FeatureOf(call[t].op) = "RENAME"
    BY <1>1 DEF FeatureOf
  <2>3. QED  BY <1>1, <1>2, <1>4, <2>1, <2>2, ReturnStep
<1>5. QED  BY <1>3, <1>4

LEMMA ReturnsKeep ==
  ASSUME TypeInv, NEW t \in Thread, Return(t)
  PROVE  Kept
<1>1. CASE fexit_vfs_write(t)
  BY <1>1, WriteReturns DEF fexit_vfs_write
<1>2. CASE fexit_vfs_writev(t)
  BY <1>2, WriteReturns DEF fexit_vfs_writev
<1>3. QED
  BY <1>1, <1>2, UnhookedReturns, MkdirReturns, UnlinkReturns, RmdirReturns, RenameReturns DEF Return

-----------------------------------------------------------------------------

LEMMA EnterKeep ==
  ASSUME TypeInv, NEW t \in Thread, Enter(t)
  PROVE  Kept
<1>1. call[t] = None
  BY DEF Enter
<1>2. CASE \E d \in Dir, f \in File : lsm_inode_create(t, d, f) \/ fentry_vfs_unlink(t, d, f)
  BY <1>1, <1>2, CreateKeeps, UnlinkKeeps
<1>3. CASE \E d, n \in Dir : vfs_mkdir_entry(t, d, n) \/ fentry_vfs_rmdir(t, d, n)
  BY <1>1, <1>3, MkdirKeeps, RmdirKeeps
<1>4. CASE \E d, d2 \in Dir, x \in Node, y \in Node \cup {None} : fentry_vfs_rename(t, d, x, d2, y)
  BY <1>1, <1>4, RenameKeeps
<1>5. CASE \E op \in WriteCalls, f \in File : fim_file_permission(t, op, f)
  BY <1>1, <1>5, FilePermissionKeeps
<1>6. QED  BY <1>2, <1>3, <1>4, <1>5 DEF Enter

LEMMA PollKeeps ==
  ASSUME TypeInv, Poll
  PROVE  Kept
<1>1. rb # <<>> /\ rb' = Tail(rb) /\ UNCHANGED <<parent, call, InodeMap, LruMap, counter>>
  BY DEF Poll
<1>2. rb \in Seq(Event) /\ Len(rb) <= RingMax /\ RingMax \in Nat
  BY HooksAssumption DEF TypeInv, TypeOK
<1>3. rb' \in Seq(Event) /\ Len(rb') = Len(rb) - 1
  BY <1>1, <1>2, HeadTailProperties
<1>4. Len(rb) \in Nat
  BY <1>2, LenProperties
<1>5. rb' \in Seq(Event) /\ Len(rb') <= RingMax
  BY <1>2, <1>3, <1>4
<1>6. QED
  BY <1>1, <1>5 DEF Kept, TypeInv, TypeOK, CallInv, CtxInv, CtxOwned, SavedCtx, bpf_get_current_pid_tgid

LEMMA NextKeeps ==
  ASSUME TypeInv, [Next]_vars
  PROVE  Kept
<1>1. CASE UNCHANGED vars
  BY <1>1 DEF vars, Kept, TypeInv, TypeOK, CallInv, CtxInv, CtxOwned, SavedCtx, bpf_get_current_pid_tgid
<1>2. ASSUME NEW t \in Thread, Enter(t) \/ TakeEffect(t) \/ Return(t)
      PROVE  Kept
  BY <1>2, EnterKeep, TakeEffectKeeps, ReturnsKeep
<1>3. CASE Poll
  BY <1>3, PollKeeps
<1>4. QED  BY <1>1, <1>2, <1>3 DEF Next

LEMMA InitHolds ==
  ASSUME Init
  PROVE  TypeInv /\ CtxOwned
<1>1. parent \in [Node -> Dir \cup {None}] /\ InodeMap \in SUBSET Dir
  BY DEF Init, Forest, Covered
<1>2. rb \in Seq(Event) /\ Len(rb) <= RingMax /\ counter \in 0 .. CounterMod - 1
  <2>1. rb = <<>> /\ counter = 0
    BY DEF Init
  <2>2. QED  BY <2>1, EmptySeq, HooksAssumption
<1>3. call = [t \in Thread |-> None] /\ LruMap = [t \in Thread |-> None]
  BY DEF Init
<1>4. QED
  BY <1>1, <1>2, <1>3 DEF TypeInv, TypeOK, CallInv, CtxInv, CtxOwned, SavedCtx, bpf_get_current_pid_tgid

LEMMA Typing == Spec => []TypeInv
<1>1. Init => TypeInv
  BY InitHolds
<1>2. TypeInv /\ [Next]_vars => TypeInv'
  BY NextKeeps DEF Kept
<1>3. QED  BY <1>1, <1>2, PTL DEF Spec

\* The variables stay in their types: rb never holds more than RingMax records,
\* InodeMap holds directories only, whatever the hooks and the calls do.
THEOREM TypeCorrect == Spec => []TypeOK
<1>1. TypeInv => TypeOK
  BY DEF TypeInv
<1>2. QED  BY <1>1, Typing, PTL

\* LruMap never holds a context of any call but the one its thread is in, for
\* every number of threads, size of LruMap (evictions included) and build in
\* which each hook that saves a context has a return hook that drops it.
THEOREM ContextsAreOwned == PairedHooks => (Spec => []CtxOwned)
<1>1. SUFFICES ASSUME PairedHooks PROVE Spec => []CtxOwned
  OBVIOUS
<1>2. Init => CtxOwned
  BY InitHolds
<1>3. TypeInv /\ CtxOwned /\ [Next]_vars => CtxOwned'
  BY <1>1, NextKeeps DEF Kept
<1>4. QED  BY <1>2, <1>3, Typing, PTL DEF Spec

-----------------------------------------------------------------------------
(* Facts for the proofs of the other properties.                           *)

\* Thread t is in one of these calls.
InCall(t, ops) == call[t] # None /\ call[t].op \in ops

\* The call of thread t gets its result r, and nothing else of it changes.
LEMMA ResultOnly ==
  ASSUME TypeInv, NEW t \in Thread, call[t] # None, NEW r \in {-1, 0, 1}, SetRet(t, r)
  PROVE  /\ \A u \in Thread \ {t} : call'[u] = call[u]
         /\ call[t] \in Call /\ call'[t] \in Call /\ call'[t] # None /\ call'[t].ret = r
         /\ call'[t].op = call[t].op /\ call'[t].dir = call[t].dir /\ call'[t].obj = call[t].obj
         /\ call'[t].newdir = call[t].newdir /\ call'[t].target = call[t].target
         /\ call'[t].watched = call[t].watched
         /\ \A u \in Thread : Held(u)' = Held(u)
         /\ \A u \in Thread : \A ops : InCall(u, ops)' <=> InCall(u, ops)
<1>1. call[t] \in Call
  BY DEF TypeInv, TypeOK
<1> DEFINE c == [call[t] EXCEPT !.ret = r]
<1>2. c \in Call /\ c.ret = r /\ c.op = call[t].op /\ c.dir = call[t].dir /\ c.obj = call[t].obj
      /\ c.newdir = call[t].newdir /\ c.target = call[t].target /\ c.watched = call[t].watched
  BY <1>1 DEF Call
<1>3. c # None
  BY <1>2, NoneAssumption
<1> HIDE DEF c
<1>4. call'[t] = c /\ \A u \in Thread \ {t} : call'[u] = call[u]
  BY DEF SetRet, c, TypeInv, TypeOK
<1>5. \A u \in Thread : Held(u)' = Held(u)
  BY <1>2, <1>3, <1>4 DEF Held
<1>6. \A u \in Thread : \A ops : InCall(u, ops)' <=> InCall(u, ops)
  BY <1>2, <1>3, <1>4 DEF InCall
<1>7. QED  BY <1>1, <1>2, <1>3, <1>4, <1>5, <1>6

\* The thread whose call is gone after a step has returned.
LEMMA WhoReturns ==
  ASSUME TypeInv, [Next]_vars, NEW t \in Thread, call[t] # None, call'[t] = None
  PROVE  Return(t)
<1>1. call \in [Thread -> Call \cup {None}]
  BY DEF TypeInv, TypeOK
<1>2. ASSUME NEW u \in Thread, Enter(u) PROVE FALSE
  <2>1. call[u] = None
    BY <1>2 DEF Enter
  <2>2. ASSUME NEW op, NEW d, NEW x, NEW d2, NEW y, NEW w, Begin(u, op, d, x, d2, y, w) PROVE FALSE
    BY <1>1, <2>1, <2>2 DEF Begin
  <2>3. ASSUME NEW d \in Dir, NEW f \in File PROVE ~lsm_inode_create(u, d, f) /\ ~fentry_vfs_unlink(u, d, f)
    BY <2>2 DEF lsm_inode_create, fentry_vfs_unlink
  <2>4. ASSUME NEW d \in Dir, NEW n \in Dir PROVE ~vfs_mkdir_entry(u, d, n) /\ ~fentry_vfs_rmdir(u, d, n)
    BY <2>2 DEF vfs_mkdir_entry, fentry_vfs_rmdir
  <2>5. \A d, d2 \in Dir, x \in Node, y \in Node \cup {None} : ~fentry_vfs_rename(u, d, x, d2, y)
    BY <2>2 DEF fentry_vfs_rename
  <2>6. \A op \in WriteCalls, f \in File : ~fim_file_permission(u, op, f)
    BY <2>2 DEF fim_file_permission
  <2>7. QED  BY <1>2, <2>3, <2>4, <2>5, <2>6 DEF Enter
<1>3. ASSUME NEW u \in Thread, TakeEffect(u) PROVE FALSE
  <2>1. PICK r \in {-1, 0, 1} : SetRet(u, r)
    BY <1>3 DEF TakeEffect, VfsFail, VfsLink, VfsRemove, VfsMove, VfsWrite
  <2>2. call[u] # None
    BY <1>3 DEF TakeEffect, VfsFail, VfsLink, VfsRemove, VfsMove, VfsWrite, Running
  <2>3. QED  BY <2>1, <2>2, ResultOnly
<1>4. PICK u \in Thread : Return(u)
  BY <1>2, <1>3 DEF Next, Poll, vars
<1>5. Finish(u)
  BY <1>4 DEF Return, ReturnUnhooked, fexit_vfs_mkdir, fexit_vfs_unlink, fexit_vfs_rmdir,
              fexit_vfs_rename, fexit_vfs_write, fexit_vfs_writev, WriteReturn
<1>6. u = t
  BY <1>1, <1>5 DEF Finish
<1>7. QED  BY <1>4, <1>6

\* Entry hooks leave the monitored directories alone.
LEMMA EntryKeepsMap ==
  ASSUME NEW t \in Thread, Enter(t)
  PROVE  InodeMap' = InodeMap
<1>1. ASSUME NEW d \in Dir, NEW f \in File, lsm_inode_create(t, d, f) \/ fentry_vfs_unlink(t, d, f)
      PROVE  InodeMap' = InodeMap
  BY <1>1 DEF lsm_inode_create, fentry_vfs_unlink
<1>2. ASSUME NEW d \in Dir, NEW n \in Dir, vfs_mkdir_entry(t, d, n) \/ fentry_vfs_rmdir(t, d, n)
      PROVE  InodeMap' = InodeMap
  BY <1>2 DEF vfs_mkdir_entry, fentry_vfs_rmdir, hookVars
<1>3. ASSUME NEW d \in Dir, NEW d2 \in Dir, NEW x \in Node, NEW y \in Node \cup {None},
             fentry_vfs_rename(t, d, x, d2, y)
      PROVE  InodeMap' = InodeMap
  BY <1>3 DEF fentry_vfs_rename
<1>4. ASSUME NEW op \in WriteCalls, NEW f \in File, fim_file_permission(t, op, f)
      PROVE  InodeMap' = InodeMap
  BY <1>4 DEF fim_file_permission
<1>5. QED  BY <1>1, <1>2, <1>3, <1>4 DEF Enter

\* The records of a rename are the first ones of its two events.
LEMMA RenameAppends ==
  ASSUME NEW q \in Seq(Event), NEW e1 \in Event, NEW e2 \in Event, NEW n \in 0 .. 2
  PROVE  LET r == q \o SubSeq(<<e1, e2>>, 1, n)
         IN  /\ Len(r) = Len(q) + n
             /\ n > 0 => r[Len(q) + 1] = e1
             /\ n > 1 => r[Len(q) + 2] = e2
<1> DEFINE s == SubSeq(<<e1, e2>>, 1, n)
<1>1. Len(q) \in Nat
  BY LenProperties
<1>2. /\ s \in Seq(Event) /\ Len(s) = n
      /\ n > 0 => s[1] = e1
      /\ n > 1 => s[2] = e2
  OBVIOUS
<1> HIDE DEF s
<1>3. /\ Len(q \o s) = Len(q) + Len(s)
      /\ \A i \in 1 .. Len(q) + Len(s) : (q \o s)[i] = IF i <= Len(q) THEN q[i] ELSE s[i - Len(q)]
  BY <1>2, ConcatProperties
<1>4. QED  BY <1>1, <1>2, <1>3 DEF s

-----------------------------------------------------------------------------
(***************************************************************************)
(* What the locks of the directories give the hooks: between the two hooks *)
(* of a call nobody else touches the nodes it is about.                    *)
(***************************************************************************)

\* The nodes a call is about.
Objects(c) == {c.obj, c.target} \ {None}

\* Each node is where the call that is about it has put it.
Placed(c) ==
  /\ c.ret # 1
  /\ c.op \in {"create", "mkdir"} => parent[c.obj] = IF c.ret = 0 THEN c.dir ELSE None
  /\ c.op \in {"unlink", "rmdir"} => parent[c.obj] = IF c.ret = 0 THEN None ELSE c.dir
  /\ c.op = "rename" => parent[c.obj] = IF c.ret = 0 THEN c.newdir ELSE c.dir
  /\ c.target # None =>
       /\ c.op = "rename" /\ c.target # c.obj
       /\ parent[c.target] = IF c.ret = 0 THEN None ELSE c.newdir

PlaceInv == \A t \in Thread : InCall(t, DirCalls) => Placed(call[t])

NoSharedNode ==
  \A t, u \in Thread : t # u /\ InCall(t, DirCalls) /\ InCall(u, DirCalls) =>
    Objects(call[t]) \cap Objects(call[u]) = {}

\* No call is at work in a directory that has been removed.
RemovedIsFree ==
  \A t \in Thread : InCall(t, {"rmdir"}) /\ call[t].ret = 0 => Free(call[t].obj)

OneCross == \A t, u \in Thread : CrossRename(t) /\ CrossRename(u) => t = u

LockInv == PlaceInv /\ NoSharedNode /\ RemovedIsFree /\ OneCross

-----------------------------------------------------------------------------

\* Where the nodes of a call are: in a directory it holds, or nowhere.
LEMMA ObjectsAreHeld ==
  ASSUME TypeInv, PlaceInv, NEW t \in Thread, InCall(t, DirCalls), NEW n \in Objects(call[t])
  PROVE  n \in Node /\ parent[n] \in Held(t) \cup {None}
<1>1. call[t] \in Call /\ call[t] # None /\ call[t].dir \in Dir /\ call[t].dir # None
  BY HooksAssumption DEF InCall, TypeInv, TypeOK, Call, Node
<1>2. call[t].op = "rename" => call[t].newdir \in Dir /\ call[t].newdir # None
  BY <1>1, HooksAssumption DEF TypeInv, CallInv, Node
<1>3. call[t].dir \in Held(t) /\ (call[t].op = "rename" => call[t].newdir \in Held(t))
  BY <1>1, <1>2 DEF Held, InCall
<1>4. n \in Node
  BY <1>1 DEF Objects, Call
<1>5. CASE n = call[t].obj
  <2>1. call[t].op \in DirCalls
    BY DEF InCall
  <2>2. parent[call[t].obj] \in {call[t].dir, None} \/ (call[t].op = "rename" /\ parent[call[t].obj] = call[t].newdir)
    BY <2>1 DEF PlaceInv, Placed, DirCalls
  <2>3. QED  BY <1>3, <1>4, <1>5, <2>2
<1>6. CASE n = call[t].target
  <2>1. n # None
    BY DEF Objects
  <2>2. call[t].op = "rename" /\ parent[call[t].target] \in {call[t].newdir, None}
    BY <1>6, <2>1 DEF PlaceInv, Placed
  <2>3. QED  BY <1>3, <1>4, <1>6, <2>2
<1>7. n = call[t].obj \/ n = call[t].target
  BY DEF Objects
<1>8. QED  BY <1>4, <1>5, <1>6, <1>7

LEMMA BeginLocks ==
  ASSUME TypeInv, LockInv, NEW t \in Thread, call[t] = None,
         NEW op \in DirCalls \cup WriteCalls, NEW d \in Dir, NEW x \in Node,
         NEW d2 \in Dir \cup {None}, NEW y \in Node \cup {None}, NEW w \in BOOLEAN,
         Begin(t, op, d, x, d2, y, w),
         op \in {"create", "mkdir"} => Unused(x),
         op \in {"unlink", "rmdir"} => parent[x] = d,
         op # "rename" => d2 = None /\ y = None,
         op = "rename" => /\ parent[x] = d /\ x # y /\ d2 # None /\ Linked(d2) /\ Free(d2)
                          /\ y # None => parent[y] = d2
                          /\ d # d2 => \A u \in Thread : ~CrossRename(u)
  PROVE  LockInv'
<1> DEFINE c == [op |-> op, dir |-> d, obj |-> x, newdir |-> d2, target |-> y,
                 watched |-> w, ret |-> None]
<1>1. c \in Call /\ c # None
  <2>1. c \in Call
    BY DEF Call
  <2>2. QED  BY <2>1, NoneAssumption
<1>2. c.op = op /\ c.dir = d /\ c.obj = x /\ c.newdir = d2 /\ c.target = y /\ c.ret = None
  OBVIOUS
<1>3. call' = [call EXCEPT ![t] = c] /\ parent' = parent
  BY DEF Begin
<1> HIDE DEF c
<1>4. call'[t] = c /\ \A u \in Thread \ {t} : call'[u] = call[u]
  BY <1>3 DEF TypeInv, TypeOK
<1>5. op \in DirCalls => parent[d] # None /\ Free(d)
  BY DEF Begin, Linked
<1>6. None \notin Node /\ None # 0 /\ None # 1 /\ Dir \subseteq Node
  BY HooksAssumption DEF Node
<1>7. InCall(t, DirCalls)' <=> op \in DirCalls
  BY <1>1, <1>2, <1>4 DEF InCall
<1>8. \A u \in Thread \ {t} : \A ops : InCall(u, ops)' <=> InCall(u, ops)
  BY <1>4 DEF InCall
<1>9. PlaceInv'
  <2>1. op \in {"create", "mkdir"} => parent[x] = None
    BY DEF Unused, Linked
  <2>2. op \in DirCalls => Placed(c)'
    BY <1>2, <1>3, <1>6, <2>1 DEF Placed
  <2>3. \A u \in Thread \ {t} : Placed(call[u]) => Placed(call[u])'
    BY <1>3, <1>4 DEF Placed
  <2>4. QED  BY <1>3, <1>4, <1>7, <1>8, <2>2, <2>3 DEF LockInv, PlaceInv
<1>10. ASSUME NEW u \in Thread, u # t, InCall(u, DirCalls), op \in DirCalls
       PROVE  Objects(c) \cap Objects(call[u]) = {}
  <2>1. SUFFICES ASSUME NEW n \in Objects(call[u]), n \in {x, y} PROVE FALSE
    BY <1>2 DEF Objects
  <2>2. n \in Node /\ parent[n] \in Held(u) \cup {None}
    BY <1>10, ObjectsAreHeld DEF LockInv
  <2>3. CASE op \in {"create", "mkdir"}
    <3>1. n = x
      BY <1>6, <2>1, <2>2, <2>3
    <3>2. call[u] # None /\ call[u].obj # x /\ call[u].target # x
      BY <1>10, <2>3 DEF Unused, InCall
    <3>3. QED  BY <2>1, <3>1, <3>2 DEF Objects
  <2>4. CASE op \in {"unlink", "rmdir"}
    <3>1. parent[n] = d
      BY <1>6, <2>1, <2>2, <2>4
    <3>2. QED  BY <1>5, <1>6, <1>10, <2>2, <3>1 DEF Free
  <2>5. CASE op = "rename"
    <3>1. parent[n] \in {d, d2} /\ d2 \in Dir
      BY <1>6, <2>1, <2>2, <2>5
    <3>2. QED  BY <1>5, <1>6, <1>10, <2>2, <2>5, <3>1 DEF Free
  <2>6. QED  BY <1>10, <2>3, <2>4, <2>5 DEF DirCalls
<1>11. NoSharedNode'
  <2>1. ASSUME NEW u \in Thread, NEW v \in Thread, u # v, InCall(u, DirCalls)', InCall(v, DirCalls)'
        PROVE  Objects(call'[u]) \cap Objects(call'[v]) = {}
    <3>1. CASE u = t
      BY <1>4, <1>7, <1>8, <1>10, <2>1, <3>1
    <3>2. CASE v = t
      BY <1>4, <1>7, <1>8, <1>10, <2>1, <3>2
    <3>3. CASE u # t /\ v # t
      BY <1>4, <1>8, <2>1, <3>3 DEF LockInv, NoSharedNode
    <3>4. QED  BY <3>1, <3>2, <3>3
  <2>2. QED  BY <2>1 DEF NoSharedNode, Objects
<1>12. RemovedIsFree'
  <2>1. ASSUME NEW u \in Thread, InCall(u, {"rmdir"})', call'[u].ret = 0
        PROVE  \A v \in Thread : call'[u].obj \notin Held(v)'
    <3>1. u # t /\ call'[u] = call[u] /\ InCall(u, {"rmdir"}) /\ call[u].ret = 0
      BY <1>2, <1>4, <1>6, <1>8, <2>1
    <3>2. Free(call[u].obj) /\ parent[call[u].obj] = None
      BY <3>1 DEF LockInv, RemovedIsFree, PlaceInv, Placed, InCall, DirCalls
    <3>3. \A v \in Thread \ {t} : Held(v)' = Held(v)
      BY <1>4 DEF Held
    <3>4. Held(t)' \subseteq {d, d2} \ {None} /\ (Held(t)' # {} => op \in DirCalls)
      BY <1>2, <1>4 DEF Held
    <3>5. \A e \in Held(t)' : parent[e] # None
      BY <1>5, <1>6, <3>4 DEF Linked
    <3>6. QED  BY <3>1, <3>2, <3>3, <3>5 DEF Free
  <2>2. QED  BY <2>1 DEF RemovedIsFree, Free
<1>13. OneCross'
  <2>1. \A u \in Thread \ {t} : CrossRename(u)' <=> CrossRename(u)
    BY <1>4 DEF CrossRename
  <2>2. CrossRename(t)' => \A u \in Thread : ~CrossRename(u)
    BY <1>2, <1>4 DEF CrossRename
  <2>3. QED  BY <2>1, <2>2 DEF LockInv, OneCross
<1>14. QED  BY <1>9, <1>11, <1>12, <1>13 DEF LockInv

LEMMA EnterLocks ==
  ASSUME TypeInv, LockInv, NEW t \in Thread, Enter(t)
  PROVE  LockInv'
<1>1. call[t] = None
  BY DEF Enter
<1>2. ASSUME NEW d \in Dir, NEW f \in File, lsm_inode_create(t, d, f) PROVE LockInv'
  <2> DEFINE hit == "CREATE" \in Feature /\ is_monitored(d)
  <2>1. Begin(t, "create", d, f, None, None, hit) /\ Unused(f)
    BY <1>2 DEF lsm_inode_create
  <2>2. hit \in BOOLEAN /\ f \in Node /\ "create" \in DirCalls
    BY DEF Node, DirCalls
  <2> HIDE DEF hit
  <2>3. QED  BY <1>1, <2>1, <2>2, BeginLocks
<1>3. ASSUME NEW d \in Dir, NEW f \in File, fentry_vfs_unlink(t, d, f) PROVE LockInv'
  <2> DEFINE hit == "DELETE" \in Feature /\ is_monitored(d)
  <2>1. Begin(t, "unlink", d, f, None, None, hit) /\ parent[f] = d
    BY <1>3 DEF fentry_vfs_unlink
  <2>2. hit \in BOOLEAN /\ f \in Node /\ "unlink" \in DirCalls
    BY DEF Node, DirCalls
  <2> HIDE DEF hit
  <2>3. QED  BY <1>1, <2>1, <2>2, BeginLocks
<1>4. ASSUME NEW d \in Dir, NEW n \in Dir, vfs_mkdir_entry(t, d, n) PROVE LockInv'
  <2>1. Begin(t, "mkdir", d, n, None, None, FALSE) /\ Unused(n)
    BY <1>4 DEF vfs_mkdir_entry
  <2>2. n \in Node /\ "mkdir" \in DirCalls
    BY DEF Node, DirCalls
  <2>3. QED  BY <1>1, <2>1, <2>2, BeginLocks
<1>5. ASSUME NEW d \in Dir, NEW n \in Dir, fentry_vfs_rmdir(t, d, n) PROVE LockInv'
  <2> DEFINE hit == "DELETE" \in Feature /\ is_monitored(n)
  <2>1. Begin(t, "rmdir", d, n, None, None, hit) /\ parent[n] = d
    BY <1>5 DEF fentry_vfs_rmdir
  <2>2. hit \in BOOLEAN /\ n \in Node /\ "rmdir" \in DirCalls \cup WriteCalls
    BY DEF Node, DirCalls
  <2> HIDE DEF hit
  <2>3. QED  BY <1>1, <2>1, <2>2, BeginLocks
<1>6. ASSUME NEW d \in Dir, NEW d2 \in Dir, NEW x \in Node, NEW y \in Node \cup {None},
             fentry_vfs_rename(t, d, x, d2, y)
      PROVE  LockInv'
  <2> DEFINE hit == /\ "RENAME" \in Feature
                    /\ (IF x \in Dir THEN is_monitored(x) ELSE is_monitored(d)) \/ is_monitored(d2)
  <2>1. /\ Begin(t, "rename", d, x, d2, y, hit)
        /\ parent[x] = d /\ x # y /\ Linked(d2) /\ Free(d2)
        /\ y # None => parent[y] = d2
        /\ d # d2 => \A u \in Thread : ~CrossRename(u)
    BY <1>6 DEF fentry_vfs_rename
  <2>2. /\ hit \in BOOLEAN /\ "rename" \in DirCalls \cup WriteCalls
        /\ d2 # None /\ d2 \in Dir \cup {None}
    BY HooksAssumption DEF DirCalls, Node
  <2> HIDE DEF hit
  <2>3. QED  BY <1>1, <2>1, <2>2, BeginLocks
<1>7. ASSUME NEW op \in WriteCalls, NEW f \in File, fim_file_permission(t, op, f) PROVE LockInv'
  <2> DEFINE hit == "MODIFY" \in Feature /\ is_monitored(parent[f]) /\ RingHasRoom(rb)
  <2>1. Begin(t, op, parent[f], f, None, None, hit) /\ parent[f] \in Dir
    BY <1>7 DEF fim_file_permission, Linked, TypeInv, TypeOK, Node
  <2>2. hit \in BOOLEAN /\ f \in Node /\ op \notin DirCalls
    BY DEF Node, WriteCalls, DirCalls
  <2> HIDE DEF hit
  <2>3. QED  BY <1>1, <2>1, <2>2, BeginLocks DEF DirCalls
<1>8. QED  BY <1>2, <1>3, <1>4, <1>5, <1>6, <1>7 DEF Enter

\* What the file system does: the locks of t keep the nodes of its call out of
\* the other calls.
LEMMA EffectLocks ==
  ASSUME TypeInv, LockInv, NEW t \in Thread, TakeEffect(t)
  PROVE  LockInv'
<1> DEFINE c == call[t]
<1>1. c # None /\ c.ret = None /\ c.op \in DirCalls \cup WriteCalls
  BY DEF TakeEffect, VfsFail, VfsLink, VfsRemove, VfsMove, VfsWrite, Running, DirCalls, WriteCalls
<1>2. PICK r \in {-1, 0, 1} : SetRet(t, r) /\ (c.op \in DirCalls => r # 1)
  BY DEF TakeEffect, VfsFail, VfsLink, VfsRemove, VfsMove, VfsWrite, Running, WriteCalls, DirCalls
<1>3. /\ \A u \in Thread \ {t} : call'[u] = call[u]
      /\ c \in Call /\ call'[t] # None /\ call'[t].ret = r
      /\ call'[t].op = c.op /\ call'[t].dir = c.dir /\ call'[t].obj = c.obj
      /\ call'[t].newdir = c.newdir /\ call'[t].target = c.target
      /\ \A u \in Thread : Held(u)' = Held(u)
      /\ \A u \in Thread : \A ops : InCall(u, ops)' <=> InCall(u, ops)
  BY <1>1, <1>2, ResultOnly
<1>4. \A u \in Thread : Objects(call'[u]) = Objects(call[u]) /\ (CrossRename(u)' <=> CrossRename(u))
  BY <1>1, <1>3 DEF Objects, CrossRename
<1>5. NoSharedNode' /\ OneCross'
  BY <1>3, <1>4 DEF LockInv, NoSharedNode, OneCross
<1>6. \A n \in Node : n \notin Objects(c) \/ c.op \notin DirCalls => parent'[n] = parent[n]
  <2>1. \A n \in Node : n \in {c.obj, c.target} => n \in Objects(c)
    BY HooksAssumption DEF Objects
  <2>2. CASE UNCHANGED parent
    BY <2>2
  <2>3. CASE VfsLink(t) \/ VfsRemove(t) \/ VfsMove(t)
    BY <1>3, <2>1, <2>3 DEF VfsLink, VfsRemove, VfsMove, Running, DirCalls, TypeInv, TypeOK
  <2>4. QED  BY <2>2, <2>3 DEF TakeEffect, VfsFail, VfsWrite
<1>7. ASSUME c.op \in DirCalls PROVE Placed(call[t])'
  <2>1. Placed(c) /\ c.obj \in Node /\ c.target \in Node \cup {None} /\ parent \in [Node -> Dir \cup {None}]
    BY <1>1, <1>3, <1>7 DEF LockInv, PlaceInv, InCall, Call, TypeInv, TypeOK
  <2>2. None # 0 /\ None # 1
    BY HooksAssumption
  <2>3. CASE VfsFail(t)
    <3>1. r = -1 /\ UNCHANGED parent
      BY <1>1, <1>3, <2>3, ResultOnly DEF VfsFail
    <3>2. QED  BY <1>1, <1>3, <2>1, <2>2, <3>1 DEF Placed
  <2>4. CASE VfsLink(t)
    <3>1. r = 0 /\ parent' = [parent EXCEPT ![c.obj] = c.dir] /\ c.op \in {"create", "mkdir"}
      BY <1>1, <1>3, <2>4, ResultOnly DEF VfsLink, Running
    <3>2. QED  BY <1>3, <2>1, <3>1 DEF Placed
  <2>5. CASE VfsRemove(t)
    <3>1. r = 0 /\ parent' = [parent EXCEPT ![c.obj] = None] /\ c.op \in {"unlink", "rmdir"}
      BY <1>1, <1>3, <2>5, ResultOnly DEF VfsRemove, Running
    <3>2. QED  BY <1>3, <2>1, <3>1 DEF Placed
  <2>6. CASE VfsMove(t)
    <3>1. /\ r = 0 /\ c.op = "rename"
          /\ parent' = [n \in Node |-> IF n = c.obj THEN c.newdir
                                       ELSE IF n = c.target THEN None ELSE parent[n]]
      BY <1>1, <1>3, <2>6, ResultOnly DEF VfsMove, Running
    <3>2. QED  BY <1>3, <2>1, <3>1 DEF Placed
  <2>7. QED  BY <1>7, <2>3, <2>4, <2>5, <2>6 DEF TakeEffect, VfsWrite, Running, DirCalls, WriteCalls
<1>8. PlaceInv'
  <2>1. ASSUME NEW u \in Thread \ {t}, InCall(u, DirCalls) PROVE Placed(call[u])'
    <3>1. Placed(call[u]) /\ call[u] \in Call /\ call'[u] = call[u] /\ call[u] # None
      BY <1>3, <2>1 DEF LockInv, PlaceInv, InCall, TypeInv, TypeOK
    <3>2. ASSUME NEW n \in Objects(call[u]), n \in Node PROVE parent'[n] = parent[n]
      <4>1. c.op \in DirCalls => Objects(c) \cap Objects(call[u]) = {}
        BY <1>1, <2>1 DEF LockInv, NoSharedNode, InCall
      <4>2. QED  BY <1>6, <3>2, <4>1
    <3>3. call[u].obj \in Node /\ call[u].target \in Node \cup {None} /\ None \notin Node
      BY <3>1, HooksAssumption DEF Call
    <3>4. parent'[call[u].obj] = parent[call[u].obj]
      BY <3>2, <3>3 DEF Objects
    <3>5. call[u].target # None => parent'[call[u].target] = parent[call[u].target]
      BY <3>2, <3>3 DEF Objects
    <3>6. QED  BY <3>1, <3>4, <3>5 DEF Placed
  <2>2. QED  BY <1>1, <1>3, <1>7, <2>1 DEF PlaceInv, InCall
<1>9. RemovedIsFree'
  <2>1. ASSUME NEW u \in Thread, InCall(u, {"rmdir"}), call'[u].ret = 0 PROVE Free(call'[u].obj)
    <3>1. CASE u # t \/ c.ret = 0
      BY <1>1, <1>3, <2>1, <3>1, HooksAssumption DEF LockInv, RemovedIsFree
    <3>2. CASE u = t
      <4>1. c.op = "rmdir" /\ r = 0
        BY <1>3, <2>1, <3>2 DEF InCall
      <4>2. VfsRemove(t)
        <5>1. ~VfsLink(t) /\ ~VfsMove(t) /\ ~VfsWrite(t)
          BY <4>1 DEF VfsLink, VfsMove, VfsWrite, Running, WriteCalls
        <5>2. ~VfsFail(t)
          BY <1>1, <1>3, <4>1, ResultOnly DEF VfsFail
        <5>3. QED  BY <5>1, <5>2 DEF TakeEffect
      <4>3. \A v \in Thread : Held(v) \subseteq Dir
        BY DEF Held, TypeInv, TypeOK, Call
      <4>4. Free(c.obj)
        BY <4>2, <4>3 DEF VfsRemove, Removable, Free
      <4>5. QED  BY <1>3, <3>2, <4>4
    <3>3. QED  BY <3>1, <3>2
  <2>2. QED  BY <1>3, <2>1 DEF RemovedIsFree, Free
<1>10. QED  BY <1>5, <1>8, <1>9 DEF LockInv

LEMMA ReturnLocks ==
  ASSUME TypeInv, LockInv, NEW t \in Thread, Return(t)
  PROVE  LockInv'
<1>1. Finish(t)
  BY DEF Return, ReturnUnhooked, fexit_vfs_mkdir, fexit_vfs_unlink, fexit_vfs_rmdir, fexit_vfs_rename,
         fexit_vfs_write, fexit_vfs_writev, WriteReturn
<1>2. call'[t] = None /\ parent' = parent /\ \A u \in Thread \ {t} : call'[u] = call[u]
  BY <1>1 DEF Finish, TypeInv, TypeOK
<1>3. \A u \in Thread : \A ops : InCall(u, ops)' => InCall(u, ops) /\ u # t
  BY <1>2 DEF InCall
<1>4. PlaceInv' /\ NoSharedNode'
  BY <1>2, <1>3 DEF LockInv, PlaceInv, Placed, NoSharedNode, Objects
<1>5. RemovedIsFree'
  BY <1>2, <1>3 DEF LockInv, RemovedIsFree, Free, Held
<1>6. OneCross'
  BY <1>2 DEF LockInv, OneCross, CrossRename
<1>7. QED  BY <1>4, <1>5, <1>6 DEF LockInv

\* Between the two hooks of a call the nodes it is about stay where it has put
\* them, for any number of threads: whatever a return hook is told of them at
\* the entry still holds.
LEMMA LocksHold == Spec => []LockInv
<1>1. Init => LockInv
  BY DEF Init, LockInv, PlaceInv, NoSharedNode, RemovedIsFree, OneCross, InCall, CrossRename
<1>2. TypeInv /\ LockInv /\ [Next]_vars => LockInv'
  <2>1. SUFFICES ASSUME TypeInv, LockInv, [Next]_vars PROVE LockInv'
    OBVIOUS
  <2>2. CASE UNCHANGED <<parent, call>>
    <3>1. PlaceInv' /\ NoSharedNode'
      BY <2>1, <2>2 DEF LockInv, PlaceInv, Placed, NoSharedNode, Objects, InCall
    <3>2. RemovedIsFree' /\ OneCross'
      BY <2>1, <2>2 DEF LockInv, RemovedIsFree, OneCross, InCall, Free, Held, CrossRename
    <3>3. QED  BY <3>1, <3>2 DEF LockInv
  <2>3. QED  BY <2>1, <2>2, EnterLocks, EffectLocks, ReturnLocks DEF Next, Poll, vars
<1>3. QED  BY <1>1, <1>2, Typing, PTL DEF Spec

=============================================================================
