--------------------------- MODULE KernelHooksEvents ---------------------------
(***************************************************************************)
(* The events of KernelHooks: each watched call that succeeds is reported, *)
(* and what is reported has happened.  Proofs for any threads, directories *)
(* and files.                                                              *)
(***************************************************************************)
EXTENDS KernelHooksProofs

-----------------------------------------------------------------------------
(* The context of a watched call stays until its return hook takes it.     *)

HasCtx ==
  \A t \in Thread : call[t] # None =>
    /\ call[t].watched /\ call[t].op # "create" => LruMap[t] # None
    /\ call[t].op = "rename" => call[t].ret # 1

LEMMA BeginSaves ==
  ASSUME TypeInv, HasCtx, NEW t \in Thread,
         NEW op \in DirCalls \cup WriteCalls, NEW d \in Dir, NEW x \in Node,
         NEW d2 \in Dir \cup {None}, NEW y \in Node \cup {None}, NEW w \in BOOLEAN,
         Begin(t, op, d, x, d2, y, w),
         w /\ op # "create" => LruMap'[t] # None,
         \A u \in Thread \ {t} : LruMap'[u] = LruMap[u]
  PROVE  HasCtx'
<1> DEFINE c == [op |-> op, dir |-> d, obj |-> x, newdir |-> d2, target |-> y,
                 watched |-> w, ret |-> None]
<1>1. c.op = op /\ c.watched = w /\ c.ret = None /\ None # 1
  BY HooksAssumption
<1>2. call' = [call EXCEPT ![t] = c]
  BY DEF Begin
<1> HIDE DEF c
<1>3. call'[t] = c /\ \A u \in Thread \ {t} : call'[u] = call[u]
  BY <1>2 DEF TypeInv, TypeOK
<1>4. QED  BY <1>1, <1>3 DEF HasCtx

\* What an entry hook does to LruMap: it saves a context if it watches the call.
LEMMA HookSaves ==
  ASSUME NoEvictions, TypeInv, NEW t \in Thread, NEW w \in BOOLEAN, NEW ctx,
         w => ctx \in dentry_ctx,
         IF w THEN SaveCtx(t, ctx) ELSE UNCHANGED LruMap
  PROVE  (w => LruMap'[t] # None) /\ \A u \in Thread \ {t} : LruMap'[u] = LruMap[u]
<1>1. LruMap \in [Thread -> dentry_ctx \cup {None}]
  BY DEF TypeInv, TypeOK
<1>2. CASE w
  BY <1>1, <1>2, NothingEvicted, NoneAssumption
<1>3. QED  BY <1>2

LEMMA EnterSaves ==
  ASSUME NoEvictions, TypeInv, HasCtx, NEW t \in Thread, Enter(t)
  PROVE  HasCtx'
<1>1. ASSUME NEW d \in Dir, NEW f \in File, lsm_inode_create(t, d, f) PROVE HasCtx'
  <2> DEFINE hit == "CREATE" \in Feature /\ is_monitored(d)
  <2>1. Begin(t, "create", d, f, None, None, hit) /\ UNCHANGED LruMap
    BY <1>1 DEF lsm_inode_create
  <2>2. hit \in BOOLEAN /\ f \in Node /\ "create" \in DirCalls
    BY DEF Node, DirCalls
  <2> HIDE DEF hit
  <2>3. QED  BY <2>1, <2>2, BeginSaves
<1>2. ASSUME NEW d \in Dir, NEW f \in File, fentry_vfs_unlink(t, d, f) PROVE HasCtx'
  <2> DEFINE hit == "DELETE" \in Feature /\ is_monitored(d)
  <2>1. /\ Begin(t, "unlink", d, f, None, None, hit)
        /\ IF hit THEN SaveCtx(t, BlankCtx(<<d, f>>)) ELSE UNCHANGED LruMap
    BY <1>2 DEF fentry_vfs_unlink
  <2>2. hit \in BOOLEAN /\ f \in Node /\ BlankCtx(<<d, f>>) \in dentry_ctx /\ "unlink" \in DirCalls
    BY BlankCtxType DEF Node, Path, DirCalls
  <2> HIDE DEF hit
  <2>3. QED  BY <2>1, <2>2, HookSaves, BeginSaves
<1>3. ASSUME NEW d \in Dir, NEW n \in Dir, vfs_mkdir_entry(t, d, n) PROVE HasCtx'
  <2>1. Begin(t, "mkdir", d, n, None, None, FALSE) /\ UNCHANGED LruMap
    BY <1>3 DEF vfs_mkdir_entry, hookVars
  <2>2. n \in Node /\ "mkdir" \in DirCalls
    BY DEF Node, DirCalls
  <2>3. QED  BY <2>1, <2>2, BeginSaves
<1>4. ASSUME NEW d \in Dir, NEW n \in Dir, fentry_vfs_rmdir(t, d, n) PROVE HasCtx'
  <2> DEFINE hit == "DELETE" \in Feature /\ is_monitored(n)
             ctx == [BlankCtx(<<d, n>>) EXCEPT !.inode = n]
  <2>1. /\ Begin(t, "rmdir", d, n, None, None, hit)
        /\ IF hit THEN SaveCtx(t, ctx) ELSE UNCHANGED LruMap
    BY <1>4 DEF fentry_vfs_rmdir
  <2>2. hit \in BOOLEAN /\ n \in Node /\ ctx \in dentry_ctx /\ "rmdir" \in DirCalls
    BY DEF Node, Path, BlankCtx, dentry_ctx, DirCalls
  <2> HIDE DEF hit, ctx
  <2>3. QED  BY <2>1, <2>2, HookSaves, BeginSaves
<1>5. ASSUME NEW d \in Dir, NEW d2 \in Dir, NEW x \in Node, NEW y \in Node \cup {None},
             fentry_vfs_rename(t, d, x, d2, y)
      PROVE  HasCtx'
  <2> DEFINE dir == x \in Dir
             hit == /\ "RENAME" \in Feature
                    /\ (IF dir THEN is_monitored(x) ELSE is_monitored(d)) \/ is_monitored(d2)
             ctx == [filepath |-> <<d, x>>, inode |-> x, is_dir |-> dir,
                     inode_mon |-> dir /\ is_monitored(x), is_new_dir_mon |-> is_monitored(d2),
                     is_cross_dir |-> d # d2, overwrite |-> y # None]
  <2>1. /\ Begin(t, "rename", d, x, d2, y, hit)
        /\ IF hit THEN SaveCtx(t, ctx) ELSE UNCHANGED LruMap
    BY <1>5 DEF fentry_vfs_rename
  <2>2. hit \in BOOLEAN /\ "rename" \in DirCalls
    BY DEF DirCalls
  <2>3. ctx \in dentry_ctx
    BY DEF dentry_ctx, Path, is_monitored
  <2> HIDE DEF hit, ctx
  <2>4. QED  BY <2>1, <2>2, <2>3, HookSaves, BeginSaves
<1>6. ASSUME NEW op \in WriteCalls, NEW f \in File, fim_file_permission(t, op, f) PROVE HasCtx'
  <2> DEFINE hit == "MODIFY" \in Feature /\ is_monitored(parent[f]) /\ RingHasRoom(rb)
  <2>1. /\ Begin(t, op, parent[f], f, None, None, hit) /\ parent[f] # None
        /\ IF hit THEN SaveCtx(t, BlankCtx(<<parent[f], f>>)) ELSE UNCHANGED LruMap
    BY <1>6 DEF fim_file_permission, Linked
  <2>2. hit \in BOOLEAN /\ f \in Node /\ parent[f] \in Dir
    BY <2>1 DEF Node, TypeInv, TypeOK
  <2>3. BlankCtx(<<parent[f], f>>) \in dentry_ctx
    BY <2>2, BlankCtxType DEF Path
  <2> HIDE DEF hit
  <2>4. QED  BY <2>1, <2>2, <2>3, HookSaves, BeginSaves
<1>7. QED  BY <1>1, <1>2, <1>3, <1>4, <1>5, <1>6 DEF Enter

LEMMA EffectSaves ==
  ASSUME TypeInv, HasCtx, NEW t \in Thread, TakeEffect(t)
  PROVE  HasCtx'
<1>1. PICK r \in {-1, 0, 1} : SetRet(t, r) /\ (call[t].op = "rename" => r # 1)
  BY DEF TakeEffect, VfsFail, VfsLink, VfsRemove, VfsMove, VfsWrite, Running, WriteCalls
<1>2. call[t] # None /\ UNCHANGED LruMap
  BY DEF TakeEffect, VfsFail, VfsLink, VfsRemove, VfsMove, VfsWrite, Running, hookVars
<1>3. /\ \A u \in Thread \ {t} : call'[u] = call[u]
      /\ call'[t].ret = r /\ call'[t].op = call[t].op /\ call'[t].watched = call[t].watched
  BY <1>1, <1>2, ResultOnly
<1>4. QED  BY <1>1, <1>2, <1>3 DEF HasCtx

LEMMA ReturnSaves ==
  ASSUME TypeInv, HasCtx, NEW t \in Thread, Return(t)
  PROVE  HasCtx'
<1>1. Finish(t) /\ (UNCHANGED LruMap \/ DropCtx(t))
  BY DEF Return, ReturnUnhooked, fexit_vfs_mkdir, fexit_vfs_unlink, fexit_vfs_rmdir, fexit_vfs_rename,
         fexit_vfs_write, fexit_vfs_writev, WriteReturn, hookVars
<1>2. call'[t] = None /\ \A u \in Thread \ {t} : call'[u] = call[u]
  BY <1>1 DEF Finish, TypeInv, TypeOK
<1>3. \A u \in Thread \ {t} : LruMap'[u] = LruMap[u]
  BY <1>1, DropCtxEffect DEF TypeInv, TypeOK
<1>4. QED  BY <1>2, <1>3 DEF HasCtx

\* An event that fits is the last one of the ring.
LEMMA EmitAppends ==
  ASSUME TypeInv, NEW p \in Path, NEW type \in EventTypes, emit_event(p, type)
  PROVE  IF RingHasRoom(rb)
         THEN Len(rb') = Len(rb) + 1 /\ rb'[Len(rb) + 1] = Ev(type, p)
         ELSE rb' = rb
<1>1. Ev(type, p) \in Event /\ rb \in Seq(Event)
  BY DEF Ev, Event, TypeInv, TypeOK
<1>2. PICK e \in Event : e = Ev(type, p)
  BY <1>1
<1>3. Len(Append(rb, e)) = Len(rb) + 1 /\ Append(rb, e)[Len(rb) + 1] = e
  BY <1>1, AppendProperties
<1>4. QED  BY <1>2, <1>3 DEF emit_event, Submit

-----------------------------------------------------------------------------
(* Watched calls are reported.                                             *)

LEMMA RenameSubmits ==
  ASSUME TypeInv, NEW t \in Thread, fexit_vfs_rename(t), FindsCtx(t, "RENAME"), call[t].ret = 0,
         RingHasRoom(rb)
  PROVE  Len(rb') > Len(rb)
<1> DEFINE ctx  == SavedCtx(t)
           c    == call[t]
           room == RingMax - Len(rb)
           n    == IF room < 2 THEN room ELSE 2
           e1   == Ev("RENAME_D", ctx.filepath)
           e2   == Ev(IF ctx.overwrite THEN "RENAME_OW" ELSE "RENAME_C", <<c.newdir, c.obj>>)
<1>1. rb' = rb \o SubSeq(<<e1, e2>>, 1, n)
  BY DEF fexit_vfs_rename, RenameEvents
<1>2. ctx \in dentry_ctx /\ c \in Call /\ c.newdir \in Dir
  BY SavedCtxType DEF FindsCtx, fexit_vfs_rename, Returned, TypeInv, TypeOK, CallInv
<1>3. e1 \in Event /\ e2 \in Event
  <2>1. <<c.newdir, c.obj>> \in Path /\ ctx.filepath \in Path
    BY <1>2 DEF Path, Call, dentry_ctx
  <2>2. QED  BY <2>1 DEF Ev, Event, EventTypes
<1>4. rb \in Seq(Event) /\ Len(rb) \in Nat /\ n \in 1 .. 2
  <2>1. rb \in Seq(Event) /\ Len(rb) < RingMax /\ RingMax \in Nat
    BY HooksAssumption DEF TypeInv, TypeOK, RingHasRoom
  <2>2. Len(rb) \in Nat
    BY <2>1, LenProperties
  <2>3. QED  BY <2>1, <2>2
<1> HIDE DEF e1, e2, n
<1>5. SubSeq(<<e1, e2>>, 1, n) \in Seq(Event) /\ Len(SubSeq(<<e1, e2>>, 1, n)) = n
  BY <1>3, <1>4
<1>6. PICK s \in Seq(Event) : s = SubSeq(<<e1, e2>>, 1, n)
  BY <1>5
<1>7. Len(rb \o s) = Len(rb) + Len(s)
  BY <1>4, ConcatProperties
<1>8. QED  BY <1>1, <1>4, <1>5, <1>6, <1>7

LEMMA WatchedReturn ==
  ASSUME TypeInv, HasCtx, NEW t \in Thread, Return(t), call[t] # None, call[t].watched,
         call[t].op \notin {"create", "splice"},
         call[t].ret >= IF call[t].op = "write" THEN 1 ELSE 0,
         RingHasRoom(rb)
  PROVE  Len(rb') > Len(rb)
<1> DEFINE c == call[t]
           p == SavedCtx(t).filepath
<1>1. c \in Call /\ c.op # "mkdir" /\ FindsCtx(t, FeatureOf(c.op))
  BY DEF HasCtx, FindsCtx, SavedCtx, bpf_get_current_pid_tgid, TypeInv, TypeOK, CallInv
<1>2. p \in Path
  BY <1>1, SavedCtxType DEF FindsCtx
<1>3. Len(rb) \in Nat
  BY LenProperties DEF TypeInv, TypeOK
<1>4. CASE fexit_vfs_unlink(t) \/ fexit_vfs_rmdir(t)
  <2>1. c.op \in {"unlink", "rmdir"} /\ FindsCtx(t, "DELETE") /\ Removed(t)
    BY <1>1, <1>4 DEF fexit_vfs_unlink, fexit_vfs_rmdir, Returned, FeatureOf, Removed
  <2>2. emit_event(p, "DELETE")
    BY <1>4, <2>1 DEF fexit_vfs_unlink, fexit_vfs_rmdir
  <2>3. QED  BY <1>2, <1>3, <2>2, EmitAppends DEF EventTypes
<1>5. CASE fexit_vfs_write(t) \/ fexit_vfs_writev(t)
  <2>1. FindsCtx(t, "MODIFY") /\ c.ret >= IF c.op = "write" THEN 1 ELSE 0
    BY <1>1, <1>5 DEF fexit_vfs_write, fexit_vfs_writev, WriteReturn, Returned, FeatureOf
  <2>2. emit_event(p, "WRITE")
    BY <1>5, <2>1 DEF fexit_vfs_write, fexit_vfs_writev, WriteReturn, Returned
  <2>3. QED  BY <1>2, <1>3, <2>2, EmitAppends DEF EventTypes
<1>6. CASE fexit_vfs_rename(t)
  <2>1. c.op = "rename" /\ c.ret # None
    BY <1>6 DEF fexit_vfs_rename, Returned
  <2>2. FindsCtx(t, "RENAME")
    BY <1>1, <2>1 DEF FeatureOf
  <2>3. c.ret = 0
    <3>1. c.ret \in {-1, 0, 1} /\ c.ret # 1 /\ c.ret >= 0
      BY <1>1, <2>1 DEF HasCtx, Call
    <3>2. QED  BY <3>1
  <2>4. QED  BY <1>6, <2>2, <2>3, RenameSubmits
<1>7. QED
  BY <1>1, <1>4, <1>5, <1>6 DEF Return, ReturnUnhooked, fexit_vfs_mkdir, Returned

\* Every call that an entry hook watches and that succeeds is reported when it
\* returns, in every build and for any mix of calls, as long as the ring
\* buffer has room and LruMap a place for each thread: no call of another
\* thread takes its context away.
THEOREM WatchedCallsAreReported == NoEvictions => (Spec => WatchedIsReported)
<1>1. SUFFICES ASSUME NoEvictions PROVE Spec => WatchedIsReported
  OBVIOUS
<1>2. Init => HasCtx
  BY DEF Init, HasCtx
<1>3. TypeInv /\ HasCtx /\ [Next]_vars => HasCtx'
  <2>1. SUFFICES ASSUME TypeInv, HasCtx, [Next]_vars PROVE HasCtx'
    OBVIOUS
  <2>2. CASE Poll \/ UNCHANGED vars
    BY <2>1, <2>2 DEF Poll, vars, HasCtx
  <2>3. QED  BY <1>1, <2>1, <2>2, EnterSaves, EffectSaves, ReturnSaves DEF Next
<1> DEFINE Step(t) ==
      (/\ call[t] # None /\ call'[t] = None
       /\ call[t].watched /\ call[t].op \notin {"create", "splice"}
       /\ call[t].ret >= IF call[t].op = "write" THEN 1 ELSE 0)
      => Len(rb') > Len(rb) \/ ~RingHasRoom(rb)
<1>4. ASSUME TypeInv, HasCtx, [Next]_vars, NEW t \in Thread PROVE Step(t)
  BY <1>4, WhoReturns, WatchedReturn
<1>5. TypeInv /\ HasCtx /\ [Next]_vars => [\A t \in Thread : Step(t)]_vars
  BY <1>4
<1>6. QED  BY <1>2, <1>3, <1>5, Typing, PTL DEF Spec, WatchedIsReported

-----------------------------------------------------------------------------
(* What is reported has happened.                                          *)

\* The events a step adds to rb fit a call.
Truthful == \A i \in Len(rb) + 1 .. Len(rb') : \E t \in Thread : Justified(t, rb'[i])

LEMMA NothingAdded ==
  ASSUME TypeInv, UNCHANGED rb
  PROVE  Truthful
<1>1. Len(rb) \in Nat
  BY LenProperties DEF TypeInv, TypeOK
<1>2. QED  BY <1>1 DEF Truthful

LEMMA OneAdded ==
  ASSUME TypeInv, NEW t \in Thread, NEW p \in Path, NEW type \in EventTypes, emit_event(p, type),
         Justified(t, Ev(type, p))
  PROVE  Truthful
<1>1. Len(rb) \in Nat
  BY LenProperties DEF TypeInv, TypeOK
<1>2. CASE RingHasRoom(rb)
  <2>1. Len(rb') = Len(rb) + 1 /\ rb'[Len(rb) + 1] = Ev(type, p)
    BY <1>2, EmitAppends
  <2>2. \A i \in Len(rb) + 1 .. Len(rb') : i = Len(rb) + 1
    BY <1>1, <2>1
  <2>3. QED  BY <2>1, <2>2 DEF Truthful
<1>3. CASE ~RingHasRoom(rb)
  BY <1>3, EmitAppends, NothingAdded
<1>4. QED  BY <1>2, <1>3

LEMMA BeginTruthful ==
  ASSUME TypeInv, NEW t \in Thread, call[t] = None, NEW op \in {"create"} \cup WriteCalls,
         NEW d \in Dir, NEW f \in File, NEW w \in BOOLEAN, Begin(t, op, d, f, None, None, w),
         NEW type \in {"CREATE", "WRITE_INTENT"}, type = "CREATE" <=> op = "create",
         emit_event(<<d, f>>, type) \/ UNCHANGED rb
  PROVE  Truthful
<1> DEFINE c == [op |-> op, dir |-> d, obj |-> f, newdir |-> None, target |-> None,
                 watched |-> w, ret |-> None]
<1>1. c # None
  <2>1. c \in Call
    BY DEF Call, DirCalls, Node
  <2>2. QED  BY <2>1, NoneAssumption
<1>2. c.op = op /\ c.dir = d /\ c.obj = f
  OBVIOUS
<1>3. call' = [call EXCEPT ![t] = c]
  BY DEF Begin
<1> HIDE DEF c
<1>4. call'[t] = c
  BY <1>3 DEF TypeInv, TypeOK
<1>5. PICK p \in Path : p = <<d, f>>
  BY DEF Path, Node
<1>6. Ev(type, p).type = type /\ Ev(type, p).path = p
  BY DEF Ev
<1>7. Justified(t, Ev(type, p))
  <2>1. CASE type = "CREATE"
    BY <1>1, <1>2, <1>4, <1>5, <1>6, <2>1 DEF Justified
  <2>2. CASE type = "WRITE_INTENT"
    BY <1>1, <1>2, <1>4, <1>5, <1>6, <2>2 DEF Justified
  <2>3. QED  BY <2>1, <2>2
<1>8. type \in EventTypes
  BY DEF EventTypes
<1>9. QED  BY <1>5, <1>7, <1>8, NothingAdded, OneAdded

LEMMA EnterTruthful ==
  ASSUME TypeInv, NEW t \in Thread, Enter(t)
  PROVE  Truthful
<1>1. call[t] = None
  BY DEF Enter
<1>2. ASSUME NEW d \in Dir, NEW f \in File, lsm_inode_create(t, d, f) PROVE Truthful
  <2> DEFINE hit == "CREATE" \in Feature /\ is_monitored(d)
  <2>1. /\ Begin(t, "create", d, f, None, None, hit)
        /\ emit_event(<<d, f>>, "CREATE") \/ UNCHANGED rb
    BY <1>2 DEF lsm_inode_create
  <2>2. hit \in BOOLEAN
    OBVIOUS
  <2> HIDE DEF hit
  <2>3. QED  BY <1>1, <2>1, <2>2, BeginTruthful
<1>3. ASSUME NEW op \in WriteCalls, NEW f \in File, fim_file_permission(t, op, f) PROVE Truthful
  <2> DEFINE hit == "MODIFY" \in Feature /\ is_monitored(parent[f]) /\ RingHasRoom(rb)
  <2>1. /\ Begin(t, op, parent[f], f, None, None, hit) /\ parent[f] \in Dir
        /\ emit_event(<<parent[f], f>>, "WRITE_INTENT") \/ UNCHANGED rb
    BY <1>3 DEF fim_file_permission, Linked, TypeInv, TypeOK, Node
  <2>2. hit \in BOOLEAN /\ op # "create"
    BY DEF WriteCalls
  <2> HIDE DEF hit
  <2>3. QED  BY <1>1, <2>1, <2>2, BeginTruthful
<1>4. ASSUME NEW d \in Dir, NEW f \in File, fentry_vfs_unlink(t, d, f) PROVE Truthful
  BY <1>4, NothingAdded DEF fentry_vfs_unlink
<1>5. ASSUME NEW d \in Dir, NEW n \in Dir, vfs_mkdir_entry(t, d, n) \/ fentry_vfs_rmdir(t, d, n) PROVE Truthful
  BY <1>5, NothingAdded DEF vfs_mkdir_entry, fentry_vfs_rmdir, hookVars
<1>6. ASSUME NEW d \in Dir, NEW d2 \in Dir, NEW x \in Node, NEW y \in Node \cup {None},
             fentry_vfs_rename(t, d, x, d2, y)
      PROVE  Truthful
  BY <1>6, NothingAdded DEF fentry_vfs_rename
<1>7. QED  BY <1>2, <1>3, <1>4, <1>5, <1>6 DEF Enter

\* The one or two events of a rename.
LEMMA RenameTruthful ==
  ASSUME TypeInv, CtxOwned, LockInv, NEW t \in Thread, fexit_vfs_rename(t)
  PROVE  Truthful
<1> DEFINE ctx  == SavedCtx(t)
           c    == call[t]
           room == RingMax - Len(rb)
           n    == IF room < 2 THEN room ELSE 2
           e1   == Ev("RENAME_D", ctx.filepath)
           e2   == Ev(IF ctx.overwrite THEN "RENAME_OW" ELSE "RENAME_C", <<c.newdir, c.obj>>)
<1>1. CASE UNCHANGED rb
  BY <1>1, NothingAdded
<1>2. CASE ~UNCHANGED rb
  <2>1. /\ FindsCtx(t, "RENAME") /\ c # None /\ c.op = "rename" /\ c.ret = 0 /\ call'[t] = None
        /\ rb' = rb \o SubSeq(<<e1, e2>>, 1, n)
    BY <1>2 DEF fexit_vfs_rename, Returned, RenameEvents, Finish, TypeInv, TypeOK
  <2>2. ctx \in dentry_ctx /\ ctx.filepath = <<c.dir, c.obj>> /\ ctx.overwrite = (c.target # None)
    <3>1. ctx # None /\ SavedBy(ctx, c)
      BY <2>1 DEF FindsCtx, CtxOwned
    <3>2. QED  BY <2>1, <3>1, SavedCtxType DEF SavedBy
  <2>3. c \in Call /\ c.newdir \in Dir
    BY <2>1 DEF TypeInv, TypeOK, CallInv
  <2>4. /\ parent[c.obj] = c.newdir
        /\ c.target # None => parent[c.target] = None
    BY <2>1 DEF LockInv, PlaceInv, Placed, InCall, DirCalls
  <2>5. <<c.newdir, c.obj>> \in Path /\ ctx.filepath \in Path
    BY <2>2, <2>3 DEF Path, Call, dentry_ctx
  <2>6. e1 \in Event /\ e2 \in Event
    BY <2>5 DEF Ev, Event, EventTypes
  <2>7. Justified(t, e1)
    <3>1. e1.type = "RENAME_D" /\ e1.path = <<c.dir, c.obj>>
      BY <2>2 DEF Ev
    <3>2. QED  BY <2>1, <3>1 DEF Justified
  <2>8. Justified(t, e2)
    <3>1. e2.path = <<c.newdir, c.obj>> /\ e2.type = IF ctx.overwrite THEN "RENAME_OW" ELSE "RENAME_C"
      BY DEF Ev
    <3> HIDE DEF e2, ctx
    <3>2. CASE c.target = None
      BY <2>1, <2>2, <2>4, <3>1, <3>2 DEF Justified
    <3>3. CASE c.target # None
      BY <2>1, <2>2, <2>4, <3>1, <3>3 DEF Justified, Linked
    <3>4. QED  BY <3>2, <3>3
  <2>9. rb \in Seq(Event) /\ Len(rb) \in Nat /\ n \in 0 .. 2
    <3>1. rb \in Seq(Event) /\ Len(rb) <= RingMax /\ RingMax \in Nat
      BY HooksAssumption DEF TypeInv, TypeOK
    <3>2. Len(rb) \in Nat
      BY <3>1, LenProperties
    <3>3. QED  BY <3>1, <3>2
  <2> HIDE DEF e1, e2, n
  <2>10. /\ Len(rb') = Len(rb) + n
         /\ n > 0 => rb'[Len(rb) + 1] = e1
         /\ n > 1 => rb'[Len(rb) + 2] = e2
    BY <2>1, <2>6, <2>9, RenameAppends
  <2>11. ASSUME NEW i \in Len(rb) + 1 .. Len(rb') PROVE Justified(t, rb'[i])
    <3>1. (i = Len(rb) + 1 /\ n > 0) \/ (i = Len(rb) + 2 /\ n > 1)
      BY <2>9, <2>10
    <3>2. QED  BY <2>7, <2>8, <2>10, <3>1
  <2>12. QED  BY <2>11 DEF Truthful
<1>3. QED  BY <1>1, <1>2

LEMMA ReturnTruthful ==
  ASSUME TypeInv, CtxOwned, LockInv, NEW t \in Thread, Return(t)
  PROVE  Truthful
<1> DEFINE c == call[t]
           p == SavedCtx(t).filepath
<1>1. c \in Call /\ c # None /\ call'[t] = None
  BY DEF Return, ReturnUnhooked, fexit_vfs_mkdir, fexit_vfs_unlink, fexit_vfs_rmdir,
         fexit_vfs_rename, fexit_vfs_write, fexit_vfs_writev, WriteReturn, Returned, Finish,
         TypeInv, TypeOK
<1>2. SavedCtx(t) # None => p \in Path /\ p = <<c.dir, c.obj>>
  BY SavedCtxType DEF CtxOwned, SavedBy
<1>3. CASE ReturnUnhooked(t)
  BY <1>3, NothingAdded DEF ReturnUnhooked, hookVars
<1>4. CASE fexit_vfs_mkdir(t)
  <2>1. CASE MkdirInMonitored(t)
    <3>1. c.op = "mkdir" /\ c.ret = 0 /\ parent[c.obj] = c.dir
      BY <1>1, <1>4, <2>1 
         DEF MkdirInMonitored, fexit_vfs_mkdir, Returned, LockInv, PlaceInv, Placed, InCall, DirCalls
    <3>2. PICK q \in Path : q = <<c.dir, c.obj>>
      BY <1>1 DEF Path, Call
    <3>3. Ev("CREATE", q).type = "CREATE" /\ Ev("CREATE", q).path = q
      BY DEF Ev
    <3>4. Justified(t, Ev("CREATE", q))
      BY <1>1, <3>1, <3>2, <3>3 DEF Justified
    <3>5. emit_event(q, "CREATE")
      BY <1>4, <2>1, <3>2 DEF fexit_vfs_mkdir
    <3>6. QED  BY <3>4, <3>5, OneAdded DEF EventTypes
  <2>2. CASE ~MkdirInMonitored(t)
    BY <1>4, <2>2, NothingAdded DEF fexit_vfs_mkdir
  <2>3. QED  BY <2>1, <2>2
<1>5. CASE fexit_vfs_unlink(t) \/ fexit_vfs_rmdir(t)
  <2>1. CASE FindsCtx(t, "DELETE") /\ Removed(t)
    <3>1. c.op \in {"unlink", "rmdir"} /\ c.ret # None /\ c.ret >= 0
      BY <1>5, <2>1 DEF fexit_vfs_unlink, fexit_vfs_rmdir, Returned, Removed
    <3>2. c.ret = 0
      <4>1. c.ret # 1
        BY <1>1, <3>1 DEF LockInv, PlaceInv, Placed, InCall, DirCalls
      <4>2. c.ret \in {-1, 0, 1}
        BY <1>1, <3>1 DEF Call
      <4>3. QED  BY <3>1, <4>1, <4>2
    <3>3. parent[c.obj] = None
      BY <1>1, <3>1, <3>2 DEF LockInv, PlaceInv, Placed, InCall, DirCalls
    <3>4. p \in Path /\ p = <<c.dir, c.obj>> /\ emit_event(p, "DELETE")
      BY <1>2, <1>5, <2>1 DEF FindsCtx, fexit_vfs_unlink, fexit_vfs_rmdir
    <3>5. Ev("DELETE", p).type = "DELETE" /\ Ev("DELETE", p).path = p
      BY DEF Ev
    <3>6. Justified(t, Ev("DELETE", p))
      BY <1>1, <3>1, <3>2, <3>3, <3>4, <3>5 DEF Justified, Linked
    <3>7. QED  BY <3>4, <3>6, OneAdded DEF EventTypes
  <2>2. CASE ~(FindsCtx(t, "DELETE") /\ Removed(t))
    BY <1>5, <2>2, NothingAdded DEF fexit_vfs_unlink, fexit_vfs_rmdir
  <2>3. QED  BY <2>1, <2>2
<1>6. CASE fexit_vfs_write(t) \/ fexit_vfs_writev(t)
  <2>1. PICK op \in {"write", "writev"} :
          c.op = op /\ c.ret # None /\ WriteReturn(t, op, IF op = "write" THEN 1 ELSE 0)
    BY <1>6 DEF fexit_vfs_write, fexit_vfs_writev, WriteReturn, Returned
  <2>2. CASE FindsCtx(t, "MODIFY") /\ c.ret >= (IF op = "write" THEN 1 ELSE 0)
    <3>1. p \in Path /\ p = <<c.dir, c.obj>> /\ emit_event(p, "WRITE")
      BY <1>2, <2>1, <2>2 DEF FindsCtx, WriteReturn
    <3>2. Ev("WRITE", p).type = "WRITE" /\ Ev("WRITE", p).path = p
      BY DEF Ev
    <3>3. (c.op = "write" /\ c.ret > 0) \/ (c.op = "writev" /\ c.ret >= 0)
      <4>1. c.ret \in {-1, 0, 1}
        BY <1>1, <2>1 DEF Call
      <4>2. QED  BY <2>1, <2>2, <4>1
    <3>4. Justified(t, Ev("WRITE", p))
      BY <1>1, <3>1, <3>2, <3>3 DEF Justified
    <3>5. QED  BY <3>1, <3>4, OneAdded DEF EventTypes
  <2>3. CASE ~(FindsCtx(t, "MODIFY") /\ c.ret >= (IF op = "write" THEN 1 ELSE 0))
    BY <2>1, <2>3, NothingAdded DEF WriteReturn
  <2>4. QED  BY <2>2, <2>3
<1>7. QED  BY <1>1, <1>3, <1>4, <1>5, <1>6, RenameTruthful DEF Return

\* No event is made up: the path, the type and the success it tells of are
\* those of the call that submits it, and the tree shows it, whatever other
\* threads did between the two hooks of the call, in every build in which each
\* hook that saves a context has a return hook that drops it.
THEOREM EventsAreTruthful == PairedHooks => (Spec => EventsTruthful)
<1>1. SUFFICES ASSUME PairedHooks PROVE Spec => EventsTruthful
  OBVIOUS
<1>2. ASSUME TypeInv, CtxOwned, LockInv, [Next]_vars PROVE Truthful
  <2>1. CASE UNCHANGED vars
    BY <1>2, <2>1, NothingAdded DEF vars
  <2>2. CASE Poll
    <3>1. rb \in Seq(Event) /\ rb # <<>> /\ rb' = Tail(rb)
      BY <1>2, <2>2 DEF Poll, TypeInv, TypeOK
    <3>2. Len(rb) \in Nat /\ Len(rb') = Len(rb) - 1
      BY <3>1, HeadTailProperties, LenProperties
    <3>3. QED  BY <3>2 DEF Truthful
  <2>3. ASSUME NEW t \in Thread, TakeEffect(t) PROVE Truthful
    BY <1>2, <2>3, NothingAdded
       DEF TakeEffect, VfsFail, VfsLink, VfsRemove, VfsMove, VfsWrite, hookVars
  <2>4. QED  BY <1>2, <2>1, <2>2, <2>3, EnterTruthful, ReturnTruthful DEF Next
<1>3. TypeInv /\ CtxOwned /\ LockInv /\ [Next]_vars =>
        [\A i \in Len(rb) + 1 .. Len(rb') : \E t \in Thread : Justified(t, rb'[i])]_vars
  BY <1>2 DEF Truthful
<1>4. Spec => []CtxOwned
  BY <1>1, ContextsAreOwned
<1>5. QED  BY <1>3, <1>4, Typing, LocksHold, PTL DEF Spec, EventsTruthful

=============================================================================
