-------------------------- MODULE KernelHooksReports --------------------------
(***************************************************************************)
(* What KernelHooks tells user space: the counter of the removals and the  *)
(* events of a rename.  Proofs for any threads, directories and files,     *)
(* from the typing, the owned contexts and the locks of the directories.   *)
(***************************************************************************)
EXTENDS KernelHooksProofs

-----------------------------------------------------------------------------
(* counter_map.                                                            *)

\* The hooks that count are built, and the counter wraps at an even number.
Counting == "DELETE" \in Feature /\ IsFiniteSet(Thread) /\ CounterMod % 2 = 0

\* The threads in a call that is counted.
Counted == {t \in Thread : call[t] # None /\ call[t].op \in {"unlink", "rmdir"}}

LEMMA HitFlipsParity ==
  ASSUME Counting, counter \in 0 .. CounterMod - 1, CountHit
  PROVE  counter' % 2 = (counter + 1) % 2
<1>1. CounterMod \in Nat \ {0} /\ CounterMod % 2 = 0
  BY HooksAssumption DEF Counting
<1>2. CASE counter + 1 = CounterMod
  <2>1. CounterMod % CounterMod = 0
    BY <1>1
  <2>2. QED  BY <1>1, <1>2, <2>1 DEF CountHit
<1>3. CASE counter + 1 < CounterMod
  <2>1. counter + 1 \in 0 .. CounterMod - 1
    BY <1>1, <1>3
  <2>2. (counter + 1) % CounterMod = counter + 1
    BY <1>1, <2>1
  <2>3. QED  BY <2>2 DEF CountHit
<1>4. QED  BY <1>1, <1>2, <1>3

\* A step of thread t that hits the counter exactly if it enters or leaves a
\* counted call keeps the parity.
LEMMA ParityKept ==
  ASSUME Counting, TypeInv, CounterCountsCalls, NEW t \in Thread,
         \A u \in Thread \ {t} : call'[u] = call[u],
         IF t \in Counted <=> t \in Counted' THEN UNCHANGED counter ELSE CountHit
  PROVE  CounterCountsCalls'
<1> DEFINE n == Cardinality(Counted)
<1>1. IsFiniteSet(Counted) /\ n \in Nat
  <2>1. Counted \subseteq Thread
    BY DEF Counted
  <2>2. QED  BY <2>1, FS_Subset, FS_CardinalityType DEF Counting
<1>2. counter \in 0 .. CounterMod - 1 /\ counter % 2 = n % 2 /\ CounterMod \in Nat
  BY HooksAssumption DEF TypeInv, TypeOK, CounterCountsCalls, Counted
<1>3. \A u \in Thread \ {t} : u \in Counted' <=> u \in Counted
  BY DEF Counted
<1>4. Counted' \subseteq Thread /\ Counted \subseteq Thread
  BY DEF Counted
<1>5. CounterCountsCalls' <=> counter' % 2 = Cardinality(Counted') % 2
  BY DEF CounterCountsCalls, Counted
<1>6. CASE t \in Counted <=> t \in Counted'
  <2>1. Counted' = Counted
    BY <1>3, <1>4, <1>6
  <2>2. counter' = counter
    BY <1>6
  <2>3. QED  BY <1>2, <1>5, <2>1, <2>2
<1>7. CASE t \in Counted /\ t \notin Counted'
  <2>1. Counted' = Counted \ {t}
    BY <1>3, <1>4, <1>7
  <2>2. Cardinality(Counted') = n - 1
    BY <1>1, <1>7, <2>1, FS_RemoveElement
  <2>3. counter' % 2 = (counter + 1) % 2
    BY <1>2, <1>7, HitFlipsParity
  <2>4. QED  BY <1>1, <1>2, <1>5, <2>2, <2>3
<1>8. CASE t \notin Counted /\ t \in Counted'
  <2>1. Counted' = Counted \cup {t}
    BY <1>3, <1>4, <1>8
  <2>2. Cardinality(Counted') = n + 1
    BY <1>1, <1>8, <2>1, FS_AddElement
  <2>3. counter' % 2 = (counter + 1) % 2
    BY <1>2, <1>8, HitFlipsParity
  <2>4. QED  BY <1>1, <1>2, <1>5, <2>2, <2>3
<1>9. QED  BY <1>6, <1>7, <1>8

LEMMA EnterCounts ==
  ASSUME Counting, TypeInv, CounterCountsCalls, NEW t \in Thread, Enter(t)
  PROVE  CounterCountsCalls'
<1>1. call[t] = None /\ call \in [Thread -> Call \cup {None}] /\ t \notin Counted
  BY DEF Enter, TypeInv, TypeOK, Counted
<1>2. ASSUME NEW op \in DirCalls \cup WriteCalls, NEW d \in Dir, NEW x \in Node,
             NEW d2 \in Dir \cup {None}, NEW y \in Node \cup {None}, NEW w \in BOOLEAN,
             Begin(t, op, d, x, d2, y, w)
      PROVE  /\ \A u \in Thread \ {t} : call'[u] = call[u]
             /\ t \in Counted' <=> op \in {"unlink", "rmdir"}
  <2> DEFINE c == [op |-> op, dir |-> d, obj |-> x, newdir |-> d2, target |-> y,
                   watched |-> w, ret |-> None]
  <2>1. c \in Call /\ c.op = op
    BY DEF Call
  <2>2. c # None
    BY <2>1, NoneAssumption
  <2> HIDE DEF c
  <2>3. call' = [call EXCEPT ![t] = c]
    BY <1>2 DEF Begin, c
  <2>4. QED  BY <1>1, <2>1, <2>2, <2>3 DEF Counted
<1>3. ASSUME NEW d \in Dir, NEW f \in File, lsm_inode_create(t, d, f) PROVE CounterCountsCalls'
  <2> DEFINE hit == "CREATE" \in Feature /\ is_monitored(d)
  <2>1. Begin(t, "create", d, f, None, None, hit) /\ UNCHANGED counter
    BY <1>3 DEF lsm_inode_create
  <2>2. hit \in BOOLEAN /\ "create" \in DirCalls /\ f \in Node
    BY DEF DirCalls, Node
  <2> HIDE DEF hit
  <2>3. t \notin Counted' /\ \A u \in Thread \ {t} : call'[u] = call[u]
    BY <1>2, <2>1, <2>2
  <2>4. QED  BY <1>1, <2>1, <2>3, ParityKept
<1>4. ASSUME NEW d \in Dir, NEW f \in File, fentry_vfs_unlink(t, d, f) PROVE CounterCountsCalls'
  <2>1. Begin(t, "unlink", d, f, None, None, "DELETE" \in Feature /\ is_monitored(d)) /\ CountHit
    BY <1>4 DEF fentry_vfs_unlink, Counting
  <2>2. t \in Counted' /\ \A u \in Thread \ {t} : call'[u] = call[u]
    BY <1>2, <2>1 DEF DirCalls, Node
  <2>3. QED  BY <1>1, <2>1, <2>2, ParityKept
<1>5. ASSUME NEW d \in Dir, NEW n \in Dir, vfs_mkdir_entry(t, d, n) PROVE CounterCountsCalls'
  <2> DEFINE hit == FALSE
  <2>1. Begin(t, "mkdir", d, n, None, None, hit) /\ UNCHANGED counter
    BY <1>5 DEF vfs_mkdir_entry, hookVars
  <2>2. hit \in BOOLEAN /\ "mkdir" \in DirCalls /\ n \in Node
    BY DEF DirCalls, Node
  <2> HIDE DEF hit
  <2>3. t \notin Counted' /\ \A u \in Thread \ {t} : call'[u] = call[u]
    BY <1>2, <2>1, <2>2
  <2>4. QED  BY <1>1, <2>1, <2>3, ParityKept
<1>6. ASSUME NEW d \in Dir, NEW n \in Dir, fentry_vfs_rmdir(t, d, n) PROVE CounterCountsCalls'
  <2>1. Begin(t, "rmdir", d, n, None, None, "DELETE" \in Feature /\ is_monitored(n)) /\ CountHit
    BY <1>6 DEF fentry_vfs_rmdir, Counting
  <2>2. t \in Counted' /\ \A u \in Thread \ {t} : call'[u] = call[u]
    BY <1>2, <2>1 DEF DirCalls, Node
  <2>3. QED  BY <1>1, <2>1, <2>2, ParityKept
<1>7. ASSUME NEW d \in Dir, NEW d2 \in Dir, NEW x \in Node, NEW y \in Node \cup {None},
             fentry_vfs_rename(t, d, x, d2, y)
      PROVE  CounterCountsCalls'
  <2> DEFINE hit == /\ "RENAME" \in Feature
                    /\ (IF x \in Dir THEN is_monitored(x) ELSE is_monitored(d)) \/ is_monitored(d2)
  <2>1. Begin(t, "rename", d, x, d2, y, hit) /\ UNCHANGED counter
    BY <1>7 DEF fentry_vfs_rename
  <2>2. hit \in BOOLEAN
    OBVIOUS
  <2> HIDE DEF hit
  <2>3. t \notin Counted' /\ \A u \in Thread \ {t} : call'[u] = call[u]
    BY <1>2, <2>1, <2>2 DEF DirCalls
  <2>4. QED  BY <1>1, <2>1, <2>3, ParityKept
<1>8. ASSUME NEW op \in WriteCalls, NEW f \in File, fim_file_permission(t, op, f)
      PROVE  CounterCountsCalls'
  <2> DEFINE hit == "MODIFY" \in Feature /\ is_monitored(parent[f]) /\ RingHasRoom(rb)
  <2>1. Begin(t, op, parent[f], f, None, None, hit) /\ UNCHANGED counter /\ parent[f] \in Dir
    BY <1>8 DEF fim_file_permission, Linked, TypeInv, TypeOK, Node
  <2>2. hit \in BOOLEAN
    OBVIOUS
  <2> HIDE DEF hit
  <2>3. t \notin Counted' /\ \A u \in Thread \ {t} : call'[u] = call[u]
    BY <1>2, <2>1, <2>2 DEF WriteCalls, Node
  <2>4. QED  BY <1>1, <2>1, <2>3, ParityKept
<1>9. QED  BY <1>3, <1>4, <1>5, <1>6, <1>7, <1>8 DEF Enter

LEMMA EffectCounts ==
  ASSUME Counting, TypeInv, CounterCountsCalls, NEW t \in Thread, TakeEffect(t)
  PROVE  CounterCountsCalls'
<1>1. PICK r \in {-1, 0, 1} : SetRet(t, r)
  BY DEF TakeEffect, VfsFail, VfsLink, VfsRemove, VfsMove, VfsWrite
<1>2. call[t] # None /\ UNCHANGED counter
  BY DEF TakeEffect, VfsFail, VfsLink, VfsRemove, VfsMove, VfsWrite, Running, hookVars
<1>3. call[t] \in Call /\ call \in [Thread -> Call \cup {None}]
  BY <1>2 DEF TypeInv, TypeOK
<1>4. [call[t] EXCEPT !.ret = r] \in Call /\ [call[t] EXCEPT !.ret = r].op = call[t].op
  BY <1>1, <1>3 DEF Call
<1>5. call'[t] # None /\ call'[t].op = call[t].op /\ \A u \in Thread \ {t} : call'[u] = call[u]
  BY <1>1, <1>3, <1>4, NoneAssumption DEF SetRet
<1>6. t \in Counted <=> t \in Counted'
  BY <1>2, <1>5 DEF Counted
<1>7. QED  BY <1>2, <1>5, <1>6, ParityKept

LEMMA ReturnCounts ==
  ASSUME Counting, TypeInv, CounterCountsCalls, NEW t \in Thread, Return(t)
  PROVE  CounterCountsCalls'
<1>1. call \in [Thread -> Call \cup {None}]
  BY DEF TypeInv, TypeOK
<1>2. call[t] # None /\ Finish(t)
  BY DEF Return, ReturnUnhooked, fexit_vfs_mkdir, fexit_vfs_unlink, fexit_vfs_rmdir, fexit_vfs_rename,
         fexit_vfs_write, fexit_vfs_writev, WriteReturn, Returned
<1>3. t \notin Counted' /\ \A u \in Thread \ {t} : call'[u] = call[u]
  BY <1>1, <1>2 DEF Finish, Counted
<1>4. IF call[t].op \in {"unlink", "rmdir"} THEN CountHit ELSE UNCHANGED counter
  BY DEF Counting, Return, ReturnUnhooked, fexit_vfs_mkdir, fexit_vfs_unlink, fexit_vfs_rmdir,
         fexit_vfs_rename, fexit_vfs_write, fexit_vfs_writev, WriteReturn, Returned, hookVars
<1>5. t \in Counted <=> call[t].op \in {"unlink", "rmdir"}
  BY <1>2 DEF Counted
<1>6. QED  BY <1>3, <1>4, <1>5, ParityKept

\* The parity of counter_map tells the parity of the removals in progress, for
\* any number of threads: no hit is lost, counted twice or left out by a call
\* that fails or is not watched, and none is lost where the counter wraps.
THEOREM RemovalsAreCounted == Counting => (Spec => []CounterCountsCalls)
<1>1. SUFFICES ASSUME Counting PROVE Spec => []CounterCountsCalls
  OBVIOUS
<1>2. Init => CounterCountsCalls
  <2>1. SUFFICES ASSUME Init PROVE CounterCountsCalls
    OBVIOUS
  <2>2. counter = 0 /\ {t \in Thread : call[t] # None /\ call[t].op \in {"unlink", "rmdir"}} = {}
    BY <2>1 DEF Init
  <2>3. QED  BY <2>2, FS_EmptySet DEF CounterCountsCalls
<1>3. TypeInv /\ CounterCountsCalls /\ [Next]_vars => CounterCountsCalls'
  <2>1. SUFFICES ASSUME TypeInv, CounterCountsCalls, [Next]_vars PROVE CounterCountsCalls'
    OBVIOUS
  <2>2. CASE Poll \/ UNCHANGED vars
    <3>1. UNCHANGED <<call, counter>>
      BY <2>2 DEF Poll, vars
    <3>2. QED  BY <2>1, <3>1 DEF CounterCountsCalls
  <2>3. QED  BY <1>1, <2>1, <2>2, EnterCounts, EffectCounts, ReturnCounts DEF Next
<1>4. QED  BY <1>2, <1>3, Typing, PTL DEF Spec

-----------------------------------------------------------------------------
(* Renames.                                                                *)

LEMMA RenameReports ==
  ASSUME TypeInv, CtxOwned, NEW t \in Thread, fexit_vfs_rename(t), InodeMap' # InodeMap
  PROVE  \E i \in Len(rb) + 1 .. Len(rb') :
           \/ /\ rb'[i] = Ev("RENAME_D", <<call[t].dir, call[t].obj>>)
              /\ InodeMap' = InodeMap \ {call[t].obj}
           \/ /\ rb'[i] = Ev("RENAME_C", <<call[t].newdir, call[t].obj>>)
              /\ InodeMap' = InodeMap \cup {call[t].obj}
<1> DEFINE c    == call[t]
           ctx  == SavedCtx(t)
           room == RingMax - Len(rb)
           n    == IF room < 2 THEN room ELSE 2
           e1   == Ev("RENAME_D", ctx.filepath)
           e2   == Ev(IF ctx.overwrite THEN "RENAME_OW" ELSE "RENAME_C", <<c.newdir, c.obj>>)
<1>1. /\ FindsCtx(t, "RENAME") /\ c # None /\ c.op = "rename"
      /\ rb' = rb \o SubSeq(<<e1, e2>>, 1, n) /\ InodeMap' = RenamedMap(ctx, room)
  BY DEF fexit_vfs_rename, Returned, RenameEvents
<1>2. ctx \in dentry_ctx /\ ctx.filepath = <<c.dir, c.obj>> /\ ctx.inode = c.obj
  <2>1. ctx # None /\ SavedBy(ctx, c)
    BY <1>1 DEF FindsCtx, CtxOwned
  <2>2. QED  BY <1>1, <2>1, SavedCtxType DEF SavedBy
<1>3. c \in Call /\ c.newdir \in Dir
  BY <1>1 DEF TypeInv, TypeOK, CallInv
<1>4. e1 \in Event /\ e2 \in Event
  <2>1. <<c.newdir, c.obj>> \in Path /\ ctx.filepath \in Path
    BY <1>2, <1>3 DEF Path, Call, dentry_ctx
  <2>2. QED  BY <2>1 DEF Ev, Event, EventTypes
<1>5. rb \in Seq(Event) /\ Len(rb) \in Nat /\ room \in Nat /\ n \in 0 .. 2 /\ n <= room
  <2>1. rb \in Seq(Event) /\ Len(rb) <= RingMax /\ RingMax \in Nat
    BY HooksAssumption DEF TypeInv, TypeOK
  <2>2. Len(rb) \in Nat
    BY <2>1, LenProperties
  <2>3. QED  BY <2>1, <2>2
<1>6. /\ Len(rb') = Len(rb) + n
      /\ n > 0 => rb'[Len(rb) + 1] = e1
      /\ n > 1 => rb'[Len(rb) + 2] = e2
  <2> HIDE DEF e1, e2, n
  <2>1. QED  BY <1>1, <1>4, <1>5, RenameAppends
<1>7. CASE room > 0 /\ LeavesArea(ctx)
  <2>1. InodeMap' = InodeMap \ {c.obj}
    BY <1>1, <1>2, <1>7 DEF RenamedMap
  <2>2. rb'[Len(rb) + 1] = Ev("RENAME_D", <<c.dir, c.obj>>) /\ Len(rb) + 1 \in Len(rb) + 1 .. Len(rb')
    BY <1>2, <1>5, <1>6, <1>7
  <2>3. QED  BY <2>1, <2>2
<1>8. CASE room > 1 /\ EntersArea(ctx)
  <2>1. ~LeavesArea(ctx) /\ ~ctx.overwrite
    BY <1>8 DEF LeavesArea, EntersArea
  <2>2. InodeMap' = InodeMap \cup {c.obj}
    BY <1>1, <1>2, <1>8, <2>1 DEF RenamedMap, AddKey
  <2>3. rb'[Len(rb) + 2] = Ev("RENAME_C", <<c.newdir, c.obj>>)
        /\ Len(rb) + 2 \in Len(rb) + 1 .. Len(rb')
    BY <1>5, <1>6, <1>8, <2>1
  <2>4. QED  BY <2>2, <2>3
<1>9. QED  BY <1>1, <1>7, <1>8 DEF RenamedMap

\* A rename changes what is monitored only together with the event that tells
\* of it, for any room in the ring buffer and any eviction, in every build in
\* which each hook that saves a context has a return hook that drops it.
THEOREM RenamesAreReported == PairedHooks => (Spec => RenameChangesAreReported)
<1>1. SUFFICES ASSUME PairedHooks PROVE Spec => RenameChangesAreReported
  OBVIOUS
<1> DEFINE Reported(t) ==
      \E i \in Len(rb) + 1 .. Len(rb') :
        \/ /\ rb'[i] = Ev("RENAME_D", <<call[t].dir, call[t].obj>>)
           /\ InodeMap' = InodeMap \ {call[t].obj}
        \/ /\ rb'[i] = Ev("RENAME_C", <<call[t].newdir, call[t].obj>>)
           /\ InodeMap' = InodeMap \cup {call[t].obj}
<1>2. ASSUME TypeInv, CtxOwned, [Next]_vars, NEW t \in Thread,
             Returned(t, {"rename"}), call'[t] = None, InodeMap' # InodeMap
      PROVE  Reported(t)
  <2>1. call[t] # None /\ call \in [Thread -> Call \cup {None}]
    BY <1>2 DEF Returned, TypeInv, TypeOK
  <2>2. ASSUME NEW u \in Thread, Enter(u) PROVE InodeMap' = InodeMap
    BY <2>2, EntryKeepsMap
  <2>3. ASSUME NEW u \in Thread, TakeEffect(u) PROVE InodeMap' = InodeMap
    BY <2>3 DEF TakeEffect, VfsFail, VfsLink, VfsRemove, VfsMove, VfsWrite, hookVars
  <2>4. InodeMap' = InodeMap \/ \E u \in Thread : Return(u)
    BY <1>2, <2>2, <2>3 DEF Next, Poll, vars
  <2>5. PICK u \in Thread : Return(u)
    BY <1>2, <2>4
  <2>6. Finish(u)
    BY <2>5 DEF Return, ReturnUnhooked, fexit_vfs_mkdir, fexit_vfs_unlink, fexit_vfs_rmdir,
                fexit_vfs_rename, fexit_vfs_write, fexit_vfs_writev, WriteReturn
  <2>7. u = t
    BY <1>2, <2>1, <2>6 DEF Finish
  <2>8. fexit_vfs_rename(t)
    BY <1>2, <2>5, <2>7 DEF Return, ReturnUnhooked, fexit_vfs_mkdir, fexit_vfs_unlink, fexit_vfs_rmdir,
                fexit_vfs_write, fexit_vfs_writev, WriteReturn, Returned
  <2>9. QED  BY <1>2, <2>8, RenameReports
<1>3. TypeInv /\ CtxOwned /\ [Next]_vars =>
        [\A t \in Thread :
           (Returned(t, {"rename"}) /\ call'[t] = None /\ InodeMap' # InodeMap) => Reported(t)]_vars
  BY <1>2
<1>4. Spec => []CtxOwned
  BY <1>1, ContextsAreOwned
<1>5. QED  BY <1>3, <1>4, Typing, PTL DEF Spec, RenameChangesAreReported

-----------------------------------------------------------------------------
(* What the flags of a rename say of the monitoring.                       *)

\* No directory is added by its creation, and all keys fit in InodeMap.
KeysByRename ==
  /\ PairedHooks
  /\ "CREATE" \notin Feature \/ "mkdir" \notin Syscall
  /\ IsFiniteSet(Dir) /\ Cardinality(Dir) <= InodeMapMax

\* The flags of the context of t, read at the entry of a rename, still hold of
\* InodeMap.
Accurate(t) ==
  /\ LruMap[t].is_dir = (call[t].obj \in Dir)
  /\ call[t].obj \in Dir => LruMap[t].inode_mon = (call[t].obj \in InodeMap)
  /\ LruMap[t].is_new_dir_mon = (call[t].newdir \in InodeMap)

FlagsInv == \A t \in Thread : LruMap[t] # None /\ CrossRename(t) => Accurate(t)

\* A step of thread t that begins no watched rename and keeps InodeMap.
LEMMA OthersKeepFlags ==
  ASSUME TypeInv, CtxOwned, FlagsInv, NEW t \in Thread,
         \A u \in Thread \ {t} : call'[u] = call[u] /\ LruMap'[u] \in {LruMap[u], None},
         UNCHANGED InodeMap,
         (LruMap'[t] # None /\ CrossRename(t)') => Accurate(t)'
  PROVE  FlagsInv'
<1>1. ASSUME NEW u \in Thread, LruMap'[u] # None, CrossRename(u)', u # t
      PROVE  Accurate(u)'
  BY <1>1 DEF FlagsInv, CrossRename, Accurate
<1>2. QED  BY <1>1 DEF FlagsInv

LEMMA EnterFlags ==
  ASSUME TypeInv, CtxOwned, FlagsInv, NEW t \in Thread, Enter(t)
  PROVE  FlagsInv'
<1>1. call[t] = None /\ LruMap[t] = None /\ UNCHANGED InodeMap
  BY EntryKeepsMap DEF Enter, CtxOwned, SavedBy, SavedCtx, bpf_get_current_pid_tgid
<1>2. call \in [Thread -> Call \cup {None}] /\ LruMap \in [Thread -> dentry_ctx \cup {None}]
  BY DEF TypeInv, TypeOK
<1>3. ASSUME NEW op \in {"create", "mkdir", "unlink", "rmdir"} \cup WriteCalls, NEW d, NEW x, NEW w,
             Begin(t, op, d, x, None, None, w),
             UNCHANGED LruMap \/ \E ctx \in dentry_ctx : SaveCtx(t, ctx)
      PROVE  FlagsInv'
  <2>1. call'[t].op # "rename" /\ \A u \in Thread \ {t} : call'[u] = call[u]
    BY <1>2, <1>3 DEF Begin, WriteCalls
  <2>2. \A u \in Thread \ {t} : LruMap'[u] \in {LruMap[u], None}
    BY <1>2, <1>3, SaveCtxEffect
  <2>3. QED  BY <1>1, <2>1, <2>2, OthersKeepFlags DEF CrossRename
<1>4. ASSUME NEW d \in Dir, NEW f \in File, lsm_inode_create(t, d, f) PROVE FlagsInv'
  BY <1>3, <1>4 DEF lsm_inode_create
<1>5. ASSUME NEW d \in Dir, NEW f \in File, fentry_vfs_unlink(t, d, f) PROVE FlagsInv'
  <2>1. BlankCtx(<<d, f>>) \in dentry_ctx
    BY BlankCtxType DEF Path, Node
  <2>2. QED  BY <1>3, <1>5, <2>1 DEF fentry_vfs_unlink
<1>6. ASSUME NEW d \in Dir, NEW n \in Dir, vfs_mkdir_entry(t, d, n) PROVE FlagsInv'
  BY <1>3, <1>6 DEF vfs_mkdir_entry, hookVars
<1>7. ASSUME NEW d \in Dir, NEW n \in Dir, fentry_vfs_rmdir(t, d, n) PROVE FlagsInv'
  <2>1. [BlankCtx(<<d, n>>) EXCEPT !.inode = n] \in dentry_ctx
    BY DEF Node, Path, BlankCtx, dentry_ctx
  <2>2. QED  BY <1>3, <1>7, <2>1 DEF fentry_vfs_rmdir
<1>8. ASSUME NEW d \in Dir, NEW d2 \in Dir, NEW x \in Node, NEW y \in Node \cup {None},
             fentry_vfs_rename(t, d, x, d2, y)
      PROVE  FlagsInv'
  <2> DEFINE dir == x \in Dir
             hit == /\ "RENAME" \in Feature
                    /\ (IF dir THEN is_monitored(x) ELSE is_monitored(d)) \/ is_monitored(d2)
             ctx == [filepath |-> <<d, x>>, inode |-> x, is_dir |-> dir,
                     inode_mon |-> dir /\ is_monitored(x), is_new_dir_mon |-> is_monitored(d2),
                     is_cross_dir |-> d # d2, overwrite |-> y # None]
  <2>1. /\ Begin(t, "rename", d, x, d2, y, hit)
        /\ IF hit THEN SaveCtx(t, ctx) ELSE UNCHANGED LruMap
    BY <1>8 DEF fentry_vfs_rename
  <2>2. /\ ctx \in dentry_ctx /\ ctx.is_dir = (x \in Dir)
        /\ x \in Dir => ctx.inode_mon = (x \in InodeMap)
        /\ ctx.is_new_dir_mon = (d2 \in InodeMap)
    BY DEF dentry_ctx, Path, is_monitored
  <2> HIDE DEF hit, ctx
  <2>3. call'[t].obj = x /\ call'[t].newdir = d2 /\ \A u \in Thread \ {t} : call'[u] = call[u]
    BY <1>2, <2>1 DEF Begin
  <2>4. LruMap'[t] \in {ctx, None} /\ \A u \in Thread \ {t} : LruMap'[u] \in {LruMap[u], None}
    BY <1>1, <1>2, <2>1, <2>2, SaveCtxEffect
  <2>5. LruMap'[t] # None => Accurate(t)'
    BY <1>1, <2>2, <2>3, <2>4 DEF Accurate
  <2>6. QED  BY <1>1, <2>3, <2>4, <2>5, OthersKeepFlags
<1>9. ASSUME NEW op \in WriteCalls, NEW f \in File, fim_file_permission(t, op, f) PROVE FlagsInv'
  <2>1. parent[f] \in Dir
    BY <1>9 DEF fim_file_permission, Linked, TypeInv, TypeOK, Node
  <2>2. BlankCtx(<<parent[f], f>>) \in dentry_ctx
    BY <2>1, BlankCtxType DEF Path, Node
  <2>3. QED  BY <1>3, <1>9, <2>2 DEF fim_file_permission
<1>10. QED  BY <1>4, <1>5, <1>6, <1>7, <1>8, <1>9 DEF Enter

LEMMA EffectFlags ==
  ASSUME TypeInv, CtxOwned, FlagsInv, NEW t \in Thread, TakeEffect(t)
  PROVE  FlagsInv'
<1>1. PICK r \in {-1, 0, 1} : SetRet(t, r)
  BY DEF TakeEffect, VfsFail, VfsLink, VfsRemove, VfsMove, VfsWrite
<1>2. call[t] # None /\ UNCHANGED <<InodeMap, LruMap>>
  BY DEF TakeEffect, VfsFail, VfsLink, VfsRemove, VfsMove, VfsWrite, Running, hookVars
<1>3. /\ \A u \in Thread \ {t} : call'[u] = call[u]
      /\ call'[t] # None /\ call'[t].op = call[t].op /\ call'[t].dir = call[t].dir
      /\ call'[t].obj = call[t].obj /\ call'[t].newdir = call[t].newdir
  BY <1>1, <1>2, ResultOnly
<1>4. CrossRename(t)' => CrossRename(t)
  BY <1>2, <1>3 DEF CrossRename
<1>5. (LruMap'[t] # None /\ CrossRename(t)') => Accurate(t)'
  BY <1>2, <1>3, <1>4 DEF FlagsInv, Accurate
<1>6. QED  BY <1>2, <1>3, <1>5, OthersKeepFlags

\* The return of another call changes no key a rename in progress has looked
\* up: it holds the lock of its new directory, and renames across directories
\* come one at a time.
LEMMA ReturnSpares ==
  ASSUME KeysByRename, TypeInv, CtxOwned, LockInv, NEW t \in Thread, Return(t),
         NEW u \in Thread \ {t}, CrossRename(u)
  PROVE  /\ call[u].obj \in InodeMap' <=> call[u].obj \in InodeMap
         /\ call[u].newdir \in InodeMap' <=> call[u].newdir \in InodeMap
<1> DEFINE c == call[t]
<1>1. CASE fexit_vfs_rmdir(t)
  <2>1. c # None /\ c.op = "rmdir" /\ c.ret # None /\ c \in Call
    BY <1>1 DEF fexit_vfs_rmdir, Returned, TypeInv, TypeOK
  <2>2. CASE FindsCtx(t, "DELETE") /\ Removed(t)
    <3>1. SavedCtx(t).inode = c.obj
      BY <2>1, <2>2 DEF FindsCtx, CtxOwned, SavedBy
    <3>2. InodeMap' = InodeMap \ {c.obj}
      BY <1>1, <2>2, <3>1 DEF fexit_vfs_rmdir, ForgetDir
    <3>3. c.ret = 0
      <4>1. c.ret # 1
        BY <2>1 DEF LockInv, PlaceInv, Placed, InCall, DirCalls
      <4>2. c.ret \in {-1, 0, 1} /\ c.ret >= 0
        BY <2>1, <2>2 DEF Call, Removed
      <4>3. QED  BY <4>1, <4>2
    <3>4. call[u].newdir \in Held(u)
      <4>1. call[u] # None /\ call[u].op = "rename"
        BY DEF CrossRename
      <4>2. call[u].newdir # None
        BY <4>1, HooksAssumption DEF TypeInv, CallInv, Node
      <4>3. QED  BY <4>1, <4>2 DEF Held, DirCalls
    <3>5. call[u].newdir # c.obj
      BY <2>1, <3>3, <3>4 DEF LockInv, RemovedIsFree, InCall, Free
    <3>6. call[u].obj # c.obj
      <4>1. Objects(c) \cap Objects(call[u]) = {}
        BY <2>1 DEF LockInv, NoSharedNode, InCall, DirCalls, CrossRename
      <4>2. c.obj # None
        BY <2>1, HooksAssumption DEF Call
      <4>3. QED  BY <4>1, <4>2 DEF Objects
    <3>7. QED  BY <3>2, <3>5, <3>6
  <2>3. CASE ~(FindsCtx(t, "DELETE") /\ Removed(t))
    BY <1>1, <2>3 DEF fexit_vfs_rmdir
  <2>4. QED  BY <2>2, <2>3
<1>2. CASE fexit_vfs_rename(t)
  <2>1. c # None /\ c.op = "rename" /\ ~CrossRename(t)
    BY <1>2 DEF fexit_vfs_rename, Returned, LockInv, OneCross
  <2>2. FindsCtx(t, "RENAME") => SavedCtx(t).is_cross_dir = FALSE
    BY <2>1 DEF FindsCtx, CtxOwned, SavedBy, CrossRename
  <2>3. InodeMap' = InodeMap
    BY <1>2, <2>2 DEF fexit_vfs_rename, RenamedMap, LeavesArea, EntersArea
  <2>4. QED  BY <2>3
<1>3. CASE fexit_vfs_mkdir(t)
  <2>1. ~MkdirInMonitored(t)
    BY <1>3 DEF KeysByRename, MkdirInMonitored, fexit_vfs_mkdir, Returned, TypeInv, CallInv
  <2>2. QED  BY <1>3, <2>1 DEF fexit_vfs_mkdir
<1>4. CASE UNCHANGED InodeMap
  BY <1>4
<1>5. QED
  BY <1>1, <1>2, <1>3, <1>4
     DEF Return, ReturnUnhooked, fexit_vfs_unlink, fexit_vfs_write, fexit_vfs_writev, WriteReturn, hookVars

LEMMA ReturnFlags ==
  ASSUME KeysByRename, TypeInv, CtxOwned, LockInv, FlagsInv, NEW t \in Thread, Return(t)
  PROVE  FlagsInv'
<1>1. Finish(t) /\ (UNCHANGED LruMap \/ DropCtx(t))
  BY DEF Return, ReturnUnhooked, fexit_vfs_mkdir, fexit_vfs_unlink, fexit_vfs_rmdir, fexit_vfs_rename,
         fexit_vfs_write, fexit_vfs_writev, WriteReturn, hookVars
<1>2. call'[t] = None /\ \A u \in Thread \ {t} : call'[u] = call[u]
  BY <1>1 DEF Finish, TypeInv, TypeOK
<1>3. \A u \in Thread \ {t} : LruMap'[u] = LruMap[u]
  BY <1>1, DropCtxEffect DEF TypeInv, TypeOK
<1>4. ASSUME NEW u \in Thread, LruMap'[u] # None, CrossRename(u)'
      PROVE  Accurate(u)'
  <2>1. u # t /\ LruMap'[u] = LruMap[u] /\ call'[u] = call[u] /\ CrossRename(u)
    BY <1>2, <1>3, <1>4 DEF CrossRename
  <2>2. Accurate(u)
    BY <1>4, <2>1 DEF FlagsInv
  <2>3. /\ (call[u].obj \in InodeMap') = (call[u].obj \in InodeMap)
        /\ (call[u].newdir \in InodeMap') = (call[u].newdir \in InodeMap)
    BY <2>1, ReturnSpares
  <2>4. QED  BY <2>1, <2>2, <2>3 DEF Accurate
<1>5. QED  BY <1>4 DEF FlagsInv

LEMMA FlagsKept == KeysByRename => (Spec => []FlagsInv)
<1>1. SUFFICES ASSUME KeysByRename PROVE Spec => []FlagsInv
  OBVIOUS
<1>2. Init => FlagsInv
  BY DEF Init, FlagsInv
<1>3. TypeInv /\ CtxOwned /\ LockInv /\ FlagsInv /\ [Next]_vars => FlagsInv'
  <2>1. SUFFICES ASSUME TypeInv, CtxOwned, LockInv, FlagsInv, [Next]_vars PROVE FlagsInv'
    OBVIOUS
  <2>2. CASE UNCHANGED <<call, LruMap, InodeMap>>
    BY <2>1, <2>2 DEF FlagsInv, Accurate, CrossRename
  <2>3. QED  BY <1>1, <2>1, <2>2, EnterFlags, EffectFlags, ReturnFlags DEF Next, Poll, vars
<1>4. Spec => []CtxOwned
  BY <1>1, ContextsAreOwned DEF KeysByRename
<1>5. QED  BY <1>2, <1>3, <1>4, Typing, LocksHold, PTL DEF Spec

LEMMA RenameTracks ==
  ASSUME KeysByRename, TypeInv, CtxOwned, FlagsInv, NEW t \in Thread, fexit_vfs_rename(t),
         call[t].obj \in Dir, call[t].dir # call[t].newdir,
         Len(rb') = Len(rb) + 2, rb'[Len(rb')].type = "RENAME_C"
  PROVE  call[t].obj \in InodeMap' <=> call[t].newdir \in InodeMap
<1> DEFINE c    == call[t]
           ctx  == SavedCtx(t)
           room == RingMax - Len(rb)
           n    == IF room < 2 THEN room ELSE 2
           e1   == Ev("RENAME_D", ctx.filepath)
           e2   == Ev(IF ctx.overwrite THEN "RENAME_OW" ELSE "RENAME_C", <<c.newdir, c.obj>>)
<1>1. rb \in Seq(Event) /\ Len(rb) \in Nat /\ Len(rb) <= RingMax /\ RingMax \in Nat
  BY HooksAssumption, LenProperties DEF TypeInv, TypeOK
<1>2. /\ FindsCtx(t, "RENAME") /\ c # None /\ c.op = "rename"
      /\ rb' = rb \o SubSeq(<<e1, e2>>, 1, n) /\ InodeMap' = RenamedMap(ctx, room)
  <2>1. rb' # rb
    BY <1>1
  <2>2. QED  BY <2>1 DEF fexit_vfs_rename, Returned, RenameEvents
<1>3. ctx \in dentry_ctx /\ ctx.inode = c.obj /\ ctx.is_cross_dir = TRUE /\ Accurate(t)
  <2>1. ctx # None /\ SavedBy(ctx, c) /\ ctx = LruMap[t]
    BY <1>2 DEF FindsCtx, CtxOwned, SavedCtx, bpf_get_current_pid_tgid
  <2>2. QED  BY <1>2, <2>1, SavedCtxType DEF SavedBy, FlagsInv, CrossRename
<1>4. c \in Call /\ c.newdir \in Dir
  BY <1>2 DEF TypeInv, TypeOK, CallInv
<1>5. e1 \in Event /\ e2 \in Event
  <2>1. <<c.newdir, c.obj>> \in Path /\ ctx.filepath \in Path
    BY <1>3, <1>4 DEF Path, Call, dentry_ctx
  <2>2. QED  BY <2>1 DEF Ev, Event, EventTypes
<1>6. n \in 0 .. 2
  BY <1>1
<1>7. n = 2 /\ rb'[Len(rb')] = e2
  <2> HIDE DEF e1, e2, n
  <2>1. Len(rb') = Len(rb) + n /\ (n > 1 => rb'[Len(rb) + 2] = e2)
    BY <1>1, <1>2, <1>5, <1>6, RenameAppends
  <2>2. QED  BY <1>1, <1>6, <2>1
<1>8. room > 1 /\ ctx.overwrite = FALSE
  <2>1. room > 1
    BY <1>1, <1>7
  <2>2. ~ctx.overwrite /\ ctx.overwrite \in BOOLEAN
    BY <1>3, <1>7 DEF Ev, dentry_ctx
  <2>3. QED  BY <2>1, <2>2
<1>9. /\ ctx.is_dir = TRUE /\ ctx.inode_mon = (c.obj \in InodeMap)
      /\ ctx.is_new_dir_mon = (c.newdir \in InodeMap)
  BY <1>3 DEF Accurate, SavedCtx, bpf_get_current_pid_tgid
<1>10. CASE c.obj \in InodeMap /\ c.newdir \notin InodeMap
  <2>1. LeavesArea(ctx)
    BY <1>3, <1>9, <1>10 DEF LeavesArea
  <2>2. InodeMap' = InodeMap \ {c.obj}
    BY <1>1, <1>2, <1>3, <1>8, <2>1 DEF RenamedMap
  <2>3. QED  BY <1>10, <2>2
<1>11. CASE c.obj \notin InodeMap /\ c.newdir \in InodeMap
  <2>1. EntersArea(ctx) /\ ~LeavesArea(ctx)
    BY <1>3, <1>8, <1>9, <1>11 DEF EntersArea, LeavesArea
  <2>2. Cardinality(InodeMap) < InodeMapMax
    <3>1. InodeMap \subseteq Dir /\ InodeMap # Dir
      BY <1>11 DEF TypeInv, TypeOK
    <3>2. Cardinality(InodeMap) < Cardinality(Dir) /\ Cardinality(InodeMap) \in Nat /\ Cardinality(Dir) \in Nat
      BY <3>1, FS_Subset, FS_CardinalityType DEF KeysByRename
    <3>3. QED  BY <3>2, HooksAssumption DEF KeysByRename
  <2>3. InodeMap' = InodeMap \cup {c.obj}
    BY <1>2, <1>3, <1>8, <2>1, <2>2 DEF RenamedMap, AddKey
  <2>4. QED  BY <1>11, <2>3
<1>12. CASE c.obj \in InodeMap <=> c.newdir \in InodeMap
  <2>1. ~LeavesArea(ctx) /\ ~EntersArea(ctx)
    BY <1>9, <1>12 DEF EntersArea, LeavesArea
  <2>2. QED  BY <1>2, <1>12, <2>1 DEF RenamedMap
<1>13. QED  BY <1>10, <1>11, <1>12

\* When a rename tells that a directory has got a new place, the directory is
\* monitored exactly if the new place is: the flags its entry hook read are
\* not made stale by any other thread, for any eviction, where directories are
\* not made and monitored meanwhile and the keys fit in InodeMap.
THEOREM RenamesKeepTrack == KeysByRename => (Spec => RenameTracksMonitoring)
<1>1. SUFFICES ASSUME KeysByRename PROVE Spec => RenameTracksMonitoring
  OBVIOUS
<1> DEFINE Tracks(t) ==
      (/\ Returned(t, {"rename"}) /\ call'[t] = None
       /\ call[t].obj \in Dir /\ call[t].dir # call[t].newdir
       /\ Len(rb') = Len(rb) + 2 /\ rb'[Len(rb')].type = "RENAME_C")
      => (call[t].obj \in InodeMap' <=> call[t].newdir \in InodeMap)
<1>2. ASSUME TypeInv, CtxOwned, FlagsInv, [Next]_vars, NEW t \in Thread PROVE Tracks(t)
  <2>1. ASSUME Returned(t, {"rename"}), call'[t] = None PROVE fexit_vfs_rename(t)
    <3>1. Return(t)
      BY <1>2, <2>1, WhoReturns DEF Returned
    <3>2. QED  BY <2>1, <3>1 DEF Return, ReturnUnhooked, fexit_vfs_mkdir, fexit_vfs_unlink,
                fexit_vfs_rmdir, fexit_vfs_write, fexit_vfs_writev, WriteReturn, Returned
  <2>2. QED  BY <1>1, <1>2, <2>1, RenameTracks
<1>3. TypeInv /\ CtxOwned /\ FlagsInv /\ [Next]_vars => [\A t \in Thread : Tracks(t)]_vars
  BY <1>2
<1>4. Spec => []CtxOwned /\ []FlagsInv
  BY <1>1, ContextsAreOwned, FlagsKept DEF KeysByRename
<1>5. QED  BY <1>3, <1>4, Typing, PTL DEF Spec, RenameTracksMonitoring

=============================================================================
