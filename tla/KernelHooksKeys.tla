---------------------------- MODULE KernelHooksKeys ----------------------------
(***************************************************************************)
(* The keys of InodeMap follow the directories: proofs of LiveKeys and     *)
(* MonitoredUnderInclude for any threads, directories and files.           *)
(***************************************************************************)
EXTENDS KernelHooksProofs

\* The removal hooks are built, every context is dropped, none is evicted, and
\* nothing is renamed: a rename over a directory leaves the key behind.
KeysFollow ==
  /\ "DELETE" \in Feature /\ "rename" \notin Syscall /\ PairedHooks /\ NoEvictions

-----------------------------------------------------------------------------
(* The inductive invariant.  The directory locks keep two calls from being *)
(* about one node, and a removed directory from getting entries, until the *)
(* return hook has run.                                                    *)

ObjInv ==
  \A t \in Thread :
    /\ InCall(t, {"create", "unlink"}) => call[t].obj \in File
    /\ InCall(t, {"mkdir", "rmdir"}) => call[t].obj \in Dir \ Root
    /\ InCall(t, DirCalls) => call[t].op # "rename" /\ call[t].ret # 1

TreeInv ==
  \A t \in Thread :
    /\ InCall(t, {"create", "mkdir"}) =>
         parent[call[t].obj] = IF call[t].ret = 0 THEN call[t].dir ELSE None
    /\ InCall(t, {"unlink", "rmdir"}) =>
         parent[call[t].obj] = IF call[t].ret = 0 THEN None ELSE call[t].dir

OneCallPerNode ==
  \A t, u \in Thread :
    t # u /\ InCall(t, DirCalls) /\ InCall(u, DirCalls) => call[t].obj # call[u].obj

RemovedIsEmpty ==
  \A t \in Thread : InCall(t, {"rmdir"}) /\ call[t].ret = 0 =>
    (\A x \in Node : parent[x] # call[t].obj) /\ Free(call[t].obj)

\* The return hook of an rmdir will find the context it needs.
RmdirIsWatched ==
  \A t \in Thread : InCall(t, {"rmdir"}) =>
    /\ call[t].obj \in InodeMap => call[t].watched
    /\ call[t].watched => LruMap[t] # None

RootsStay == \A r \in Root : parent[r] # None

CallsInv == RootsStay /\ ObjInv /\ TreeInv /\ OneCallPerNode /\ RemovedIsEmpty /\ RmdirIsWatched
KeyInv   == CallsInv /\ LiveKeys /\ MonitoredUnderInclude

-----------------------------------------------------------------------------
(* The scan.                                                               *)

\* An unlinked directory has nothing above it.
LEMMA UnlinkedIsAlone ==
  ASSUME NEW p \in [Node -> Dir \cup {None}], NEW n \in Node, p[n] = None
  PROVE  Ancestors(p, n) = {n}
<1>1. {n} \in SUBSET Node /\ n \in {n} /\ \A x \in {n} : p[x] \in {n} \cup {None}
  OBVIOUS
<1>2. Ancestors(p, n) \subseteq {n}
  BY <1>1 DEF Ancestors
<1>3. n \in Ancestors(p, n)
  BY DEF Ancestors
<1>4. QED  BY <1>2, <1>3

\* What is above n, n left aside, is its directory or above it.
LEMMA AncestorsOfDirectory ==
  ASSUME NEW p \in [Node -> Dir \cup {None}], NEW n \in Node, p[n] # None,
         NEW a \in Ancestors(p, n), a # n
  PROVE  a \in Ancestors(p, p[n])
<1>1. a \in Node
  BY DEF Ancestors
<1>2. SUFFICES ASSUME NEW S \in SUBSET Node, p[n] \in S, \A x \in S : p[x] \in S \cup {None}
               PROVE  a \in S
  BY <1>1 DEF Ancestors
<1> DEFINE T == S \cup {n}
<1>3. T \in SUBSET Node /\ n \in T /\ \A x \in T : p[x] \in T \cup {None}
  BY <1>2
<1> HIDE DEF T
<1>4. a \in T
  BY <1>3 DEF Ancestors
<1>5. QED  BY <1>4 DEF T

LEMMA InitKeys ==
  ASSUME Init
  PROVE  KeyInv
<1>1. parent \in [Node -> Dir \cup {None}] /\ \A r \in Root : parent[r] = r
  BY DEF Init, Forest
<1>2. InodeMap = Covered(parent) /\ \A t \in Thread : call[t] = None
  BY DEF Init
<1>3. \A r \in Root : parent[r] # None
  BY <1>1, HooksAssumption DEF Node
<1>4. CallsInv
  BY <1>2, <1>3 DEF CallsInv, RootsStay, ObjInv, TreeInv, OneCallPerNode, RemovedIsEmpty, RmdirIsWatched, InCall
<1>5. LiveKeys
  <2>1. SUFFICES ASSUME NEW k \in InodeMap PROVE parent[k] # None
    BY DEF LiveKeys, Linked
  <2>2. k \in Dir /\ k \in Node /\ Ancestors(parent, k) \cap Include # {}
    BY <1>2 DEF Covered, Node
  <2>3. ASSUME parent[k] = None PROVE FALSE
    <3>1. k \in Include
      BY <1>1, <2>2, <2>3, UnlinkedIsAlone
    <3>2. QED  BY <1>3, <2>3, <3>1, HooksAssumption
  <2>4. QED  BY <2>3
<1>6. MonitoredUnderInclude
  <2>1. SUFFICES ASSUME NEW k \in InodeMap \ Include, parent[k] # None PROVE parent[k] \in InodeMap
    BY DEF MonitoredUnderInclude, Linked
  <2>2. k \in Dir /\ k \in Node /\ Ancestors(parent, k) \cap Include # {}
    BY <1>2 DEF Covered, Node
  <2>3. PICK a \in Ancestors(parent, k) : a \in Include
    BY <2>2
  <2>4. a \in Ancestors(parent, parent[k])
    BY <1>1, <2>1, <2>2, <2>3, AncestorsOfDirectory
  <2>5. parent[k] \in Dir
    BY <1>1, <2>1, <2>2
  <2>6. QED  BY <1>2, <2>3, <2>4, <2>5 DEF Covered
<1>7. QED  BY <1>4, <1>5, <1>6 DEF KeyInv

-----------------------------------------------------------------------------
(* A call begins.                                                          *)

LEMMA BeginKeepsKeys ==
  ASSUME KeysFollow, TypeInv, KeyInv, NEW t \in Thread, call[t] = None,
         NEW op \in (DirCalls \cup WriteCalls) \ {"rename"}, NEW d \in Dir, NEW x \in Node, NEW w \in BOOLEAN,
         Begin(t, op, d, x, None, None, w), UNCHANGED InodeMap,
         op \in {"create", "mkdir"} => Unused(x),
         op \in {"unlink", "rmdir"} => parent[x] = d,
         op \in {"create", "unlink"} => x \in File,
         op \in {"mkdir", "rmdir"} => x \in Dir \ Root,
         op = "rmdir" => (w <=> x \in InodeMap) /\ (w => LruMap'[t] # None),
         \A u \in Thread \ {t} : LruMap[u] # None => LruMap'[u] # None
  PROVE  KeyInv'
<1> DEFINE c == [op |-> op, dir |-> d, obj |-> x, newdir |-> None, target |-> None,
                 watched |-> w, ret |-> None]
<1>1. c \in Call /\ c # None /\ c.op = op /\ c.dir = d /\ c.obj = x /\ c.ret = None
      /\ c.newdir = None /\ c.watched = w
  <2>1. c \in Call
    BY DEF Call
  <2>2. QED  BY <2>1, NoneAssumption
<1>2. call' = [call EXCEPT ![t] = c] /\ parent' = parent
  BY DEF Begin
<1> HIDE DEF c
<1>3. call'[t] = c /\ \A u \in Thread \ {t} : call'[u] = call[u]
  BY <1>1, <1>2 DEF TypeInv, TypeOK
<1>4. op \in DirCalls => parent[d] # None /\ \A u \in Thread : d \notin Held(u)
  BY DEF Begin, Linked, Free
<1>5. None \notin Dir /\ None \notin {-1, 0, 1} /\ Dir \cap File = {}
  BY HooksAssumption DEF Node
<1>6. ObjInv'
  BY <1>1, <1>3, <1>5 DEF KeyInv, CallsInv, ObjInv, InCall
<1>7. TreeInv'
  <2>1. op \in {"create", "mkdir"} => parent[x] = None
    BY DEF Unused, Linked
  <2>2. QED  BY <1>1, <1>2, <1>3, <1>5, <2>1 DEF KeyInv, CallsInv, TreeInv, InCall
<1>8. ASSUME NEW u \in Thread, u # t, InCall(u, DirCalls), op \in DirCalls
      PROVE  call[u].obj # x
  <2>1. call[u] \in Call /\ call[u].dir \in Dir /\ call[u].op # "rename"
    BY <1>8 DEF InCall, TypeInv, TypeOK, Call, KeyInv, CallsInv, ObjInv
  <2>2. call[u].dir \in Held(u) /\ call[u].dir # d
    BY <1>4, <1>5, <1>8, <2>1 DEF InCall, Held
  <2>3. CASE op \in {"create", "mkdir"}
    BY <1>8, <2>3 DEF Unused, InCall
  <2>4. CASE op \in {"unlink", "rmdir"}
    <3>1. parent[x] = d
      BY <2>4
    <3>2. call[u].op \in {"create", "mkdir", "unlink", "rmdir"}
      BY <1>8, <2>1 DEF InCall, DirCalls
    <3>3. parent[call[u].obj] \in {call[u].dir, None}
      BY <1>8, <3>2 DEF InCall, KeyInv, CallsInv, TreeInv
    <3>4. QED  BY <1>5, <2>2, <3>1, <3>3
  <2>5. QED  BY <1>8, <2>3, <2>4 DEF DirCalls
<1>9. OneCallPerNode'
  <2>1. ASSUME NEW u \in Thread, u # t, InCall(u, DirCalls)', InCall(t, DirCalls)'
        PROVE  call'[u].obj # call'[t].obj
    BY <1>1, <1>3, <1>8, <2>1 DEF InCall
  <2>2. ASSUME NEW u \in Thread, NEW v \in Thread, u # v, u # t, v # t,
               InCall(u, DirCalls)', InCall(v, DirCalls)'
        PROVE  call'[u].obj # call'[v].obj
    BY <1>3, <2>2 DEF KeyInv, CallsInv, OneCallPerNode, InCall
  <2>3. QED  BY <2>1, <2>2 DEF OneCallPerNode
<1>10. RemovedIsEmpty'
  <2>1. ASSUME NEW u \in Thread, InCall(u, {"rmdir"})', call'[u].ret = 0
        PROVE  (\A y \in Node : parent'[y] # call'[u].obj) /\ (\A v \in Thread : call'[u].obj \notin Held(v)')
    <3>1. u # t /\ call'[u] = call[u] /\ InCall(u, {"rmdir"}) /\ call[u].ret = 0
      BY <1>1, <1>3, <1>5, <2>1 DEF InCall
    <3>2. (\A y \in Node : parent[y] # call[u].obj) /\ Free(call[u].obj) /\ parent[call[u].obj] = None
      BY <3>1 DEF KeyInv, CallsInv, RemovedIsEmpty, TreeInv, InCall
    <3>3. \A v \in Thread \ {t} : Held(v)' = Held(v)
      BY <1>3 DEF Held
    <3>4. Held(t)' \subseteq {d} /\ (Held(t)' # {} => op \in DirCalls)
      BY <1>1, <1>3 DEF Held
    <3>5. call[u].obj \notin Held(t)'
      BY <1>4, <3>2, <3>4
    <3>6. QED  BY <1>2, <3>1, <3>2, <3>3, <3>5 DEF Free
  <2>2. QED  BY <2>1 DEF RemovedIsEmpty, Free
<1>11. RmdirIsWatched'
  BY <1>1, <1>3 DEF KeyInv, CallsInv, RmdirIsWatched, InCall
<1>12. LiveKeys'
  <2>1. \A u \in Thread : Returned(u, {"rmdir"}) => u # t /\ Returned(u, {"rmdir"})' /\ call'[u].obj = call[u].obj
    BY <1>3 DEF Returned
  <2>2. QED  BY <1>2, <2>1 DEF KeyInv, LiveKeys, Linked
<1>13. MonitoredUnderInclude'
  BY <1>2 DEF KeyInv, MonitoredUnderInclude, Linked
<1>14. RootsStay'
  BY <1>2 DEF KeyInv, CallsInv, RootsStay
<1>15. QED  BY <1>6, <1>7, <1>9, <1>10, <1>11, <1>12, <1>13, <1>14 DEF KeyInv, CallsInv

LEMMA EnterKeepsKeys ==
  ASSUME KeysFollow, TypeInv, CtxOwned, KeyInv, NEW t \in Thread, Enter(t)
  PROVE  KeyInv'
<1>1. call[t] = None /\ LruMap[t] = None /\ LruMap \in [Thread -> dentry_ctx \cup {None}]
  BY DEF Enter, CtxOwned, SavedCtx, SavedBy, bpf_get_current_pid_tgid, TypeInv, TypeOK
<1>2. ASSUME NEW ctx \in dentry_ctx, SaveCtx(t, ctx)
      PROVE  LruMap'[t] # None /\ \A u \in Thread \ {t} : LruMap[u] # None => LruMap'[u] # None
  BY <1>1, <1>2, NothingEvicted, NoneAssumption DEF KeysFollow
<1>3. ASSUME NEW d \in Dir, NEW f \in File, lsm_inode_create(t, d, f) PROVE KeyInv'
  <2> DEFINE hit == "CREATE" \in Feature /\ is_monitored(d)
  <2>1. Begin(t, "create", d, f, None, None, hit) /\ Unused(f) /\ UNCHANGED <<InodeMap, LruMap>>
    BY <1>3 DEF lsm_inode_create
  <2>2. hit \in BOOLEAN /\ f \in Node
    BY DEF Node
  <2> HIDE DEF hit
  <2>3. QED  BY <1>1, <2>1, <2>2, BeginKeepsKeys DEF DirCalls
<1>4. ASSUME NEW d \in Dir, NEW f \in File, fentry_vfs_unlink(t, d, f) PROVE KeyInv'
  <2> DEFINE hit == "DELETE" \in Feature /\ is_monitored(d)
  <2>1. /\ Begin(t, "unlink", d, f, None, None, hit) /\ parent[f] = d /\ UNCHANGED InodeMap
        /\ IF hit THEN SaveCtx(t, BlankCtx(<<d, f>>)) ELSE UNCHANGED LruMap
    BY <1>4 DEF fentry_vfs_unlink
  <2>2. hit \in BOOLEAN /\ f \in Node /\ BlankCtx(<<d, f>>) \in dentry_ctx
    BY BlankCtxType DEF Node, Path
  <2> HIDE DEF hit
  <2>3. \A u \in Thread \ {t} : LruMap[u] # None => LruMap'[u] # None
    BY <1>2, <2>1, <2>2
  <2>4. QED  BY <1>1, <2>1, <2>2, <2>3, BeginKeepsKeys DEF DirCalls
<1>5. ASSUME NEW d \in Dir, NEW n \in Dir, vfs_mkdir_entry(t, d, n) PROVE KeyInv'
  <2>1. Begin(t, "mkdir", d, n, None, None, FALSE) /\ Unused(n) /\ UNCHANGED <<InodeMap, LruMap>>
    BY <1>5 DEF vfs_mkdir_entry, hookVars
  <2>2. n \in Node /\ n \notin Root
    <3>1. \A r \in Root : parent[r] # None
      BY DEF KeyInv, CallsInv, RootsStay
    <3>2. QED  BY <2>1, <3>1 DEF Unused, Linked, Node
  <2>3. QED  BY <1>1, <2>1, <2>2, BeginKeepsKeys DEF DirCalls
<1>6. ASSUME NEW d \in Dir, NEW n \in Dir, fentry_vfs_rmdir(t, d, n) PROVE KeyInv'
  <2> DEFINE hit == "DELETE" \in Feature /\ is_monitored(n)
             ctx == [BlankCtx(<<d, n>>) EXCEPT !.inode = n]
  <2>1. /\ Begin(t, "rmdir", d, n, None, None, hit) /\ parent[n] = d /\ n \notin Root /\ UNCHANGED InodeMap
        /\ IF hit THEN SaveCtx(t, ctx) ELSE UNCHANGED LruMap
    BY <1>6 DEF fentry_vfs_rmdir
  <2>2. hit \in BOOLEAN /\ n \in Node /\ ctx \in dentry_ctx /\ (hit <=> n \in InodeMap)
    BY DEF Node, Path, BlankCtx, dentry_ctx, is_monitored, KeysFollow
  <2> HIDE DEF hit, ctx
  <2>3. (hit => LruMap'[t] # None) /\ \A u \in Thread \ {t} : LruMap[u] # None => LruMap'[u] # None
    BY <1>2, <2>1, <2>2
  <2>4. QED  BY <1>1, <2>1, <2>2, <2>3, BeginKeepsKeys DEF DirCalls
<1>7. ASSUME NEW op \in WriteCalls, NEW f \in File, fim_file_permission(t, op, f) PROVE KeyInv'
  <2> DEFINE hit == "MODIFY" \in Feature /\ is_monitored(parent[f]) /\ RingHasRoom(rb)
  <2>1. /\ Begin(t, op, parent[f], f, None, None, hit) /\ UNCHANGED InodeMap /\ parent[f] # None
        /\ IF hit THEN SaveCtx(t, BlankCtx(<<parent[f], f>>)) ELSE UNCHANGED LruMap
    BY <1>7 DEF fim_file_permission, Linked
  <2>2. hit \in BOOLEAN /\ f \in Node /\ parent[f] \in Dir
    BY <2>1 DEF Node, TypeInv, TypeOK
  <2>3. BlankCtx(<<parent[f], f>>) \in dentry_ctx
    BY <2>2, BlankCtxType DEF Path
  <2> HIDE DEF hit
  <2>4. \A u \in Thread \ {t} : LruMap[u] # None => LruMap'[u] # None
    BY <1>2, <2>1, <2>3
  <2>5. op \notin DirCalls /\ op \in DirCalls \cup WriteCalls
    BY DEF DirCalls, WriteCalls
  <2>6. QED  BY <1>1, <2>1, <2>2, <2>4, <2>5, BeginKeepsKeys DEF DirCalls
<1>8. \A d, d2 \in Dir, x \in Node, y \in Node \cup {None} : ~fentry_vfs_rename(t, d, x, d2, y)
  BY DEF fentry_vfs_rename, Begin, KeysFollow
<1>9. QED  BY <1>3, <1>4, <1>5, <1>6, <1>7, <1>8 DEF Enter

-----------------------------------------------------------------------------
(* A call takes effect.                                                    *)

\* The parts of the invariant that no effect on the tree can disturb.
LEMMA ResultKeeps ==
  ASSUME TypeInv, KeyInv, NEW t \in Thread, call[t] # None, NEW r \in {-1, 0, 1}, SetRet(t, r),
         call[t].op \in DirCalls => r # 1, UNCHANGED <<InodeMap, LruMap>>
  PROVE  /\ ObjInv' /\ OneCallPerNode' /\ RmdirIsWatched'
         /\ \A k : (\E u \in Thread : Returned(u, {"rmdir"}) /\ call[u].obj = k)
                   => \E u \in Thread : Returned(u, {"rmdir"})' /\ call'[u].obj = k
<1>1. /\ \A u \in Thread \ {t} : call'[u] = call[u]
      /\ call'[t] # None /\ call'[t].ret = r
      /\ call'[t].op = call[t].op /\ call'[t].obj = call[t].obj /\ call'[t].watched = call[t].watched
      /\ \A u \in Thread : \A ops : InCall(u, ops)' <=> InCall(u, ops)
  BY ResultOnly
<1>2. \A u \in Thread : call'[u].obj = call[u].obj /\ call'[u].op = call[u].op
                        /\ call'[u].watched = call[u].watched
  BY <1>1
<1>3. ObjInv'
  <2>1. InCall(t, DirCalls) => r # 1
    BY DEF InCall
  <2>2. \A u \in Thread : u # t => call'[u].ret = call[u].ret
    BY <1>1
  <2>3. QED  BY <1>1, <1>2, <2>1, <2>2 DEF KeyInv, CallsInv, ObjInv
<1>4. OneCallPerNode'
  BY <1>1, <1>2 DEF KeyInv, CallsInv, OneCallPerNode
<1>5. RmdirIsWatched'
  BY <1>1, <1>2 DEF KeyInv, CallsInv, RmdirIsWatched
<1>6. None # r
  BY HooksAssumption
<1>7. \A u \in Thread : Returned(u, {"rmdir"}) => Returned(u, {"rmdir"})'
  BY <1>1, <1>6 DEF Returned
<1>8. QED  BY <1>2, <1>3, <1>4, <1>5, <1>7

\* A call that fails, or a write, leaves the tree alone.
LEMMA SameTreeKeeps ==
  ASSUME TypeInv, KeyInv, NEW t \in Thread, call[t] # None, NEW r \in {-1, 0, 1}, SetRet(t, r),
         call[t].op \in DirCalls => r = -1 /\ call[t].ret = None,
         UNCHANGED <<parent, InodeMap, LruMap>>
  PROVE  KeyInv'
<1>1. /\ \A u \in Thread \ {t} : call'[u] = call[u]
      /\ call'[t].ret = r /\ call'[t].op = call[t].op /\ call'[t].dir = call[t].dir /\ call'[t].obj = call[t].obj
      /\ \A u \in Thread : Held(u)' = Held(u)
      /\ \A u \in Thread : \A ops : InCall(u, ops)' <=> InCall(u, ops)
  BY ResultOnly
<1>2. /\ ObjInv' /\ OneCallPerNode' /\ RmdirIsWatched'
      /\ \A k : (\E u \in Thread : Returned(u, {"rmdir"}) /\ call[u].obj = k)
                => \E u \in Thread : Returned(u, {"rmdir"})' /\ call'[u].obj = k
  BY ResultKeeps
<1>3. \A u \in Thread : InCall(u, DirCalls) =>
        call'[u].dir = call[u].dir /\ call'[u].obj = call[u].obj /\ (call'[u].ret = 0 <=> call[u].ret = 0)
  <2>1. None # 0
    BY HooksAssumption
  <2>2. QED  BY <1>1, <2>1 DEF InCall
<1>4. \A u \in Thread : \A ops : ops \subseteq DirCalls /\ InCall(u, ops) => InCall(u, DirCalls)
  BY DEF InCall
<1>5. {"create", "mkdir"} \subseteq DirCalls /\ {"unlink", "rmdir"} \subseteq DirCalls /\ {"rmdir"} \subseteq DirCalls
  BY DEF DirCalls
<1>6. TreeInv'
  BY <1>1, <1>3, <1>4, <1>5 DEF KeyInv, CallsInv, TreeInv
<1>7. RemovedIsEmpty'
  BY <1>1, <1>3, <1>4, <1>5 DEF KeyInv, CallsInv, RemovedIsEmpty, Free
<1>8. LiveKeys' /\ MonitoredUnderInclude' /\ RootsStay'
  BY <1>2 DEF KeyInv, LiveKeys, MonitoredUnderInclude, CallsInv, RootsStay, Linked
<1>9. QED  BY <1>2, <1>6, <1>7, <1>8 DEF KeyInv, CallsInv

LEMMA LinkKeepsKeys ==
  ASSUME TypeInv, KeyInv, NEW t \in Thread, VfsLink(t)
  PROVE  KeyInv'
<1> DEFINE n == call[t].obj
           d == call[t].dir
<1>1. /\ call[t] # None /\ call[t] \in Call /\ InCall(t, {"create", "mkdir"}) /\ InCall(t, DirCalls)
      /\ call[t].ret = None /\ SetRet(t, 0) /\ n \in Node /\ d \in Dir
      /\ parent' = [parent EXCEPT ![n] = d] /\ UNCHANGED <<InodeMap, LruMap>>
  BY DEF VfsLink, Running, InCall, DirCalls, hookVars, TypeInv, TypeOK, Call
<1>2. /\ \A u \in Thread \ {t} : call'[u] = call[u]
      /\ call'[t].ret = 0 /\ call'[t].op = call[t].op /\ call'[t].dir = d /\ call'[t].obj = n
      /\ \A u \in Thread : Held(u)' = Held(u)
      /\ \A u \in Thread : \A ops : InCall(u, ops)' <=> InCall(u, ops)
  BY <1>1, ResultOnly
<1>3. /\ ObjInv' /\ OneCallPerNode' /\ RmdirIsWatched'
      /\ \A k : (\E u \in Thread : Returned(u, {"rmdir"}) /\ call[u].obj = k)
                => \E u \in Thread : Returned(u, {"rmdir"})' /\ call'[u].obj = k
  BY <1>1, ResultKeeps
<1>4. /\ parent \in [Node -> Dir \cup {None}] /\ parent'[n] = d
      /\ \A x \in Node : x # n => parent'[x] = parent[x]
  BY <1>1 DEF TypeInv, TypeOK
<1>5. None \notin Node /\ None # 0 /\ Dir \cap File = {} /\ Dir \subseteq Node
  BY HooksAssumption DEF Node
<1>6. \A u \in Thread : u # t /\ InCall(u, DirCalls) => call[u].obj # n /\ call[u].obj \in Node
  BY <1>1 DEF KeyInv, CallsInv, OneCallPerNode, InCall, TypeInv, TypeOK, Call
<1>7. \A u \in Thread : /\ InCall(u, {"create", "mkdir"}) => InCall(u, DirCalls)
                        /\ InCall(u, {"unlink", "rmdir"}) => InCall(u, DirCalls)
                        /\ InCall(u, {"rmdir"}) => InCall(u, DirCalls) /\ u # t
  BY <1>1 DEF InCall, DirCalls
<1>8. ~InCall(t, {"unlink", "rmdir"})
  BY <1>1 DEF InCall
<1>9. TreeInv'
  <2>1. ASSUME NEW u \in Thread, u # t
        PROVE  /\ InCall(u, {"create", "mkdir"}) =>
                    parent'[call[u].obj] = IF call[u].ret = 0 THEN call[u].dir ELSE None
               /\ InCall(u, {"unlink", "rmdir"}) =>
                    parent'[call[u].obj] = IF call[u].ret = 0 THEN None ELSE call[u].dir
    BY <1>4, <1>6, <1>7, <2>1 DEF KeyInv, CallsInv, TreeInv
  <2>2. QED  BY <1>2, <1>4, <1>8, <2>1 DEF TreeInv
<1>10. RemovedIsEmpty'
  <2>1. d \in Held(t)
    BY <1>1, <1>5 DEF Held, InCall
  <2>2. ASSUME NEW u \in Thread, InCall(u, {"rmdir"}), call'[u].ret = 0
        PROVE  (\A x \in Node : parent'[x] # call'[u].obj) /\ Free(call[u].obj)
    <3>1. u # t /\ call'[u] = call[u]
      BY <1>2, <1>7, <2>2
    <3>2. (\A x \in Node : parent[x] # call[u].obj) /\ Free(call[u].obj)
      BY <2>2, <3>1 DEF KeyInv, CallsInv, RemovedIsEmpty
    <3>3. d # call[u].obj
      BY <2>1, <3>2 DEF Free
    <3>4. QED  BY <1>4, <3>1, <3>2, <3>3
  <2>3. \A u \in Thread : call'[u].obj = call[u].obj
    BY <1>2
  <2>4. QED  BY <1>2, <2>2, <2>3 DEF RemovedIsEmpty, Free
<1>11. n \notin InodeMap
  <2>1. ASSUME n \in InodeMap PROVE FALSE
    <3>1. n \in Dir /\ parent[n] = None
      BY <1>1, <1>5, <2>1 DEF KeyInv, CallsInv, TreeInv, TypeInv, TypeOK
    <3>2. PICK u \in Thread : Returned(u, {"rmdir"}) /\ call[u].obj = n
      BY <2>1, <3>1 DEF KeyInv, LiveKeys, Linked
    <3>3. InCall(u, {"rmdir"})
      BY <3>2 DEF Returned, InCall
    <3>4. QED  BY <1>6, <1>7, <3>2, <3>3
  <2>2. QED  BY <2>1
<1>12. InodeMap \subseteq Node
  BY <1>5 DEF TypeInv, TypeOK
<1>13. LiveKeys'
  BY <1>1, <1>3, <1>4, <1>11, <1>12 DEF KeyInv, LiveKeys, Linked
<1>14. MonitoredUnderInclude'
  BY <1>1, <1>4, <1>11, <1>12 DEF KeyInv, MonitoredUnderInclude, Linked
<1>15. RootsStay'
  <2>1. Root \subseteq Node
    BY HooksAssumption DEF Node
  <2>2. d # None
    BY <1>1, <1>5
  <2>3. QED  BY <1>4, <2>1, <2>2 DEF KeyInv, CallsInv, RootsStay
<1>16. QED  BY <1>3, <1>9, <1>10, <1>13, <1>14, <1>15 DEF KeyInv, CallsInv

LEMMA RemoveKeepsKeys ==
  ASSUME TypeInv, KeyInv, NEW t \in Thread, VfsRemove(t)
  PROVE  KeyInv'
<1> DEFINE n == call[t].obj
<1>1. /\ call[t] # None /\ call[t] \in Call /\ InCall(t, {"unlink", "rmdir"}) /\ InCall(t, DirCalls)
      /\ call[t].ret = None /\ SetRet(t, 0) /\ n \in Node /\ Removable(n)
      /\ parent' = [parent EXCEPT ![n] = None] /\ UNCHANGED <<InodeMap, LruMap>>
  BY DEF VfsRemove, Running, InCall, DirCalls, hookVars, TypeInv, TypeOK, Call
<1>2. /\ \A u \in Thread \ {t} : call'[u] = call[u]
      /\ call'[t] # None /\ call'[t].ret = 0 /\ call'[t].op = call[t].op /\ call'[t].obj = n
      /\ \A u \in Thread : Held(u)' = Held(u)
      /\ \A u \in Thread : \A ops : InCall(u, ops)' <=> InCall(u, ops)
  BY <1>1, ResultOnly
<1>3. /\ ObjInv' /\ OneCallPerNode' /\ RmdirIsWatched'
      /\ \A k : (\E u \in Thread : Returned(u, {"rmdir"}) /\ call[u].obj = k)
                => \E u \in Thread : Returned(u, {"rmdir"})' /\ call'[u].obj = k
  BY <1>1, ResultKeeps
<1>4. /\ parent \in [Node -> Dir \cup {None}] /\ parent'[n] = None
      /\ \A x \in Node : x # n => parent'[x] = parent[x]
  BY <1>1 DEF TypeInv, TypeOK
<1>5. None \notin Node /\ None # 0 /\ Dir \cap File = {} /\ Dir \subseteq Node
  BY HooksAssumption DEF Node
<1>6. \A u \in Thread : u # t /\ InCall(u, DirCalls) => call[u].obj # n /\ call[u].obj \in Node
  BY <1>1 DEF KeyInv, CallsInv, OneCallPerNode, InCall, TypeInv, TypeOK, Call
<1>7. \A u \in Thread : /\ InCall(u, {"create", "mkdir"}) => InCall(u, DirCalls)
                        /\ InCall(u, {"unlink", "rmdir"}) => InCall(u, DirCalls)
                        /\ InCall(u, {"rmdir"}) => InCall(u, DirCalls)
  BY DEF InCall, DirCalls
<1>8. ~InCall(t, {"create", "mkdir"})
  BY <1>1 DEF InCall
<1>9. TreeInv'
  <2>1. ASSUME NEW u \in Thread, u # t
        PROVE  /\ InCall(u, {"create", "mkdir"}) =>
                    parent'[call[u].obj] = IF call[u].ret = 0 THEN call[u].dir ELSE None
               /\ InCall(u, {"unlink", "rmdir"}) =>
                    parent'[call[u].obj] = IF call[u].ret = 0 THEN None ELSE call[u].dir
    BY <1>4, <1>6, <1>7, <2>1 DEF KeyInv, CallsInv, TreeInv
  <2>2. QED  BY <1>2, <1>4, <1>8, <2>1 DEF TreeInv
<1>10. RemovedIsEmpty'
  <2>1. ASSUME NEW u \in Thread, InCall(u, {"rmdir"}), call'[u].ret = 0
        PROVE  (\A x \in Node : parent'[x] # call[u].obj) /\ Free(call[u].obj)
    <3>1. CASE u = t
      <4>1. n \in Dir
        BY <2>1, <3>1 DEF KeyInv, CallsInv, ObjInv, InCall
      <4>2. QED  BY <1>1, <1>4, <1>5, <3>1, <4>1 DEF Removable
    <3>2. CASE u # t
      <4>1. (\A x \in Node : parent[x] # call[u].obj) /\ Free(call[u].obj)
        BY <1>2, <2>1, <3>2 DEF KeyInv, CallsInv, RemovedIsEmpty
      <4>2. QED  BY <1>4, <1>5, <1>6, <1>7, <2>1, <3>2, <4>1
    <3>3. QED  BY <3>1, <3>2
  <2>2. \A u \in Thread : call'[u].obj = call[u].obj
    BY <1>2
  <2>3. QED  BY <1>2, <2>1, <2>2 DEF RemovedIsEmpty, Free
<1>11. InodeMap \subseteq Node /\ InodeMap \subseteq Dir
  BY <1>5 DEF TypeInv, TypeOK
<1>12. n \in InodeMap => Returned(t, {"rmdir"})'
  <2>1. n \in Dir => call[t].op = "rmdir"
    BY <1>1, <1>5 DEF KeyInv, CallsInv, ObjInv, InCall
  <2>2. QED  BY <1>2, <1>5, <1>11, <2>1 DEF Returned
<1>13. LiveKeys'
  <2>1. SUFFICES ASSUME NEW k \in InodeMap, parent'[k] = None
                 PROVE  \E u \in Thread : Returned(u, {"rmdir"})' /\ call'[u].obj = k
    BY <1>1 DEF LiveKeys, Linked
  <2>2. CASE k = n
    BY <1>2, <1>12, <2>2
  <2>3. CASE k # n
    BY <1>3, <1>4, <1>11, <2>1, <2>3 DEF KeyInv, LiveKeys, Linked
  <2>4. QED  BY <2>2, <2>3
<1>14. MonitoredUnderInclude'
  BY <1>1, <1>4, <1>11 DEF KeyInv, MonitoredUnderInclude, Linked
<1>15. RootsStay'
  <2>1. Root \subseteq Node /\ n \notin Root
    BY <1>1, HooksAssumption DEF Node, Removable
  <2>2. QED  BY <1>4, <2>1 DEF KeyInv, CallsInv, RootsStay
<1>16. QED  BY <1>3, <1>9, <1>10, <1>13, <1>14, <1>15 DEF KeyInv, CallsInv

LEMMA EffectKeepsKeys ==
  ASSUME KeysFollow, TypeInv, KeyInv, NEW t \in Thread, TakeEffect(t)
  PROVE  KeyInv'
<1>1. ASSUME VfsFail(t) PROVE KeyInv'
  BY <1>1, SameTreeKeeps DEF VfsFail, Running, hookVars
<1>2. ASSUME VfsWrite(t) PROVE KeyInv'
  <2>1. PICK r \in {0, 1} : SetRet(t, r)
    BY <1>2 DEF VfsWrite
  <2>2. call[t] # None /\ call[t].op \notin DirCalls /\ r \in {-1, 0, 1}
        /\ UNCHANGED <<parent, InodeMap, LruMap>>
    BY <1>2 DEF VfsWrite, Running, hookVars, WriteCalls, DirCalls
  <2>3. QED  BY <2>1, <2>2, SameTreeKeeps
<1>3. ~VfsMove(t)
  BY DEF VfsMove, Running, KeysFollow, TypeInv, CallInv
<1>4. QED  BY <1>1, <1>2, <1>3, LinkKeepsKeys, RemoveKeepsKeys DEF TakeEffect

-----------------------------------------------------------------------------
(* A call returns.                                                         *)

\* Only the key of the call's directory can change: it enters InodeMap after a
\* mkdir in a monitored directory, and it leaves after the rmdir.
LEMMA FinishKeepsKeys ==
  ASSUME TypeInv, KeyInv, NEW t \in Thread, call[t] # None, Finish(t),
         \A u \in Thread \ {t} : LruMap'[u] = LruMap[u],
         NEW add, NEW remove,
         InodeMap' = (InodeMap \cup add) \ remove,
         add # {} => /\ call[t].op = "mkdir" /\ call[t].ret = 0 /\ add = {call[t].obj}
                     /\ call[t].dir \in InodeMap,
         remove # {} => call[t].op = "rmdir" /\ call[t].ret = 0 /\ remove = {call[t].obj},
         call[t].op = "rmdir" => parent[call[t].obj] # None \/ call[t].obj \notin InodeMap'
  PROVE  KeyInv'
<1>1. call'[t] = None /\ parent' = parent /\ \A u \in Thread \ {t} : call'[u] = call[u]
  BY DEF Finish, TypeInv, TypeOK
<1>2. \A u \in Thread : \A ops : InCall(u, ops)' => u # t /\ InCall(u, ops) /\ call'[u] = call[u]
  BY <1>1 DEF InCall
<1>3. ObjInv' /\ OneCallPerNode' /\ TreeInv' /\ RootsStay'
  <2>1. ObjInv'
    BY <1>2 DEF KeyInv, CallsInv, ObjInv
  <2>2. OneCallPerNode'
    BY <1>2 DEF KeyInv, CallsInv, OneCallPerNode
  <2>3. TreeInv'
    BY <1>1, <1>2 DEF KeyInv, CallsInv, TreeInv
  <2>4. RootsStay'
    BY <1>1 DEF KeyInv, CallsInv, RootsStay
  <2>5. QED  BY <2>1, <2>2, <2>3, <2>4
<1>4. RemovedIsEmpty'
  <2>1. \A u \in Thread : Held(u)' \subseteq Held(u)
    BY <1>1 DEF Held
  <2>2. \A k : Free(k) => \A u \in Thread : k \notin Held(u)'
    BY <2>1 DEF Free
  <2>3. QED  BY <1>1, <1>2, <2>2 DEF KeyInv, CallsInv, RemovedIsEmpty, Free
<1>5. InCall(t, {"mkdir", "rmdir"}) => InCall(t, DirCalls)
  BY DEF InCall, DirCalls
<1>6. \A u \in Thread : InCall(u, {"rmdir"}) => InCall(u, DirCalls)
  BY DEF InCall, DirCalls
<1>7. RmdirIsWatched'
  <2>1. ASSUME NEW u \in Thread, InCall(u, {"rmdir"})', call'[u].obj \in InodeMap'
        PROVE  call'[u].obj \in InodeMap
    <3>1. u # t /\ InCall(u, {"rmdir"}) /\ call'[u] = call[u]
      BY <1>2, <2>1
    <3>2. add # {} => call[u].obj # call[t].obj
      BY <1>5, <1>6, <3>1 DEF KeyInv, CallsInv, OneCallPerNode, InCall
    <3>3. QED  BY <2>1, <3>1, <3>2
  <2>2. QED  BY <1>2, <2>1 DEF KeyInv, CallsInv, RmdirIsWatched
<1>8. add # {} => parent[call[t].obj] = call[t].dir /\ call[t].dir \in Dir
  BY DEF KeyInv, CallsInv, TreeInv, InCall, TypeInv, TypeOK
<1>9. LiveKeys'
  <2>1. SUFFICES ASSUME NEW k \in InodeMap', parent[k] = None
                 PROVE  \E u \in Thread : Returned(u, {"rmdir"})' /\ call'[u].obj = k
    BY <1>1 DEF LiveKeys, Linked
  <2>2. k \in InodeMap
    <3>1. None \notin Dir
      BY HooksAssumption DEF Node
    <3>2. QED  BY <1>8, <2>1, <3>1
  <2>3. PICK u \in Thread : Returned(u, {"rmdir"}) /\ call[u].obj = k
    BY <2>1, <2>2 DEF KeyInv, LiveKeys, Linked
  <2>4. u # t
    BY <2>1, <2>3 DEF Returned
  <2>5. QED  BY <1>1, <2>3, <2>4 DEF Returned
<1>10. MonitoredUnderInclude'
  <2>1. SUFFICES ASSUME NEW k \in InodeMap' \ Include, parent[k] # None
                 PROVE  parent[k] \in InodeMap'
    BY <1>1 DEF MonitoredUnderInclude, Linked
  <2>2. parent[k] \in InodeMap
    BY <1>8, <2>1 DEF KeyInv, MonitoredUnderInclude, Linked
  <2>3. parent[k] \notin remove
    <3>1. k \in Node
      <4>1. call[t] \in Call /\ Dir \subseteq Node
        BY DEF TypeInv, TypeOK, Node
      <4>2. QED  BY <2>1, <4>1 DEF TypeInv, TypeOK, Call
    <3>2. remove # {} => \A x \in Node : parent[x] # call[t].obj
      BY DEF KeyInv, CallsInv, RemovedIsEmpty, InCall
    <3>3. QED  BY <3>1, <3>2
  <2>4. QED  BY <2>2, <2>3
<1>11. QED  BY <1>3, <1>4, <1>7, <1>9, <1>10 DEF KeyInv, CallsInv

LEMMA ReturnKeepsKeys ==
  ASSUME KeysFollow, TypeInv, CtxOwned, KeyInv, NEW t \in Thread, Return(t)
  PROVE  KeyInv'
<1> DEFINE n == call[t].obj
<1>1. call[t] # None /\ Finish(t) /\ ~fexit_vfs_rename(t)
  BY DEF Return, ReturnUnhooked, fexit_vfs_mkdir, fexit_vfs_unlink, fexit_vfs_rmdir, fexit_vfs_rename,
         fexit_vfs_write, fexit_vfs_writev, WriteReturn, Returned, KeysFollow, TypeInv, CallInv
<1>2. \A u \in Thread \ {t} : LruMap'[u] = LruMap[u]
  <2>1. LruMap' = LruMap \/ DropCtx(t)
    BY <1>1 DEF Return, ReturnUnhooked, fexit_vfs_mkdir, fexit_vfs_unlink, fexit_vfs_rmdir,
           fexit_vfs_write, fexit_vfs_writev, WriteReturn, hookVars
  <2>2. QED  BY <2>1, DropCtxEffect DEF TypeInv, TypeOK
<1>3. CASE call[t].op \notin {"mkdir", "rmdir"}
  <2>1. InodeMap' = InodeMap
    BY <1>1, <1>3 DEF Return, ReturnUnhooked, fexit_vfs_mkdir, fexit_vfs_unlink, fexit_vfs_rmdir,
           fexit_vfs_write, fexit_vfs_writev, WriteReturn, hookVars, Returned
  <2> DEFINE none == {}
  <2>2. InodeMap' = (InodeMap \cup none) \ none
    BY <2>1
  <2>3. QED  BY <1>1, <1>2, <1>3, <2>2, FinishKeepsKeys
<1>4. CASE call[t].op = "mkdir"
  <2>1. fexit_vfs_mkdir(t)
    BY <1>1, <1>4 DEF Return, ReturnUnhooked, fexit_vfs_unlink, fexit_vfs_rmdir,
           fexit_vfs_write, fexit_vfs_writev, WriteReturn, Returned
  <2>2. InodeMap' = InodeMap \/ (InodeMap' = InodeMap \cup {n} /\ MkdirInMonitored(t))
    BY <2>1 DEF fexit_vfs_mkdir, update_dir_map, AddKey
  <2> DEFINE add == IF InodeMap' = InodeMap THEN {} ELSE {n}
             none == {}
  <2>3. InodeMap' = (InodeMap \cup add) \ none
    BY <2>2
  <2>4. add # {} => call[t].ret = 0 /\ add = {n} /\ call[t].dir \in InodeMap
    BY <2>2 DEF MkdirInMonitored, is_monitored
  <2> HIDE DEF add
  <2>5. none = {}
    OBVIOUS
  <2> HIDE DEF none
  <2>6. QED  BY <1>1, <1>2, <1>4, <2>3, <2>4, <2>5, FinishKeepsKeys
<1>5. CASE call[t].op = "rmdir"
  <2>1. fexit_vfs_rmdir(t) /\ InCall(t, {"rmdir"}) /\ InCall(t, DirCalls)
    BY <1>1, <1>5 DEF Return, ReturnUnhooked, fexit_vfs_unlink, fexit_vfs_mkdir,
           fexit_vfs_write, fexit_vfs_writev, WriteReturn, Returned, InCall, DirCalls
  <2>2. call[t] \in Call /\ n \in Node /\ call[t].dir \in Dir /\ call[t].ret \in {-1, 0}
    <3>1. call[t] \in Call
      BY <1>1 DEF TypeInv, TypeOK
    <3>2. call[t].ret # None
      BY <2>1 DEF fexit_vfs_rmdir, Returned
    <3>3. QED  BY <2>1, <3>1, <3>2 DEF Call, KeyInv, CallsInv, ObjInv
  <2>3. LruMap[t] # None => LruMap[t].inode = n
    BY <1>5 DEF CtxOwned, SavedCtx, SavedBy, bpf_get_current_pid_tgid
  <2>4. n \in InodeMap => LruMap[t] # None
    BY <2>1 DEF KeyInv, CallsInv, RmdirIsWatched
  <2> DEFINE remove == IF LruMap[t] # None /\ call[t].ret = 0 THEN {n} ELSE {}
             none == {}
  <2>5. InodeMap' = (InodeMap \cup none) \ remove
    <3>1. LruMap[t] # None /\ call[t].ret = 0 => InodeMap' = InodeMap \ {n}
      BY <2>1, <2>3 DEF fexit_vfs_rmdir, FindsCtx, Removed, ForgetDir, SavedCtx,
         bpf_get_current_pid_tgid, KeysFollow
    <3>2. ~(LruMap[t] # None /\ call[t].ret = 0) => InodeMap' = InodeMap
      BY <2>1, <2>2 DEF fexit_vfs_rmdir, FindsCtx, Removed, ForgetDir, SavedCtx, bpf_get_current_pid_tgid
    <3>3. QED  BY <3>1, <3>2
  <2>6. parent[n] # None \/ n \notin InodeMap'
    <3>1. call[t].ret # 0 => parent[n] = call[t].dir
      BY <2>1 DEF KeyInv, CallsInv, TreeInv, InCall
    <3>2. None \notin Dir
      BY HooksAssumption DEF Node
    <3>3. QED  BY <2>2, <2>4, <2>5, <3>1, <3>2
  <2>7. remove # {} => call[t].ret = 0 /\ remove = {n}
    OBVIOUS
  <2> HIDE DEF remove
  <2>8. none = {}
    OBVIOUS
  <2> HIDE DEF none
  <2>9. QED  BY <1>1, <1>2, <1>5, <2>5, <2>6, <2>7, <2>8, FinishKeepsKeys
<1>6. QED  BY <1>3, <1>4, <1>5

-----------------------------------------------------------------------------

LEMMA NextKeepsKeys ==
  ASSUME KeysFollow, TypeInv, CtxOwned, KeyInv, [Next]_vars
  PROVE  KeyInv'
<1>1. ASSUME UNCHANGED <<parent, call, InodeMap, LruMap>> PROVE KeyInv'
  <2>1. \A t \in Thread : \A ops : InCall(t, ops)' <=> InCall(t, ops)
    BY <1>1 DEF InCall
  <2>2. \A t \in Thread : Held(t)' = Held(t)
    BY <1>1 DEF Held
  <2>3. ObjInv' /\ TreeInv' /\ OneCallPerNode' /\ RmdirIsWatched' /\ RootsStay'
    BY <1>1, <2>1 DEF KeyInv, CallsInv, ObjInv, TreeInv, OneCallPerNode, RmdirIsWatched, RootsStay
  <2>4. RemovedIsEmpty'
    BY <1>1, <2>1, <2>2 DEF KeyInv, CallsInv, RemovedIsEmpty, Free
  <2>5. LiveKeys' /\ MonitoredUnderInclude'
    BY <1>1 DEF KeyInv, LiveKeys, MonitoredUnderInclude, Linked, Returned
  <2>6. QED  BY <2>3, <2>4, <2>5 DEF KeyInv, CallsInv
<1>2. CASE UNCHANGED vars
  BY <1>1, <1>2 DEF vars
<1>3. CASE Poll
  BY <1>1, <1>3 DEF Poll
<1>4. ASSUME NEW t \in Thread, Enter(t) \/ TakeEffect(t) \/ Return(t) PROVE KeyInv'
  BY <1>4, EnterKeepsKeys, EffectKeepsKeys, ReturnKeepsKeys
<1>5. QED  BY <1>2, <1>3, <1>4 DEF Next

LEMMA KeysKept == KeysFollow => (Spec => []KeyInv)
<1>1. SUFFICES ASSUME KeysFollow PROVE Spec => []KeyInv
  OBVIOUS
<1>2. PairedHooks
  BY <1>1 DEF KeysFollow
<1>3. Init => KeyInv
  BY InitKeys
<1>4. TypeInv /\ CtxOwned /\ KeyInv /\ [Next]_vars => KeyInv'
  BY <1>1, NextKeepsKeys
<1>5. QED  BY <1>2, <1>3, <1>4, Typing, ContextsAreOwned, PTL DEF Spec

\* A monitored key never outlives its directory, for any number of threads,
\* directories and files, though events are lost and calls fail: where nothing
\* is renamed, a key is that of a linked directory or of one whose rmdir is
\* about to return.
THEOREM KeysAreLive == KeysFollow => (Spec => []LiveKeys)
<1>1. SUFFICES ASSUME KeysFollow PROVE Spec => []LiveKeys
  OBVIOUS
<1>2. KeyInv => LiveKeys
  BY DEF KeyInv
<1>3. QED  BY <1>1, <1>2, KeysKept, PTL

\* Monitoring stays within the included trees: it spreads from a directory to
\* what is made in it, and never further, whatever inodes are reused.
THEOREM MonitoringStaysInside == KeysFollow => (Spec => []MonitoredUnderInclude)
<1>1. SUFFICES ASSUME KeysFollow PROVE Spec => []MonitoredUnderInclude
  OBVIOUS
<1>2. KeyInv => MonitoredUnderInclude
  BY DEF KeyInv
<1>3. QED  BY <1>1, <1>2, KeysKept, PTL

=============================================================================
