------------------------------ MODULE KernelHooks ------------------------------
(***************************************************************************)
(* The kernel side of the file integrity monitor: the BPF programs of      *)
(* fim/src/bpf attached to the virtual file system, and the maps they      *)
(* share.  Kernel threads run file-system calls side by side.  A call      *)
(* passes its entry hook, takes effect or fails, and passes its return     *)
(* hook; the hooks look directories up in InodeMap, hand data from the     *)
(* entry to the return of one call through LruMap, and submit events to    *)
(* the ring buffer rb that user space polls.                               *)
(*                                                                         *)
(* The virtual file system is not part of the repository.  Its calls are   *)
(* modelled from what the hooks rely on: the arguments they read, the      *)
(* return values they test, and the directory locks under which the        *)
(* callers of vfs_mkdir, vfs_unlink, vfs_rmdir and vfs_rename run.         *)
(***************************************************************************)
EXTENDS Integers, Sequences, FiniteSets

CONSTANTS
  Thread,       (* kernel threads; one thread, one pid_tgid                *)
  Dir, File,    (* KEYs (inode, device) of directories and of other files  *)
  Root,         (* directories that always exist                           *)
  Include,      (* the roots named by the D rules of the configuration     *)
  None,         (* no inode, no context, no call                           *)
  Feature,      (* the CONFIG_* switches the BPF objects were built with   *)
  Syscall,      (* the calls the threads make                              *)
  InodeMapMax,  (* INODE_MAP_MAX_ENTRIES                                   *)
  LruMax,       (* max_entries of LruMap                                   *)
  RingMax,      (* records that fit in rb                                  *)
  CounterMod    (* 2^64 in counter_map                                     *)

Node == Dir \cup File

DirCalls   == {"create", "mkdir", "unlink", "rmdir", "rename"}
\* vfs_write, vfs_writev, and the other users of security_file_permission
\* (fallocate, splice, copy_file_range ...), which no return hook covers.
WriteCalls == {"write", "writev", "splice"}

ASSUME HooksAssumption ==
  /\ Dir \cap File = {} /\ Root \subseteq Dir /\ Include \subseteq Root
  /\ None \notin Node /\ None \notin -1..1
  /\ Feature \subseteq {"CREATE", "DELETE", "MODIFY", "RENAME"}
  /\ Syscall \subseteq DirCalls \cup WriteCalls
  /\ InodeMapMax \in Nat /\ LruMax \in Nat \ {0} /\ RingMax \in Nat \ {0}
  /\ CounterMod \in Nat \ {0}

VARIABLES
  parent,       (* the directory a node is linked in, None if unlinked     *)
  call,         (* the call each thread is in, None if in none             *)
  InodeMap,     (* the keys of the monitored directories                   *)
  LruMap,       (* the dentry_ctx saved for each thread, None if absent    *)
  rb,           (* the ring buffer: submitted and not yet polled events    *)
  counter       (* counter_map[0]                                          *)

vars == <<parent, call, InodeMap, LruMap, rb, counter>>

-----------------------------------------------------------------------------
(* Data.  A path is the last link of the dentry chain construct_path walks; *)
(* a name is identified with the node it names.                             *)

Path == Dir \X Node

EventTypes == {"CREATE", "DELETE", "WRITE", "WRITE_INTENT",
               "RENAME_C", "RENAME_D", "RENAME_OW"}

Event == [type : EventTypes, path : Path]
Ev(type, path) == [type |-> type, path |-> path]

\* The fields of dentry_ctx that some return hook reads.
dentry_ctx ==
  [filepath : Path, inode : Node \cup {None}, is_dir : BOOLEAN,
   inode_mon : BOOLEAN, is_new_dir_mon : BOOLEAN, is_cross_dir : BOOLEAN,
   overwrite : BOOLEAN]

\* A context after memset and construct_path.
BlankCtx(path) ==
  [filepath |-> path, inode |-> None, is_dir |-> FALSE, inode_mon |-> FALSE,
   is_new_dir_mon |-> FALSE, is_cross_dir |-> FALSE, overwrite |-> FALSE]

\* A call in progress; ret is None until the call has taken effect or failed.
\* watched records whether the entry hook found what it monitors.
Call ==
  [op : DirCalls \cup WriteCalls, dir : Dir, obj : Node,
   newdir : Dir \cup {None}, target : Node \cup {None},
   watched : BOOLEAN, ret : {None, -1, 0, 1}]

ASSUME NoneAssumption == None \notin Call /\ None \notin dentry_ctx

TypeOK ==
  /\ parent \in [Node -> Dir \cup {None}]
  /\ call \in [Thread -> Call \cup {None}]
  /\ InodeMap \in SUBSET Dir
  /\ LruMap \in [Thread -> dentry_ctx \cup {None}]
  /\ rb \in Seq(Event) /\ Len(rb) <= RingMax
  /\ counter \in 0 .. CounterMod - 1

-----------------------------------------------------------------------------
(* The file system.                                                        *)

Linked(n) == parent[n] # None

\* n and the directories above it in the tree p: what is in each set that has
\* n and, with a node, the directory of the node.
Ancestors(p, n) ==
  {a \in Node : \A S \in SUBSET Node :
     n \in S /\ (\A x \in S : p[x] \in S \cup {None}) => a \in S}

\* The trees in which every linked node hangs below a root; a root is its
\* own parent, as in the loop of construct_path.
Forest ==
  {p \in [Node -> Dir \cup {None}] :
     /\ \A r \in Root : p[r] = r
     /\ \A n \in Node \ Root : p[n] # None => Ancestors(p, n) \cap Root # {}}

\* The directories the scan of the D rules finds.
Covered(p) == {d \in Dir : Ancestors(p, d) \cap Include # {}}

\* The directories whose inode lock thread t holds.
Held(t) ==
  IF call[t] # None /\ call[t].op \in DirCalls
  THEN {call[t].dir, call[t].newdir} \ {None}
  ELSE {}

Free(d) == \A t \in Thread : d \notin Held(t)

\* s_vfs_rename_mutex: one rename across directories at a time.
CrossRename(t) ==
  call[t] # None /\ call[t].op = "rename" /\ call[t].dir # call[t].newdir

\* A node no call in progress is about: its inode is freed and may be reused.
Unused(n) == ~Linked(n) /\ \A t \in Thread : call[t] # None => call[t].obj # n /\ call[t].target # n

Removable(n) == n \notin Root /\ (\A x \in Node : parent[x] # n) /\ (n \in Dir => Free(n))

\* Thread t enters the call op.
Begin(t, op, d, x, d2, y, watched) ==
  /\ op \in Syscall
  /\ op \in DirCalls => Linked(d) /\ Free(d)
  /\ call' = [call EXCEPT ![t] = [op |-> op, dir |-> d, obj |-> x, newdir |-> d2,
                                  target |-> y, watched |-> watched, ret |-> None]]
  /\ UNCHANGED parent

Running(t, ops)  == call[t] # None /\ call[t].op \in ops /\ call[t].ret = None
Returned(t, ops) == call[t] # None /\ call[t].op \in ops /\ call[t].ret # None

SetRet(t, r) == call' = [call EXCEPT ![t].ret = r]

Finish(t) == call' = [call EXCEPT ![t] = None] /\ UNCHANGED parent

hookVars == <<InodeMap, LruMap, rb, counter>>

-----------------------------------------------------------------------------
(* Helpers of the hooks (helpers.h, maps.h).                               *)

\* Mutant: the upper half of pid_tgid only, one key for a whole process.
bpf_get_current_pid_tgid_Process(t) == CHOOSE u \in Thread : TRUE
bpf_get_current_pid_tgid(t) == t

is_monitored(n) == n \in InodeMap

\* bpf_map_update_elem on InodeMap: a new key does not fit in a full map.
AddKey(m, k) ==
  IF k \in m \/ Cardinality(m) < InodeMapMax THEN m \cup {k} ELSE m

\* update_dir_map(inode, true): only directories are added.
update_dir_map(n) == InodeMap' = IF n \in Dir THEN AddKey(InodeMap, n) ELSE InodeMap

\* bpf_ringbuf_reserve ... bpf_ringbuf_submit: nothing happens on a full ring.
RingHasRoom(q) == Len(q) < RingMax
\* Mutant: the result of bpf_ringbuf_reserve is not tested.
Submit_Unchecked(q, e) == Append(q, e)
Submit(q, e) == IF RingHasRoom(q) THEN Append(q, e) ELSE q

emit_event(path, type) == rb' = Submit(rb, Ev(type, path))

SavedKeys == {k \in Thread : LruMap[k] # None}

\* bpf_map_update_elem on LruMap: a full LRU map makes room by evicting.
SaveCtx(t, ctx) ==
  LET k == bpf_get_current_pid_tgid(t) IN
  IF k \in SavedKeys \/ Cardinality(SavedKeys) < LruMax
  THEN LruMap' = [LruMap EXCEPT ![k] = ctx]
  ELSE \E v \in SavedKeys : LruMap' = [LruMap EXCEPT ![v] = None, ![k] = ctx]

SavedCtx(t) == LruMap[bpf_get_current_pid_tgid(t)]

DropCtx(t) == LruMap' = [LruMap EXCEPT ![bpf_get_current_pid_tgid(t)] = None]

\* __sync_fetch_and_add on counter_map[0].
\* Mutant: a plain increment, which loses hits that race with another one.
CountHit_Racy == counter' \in {counter, (counter + 1) % CounterMod}
CountHit == counter' = (counter + 1) % CounterMod

\* A return hook of the feature runs and finds a saved context.
FindsCtx(t, feature) == feature \in Feature /\ SavedCtx(t) # None

\* unlink and rmdir return 0 or a negative error.
\* Mutant: the test of vfs_write, where 0 is no success.
Removed_Positive(t) == call[t].ret > 0
Removed(t) == call[t].ret >= 0

-----------------------------------------------------------------------------
(* Entry of the calls, with their entry hooks.                             *)

\* lsm/inode_create, before the file exists.
lsm_inode_create(t, d, f) ==
  LET hit == "CREATE" \in Feature /\ is_monitored(d) IN
  /\ f \in File /\ Unused(f)
  /\ Begin(t, "create", d, f, None, None, hit)
  /\ IF hit THEN emit_event(<<d, f>>, "CREATE") ELSE UNCHANGED rb
  /\ UNCHANGED <<InodeMap, LruMap, counter>>

\* vfs_mkdir has no entry hook.
vfs_mkdir_entry(t, d, n) ==
  /\ n \in Dir /\ Unused(n)
  /\ Begin(t, "mkdir", d, n, None, None, FALSE)
  /\ UNCHANGED hookVars

\* kprobe/vfs_unlink: remember the path if the parent is monitored.
fentry_vfs_unlink(t, d, f) ==
  LET hit == "DELETE" \in Feature /\ is_monitored(d) IN
  /\ f \in File /\ parent[f] = d
  /\ Begin(t, "unlink", d, f, None, None, hit)
  /\ IF hit THEN SaveCtx(t, BlankCtx(<<d, f>>)) ELSE UNCHANGED LruMap
  /\ IF "DELETE" \in Feature THEN CountHit ELSE UNCHANGED counter
  /\ UNCHANGED <<InodeMap, rb>>

\* kprobe/vfs_rmdir: remember path and key if the directory is monitored.
fentry_vfs_rmdir(t, d, n) ==
  LET hit == "DELETE" \in Feature /\ is_monitored(n) IN
  /\ n \in Dir \ Root /\ parent[n] = d
  /\ Begin(t, "rmdir", d, n, None, None, hit)
  /\ IF hit THEN SaveCtx(t, [BlankCtx(<<d, n>>) EXCEPT !.inode = n]) ELSE UNCHANGED LruMap
  /\ IF "DELETE" \in Feature THEN CountHit ELSE UNCHANGED counter
  /\ UNCHANGED <<InodeMap, rb>>

\* fentry/vfs_rename of x from d to d2, over y unless y is None.
fentry_vfs_rename(t, d, x, d2, y) ==
  LET is_dir    == x \in Dir
      monitored == (IF is_dir THEN is_monitored(x) ELSE is_monitored(d)) \/ is_monitored(d2)
      hit       == "RENAME" \in Feature /\ monitored
      d_ctx     == [filepath |-> <<d, x>>, inode |-> x, is_dir |-> is_dir,
                    inode_mon |-> is_dir /\ is_monitored(x),
                    is_new_dir_mon |-> is_monitored(d2),
                    is_cross_dir |-> d # d2, overwrite |-> y # None]
  IN
  /\ x \in Node \ Root /\ parent[x] = d /\ x # y
  /\ Linked(d2) /\ Free(d2) /\ x \notin Ancestors(parent, d2)
  /\ y # None => y \in Node \ Root /\ parent[y] = d2 /\ (y \in Dir <=> is_dir)
                 /\ y \notin Ancestors(parent, x)
  /\ d # d2 => \A u \in Thread : ~CrossRename(u)
  /\ Begin(t, "rename", d, x, d2, y, hit)
  /\ IF hit THEN SaveCtx(t, d_ctx) ELSE UNCHANGED LruMap
  /\ UNCHANGED <<InodeMap, rb, counter>>

\* lsm/file_permission with MAY_WRITE on an open file f: the intent is
\* submitted and the context saved only if the ring has room.
fim_file_permission(t, op, f) ==
  LET d   == parent[f]
      hit == "MODIFY" \in Feature /\ is_monitored(d) /\ RingHasRoom(rb)
  IN
  /\ op \in WriteCalls /\ f \in File /\ Linked(f)
  /\ Begin(t, op, d, f, None, None, hit)
  /\ IF hit
     THEN emit_event(<<d, f>>, "WRITE_INTENT") /\ SaveCtx(t, BlankCtx(<<d, f>>))
     ELSE UNCHANGED <<rb, LruMap>>
  /\ UNCHANGED <<InodeMap, counter>>

-----------------------------------------------------------------------------
(* The effect of the calls.                                                *)

VfsFail(t) ==
  /\ Running(t, DirCalls \cup WriteCalls)
  /\ SetRet(t, -1)
  /\ UNCHANGED <<parent, hookVars>>

VfsLink(t) ==
  /\ Running(t, {"create", "mkdir"})
  /\ SetRet(t, 0)
  /\ parent' = [parent EXCEPT ![call[t].obj] = call[t].dir]
  /\ UNCHANGED hookVars

VfsRemove(t) ==
  /\ Running(t, {"unlink", "rmdir"}) /\ Removable(call[t].obj)
  /\ SetRet(t, 0)
  /\ parent' = [parent EXCEPT ![call[t].obj] = None]
  /\ UNCHANGED hookVars

VfsMove(t) ==
  /\ Running(t, {"rename"})
  /\ call[t].target # None => Removable(call[t].target)
  /\ SetRet(t, 0)
  /\ parent' = [n \in Node |-> IF n = call[t].obj THEN call[t].newdir
                               ELSE IF n = call[t].target THEN None ELSE parent[n]]
  /\ UNCHANGED hookVars

\* vfs_write and vfs_writev return the number of bytes written.
VfsWrite(t) ==
  /\ Running(t, WriteCalls)
  /\ \E r \in {0, 1} : SetRet(t, r)
  /\ UNCHANGED <<parent, hookVars>>

-----------------------------------------------------------------------------
(* Return of the calls, with their return hooks.                           *)

\* vfs_create and the other write paths have no return hook.
ReturnUnhooked(t) ==
  /\ Returned(t, {"create", "splice"})
  /\ Finish(t)
  /\ UNCHANGED hookVars

\* fexit/vfs_mkdir: monitor the new directory if its parent is monitored.
\* Mutants: a failed mkdir counts; the parent is not looked up.
MkdirInMonitored_Failed(t)    == "CREATE" \in Feature /\ is_monitored(call[t].dir)
MkdirInMonitored_AnyParent(t) == "CREATE" \in Feature /\ call[t].ret = 0
MkdirInMonitored(t) == "CREATE" \in Feature /\ call[t].ret = 0 /\ is_monitored(call[t].dir)

fexit_vfs_mkdir(t) ==
  /\ Returned(t, {"mkdir"})
  /\ Finish(t)
  /\ IF MkdirInMonitored(t)
     THEN update_dir_map(call[t].obj) /\ emit_event(<<call[t].dir, call[t].obj>>, "CREATE")
     ELSE UNCHANGED <<InodeMap, rb>>
  /\ UNCHANGED <<LruMap, counter>>

\* kretprobe/vfs_unlink.
fexit_vfs_unlink(t) ==
  /\ Returned(t, {"unlink"})
  /\ Finish(t)
  /\ IF FindsCtx(t, "DELETE")
     THEN /\ IF Removed(t) THEN emit_event(SavedCtx(t).filepath, "DELETE")
                           ELSE UNCHANGED rb
          /\ DropCtx(t)
     ELSE UNCHANGED <<rb, LruMap>>
  /\ IF "DELETE" \in Feature THEN CountHit ELSE UNCHANGED counter
  /\ UNCHANGED InodeMap

\* Deletion was successful: the key leaves InodeMap even if the ring is full.
\* Mutant: the map is updated only once the event has been reserved.
ForgetDir_RoomFirst(k) == InodeMap' = IF RingHasRoom(rb) THEN InodeMap \ {k} ELSE InodeMap
ForgetDir(k) == InodeMap' = InodeMap \ {k}

\* kretprobe/vfs_rmdir.
fexit_vfs_rmdir(t) ==
  /\ Returned(t, {"rmdir"})
  /\ Finish(t)
  /\ IF FindsCtx(t, "DELETE")
     THEN /\ IF Removed(t)
             THEN /\ ForgetDir(SavedCtx(t).inode)
                  /\ emit_event(SavedCtx(t).filepath, "DELETE")
             ELSE UNCHANGED <<InodeMap, rb>>
          /\ DropCtx(t)
     ELSE UNCHANGED <<InodeMap, rb, LruMap>>
  /\ IF "DELETE" \in Feature THEN CountHit ELSE UNCHANGED counter

\* The events of one rename: RENAME_D, then RENAME_C or RENAME_OW.  Each is
\* lost if the ring is full, and the first one lost ends the hook.
\* Mutant: the overwritten target is not told apart.
RenameEvents_NoTarget(c, ctx) ==
  <<Ev("RENAME_D", ctx.filepath), Ev("RENAME_C", <<c.newdir, c.obj>>)>>
RenameEvents(c, ctx) ==
  <<Ev("RENAME_D", ctx.filepath),
    Ev(IF ctx.overwrite THEN "RENAME_OW" ELSE "RENAME_C", <<c.newdir, c.obj>>)>>

\* A directory leaves, or enters, the monitored area.
\* Mutant: a move from one monitored directory to another counts as leaving.
LeavesArea_Any(ctx) == ctx.is_dir /\ ctx.is_cross_dir /\ ctx.inode_mon
LeavesArea(ctx) ==
  ctx.is_dir /\ ctx.is_cross_dir /\ ctx.inode_mon /\ ~ctx.is_new_dir_mon
EntersArea(ctx) ==
  ctx.is_dir /\ ctx.is_cross_dir /\ ctx.is_new_dir_mon /\ ~ctx.inode_mon /\ ~ctx.overwrite

\* InodeMap after the rename of ctx: room is the number of records that can be
\* reserved, and each update comes after the reservation of its event.
\* Mutant: the updates come before the reservations.
RenamedMap_MapFirst(ctx, room) ==
  IF LeavesArea(ctx) THEN InodeMap \ {ctx.inode}
  ELSE IF EntersArea(ctx) THEN AddKey(InodeMap, ctx.inode)
  ELSE InodeMap
RenamedMap(ctx, room) ==
  IF room > 0 /\ LeavesArea(ctx) THEN InodeMap \ {ctx.inode}
  ELSE IF room > 1 /\ EntersArea(ctx) THEN AddKey(InodeMap, ctx.inode)
  ELSE InodeMap

\* fexit/vfs_rename.  Its two reservations are one step: nothing comes between
\* the two records, and the room for both is that of the first.
fexit_vfs_rename(t) ==
  LET ctx  == SavedCtx(t)
      room == RingMax - Len(rb)
  IN
  /\ Returned(t, {"rename"})
  /\ Finish(t)
  /\ IF FindsCtx(t, "RENAME")
     THEN /\ IF call[t].ret = 0
             THEN /\ rb' = rb \o SubSeq(RenameEvents(call[t], ctx), 1, IF room < 2 THEN room ELSE 2)
                  /\ InodeMap' = RenamedMap(ctx, room)
             ELSE UNCHANGED <<InodeMap, rb>>
          /\ DropCtx(t)
     ELSE UNCHANGED <<InodeMap, rb, LruMap>>
  /\ UNCHANGED counter

\* kretprobe/vfs_write reports writes of at least one byte, fexit/vfs_writev
\* every write that did not fail.
WriteReturn(t, op, least) ==
  /\ Returned(t, {op})
  /\ Finish(t)
  /\ IF FindsCtx(t, "MODIFY")
     THEN /\ IF call[t].ret >= least THEN emit_event(SavedCtx(t).filepath, "WRITE")
                                     ELSE UNCHANGED rb
          /\ DropCtx(t)
     ELSE UNCHANGED <<rb, LruMap>>
  /\ UNCHANGED <<InodeMap, counter>>

fexit_vfs_write(t)  == WriteReturn(t, "write", 1)
fexit_vfs_writev(t) == WriteReturn(t, "writev", 0)

\* ring_buffer__poll in user space takes the oldest event.
Poll ==
  /\ rb # <<>>
  /\ rb' = Tail(rb)
  /\ UNCHANGED <<parent, call, InodeMap, LruMap, counter>>

-----------------------------------------------------------------------------

\* The daemon has loaded the keys of all included directories, and they fit.
Init ==
  /\ parent \in Forest /\ Cardinality(Covered(parent)) <= InodeMapMax
  /\ call = [t \in Thread |-> None]
  /\ InodeMap = Covered(parent)
  /\ LruMap = [t \in Thread |-> None]
  /\ rb = <<>>
  /\ counter = 0

\* A thread is in one call at a time.
Enter(t) ==
  /\ call[t] = None
  /\ \/ \E d \in Dir, f \in File :
          lsm_inode_create(t, d, f) \/ fentry_vfs_unlink(t, d, f)
     \/ \E d, n \in Dir :
          vfs_mkdir_entry(t, d, n) \/ fentry_vfs_rmdir(t, d, n)
     \/ \E d, d2 \in Dir, x \in Node, y \in Node \cup {None} :
          fentry_vfs_rename(t, d, x, d2, y)
     \/ \E op \in WriteCalls, f \in File : fim_file_permission(t, op, f)

TakeEffect(t) ==
  \/ VfsFail(t) \/ VfsLink(t) \/ VfsRemove(t) \/ VfsMove(t) \/ VfsWrite(t)

Return(t) ==
  \/ ReturnUnhooked(t)
  \/ fexit_vfs_mkdir(t)
  \/ fexit_vfs_unlink(t)
  \/ fexit_vfs_rmdir(t)
  \/ fexit_vfs_rename(t)
  \/ fexit_vfs_write(t)
  \/ fexit_vfs_writev(t)

Next ==
  \/ \E t \in Thread : Enter(t) \/ TakeEffect(t) \/ Return(t)
  \/ Poll

Spec == Init /\ [][Next]_vars

-----------------------------------------------------------------------------
(* Properties.                                                             *)

\* The context ctx was saved by the entry hook of the call c, and c has a
\* return hook that will drop it.
SavedBy(ctx, c) ==
  /\ c # None /\ c.watched /\ c.op \notin {"create", "mkdir", "splice"}
  /\ ctx.filepath = <<c.dir, c.obj>>
  /\ c.op \in {"rmdir", "rename"} => ctx.inode = c.obj
  /\ c.op = "rename" => /\ ctx.is_cross_dir = (c.dir # c.newdir)
                        /\ ctx.overwrite = (c.target # None)

\* A context in LruMap was saved by the entry hook of the very call its
\* thread is in: nothing is left behind by an earlier call, nothing leaks when
\* a call fails, when the ring is full or when another thread runs.
CtxOwned == \A t \in Thread : SavedCtx(t) # None => SavedBy(SavedCtx(t), call[t])

\* The call of thread t that ends in this step, or begins in it, is what the
\* event e says: the type fits the call, the call succeeded, the path is the
\* call's path and the file system shows the change.
Justified(t, e) ==
  LET c == call[t]
      now == call'[t]
      Ends(ops)   == c # None /\ now = None /\ c.op \in ops
      Begins(ops) == c = None /\ now # None /\ now.op \in ops /\ e.path = <<now.dir, now.obj>>
      OldPath == e.path = <<c.dir, c.obj>>
      NewPath == e.path = <<c.newdir, c.obj>> /\ parent[c.obj] = c.newdir
  IN  \/ e.type = "CREATE"       /\ Begins({"create"})
      \/ e.type = "CREATE"       /\ Ends({"mkdir"}) /\ c.ret = 0 /\ OldPath /\ parent[c.obj] = c.dir
      \/ e.type = "DELETE"       /\ Ends({"unlink", "rmdir"}) /\ c.ret = 0 /\ OldPath /\ ~Linked(c.obj)
      \/ e.type = "RENAME_D"     /\ Ends({"rename"}) /\ c.ret = 0 /\ OldPath
      \/ e.type = "RENAME_C"     /\ Ends({"rename"}) /\ c.ret = 0 /\ NewPath /\ c.target = None
      \/ e.type = "RENAME_OW"    /\ Ends({"rename"}) /\ c.ret = 0 /\ NewPath
                                 /\ c.target # None /\ ~Linked(c.target)
      \/ e.type = "WRITE_INTENT" /\ Begins(WriteCalls)
      \/ e.type = "WRITE"        /\ Ends({"write"}) /\ c.ret > 0 /\ OldPath
      \/ e.type = "WRITE"        /\ Ends({"writev"}) /\ c.ret >= 0 /\ OldPath

\* Every event submitted to the ring buffer is about a call that really had
\* this effect, whatever other threads do between its entry and its return.
EventsTruthful ==
  [][\A i \in Len(rb) + 1 .. Len(rb') : \E t \in Thread : Justified(t, rb'[i])]_vars

\* A successful call whose entry hook found its directory monitored is reported
\* when it returns, unless the ring buffer is full, as long as LruMap holds a
\* context for each thread: with fewer entries an eviction loses the event.
WatchedIsReported ==
  [][\A t \in Thread :
       (/\ call[t] # None /\ call'[t] = None
        /\ call[t].watched /\ call[t].op \notin {"create", "splice"}
        /\ call[t].ret >= IF call[t].op = "write" THEN 1 ELSE 0)
       => Len(rb') > Len(rb) \/ ~RingHasRoom(rb)]_vars

\* A monitored key names a directory that exists, until the return hook of
\* the rmdir that removed it has run: a key never outlives its directory to
\* be matched by another one that reuses the inode number.
LiveKeys ==
  \A k \in InodeMap : Linked(k) \/ \E t \in Thread : Returned(t, {"rmdir"}) /\ call[t].obj = k

\* Nothing outside the included trees is monitored: each monitored directory
\* is an included root or sits in a monitored directory.
MonitoredUnderInclude ==
  \A k \in InodeMap \ Include : Linked(k) => parent[k] \in InodeMap

\* counter_map counts every unlink and rmdir once on entry and once on
\* return, from all threads, so its parity is that of the calls in progress.
CounterCountsCalls ==
  counter % 2 = Cardinality({t \in Thread : call[t] # None /\ call[t].op \in {"unlink", "rmdir"}}) % 2

\* A RENAME_C for a directory moved between directories tells where the
\* monitoring stands: the directory is monitored from then on exactly if its
\* new parent is.  The return hook decides with flags read at the entry.
RenameTracksMonitoring ==
  [][\A t \in Thread :
       (/\ Returned(t, {"rename"}) /\ call'[t] = None
        /\ call[t].obj \in Dir /\ call[t].dir # call[t].newdir
        /\ Len(rb') = Len(rb) + 2 /\ rb'[Len(rb')].type = "RENAME_C")
       => (call[t].obj \in InodeMap' <=> call[t].newdir \in InodeMap)]_vars

\* A rename never changes the monitoring of a directory behind the back of user
\* space: a key enters or leaves InodeMap only together with the event that
\* tells of the directory's new or old place, however little room rb has.
RenameChangesAreReported ==
  [][\A t \in Thread :
       (Returned(t, {"rename"}) /\ call'[t] = None /\ InodeMap' # InodeMap)
       => \E i \in Len(rb) + 1 .. Len(rb') :
            \/ /\ rb'[i] = Ev("RENAME_D", <<call[t].dir, call[t].obj>>)
               /\ InodeMap' = InodeMap \ {call[t].obj}
            \/ /\ rb'[i] = Ev("RENAME_C", <<call[t].newdir, call[t].obj>>)
               /\ InodeMap' = InodeMap \cup {call[t].obj}]_vars

-----------------------------------------------------------------------------
(* What the sources say of the hooks and they do not always do.            *)

\* "read the saved data at fentry" (delete.bpf.c:78, 189): the context a
\* return hook of the removals finds was saved by the entry hook of that call.
SavedAtEntry ==
  \A t \in Thread : Returned(t, {"unlink", "rmdir"}) /\ SavedCtx(t) # None =>
    SavedCtx(t).filepath = <<call[t].dir, call[t].obj>>

\* "Include directory (recursive)" (configformat.rst:47): while no call is in
\* progress every directory under an included one is monitored.
IncludeIsRecursive ==
  (\A t \in Thread : call[t] = None) => Covered(parent) \subseteq InodeMap

\* "Add dir if entering monitored area" (rename.bpf.c:145): a directory moved
\* from an unmonitored directory into a monitored one is monitored when the
\* rename returns, if the ring buffer has room for its two events.
EnteringIsAdded ==
  [][\A t \in Thread :
       (/\ Returned(t, {"rename"}) /\ call'[t] = None /\ call[t].ret = 0
        /\ call[t].obj \in Dir /\ call[t].dir \notin InodeMap /\ call[t].newdir \in InodeMap
        /\ RingMax - Len(rb) >= 2)
       => call[t].obj \in InodeMap']_vars

=============================================================================
