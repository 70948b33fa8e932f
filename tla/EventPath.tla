------------------------------- MODULE EventPath -------------------------------
(***************************************************************************)
(* The contents of an event on their way from the hooks to the server:     *)
(* the path and the size the entry hook of a call puts into the scratch    *)
(* context of its CPU (heap_map), the context saved in LruMap, the record  *)
(* of the return hook in the ring buffer, and in user space the filter,    *)
(* the payload and the logger.                                             *)
(*                                                                         *)
(* A program on an LSM hook or a trampoline may be preempted where the     *)
(* kernel is preemptible, and another thread then runs its hooks on the    *)
(* same CPU; a kprobe program may not.  Every file lies in a monitored     *)
(* directory and LruMap holds a context for each thread: which calls are   *)
(* watched, and evictions, are the matter of KernelHooks; the queue        *)
(* between the ring buffer and the filter is that of Pipeline.             *)
(***************************************************************************)
EXTENDS Policy, Integers

CONSTANTS
  Thread, CPU, File,
  PathOf,       (* the names from a file up to its root, each a text      *)
  PER_LEVEL,    (* bytes of a slot of a path                              *)
  MAX_DEPTH,    (* slots of a path                                        *)
  Preemptible,  (* the kernel preempts BPF programs on trampolines        *)
  RingMax,      (* records that fit in rb                                 *)
  Junk,         (* the file_size an earlier record left in the memory     *)
  None,         (* no call, no context                                    *)
  TokenLists,   (* the policies the daemon may run with                   *)
  MaxSize,      (* bound: bytes in a file                                 *)
  MaxCalls      (* bound: calls in one behaviour                          *)

Text == Seq(STRING)
Name == Text \ {<<>>}
Op   == {"create", "unlink", "write", "writev"}

\* A path as the hooks lay it out: slots of names, the last name first.
Layout == Seq(Name)
Ctx    == [filepath : Layout, before_size : Int]
Call   == [op : Op, file : File, before : Int, ret : Int, vlen : Nat]

EVENT == [change_type : {"CREATE", "DELETE", "WRITE", "WRITE_INTENT"}, filepath : Layout,
          before_size : Int, file_size : Int, bytes_written : Int]

\* of and clean are history: the call the record is about, and whether its
\* entry hook had the scratch context to itself.
Record == [event : EVENT, by : Thread, busy : BOOLEAN, of : Call, clean : BOOLEAN]

Payload == [file_path : Layout,
            change_type : {<<"CREATE">>, <<"DELETE">>, <<"WRITE_INTENT">>} \cup ({"MODIFY"} \X Int),
            before_size : Int, after_size : Int]
Request == [payload : Payload, headers : SUBSET (Text \X Text), of : Call, clean : BOOLEAN]

\* A slot has room for a character and the terminating zero.
ASSUME EventPathAssumption ==
  /\ PathOf \in [File -> Seq(Name) \ {<<>>}]
  /\ PER_LEVEL \in Nat \ {0, 1} /\ MAX_DEPTH \in Nat \ {0} /\ RingMax \in Nat \ {0}
  /\ Preemptible \in BOOLEAN /\ Junk \subseteq Int
  /\ TokenLists \subseteq Seq([command : Text, argument : Text])
  /\ None \notin Request
  /\ MaxSize \in Nat /\ MaxCalls \in Nat

VARIABLES
  at,          (* where each thread is: between calls, in a hook, in a call *)
  call,        (* the call each thread is in, None if in none             *)
  cpu,         (* the CPU a thread in a hook runs on, else None           *)
  size,        (* the size of each file                                   *)
  heap,        (* heap_map: the scratch context of each CPU               *)
  LruMap,      (* the context saved for each thread, None if absent       *)
  rb,          (* the ring buffer; a record is busy until it is submitted *)
  tokens,      (* the policy                                              *)
  request,     (* what the logger sent at the consumer's last turn, None  *)
               (* if it sent nothing                                      *)
  disturbed,   (* history: threads whose scratch context another hook has *)
               (* overwritten before it was saved                         *)
  calls        (* calls begun so far                                      *)

vars == <<at, call, cpu, size, heap, LruMap, rb, tokens, request, disturbed, calls>>

Blank == [filepath |-> <<>>, before_size |-> 0]

TypeOK ==
  /\ at \in [Thread -> {"idle", "copy", "save", "submit", "call", "return"}]
  /\ call \in [Thread -> Call \cup {None}]
  /\ cpu \in [Thread -> CPU \cup {None}]
  /\ size \in [File -> 0 .. MaxSize]
  /\ heap \in [CPU -> Ctx]
  /\ LruMap \in [Thread -> Ctx \cup {None}]
  /\ rb \in Seq(Record) /\ Len(rb) <= RingMax
  /\ tokens \in TokenLists /\ request \in Request \cup {None}
  /\ disturbed \in SUBSET Thread
  /\ calls \in 0 .. MaxCalls

-----------------------------------------------------------------------------
(* Paths.                                                                  *)

\* bpf_probe_read_kernel_str leaves room for the terminating zero.
Cut(name) == SubSeq(name, 1, IF Len(name) < PER_LEVEL THEN Len(name) ELSE PER_LEVEL - 1)

construct_path ==
  [f \in File |-> [i \in 1 .. (IF Len(PathOf[f]) < MAX_DEPTH THEN Len(PathOf[f]) ELSE MAX_DEPTH) |->
                    Cut(PathOf[f][i])]]

pathconstruction(event) == Without(Reverse(event.filepath), {<<>>})

-----------------------------------------------------------------------------
(* The hooks.                                                              *)

\* The test of what bpf_ringbuf_reserve returns.
\* Mutant: it is left out.
RingHasRoom_Untested == TRUE
RingHasRoom == Len(rb) < RingMax

Ev(type, path, before, after, bytes) ==
  [change_type |-> type, filepath |-> path, before_size |-> before, file_size |-> after,
   bytes_written |-> bytes]

\* bpf_ringbuf_reserve for thread t in the call c: nothing on a full ring.
Reserve(t, c, event, busy) ==
  rb' = IF RingHasRoom
        THEN Append(rb, [event |-> event, by |-> t, busy |-> busy, of |-> c,
                         clean |-> event.change_type \in {"CREATE", "WRITE_INTENT"} \/ t \notin disturbed])
        ELSE rb

InHook(t) == at[t] \in {"copy", "save", "submit"}

\* Thread t can run on CPU c: no hook of another thread is preempted there,
\* unless the kernel does preempt hooks.
CanRun(t, c) == Preemptible \/ \A u \in Thread \ {t} : InHook(u) => cpu[u] # c

\* The element of heap_map a hook on CPU c works in.
\* Mutant: one element for all CPUs, as in an array that is not per CPU.
Scratch_Shared(c) == CHOOSE d \in CPU : TRUE
Scratch(c) == c

\* The hook of thread t on CPU c writes ctx to the scratch context.
Fill(t, c, ctx) ==
  /\ heap' = [heap EXCEPT ![Scratch(c)] = ctx]
  /\ disturbed' = (disturbed \ {u \in {t} : at[u] = "idle"})
                  \cup {u \in Thread \ {t} : at[u] \in {"copy", "save"} /\ cpu[u] = c}

\* A call on f that begins now, with two segments if it is a writev.
NewCall(op, f) == [op |-> op, file |-> f, before |-> size[f], ret |-> 0, vlen |-> 2]

\* Thread t enters a call with its hook on CPU c.
Begin(t, c) ==
  /\ at[t] = "idle" /\ calls < MaxCalls /\ CanRun(t, c)
  /\ calls' = calls + 1
  /\ UNCHANGED <<size, tokens, request>>

\* lsm/inode_create: emit_event of a file that has no inode yet.  The call
\* has no return hook.
lsm_inode_create(t, f, c) ==
  /\ Begin(t, c)
  /\ Reserve(t, NewCall("create", f), Ev("CREATE", construct_path[f], 0, 0, 0), FALSE)
  /\ UNCHANGED <<at, call, cpu, heap, LruMap, disturbed>>

\* kprobe/vfs_unlink: fill the scratch context and save it, without preemption.
fentry_vfs_unlink(t, f, c) ==
  LET ctx == [filepath |-> construct_path[f], before_size |-> size[f]] IN
  /\ Begin(t, c)
  /\ call' = [call EXCEPT ![t] = NewCall("unlink", f)]
  /\ Fill(t, c, ctx)
  /\ LruMap' = [LruMap EXCEPT ![t] = ctx]
  /\ at' = [at EXCEPT ![t] = "call"]
  /\ UNCHANGED <<cpu, rb>>

\* lsm/file_permission, in steps.  The record is reserved and filled, the
\* scratch context cleared and given the size; without room the hook ends.
fim_file_permission(t, op, f, c) ==
  /\ op \in {"write", "writev"}
  /\ Begin(t, c)
  /\ call' = [call EXCEPT ![t] = NewCall(op, f)]
  /\ Reserve(t, NewCall(op, f), Ev("WRITE_INTENT", construct_path[f], size[f], -1, 0), TRUE)
  /\ IF RingHasRoom
     THEN /\ Fill(t, c, [Blank EXCEPT !.before_size = size[f]])
          /\ at' = [at EXCEPT ![t] = "copy"]
          /\ cpu' = [cpu EXCEPT ![t] = c]
     ELSE /\ at' = [at EXCEPT ![t] = "call"]
          /\ UNCHANGED <<cpu, heap, disturbed>>
  /\ UNCHANGED LruMap

\* The path and its length are copied from the record.
copy_path(t) ==
  /\ at[t] = "copy" /\ CanRun(t, cpu[t])
  /\ Fill(t, cpu[t], [heap[Scratch(cpu[t])] EXCEPT !.filepath = construct_path[call[t].file]])
  /\ at' = [at EXCEPT ![t] = "save"]
  /\ UNCHANGED <<call, cpu, size, LruMap, rb, tokens, request, calls>>

save_ctx(t) ==
  /\ at[t] = "save" /\ CanRun(t, cpu[t])
  /\ LruMap' = [LruMap EXCEPT ![t] = heap[Scratch(cpu[t])]]
  /\ at' = [at EXCEPT ![t] = "submit"]
  /\ UNCHANGED <<call, cpu, size, heap, rb, tokens, request, disturbed, calls>>

submit_intent(t) ==
  /\ at[t] = "submit" /\ CanRun(t, cpu[t])
  /\ rb' = [i \in DOMAIN rb |-> IF rb[i].by = t THEN [rb[i] EXCEPT !.busy = FALSE] ELSE rb[i]]
  /\ at' = [at EXCEPT ![t] = "call"]
  /\ cpu' = [cpu EXCEPT ![t] = None]
  /\ UNCHANGED <<call, size, heap, LruMap, tokens, request, disturbed, calls>>

\* The call fails, writes nothing, or takes effect.
Effect(t) ==
  /\ at[t] = "call"
  /\ \E r \in -1 .. 1 :
       /\ call[t].op = "unlink" => r < 1
       /\ r = 1 => size[call[t].file] < MaxSize
       /\ call' = [call EXCEPT ![t].ret = r]
       /\ size' = [size EXCEPT ![call[t].file] = IF r = 1 THEN @ + 1 ELSE @]
  /\ at' = [at EXCEPT ![t] = "return"]
  /\ UNCHANGED <<cpu, heap, LruMap, rb, tokens, request, disturbed, calls>>

\* The return of a call: the hook finds a context, submits one of the events
\* if the call succeeded, and drops the context.
Return(t, op, success, events) ==
  /\ at[t] = "return" /\ call[t].op = op
  /\ IF LruMap[t] # None /\ success
     THEN \E e \in events : Reserve(t, call[t], e, FALSE)
     ELSE UNCHANGED rb
  /\ LruMap' = [LruMap EXCEPT ![t] = None]
  /\ at' = [at EXCEPT ![t] = "idle"]
  /\ call' = [call EXCEPT ![t] = None]
  /\ UNCHANGED <<cpu, size, heap, tokens, request, disturbed, calls>>

fexit_vfs_unlink(t) ==
  Return(t, "unlink", call[t].ret >= 0,
         {Ev("DELETE", LruMap[t].filepath, LruMap[t].before_size, 0, 0)})

\* file_size is not assigned.
fexit_vfs_write(t) ==
  Return(t, "write", call[t].ret > 0,
         {Ev("WRITE", LruMap[t].filepath, LruMap[t].before_size, j, call[t].ret) : j \in Junk})

\* Mutant: the size before the write is read when the call returns.
fexit_vfs_writev_Late(t) ==
  Return(t, "writev", call[t].ret >= 0,
         {Ev("WRITE", LruMap[t].filepath, size[call[t].file], size[call[t].file], call[t].vlen)})
fexit_vfs_writev(t) ==
  Return(t, "writev", call[t].ret >= 0,
         {Ev("WRITE", LruMap[t].filepath, LruMap[t].before_size, size[call[t].file], call[t].vlen)})

-----------------------------------------------------------------------------
(* User space.                                                             *)

\* The text after the last dot, if there is one and something follows it.
\* Mutant: after the first dot.
Extension_First(filename) ==
  LET pos == SelectInSeq(filename, LAMBDA x : x = ".")
  IN  IF pos = 0 THEN <<>> ELSE SubSeq(filename, pos + 1, Len(filename))
Extension(filename) ==
  LET pos == SelectLastInSeq(filename, LAMBDA x : x = ".")
  IN  IF pos = 0 THEN <<>> ELSE SubSeq(filename, pos + 1, Len(filename))

\* std::regex_search, for patterns that stand for themselves.
regex_search(filename, pattern) ==
  \E i \in 1 .. Len(filename) - Len(pattern) + 1 :
    SubSeq(filename, i, i + Len(pattern) - 1) = pattern

\* The filter sees the first slot, which is the last name of the path.
filterEvent(event) ==
  LET filename == IF event.filepath = <<>> THEN <<>> ELSE event.filepath[1] IN
  \/ Extension(filename) # <<>> /\ Extension(filename) \in exclude_extension(tokens)
  \/ \E suffix \in exclude_suffix(tokens) : IsSuffix(suffix, filename)
  \/ \E prefix \in exclude_prefix(tokens) : IsPrefix(prefix, filename)
  \/ \E pattern \in exclude_pattern(tokens) : regex_search(filename, pattern)

changeType(event) ==
  IF event.change_type = "WRITE" THEN <<"MODIFY", event.bytes_written>> ELSE <<event.change_type>>

Process(event) ==
  [file_path |-> pathconstruction(event), change_type |-> changeType(event),
   before_size |-> event.before_size, after_size |-> event.file_size]

\* Logger::init: the headers stay empty without a url or without headers; of
\* several headers with one name the last one stays.
url == api_url(tokens)
headers ==
  LET given == api_header(tokens) IN
  IF url = <<>> THEN {}
  ELSE {given[i] : i \in {j \in DOMAIN given : \A k \in j + 1 .. Len(given) : given[k][1] # given[j][1]}}

\* Logger::log: one post, to this machine if there is no url.  A post that
\* fails is not repeated, and nothing else changes with it.  The url is one
\* the HTTP library accepts: on a scheme it was not built for it throws.
log(record) ==
  request' = [payload |-> Process(record.event), headers |-> headers,
              of |-> record.of, clean |-> record.clean]

\* The consumer's turn: libbpf stops at a record that has not been submitted.
consumer ==
  /\ rb # <<>> /\ ~Head(rb).busy
  /\ rb' = Tail(rb)
  /\ IF filterEvent(Head(rb).event) THEN request' = None ELSE log(Head(rb))
  /\ UNCHANGED <<at, call, cpu, size, heap, LruMap, tokens, disturbed, calls>>

-----------------------------------------------------------------------------

Init ==
  /\ at = [t \in Thread |-> "idle"]
  /\ call = [t \in Thread |-> None]
  /\ cpu = [t \in Thread |-> None]
  /\ size = [f \in File |-> 0]
  /\ heap = [c \in CPU |-> Blank]
  /\ LruMap = [t \in Thread |-> None]
  /\ rb = <<>> /\ request = None
  /\ tokens \in TokenLists
  /\ disturbed = {} /\ calls = 0

Hooks(t) ==
  \/ \E f \in File, c \in CPU :
       \/ lsm_inode_create(t, f, c) \/ fentry_vfs_unlink(t, f, c)
       \/ \E op \in {"write", "writev"} : fim_file_permission(t, op, f, c)
  \/ copy_path(t) \/ save_ctx(t) \/ submit_intent(t)
  \/ fexit_vfs_unlink(t) \/ fexit_vfs_write(t) \/ fexit_vfs_writev(t)

Next == (\E t \in Thread : Hooks(t) \/ Effect(t)) \/ consumer

Spec == Init /\ [][Next]_vars

-----------------------------------------------------------------------------
(* Properties.                                                             *)

\* The context of a call is its own: what the entry hook saves, and what the
\* return hook finds, are the path and the size of the call's file, unless
\* the hook was preempted and another one ran on its CPU meanwhile, which
\* happens only in a preemptible kernel.
CtxIsOwn ==
  /\ \A t \in Thread \ disturbed :
       LruMap[t] # None /\ at[t] # "idle" =>
         LruMap[t] = [filepath |-> construct_path[call[t].file], before_size |-> call[t].before]
  /\ ~Preemptible => disturbed = {}

\* The names of a path fit the slots and its depth fits their number.
Fits(f) == Len(PathOf[f]) <= MAX_DEPTH /\ \A i \in DOMAIN PathOf[f] : Len(PathOf[f][i]) < PER_LEVEL

\* What may be told of the path of f: all of it if it fits, else as many last
\* names as there are slots, each from its beginning.
TrueOf(path, f) ==
  LET true == Reverse(PathOf[f])
      skip == Len(true) - Len(path)
  IN  IF Fits(f) THEN path = true
      ELSE /\ Len(path) = IF Len(true) < MAX_DEPTH THEN Len(true) ELSE MAX_DEPTH
           /\ \A k \in DOMAIN path : IsPrefix(path[k], true[skip + k])

\* What may be told of the change by the call c: the bytes of a write.  Of a
\* writev any number may be told, as the number is not that of its bytes (see
\* BytesAreTrue).
ChangesBy(c) ==
  CASE c.op = "create" -> {<<"CREATE">>}
    [] c.op = "unlink" -> {<<"DELETE">>}
    [] c.op = "write"  -> {<<"WRITE_INTENT">>, <<"MODIFY", c.ret>>}
    [] c.op = "writev" -> {<<"WRITE_INTENT">>} \cup ({"MODIFY"} \X Int)

\* What the server is told is true of the call it is about: the kind of change,
\* the bytes of a write, the size when the call began, and the path from the
\* root; provided the entry hook had the scratch context to itself.  Not
\* claimed: the bytes of a writev, and the size after a write.
PayloadIsTrue ==
  request # None /\ request.clean =>
    /\ request.payload.change_type \in ChangesBy(request.of)
    /\ request.of.op # "create" => request.payload.before_size = request.of.before
    /\ TrueOf(request.payload.file_path, request.of.file)

LastName(record) == PathOf[record.of.file][1]

\* What the filter rules of the policy say of a name.  An IF rule for the file
\* does not come into it.
Excluded(name) ==
  \/ \E ext \in exclude_extension(tokens) :
       ext # <<>> /\ ~Contains(ext, ".") /\ IsSuffix(<<".">> \o ext, name)
  \/ \E s \in exclude_suffix(tokens) : IsSuffix(s, name)
  \/ \E s \in exclude_prefix(tokens) : IsPrefix(s, name)
  \/ \E s \in exclude_pattern(tokens) : regex_search(name, s)

\* An event is held back exactly if the name of its file has an excluded
\* suffix or prefix, matches an excluded pattern, or ends in an excluded
\* extension without a dot of its own, provided the name fits its slot and
\* the entry hook had the scratch context to itself.
FilterFollowsRules ==
  [][consumer /\ Head(rb).clean /\ Len(LastName(Head(rb))) < PER_LEVEL =>
       (request' = None <=> Excluded(LastName(Head(rb))))]_vars

-----------------------------------------------------------------------------
(* What the sources say of the payload and it does not always do.          *)

\* "@vlen Number of bytes written" (modify.bpf.c:121): the number of bytes the
\* server is told a call has written is the number it has written.
BytesAreTrue ==
  request # None /\ request.payload.change_type[1] = "MODIFY" =>
    request.payload.change_type[2] = request.of.ret

=============================================================================
