--------------------------------- MODULE Setup ---------------------------------
(***************************************************************************)
(* The start of the daemon, from the policy file to the running monitor    *)
(* (parser.cpp, main.cpp:58-108), beside other processes that make and     *)
(* remove directories.  The parser reads the policy and walks the trees of *)
(* the D rules with a recursive_directory_iterator; then the hooks are     *)
(* attached and the keys found are written to InodeMap one by one.         *)
(*                                                                         *)
(* The file system, the directory iterator and libbpf are not part of the  *)
(* repository; they are modelled from what the code relies on.  Symbolic   *)
(* links, mount points and missing permissions are left out.               *)
(***************************************************************************)
EXTENDS Policy, FiniteSets

CONSTANTS
  Name,         (* names of directory entries                             *)
  Depth,        (* bound: directories are nested this deep                *)
  Dir, File,    (* KEYs (inode, device) of directories and of files       *)
  None,         (* no inode                                               *)
  Tree,         (* the file systems the daemon may start on               *)
  Line,         (* the lines of the policies                              *)
  RuleOf(_),    (* the rule a line is written for, None if for none       *)
  PolicyFile,   (* the policies the daemon may start with                 *)
  InodeMapMax,  (* INODE_MAP_MAX_ENTRIES                                  *)
  MaxChanges    (* bound: directories made or removed meanwhile           *)

Inode == Dir \cup File
Place == UNION {[1 .. n -> Name] : n \in 0 .. Depth}
Text  == Seq(STRING)

ASSUME SetupAssumption ==
  /\ Dir \cap File = {} /\ None \notin Inode
  /\ Depth \in Nat /\ InodeMapMax \in Nat /\ MaxChanges \in Nat
  /\ Tree \subseteq [Place -> Inode \cup {None}]
  /\ Name \cup {"/"} \subseteq STRING /\ "/" \notin Name
  /\ Line \subseteq Text /\ PolicyFile \subseteq Seq(Line)

\* Whatever has a place is in a directory, and a directory has one place.
WellFormed(t) ==
  /\ \A p \in Place \ {<<>>} : t[p] # None => t[Front(p)] \in Dir
  /\ \A p, q \in Place : t[p] \in Dir /\ t[p] = t[q] => p = q

ASSUME TreeAssumption == \A t \in Tree : WellFormed(t)

\* A rule as the format has it: blanks may occur inside the argument only.
Rule == {r \in [command : Text, argument : Text] :
           /\ {":", " "} \cap ToSet(r.command) = {}
           /\ ~starts_with(r.argument, " ")}

\* Each line that is not skipped is written for a rule: its command, a colon,
\* a blank or none, and its argument (configformat.rst:12-19, 29).
ASSUME LineAssumption ==
  \A line \in Line :
    IF Skipped(line) THEN RuleOf(line) = None
    ELSE /\ RuleOf(line) # None /\ RuleOf(line) \in Rule
         /\ \E gap \in {<<>>, <<" ">>} :
              line = RuleOf(line).command \o <<":">> \o (gap \o RuleOf(line).argument)

VARIABLES
  pc,           (* where the main thread is                               *)
  policy,       (* the lines of config.txt                                *)
  tokens,
  rule,         (* the index of the token parseRule works on              *)
  pending,      (* the directory the iterator is about to open, <<>> if none *)
  stack,        (* the directories the iterator has open, innermost last  *)
  include_dir,  (* the keys found                                         *)
  attached,     (* the hooks are attached                                 *)
  loaded,       (* keys of include_dir written to InodeMap                *)
  InodeMap,
  fs,           (* the inode at each place, None if there is none         *)
  old,          (* history: the directories that have stayed from the start *)
  changes       (* directories made or removed so far                     *)

parser == <<policy, tokens, rule, pending, stack, include_dir>>
kernel == <<attached, loaded, InodeMap>>
world  == <<fs, old, changes>>
vars   == <<pc, parser, kernel, world>>

Running == {"compile", "rules", "scan", "open", "attach", "load", "init"}
Ended   == {"started", "failed", "aborted"}

\* A directory the iterator has open: how it was reached, its inode, its
\* entries when it was opened, and the names the iterator has returned.
Frame == [path : Text, dir : Dir, listing : [Name -> Inode \cup {None}], seen : SUBSET Name]

TypeOK ==
  /\ pc \in Running \cup Ended
  /\ policy \in Seq(Line)
  /\ tokens \in Seq([command : Text, argument : Text])
  /\ rule \in Nat \ {0}
  /\ pending \in Text
  /\ stack \in Seq(Frame)
  /\ include_dir \in Seq(Inode)
  /\ attached \in BOOLEAN
  /\ loaded \in 0 .. Len(include_dir)
  /\ InodeMap \in SUBSET Inode /\ Cardinality(InodeMap) <= InodeMapMax
  /\ fs \in [Place -> Inode \cup {None}]
  /\ old \in SUBSET Place
  /\ changes \in 0 .. MaxChanges

Goto(label) == pc' = label

-----------------------------------------------------------------------------
(* Paths and the directory iterator.                                       *)

\* The place a path names.
Resolve(path) == Without(path, {"/"})

\* What stat finds at a path.
stat(path) == LET p == Resolve(path) IN IF p \in Place THEN fs[p] ELSE None

\* entry.path() of the entry n of the directory reached by path.
EntryPath(path, n) == (IF Last(path) = "/" THEN path ELSE Append(path, "/")) \o <<n>>

Entries(p) == [n \in Name |-> IF Append(p, n) \in Place THEN fs[Append(p, n)] ELSE None]

\* What an open directory holds now, nothing once it has been removed.
Holds(f, n) == IF stat(f.path) = f.dir THEN Entries(Resolve(f.path))[n] ELSE None

\* readdir returns every entry that stays, and may return or leave out one that
\* was made or removed since the directory was opened.
Offered(f) == {n \in Name \ f.seen : f.listing[n] # None \/ Holds(f, n) # None}
Owed(f)    == {n \in Name \ f.seen : f.listing[n] # None /\ Holds(f, n) = f.listing[n]}

-----------------------------------------------------------------------------
(* The parser.                                                             *)

\* tokenize, the validations and fill_exclusion_rules.
compile ==
  /\ pc = "compile"
  /\ tokens' = tokenize(policy)
  /\ Goto(IF tokens' = <<>> \/ ~syntaxValidation(tokens') \/ ~semanticValidation(tokens')
          THEN "failed"
          ELSE IF RegexThrows(tokens') THEN "aborted" ELSE "rules")
  /\ UNCHANGED <<policy, rule, pending, stack, include_dir, kernel, world>>

\* Mutant: an E rule holds for the rules after it only.
Excluded_InOrder(path) == \E i \in 1 .. rule : tokens[i] = [command |-> <<"E">>, argument |-> path]
Excluded(path) == path \in exclude_dir(tokens)

\* What parseRule takes at once: the iterator does not return the directory it
\* starts from.
\* Mutant: the scan is left to find the directory of a D rule.
Taken_FilesOnly(tk, key) == IF tk.command = <<"D">> /\ key \in Dir THEN <<>> ELSE <<key>>
Taken(tk, key) == <<key>>

NextRule == rule' = rule + 1 /\ UNCHANGED <<pending, stack>>

\* parseRule up to the loop.
parseRule ==
  /\ pc = "rules" /\ rule <= Len(tokens)
  /\ LET tk  == tokens[rule]
         key == stat(tk.argument)
     IN  \/ /\ tk.command \notin {<<"D">>, <<"IF">>}
            /\ NextRule /\ UNCHANGED <<pc, include_dir>>
         \/ /\ tk.command \in {<<"D">>, <<"IF">>} /\ key = None
            /\ Goto("failed") /\ UNCHANGED <<rule, pending, stack, include_dir>>
         \/ /\ tk.command \in {<<"D">>, <<"IF">>} /\ key # None /\ Excluded(tk.argument)
            /\ NextRule /\ UNCHANGED <<pc, include_dir>>
         \/ /\ tk.command \in {<<"D">>, <<"IF">>} /\ key # None /\ ~Excluded(tk.argument)
            /\ include_dir' = include_dir \o Taken(tk, key)
            /\ IF tk.command = <<"D">> /\ key \in Dir
               THEN Goto("scan") /\ pending' = tk.argument /\ UNCHANGED <<rule, stack>>
               ELSE NextRule /\ UNCHANGED pc
  /\ UNCHANGED <<policy, tokens, kernel, world>>

\* The iterator opens a directory.  It throws if the directory is gone, and
\* nothing catches that.
scan_open ==
  /\ pc = "scan" /\ pending # <<>>
  /\ IF stat(pending) \in Dir
     THEN /\ stack' = Append(stack, [path |-> pending, dir |-> stat(pending),
                                     listing |-> Entries(Resolve(pending)), seen |-> {}])
          /\ pending' = <<>>
          /\ UNCHANGED pc
     ELSE Goto("aborted") /\ UNCHANGED <<stack, pending>>
  /\ UNCHANGED <<policy, tokens, rule, include_dir, kernel, world>>

\* One turn of the loop.  Files are passed over, an excluded directory is not
\* descended into, one that is gone is not taken, yet descended into.
\* Mutant: one that is gone is taken, with the inode stat has not found.
Turn_Unfound(path, key) ==
  IF key \in File \/ Excluded(path) THEN UNCHANGED <<pending, include_dir>>
  ELSE pending' = path /\ include_dir' = Append(include_dir, key)
Turn(path, key) ==
  IF key \in File \/ Excluded(path) THEN UNCHANGED <<pending, include_dir>>
  ELSE /\ pending' = path
       /\ include_dir' = IF key = None THEN include_dir ELSE Append(include_dir, key)

\* The iterator has returned the entry n of the innermost directory.
\* Mutant: it returns the same entry again.
Advance_Stuck(n) == UNCHANGED stack
Advance(n) == stack' = [stack EXCEPT ![Len(stack)].seen = @ \cup {n}]

scan_entry ==
  /\ pc = "scan" /\ pending = <<>>
  /\ \E n \in Offered(Last(stack)) :
       LET path == EntryPath(Last(stack).path, n) IN
       Advance(n) /\ Turn(path, stat(path))
  /\ UNCHANGED <<pc, policy, tokens, rule, kernel, world>>

\* The innermost directory is done; parseRule returns after the outermost.
scan_close ==
  /\ pc = "scan" /\ pending = <<>> /\ Owed(Last(stack)) = {}
  /\ stack' = Front(stack)
  /\ IF Len(stack) = 1 THEN Goto("rules") /\ rule' = rule + 1 ELSE UNCHANGED <<pc, rule>>
  /\ UNCHANGED <<policy, tokens, pending, include_dir, kernel, world>>

compiled ==
  /\ pc = "rules" /\ rule > Len(tokens)
  /\ Goto("open")
  /\ UNCHANGED <<parser, kernel, world>>

-----------------------------------------------------------------------------
(* The rest of main.                                                       *)

open_and_load ==
  /\ pc = "open"
  /\ Goto("attach") \/ Goto("failed")
  /\ UNCHANGED <<parser, kernel, world>>

\* On an error the skeleton is destroyed, which detaches what was attached.
attach ==
  /\ pc = "attach"
  /\ \/ Goto("load") /\ attached' = TRUE
     \/ Goto("failed") /\ UNCHANGED attached
  /\ UNCHANGED <<parser, loaded, InodeMap, world>>

\* A new key does not fit in a full map.
HasRoom(k) == k \in InodeMap \/ Cardinality(InodeMap) < InodeMapMax

\* bpf_map_update_batch writes key after key and stops at the first that does
\* not fit; main ignores the result.
load_Inode_map ==
  /\ pc = "load"
  /\ IF loaded < Len(include_dir) /\ HasRoom(include_dir[loaded + 1])
     THEN /\ InodeMap' = InodeMap \cup {include_dir[loaded + 1]}
          /\ loaded' = loaded + 1
          /\ UNCHANGED pc
     ELSE Goto("init") /\ UNCHANGED <<InodeMap, loaded>>
  /\ UNCHANGED <<parser, attached, world>>

\* initProcessEvent, initFilter and Logger::init, which cannot fail.
init ==
  /\ pc = "init"
  /\ Goto("started")
  /\ UNCHANGED <<parser, kernel, world>>

-----------------------------------------------------------------------------
(* Other processes, with the hooks of mkdir and rmdir once they are        *)
(* attached.                                                               *)

MakeDir(p) ==
  /\ p # <<>> /\ fs[p] = None /\ fs[Front(p)] \in Dir
  /\ \E k \in Dir \ {fs[q] : q \in Place} :
       /\ fs' = [fs EXCEPT ![p] = k]
       /\ InodeMap' = IF attached /\ fs[Front(p)] \in InodeMap /\ HasRoom(k)
                      THEN InodeMap \cup {k} ELSE InodeMap
  /\ UNCHANGED old

RemoveDir(p) ==
  /\ p # <<>> /\ fs[p] \in Dir
  /\ \A n \in Name : Entries(p)[n] = None
  /\ fs' = [fs EXCEPT ![p] = None]
  /\ InodeMap' = IF attached THEN InodeMap \ {fs[p]} ELSE InodeMap
  /\ old' = old \ {p}

Others ==
  /\ pc \in Running /\ changes < MaxChanges
  /\ \E p \in Place : MakeDir(p) \/ RemoveDir(p)
  /\ changes' = changes + 1
  /\ UNCHANGED <<pc, parser, attached, loaded>>

-----------------------------------------------------------------------------

Init ==
  /\ pc = "compile"
  /\ policy \in PolicyFile
  /\ tokens = <<>> /\ rule = 1 /\ pending = <<>> /\ stack = <<>> /\ include_dir = <<>>
  /\ attached = FALSE /\ loaded = 0 /\ InodeMap = {}
  /\ fs \in Tree
  /\ old = {p \in Place : fs[p] \in Dir}
  /\ changes = 0

main ==
  \/ compile \/ parseRule \/ scan_open \/ scan_entry \/ scan_close \/ compiled
  \/ open_and_load \/ attach \/ load_Inode_map \/ init

Next == main \/ Others

Spec == Init /\ [][Next]_vars

\* The main thread gets to run.  Nothing is asked of other processes.
FairSpec == Spec /\ WF_vars(main)

-----------------------------------------------------------------------------
(* Properties.                                                             *)

\* A place as a path is written without superfluous slashes.
Written(p) ==
  IF p = <<>> THEN <<"/">>
  ELSE [i \in 1 .. 2 * Len(p) |-> IF i % 2 = 1 THEN "/" ELSE p[i \div 2]]

Plain(path) == path = Written(Resolve(path))

\* The rule tk reaches the place p past the exclusions at the places E: none of
\* them is on the way from the directory of the rule down to p.  One above that
\* directory does not count.
Reaches(tk, p, E) ==
  LET base == Resolve(tk.argument) IN
  \/ tk.command = <<"IF">> /\ p = base /\ p \notin E
  \/ /\ tk.command = <<"D">> /\ IsPrefix(base, p)
     /\ \A n \in Len(base) .. Len(p) : SubSeq(p, 1, n) \notin E

\* A directory that was there before the daemon and stayed, and that the rules
\* reach, is monitored once the daemon has started: whatever came and went
\* around it during the scan and the loading, unless InodeMap was too small.
CoveredIsMonitored ==
  pc = "started" /\ loaded = Len(include_dir) =>
    \A p \in old, i \in DOMAIN tokens :
      Reaches(tokens[i], p, {Resolve(e) : e \in exclude_dir(tokens)}) => fs[p] \in InodeMap

\* The scan takes only what its rule reaches: what is in the tree of the rule,
\* and of that nothing at or below an excluded directory of the tree, wherever
\* the E rule stands in the policy and whatever is moved under the iterator's
\* feet, for paths written without superfluous slashes.  Not claimed is that
\* an exclusion above the rule's own directory counts, as configformat.rst:50 can
\* be read: the code follows such a rule and takes what is below it.
OnlyReachedIsTaken ==
  [][Len(include_dir') > Len(include_dir) /\ Plain(tokens[rule].argument) =>
       \E p \in Place :
         /\ fs[p] = Last(include_dir')
         /\ Reaches(tokens[rule], p, {Resolve(e) : e \in {x \in exclude_dir(tokens) : Plain(x)}})]_vars

HasBlank(text) == " " \in ToSet(text)

\* A rule the daemon cannot work with: an unknown command (configformat.rst:98),
\* a path that is not absolute (28, 99), no url, a header without a name or a
\* value (35, 71), an extension that begins with its dot (55), a pattern that
\* is no regular expression.
Unusable(r) ==
  LET arg == r.argument IN
  \/ r.command \notin Commands
  \/ /\ ~HasBlank(arg)
     /\ \/ r.command \in {<<"D">>, <<"E">>, <<"IF">>} /\ ~starts_with(arg, "/")
        \/ r.command = <<"API_URL">> /\ arg = <<>>
        \/ r.command = <<"API_HEADER">> /\ \A k \in 2 .. Len(arg) - 1 : arg[k] # "="
        \/ r.command = <<"EE">> /\ starts_with(arg, ".")
        \/ r.command = <<"P">> /\ arg \in BadRegex

\* The policy is read rule by rule as it is written, colons and equals signs
\* inside an argument included, and no hook is attached for a policy with a
\* rule the daemon cannot work with, whichever of its passes meets it.  Not
\* claimed is what the parser does not do: an argument with a blank in it loses
\* the blank, as "Bearer abc123" does (configformat.rst:75), and duplicate rules
\* (101) and extensions with a dot further on (55) are accepted.
PolicyIsUnderstood ==
  LET rules == Without([i \in DOMAIN policy |-> RuleOf(policy[i])], {None}) IN
  /\ pc # "compile" =>
       /\ Len(tokens) = Len(rules)
       /\ \A i \in DOMAIN rules :
            /\ tokens[i].command = rules[i].command
            /\ HasBlank(rules[i].argument) \/ tokens[i].argument = rules[i].argument
  /\ attached => \A i \in DOMAIN rules : ~Unusable(rules[i])

\* The start always comes to an end: the monitor runs, or the daemon has given
\* up, though directories are made under the iterator while it walks.
SetupEnds == <>(pc \in Ended)

-----------------------------------------------------------------------------
(* What the sources say of the start and it does not always do.            *)

\* "Force include file or directory. Overrides all exclusions."
\* (configformat.rst:53): a directory an IF rule names is monitored.
ForcedIsMonitored ==
  pc = "started" /\ loaded = Len(include_dir) =>
    \A p \in old, i \in DOMAIN tokens :
      tokens[i].command = <<"IF">> /\ p = Resolve(tokens[i].argument) => fs[p] \in InodeMap

=============================================================================
