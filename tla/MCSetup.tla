-------------------------------- MODULE MCSetup --------------------------------
(* Instances of Setup for TLC: two small trees, and policies of one or two    *)
(* lines.                                                                     *)
EXTENDS Setup, TLC

Names  == {"a", "b"}
Levels == 2
DirKeys  == 1 .. 5
FileKeys == {6}

TreePlaces == UNION {[1 .. n -> Names] : n \in 0 .. Levels}

\* The file system with these inodes.
FS(at) == [p \in TreePlaces |-> IF p \in DOMAIN at THEN at[p] ELSE None]

\* /a, /a/b and /b; and /a with two entries, one of them a file.
Trees ==
  {FS(<<>> :> 1 @@ <<"a">> :> 2 @@ <<"a", "b">> :> 3 @@ <<"b">> :> 4),
   FS(<<>> :> 1 @@ <<"a">> :> 2 @@ <<"a", "a">> :> 6 @@ <<"a", "b">> :> 3)}

A  == <<"/", "a">>
AB == <<"/", "a", "/", "b">>

Tk(c, a) == [command |-> <<c>>, argument |-> a]
Includes == {Tk("D", A), Tk("D", <<"/">>), Tk("D", AB), Tk("D", Append(A, "/")), Tk("IF", AB)}
Others2  == {Tk("E", A), Tk("E", AB), Tk("E", Append(AB, "/"))}
Extras   == {Tk("EE", <<"log">>), Tk("P", <<"a">>), Tk("API_URL", <<"http", ":", "/", "/", "h", ":", "1">>),
             Tk("API_HEADER", <<"k", "=", "v", "=">>), Tk("API_HEADER", <<"k", "=", "v", " ", "w">>)}
Wrong    == {Tk("IF", <<"a">>), Tk("EE", <<".", "log">>), Tk("X", A), Tk("P", <<"[">>),
             Tk("API_HEADER", <<"k">>), Tk("API_HEADER", <<"=", "k">>), Tk("API_URL", <<>>)}

\* Lines as they are written, with a blank after the colon or without.
LineOf(tk)  == tk.command \o <<":", " ">> \o tk.argument
Close(tk)   == tk.command \o <<":">> \o tk.argument

Spaced  == Includes \cup Others2 \cup Wrong
Comment == <<"#", "D", ":", "/", "a">>
Lines   == {LineOf(tk) : tk \in Spaced} \cup {Close(tk) : tk \in Extras} \cup {Comment, <<>>}
RuleFor(line) ==
  IF line \in {Comment, <<>>} THEN None
  ELSE CHOOSE tk \in Spaced \cup Extras : line = IF tk \in Spaced THEN LineOf(tk) ELSE Close(tk)

Unaccepted == {<<"[">>}

\* Every pair of a rule that includes and another line, in both orders.
Pairs == {<<x, y>> : x \in {LineOf(tk) : tk \in Includes}, y \in Lines}
Policies == Pairs \cup {<<p[2], p[1]>> : p \in Pairs} \cup {<<Comment>>}

=============================================================================
