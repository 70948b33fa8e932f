-------------------------------- MODULE Policy --------------------------------
(***************************************************************************)
(* The policy file of the monitor, as fim/src/user/parser.cpp reads it: a  *)
(* line becomes a token of a command and an argument, the tokens are       *)
(* validated, and the rules of each kind are collected.                    *)
(*                                                                         *)
(* A text is a sequence of strings that no operation here takes apart:     *)
(* "/", ":", ".", "=", "#", " ", or a run of other characters.  A line     *)
(* fits the buffer of fgets and has lost its line end.                     *)
(***************************************************************************)
EXTENDS Naturals, Sequences, SequencesExt

CONSTANT BadRegex   (* the arguments std::regex does not accept *)

Commands == {<<"D">>, <<"E">>, <<"EE">>, <<"ES">>, <<"IF">>, <<"EP">>, <<"P">>,
             <<"API_URL">>, <<"API_HEADER">>}

\* The text before the first delim and the text after it, without delim.
\* Mutant: the last delim splits.
split_once_Last(str, delim) ==
  LET pos == SelectLastInSeq(str, LAMBDA x : x = delim) IN
  IF pos = 0 THEN <<str, <<>>>> ELSE <<SubSeq(str, 1, pos - 1), SubSeq(str, pos + 1, Len(str))>>
split_once(str, delim) ==
  LET pos == SelectInSeq(str, LAMBDA x : x = delim) IN
  IF pos = 0 THEN <<str, <<>>>> ELSE <<SubSeq(str, 1, pos - 1), SubSeq(str, pos + 1, Len(str))>>

starts_with(str, x) == str # <<>> /\ str[1] = x

\* The elements of s that are not in D, in their order.  The test is a set
\* and not an operator, as with SelectSeq, so that it can be reasoned about.
Without(s, D) ==
  LET kept[i \in 0 .. Len(s)] ==
        IF i = 0 THEN <<>>
        ELSE IF s[i] \in D THEN kept[i - 1] ELSE Append(kept[i - 1], s[i])
  IN  kept[Len(s)]

\* Every blank goes, those inside the text too.
WithoutBlanks(str) == Without(str, {" "})

Token(line) ==
  LET parts == split_once(line, ":") IN
  [command |-> WithoutBlanks(parts[1]), argument |-> WithoutBlanks(parts[2])]

\* Empty lines and comments give no token.
Skipped(line) == line = <<>> \/ starts_with(line, "#")

NoToken == <<>>

tokenize(lines) ==
  Without([i \in DOMAIN lines |-> IF Skipped(lines[i]) THEN NoToken ELSE Token(lines[i])], {NoToken})

syntaxValidation(tokens) == \A i \in DOMAIN tokens : tokens[i].command \in Commands

Acceptable(tk) ==
  CASE tk.command \in {<<"D">>, <<"E">>, <<"IF">>} -> starts_with(tk.argument, "/")
    [] tk.command = <<"EE">> -> ~starts_with(tk.argument, ".")
    [] tk.command = <<"API_HEADER">> ->
         \A i \in 1 .. 2 : split_once(tk.argument, "=")[i] # <<>>
    [] tk.command = <<"API_URL">> -> tk.argument # <<>>
    [] OTHER -> TRUE

semanticValidation(tokens) == \A i \in DOMAIN tokens : Acceptable(tokens[i])

\* The arguments of all tokens with this command, in their order.
Arguments(tokens, command) ==
  LET chosen == Without(tokens, {tk \in ToSet(tokens) : tk.command # command})
  IN  [i \in DOMAIN chosen |-> chosen[i].argument]

(* What fill_exclusion_rules collects.  The constructor of std::regex       *)
(* throws on a pattern it does not accept, and nothing catches that.        *)

exclude_dir(tokens)       == ToSet(Arguments(tokens, <<"E">>))
exclude_extension(tokens) == ToSet(Arguments(tokens, <<"EE">>))
exclude_suffix(tokens)    == ToSet(Arguments(tokens, <<"ES">>))
exclude_prefix(tokens)    == ToSet(Arguments(tokens, <<"EP">>))
exclude_pattern(tokens)   == ToSet(Arguments(tokens, <<"P">>))

RegexThrows(tokens) == exclude_pattern(tokens) \cap BadRegex # {}

api_url(tokens) ==
  LET urls == Arguments(tokens, <<"API_URL">>) IN IF urls = <<>> THEN <<>> ELSE Last(urls)

api_header(tokens) ==
  LET headers == Arguments(tokens, <<"API_HEADER">>)
  IN  [i \in DOMAIN headers |-> split_once(headers[i], "=")]

=============================================================================
