------------------------------ MODULE MCEventPath ------------------------------
(* Instances of EventPath for TLC: a slot holds five characters, a path two   *)
(* slots.                                                                     *)
EXTENDS EventPath, TLC

CONSTANTS t1, t2, c1, c2, long, deep, fit

\* /d/ab.cd.l, whose name does not fit a slot, /r/d/a.b.c, too deep, and /d/x.l.
Paths ==
  long  :> <<<<"a", "b", ".", "c", "d", ".", "l">>, <<"d">>>> @@
  deep  :> <<<<"a", ".", "b", ".", "c">>, <<"d">>, <<"r">>>> @@
  fit   :> <<<<"x", ".", "l">>, <<"d">>>>

Tk(c, a) == [command |-> <<c>>, argument |-> a]
Api == <<Tk("API_URL", <<"h">>), Tk("API_HEADER", <<"k", "=", "v">>)>>
Policies ==
  {Api \o <<Tk("EE", <<"b", ".", "c">>), Tk("ES", <<".", "l">>), Tk("IF", <<"/", "d", "/", "x", ".", "l">>)>>,
   Api \o <<Tk("EP", <<"a", ".">>), Tk("P", <<"d">>)>>}

LeftOver == {-1}
Symmetry == Permutations(Thread) \cup Permutations(CPU)

=============================================================================
