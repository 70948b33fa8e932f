----------------------------- MODULE EventChannel -----------------------------
(***************************************************************************)
(* What the path from the hooks to the logger promises: events are handled *)
(* one at a time, in the order of submission, each at most once, and       *)
(* nothing else is handled.  An event may be handled late, or never if the *)
(* monitor is stopped first.                                               *)
(***************************************************************************)
EXTENDS Sequences

CONSTANT Event

VARIABLES
  inflight,   (* the events submitted and not yet handled, oldest first *)
  handled     (* the events handled, oldest first                       *)

Init == inflight = <<>> /\ handled = <<>>

Submit(e) ==
  /\ inflight' = Append(inflight, e)
  /\ UNCHANGED handled

Handle ==
  /\ inflight # <<>>
  /\ handled' = Append(handled, Head(inflight))
  /\ inflight' = Tail(inflight)

Next == (\E e \in Event : Submit(e)) \/ Handle

Spec == Init /\ [][Next]_<<inflight, handled>>

=============================================================================
