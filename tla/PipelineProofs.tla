---------------------------- MODULE PipelineProofs ----------------------------
(***************************************************************************)
(* Proofs about Pipeline, for any set of events, any size of the ring      *)
(* buffer and any number of events.                                        *)
(***************************************************************************)
EXTENDS Pipeline, SequenceTheorems, TLAPS

(***************************************************************************)
(* The inductive invariant.  The safety properties of Pipeline are not     *)
(* inductive by themselves: what the consumer sees when it holds the mutex *)
(* follows from who may hold it, and what is left after a join from what   *)
(* the main thread has joined before.                                      *)
(***************************************************************************)

\* The mutex is held exactly in the critical sections.
MutexInv ==
  /\ queue_mutex = "producer" <=> At("producer", "push")
  /\ queue_mutex = "consumer" <=> pc["consumer"] \in {"test", "block", "pop"}

\* While callback runs, its record has not been released.
RecordInv == pc["producer"] \in {"lock", "push", "notify"} => rb # <<>>

\* The consumer has an event in hand exactly while it handles it.
HandInv == At("consumer", "handle") <=> hand # None

\* The queue that was found empty with the mutex held stays empty until the
\* wait releases the mutex.
BlockInv == At("consumer", "block") => event_queue = <<>>

\* The main thread has started, or joined, the threads its place tells of.
MainInv ==
  /\ pc["main"] \in {"start_producer", "start_consumer"} => At("consumer", "unborn")
  /\ At("main", "start_producer") => At("producer", "unborn")
  /\ pc["main"] \in {"join_consumer", "join_counter", "delete", "destroy", "exit"} =>
       At("producer", "done")
  /\ pc["main"] \in {"join_counter", "delete", "destroy", "exit"} => At("consumer", "done")
  /\ pc["main"] \in {"delete", "destroy", "exit"} => At("counter", "done")

IInv ==
  /\ TypeOK /\ MutexInv /\ RecordInv /\ HandInv /\ BlockInv /\ MainInv
  /\ NeverPopsEmpty /\ NoLostEventWakeup /\ InOrder

-----------------------------------------------------------------------------
(* Sequences.                                                              *)

\* A sequence is its head followed by its tail.
LEMMA HeadThenTail ==
  ASSUME NEW S, NEW s \in Seq(S), s # <<>>
  PROVE  <<Head(s)>> \o Tail(s) = s
<1>1. /\ Len(s) \in Nat \ {0} /\ Head(s) = s[1] /\ Head(s) \in S
      /\ Tail(s) \in Seq(S) /\ Len(Tail(s)) = Len(s) - 1
      /\ \A i \in 1 .. Len(Tail(s)) : Tail(s)[i] = s[i + 1]
  BY EmptySeq, HeadTailProperties
<1>2. <<Head(s)>> \in Seq(S) /\ Len(<<Head(s)>>) = 1 /\ <<Head(s)>>[1] = s[1]
  BY <1>1
<1> DEFINE t == <<Head(s)>> \o Tail(s)
<1>3. /\ t \in Seq(S) /\ Len(t) = Len(s)
      /\ \A i \in 1 .. Len(t) : t[i] = IF i <= 1 THEN <<Head(s)>>[i] ELSE Tail(s)[i - 1]
  BY <1>1, <1>2, ConcatProperties
<1>4. \A i \in 1 .. Len(t) : t[i] = s[i]
  <2>1. SUFFICES ASSUME NEW i \in 1 .. Len(t) PROVE t[i] = s[i]
    OBVIOUS
  <2>2. CASE i = 1
    BY <2>2, <1>2, <1>3
  <2>3. CASE i > 1
    <3>1. i - 1 \in 1 .. Len(Tail(s))
      BY <2>3, <1>1, <1>3
    <3>2. Tail(s)[i - 1] = s[(i - 1) + 1]
      BY <3>1, <1>1
    <3>3. QED  BY <3>2, <2>3, <1>3
  <2>4. QED  BY <2>2, <2>3, <1>3
<1>5. QED  BY <1>3, <1>4, SeqEqual

\* Appending commutes with what stands in front.
LEMMA AppendBehind ==
  ASSUME NEW S, NEW s \in Seq(S), NEW t \in Seq(S), NEW e \in S
  PROVE  s \o Append(t, e) = Append(s \o t, e)
<1>1. Append(t, e) = t \o <<e>> /\ <<e>> \in Seq(S) /\ s \o t \in Seq(S)
  BY AppendIsConcat, ConcatProperties
<1>2. Append(s \o t, e) = (s \o t) \o <<e>>
  BY <1>1, AppendIsConcat
<1>3. (s \o t) \o <<e>> = s \o (t \o <<e>>)
  BY <1>1, ConcatAssociative, SMTT(60)
<1>4. QED  BY ONLY <1>1, <1>2, <1>3

\* Moving the head of the second sequence to the end of the first.
LEMMA MoveHead ==
  ASSUME NEW S, NEW s \in Seq(S), NEW t \in Seq(S), t # <<>>
  PROVE  Append(s, Head(t)) \o Tail(t) = s \o t
<1>1. Head(t) \in S /\ Tail(t) \in Seq(S) /\ <<Head(t)>> \in Seq(S)
  BY HeadTailProperties
<1>2. Append(s, Head(t)) = s \o <<Head(t)>>
  BY <1>1, AppendIsConcat
<1>3. (s \o <<Head(t)>>) \o Tail(t) = s \o (<<Head(t)>> \o Tail(t))
  BY <1>1, ConcatAssociative, SMTT(60)
<1>4. QED  BY <1>2, <1>3, HeadThenTail

\* Concatenation of sequences of events is associative.
LEMMA Regroup ==
  \A s, t, u \in Seq(Event) : (s \o t) \o u = s \o (t \o u)
BY ConcatAssociative, SMTT(60)

-----------------------------------------------------------------------------
(* The invariant holds initially and is preserved.                         *)

LEMMA InitInv == Init => IInv
<1> SUFFICES ASSUME Init PROVE IInv
  OBVIOUS
<1>1. TypeOK
  <2>1. pc \in [Thread -> MainPc \cup ProducerPc \cup ConsumerPc \cup CounterPc]
    BY DEF Init, MainPc, ProducerPc
  <2>2. /\ pc["main"] \in MainPc /\ pc["producer"] \in ProducerPc
        /\ pc["consumer"] \in ConsumerPc /\ pc["counter"] \in CounterPc
    BY DEF Init, Thread, MainPc, ProducerPc, ConsumerPc, CounterPc
  <2>3. rb \in Seq(Event) /\ event_queue \in Seq(Event)
        /\ submitted \in Seq(Event) /\ handled \in Seq(Event)
    BY DEF Init
  <2>4. /\ queue_mutex \in {None, "producer", "consumer"} /\ hand \in Event \cup {None}
        /\ stop_flag \in BOOLEAN /\ signal_received \in BOOLEAN
    BY DEF Init
  <2>5. QED  BY <2>1, <2>2, <2>3, <2>4 DEF TypeOK
<1>2. MutexInv /\ RecordInv /\ HandInv /\ BlockInv /\ MainInv
  BY PipelineAssumption DEF Init, MutexInv, RecordInv, HandInv, BlockInv, MainInv, At, Thread
<1>3. NeverPopsEmpty /\ NoLostEventWakeup
  BY DEF Init, NeverPopsEmpty, NoLostEventWakeup, At, Thread
<1>4. InOrder
  <2>1. Backlog = <<>> \o <<>> \o <<>>
    BY DEF Init, Backlog, InHand, Unpushed, At, Thread
  <2>2. <<>> \o <<>> = <<>>
    BY ConcatEmptySeq, EmptySeq
  <2>3. QED  BY <2>1, <2>2 DEF Init, InOrder
<1>5. QED  BY <1>1, <1>2, <1>3, <1>4 DEF IInv

\* The pieces of the backlog are sequences of events.
LEMMA BacklogType ==
  ASSUME TypeOK, RecordInv
  PROVE  InHand \in Seq(Event) /\ Unpushed \in Seq(Event) /\ Backlog \in Seq(Event)
<1>1. InHand \in Seq(Event)
  BY DEF TypeOK, InHand
<1>2. Unpushed \in Seq(Event)
  BY HeadTailProperties DEF TypeOK, RecordInv, Unpushed, At
<1>3. QED  BY <1>1, <1>2, ConcatProperties DEF TypeOK, Backlog

\* A step that leaves the data alone, and the producer outside of its
\* notification or in it, leaves the order alone.
LEMMA SameOrder ==
  ASSUME InOrder, UNCHANGED data, At("producer", "notify")' = At("producer", "notify")
  PROVE  InOrder'
BY DEF InOrder, Backlog, InHand, Unpushed, data

\* All of the invariant but the order, which needs no sequence reasoning.
ControlInv ==
  /\ TypeOK /\ MutexInv /\ RecordInv /\ HandInv /\ BlockInv /\ MainInv
  /\ NeverPopsEmpty /\ NoLostEventWakeup

LEMMA SubmitInv ==
  ASSUME IInv, NEW e \in Event, Submit(e)
  PROVE  IInv'
<1>1. Append(rb, e) \in Seq(Event) /\ Append(rb, e) # <<>> /\ Append(submitted, e) \in Seq(Event)
  BY AppendProperties DEF IInv, TypeOK
<1>2. ControlInv'
  BY <1>1 DEF ControlInv, IInv, Submit, TypeOK, MutexInv, RecordInv, HandInv, BlockInv, MainInv,
     NeverPopsEmpty, NoLostEventWakeup, At
<1>3. Unpushed' = Append(Unpushed, e)
  <2>1. CASE At("producer", "notify")
    BY <2>1, HeadTailAppend DEF IInv, TypeOK, RecordInv, Submit, Unpushed, At
  <2>2. CASE ~At("producer", "notify")
    BY <2>2 DEF Submit, Unpushed, At
  <2>3. QED  BY <2>1, <2>2
<1>4. InOrder'
  <2>1. InHand \in Seq(Event) /\ Unpushed \in Seq(Event) /\ Backlog \in Seq(Event)
        /\ handled \in Seq(Event) /\ event_queue \in Seq(Event)
        /\ InHand \o event_queue \in Seq(Event)
    BY BacklogType, ConcatProperties DEF IInv, TypeOK
  <2>2. Backlog' = (InHand \o event_queue) \o Append(Unpushed, e)
    BY <1>3 DEF Submit, Backlog, InHand
  <2>3. Backlog' = Append(Backlog, e)
    BY <2>1, <2>2, AppendBehind DEF Backlog
  <2>4. handled \o Append(Backlog, e) = Append(handled \o Backlog, e)
    BY <2>1, AppendBehind
  <2>5. QED  BY <2>3, <2>4 DEF IInv, InOrder, Submit
<1>5. QED  BY <1>2, <1>4 DEF IInv, ControlInv

LEMMA ProducerInv ==
  ASSUME IInv, producer \/ ring_buffer__poll_error
  PROVE  IInv'
<1> USE DEF ControlInv, TypeOK, MutexInv, RecordInv, HandInv, BlockInv, MainInv,
     NeverPopsEmpty, NoLostEventWakeup, At, Go, Thread, ProducerPc, ConsumerPc, MainPc, CounterPc
<1>1. ASSUME producer_check \/ ring_buffer__poll \/ ring_buffer__poll_error \/ ring_buffer_drain
      PROVE  IInv'
  <2>1. ControlInv'
    BY <1>1 DEF IInv, producer_check, ring_buffer__poll, ring_buffer__poll_error,
       ring_buffer_drain, data
  <2>2. InOrder'
    BY <1>1, SameOrder DEF IInv, producer_check, ring_buffer__poll, ring_buffer__poll_error,
       ring_buffer_drain
  <2>3. QED  BY <2>1, <2>2 DEF IInv
<1>2. ASSUME callback_lock PROVE IInv'
  <2>1. ControlInv'
    BY <1>2, PipelineAssumption DEF IInv, callback_lock
  <2>2. InOrder'
    BY <1>2 DEF IInv, callback_lock, InOrder, Backlog, InHand, Unpushed
  <2>3. QED  BY <2>1, <2>2 DEF IInv
<1>3. ASSUME callback_push PROVE IInv'
  <2>1. rb # <<>> /\ Head(rb) \in Event /\ Tail(rb) \in Seq(Event)
    BY <1>3, HeadTailProperties DEF IInv, callback_push
  <2>2. event_queue' \in Seq(Event) /\ event_queue' # <<>>
    BY <1>3, <2>1, AppendProperties DEF IInv, callback_push
  <2>3. ControlInv'
    BY <1>3, <2>2, PipelineAssumption DEF IInv, callback_push
  <2>4. InOrder'
    <3>1. InHand \in Seq(Event) /\ event_queue \in Seq(Event) /\ rb \in Seq(Event)
      BY BacklogType DEF IInv
    <3>2. Backlog' = (InHand \o event_queue') \o Tail(rb)
      <4>1. InHand' = InHand
        BY <1>3 DEF callback_push, InHand
      <4>2. Unpushed' = Tail(rb)
        BY <1>3 DEF callback_push, Unpushed, IInv
      <4>3. QED  BY ONLY <4>1, <4>2 DEF Backlog
    <3>3. Backlog = (InHand \o event_queue) \o rb
      <4>1. Unpushed = rb
        BY <1>3 DEF callback_push, Unpushed
      <4>2. QED  BY ONLY <4>1 DEF Backlog
    <3>4. event_queue' \o Tail(rb) = event_queue \o rb
      BY <1>3, <2>1, <3>1, MoveHead DEF callback_push
    \* Names for the parts keep the provers away from the laws of Tail.
    <3>5. (InHand \o event_queue') \o Tail(rb) = InHand \o (event_queue' \o Tail(rb))
      <4>1. PICK a \in Seq(Event) : a = InHand
        BY ONLY <3>1, Zenon
      <4>2. PICK q \in Seq(Event) : q = event_queue'
        BY ONLY <2>2, Zenon
      <4>3. PICK r \in Seq(Event) : r = Tail(rb)
        BY ONLY <2>1, Zenon
      <4>4. (a \o q) \o r = a \o (q \o r)
        BY ONLY Regroup, a \in Seq(Event), q \in Seq(Event), r \in Seq(Event)
      <4>5. QED  BY ONLY <4>1, <4>2, <4>3, <4>4, Zenon
    <3>6. (InHand \o event_queue) \o rb = InHand \o (event_queue \o rb)
      BY ONLY <3>1, Regroup
    <3>7. Backlog' = Backlog
      BY ONLY <3>2, <3>3, <3>4, <3>5, <3>6
    <3>8. QED  BY <1>3, <3>7 DEF IInv, InOrder, callback_push
  <2>5. QED  BY <2>3, <2>4 DEF IInv
<1>4. ASSUME callback_notify PROVE IInv'
  <2>1. Tail(rb) \in Seq(Event)
    BY <1>4, HeadTailProperties DEF IInv, callback_notify
  <2>2. ControlInv'
    BY <1>4, <2>1 DEF IInv, callback_notify, Notify
  <2>3. InOrder'
    BY <1>4 DEF IInv, callback_notify, Notify, InOrder, Backlog, InHand, Unpushed
  <2>4. QED  BY <2>2, <2>3 DEF IInv
<1>5. QED  BY <1>1, <1>2, <1>3, <1>4 DEF producer

LEMMA ConsumerInv ==
  ASSUME IInv, consumer \/ wait_spurious
  PROVE  IInv'
<1> USE DEF ControlInv, TypeOK, MutexInv, RecordInv, HandInv, BlockInv, MainInv,
     NeverPopsEmpty, NoLostEventWakeup, At, Go, Thread, ProducerPc, ConsumerPc, MainPc, CounterPc
<1>1. ASSUME consumer_check \/ wait_predicate \/ wait_spurious PROVE IInv'
  <2>1. ControlInv'
    BY <1>1 DEF IInv, consumer_check, wait_predicate, wait_spurious, data
  <2>2. InOrder'
    BY <1>1, SameOrder DEF IInv, consumer_check, wait_predicate, wait_spurious
  <2>3. QED  BY <2>1, <2>2 DEF IInv
<1>2. ASSUME consumer_lock \/ wait_block PROVE IInv'
  <2>1. ControlInv'
    BY <1>2, PipelineAssumption DEF IInv, consumer_lock, wait_block
  <2>2. InOrder'
    BY <1>2 DEF IInv, consumer_lock, wait_block, InOrder, Backlog, InHand, Unpushed
  <2>3. QED  BY <2>1, <2>2 DEF IInv
<1>3. ASSUME consumer_pop, stop_flag /\ event_queue = <<>> PROVE IInv'
  <2>1. ControlInv'
    BY <1>3, PipelineAssumption DEF IInv, consumer_pop
  <2>2. InOrder'
    BY <1>3 DEF IInv, consumer_pop, InOrder, Backlog, InHand, Unpushed
  <2>3. QED  BY <2>1, <2>2 DEF IInv
<1>4. ASSUME consumer_pop, ~(stop_flag /\ event_queue = <<>>) PROVE IInv'
  <2>1. event_queue # <<>> /\ Head(event_queue) \in Event /\ Tail(event_queue) \in Seq(Event)
    BY <1>4, HeadTailProperties DEF IInv, consumer_pop
  <2>2. hand' \in Event /\ event_queue' \in Seq(Event)
    BY <1>4, <2>1 DEF consumer_pop
  <2>3. TypeOK'
    BY <1>4, <2>2 DEF IInv, consumer_pop
  <2>4. MutexInv' /\ RecordInv' /\ HandInv' /\ BlockInv'
    BY <1>4, <2>2, PipelineAssumption DEF IInv, consumer_pop
  <2>5. MainInv' /\ NeverPopsEmpty' /\ NoLostEventWakeup'
    BY <1>4, <2>2 DEF IInv, consumer_pop
  <2>6. InOrder'
    <3>1. InHand = <<>> /\ event_queue \in Seq(Event)
      BY <1>4 DEF IInv, consumer_pop, InHand
    <3>2. InHand' = <<Head(event_queue)>> /\ Unpushed' = Unpushed
      BY <1>4, <2>1, PipelineAssumption DEF IInv, consumer_pop, InHand, Unpushed
    <3>3. InHand' \o event_queue' = InHand \o event_queue
      BY <1>4, <2>1, <3>1, <3>2, HeadThenTail, ConcatEmptySeq DEF consumer_pop
    <3>4. QED  BY <1>4, <3>2, <3>3 DEF IInv, InOrder, Backlog, consumer_pop
  <2>7. QED  BY <2>3, <2>4, <2>5, <2>6 DEF IInv
<1>5. ASSUME consumer_handle PROVE IInv'
  <2>1. hand \in Event /\ handled \in Seq(Event)
    BY <1>5 DEF IInv, consumer_handle
  <2>2. handled' \in Seq(Event)
    BY <1>5, <2>1, AppendProperties DEF consumer_handle
  <2>3. ControlInv'
    BY <1>5, <2>2 DEF IInv, consumer_handle
  <2>4. InOrder'
    <3>1. <<hand>> \in Seq(Event) /\ <<>> \in Seq(Event) /\ Unpushed \in Seq(Event)
          /\ event_queue \in Seq(Event) /\ event_queue \o Unpushed \in Seq(Event)
      BY <2>1, BacklogType, ConcatProperties, EmptySeq DEF IInv
    <3>2. Backlog = (<<hand>> \o event_queue) \o Unpushed
      BY <2>1, PipelineAssumption DEF Backlog, InHand
    <3>3. Backlog' = (<<>> \o event_queue) \o Unpushed
      BY <1>5 DEF consumer_handle, Backlog, InHand, Unpushed, IInv
    <3>4. Backlog = <<hand>> \o Backlog'
      BY <3>1, <3>2, <3>3, Regroup, ConcatEmptySeq
    <3>5. Backlog' \in Seq(Event)
      BY <3>1, <3>3, ConcatEmptySeq
    <3>6. handled \o Backlog = (handled \o <<hand>>) \o Backlog'
      <4>1. (handled \o <<hand>>) \o Backlog' = handled \o (<<hand>> \o Backlog')
        BY ONLY <2>1, <3>1, <3>5, Regroup
      <4>2. QED  BY ONLY <3>4, <4>1
    <3>7. handled' = handled \o <<hand>>
      BY <1>5, <2>1, AppendIsConcat DEF consumer_handle
    <3>8. QED  BY <1>5, <3>6, <3>7 DEF IInv, InOrder, consumer_handle
  <2>5. QED  BY <2>3, <2>4 DEF IInv
<1>6. QED  BY <1>1, <1>2, <1>3, <1>4, <1>5 DEF consumer

LEMMA MainStepInv ==
  ASSUME IInv, main \/ counter_polling \/ handle_signal
  PROVE  IInv'
<1> USE DEF ControlInv, TypeOK, MutexInv, RecordInv, HandInv, BlockInv, MainInv,
     NeverPopsEmpty, NoLostEventWakeup, At, Go, Thread, ProducerPc, ConsumerPc, MainPc, CounterPc
<1>1. ASSUME \/ StartThread("start_producer", "producer", "start_consumer")
             \/ StartThread("start_consumer", "consumer", "start_counter")
             \/ StartThread("start_counter", "counter", "run")
      PROVE  IInv'
  <2>1. ControlInv'
    BY <1>1 DEF IInv, StartThread, data
  <2>2. InOrder'
    BY <1>1, SameOrder DEF IInv, StartThread
  <2>3. QED  BY <2>1, <2>2 DEF IInv
<1>2. ASSUME \/ Join("join_producer", "producer", "join_consumer")
             \/ Join("join_consumer", "consumer", "join_counter")
             \/ Join("join_counter", "counter", "delete")
      PROVE  IInv'
  <2>1. ControlInv'
    BY <1>2 DEF IInv, Join, data
  <2>2. InOrder'
    BY <1>2, SameOrder DEF IInv, Join
  <2>3. QED  BY <2>1, <2>2 DEF IInv
<1>3. ASSUME main_run \/ stop_notify \/ main_cleanup \/ counter_polling PROVE IInv'
  <2>1. ControlInv'
    BY <1>3 DEF IInv, main_run, stop_notify, Notify, main_cleanup, counter_polling, data
  <2>2. InOrder'
    BY <1>3, SameOrder DEF IInv, main_run, stop_notify, Notify, main_cleanup, counter_polling
  <2>3. QED  BY <2>1, <2>2 DEF IInv
<1>4. ASSUME stop_set \/ handle_signal PROVE IInv'
  <2>1. TypeOK'
    <3>1. CASE stop_set
      BY <3>1 DEF IInv, stop_set
    <3>2. CASE handle_signal
      BY <3>2 DEF IInv, handle_signal
    <3>3. QED  BY <1>4, <3>1, <3>2
  <2>2. MutexInv' /\ RecordInv' /\ HandInv'
    BY <1>4 DEF IInv, stop_set, handle_signal
  <2>3. BlockInv' /\ MainInv' /\ NeverPopsEmpty' /\ NoLostEventWakeup'
    BY <1>4 DEF IInv, stop_set, handle_signal
  <2>4. InOrder'
    BY <1>4 DEF IInv, stop_set, handle_signal, InOrder, Backlog, InHand, Unpushed
  <2>5. QED  BY <2>1, <2>2, <2>3, <2>4 DEF IInv
<1>5. QED  BY <1>1, <1>2, <1>3, <1>4 DEF main

LEMMA NextInv == IInv /\ [Next]_vars => IInv'
<1> SUFFICES ASSUME IInv, [Next]_vars PROVE IInv'
  OBVIOUS
<1>1. CASE \E e \in Event : Submit(e)
  BY <1>1, SubmitInv
<1>2. CASE producer \/ ring_buffer__poll_error
  BY <1>2, ProducerInv
<1>3. CASE consumer \/ wait_spurious
  BY <1>3, ConsumerInv
<1>4. CASE main \/ counter_polling \/ handle_signal
  BY <1>4, MainStepInv
<1>5. CASE UNCHANGED vars
  BY <1>5 DEF IInv, TypeOK, MutexInv, RecordInv, HandInv, BlockInv, MainInv, NeverPopsEmpty,
     NoLostEventWakeup, InOrder, Backlog, InHand, Unpushed, At, vars
<1>6. QED  BY <1>1, <1>2, <1>3, <1>4, <1>5 DEF Next

THEOREM Invariance == Spec => []IInv
<1>1. Init => IInv
  BY InitInv
<1>2. IInv /\ [Next]_vars => IInv'
  BY NextInv
<1>3. QED  BY <1>1, <1>2, PTL DEF Spec

-----------------------------------------------------------------------------
(* The properties of Pipeline.                                             *)

\* The daemon's variables keep their types.
THEOREM TypeCorrect == Spec => []TypeOK
<1>1. IInv => TypeOK
  BY DEF IInv
<1>2. QED  BY <1>1, Invariance, PTL

\* front() and pop() are never called on an empty queue, whatever wakes the
\* consumer and whenever stop_flag is set.
THEOREM PopIsSafe == Spec => []NeverPopsEmpty
<1>1. IInv => NeverPopsEmpty
  BY DEF IInv
<1>2. QED  BY <1>1, Invariance, PTL

\* The wakeup for an event is never lost: a consumer that sleeps on a queue
\* that is not empty is about to be notified.
THEOREM EventWakesConsumer == Spec => []NoLostEventWakeup
<1>1. IInv => NoLostEventWakeup
  BY DEF IInv
<1>2. QED  BY <1>1, Invariance, PTL

\* delete events happens after the last use of the queue, of its mutex and of
\* the ring buffer by any thread.
THEOREM FreeIsSafe == Spec => []NoUseAfterFree
<1>1. IInv => NoUseAfterFree
  <2>1. SUFFICES ASSUME IInv, pc["main"] \in {"delete", "destroy", "exit"}
                 PROVE  /\ \A th \in {"producer", "consumer", "counter"} : At(th, "done")
                        /\ queue_mutex = None
    BY DEF NoUseAfterFree
  <2>2. At("producer", "done") /\ At("consumer", "done") /\ At("counter", "done")
    BY <2>1 DEF IInv, MainInv
  <2>3. queue_mutex = None
    BY <2>1, <2>2 DEF IInv, TypeOK, MutexInv, At
  <2>4. QED  BY <2>2, <2>3
<1>2. QED  BY <1>1, Invariance, PTL

\* What has been submitted is what has been handled followed by the backlog.
THEOREM OrderIsKept == Spec => []InOrder
<1>1. IInv => InOrder
  BY DEF IInv
<1>2. QED  BY <1>1, Invariance, PTL

\* What follows the same beginning is the same.
LEMMA SameRest ==
  ASSUME NEW s \in Seq(Event), NEW t \in Seq(Event), NEW u \in Seq(Event), s \o t = s \o u
  PROVE  t = u
BY ConcatSimplifications

\* The event in front of a sequence is its head, the sequence its tail.
LEMMA InFront ==
  ASSUME NEW e \in Event, NEW t \in Seq(Event)
  PROVE  <<e>> \o t # <<>> /\ Head(<<e>> \o t) = e /\ Tail(<<e>> \o t) = t
<1> DEFINE s == <<e>> \o t
<1>1. <<e>> \in Seq(Event) /\ Len(<<e>>) = 1 /\ <<e>>[1] = e /\ Len(t) \in Nat
  BY LenProperties
<1>2. s \in Seq(Event) /\ Len(s) = 1 + Len(t) /\ s[1] = e
  BY <1>1, ConcatProperties
<1>3. s # <<>> /\ Head(s) = e
  BY <1>1, <1>2, EmptySeq, HeadTailProperties
<1>4. <<e>> \o Tail(s) = <<e>> \o t /\ Tail(s) \in Seq(Event)
  BY <1>2, <1>3, HeadThenTail, HeadTailProperties
<1>5. QED  BY <1>1, <1>3, <1>4, SameRest

\* What is in flight follows from what has been submitted and handled, so a
\* step that leaves the histories alone leaves it alone, one that submits an
\* event appends it, and one that handles the event in hand removes it.
LEMMA StepOfChannel ==
  ASSUME IInv, IInv', Backlog' \in Seq(Event)
  PROVE  /\ UNCHANGED <<submitted, handled>> => UNCHANGED Backlog
         /\ \A e \in Event : Submit(e) => Backlog' = Append(Backlog, e)
         /\ consumer_handle =>
              Backlog # <<>> /\ Head(Backlog) = hand /\ Tail(Backlog) = Backlog'
<1>1. /\ Backlog \in Seq(Event) /\ handled \in Seq(Event)
      /\ submitted = handled \o Backlog
  BY BacklogType DEF IInv, TypeOK, InOrder
<1>2. /\ Backlog' \in Seq(Event) /\ handled' \in Seq(Event)
      /\ submitted' = handled' \o Backlog'
  BY DEF IInv, TypeOK, InOrder
<1>3. ASSUME UNCHANGED <<submitted, handled>> PROVE UNCHANGED Backlog
  <2>1. handled \o Backlog' = handled \o Backlog
    BY <1>1, <1>2, <1>3
  <2>2. QED  BY <1>1, <1>2, <2>1, SameRest
<1>4. ASSUME NEW e \in Event, Submit(e) PROVE Backlog' = Append(Backlog, e)
  <2>1. handled' = handled /\ submitted' = Append(submitted, e)
    BY <1>4 DEF Submit
  <2>2. handled \o Append(Backlog, e) = Append(handled \o Backlog, e)
    BY <1>1, AppendBehind
  <2>3. Append(Backlog, e) \in Seq(Event)
    BY <1>1, AppendProperties
  <2>4. handled \o Backlog' = handled \o Append(Backlog, e)
    BY ONLY <1>1, <1>2, <2>1, <2>2
  <2>5. QED  BY <1>1, <1>2, <2>3, <2>4, SameRest
<1>5. ASSUME consumer_handle
      PROVE  Backlog # <<>> /\ Head(Backlog) = hand /\ Tail(Backlog) = Backlog'
  <2>1. /\ handled' = Append(handled, hand) /\ submitted' = submitted
        /\ hand \in Event /\ <<hand>> \in Seq(Event)
    BY <1>5 DEF consumer_handle, IInv, TypeOK, HandInv
  <2>2. handled' = handled \o <<hand>>
    BY <1>1, <2>1, AppendIsConcat
  <2>3. (handled \o <<hand>>) \o Backlog' = handled \o (<<hand>> \o Backlog')
    BY ONLY <1>1, <1>2, <2>1, Regroup
  <2>4. handled \o Backlog = handled \o (<<hand>> \o Backlog')
    BY ONLY <1>1, <1>2, <2>1, <2>2, <2>3
  <2>5. <<hand>> \o Backlog' \in Seq(Event)
    BY <1>2, <2>1, ConcatProperties
  <2>6. Backlog = <<hand>> \o Backlog'
    BY <1>1, <2>4, <2>5, SameRest
  <2>7. QED  BY <1>2, <2>1, <2>6, InFront
<1>6. QED  BY <1>3, <1>4, <1>5

\* The daemon implements the channel: every event the hooks submit is handled
\* at most once and in order.
THEOREM ImplementsChannel == Spec => ChannelSpec
<1>1. Init => Channel!Init
  <2>1. SUFFICES ASSUME Init PROVE Backlog = <<>> /\ handled = <<>>
    BY DEF Channel!Init
  <2>2. Backlog = <<>> \o <<>> \o <<>>
    BY <2>1 DEF Init, Backlog, InHand, Unpushed, At, Thread
  <2>3. <<>> \o <<>> = <<>>
    BY ConcatEmptySeq, EmptySeq
  <2>4. QED  BY <2>1, <2>2, <2>3 DEF Init
<1>2. IInv => Backlog \in Seq(Event)
  BY BacklogType DEF IInv
<1>3. IInv /\ IInv' /\ (Backlog \in Seq(Event))' /\ [Next]_vars
        => [Channel!Next]_<<Backlog, handled>>
  <2>1. SUFFICES ASSUME IInv, IInv', Backlog' \in Seq(Event), [Next]_vars
                 PROVE [Channel!Next]_<<Backlog, handled>>
    OBVIOUS
  <2>2. ASSUME NEW e \in Event, Submit(e) PROVE Channel!Submit(e)
    BY <2>1, <2>2, StepOfChannel DEF Submit, Channel!Submit
  <2>3. CASE consumer_handle
    BY <2>1, <2>3, StepOfChannel DEF consumer_handle, Channel!Next, Channel!Handle
  <2>4. CASE UNCHANGED <<submitted, handled>>
    BY <2>1, <2>4, StepOfChannel
  <2>5. CASE producer \/ ring_buffer__poll_error
    BY <2>4, <2>5 DEF producer, ring_buffer__poll_error, producer_check, ring_buffer__poll,
       ring_buffer_drain, callback_lock, callback_push, callback_notify, data
  <2>6. CASE (consumer /\ ~consumer_handle) \/ wait_spurious
    BY <2>4, <2>6 DEF consumer, wait_spurious, consumer_check, consumer_lock, wait_predicate,
       wait_block, consumer_pop, data
  <2>7. CASE main \/ counter_polling \/ handle_signal
    BY <2>4, <2>7 DEF main, counter_polling, handle_signal, StartThread, main_run, stop_set,
       stop_notify, Join, main_cleanup, data
  <2>8. CASE UNCHANGED vars
    BY <2>4, <2>8 DEF vars
  <2>9. CASE \E e \in Event : Submit(e)
    BY <2>2, <2>9 DEF Channel!Next
  <2>10. QED  BY <2>1, <2>3, <2>5, <2>6, <2>7, <2>8, <2>9 DEF Next
<1>4. QED  BY <1>1, <1>2, <1>3, Invariance, PTL DEF Spec, ChannelSpec, Channel!Spec

=============================================================================
