------------------------------- MODULE Pipeline -------------------------------
(***************************************************************************)
(* The user-space daemon of the file integrity monitor (fim/src/user): the *)
(* main thread starts and stops three threads.  The producer polls the     *)
(* ring buffer; libbpf calls callback for each record, which pushes a copy *)
(* to event_queue under queue_mutex and notifies queue_cv.  The consumer   *)
(* waits on queue_cv, pops an event, releases the mutex and filters or     *)
(* logs the event.  The counter thread polls counter_map once a second.    *)
(*                                                                         *)
(* Each action is the code of one thread up to its next operation on       *)
(* shared state.  The mutex, the condition variable and the ring buffer of *)
(* libbpf are not part of the repository; they are modelled by what the    *)
(* code relies on, a wait on the condition variable with spurious wakeups. *)
(***************************************************************************)
EXTENDS Naturals, Sequences

CONSTANTS
  Event,      (* the contents of a record                    *)
  None,       (* no event in hand, no owner of the mutex     *)
  RingMax,    (* records that fit in the ring buffer         *)
  MaxEvents   (* bound: events submitted in one behaviour    *)

ASSUME PipelineAssumption ==
  /\ None \notin Event /\ None \notin {"producer", "consumer"}
  /\ RingMax \in Nat \ {0} /\ MaxEvents \in Nat

Thread == {"main", "producer", "consumer", "counter"}

VARIABLES
  rb,               (* submitted records libbpf has not released yet       *)
  event_queue,
  queue_mutex,      (* the thread that holds it, or None                   *)
  stop_flag,
  signal_received,
  pc,               (* where each thread is                                *)
  hand,             (* the consumer's local variable event, or None        *)
  submitted,        (* history: the events submitted to the ring buffer    *)
  handled           (* history: the events the consumer is done with       *)

\* All but pc.
data == <<rb, event_queue, queue_mutex, stop_flag, signal_received, hand,
          submitted, handled>>
vars == <<pc, rb, event_queue, queue_mutex, stop_flag, signal_received, hand,
          submitted, handled>>

MainPc     == {"start_producer", "start_consumer", "start_counter", "run", "stop",
               "notify", "join_producer", "join_consumer", "join_counter",
               "delete", "destroy", "exit"}
ProducerPc == {"unborn", "check", "poll", "drain", "lock", "push", "notify", "done"}
ConsumerPc == {"unborn", "check", "lock", "test", "block", "wait", "relock", "pop",
               "handle", "done"}
CounterPc  == {"unborn", "check", "sleep", "done"}

TypeOK ==
  /\ rb \in Seq(Event) /\ event_queue \in Seq(Event)
  /\ queue_mutex \in {None, "producer", "consumer"}
  /\ stop_flag \in BOOLEAN /\ signal_received \in BOOLEAN
  /\ pc \in [Thread -> MainPc \cup ProducerPc \cup ConsumerPc \cup CounterPc]
  /\ pc["main"] \in MainPc /\ pc["producer"] \in ProducerPc
  /\ pc["consumer"] \in ConsumerPc /\ pc["counter"] \in CounterPc
  /\ hand \in Event \cup {None}
  /\ submitted \in Seq(Event) /\ handled \in Seq(Event)

At(th, label)  == pc[th] = label
Go(th, label)  == pc' = [pc EXCEPT ![th] = label]

-----------------------------------------------------------------------------
(* The hooks submit records until the skeleton is destroyed.               *)

Submit(e) ==
  /\ ~At("main", "exit")
  /\ Len(rb) < RingMax /\ Len(submitted) < MaxEvents
  /\ rb' = Append(rb, e)
  /\ submitted' = Append(submitted, e)
  /\ UNCHANGED <<event_queue, queue_mutex, stop_flag, signal_received, pc, hand, handled>>

-----------------------------------------------------------------------------
(* The producer thread.                                                    *)

\* Mutant: the loop does not test stop_flag.
producer_check_Forever == At("producer", "check") /\ Go("producer", "poll") /\ UNCHANGED data

producer_check ==
  /\ At("producer", "check")
  /\ Go("producer", IF stop_flag THEN "done" ELSE "poll")
  /\ UNCHANGED data

\* ring_buffer__poll waits until there are records or 100 ms have passed.
ring_buffer__poll ==
  /\ At("producer", "poll")
  /\ Go("producer", IF rb = <<>> THEN "check" ELSE "drain")
  /\ UNCHANGED data

\* The wait fails (EINTR, for one): the producer ends, the rest carries on.
ring_buffer__poll_error ==
  /\ At("producer", "poll")
  /\ Go("producer", "done")
  /\ UNCHANGED data

\* libbpf calls callback for record after record until the ring is empty.
ring_buffer_drain ==
  /\ At("producer", "drain")
  /\ Go("producer", IF rb = <<>> THEN "check" ELSE "lock")
  /\ UNCHANGED data

\* Mutant: no lock_guard.
callback_lock_Missing == At("producer", "lock") /\ Go("producer", "push") /\ UNCHANGED data

callback_lock ==
  /\ At("producer", "lock") /\ queue_mutex = None
  /\ queue_mutex' = "producer"
  /\ Go("producer", "push")
  /\ UNCHANGED <<rb, event_queue, stop_flag, signal_received, hand, submitted, handled>>

\* Push a copy of the record; the guard's scope ends.
\* Mutant: an event that comes while another one is queued is dropped.
callback_push_Bounded ==
  /\ At("producer", "push")
  /\ event_queue' = IF event_queue = <<>> THEN <<Head(rb)>> ELSE event_queue
  /\ queue_mutex' = None
  /\ Go("producer", "notify")
  /\ UNCHANGED <<rb, stop_flag, signal_received, hand, submitted, handled>>

callback_push ==
  /\ At("producer", "push")
  /\ event_queue' = Append(event_queue, Head(rb))
  /\ queue_mutex' = None
  /\ Go("producer", "notify")
  /\ UNCHANGED <<rb, stop_flag, signal_received, hand, submitted, handled>>

\* notify_one or notify_all by thread th, which goes on at label: the consumer
\* is the only thread that ever waits.
\* Mutant: nobody is woken.
Notify_Missing(th, label) == Go(th, label)
Notify(th, label) ==
  pc' = [pc EXCEPT ![th] = label, !["consumer"] = IF @ = "wait" THEN "relock" ELSE @]

\* notify_one; callback returns and libbpf releases the record.
callback_notify ==
  /\ At("producer", "notify")
  /\ Notify("producer", "drain")
  /\ rb' = Tail(rb)
  /\ UNCHANGED <<event_queue, queue_mutex, stop_flag, signal_received, hand,
                 submitted, handled>>

-----------------------------------------------------------------------------
(* The consumer thread.                                                    *)

consumer_check ==
  /\ At("consumer", "check")
  /\ Go("consumer", IF stop_flag THEN "done" ELSE "lock")
  /\ UNCHANGED data

\* unique_lock, or the end of a wait, takes the mutex.
\* Mutant: a wait without a predicate goes on to the queue once it is woken.
consumer_lock_NoPredicate ==
  /\ At("consumer", "lock") \/ At("consumer", "relock")
  /\ queue_mutex = None
  /\ queue_mutex' = "consumer"
  /\ Go("consumer", IF At("consumer", "lock") THEN "test" ELSE "pop")
  /\ UNCHANGED <<rb, event_queue, stop_flag, signal_received, hand, submitted, handled>>

consumer_lock ==
  /\ At("consumer", "lock") \/ At("consumer", "relock")
  /\ queue_mutex = None
  /\ queue_mutex' = "consumer"
  /\ Go("consumer", "test")
  /\ UNCHANGED <<rb, event_queue, stop_flag, signal_received, hand, submitted, handled>>

\* The predicate of queue_cv.wait, evaluated with the mutex held.
wait_predicate ==
  /\ At("consumer", "test")
  /\ Go("consumer", IF stop_flag \/ event_queue # <<>> THEN "pop" ELSE "block")
  /\ UNCHANGED data

\* queue_cv.wait releases the mutex and blocks, in one step.
wait_block ==
  /\ At("consumer", "block")
  /\ queue_mutex' = None
  /\ Go("consumer", "wait")
  /\ UNCHANGED <<rb, event_queue, stop_flag, signal_received, hand, submitted, handled>>

wait_spurious ==
  /\ At("consumer", "wait")
  /\ Go("consumer", "relock")
  /\ UNCHANGED data

\* Return if there is nothing left, else take the oldest event and unlock.
\* Mutants: the queue is not tested, so front() may be undefined; the newest
\* event is taken.
consumer_pop_Untested ==
  /\ At("consumer", "pop")
  /\ queue_mutex' = None
  /\ hand' = IF event_queue = <<>> THEN "undefined" ELSE Head(event_queue)
  /\ event_queue' = IF event_queue = <<>> THEN <<>> ELSE Tail(event_queue)
  /\ Go("consumer", "handle")
  /\ UNCHANGED <<rb, stop_flag, signal_received, submitted, handled>>

consumer_pop_Newest ==
  /\ At("consumer", "pop")
  /\ queue_mutex' = None
  /\ IF stop_flag /\ event_queue = <<>>
     THEN Go("consumer", "done") /\ UNCHANGED <<event_queue, hand>>
     ELSE /\ hand' = event_queue[Len(event_queue)]
          /\ event_queue' = SubSeq(event_queue, 1, Len(event_queue) - 1)
          /\ Go("consumer", "handle")
  /\ UNCHANGED <<rb, stop_flag, signal_received, submitted, handled>>

consumer_pop ==
  /\ At("consumer", "pop")
  /\ queue_mutex' = None
  /\ IF stop_flag /\ event_queue = <<>>
     THEN Go("consumer", "done") /\ UNCHANGED <<event_queue, hand>>
     ELSE /\ hand' = Head(event_queue)
          /\ event_queue' = Tail(event_queue)
          /\ Go("consumer", "handle")
  /\ UNCHANGED <<rb, stop_flag, signal_received, submitted, handled>>

\* filterEvent drops the event, or it is processed, printed and logged.
consumer_handle ==
  /\ At("consumer", "handle")
  /\ handled' = Append(handled, hand)
  /\ hand' = None
  /\ Go("consumer", "check")
  /\ UNCHANGED <<rb, event_queue, queue_mutex, stop_flag, signal_received, submitted>>

-----------------------------------------------------------------------------
(* The counter thread and the main thread.                                 *)

counter_polling ==
  /\ \/ At("counter", "check") /\ Go("counter", IF stop_flag THEN "done" ELSE "sleep")
     \/ At("counter", "sleep") /\ Go("counter", "check")
  /\ UNCHANGED data

handle_signal ==
  /\ ~At("main", "exit")
  /\ signal_received' = TRUE
  /\ UNCHANGED <<rb, event_queue, queue_mutex, stop_flag, pc, hand, submitted, handled>>

\* The main thread at label starts thread th and goes on at next.
StartThread(label, th, next) ==
  /\ At("main", label)
  /\ pc' = [pc EXCEPT !["main"] = next, ![th] = "check"]
  /\ UNCHANGED data

\* while (!signal_received) sleep(1)
main_run ==
  /\ At("main", "run") /\ signal_received
  /\ Go("main", "stop")
  /\ UNCHANGED data

\* Events::stop sets the flag without the mutex, then notifies all.
stop_set ==
  /\ At("main", "stop")
  /\ stop_flag' = TRUE
  /\ Go("main", "notify")
  /\ UNCHANGED <<rb, event_queue, queue_mutex, signal_received, hand, submitted, handled>>

stop_notify ==
  /\ At("main", "notify")
  /\ Notify("main", "join_producer")
  /\ UNCHANGED data

\* The main thread at label joins thread th and goes on at next.
\* Mutant: the thread is detached.
Join_Detached(label, th, next) == At("main", label) /\ Go("main", next) /\ UNCHANGED data
Join(label, th, next) ==
  /\ At("main", label) /\ At(th, "done")
  /\ Go("main", next)
  /\ UNCHANGED data

\* delete events frees the ring buffer, the queue, the mutex and the condition
\* variable; fentry_bpf::destroy detaches the hooks and closes the maps.
main_cleanup ==
  /\ \/ At("main", "delete")  /\ Go("main", "destroy")
     \/ At("main", "destroy") /\ Go("main", "exit")
  /\ UNCHANGED data

-----------------------------------------------------------------------------

\* The constructor of Events has its ring buffer.  Its error exits, which leave
\* a null one to the producer, are not modelled.
Init ==
  /\ rb = <<>> /\ event_queue = <<>> /\ queue_mutex = None
  /\ stop_flag = FALSE /\ signal_received = FALSE
  /\ pc = [th \in Thread |-> IF th = "main" THEN "start_producer" ELSE "unborn"]
  /\ hand = None /\ submitted = <<>> /\ handled = <<>>

producer ==
  \/ producer_check \/ ring_buffer__poll \/ ring_buffer_drain
  \/ callback_lock \/ callback_push \/ callback_notify

consumer ==
  \/ consumer_check \/ consumer_lock \/ wait_predicate \/ wait_block
  \/ consumer_pop \/ consumer_handle

main ==
  \/ StartThread("start_producer", "producer", "start_consumer")
  \/ StartThread("start_consumer", "consumer", "start_counter")
  \/ StartThread("start_counter", "counter", "run")
  \/ main_run \/ stop_set \/ stop_notify
  \/ Join("join_producer", "producer", "join_consumer")
  \/ Join("join_consumer", "consumer", "join_counter")
  \/ Join("join_counter", "counter", "delete")
  \/ main_cleanup

Next ==
  \/ \E e \in Event : Submit(e)
  \/ producer \/ consumer \/ counter_polling \/ main
  \/ ring_buffer__poll_error \/ wait_spurious \/ handle_signal

Spec == Init /\ [][Next]_vars

\* Every thread that can run gets to run, and one that waits for the mutex gets
\* it if the mutex is released again and again.  Nothing is asked of the hooks,
\* of signals, of failing polls and of spurious wakeups.
FairSpec ==
  /\ Spec
  /\ WF_vars(producer) /\ WF_vars(consumer) /\ WF_vars(counter_polling) /\ WF_vars(main)
  /\ SF_vars(callback_lock) /\ SF_vars(consumer_lock)

-----------------------------------------------------------------------------
(* Properties.                                                             *)

\* The event at the front of the queue is only taken if there is one, though
\* a wakeup may be spurious and stop_flag changes without the mutex.
NeverPopsEmpty ==
  At("consumer", "pop") /\ ~stop_flag => event_queue # <<>>

\* The consumer never sleeps on an event: if it is blocked and the queue is not
\* empty, the producer is about to notify it.
NoLostEventWakeup ==
  At("consumer", "wait") /\ event_queue # <<>> => At("producer", "notify")

\* Once the main thread deletes events no thread uses it, and nothing holds the
\* mutex that is destroyed with it.
NoUseAfterFree ==
  pc["main"] \in {"delete", "destroy", "exit"} =>
    /\ \A th \in {"producer", "consumer", "counter"} : At(th, "done")
    /\ queue_mutex = None

\* The events between submission and handling, oldest first: the one in the
\* consumer's hand, the queue, and the records callback has not pushed yet.
InHand   == IF hand = None THEN <<>> ELSE <<hand>>
Unpushed == IF At("producer", "notify") THEN Tail(rb) ELSE rb
Backlog  == InHand \o event_queue \o Unpushed

\* Nothing is lost, duplicated or reordered between the hooks and the logger.
InOrder == submitted = handled \o Backlog

\* The daemon implements the channel: the ring buffer, the queue and the
\* consumer's hand together are its events in flight.
Channel == INSTANCE EventChannel WITH inflight <- Backlog
ChannelSpec == Channel!Spec

\* Every submitted event is handled in the end, unless the monitor is stopped
\* or its producer ended on a poll error.
EventuallyHandled ==
  \A n \in 1 .. MaxEvents :
    Len(submitted) >= n ~> Len(handled) >= n \/ stop_flag \/ At("producer", "done")

\* A signal ends the producer and the counter thread, once the hooks fall
\* silent (MaxEvents): while records keep coming libbpf drains the ring without
\* returning to the loop that tests stop_flag.
SignalStopsProducer ==
  signal_received ~> stop_flag /\ At("producer", "done") /\ At("counter", "done")

-----------------------------------------------------------------------------
(* What the sources say of the daemon and it does not always do.           *)

\* "wake consumer" (event.cpp:85): once stop has been called the consumer ends.
StopWakesConsumer == stop_flag ~> At("consumer", "done")

=============================================================================
