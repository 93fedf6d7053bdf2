--------------------------- MODULE InMemoryQueue ---------------------------
(***************************************************************************)
(* The in-memory job queue: a buffered channel, and the set of the job ids *)
(* that are inside.  Publish, and a settlement whose enqueue fails, are    *)
(* two critical sections each, so other callers run in between.            *)
(*                                                                         *)
(* The clients are any publishers and any workers that settle a delivery   *)
(* once.  One goroutine started by Consume moves messages from the channel *)
(* to the workers.                                                         *)
(***************************************************************************)
EXTENDS Naturals, Sequences, FiniteSets

CONSTANTS
  Jobs,          \* job ids
  Publishers,    \* goroutines that publish
  Workers,       \* goroutines that handle deliveries
  MaxAttempts,   \* MAX_JOB_ATTEMPTS
  BufferSize     \* QUEUE_BUFFER_SIZE

ASSUME QueueAssumption == MaxAttempts \in Nat \ {0} /\ BufferSize \in Nat

VARIABLES
  channel,       \* q.jobs
  deadLetters,   \* q.deadLetters; nothing receives from it
  seen,          \* q.seen
  closed,        \* q.closed
  cancelled,     \* the context of the publishers and the consumer is done
  publisher,     \* per publisher: where it is in Publish, and its message
  consumer,      \* the goroutine of Consume, and the message it has taken
  delivery       \* per worker: the delivery it has not settled

queueVars == <<channel, deadLetters, seen, closed, cancelled, publisher, consumer, delivery>>

Message == [job: Jobs, attempt: 1..MaxAttempts]

Init ==
  /\ channel = <<>>
  /\ deadLetters = <<>>
  /\ seen = {}
  /\ closed = FALSE
  /\ cancelled = FALSE
  /\ publisher = [p \in Publishers |-> [pc |-> "idle", message |-> <<>>]]
  /\ consumer = [pc |-> "waiting", message |-> <<>>]
  /\ delivery = [w \in Workers |-> [pc |-> "none", message |-> <<>>]]

-----------------------------------------------------------------------------
(* enqueue and forget *)

\* Mutant: a closed queue is not looked at.
EnqueuesAlways(message) ==
  /\ Len(channel) < BufferSize
  /\ channel' = Append(channel, message)

\* A full channel, a closed queue and a done context are errors.  When the
\* context is done and there is room, select takes either branch.
Enqueues(message) ==
  /\ ~closed
  /\ Len(channel) < BufferSize
  /\ channel' = Append(channel, message)

EnqueueFails ==
  /\ closed \/ cancelled \/ Len(channel) >= BufferSize
  /\ UNCHANGED channel

Forgets(j) == seen' = seen \ {j}

-----------------------------------------------------------------------------
(* Publish *)

PublisherAt(p, pc, message) ==
  publisher' = [publisher EXCEPT ![p] = [pc |-> pc, message |-> message]]

\* Mutant: the set of ids is not consulted.
PublishUnseen(p, message) ==
  /\ publisher[p].pc = "idle"
  /\ \/ closed /\ PublisherAt(p, "failed", message) /\ UNCHANGED seen
     \/ ~closed /\ PublisherAt(p, "enqueue", message) /\ seen' = seen \cup {message.job}
  /\ UNCHANGED <<channel, deadLetters, closed, cancelled, consumer, delivery>>

\* The first critical section: a closed queue refuses, an id that is inside
\* counts as published, any other id is remembered.
Publish(p, message) ==
  /\ publisher[p].pc = "idle"
  /\ \/ closed /\ PublisherAt(p, "failed", message) /\ UNCHANGED seen
     \/ /\ ~closed
        /\ message.job \in seen
        /\ PublisherAt(p, "published", message)
        /\ UNCHANGED seen
     \/ /\ ~closed
        /\ message.job \notin seen
        /\ PublisherAt(p, "enqueue", message)
        /\ seen' = seen \cup {message.job}
  /\ UNCHANGED <<channel, deadLetters, closed, cancelled, consumer, delivery>>

PublishEnqueue(p) ==
  /\ publisher[p].pc = "enqueue"
  /\ \/ Enqueues(publisher[p].message) /\ PublisherAt(p, "published", publisher[p].message)
     \/ EnqueueFails /\ PublisherAt(p, "undo", publisher[p].message)
  /\ UNCHANGED <<deadLetters, seen, closed, cancelled, consumer, delivery>>

\* Mutant: the id of a message that was not enqueued stays remembered.
PublishLeavesSeen(p) ==
  /\ publisher[p].pc = "undo"
  /\ PublisherAt(p, "failed", publisher[p].message)
  /\ UNCHANGED <<channel, deadLetters, seen, closed, cancelled, consumer, delivery>>

PublishUndo(p) ==
  /\ publisher[p].pc = "undo"
  /\ Forgets(publisher[p].message.job)
  /\ PublisherAt(p, "failed", publisher[p].message)
  /\ UNCHANGED <<channel, deadLetters, closed, cancelled, consumer, delivery>>

Returns(p) ==
  /\ publisher[p].pc \in {"published", "failed"}
  /\ PublisherAt(p, "idle", <<>>)
  /\ UNCHANGED <<channel, deadLetters, seen, closed, cancelled, consumer, delivery>>

-----------------------------------------------------------------------------
(* Consume *)

Take ==
  /\ consumer.pc = "waiting"
  /\ channel # <<>>
  /\ consumer' = [pc |-> "holding", message |-> Head(channel)]
  /\ channel' = Tail(channel)
  /\ UNCHANGED <<deadLetters, seen, closed, cancelled, publisher, delivery>>

HandOver(w) ==
  /\ consumer.pc = "holding"
  /\ delivery[w].pc = "none"
  /\ delivery' = [delivery EXCEPT ![w] = [pc |-> "held", message |-> consumer.message]]
  /\ consumer' = [pc |-> "waiting", message |-> <<>>]
  /\ UNCHANGED <<channel, deadLetters, seen, closed, cancelled, publisher>>

\* The goroutine returns when the context is done, with a message it may have
\* taken, or when the closed channel has been drained.
ConsumerStops ==
  /\ consumer.pc # "stopped"
  /\ cancelled \/ (consumer.pc = "waiting" /\ closed /\ channel = <<>>)
  /\ consumer' = [pc |-> "stopped", message |-> <<>>]
  /\ UNCHANGED <<channel, deadLetters, seen, closed, cancelled, publisher, delivery>>

-----------------------------------------------------------------------------
(* The settlements of a delivery *)

Settled(w) == delivery' = [delivery EXCEPT ![w] = [pc |-> "none", message |-> <<>>]]

Ack(w) ==
  /\ delivery[w].pc = "held"
  /\ Forgets(delivery[w].message.job)
  /\ Settled(w)
  /\ UNCHANGED <<channel, deadLetters, closed, cancelled, publisher, consumer>>

\* Requeue, or Nack with requeue of a message that may be tried again; an error
\* of enqueue is followed by forget.
PutBack(w, message) ==
  /\ delivery[w].pc = "held"
  /\ \/ Enqueues(message) /\ Settled(w)
     \/ EnqueueFails /\ delivery' = [delivery EXCEPT ![w].pc = "forget"]
  /\ UNCHANGED <<deadLetters, seen, closed, cancelled, publisher, consumer>>

Requeue(w) == PutBack(w, delivery[w].message)

Retryable(w) == delivery[w].message.attempt < MaxAttempts

NackRequeue(w) ==
  /\ delivery[w].pc = "held"
  /\ Retryable(w)
  /\ PutBack(w, [delivery[w].message EXCEPT !.attempt = @ + 1])

ForgetUnqueued(w) ==
  /\ delivery[w].pc = "forget"
  /\ Forgets(delivery[w].message.job)
  /\ Settled(w)
  /\ UNCHANGED <<channel, deadLetters, closed, cancelled, publisher, consumer>>

\* Nack without requeue, or of the last attempt: a full dead-letter channel drops
\* the message, and the id is forgotten either way.
NackDead(w) ==
  /\ delivery[w].pc = "held"
  /\ deadLetters' = IF Len(deadLetters) < BufferSize
                    THEN Append(deadLetters, delivery[w].message) ELSE deadLetters
  /\ Forgets(delivery[w].message.job)
  /\ Settled(w)
  /\ UNCHANGED <<channel, closed, cancelled, publisher, consumer>>

\* The worker returns without settling because the context is done.
Abandon(w) ==
  /\ cancelled
  /\ delivery[w].pc = "held"
  /\ Settled(w)
  /\ UNCHANGED <<channel, deadLetters, seen, closed, cancelled, publisher, consumer>>

-----------------------------------------------------------------------------
(* Shutdown: the context is cancelled, then Close *)

Cancel ==
  /\ ~cancelled
  /\ cancelled' = TRUE
  /\ UNCHANGED <<channel, deadLetters, seen, closed, publisher, consumer, delivery>>

Close ==
  /\ ~closed
  /\ closed' = TRUE
  /\ UNCHANGED <<channel, deadLetters, seen, cancelled, publisher, consumer, delivery>>

PublisherStep(p) == PublishEnqueue(p) \/ PublishUndo(p) \/ Returns(p)

Settle(w) ==
  \/ Ack(w)
  \/ Requeue(w)
  \/ NackRequeue(w)
  \/ ForgetUnqueued(w)
  \/ NackDead(w)
  \/ Abandon(w)

Next ==
  \/ \E p \in Publishers : PublisherStep(p) \/ \E message \in Message : Publish(p, message)
  \/ Take
  \/ ConsumerStops
  \/ \E w \in Workers : HandOver(w) \/ Settle(w)
  \/ Cancel
  \/ Close

Spec == Init /\ [][Next]_queueVars

-----------------------------------------------------------------------------
(* Properties *)

TypeOK ==
  /\ channel \in Seq(Message) /\ Len(channel) <= BufferSize
  /\ deadLetters \in Seq(Message) /\ Len(deadLetters) <= BufferSize
  /\ seen \subseteq Jobs
  /\ closed \in BOOLEAN /\ cancelled \in BOOLEAN
  /\ publisher \in [Publishers -> [pc: {"idle", "enqueue", "undo", "published", "failed"},
                                   message: Message \cup {<<>>}]]
  /\ consumer \in [pc: {"waiting", "holding", "stopped"}, message: Message \cup {<<>>}]
  /\ delivery \in [Workers -> [pc: {"none", "held", "forget"}, message: Message \cup {<<>>}]]

\* Where the queue, the consumer and its clients have a message of job j.
Copies(j) ==
  {<<"publisher", p>> : p \in {q \in Publishers :
      publisher[q].pc \in {"enqueue", "undo"} /\ publisher[q].message.job = j}}
  \cup {<<"channel", i>> : i \in {k \in 1..Len(channel) : channel[k].job = j}}
  \cup (IF consumer.pc = "holding" /\ consumer.message.job = j THEN {<<"consumer">>} ELSE {})
  \cup {<<"worker", w>> : w \in {v \in Workers :
          delivery[v].pc # "none" /\ delivery[v].message.job = j}}

\* However Publish, redelivery and settlement interleave, a job is inside the
\* queue at most once, so no two workers handle the same job id.
OneCopyPerJob == \A j \in Jobs : Cardinality(Copies(j)) <= 1

\* seen holds exactly the ids that are inside: an id that is remembered without
\* a message would be refused for ever, a message without its id could be doubled.
\* Only shutdown drops messages and leaves their ids behind.
SeenIsExact ==
  \A j \in Jobs : /\ Copies(j) # {} => j \in seen
                  /\ j \in seen /\ ~cancelled => Copies(j) # {}

\* Publish, redelivery and settlement keep the buffer, its bound and the set of ids
\* in agreement.
QueueConsistent == TypeOK /\ OneCopyPerJob /\ SeenIsExact

\* Nothing is sent on the closed channel, which would panic.
NoSendAfterClose == [][closed => Len(channel') <= Len(channel)]_queueVars
=============================================================================
