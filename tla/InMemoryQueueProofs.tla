------------------------ MODULE InMemoryQueueProofs ------------------------
(***************************************************************************)
(* The in-memory queue holds a job once and remembers exactly the jobs it  *)
(* holds, for any number of jobs, publishers and workers and every size of *)
(* the buffer.                                                             *)
(***************************************************************************)
EXTENDS InMemoryQueue, FiniteSetTheorems, SequenceTheorems, TLAPS

\* Where a message of job j is.
InPublisher(p, j) == publisher[p].pc \in {"enqueue", "undo"} /\ publisher[p].message.job = j

InChannel(i, j) == i \in 1..Len(channel) /\ channel[i].job = j

InConsumer(j) == consumer.pc = "holding" /\ consumer.message.job = j

InWorker(w, j) == delivery[w].pc # "none" /\ delivery[w].message.job = j

Inside(j) ==
  \/ \E p \in Publishers : InPublisher(p, j)
  \/ \E i \in Nat : InChannel(i, j)
  \/ InConsumer(j)
  \/ \E w \in Workers : InWorker(w, j)

\* No two places have a message of job j.
Once(j) ==
  /\ \A p, q \in Publishers : InPublisher(p, j) /\ InPublisher(q, j) => p = q
  /\ \A i, k \in Nat : InChannel(i, j) /\ InChannel(k, j) => i = k
  /\ \A v, w \in Workers : InWorker(v, j) /\ InWorker(w, j) => v = w
  /\ \A p \in Publishers : InPublisher(p, j) =>
       ~InConsumer(j) /\ (\A i \in Nat : ~InChannel(i, j)) /\ \A w \in Workers : ~InWorker(w, j)
  /\ \A i \in Nat : InChannel(i, j) => ~InConsumer(j) /\ \A w \in Workers : ~InWorker(w, j)
  /\ \A w \in Workers : InWorker(w, j) => ~InConsumer(j)

\* Who has a message has one of the messages that are published.
MessagesInv ==
  /\ \A p \in Publishers : publisher[p].pc # "idle" => publisher[p].message \in Message
  /\ consumer.pc = "holding" => consumer.message \in Message
  /\ \A w \in Workers : delivery[w].pc # "none" => delivery[w].message \in Message

\* A job is remembered while it is inside, and inside while it is remembered unless
\* shutdown has dropped it.
RememberedInv ==
  \A j \in Jobs : /\ Once(j)
                  /\ Inside(j) => j \in seen
                  /\ j \in seen /\ ~cancelled => Inside(j)

QueueInv == TypeOK /\ MessagesInv /\ RememberedInv

-----------------------------------------------------------------------------
(* What a step does to the places *)

LEMMA ChannelGrows ==
  ASSUME TypeOK, NEW message \in Message, Enqueues(message)
  PROVE  /\ channel' \in Seq(Message) /\ Len(channel') = Len(channel) + 1
         /\ Len(channel) + 1 \in Nat /\ Len(channel') <= BufferSize
         /\ \A i \in Nat : \A j \in Jobs :
              InChannel(i, j)' <=>
                InChannel(i, j) \/ (i = Len(channel) + 1 /\ message.job = j)
<1>1. channel \in Seq(Message) /\ Len(channel) \in Nat /\ BufferSize \in Nat
  BY LenProperties, QueueAssumption DEF TypeOK
<1>2. /\ channel' = Append(channel, message) /\ Len(channel) < BufferSize
  BY DEF Enqueues
<1>3. /\ channel' \in Seq(Message) /\ Len(channel') = Len(channel) + 1
      /\ \A i \in 1..Len(channel) : channel'[i] = channel[i]
      /\ channel'[Len(channel) + 1] = message
  BY <1>1, <1>2, AppendProperties
<1> QED  BY <1>1, <1>2, <1>3 DEF InChannel

LEMMA ChannelShrinks ==
  ASSUME TypeOK, channel # <<>>, channel' = Tail(channel)
  PROVE  /\ channel' \in Seq(Message) /\ Len(channel') <= Len(channel)
         /\ Len(channel') <= BufferSize
         /\ Head(channel) \in Message
         /\ \A i \in Nat : \A j \in Jobs : InChannel(i, j)' <=> i > 0 /\ InChannel(i + 1, j)
         /\ \A j \in Jobs : InChannel(1, j) <=> Head(channel).job = j
<1>1. channel \in Seq(Message) /\ Len(channel) \in Nat /\ BufferSize \in Nat
      /\ Len(channel) <= BufferSize
  BY LenProperties, QueueAssumption DEF TypeOK
<1>2. /\ Tail(channel) \in Seq(Message) /\ Len(Tail(channel)) = Len(channel) - 1
      /\ Head(channel) \in Message /\ Head(channel) = channel[1]
      /\ \A i \in 1..Len(Tail(channel)) : Tail(channel)[i] = channel[i + 1]
  BY <1>1, HeadTailProperties
<1>3. Len(channel) > 0
  BY <1>1, EmptySeq
<1> QED  BY <1>1, <1>2, <1>3 DEF InChannel

LEMMA PublisherMoves ==
  ASSUME TypeOK, NEW p \in Publishers, NEW pc, NEW message, PublisherAt(p, pc, message)
  PROVE  \A q \in Publishers : \A j \in Jobs :
           InPublisher(q, j)' <=> IF q = p THEN pc \in {"enqueue", "undo"} /\ message.job = j
                                           ELSE InPublisher(q, j)
  BY DEF PublisherAt, TypeOK, InPublisher

LEMMA DeliveryMoves ==
  ASSUME TypeOK, NEW w \in Workers, NEW pc, NEW message,
         delivery' = [delivery EXCEPT ![w] = [pc |-> pc, message |-> message]]
  PROVE  \A v \in Workers : \A j \in Jobs :
           InWorker(v, j)' <=> IF v = w THEN pc # "none" /\ message.job = j ELSE InWorker(v, j)
  BY DEF TypeOK, InWorker

\* A step that leaves a variable alone leaves the places in it alone.
LEMMA PlacesStay ==
  /\ UNCHANGED publisher =>
       \A p \in Publishers : \A j \in Jobs : InPublisher(p, j)' <=> InPublisher(p, j)
  /\ UNCHANGED channel => \A i \in Nat : \A j \in Jobs : InChannel(i, j)' <=> InChannel(i, j)
  /\ UNCHANGED consumer => \A j \in Jobs : InConsumer(j)' <=> InConsumer(j)
  /\ UNCHANGED delivery => \A w \in Workers : \A j \in Jobs : InWorker(w, j)' <=> InWorker(w, j)
  BY DEF InPublisher, InChannel, InConsumer, InWorker

-----------------------------------------------------------------------------
(* The type of a step *)

LEMMA AttemptCounts ==
  ASSUME NEW m \in Message, m.attempt < MaxAttempts
  PROVE  /\ [m EXCEPT !.attempt = @ + 1] \in Message
         /\ [m EXCEPT !.attempt = @ + 1].job = m.job
  BY QueueAssumption DEF Message

LEMMA PublisherTyped ==
  ASSUME TypeOK, MessagesInv, NEW p \in Publishers,
         NEW pc \in {"idle", "enqueue", "undo", "published", "failed"},
         NEW message \in Message \cup {<<>>}, pc # "idle" => message \in Message,
         PublisherAt(p, pc, message)
  PROVE  /\ publisher' \in [Publishers -> [pc: {"idle", "enqueue", "undo", "published", "failed"},
                                           message: Message \cup {<<>>}]]
         /\ \A q \in Publishers : publisher'[q].pc # "idle" => publisher'[q].message \in Message
<1> DEFINE row == [pc |-> pc, message |-> message]
<1>1. row \in [pc: {"idle", "enqueue", "undo", "published", "failed"},
               message: Message \cup {<<>>}]
  OBVIOUS
<1>2. row.pc = pc /\ row.message = message
  OBVIOUS
<1>3. publisher' = [publisher EXCEPT ![p] = row]
  BY DEF PublisherAt
<1> HIDE DEF row
<1> QED  BY <1>1, <1>2, <1>3 DEF TypeOK, MessagesInv

LEMMA DeliveryTyped ==
  ASSUME TypeOK, MessagesInv, NEW w \in Workers, NEW pc \in {"none", "held", "forget"},
         NEW message \in Message \cup {<<>>}, pc # "none" => message \in Message,
         delivery' = [delivery EXCEPT ![w] = [pc |-> pc, message |-> message]]
  PROVE  /\ delivery' \in [Workers -> [pc: {"none", "held", "forget"},
                                       message: Message \cup {<<>>}]]
         /\ \A v \in Workers : delivery'[v].pc # "none" => delivery'[v].message \in Message
<1> DEFINE row == [pc |-> pc, message |-> message]
<1>1. row \in [pc: {"none", "held", "forget"}, message: Message \cup {<<>>}]
  OBVIOUS
<1>2. row.pc = pc /\ row.message = message
  OBVIOUS
<1>3. delivery' = [delivery EXCEPT ![w] = row]
  OBVIOUS
<1> HIDE DEF row
<1> QED  BY <1>1, <1>2, <1>3 DEF TypeOK, MessagesInv

\* The delivery of a worker that could not put its message back.
LEMMA ForgetIsRow ==
  ASSUME TypeOK, NEW w \in Workers, delivery' = [delivery EXCEPT ![w].pc = "forget"]
  PROVE  delivery' = [delivery EXCEPT ![w] = [pc |-> "forget", message |-> delivery[w].message]]
<1>1. delivery[w] \in [pc: {"none", "held", "forget"}, message: Message \cup {<<>>}]
  BY DEF TypeOK
<1> DEFINE row == [delivery[w] EXCEPT !.pc = "forget"]
<1>2. row = [pc |-> "forget", message |-> delivery[w].message]
  BY <1>1
<1>3. delivery' = [delivery EXCEPT ![w] = row]
  OBVIOUS
<1> QED  BY ZenonT(30), <1>2, <1>3

-----------------------------------------------------------------------------
(* The type is kept *)

\* What an action leaves alone keeps its type.
LEMMA TypeStays ==
  ASSUME TypeOK, MessagesInv
  PROVE  /\ UNCHANGED channel => channel' \in Seq(Message) /\ Len(channel') <= BufferSize
         /\ UNCHANGED deadLetters =>
              deadLetters' \in Seq(Message) /\ Len(deadLetters') <= BufferSize
         /\ UNCHANGED seen => seen' \subseteq Jobs
         /\ UNCHANGED closed => closed' \in BOOLEAN
         /\ UNCHANGED cancelled => cancelled' \in BOOLEAN
         /\ UNCHANGED publisher =>
              /\ publisher' \in [Publishers -> [pc: {"idle", "enqueue", "undo", "published",
                                                     "failed"}, message: Message \cup {<<>>}]]
              /\ \A q \in Publishers :
                   publisher'[q].pc # "idle" => publisher'[q].message \in Message
         /\ UNCHANGED consumer =>
              /\ consumer' \in [pc: {"waiting", "holding", "stopped"},
                                message: Message \cup {<<>>}]
              /\ consumer'.pc = "holding" => consumer'.message \in Message
         /\ UNCHANGED delivery =>
              /\ delivery' \in [Workers -> [pc: {"none", "held", "forget"},
                                            message: Message \cup {<<>>}]]
              /\ \A v \in Workers : delivery'[v].pc # "none" => delivery'[v].message \in Message
  BY DEF TypeOK, MessagesInv

LEMMA PublishersKeepType ==
  ASSUME TypeOK, MessagesInv, NEW p \in Publishers,
         PublisherStep(p) \/ \E message \in Message : Publish(p, message)
  PROVE  TypeOK' /\ MessagesInv'
<1>1. ASSUME NEW message \in Message, Publish(p, message)  PROVE TypeOK' /\ MessagesInv'
  <2>1. PICK pc \in {"failed", "published", "enqueue"} : PublisherAt(p, pc, message)
    BY <1>1 DEF Publish
  <2>2. seen' \subseteq Jobs
    BY <1>1 DEF Publish, TypeOK, Message
  <2> QED  BY ZenonT(30), <1>1, <2>1, <2>2, PublisherTyped, TypeStays DEF Publish, TypeOK, MessagesInv
<1>2. CASE PublishEnqueue(p)
  <2>1. publisher[p].message \in Message
    BY <1>2 DEF PublishEnqueue, MessagesInv
  <2>2. PICK pc \in {"published", "undo"} : PublisherAt(p, pc, publisher[p].message)
    BY <1>2 DEF PublishEnqueue
  <2>3. channel' \in Seq(Message) /\ Len(channel') <= BufferSize
    BY ZenonT(30), <1>2, <2>1, ChannelGrows, TypeStays DEF PublishEnqueue, EnqueueFails
  <2> QED  BY ZenonT(30), <1>2, <2>1, <2>2, <2>3, PublisherTyped, TypeStays
           DEF PublishEnqueue, TypeOK, MessagesInv
<1>3. CASE PublishUndo(p)
  <2>1. publisher[p].message \in Message /\ seen' \subseteq Jobs
    BY <1>3 DEF PublishUndo, MessagesInv, Forgets, TypeOK
  <2> QED  BY <1>3, <2>1, PublisherTyped, TypeStays DEF PublishUndo, TypeOK, MessagesInv
<1>4. CASE Returns(p)
  BY <1>4, PublisherTyped, TypeStays DEF Returns, TypeOK, MessagesInv
<1> QED  BY ZenonT(30), <1>1, <1>2, <1>3, <1>4 DEF PublisherStep

LEMMA ConsumerKeepsType ==
  ASSUME TypeOK, MessagesInv, Take \/ ConsumerStops \/ \E w \in Workers : HandOver(w)
  PROVE  TypeOK' /\ MessagesInv'
<1>1. CASE Take
  BY ZenonT(30), <1>1, ChannelShrinks, TypeStays DEF Take, TypeOK, MessagesInv
<1>2. CASE ConsumerStops
  BY ZenonT(30), <1>2, TypeStays DEF ConsumerStops, TypeOK, MessagesInv
<1>3. ASSUME NEW w \in Workers, HandOver(w)  PROVE TypeOK' /\ MessagesInv'
  <2>1. consumer.message \in Message
    BY <1>3 DEF HandOver, MessagesInv
  <2> QED  BY ZenonT(30), <1>3, <2>1, DeliveryTyped, TypeStays DEF HandOver, TypeOK, MessagesInv
<1> QED  BY <1>1, <1>2, <1>3

LEMMA PutBackKeepsType ==
  ASSUME TypeOK, MessagesInv, NEW w \in Workers, NEW message \in Message, PutBack(w, message)
  PROVE  TypeOK' /\ MessagesInv'
<1>1. delivery[w].message \in Message
  BY DEF PutBack, MessagesInv
<1>2. channel' \in Seq(Message) /\ Len(channel') <= BufferSize
  BY ChannelGrows, TypeStays DEF PutBack, EnqueueFails
<1>3. PICK pc \in {"none", "forget"}, m \in {<<>>, delivery[w].message} :
        /\ delivery' = [delivery EXCEPT ![w] = [pc |-> pc, message |-> m]]
        /\ pc # "none" => m = delivery[w].message
  BY ForgetIsRow DEF PutBack, Settled
<1> QED  BY <1>1, <1>2, <1>3, DeliveryTyped, TypeStays DEF PutBack, TypeOK, MessagesInv

LEMMA SettlementsKeepType ==
  ASSUME TypeOK, MessagesInv, NEW w \in Workers, Settle(w)
  PROVE  TypeOK' /\ MessagesInv'
<1>1. delivery[w].message \in Message
  BY DEF Settle, Ack, Requeue, NackRequeue, ForgetUnqueued, NackDead, Abandon, PutBack, MessagesInv
<1>2. CASE Requeue(w)
  BY <1>1, <1>2, PutBackKeepsType DEF Requeue
<1>3. CASE NackRequeue(w)
  <2>1. [delivery[w].message EXCEPT !.attempt = @ + 1] \in Message
    BY ZenonT(30), <1>1, <1>3, AttemptCounts DEF NackRequeue, Retryable
  <2> QED  BY <1>3, <2>1, PutBackKeepsType DEF NackRequeue
<1>4. CASE Ack(w) \/ ForgetUnqueued(w) \/ Abandon(w)
  <2>1. /\ Settled(w)
        /\ UNCHANGED <<channel, deadLetters, closed, cancelled, publisher, consumer>>
        /\ seen' \subseteq Jobs
    BY ZenonT(30), <1>4 DEF Ack, ForgetUnqueued, Abandon, Forgets, TypeOK
  <2> QED  BY ZenonT(30), <2>1, DeliveryTyped, TypeStays DEF Settled, TypeOK, MessagesInv
<1>5. CASE NackDead(w)
  <2>1. deadLetters' \in Seq(Message) /\ Len(deadLetters') <= BufferSize
    <3>1. deadLetters \in Seq(Message) /\ Len(deadLetters) \in Nat /\ BufferSize \in Nat
      BY LenProperties, QueueAssumption DEF TypeOK
    <3>2. /\ Append(deadLetters, delivery[w].message) \in Seq(Message)
          /\ Len(Append(deadLetters, delivery[w].message)) = Len(deadLetters) + 1
      BY <1>1, <3>1, AppendProperties
    <3> QED  BY <1>5, <3>1, <3>2 DEF NackDead, TypeOK
  <2>2. seen' \subseteq Jobs
    BY <1>5 DEF NackDead, Forgets, TypeOK
  <2> QED  BY ZenonT(30), <1>5, <2>1, <2>2, DeliveryTyped, TypeStays DEF NackDead, Settled, TypeOK, MessagesInv
<1> QED  BY <1>2, <1>3, <1>4, <1>5 DEF Settle

LEMMA StepKeepsType ==
  ASSUME TypeOK, MessagesInv, Next
  PROVE  TypeOK' /\ MessagesInv'
<1>1. CASE Cancel
  <2>1. cancelled' \in BOOLEAN
    BY <1>1, Zenon DEF Cancel
  <2> QED  BY <1>1, <2>1, TypeStays DEF Cancel, TypeOK, MessagesInv
<1>2. CASE Close
  <2>1. closed' \in BOOLEAN
    BY <1>2, Zenon DEF Close
  <2> QED  BY <1>2, <2>1, TypeStays DEF Close, TypeOK, MessagesInv
<1> QED  BY ZenonT(30), <1>1, <1>2, PublishersKeepType, ConsumerKeepsType, SettlementsKeepType DEF Next

-----------------------------------------------------------------------------
(* A job stays in one place, and is remembered there *)

\* A step that moves no message of any job.
LEMMA NothingMoves ==
  ASSUME RememberedInv, UNCHANGED seen, cancelled => cancelled',
         UNCHANGED channel,
         \A p \in Publishers : \A j \in Jobs : InPublisher(p, j)' <=> InPublisher(p, j),
         \A j \in Jobs : InConsumer(j)' <=> InConsumer(j),
         \A w \in Workers : \A j \in Jobs : InWorker(w, j)' <=> InWorker(w, j)
  PROVE  RememberedInv'
<1> SUFFICES ASSUME NEW j \in Jobs
             PROVE  /\ Once(j)' /\ (Inside(j)' => j \in seen')
                    /\ j \in seen' /\ ~cancelled' => Inside(j)'
  BY DEF RememberedInv
<1>1. /\ Once(j) /\ (Inside(j) => j \in seen) /\ (j \in seen /\ ~cancelled => Inside(j))
  BY DEF RememberedInv
<1>2. \A i \in Nat : InChannel(i, j)' <=> InChannel(i, j)
  BY PlacesStay
<1>3. Once(j)'
  BY <1>1, <1>2 DEF Once
<1>4. Inside(j)' <=> Inside(j)
  BY <1>2 DEF Inside
<1> QED  BY <1>1, <1>3, <1>4

\* A worker settles its delivery: the job is forgotten with its message, or the
\* message is dropped by a shutdown that leaves its id behind.
LEMMA DeliveryEnds ==
  ASSUME TypeOK, MessagesInv, RememberedInv, NEW w \in Workers, delivery[w].pc # "none",
         Settled(w), Forgets(delivery[w].message.job) \/ (cancelled /\ UNCHANGED seen),
         UNCHANGED <<channel, cancelled, publisher, consumer>>
  PROVE  RememberedInv'
<1> DEFINE m == delivery[w].message.job
<1>1. m \in Jobs /\ InWorker(w, m)
  BY DEF MessagesInv, InWorker, Message
<1>2. \A v \in Workers : \A k \in Jobs : InWorker(v, k)' <=> v # w /\ InWorker(v, k)
  BY ZenonT(30), DeliveryMoves DEF Settled
<1>3. \A k \in Jobs : k # m => ~InWorker(w, k)
  BY DEF InWorker
<1> SUFFICES ASSUME NEW j \in Jobs
             PROVE  /\ Once(j)' /\ (Inside(j)' => j \in seen')
                    /\ j \in seen' /\ ~cancelled' => Inside(j)'
  BY DEF RememberedInv
<1>4. /\ Once(j) /\ (Inside(j) => j \in seen) /\ (j \in seen /\ ~cancelled => Inside(j))
  BY DEF RememberedInv
<1>5. seen' = seen \ {m} \/ (cancelled /\ seen' = seen)
  BY ZenonT(30) DEF Forgets
<1> HIDE DEF m
<1>6. Once(j)'
  BY ZenonT(30), <1>2, <1>4, PlacesStay DEF Once
<1>7. Inside(j)' => Inside(j)
  BY <1>2, PlacesStay DEF Inside
<1>8. CASE j = m
  <2>1. ~Inside(j)'
    BY <1>1, <1>2, <1>4, <1>8, PlacesStay DEF Once, Inside
  <2> QED  BY ZenonT(30), <1>5, <1>6, <1>8, <2>1
<1>9. CASE j # m
  <2>1. Inside(j) => Inside(j)'
    BY <1>2, <1>3, <1>9, PlacesStay DEF Inside
  <2> QED  BY ZenonT(30), <1>4, <1>5, <1>6, <1>7, <1>9, <2>1
<1> QED  BY <1>8, <1>9

LEMMA PublishRemembers ==
  ASSUME TypeOK, MessagesInv, RememberedInv, NEW p \in Publishers,
         NEW message \in Message, Publish(p, message)
  PROVE  RememberedInv'
<1>1. \A k \in Jobs : ~InPublisher(p, k)
  BY DEF Publish, InPublisher
<1>2. UNCHANGED <<channel, cancelled, consumer, delivery>>
  BY DEF Publish
<1>3. CASE \E pc \in {"failed", "published"} : PublisherAt(p, pc, message) /\ UNCHANGED seen
  <2>1. \A q \in Publishers : \A k \in Jobs : InPublisher(q, k)' <=> InPublisher(q, k)
    BY <1>1, <1>3, PublisherMoves
  <2> QED  BY <1>2, <1>3, <2>1, PlacesStay, NothingMoves
<1>4. CASE /\ message.job \notin seen
           /\ PublisherAt(p, "enqueue", message)
           /\ seen' = seen \cup {message.job}
  <2>1. \A q \in Publishers : \A k \in Jobs :
          InPublisher(q, k)' <=> InPublisher(q, k) \/ (q = p /\ k = message.job)
    BY <1>1, <1>4, PublisherMoves
  <2>2. message.job \in Jobs
    BY DEF Message
  <2> SUFFICES ASSUME NEW j \in Jobs
               PROVE  /\ Once(j)' /\ (Inside(j)' => j \in seen')
                      /\ j \in seen' /\ ~cancelled' => Inside(j)'
    BY DEF RememberedInv
  <2>3. /\ Once(j) /\ (Inside(j) => j \in seen) /\ (j \in seen /\ ~cancelled => Inside(j))
    BY DEF RememberedInv
  <2>4. CASE j = message.job
    <3>1. ~Inside(j)
      BY <1>4, <2>3, <2>4
    <3>2. Once(j)'
      BY <1>2, <2>1, <3>1, PlacesStay DEF Once, Inside
    <3>3. Inside(j)' /\ j \in seen'
      BY <1>4, <2>1, <2>4 DEF Inside
    <3> QED  BY <3>2, <3>3
  <2>5. CASE j # message.job
    <3>1. Once(j)'
      BY <1>2, <2>1, <2>3, <2>5, PlacesStay DEF Once
    <3>2. Inside(j)' <=> Inside(j)
      BY <1>2, <2>1, <2>5, PlacesStay DEF Inside
    <3> QED  BY ZenonT(30), <1>2, <1>4, <2>3, <2>5, <3>1, <3>2
  <2> QED  BY <2>4, <2>5
<1> QED  BY <1>3, <1>4 DEF Publish

LEMMA PublishEnqueueRemembers ==
  ASSUME TypeOK, MessagesInv, RememberedInv, NEW p \in Publishers, PublishEnqueue(p)
  PROVE  RememberedInv'
<1> DEFINE m == publisher[p].message.job
<1>1. publisher[p].message \in Message /\ m \in Jobs
  BY DEF PublishEnqueue, MessagesInv, Message
<1>2. \A k \in Jobs : InPublisher(p, k) <=> k = m
  BY DEF PublishEnqueue, InPublisher
<1>3. UNCHANGED <<seen, cancelled, consumer, delivery>>
  BY DEF PublishEnqueue
<1>4. CASE EnqueueFails /\ PublisherAt(p, "undo", publisher[p].message)
  <2>1. \A q \in Publishers : \A k \in Jobs : InPublisher(q, k)' <=> InPublisher(q, k)
    BY <1>2, <1>4, PublisherMoves
  <2> QED  BY <1>3, <1>4, <2>1, PlacesStay, NothingMoves DEF EnqueueFails
<1>5. CASE Enqueues(publisher[p].message) /\ PublisherAt(p, "published", publisher[p].message)
  <2>1. \A q \in Publishers : \A k \in Jobs : InPublisher(q, k)' <=> q # p /\ InPublisher(q, k)
    BY <1>5, PublisherMoves
  <2> DEFINE last == Len(channel) + 1
  <2>2. /\ last \in Nat
        /\ \A i \in Nat : \A k \in Jobs :
             InChannel(i, k)' <=> InChannel(i, k) \/ (i = last /\ k = m)
    BY <1>1, <1>5, ChannelGrows
  <2> HIDE DEF last, m
  <2> SUFFICES ASSUME NEW j \in Jobs
               PROVE  /\ Once(j)' /\ (Inside(j)' => j \in seen')
                      /\ j \in seen' /\ ~cancelled' => Inside(j)'
    BY DEF RememberedInv
  <2>3. /\ Once(j) /\ (Inside(j) => j \in seen) /\ (j \in seen /\ ~cancelled => Inside(j))
    BY DEF RememberedInv
  <2>4. Once(j)'
    BY ZenonT(30), <1>2, <1>3, <2>1, <2>2, <2>3, PlacesStay DEF Once
  <2>5. Inside(j)' <=> Inside(j)
    BY <1>2, <1>3, <2>1, <2>2, PlacesStay DEF Inside
  <2> QED  BY <1>3, <2>3, <2>4, <2>5
<1> QED  BY <1>4, <1>5 DEF PublishEnqueue

LEMMA PublishUndoRemembers ==
  ASSUME TypeOK, MessagesInv, RememberedInv, NEW p \in Publishers, PublishUndo(p)
  PROVE  RememberedInv'
<1> DEFINE m == publisher[p].message.job
<1>1. \A k \in Jobs : InPublisher(p, k) <=> k = m
  BY DEF PublishUndo, InPublisher
<1>2. UNCHANGED <<channel, cancelled, consumer, delivery>> /\ seen' = seen \ {m}
  BY DEF PublishUndo, Forgets
<1>3. \A q \in Publishers : \A k \in Jobs : InPublisher(q, k)' <=> q # p /\ InPublisher(q, k)
  BY PublisherMoves DEF PublishUndo
<1> HIDE DEF m
<1> SUFFICES ASSUME NEW j \in Jobs
             PROVE  /\ Once(j)' /\ (Inside(j)' => j \in seen')
                    /\ j \in seen' /\ ~cancelled' => Inside(j)'
  BY DEF RememberedInv
<1>4. /\ Once(j) /\ (Inside(j) => j \in seen) /\ (j \in seen /\ ~cancelled => Inside(j))
  BY DEF RememberedInv
<1>5. Once(j)'
  BY ZenonT(30), <1>2, <1>3, <1>4, PlacesStay DEF Once
<1>6. Inside(j)' <=> j # m /\ Inside(j)
  BY <1>1, <1>2, <1>3, <1>4, PlacesStay DEF Inside, Once
<1> QED  BY <1>2, <1>4, <1>5, <1>6

LEMMA TakeRemembers ==
  ASSUME TypeOK, MessagesInv, RememberedInv, Take
  PROVE  RememberedInv'
<1> DEFINE m == Head(channel).job
<1>1. /\ \A i \in Nat : \A k \in Jobs : InChannel(i, k)' <=> i > 0 /\ InChannel(i + 1, k)
      /\ \A k \in Jobs : InChannel(1, k) <=> k = m
  BY ZenonT(30), ChannelShrinks DEF Take
<1>2. \A k \in Jobs : ~InConsumer(k) /\ (InConsumer(k)' <=> k = m)
  BY DEF Take, InConsumer
<1>3. UNCHANGED <<seen, cancelled, publisher, delivery>>
  BY DEF Take
<1> HIDE DEF m
<1> SUFFICES ASSUME NEW j \in Jobs
             PROVE  /\ Once(j)' /\ (Inside(j)' => j \in seen')
                    /\ j \in seen' /\ ~cancelled' => Inside(j)'
  BY DEF RememberedInv
<1>4. /\ Once(j) /\ (Inside(j) => j \in seen) /\ (j \in seen /\ ~cancelled => Inside(j))
  BY DEF RememberedInv
<1>5. \A i \in Nat : InChannel(i, j) => i = 1 \/ (i - 1 \in Nat /\ InChannel(i - 1, j)')
  <2> SUFFICES ASSUME NEW i \in Nat, InChannel(i, j), i # 1
               PROVE  i - 1 \in Nat /\ InChannel(i - 1, j)'
    OBVIOUS
  <2>1. i > 1
    BY DEF InChannel
  <2>2. i - 1 \in Nat /\ i - 1 > 0 /\ (i - 1) + 1 = i
    BY <2>1
  <2> QED  BY <1>1, <2>2
<1>6. \A i \in Nat : InChannel(i, j)' => i > 0 /\ i + 1 \in Nat /\ InChannel(i + 1, j)
  BY <1>1
<1>7. Once(j)'
  <2>1. \A i, k \in Nat : InChannel(i, j)' /\ InChannel(k, j)' => i = k
    <3> SUFFICES ASSUME NEW i \in Nat, NEW k \in Nat, InChannel(i, j)', InChannel(k, j)'
                 PROVE  i = k
      OBVIOUS
    <3>1. i + 1 = k + 1
      BY <1>4, <1>6 DEF Once
    <3> QED  BY <3>1
  <2>2. InConsumer(j)' => \A i \in Nat : ~InChannel(i, j)'
    <3> SUFFICES ASSUME InConsumer(j)', NEW i \in Nat, InChannel(i, j)'
                 PROVE  FALSE
      OBVIOUS
    <3>1. InChannel(1, j) /\ InChannel(i + 1, j) /\ i > 0
      BY <1>1, <1>2, <1>6
    <3>2. i + 1 = 1
      BY <1>4, <3>1 DEF Once
    <3> QED  BY <3>1, <3>2
  <2>3. \A p \in Publishers : InPublisher(p, j)' =>
          ~InConsumer(j)' /\ \A i \in Nat : ~InChannel(i, j)'
    BY ZenonT(30), <1>1, <1>2, <1>3, <1>4, <1>6, PlacesStay DEF Once
  <2>4. \A w \in Workers : InWorker(w, j)' => ~InConsumer(j)' /\ \A i \in Nat : ~InChannel(i, j)'
    BY <1>1, <1>2, <1>3, <1>4, <1>6, PlacesStay DEF Once
  <2> QED  BY ZenonT(30), <1>3, <1>4, <2>1, <2>2, <2>3, <2>4, PlacesStay DEF Once
<1>8. Inside(j)' <=> Inside(j)
  <2>1. Inside(j)' => Inside(j)
    BY <1>1, <1>2, <1>3, <1>6, PlacesStay DEF Inside
  <2>2. Inside(j) => Inside(j)'
    BY ZenonT(30), <1>1, <1>2, <1>3, <1>5, PlacesStay DEF Inside
  <2> QED  BY <2>1, <2>2
<1> QED  BY ZenonT(30), <1>3, <1>4, <1>7, <1>8

LEMMA HandOverRemembers ==
  ASSUME TypeOK, MessagesInv, RememberedInv, NEW w \in Workers, HandOver(w)
  PROVE  RememberedInv'
<1> DEFINE m == consumer.message.job
<1>1. /\ \A k \in Jobs : ~InConsumer(k)' /\ (InConsumer(k) <=> k = m)
      /\ \A k \in Jobs : ~InWorker(w, k)
  BY DEF HandOver, InConsumer, InWorker
<1>2. \A v \in Workers : \A k \in Jobs : InWorker(v, k)' <=> InWorker(v, k) \/ (v = w /\ k = m)
  <2>1. \A v \in Workers : \A k \in Jobs :
          InWorker(v, k)' <=> IF v = w THEN "held" # "none" /\ m = k ELSE InWorker(v, k)
    BY DeliveryMoves, Zenon DEF HandOver
  <2> QED  BY <1>1, <2>1
<1>3. UNCHANGED <<seen, cancelled, publisher, channel>>
  BY DEF HandOver
<1> HIDE DEF m
<1> SUFFICES ASSUME NEW j \in Jobs
             PROVE  /\ Once(j)' /\ (Inside(j)' => j \in seen')
                    /\ j \in seen' /\ ~cancelled' => Inside(j)'
  BY DEF RememberedInv
<1>4. /\ Once(j) /\ (Inside(j) => j \in seen) /\ (j \in seen /\ ~cancelled => Inside(j))
  BY DEF RememberedInv
<1>5. Once(j)'
  BY ZenonT(30), <1>1, <1>2, <1>3, <1>4, PlacesStay DEF Once
<1>6. Inside(j)' <=> Inside(j)
  BY <1>1, <1>2, <1>3, PlacesStay DEF Inside
<1> QED  BY <1>3, <1>4, <1>5, <1>6

\* A consumer that stops drops a message only when the context is done.
LEMMA ConsumerStopRemembers ==
  ASSUME TypeOK, MessagesInv, RememberedInv, ConsumerStops
  PROVE  RememberedInv'
<1>1. /\ \A k \in Jobs : ~InConsumer(k)' /\ (InConsumer(k) => cancelled)
      /\ UNCHANGED <<seen, cancelled, publisher, channel, delivery>>
  BY DEF ConsumerStops, InConsumer
<1> SUFFICES ASSUME NEW j \in Jobs
             PROVE  /\ Once(j)' /\ (Inside(j)' => j \in seen')
                    /\ j \in seen' /\ ~cancelled' => Inside(j)'
  BY DEF RememberedInv
<1>2. /\ Once(j) /\ (Inside(j) => j \in seen) /\ (j \in seen /\ ~cancelled => Inside(j))
  BY DEF RememberedInv
<1>3. Once(j)'
  BY <1>1, <1>2, PlacesStay DEF Once
<1>4. (Inside(j)' => Inside(j)) /\ (~cancelled /\ Inside(j) => Inside(j)')
  BY <1>1, PlacesStay DEF Inside
<1> QED  BY <1>1, <1>2, <1>3, <1>4

LEMMA PutBackRemembers ==
  ASSUME TypeOK, MessagesInv, RememberedInv, NEW w \in Workers, NEW message \in Message,
         message.job = delivery[w].message.job, PutBack(w, message)
  PROVE  RememberedInv'
<1> DEFINE m == delivery[w].message.job
<1>1. m \in Jobs /\ \A k \in Jobs : InWorker(w, k) <=> k = m
  BY DEF PutBack, InWorker, Message
<1>2. UNCHANGED <<seen, cancelled, publisher, consumer>>
  BY DEF PutBack
<1>3. CASE EnqueueFails /\ delivery' = [delivery EXCEPT ![w].pc = "forget"]
  <2>1. \A v \in Workers : \A k \in Jobs : InWorker(v, k)' <=> InWorker(v, k)
    <3>1. delivery' = [delivery EXCEPT ![w] = [pc |-> "forget", message |-> delivery[w].message]]
      BY ZenonT(30), <1>3, ForgetIsRow
    <3>2. \A v \in Workers : \A k \in Jobs :
            InWorker(v, k)' <=> IF v = w THEN "forget" # "none" /\ m = k ELSE InWorker(v, k)
      BY <3>1, DeliveryMoves, Zenon
    <3> QED  BY <1>1, <3>2
  <2> QED  BY ZenonT(30), <1>2, <1>3, <2>1, PlacesStay, NothingMoves DEF EnqueueFails
<1>4. CASE Enqueues(message) /\ Settled(w)
  <2>1. \A v \in Workers : \A k \in Jobs : InWorker(v, k)' <=> v # w /\ InWorker(v, k)
    BY ZenonT(30), <1>4, DeliveryMoves DEF Settled
  <2> DEFINE last == Len(channel) + 1
  <2>2. /\ last \in Nat
        /\ \A i \in Nat : \A k \in Jobs :
             InChannel(i, k)' <=> InChannel(i, k) \/ (i = last /\ k = m)
    BY ZenonT(30), <1>4, ChannelGrows
  <2> HIDE DEF last, m
  <2> SUFFICES ASSUME NEW j \in Jobs
               PROVE  /\ Once(j)' /\ (Inside(j)' => j \in seen')
                      /\ j \in seen' /\ ~cancelled' => Inside(j)'
    BY DEF RememberedInv
  <2>3. /\ Once(j) /\ (Inside(j) => j \in seen) /\ (j \in seen /\ ~cancelled => Inside(j))
    BY DEF RememberedInv
  <2>4. Once(j)'
    BY ZenonT(30), <1>1, <1>2, <2>1, <2>2, <2>3, PlacesStay DEF Once
  <2>5. Inside(j)' <=> Inside(j)
    BY <1>1, <1>2, <2>1, <2>2, PlacesStay DEF Inside
  <2> QED  BY <1>2, <2>3, <2>4, <2>5
<1> QED  BY <1>3, <1>4 DEF PutBack

-----------------------------------------------------------------------------
(* The queue *)

LEMMA StepRemembers ==
  ASSUME TypeOK, MessagesInv, RememberedInv, Next
  PROVE  RememberedInv'
<1>1. ASSUME NEW p \in Publishers, Returns(p)  PROVE RememberedInv'
  <2>1. \A k \in Jobs : ~InPublisher(p, k)
    BY ZenonT(30), <1>1 DEF Returns, InPublisher
  <2>2. \A q \in Publishers : \A k \in Jobs : InPublisher(q, k)' <=> InPublisher(q, k)
    BY <1>1, <2>1, PublisherMoves DEF Returns
  <2> QED  BY <1>1, <2>2, PlacesStay, NothingMoves DEF Returns
<1>2. ASSUME NEW w \in Workers, Settle(w)  PROVE RememberedInv'
  <2>1. delivery[w].pc # "none" /\ delivery[w].message \in Message
    BY <1>2 DEF Settle, Ack, Requeue, NackRequeue, ForgetUnqueued, NackDead, Abandon, PutBack,
                MessagesInv
  <2>2. CASE Requeue(w)
    BY <2>1, <2>2, PutBackRemembers DEF Requeue
  <2>3. CASE NackRequeue(w)
    <3> DEFINE again == [delivery[w].message EXCEPT !.attempt = @ + 1]
    <3>1. again \in Message /\ again.job = delivery[w].message.job
      BY <2>1, <2>3, AttemptCounts DEF NackRequeue, Retryable
    <3>2. PutBack(w, again)
      BY ZenonT(30), <2>3 DEF NackRequeue
    <3> HIDE DEF again
    <3> QED  BY <3>1, <3>2, PutBackRemembers
  <2>4. CASE Ack(w) \/ ForgetUnqueued(w) \/ NackDead(w) \/ Abandon(w)
    BY ZenonT(30), <2>1, <2>4, DeliveryEnds DEF Ack, ForgetUnqueued, NackDead, Abandon
  <2> QED  BY <1>2, <2>2, <2>3, <2>4 DEF Settle
<1>3. CASE Cancel \/ Close
  BY <1>3, PlacesStay, NothingMoves DEF Cancel, Close
<1> QED  BY ZenonT(30), <1>1, <1>2, <1>3, PublishRemembers, PublishEnqueueRemembers, PublishUndoRemembers,
            TakeRemembers, HandOverRemembers, ConsumerStopRemembers
         DEF Next, PublisherStep

LEMMA InitQueueInv == Init => QueueInv
<1> SUFFICES ASSUME Init  PROVE QueueInv
  OBVIOUS
<1>1. TypeOK /\ MessagesInv
  <2>1. <<>> \in Seq(Message) /\ Len(<<>>) = 0
    BY EmptySeq
  <2>2. closed \in BOOLEAN /\ cancelled \in BOOLEAN
    BY Zenon DEF Init
  <2> QED  BY SMTT(30), <2>1, <2>2, QueueAssumption DEF Init, TypeOK, MessagesInv
<1>2. ASSUME NEW j \in Jobs  PROVE ~Inside(j) /\ j \notin seen
  BY DEF Init, Inside, InPublisher, InChannel, InConsumer, InWorker
<1>3. RememberedInv
  BY <1>2 DEF RememberedInv, Once, Inside
<1> QED  BY <1>1, <1>3 DEF QueueInv

LEMMA NextQueueInv == QueueInv /\ [Next]_queueVars => QueueInv'
<1> SUFFICES ASSUME QueueInv, [Next]_queueVars  PROVE QueueInv'
  OBVIOUS
<1> USE DEF QueueInv
<1>1. CASE Next
  BY <1>1, StepKeepsType, StepRemembers
<1>2. CASE UNCHANGED queueVars
  <2>1. TypeOK' /\ MessagesInv'
    BY <1>2, TypeStays DEF queueVars, TypeOK, MessagesInv
  <2>2. RememberedInv'
    BY <1>2, PlacesStay, NothingMoves DEF queueVars
  <2> QED  BY ZenonT(30), <2>1, <2>2
<1> QED  BY <1>1, <1>2

LEMMA QueueInvariant == Spec => []QueueInv
  BY InitQueueInv, NextQueueInv, PTL DEF Spec

-----------------------------------------------------------------------------
(* From the places to the copies that are counted *)

LEMMA CopyPlaces ==
  ASSUME TypeOK, NEW j \in Jobs, NEW x \in Copies(j)
  PROVE  \/ \E p \in Publishers : x = <<"publisher", p>> /\ InPublisher(p, j)
         \/ \E i \in Nat : x = <<"channel", i>> /\ InChannel(i, j)
         \/ x = <<"consumer">> /\ InConsumer(j)
         \/ \E w \in Workers : x = <<"worker", w>> /\ InWorker(w, j)
<1>1. Len(channel) \in Nat
  BY LenProperties DEF TypeOK
<1>2. CASE x \in {<<"publisher", p>> : p \in {q \in Publishers :
             publisher[q].pc \in {"enqueue", "undo"} /\ publisher[q].message.job = j}}
  BY ZenonT(30), <1>2 DEF InPublisher
<1>3. CASE x \in {<<"channel", i>> : i \in {k \in 1..Len(channel) : channel[k].job = j}}
  <2>1. PICK i \in 1..Len(channel) : x = <<"channel", i>> /\ channel[i].job = j
    BY ZenonT(30), <1>3
  <2>2. i \in Nat
    BY <1>1
  <2> QED  BY ZenonT(30), <2>1, <2>2 DEF InChannel
<1>4. CASE x \in {<<"worker", w>> : w \in {v \in Workers :
             delivery[v].pc # "none" /\ delivery[v].message.job = j}}
  BY ZenonT(30), <1>4 DEF InWorker
<1>5. CASE consumer.pc = "holding" /\ consumer.message.job = j /\ x = <<"consumer">>
  BY ZenonT(30), <1>5 DEF InConsumer
<1> QED  BY ZenonT(30), <1>2, <1>3, <1>4, <1>5 DEF Copies

LEMMA CopiesAreInside ==
  ASSUME TypeOK, NEW j \in Jobs
  PROVE  Copies(j) # {} <=> Inside(j)
<1>1. Copies(j) # {} => Inside(j)
  BY ZenonT(30), CopyPlaces DEF Inside
<1>2. ASSUME NEW p \in Publishers, InPublisher(p, j)  PROVE <<"publisher", p>> \in Copies(j)
  BY <1>2 DEF Copies, InPublisher
<1>3. ASSUME NEW i \in Nat, InChannel(i, j)  PROVE <<"channel", i>> \in Copies(j)
  BY <1>3 DEF Copies, InChannel
<1>4. InConsumer(j) => <<"consumer">> \in Copies(j)
  BY DEF Copies, InConsumer
<1>5. ASSUME NEW w \in Workers, InWorker(w, j)  PROVE <<"worker", w>> \in Copies(j)
  BY <1>5 DEF Copies, InWorker
<1> QED  BY ZenonT(30), <1>1, <1>2, <1>3, <1>4, <1>5 DEF Inside

LEMMA CopiesAreOne ==
  ASSUME TypeOK, NEW j \in Jobs, Once(j)
  PROVE  \A x, y \in Copies(j) : x = y
  BY CopyPlaces DEF Once

LEMMA AtMostOne ==
  ASSUME NEW S, \A x, y \in S : x = y
  PROVE  Cardinality(S) <= 1
<1>1. CASE S = {}
  BY <1>1, FS_EmptySet
<1>2. CASE S # {}
  <2>1. PICK x \in S : TRUE
    BY <1>2
  <2>2. S = {x}
    BY <2>1
  <2>3. Cardinality({x}) = 1
    BY Zenon, FS_Singleton
  <2> QED  BY <2>2, <2>3
<1> QED  BY <1>1, <1>2

\* However Publish, redelivery, settlement and shutdown interleave, a job is inside the
\* queue at most once, the buffer keeps its bound, and the set of remembered ids is the
\* set of the jobs inside until shutdown drops messages.
THEOREM QueueStaysConsistent == Spec => []QueueConsistent
<1>1. QueueInv => QueueConsistent
  <2> SUFFICES ASSUME QueueInv  PROVE QueueConsistent
    OBVIOUS
  <2>1. OneCopyPerJob
    BY CopiesAreOne, AtMostOne DEF QueueInv, RememberedInv, OneCopyPerJob
  <2>2. SeenIsExact
    BY CopiesAreInside DEF QueueInv, RememberedInv, SeenIsExact
  <2> QED  BY <2>1, <2>2 DEF QueueInv, QueueConsistent
<1> QED  BY <1>1, QueueInvariant, PTL

\* No goroutine, whether it publishes or puts a delivery back, sends on the channel
\* that Close has closed.
THEOREM ClosedChannelGetsNothing == Spec => NoSendAfterClose
<1>1. QueueInv /\ [Next]_queueVars => [closed => Len(channel') <= Len(channel)]_queueVars
  <2> SUFFICES ASSUME QueueInv, Next, closed  PROVE Len(channel') <= Len(channel)
    BY DEF queueVars
  <2>1. Len(channel) \in Nat
    BY LenProperties DEF QueueInv, TypeOK
  <2>2. UNCHANGED channel \/ Take
    BY ZenonT(30) DEF Next, PublisherStep, Publish, PublishEnqueue, PublishUndo, Returns, Enqueues,
           EnqueueFails, ConsumerStops, HandOver, Settle, Ack, Requeue, NackRequeue, PutBack,
           ForgetUnqueued, NackDead, Abandon, Cancel, Close
  <2>3. Take => Len(channel') <= Len(channel)
    BY ChannelShrinks DEF Take, QueueInv
  <2> QED  BY <2>1, <2>2, <2>3
<1> QED  BY <1>1, QueueInvariant, PTL DEF Spec, NoSendAfterClose
=============================================================================
