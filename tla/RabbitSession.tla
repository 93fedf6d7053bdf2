--------------------------- MODULE RabbitSession ---------------------------
(***************************************************************************)
(* One RabbitMQQueue: its connection and its publish session (the fields   *)
(* conn, channel, confirms, returns and publishClosed, which are always    *)
(* set and cleared together), shared by the scheduler's publications, the  *)
(* consumer and the readiness probe, and the confirmation protocol of      *)
(* Publish.                                                                *)
(*                                                                         *)
(* The scheduler is the only goroutine of the program that publishes (a    *)
(* worker's Nack(true) is the fallback of a delivery without Requeue, and  *)
(* consumeSession always sets one), so publishMu has a single contender.   *)
(* A confirmation carries no job id: Publish takes the next one of its     *)
(* session as its own.                                                     *)
(***************************************************************************)
EXTENDS Integers, Sequences, FiniteSets

CONSTANTS
  MaxCalls,      \* bound: calls of Publish
  MaxFaults,     \* bound: broken connections, failed dials, nacks, returns, failed repairs
  None

ASSUME SessionAssumption == MaxCalls \in Nat /\ MaxFaults \in Nat /\ None \notin Nat

VARIABLES
  current,       \* q.conn with its publish session
  link,          \* per connection dialled: "open", "lame" (its publish channel is closed), "closed"
  cancelled,     \* the application's context is done
  closed,        \* q.closed, with q.done
  gate,          \* reconnectGate: its holder
  user,          \* per user of the queue: where it is, and the connection it holds
  call,          \* the publication in progress
  result,        \* per call of Publish: what it returned
  wire,          \* per connection: publications the broker has not read
  confirms,      \* per connection: confirmations not yet taken
  returns,       \* per connection: number of returned messages not yet taken
  accepted,      \* calls whose message reached the queue (external)
  faults

vars == <<current, link, cancelled, closed, gate, user, call, result, wire, confirms, returns,
          accepted, faults>>

sessions == <<current, link, gate>>
broker   == <<wire, confirms, returns, accepted>>

Users == {"publisher", "consumer", "prober"}

Conns == DOMAIN link

NoCall == [number |-> 0, expired |-> FALSE, returned |-> FALSE, repaired |-> FALSE]

Init ==
  /\ current = 1
  /\ link = <<"open">>
  /\ cancelled = FALSE
  /\ closed = FALSE
  /\ gate = None
  /\ user = [u \in Users |-> [pc |-> IF u = "consumer" THEN "connect" ELSE "idle", conn |-> None]]
  /\ call = NoCall
  /\ result = [k \in 1..MaxCalls |-> "none"]
  /\ wire = <<<<>>>>
  /\ confirms = <<<<>>>>
  /\ returns = <<0>>
  /\ accepted = {}
  /\ faults = 0

Fault == faults < MaxFaults /\ faults' = faults + 1

\* What fails by itself once the condition holds is a fault before that.
FaultUnless(condition) == IF condition THEN UNCHANGED faults ELSE Fault

IsConnected == ~closed /\ current # None /\ link[current] = "open"

Goto(u, pc, c) == user' = [user EXCEPT ![u] = [pc |-> pc, conn |-> c]]

\* Mutant: the publication runs under the application's context.
NoPublishTimeout(u) == cancelled

ContextDone(u) == (cancelled /\ u # "prober") \/ (u = "publisher" /\ call.expired)

\* The user's next state once ensureConnected has returned nil.
Connected(u) ==
  CASE u = "publisher" -> "publish" [] u = "consumer" -> "open" [] u = "prober" -> "ping"

\* What the user does when ensureConnected fails.
GivesUp(u) ==
  IF u = "publisher"
  THEN /\ result' = [result EXCEPT ![call.number] = "error"]
       /\ call' = NoCall
       /\ Goto(u, "idle", None)
  ELSE /\ Goto(u, IF u = "prober" THEN "idle"
                  ELSE IF cancelled \/ closed THEN "stopped" ELSE "connect", None)
       /\ UNCHANGED <<call, result>>

-----------------------------------------------------------------------------
(* ensureConnected and connectOnce *)

EnsureConnected(u) ==
  /\ user[u].pc = "connect"
  /\ \/ /\ ContextDone(u) \/ (~IsConnected /\ closed)
        /\ GivesUp(u)
        /\ UNCHANGED gate
     \/ /\ ~ContextDone(u) /\ IsConnected
        /\ Goto(u, Connected(u), None)
        /\ UNCHANGED <<gate, call, result>>
     \/ /\ ~ContextDone(u) /\ ~IsConnected /\ ~closed
        /\ gate = None
        /\ gate' = u
        /\ Goto(u, "dial", None)
        /\ UNCHANGED <<call, result>>
  /\ UNCHANGED <<current, link, cancelled, closed, broker, faults>>

\* Mutant: only a successful dial releases the gate.
KeepsGate(u) == gate' = gate

ReleaseReconnect(u) == gate' = None

\* The gate is held: look again, then dial.
Dial(u) ==
  /\ user[u].pc = "dial"
  /\ \/ /\ IsConnected
        /\ Goto(u, Connected(u), None)
        /\ gate' = None
        /\ UNCHANGED <<link, broker, call, result, faults>>
     \/ /\ ~IsConnected /\ closed
        /\ gate' = None
        /\ GivesUp(u)
        /\ UNCHANGED <<link, broker, faults>>
     \/ /\ ~IsConnected /\ ~closed
        /\ link' = Append(link, "open")
        /\ wire' = Append(wire, <<>>)
        /\ confirms' = Append(confirms, <<>>)
        /\ returns' = Append(returns, 0)
        /\ Goto(u, "opened", Len(link) + 1)
        /\ UNCHANGED <<gate, accepted, call, result, faults>>
     \/ /\ ~IsConnected /\ ~closed
        /\ FaultUnless(ContextDone(u))
        /\ ReleaseReconnect(u)
        /\ Goto(u, "connect", None)
        /\ UNCHANGED <<link, broker, call, result>>
  /\ UNCHANGED <<current, cancelled, closed>>

Closing(cs) == link' = [c \in Conns |-> IF c \in cs THEN "closed" ELSE link[c]]

\* The topology could not be declared on the new connection, or the context ended.
OpenFails(u) ==
  /\ user[u].pc = "opened"
  /\ FaultUnless(ContextDone(u) \/ closed)
  /\ Closing({user[u].conn})
  /\ ReleaseReconnect(u)
  /\ Goto(u, "connect", None)
  /\ UNCHANGED <<current, cancelled, closed, broker, call, result>>

\* Mutant: the queue is not looked at again before the connection is installed.
InstallAnyway(u) ==
  /\ user[u].pc = "opened"
  /\ current' = user[u].conn
  /\ Closing({current} \ {None})
  /\ Goto(u, Connected(u), None)
  /\ gate' = None
  /\ UNCHANGED <<cancelled, closed, broker, call, result, faults>>

\* Mutant: the connection that is replaced is not closed.
OldConnKept(u) ==
  /\ user[u].pc = "opened"
  /\ ~closed
  /\ current' = user[u].conn
  /\ Goto(u, Connected(u), None)
  /\ gate' = None
  /\ UNCHANGED <<link, cancelled, closed, broker, call, result, faults>>

Install(u) ==
  /\ user[u].pc = "opened"
  /\ IF closed
     THEN Closing({user[u].conn}) /\ GivesUp(u) /\ UNCHANGED current
     ELSE /\ current' = user[u].conn
          /\ Closing({current} \ {None})
          /\ Goto(u, Connected(u), None)
          /\ UNCHANGED <<call, result>>
  /\ gate' = None
  /\ UNCHANGED <<cancelled, closed, broker, faults>>

-----------------------------------------------------------------------------
(* Publish *)

Publish ==
  /\ user["publisher"].pc = "idle"
  /\ ~cancelled
  /\ \E k \in 1..MaxCalls :
       /\ result[k] = "none" /\ \A i \in 1..k - 1 : result[i] # "none"
       /\ call' = [NoCall EXCEPT !.number = k]
  /\ Goto("publisher", "connect", None)
  /\ UNCHANGED <<sessions, cancelled, closed, result, broker, faults>>

PublishTimeout ==
  /\ call.number # 0
  /\ ~call.expired
  /\ call' = [call EXCEPT !.expired = TRUE]
  /\ UNCHANGED <<sessions, cancelled, closed, user, result, broker, faults>>

PublishReturns(outcome) ==
  /\ result' = [result EXCEPT ![call.number] = outcome]
  /\ call' = NoCall
  /\ Goto("publisher", "idle", None)

\* Jobs owed to an earlier loss of the queue could not be returned to the publish path.
RecoveryFails ==
  /\ user["publisher"].pc = "publish"
  /\ FaultUnless(ContextDone("publisher"))
  /\ PublishReturns("error")
  /\ UNCHANGED <<sessions, cancelled, closed, broker>>

\* PublishWithContext on the session of the moment; the library ignores the context.
Send ==
  /\ user["publisher"].pc = "publish"
  /\ call' = [call EXCEPT !.returned = FALSE]
  /\ IF current = None THEN Goto("publisher", "connect", None) /\ UNCHANGED wire
     ELSE IF link[current] = "open"
     THEN Goto("publisher", "sent", current) /\ wire' = [wire EXCEPT ![current] = Append(@, call.number)]
     ELSE Goto("publisher", "failed", current) /\ UNCHANGED wire
  /\ UNCHANGED <<sessions, cancelled, closed, result, confirms, returns, accepted, faults>>

\* The arms of waitForPublishConfirmation that end without a confirmation.
WaitFails ==
  /\ user["publisher"].pc = "sent"
  /\ ContextDone("publisher") \/ closed \/ link[user["publisher"].conn] # "open"
  /\ Goto("publisher", "failed", user["publisher"].conn)
  /\ UNCHANGED <<sessions, cancelled, closed, call, result, broker, faults>>

TakeReturn ==
  LET c == user["publisher"].conn IN
  /\ user["publisher"].pc = "sent"
  /\ returns[c] > 0
  /\ returns' = [returns EXCEPT ![c] = @ - 1]
  /\ call' = [call EXCEPT !.returned = TRUE]
  /\ UNCHANGED <<sessions, cancelled, closed, user, result, wire, confirms, accepted, faults>>

Returned(c) == call.returned \/ returns[c] > 0

Drained(c) == IF ~call.returned /\ returns[c] > 0 THEN returns[c] - 1 ELSE returns[c]

TakeConfirmation ==
  LET c == user["publisher"].conn IN
  /\ user["publisher"].pc = "sent"
  /\ confirms[c] # <<>>
  /\ confirms' = [confirms EXCEPT ![c] = Tail(@)]
  /\ returns' = [returns EXCEPT ![c] = Drained(c)]
  /\ \/ /\ Returned(c)
        /\ Goto("publisher", "returned", c)
        /\ UNCHANGED <<call, result>>
     \/ /\ ~Returned(c) /\ Head(confirms[c]) = "nack"
        /\ Goto("publisher", "failed", c)
        /\ UNCHANGED <<call, result>>
     \/ /\ ~Returned(c) /\ Head(confirms[c]) = "ack"
        /\ PublishReturns("ok")
  /\ UNCHANGED <<sessions, cancelled, closed, wire, accepted, faults>>

\* One repair per call; a second return is the caller's problem.
RepairTopology ==
  /\ user["publisher"].pc = "returned"
  /\ \/ call.repaired /\ PublishReturns("error") /\ UNCHANGED faults
     \/ /\ ~call.repaired
        /\ call' = [call EXCEPT !.repaired = TRUE]
        /\ Goto("publisher", "connect", None)
        /\ UNCHANGED <<result, faults>>
     \/ /\ ~call.repaired
        /\ FaultUnless(ContextDone("publisher") \/ closed)
        /\ Goto("publisher", "failed", user["publisher"].conn)
        /\ UNCHANGED <<call, result>>
  /\ UNCHANGED <<sessions, cancelled, closed, broker>>

\* Mutant: a failed publication leaves its session in place.
SessionKept(c) == UNCHANGED <<current, link>>

\* Clears the session only if it is still the current one.
InvalidatePublishChannel(c) ==
  IF current = c THEN current' = None /\ Closing({c}) ELSE UNCHANGED <<current, link>>

PublishFails ==
  /\ user["publisher"].pc = "failed"
  /\ InvalidatePublishChannel(user["publisher"].conn)
  /\ IF ContextDone("publisher") \/ closed THEN PublishReturns("error")
     ELSE Goto("publisher", "connect", None) /\ UNCHANGED <<call, result>>
  /\ UNCHANGED <<gate, cancelled, closed, broker, faults>>

-----------------------------------------------------------------------------
(* The consumer *)

InvalidateConnection(c) ==
  /\ current' = IF current = c THEN None ELSE current
  /\ Closing({c})

\* connection(), openTopologyChannel and channel.Consume.  A failure closes the
\* connection if it was closed anyway or the context ended during the operation.
OpenConsumer ==
  /\ user["consumer"].pc = "open"
  /\ \/ /\ current # None /\ link[current] # "closed" /\ ~cancelled /\ ~closed
        /\ Goto("consumer", "consume", current)
        /\ UNCHANGED <<current, link, faults>>
     \/ /\ IF current = None THEN UNCHANGED faults
           ELSE link[current] # "closed" /\ FaultUnless(cancelled)
        /\ Goto("consumer", "connect", None)
        /\ UNCHANGED <<current, link>>
     \/ /\ current # None /\ (link[current] = "closed" \/ cancelled)
        /\ InvalidateConnection(current)
        /\ Goto("consumer", "connect", None)
        /\ UNCHANGED faults
  /\ UNCHANGED <<gate, cancelled, closed, call, result, broker>>

\* The session ends: shutdown (the connection goes too), a closed connection, or
\* only this session (its channel was closed or its consumer cancelled).
ConsumeEnds ==
  /\ user["consumer"].pc = "consume"
  /\ \/ /\ cancelled \/ closed
        /\ InvalidateConnection(user["consumer"].conn)
        /\ Goto("consumer", "stopped", None)
        /\ UNCHANGED faults
     \/ /\ ~cancelled /\ ~closed
        /\ FaultUnless(link[user["consumer"].conn] = "closed")
        /\ Goto("consumer", "connect", None)
        /\ UNCHANGED <<current, link>>
  /\ UNCHANGED <<gate, cancelled, closed, call, result, broker>>

-----------------------------------------------------------------------------
(* Ping, of the readiness probe or of a worker about to dead-letter a message *)

\* Ping of a closed queue returns at once.
StartPing ==
  /\ user["prober"].pc = "idle"
  /\ ~closed
  /\ Goto("prober", "connect", None)
  /\ UNCHANGED <<sessions, cancelled, closed, call, result, broker, faults>>

\* The connection of the moment, if any, is probed.
Ping ==
  /\ user["prober"].pc = "ping"
  /\ IF current = None THEN Goto("prober", "idle", None) ELSE Goto("prober", "probe", current)
  /\ UNCHANGED <<sessions, cancelled, closed, call, result, broker, faults>>

\* The probe returns.  A connection found closed is invalidated, and so is one that
\* does not answer before the context of the probe ends.
PingReturns ==
  /\ user["prober"].pc = "probe"
  /\ \/ /\ link[user["prober"].conn] # "closed" \/ closed
        /\ UNCHANGED <<current, link, faults>>
     \/ /\ FaultUnless(link[user["prober"].conn] = "closed")
        /\ InvalidateConnection(user["prober"].conn)
  /\ Goto("prober", "idle", None)
  /\ UNCHANGED <<gate, cancelled, closed, call, result, broker>>

\* The context of Ping ends while ensureConnected waits, dials or declares.
PingExpires ==
  /\ user["prober"].pc \in {"connect", "dial", "opened"}
  /\ Fault
  /\ gate' = IF gate = "prober" THEN None ELSE gate
  /\ Closing(IF user["prober"].pc = "opened" THEN {user["prober"].conn} ELSE {})
  /\ Goto("prober", "idle", None)
  /\ UNCHANGED <<current, cancelled, closed, call, result, broker>>

-----------------------------------------------------------------------------
(* Shutdown, the broker and the network *)

Cancel ==
  /\ ~cancelled
  /\ cancelled' = TRUE
  /\ UNCHANGED <<sessions, closed, user, call, result, broker, faults>>

Close ==
  /\ cancelled /\ ~closed
  /\ closed' = TRUE
  /\ current' = None
  /\ Closing({current} \ {None})
  /\ UNCHANGED <<gate, cancelled, user, call, result, broker, faults>>

\* The broker reads the next publication: the answer is lost on a closed connection.
BrokerAnswers(c, answer) ==
  /\ wire[c] # <<>>
  /\ wire' = [wire EXCEPT ![c] = Tail(@)]
  /\ accepted' = IF answer = "accept" THEN accepted \cup {Head(wire[c])} ELSE accepted
  /\ IF answer = "accept" THEN UNCHANGED faults ELSE Fault
  /\ IF link[c] = "open"
     THEN /\ confirms' = [confirms EXCEPT ![c] = Append(@, IF answer = "nack" THEN "nack" ELSE "ack")]
          /\ returns' = [returns EXCEPT ![c] = IF answer = "return" THEN @ + 1 ELSE @]
     ELSE UNCHANGED <<confirms, returns>>
  /\ UNCHANGED <<sessions, cancelled, closed, user, call, result>>

\* The connection fails, or the broker closes the publish channel only.
Break(c, state) ==
  /\ link[c] = "open"
  /\ Fault
  /\ link' = [link EXCEPT ![c] = state]
  /\ wire' = [wire EXCEPT ![c] = <<>>]
  /\ UNCHANGED <<current, gate, cancelled, closed, user, call, result, confirms, returns, accepted>>

UserStep(u) == EnsureConnected(u) \/ Dial(u) \/ OpenFails(u) \/ Install(u)

PublisherStep ==
  \/ UserStep("publisher") \/ RecoveryFails \/ Send \/ WaitFails \/ TakeReturn \/ TakeConfirmation
  \/ RepairTopology \/ PublishFails

ConsumerStep == UserStep("consumer") \/ OpenConsumer \/ ConsumeEnds

ProberStep == UserStep("prober") \/ Ping \/ PingReturns

Next ==
  \/ Publish \/ PublisherStep \/ PublishTimeout
  \/ ConsumerStep
  \/ StartPing \/ ProberStep \/ PingExpires
  \/ Cancel \/ Close
  \/ \E c \in Conns, answer \in {"accept", "nack", "return"} : BrokerAnswers(c, answer)
  \/ \E c \in Conns, state \in {"lame", "closed"} : Break(c, state)

\* The goroutines run on, the publish timer fires.  Nothing is assumed of the
\* broker, and whether the application stops is open; if it does, Close follows.
Fairness ==
  /\ WF_vars(PublisherStep) /\ WF_vars(ConsumerStep) /\ WF_vars(ProberStep)
  /\ WF_vars(PublishTimeout) /\ WF_vars(Close)

Spec == Init /\ [][Next]_vars

FairSpec == Spec /\ Fairness

-----------------------------------------------------------------------------
(* Properties *)

\* A publication that Publish reports as confirmed is in the queue: no
\* confirmation of an earlier, abandoned publication is taken for it, and no
\* returned message passes for a confirmed one.
ConfirmedMeansAccepted == \A k \in 1..MaxCalls : result[k] = "ok" => k \in accepted

\* Every open connection is the current one of a queue not closed, or in the hands of the
\* goroutine that has just dialled it: reconnecting, invalidating and closing
\* the queue, in any order, leave none behind.
NoLeakedConnection ==
  \A c \in Conns : link[c] # "closed" =>
    (c = current /\ ~closed) \/ \E u \in Users : user[u].pc = "opened" /\ user[u].conn = c

\* Every call of Publish returns: the timer ends each of its waits.
PublishTerminates == \A k \in 1..MaxCalls : call.number = k ~> result[k] # "none"

\* Once the faults are over the consumer consumes from a live connection and
\* goes on until shutdown, whatever publications and probes did to the connection.
EventuallyConsuming ==
  <>[](\/ cancelled
       \/ user["consumer"].pc = "consume" /\ link[user["consumer"].conn] # "closed")

\* After shutdown no connection is left open.
EventuallyReleased == cancelled ~> \A c \in Conns : link[c] = "closed"
=============================================================================
