------------------------ MODULE RabbitSessionProofs ------------------------
(***************************************************************************)
(* Safety of the publish session and its confirmations, for any number of  *)
(* calls of Publish, reconnections and faults.                             *)
(***************************************************************************)
EXTENDS RabbitSession, SequenceTheorems, TLAPS

LinkState == {"open", "lame", "closed"}

UserPc == {"idle", "connect", "dial", "opened", "publish", "sent", "failed", "returned",
           "open", "consume", "stopped", "ping", "probe"}

UserRow == [pc: UserPc, conn: Nat \cup {None}]

CallRow == [number: Nat, expired: BOOLEAN, returned: BOOLEAN, repaired: BOOLEAN]

Confirmation == {"ack", "nack"}

Outcome == {"none", "error", "ok"}

TypeOK ==
  /\ link \in Seq(LinkState)
  /\ current \in Conns \cup {None}
  /\ user \in [Users -> UserRow] /\ \A u \in Users : user[u].conn \in Conns \cup {None}
  /\ wire \in Seq(Seq(Nat)) /\ Len(wire) = Len(link)
  /\ confirms \in Seq(Seq(Confirmation)) /\ Len(confirms) = Len(link)
  /\ returns \in Seq(Nat) /\ Len(returns) = Len(link)
  /\ call \in CallRow
  /\ result \in [1..MaxCalls -> Outcome]

\* A connection that was just dialled is known to the goroutine that dialled it only.
OpenedInv ==
  \A u \in Users : user[u].pc = "opened" =>
    /\ user[u].conn \in Conns
    /\ user[u].conn # current
    /\ \A v \in Users \ {u} : user[v].conn # user[u].conn

\* The publisher has a publication on the connection, or one it has given up
\* without having invalidated the connection yet.
Busy(c) == user["publisher"].pc \in {"sent", "failed"} /\ user["publisher"].conn = c

\* Nothing that was ever published on the connection is unanswered.
Clean(c) == wire[c] = <<>> /\ confirms[c] = <<>> /\ returns[c] = 0

\* The connection that the next publication will use is clean.
CleanInv ==
  \A c \in Conns :
    (c = current \/ \E u \in Users : user[u].pc = "opened" /\ user[u].conn = c) /\ ~Busy(c)
      => Clean(c)

\* The publication that awaits its confirmation on connection c is still on the wire,
\* or was answered, or is lost with the connection; nothing else is there.
Awaits(c) ==
  \/ wire[c] = <<call.number>> /\ confirms[c] = <<>> /\ returns[c] = 0 /\ ~call.returned
  \/ Clean(c) /\ ~call.returned
  \/ /\ wire[c] = <<>>
     /\ \/ confirms[c] = <<"ack">> /\ returns[c] = 0 /\ ~call.returned /\ call.number \in accepted
        \/ confirms[c] = <<"ack">> /\ returns[c] = 1 /\ ~call.returned
        \/ confirms[c] = <<"ack">> /\ returns[c] = 0 /\ call.returned
        \/ confirms[c] = <<"nack">> /\ returns[c] = 0 /\ ~call.returned

ConfirmationInv ==
  user["publisher"].pc = "sent" =>
    user["publisher"].conn \in Conns /\ Awaits(user["publisher"].conn)

SessionInv ==
  /\ TypeOK /\ OpenedInv /\ CleanInv /\ ConfirmationInv
  /\ ConfirmedMeansAccepted /\ NoLeakedConnection

-----------------------------------------------------------------------------
(* What the pieces of the actions do *)

\* The connections and what each of them carries.
LEMMA Cells ==
  ASSUME TypeOK
  PROVE  /\ Len(link) \in Nat /\ Conns = 1..Len(link)
         /\ DOMAIN wire = Conns /\ DOMAIN confirms = Conns /\ DOMAIN returns = Conns
         /\ \A c \in Conns : /\ link[c] \in LinkState /\ wire[c] \in Seq(Nat)
                             /\ confirms[c] \in Seq(Confirmation) /\ returns[c] \in Nat
<1>1. Len(link) \in Nat /\ Conns = 1..Len(link) /\ \A c \in Conns : link[c] \in LinkState
  BY LenProperties, ElementOfSeq DEF TypeOK, Conns
<1>2. DOMAIN wire = 1..Len(link) /\ \A c \in 1..Len(link) : wire[c] \in Seq(Nat)
  BY LenProperties, ElementOfSeq DEF TypeOK
<1>3. /\ DOMAIN confirms = 1..Len(link)
      /\ \A c \in 1..Len(link) : confirms[c] \in Seq(Confirmation)
  BY LenProperties, ElementOfSeq DEF TypeOK
<1>4. DOMAIN returns = 1..Len(link) /\ \A c \in 1..Len(link) : returns[c] \in Nat
  BY ZenonT(30), LenProperties, ElementOfSeq DEF TypeOK
<1> QED
  BY <1>1, <1>2, <1>3, <1>4

\* A function on 1..n is a sequence of length n.
LEMMA FunctionSequence ==
  ASSUME NEW S, NEW n \in Nat, NEW f \in [1..n -> S]
  PROVE  f \in Seq(S) /\ Len(f) = n
OBVIOUS

\* Closing a set of connections.
LEMMA ClosingCells ==
  ASSUME TypeOK, NEW cs, Closing(cs)
  PROVE  /\ link' \in Seq(LinkState) /\ Len(link') = Len(link)
         /\ \A c \in Conns : link'[c] = IF c \in cs THEN "closed" ELSE link[c]
<1>1. Len(link) \in Nat /\ Conns = 1..Len(link) /\ \A c \in Conns : link[c] \in LinkState
  BY Cells
<1>2. link' = [c \in Conns |-> IF c \in cs THEN "closed" ELSE link[c]]
  BY DEF Closing
<1>3. link' \in [1..Len(link) -> LinkState]
  BY <1>1, <1>2 DEF LinkState
<1> QED
  BY <1>1, <1>2, <1>3, FunctionSequence

\* One user moves.
LEMMA UserGoes ==
  ASSUME TypeOK, NEW u \in Users, NEW pc \in UserPc, NEW c \in Nat \cup {None}, Goto(u, pc, c)
  PROVE  /\ user' \in [Users -> UserRow]
         /\ user'[u].pc = pc /\ user'[u].conn = c
         /\ \A v \in Users : v # u => user'[v] = user[v]
BY DEF TypeOK, Goto, UserRow

\* No call of Publish is reported as confirmed in this step.
NoneReported ==
  /\ call' \in CallRow /\ result' \in [1..MaxCalls -> Outcome]
  /\ \A k \in 1..MaxCalls : result'[k] = "ok" => result[k] = "ok"

\* A call that fails is not reported as confirmed.
LEMMA ErrorReported ==
  ASSUME TypeOK, NEW k, result' = [result EXCEPT ![k] = "error"], call' = NoCall
  PROVE  NoneReported
BY ZenonT(30) DEF TypeOK, NoneReported, NoCall, CallRow, Outcome

LEMMA NothingReported ==
  ASSUME TypeOK, result' = result, call' \in CallRow
  PROVE  NoneReported
BY DEF TypeOK, NoneReported

\* ensureConnected has failed.
LEMMA UserGivesUp ==
  ASSUME TypeOK, NEW u \in Users, GivesUp(u)
  PROVE  /\ NoneReported
         /\ u # "publisher" => call' = call
         /\ \E pc \in {"idle", "stopped", "connect"} : Goto(u, pc, None)
<1>1. CASE u = "publisher"
  BY <1>1, ErrorReported DEF GivesUp
<1>2. CASE u # "publisher"
  <2>1. call' = call /\ result' = result
    BY <1>2 DEF GivesUp
  <2>2. NoneReported
    BY <2>1, NothingReported DEF TypeOK
  <2> QED
    BY <1>2, <2>1, <2>2 DEF GivesUp
<1> QED
  BY <1>1, <1>2

-----------------------------------------------------------------------------
(* Steps that dial nothing, install nothing and touch no message *)

LEMMA TameStep ==
  ASSUME SessionInv, UNCHANGED <<wire, confirms, returns, accepted>>,
         link' \in Seq(LinkState), Len(link') = Len(link),
         \A c \in Conns : link[c] = "closed" => link'[c] = "closed",
         current' \in {current, None},
         \A c \in Conns : c = current /\ ~closed => (c = current' /\ ~closed') \/ link'[c] = "closed",
         user' \in [Users -> UserRow],
         \A u \in Users : \/ user'[u] = user[u]
                          \/ /\ user'[u].pc # "opened"
                             /\ user'[u].conn \in {None, current, user[u].conn}
                             /\ user[u].pc = "opened" => link'[user[u].conn] = "closed",
         \A c \in Conns : Busy(c) /\ ~Busy(c)' => current' # c,
         user'["publisher"].pc = "sent" =>
           /\ user'["publisher"] = user["publisher"]
           /\ call'.number = call.number /\ call'.returned = call.returned,
         NoneReported
  PROVE  SessionInv'
<1>1. Conns' = Conns /\ Conns \subseteq Nat /\ None \notin Conns
  <2>1. Conns = 1..Len(link) /\ Len(link) \in Nat
    BY Cells DEF SessionInv
  <2>2. Conns' = 1..Len(link')
    BY LenProperties DEF Conns
  <2> QED
    BY <2>1, <2>2, SessionAssumption
<1>2. TypeOK'
  <2>1. \A u \in Users : user'[u].conn \in Conns' \cup {None}
    BY ZenonT(30), <1>1 DEF SessionInv, TypeOK
  <2> QED
    BY <1>1, <2>1 DEF SessionInv, TypeOK, NoneReported
<1>3. OpenedInv'
  <2> SUFFICES ASSUME NEW u \in Users, user'[u].pc = "opened"
               PROVE  /\ user'[u].conn \in Conns'
                      /\ user'[u].conn # current'
                      /\ \A v \in Users \ {u} : user'[v].conn # user'[u].conn
    BY DEF OpenedInv
  <2>1. user'[u] = user[u]
    OBVIOUS
  <2>2. /\ user[u].conn \in Conns /\ user[u].conn # current /\ user[u].conn # None
        /\ \A v \in Users \ {u} : user[v].conn # user[u].conn
    BY <1>1, <2>1 DEF SessionInv, OpenedInv
  <2> QED
    BY <1>1, <2>1, <2>2
<1>4. CleanInv'
  <2> SUFFICES ASSUME NEW c \in Conns, ~Busy(c)',
                      c = current' \/ \E u \in Users : user'[u].pc = "opened" /\ user'[u].conn = c
               PROVE  Clean(c)'
    BY <1>1 DEF CleanInv
  <2>1. CASE c = current'
    <3>1. c = current /\ ~Busy(c)
      BY <1>1, <2>1
    <3> QED
      BY <3>1 DEF SessionInv, CleanInv, Clean
  <2>2. ASSUME NEW u \in Users, user'[u].pc = "opened", user'[u].conn = c
        PROVE  Clean(c)'
    <3>1. user'[u] = user[u]
      BY <2>2
    <3>2. ~Busy(c)
      <4>1. "publisher" \in Users
        BY ZenonT(30) DEF Users
      <4>2. user[u].pc = "opened" /\ user[u].conn = c /\ OpenedInv
        BY <2>2, <3>1 DEF SessionInv
      <4>3. \A v \in Users \ {u} : user[v].conn # c
        BY <4>2 DEF OpenedInv
      <4> QED
        BY <4>1, <4>2, <4>3 DEF Busy
    <3> QED
      BY <2>2, <3>1, <3>2 DEF SessionInv, CleanInv, Clean
  <2> QED
    BY <2>1, <2>2
<1>5. ConfirmationInv'
  <2> SUFFICES ASSUME user'["publisher"].pc = "sent"
               PROVE  user'["publisher"].conn \in Conns' /\ Awaits(user["publisher"].conn)'
    BY DEF ConfirmationInv
  <2>1. /\ user["publisher"].conn \in Conns /\ Awaits(user["publisher"].conn)
        /\ user'["publisher"] = user["publisher"]
        /\ call'.number = call.number /\ call'.returned = call.returned
    BY DEF SessionInv, ConfirmationInv
  <2> QED
    BY ZenonT(30), <1>1, <2>1 DEF Awaits, Clean
<1>6. ConfirmedMeansAccepted'
  BY DEF SessionInv, ConfirmedMeansAccepted, NoneReported
<1>7. NoLeakedConnection'
  <2> SUFFICES ASSUME NEW c \in Conns, link'[c] # "closed"
               PROVE  \/ c = current' /\ ~closed'
                      \/ \E u \in Users : user'[u].pc = "opened" /\ user'[u].conn = c
    BY <1>1 DEF NoLeakedConnection
  <2>1. \/ c = current /\ ~closed
        \/ \E u \in Users : user[u].pc = "opened" /\ user[u].conn = c
    BY DEF SessionInv, NoLeakedConnection
  <2> QED
    BY <2>1
<1> QED
  BY <1>2, <1>3, <1>4, <1>5, <1>6, <1>7 DEF SessionInv

\* A user that has not just dialled moves, and neither connections nor messages change.
LEMMA UserMoves ==
  ASSUME SessionInv, UNCHANGED <<current, link, closed, wire, confirms, returns, accepted>>,
         NEW u \in Users, NEW pc \in UserPc \ {"opened", "sent"},
         NEW c \in {None, current, user[u].conn}, Goto(u, pc, c),
         user[u].pc # "opened",
         u = "publisher" /\ user[u].pc \in {"sent", "failed"} => pc = "failed" /\ c = user[u].conn,
         u # "publisher" => call' = call,
         NoneReported
  PROVE  SessionInv'
<1>1. c \in Nat \cup {None} /\ current \in Conns \cup {None}
  BY SMTT(30), Cells DEF SessionInv, TypeOK, UserRow
<1>2. /\ user' \in [Users -> UserRow]
      /\ user'[u].pc = pc /\ user'[u].conn = c
      /\ \A v \in Users : v # u => user'[v] = user[v]
  BY ZenonT(30), <1>1, UserGoes DEF SessionInv
<1>3. \A d \in Conns : Busy(d) => Busy(d)'
  BY <1>2 DEF Busy, Users
<1>4. link' \in Seq(LinkState) /\ Len(link') = Len(link)
  BY DEF SessionInv, TypeOK
<1>5. user'["publisher"].pc = "sent" =>
           /\ user'["publisher"] = user["publisher"]
           /\ call'.number = call.number /\ call'.returned = call.returned
  BY <1>2 DEF Users
<1>6. \A v \in Users : \/ user'[v] = user[v]
                       \/ /\ user'[v].pc # "opened"
                          /\ user'[v].conn \in {None, current, user[v].conn}
                          /\ user[v].pc = "opened" => link'[user[v].conn] = "closed"
  BY <1>2
<1> QED
  BY <1>2, <1>3, <1>4, <1>5, <1>6, TameStep

\* A user moves and a connection is closed: its own if it has just dialled it, and the
\* one it has published on if it has not taken the confirmation.
LEMMA ConnectionDropped ==
  ASSUME SessionInv, UNCHANGED <<closed, wire, confirms, returns, accepted>>,
         NEW u \in Users, NEW pc \in UserPc \ {"opened", "sent"}, Goto(u, pc, None),
         NEW d \in Nat \cup {None},
         current' = IF current = d THEN None ELSE current,
         Closing({d}) \/ (link' = link /\ current # d /\ user[u].pc # "opened"),
         user[u].pc = "opened" => d = user[u].conn,
         u = "publisher" /\ user[u].pc \in {"sent", "failed"} => d = user[u].conn,
         u # "publisher" => call' = call,
         NoneReported
  PROVE  SessionInv'
<1>0. TypeOK /\ None \notin Conns
  BY Cells, SessionAssumption DEF SessionInv
<1>1. /\ user' \in [Users -> UserRow]
      /\ user'[u].pc = pc /\ user'[u].conn = None
      /\ \A v \in Users : v # u => user'[v] = user[v]
  BY ZenonT(30), <1>0, UserGoes
<1>2. /\ link' \in Seq(LinkState) /\ Len(link') = Len(link)
      /\ \A c \in Conns : link'[c] = "closed" \/ (link'[c] = link[c] /\ (c = d => link' = link))
  BY ZenonT(30), <1>0, ClosingCells DEF TypeOK
<1>3. \A c \in Conns : link[c] = "closed" => link'[c] = "closed"
  BY <1>2
<1>4. \A c \in Conns : c = current /\ ~closed => (c = current' /\ ~closed') \/ link'[c] = "closed"
  BY <1>0, <1>2, ClosingCells
<1>5. \A c \in Conns : Busy(c) /\ ~Busy(c)' => current' # c
  <2> SUFFICES ASSUME NEW c \in Conns, Busy(c), ~Busy(c)'
               PROVE  current' # c
    OBVIOUS
  <2>1. u = "publisher"
    BY <1>1 DEF Busy, Users
  <2>2. d = c
    BY <2>1 DEF Busy
  <2> QED
    BY <1>0, <2>2
<1>6. user[u].pc = "opened" => link'[user[u].conn] = "closed"
  BY <1>0, ClosingCells DEF SessionInv, OpenedInv
<1>7. \A v \in Users : \/ user'[v] = user[v]
                       \/ /\ user'[v].pc # "opened"
                          /\ user'[v].conn \in {None, current, user[v].conn}
                          /\ user[v].pc = "opened" => link'[user[v].conn] = "closed"
  BY <1>1, <1>6
<1>8. user'["publisher"].pc = "sent" =>
        /\ user'["publisher"] = user["publisher"]
        /\ call'.number = call.number /\ call'.returned = call.returned
  BY <1>1 DEF Users
<1>9. current' \in {current, None}
  OBVIOUS
<1> QED
  BY <1>1, <1>2, <1>3, <1>4, <1>5, <1>7, <1>8, <1>9, TameStep

\* The users stay where they are, and no connection is lost but the current one.
LEMMA UsersStay ==
  ASSUME SessionInv, UNCHANGED <<wire, confirms, returns, accepted, user, result>>,
         call' \in CallRow, call'.number = call.number, call'.returned = call.returned,
         \/ UNCHANGED <<current, link, closed>>
         \/ current' = None /\ Closing({current} \ {None})
  PROVE  SessionInv'
<1>0. TypeOK /\ None \notin Conns
  BY Cells, SessionAssumption DEF SessionInv
<1>1. NoneReported
  BY <1>0, NothingReported
<1>2. /\ link' \in Seq(LinkState) /\ Len(link') = Len(link)
      /\ \A c \in Conns : link[c] = "closed" => link'[c] = "closed"
      /\ \A c \in Conns : c = current /\ ~closed => (c = current' /\ ~closed') \/ link'[c] = "closed"
      /\ current' \in {current, None}
  <2>1. CASE UNCHANGED <<current, link, closed>>
    BY <2>1, <1>0 DEF TypeOK
  <2>2. CASE current' = None /\ Closing({current} \ {None})
    BY <2>2, <1>0, ClosingCells
  <2> QED
    BY <2>1, <2>2
<1>3. /\ user' \in [Users -> UserRow]
      /\ \A u \in Users : user'[u] = user[u]
      /\ \A c \in Conns : Busy(c) => Busy(c)'
  BY <1>0 DEF TypeOK, Busy
<1>4. user'["publisher"].pc = "sent" =>
        /\ user'["publisher"] = user["publisher"]
        /\ call'.number = call.number /\ call'.returned = call.returned
  OBVIOUS
<1> QED
  BY <1>1, <1>2, <1>3, <1>4, TameStep

-----------------------------------------------------------------------------
(* ensureConnected and connectOnce *)

LEMMA ConnectedPc ==
  ASSUME NEW u \in Users
  PROVE  Connected(u) \in {"publish", "open", "ping"}
BY DEF Connected, Users

LEMMA StepEnsureConnected ==
  ASSUME SessionInv, NEW u \in Users, EnsureConnected(u)
  PROVE  SessionInv'
<1>1. /\ UNCHANGED <<current, link, closed, wire, confirms, returns, accepted>>
      /\ user[u].pc = "connect" /\ TypeOK
  BY DEF EnsureConnected, broker, SessionInv
<1>2. CASE GivesUp(u)
  <2>1. PICK pc \in {"idle", "stopped", "connect"} : Goto(u, pc, None)
    BY <1>1, <1>2, UserGivesUp
  <2>2. NoneReported /\ (u # "publisher" => call' = call) /\ pc \in UserPc \ {"opened", "sent"}
    BY <1>1, <1>2, UserGivesUp DEF UserPc
  <2> QED
    BY <1>1, <2>1, <2>2, UserMoves
<1>3. ASSUME UNCHANGED <<call, result>>, Goto(u, Connected(u), None) \/ Goto(u, "dial", None)
      PROVE  SessionInv'
  <2>1. PICK pc \in UserPc \ {"opened", "sent"} : Goto(u, pc, None)
    BY <1>3, ConnectedPc DEF UserPc
  <2>2. NoneReported
    BY <1>1, <1>3, NothingReported DEF TypeOK
  <2> QED
    BY <1>1, <1>3, <2>1, <2>2, UserMoves
<1> QED
  BY <1>2, <1>3 DEF EnsureConnected

\* A dial that succeeds: the new connection carries nothing yet.
LEMMA StepDialled ==
  ASSUME SessionInv, NEW u \in Users, user[u].pc = "dial",
         link' = Append(link, "open"), wire' = Append(wire, <<>>),
         confirms' = Append(confirms, <<>>), returns' = Append(returns, 0),
         Goto(u, "opened", Len(link) + 1),
         UNCHANGED <<current, closed, accepted, call, result>>
  PROVE  SessionInv'
<1> DEFINE n == Len(link) + 1
<1>0. TypeOK /\ Conns = 1..Len(link) /\ Len(link) \in Nat /\ None \notin Nat
  BY Cells, SessionAssumption DEF SessionInv
<1>1. /\ link' \in Seq(LinkState) /\ Len(link') = n
      /\ \A c \in Conns : link'[c] = link[c]
  BY <1>0, AppendProperties DEF TypeOK, LinkState
<1>2. /\ wire' \in Seq(Seq(Nat)) /\ Len(wire') = n
      /\ wire'[n] = <<>> /\ \A c \in Conns : wire'[c] = wire[c]
  <2>1. <<>> \in Seq(Nat)
    OBVIOUS
  <2> QED
    BY <1>0, <2>1, AppendProperties DEF TypeOK
<1>3. /\ confirms' \in Seq(Seq(Confirmation)) /\ Len(confirms') = n
      /\ confirms'[n] = <<>> /\ \A c \in Conns : confirms'[c] = confirms[c]
  <2>1. <<>> \in Seq(Confirmation)
    OBVIOUS
  <2> QED
    BY <1>0, <2>1, AppendProperties DEF TypeOK
<1>4. /\ returns' \in Seq(Nat) /\ Len(returns') = n
      /\ returns'[n] = 0 /\ \A c \in Conns : returns'[c] = returns[c]
  BY <1>0, AppendProperties DEF TypeOK
<1>5. /\ user' \in [Users -> UserRow] /\ user'[u].pc = "opened" /\ user'[u].conn = n
      /\ \A v \in Users : v # u => user'[v] = user[v]
  <2>1. Len(link) + 1 \in Nat /\ "opened" \in UserPc
    BY <1>0 DEF UserPc
  <2> QED
    BY <1>0, <2>1, UserGoes
<1>6. Conns' = Conns \cup {n} /\ n \notin Conns /\ n \in Nat
  <2>1. Conns' = 1..n
    BY <1>1, LenProperties DEF Conns
  <2> QED
    BY <1>0, <2>1
<1> HIDE DEF n
<1>7. TypeOK'
  BY ZenonT(30), <1>0, <1>1, <1>2, <1>3, <1>4, <1>5, <1>6 DEF TypeOK
<1>8. current # n /\ \A v \in Users : user[v].conn # n
  BY ZenonT(30), <1>0, <1>6 DEF TypeOK
<1>9. OpenedInv'
  <2> SUFFICES ASSUME NEW v \in Users, user'[v].pc = "opened"
               PROVE  /\ user'[v].conn \in Conns' /\ user'[v].conn # current
                      /\ \A w \in Users \ {v} : user'[w].conn # user'[v].conn
    BY DEF OpenedInv
  <2>1. CASE v = u
    BY <1>5, <1>6, <1>8, <2>1
  <2>2. CASE v # u
    BY ZenonT(30), <1>5, <1>6, <1>8, <2>2 DEF SessionInv, OpenedInv
  <2> QED
    BY <2>1, <2>2
<1>10. CleanInv'
  <2> SUFFICES ASSUME NEW c \in Conns \cup {n}, ~Busy(c)',
                      c = current \/ \E v \in Users : user'[v].pc = "opened" /\ user'[v].conn = c
               PROVE  Clean(c)'
    BY <1>6 DEF CleanInv
  <2>1. CASE c = n
    BY <1>2, <1>3, <1>4, <2>1 DEF Clean
  <2>2. CASE c # n
    <3>1. ~Busy(c)
      BY <1>5 DEF Busy, Users
    <3>2. c = current \/ \E v \in Users : user[v].pc = "opened" /\ user[v].conn = c
      BY ZenonT(30), <1>5, <2>2
    <3> QED
      BY ZenonT(30), <1>2, <1>3, <1>4, <2>2, <3>1, <3>2 DEF SessionInv, CleanInv, Clean
  <2> QED
    BY <2>1, <2>2
<1>11. ConfirmationInv'
  <2> SUFFICES ASSUME user'["publisher"].pc = "sent"
               PROVE  user'["publisher"].conn \in Conns' /\ Awaits(user["publisher"].conn)'
    BY DEF ConfirmationInv
  <2>1. user'["publisher"] = user["publisher"]
    BY <1>5 DEF Users
  <2>2. user["publisher"].conn \in Conns /\ Awaits(user["publisher"].conn)
    BY <2>1 DEF SessionInv, ConfirmationInv
  <2>3. PICK p \in Conns : p = user["publisher"].conn
    BY ZenonT(30), <2>2
  <2>4. wire'[p] = wire[p] /\ confirms'[p] = confirms[p] /\ returns'[p] = returns[p]
    BY ZenonT(30), <1>2, <1>3, <1>4
  <2>5. Awaits(p)'
    BY ZenonT(30), <2>2, <2>3, <2>4 DEF Awaits, Clean
  <2>6. Awaits(user["publisher"].conn)'
    BY ZenonT(30), <2>1, <2>3, <2>5 DEF Awaits, Clean
  <2> QED
    BY ZenonT(30), <1>6, <2>1, <2>2, <2>6
<1>12. ConfirmedMeansAccepted'
  BY DEF SessionInv, ConfirmedMeansAccepted
<1>13. NoLeakedConnection'
  <2> SUFFICES ASSUME NEW c \in Conns \cup {n}, link'[c] # "closed"
               PROVE  \/ c = current /\ ~closed
                      \/ \E v \in Users : user'[v].pc = "opened" /\ user'[v].conn = c
    BY ZenonT(30), <1>6 DEF NoLeakedConnection
  <2>1. CASE c = n
    BY <1>5, <2>1
  <2>2. CASE c # n
    <3>1. \/ c = current /\ ~closed
          \/ \E v \in Users : user[v].pc = "opened" /\ user[v].conn = c
      BY ZenonT(30), <1>1, <2>2 DEF SessionInv, NoLeakedConnection
    <3> QED
      BY <1>5, <3>1
  <2> QED
    BY <2>1, <2>2
<1> QED
  BY <1>7, <1>9, <1>10, <1>11, <1>12, <1>13 DEF SessionInv

LEMMA StepDial ==
  ASSUME SessionInv, NEW u \in Users, Dial(u)
  PROVE  SessionInv'
<1>1. UNCHANGED <<current, closed>> /\ user[u].pc = "dial" /\ TypeOK
  BY DEF Dial, SessionInv
<1>2. ASSUME GivesUp(u), UNCHANGED <<link, broker>>
      PROVE  SessionInv'
  <2>1. PICK pc \in {"idle", "stopped", "connect"} : Goto(u, pc, None)
    BY <1>1, <1>2, UserGivesUp
  <2>2. NoneReported /\ (u # "publisher" => call' = call) /\ pc \in UserPc \ {"opened", "sent"}
    BY <1>1, <1>2, UserGivesUp DEF UserPc
  <2>3. UNCHANGED <<wire, confirms, returns, accepted, link>>
    BY <1>2 DEF broker
  <2> QED
    BY <1>1, <2>1, <2>2, <2>3, UserMoves
<1>3. ASSUME UNCHANGED <<link, broker, call, result>>,
             Goto(u, Connected(u), None) \/ Goto(u, "connect", None)
      PROVE  SessionInv'
  <2>1. PICK pc \in UserPc \ {"opened", "sent"} : Goto(u, pc, None)
    BY <1>3, ConnectedPc DEF UserPc
  <2>2. NoneReported
    BY <1>1, <1>3, NothingReported DEF TypeOK
  <2>3. UNCHANGED <<wire, confirms, returns, accepted, link>>
    BY <1>3 DEF broker
  <2> QED
    BY <1>1, <1>3, <2>1, <2>2, <2>3, UserMoves
<1> QED
  BY ZenonT(30), <1>1, <1>2, <1>3, StepDialled DEF Dial

LEMMA StepOpenFails ==
  ASSUME SessionInv, NEW u \in Users, OpenFails(u)
  PROVE  SessionInv'
<1>1. /\ UNCHANGED <<current, closed, wire, confirms, returns, accepted, call, result>>
      /\ user[u].pc = "opened" /\ Closing({user[u].conn}) /\ Goto(u, "connect", None) /\ TypeOK
  BY DEF OpenFails, broker, SessionInv
<1>2. user[u].conn \in Nat \cup {None} /\ current # user[u].conn
  BY <1>1 DEF SessionInv, OpenedInv, TypeOK, UserRow
<1>3. NoneReported
  BY <1>1, NothingReported DEF TypeOK
<1>4. "connect" \in UserPc \ {"opened", "sent"}
  BY DEF UserPc
<1> QED
  BY ZenonT(30), <1>1, <1>2, <1>3, <1>4, ConnectionDropped

\* A connection is installed in place of the current one.
LEMMA StepInstalled ==
  ASSUME SessionInv, NEW u \in Users, user[u].pc = "opened", ~closed, closed' = closed,
         current' = user[u].conn, Closing({current} \ {None}), Goto(u, Connected(u), None),
         UNCHANGED <<call, result, wire, confirms, returns, accepted>>
  PROVE  SessionInv'
<1>0. TypeOK /\ None \notin Conns /\ Conns = 1..Len(link)
  BY Cells, SessionAssumption DEF SessionInv
<1>1. /\ link' \in Seq(LinkState) /\ Len(link') = Len(link) /\ Conns' = Conns
      /\ \A c \in Conns : link'[c] = IF c = current THEN "closed" ELSE link[c]
  <2>1. /\ link' \in Seq(LinkState) /\ Len(link') = Len(link)
        /\ \A c \in Conns : link'[c] = IF c \in {current} \ {None} THEN "closed" ELSE link[c]
    BY <1>0, ClosingCells
  <2>2. Conns' = 1..Len(link')
    BY <2>1, LenProperties DEF Conns
  <2> QED
    BY <1>0, <2>1, <2>2
<1>2. Connected(u) \in UserPc /\ Connected(u) \in {"publish", "open", "ping"}
  BY ConnectedPc DEF UserPc
<1>3. /\ user' \in [Users -> UserRow] /\ user'[u].pc \in {"publish", "open", "ping"} /\ user'[u].conn = None
      /\ \A v \in Users : v # u => user'[v] = user[v]
  BY ZenonT(30), <1>0, <1>2, UserGoes
<1>4. /\ user[u].conn \in Conns
      /\ \A v \in Users \ {u} : user[v].conn # user[u].conn
  BY DEF SessionInv, OpenedInv
<1>5. TypeOK'
  BY ZenonT(30), <1>0, <1>1, <1>3, <1>4 DEF TypeOK
<1>6. OpenedInv'
  <2> SUFFICES ASSUME NEW v \in Users, user'[v].pc = "opened"
               PROVE  /\ user'[v].conn \in Conns' /\ user'[v].conn # current'
                      /\ \A w \in Users \ {v} : user'[w].conn # user'[v].conn
    BY ZenonT(30) DEF OpenedInv
  <2>1. v # u /\ user'[v] = user[v]
    BY <1>3
  <2>2. /\ user[v].conn \in Conns /\ user[v].conn # current
        /\ \A w \in Users \ {v} : user[w].conn # user[v].conn
    BY ZenonT(30), <2>1 DEF SessionInv, OpenedInv
  <2>3. current' = user[u].conn \/ current' = None
    BY ZenonT(30)
  <2> QED
    BY ZenonT(30), <1>0, <1>1, <1>3, <1>4, <2>1, <2>2, <2>3
<1>7. CleanInv'
  <2> SUFFICES ASSUME NEW c \in Conns, ~Busy(c)',
                      c = current' \/ \E v \in Users : user'[v].pc = "opened" /\ user'[v].conn = c
               PROVE  Clean(c)'
    BY <1>1 DEF CleanInv
  <2>1. PICK v \in Users : user[v].pc = "opened" /\ user[v].conn = c
    BY <1>3
  <2>2. ~Busy(c)
    BY ZenonT(30), <2>1 DEF SessionInv, OpenedInv, Busy, Users
  <2> QED
    BY <2>1, <2>2 DEF SessionInv, CleanInv, Clean
<1>8. ConfirmationInv'
  <2> SUFFICES ASSUME user'["publisher"].pc = "sent"
               PROVE  user'["publisher"].conn \in Conns' /\ Awaits(user["publisher"].conn)'
    BY DEF ConfirmationInv
  <2>1. user'["publisher"] = user["publisher"]
    BY <1>3 DEF Users
  <2>2. user["publisher"].conn \in Conns /\ Awaits(user["publisher"].conn)
    BY <2>1 DEF SessionInv, ConfirmationInv
  <2> QED
    BY ZenonT(30), <1>1, <2>1, <2>2 DEF Awaits, Clean
<1>9. ConfirmedMeansAccepted'
  BY DEF SessionInv, ConfirmedMeansAccepted
<1>10. NoLeakedConnection'
  <2> SUFFICES ASSUME NEW c \in Conns, link'[c] # "closed"
               PROVE  \/ c = current' /\ ~closed'
                      \/ \E v \in Users : user'[v].pc = "opened" /\ user'[v].conn = c
    BY <1>1 DEF NoLeakedConnection
  <2>1. c # current /\ link[c] # "closed"
    BY <1>1
  <2>2. PICK v \in Users : user[v].pc = "opened" /\ user[v].conn = c
    BY <2>1 DEF SessionInv, NoLeakedConnection
  <2> QED
    BY <1>3, <2>2
<1> QED
  BY ZenonT(30), <1>5, <1>6, <1>7, <1>8, <1>9, <1>10 DEF SessionInv

LEMMA StepInstall ==
  ASSUME SessionInv, NEW u \in Users, Install(u)
  PROVE  SessionInv'
<1>1. /\ UNCHANGED <<closed, wire, confirms, returns, accepted>>
      /\ user[u].pc = "opened" /\ TypeOK
  BY DEF Install, broker, SessionInv
<1>2. CASE closed
  <2>1. PICK pc \in {"idle", "stopped", "connect"} : Goto(u, pc, None)
    BY <1>1, <1>2, UserGivesUp DEF Install
  <2>2. NoneReported /\ (u # "publisher" => call' = call) /\ pc \in UserPc \ {"opened", "sent"}
    BY <1>1, <1>2, UserGivesUp DEF Install, UserPc
  <2>3. user[u].conn \in Nat \cup {None} /\ current # user[u].conn
    BY <1>1 DEF SessionInv, OpenedInv, TypeOK, UserRow
  <2>4. Closing({user[u].conn}) /\ current' = current
    BY <1>2 DEF Install
  <2> QED
    BY ZenonT(30), <1>1, <2>1, <2>2, <2>3, <2>4, ConnectionDropped
<1>3. CASE ~closed
  BY <1>1, <1>3, StepInstalled DEF Install
<1> QED
  BY ZenonT(30), <1>2, <1>3

-----------------------------------------------------------------------------
(* Publish and the consumer: the steps that touch no message *)

\* What the steps of Publish make of the call in progress.
LEMMA CallTypes ==
  ASSUME NEW row \in CallRow
  PROVE  /\ NoCall \in CallRow
         /\ \A k \in Nat : [NoCall EXCEPT !.number = k] \in CallRow
         /\ \A b \in BOOLEAN : /\ [row EXCEPT !.returned = b] \in CallRow
                               /\ [row EXCEPT !.returned = b].returned = b
                               /\ [row EXCEPT !.returned = b].number = row.number
         /\ [row EXCEPT !.repaired = TRUE] \in CallRow
         /\ [row EXCEPT !.expired = TRUE] \in CallRow
         /\ [row EXCEPT !.expired = TRUE].number = row.number
         /\ [row EXCEPT !.expired = TRUE].returned = row.returned
<1>1. NoCall \in CallRow /\ \A k \in Nat : [NoCall EXCEPT !.number = k] \in CallRow
  BY ZenonT(30) DEF CallRow, NoCall
<1>2. /\ \A b \in BOOLEAN : [row EXCEPT !.returned = b] \in CallRow
      /\ [row EXCEPT !.repaired = TRUE] \in CallRow
      /\ [row EXCEPT !.expired = TRUE] \in CallRow
  BY ZenonT(40) DEF CallRow
<1> QED
  BY <1>1, <1>2 DEF CallRow

LEMMA PublisherMoves ==
  ASSUME SessionInv, UNCHANGED <<current, link, closed, wire, confirms, returns, accepted>>,
         NEW pc \in {"idle", "connect", "failed"},
         NEW c \in {None, current, user["publisher"].conn}, Goto("publisher", pc, c),
         user["publisher"].pc # "opened",
         user["publisher"].pc \in {"sent", "failed"} => pc = "failed" /\ c = user["publisher"].conn,
         NoneReported
  PROVE  SessionInv'
<1>1. "publisher" \in Users /\ "publisher" # "consumer" /\ pc \in UserPc \ {"opened", "sent"}
  BY DEF Users, UserPc
<1> QED
  BY <1>1, UserMoves

LEMMA StepPublish ==
  ASSUME SessionInv, Publish \/ RecoveryFails \/ WaitFails \/ RepairTopology \/ PublishTimeout
  PROVE  SessionInv'
<1>0. TypeOK /\ call \in CallRow /\ None \in {None, current, user["publisher"].conn}
  BY DEF SessionInv, TypeOK
<1>1. CASE Publish
  <2>1. /\ UNCHANGED <<current, link, closed, wire, confirms, returns, accepted, result>>
        /\ user["publisher"].pc = "idle" /\ Goto("publisher", "connect", None)
        /\ \E k \in 1..MaxCalls : call' = [NoCall EXCEPT !.number = k]
    BY <1>1 DEF Publish, sessions, broker
  <2>2. call' \in CallRow
    <3>1. PICK k \in 1..MaxCalls : call' = [NoCall EXCEPT !.number = k]
      BY <2>1
    <3>2. k \in Nat
      BY SessionAssumption
    <3> QED
      BY ZenonT(30), <1>0, <3>1, <3>2, CallTypes
  <2>3. NoneReported
    BY <1>0, <2>1, <2>2, NothingReported
  <2> QED
    BY <1>0, <2>1, <2>3, PublisherMoves
<1>2. CASE RecoveryFails
  <2>1. /\ UNCHANGED <<current, link, closed, wire, confirms, returns, accepted>>
        /\ user["publisher"].pc = "publish" /\ PublishReturns("error")
    BY <1>2 DEF RecoveryFails, sessions, broker
  <2>2. NoneReported /\ Goto("publisher", "idle", None)
    BY ZenonT(30), <1>0, <2>1, ErrorReported DEF PublishReturns
  <2> QED
    BY <1>0, <2>1, <2>2, PublisherMoves
<1>3. CASE WaitFails
  <2>1. /\ UNCHANGED <<current, link, closed, wire, confirms, returns, accepted, call, result>>
        /\ user["publisher"].pc = "sent"
        /\ Goto("publisher", "failed", user["publisher"].conn)
    BY <1>3 DEF WaitFails, sessions, broker
  <2>2. NoneReported
    BY <1>0, <2>1, NothingReported
  <2> QED
    BY <2>1, <2>2, PublisherMoves
<1>4. CASE RepairTopology
  <2>1. /\ UNCHANGED <<current, link, closed, wire, confirms, returns, accepted>>
        /\ user["publisher"].pc = "returned"
    BY <1>4 DEF RepairTopology, sessions, broker
  <2>2. \/ PublishReturns("error")
        \/ /\ call' = [call EXCEPT !.repaired = TRUE] /\ result' = result
           /\ Goto("publisher", "connect", None)
        \/ /\ UNCHANGED <<call, result>>
           /\ Goto("publisher", "failed", user["publisher"].conn)
    BY <1>4 DEF RepairTopology
  <2>3. CASE PublishReturns("error")
    <3>1. NoneReported /\ Goto("publisher", "idle", None)
      BY ZenonT(30), <1>0, <2>3, ErrorReported DEF PublishReturns
    <3> QED
      BY <1>0, <2>1, <3>1, PublisherMoves
  <2>4. CASE /\ call' = [call EXCEPT !.repaired = TRUE] /\ result' = result
             /\ Goto("publisher", "connect", None)
    <3>1. call' \in CallRow
      BY ZenonT(30), <1>0, <2>4, CallTypes
    <3>2. NoneReported
      BY <1>0, <2>4, <3>1, NothingReported
    <3> QED
      BY <1>0, <2>1, <2>4, <3>2, PublisherMoves
  <2>5. CASE /\ UNCHANGED <<call, result>>
             /\ Goto("publisher", "failed", user["publisher"].conn)
    <3>1. NoneReported
      BY <1>0, <2>5, NothingReported
    <3> QED
      BY <2>1, <2>5, <3>1, PublisherMoves
  <2> QED
    BY <2>2, <2>3, <2>4, <2>5
<1>5. CASE PublishTimeout
  <2>1. /\ UNCHANGED <<current, link, closed, wire, confirms, returns, accepted, user, result>>
        /\ call' = [call EXCEPT !.expired = TRUE]
    BY <1>5 DEF PublishTimeout, sessions, broker
  <2>2. call' \in CallRow /\ call'.number = call.number /\ call'.returned = call.returned
    BY ZenonT(30), <1>0, <2>1, CallTypes
  <2> QED
    BY <2>1, <2>2, UsersStay
<1> QED
  BY <1>1, <1>2, <1>3, <1>4, <1>5

LEMMA StepPublishFails ==
  ASSUME SessionInv, PublishFails
  PROVE  SessionInv'
<1> DEFINE c == user["publisher"].conn
<1>0. TypeOK /\ call \in CallRow /\ "publisher" \in Users /\ "publisher" # "consumer"
  BY DEF SessionInv, TypeOK, Users
<1>1. /\ UNCHANGED <<closed, wire, confirms, returns, accepted>>
      /\ user["publisher"].pc = "failed" /\ InvalidatePublishChannel(c)
  BY DEF PublishFails, broker
<1>2. /\ current' = IF current = c THEN None ELSE current
      /\ Closing({c}) \/ (link' = link /\ current # c /\ user["publisher"].pc # "opened")
      /\ c \in Nat \cup {None}
  BY <1>0, <1>1 DEF InvalidatePublishChannel, TypeOK, UserRow
<1>3. CASE PublishReturns("error")
  <2>1. NoneReported /\ Goto("publisher", "idle", None) /\ "idle" \in UserPc \ {"opened", "sent"}
    BY ZenonT(30), <1>0, <1>3, ErrorReported DEF PublishReturns, UserPc
  <2> HIDE DEF c
  <2> QED
    BY ZenonT(30), <1>0, <1>1, <1>2, <2>1, ConnectionDropped DEF c
<1>4. CASE Goto("publisher", "connect", None) /\ UNCHANGED <<call, result>>
  <2>1. NoneReported /\ "connect" \in UserPc \ {"opened", "sent"}
    BY <1>0, <1>4, NothingReported DEF UserPc
  <2> QED
    BY ZenonT(30), <1>0, <1>1, <1>2, <1>4, <2>1, ConnectionDropped
<1> QED
  BY <1>3, <1>4 DEF PublishFails

LEMMA StepConsumer ==
  ASSUME SessionInv, OpenConsumer \/ ConsumeEnds
  PROVE  SessionInv'
<1>0. /\ TypeOK /\ call \in CallRow /\ "consumer" \in Users /\ "publisher" # "consumer"
      /\ UserPc \ {"opened", "sent"} =
           {"idle", "connect", "dial", "publish", "failed", "returned", "open", "consume", "stopped",
            "ping", "probe"}
  BY DEF SessionInv, TypeOK, Users, UserPc
<1>1. /\ UNCHANGED <<closed, wire, confirms, returns, accepted, call, result>>
      /\ user["consumer"].pc # "opened"
  BY DEF OpenConsumer, ConsumeEnds, broker
<1>2. NoneReported
  BY ZenonT(30), <1>0, <1>1, NothingReported
<1>3. ASSUME UNCHANGED <<current, link>>, NEW pc \in {"consume", "connect"},
             NEW c \in {None, current}, Goto("consumer", pc, c)
      PROVE  SessionInv'
  BY <1>0, <1>1, <1>2, <1>3, UserMoves
<1>4. ASSUME NEW d \in Nat \cup {None}, InvalidateConnection(d),
             NEW pc \in {"stopped", "connect"}, Goto("consumer", pc, None)
      PROVE  SessionInv'
  BY ZenonT(30), <1>0, <1>1, <1>2, <1>4, ConnectionDropped DEF InvalidateConnection
<1>5. current \in Nat \cup {None} /\ user["consumer"].conn \in Nat \cup {None}
  BY SMTT(30), <1>0, Cells DEF TypeOK, UserRow
<1>6. CASE OpenConsumer
  BY ZenonT(30), <1>3, <1>4, <1>5, <1>6 DEF OpenConsumer
<1>7. CASE ConsumeEnds
  BY ZenonT(30), <1>3, <1>4, <1>5, <1>7 DEF ConsumeEnds
<1> QED
  BY <1>6, <1>7

LEMMA StepProber ==
  ASSUME SessionInv, StartPing \/ Ping \/ PingReturns \/ PingExpires
  PROVE  SessionInv'
<1> DEFINE d == user["prober"].conn
<1>0. /\ TypeOK /\ call \in CallRow /\ "prober" \in Users /\ "publisher" # "prober"
      /\ {"idle", "connect", "probe"} \subseteq UserPc \ {"opened", "sent"}
  BY DEF SessionInv, TypeOK, Users, UserPc
<1>1. UNCHANGED <<closed, wire, confirms, returns, accepted, call, result>>
  BY DEF StartPing, Ping, PingReturns, PingExpires, broker
<1>2. NoneReported
  BY ZenonT(30), <1>0, <1>1, NothingReported
<1>3. ASSUME UNCHANGED <<current, link>>, NEW pc \in {"idle", "connect", "probe"},
             NEW c \in {None, current}, Goto("prober", pc, c), user["prober"].pc # "opened"
      PROVE  SessionInv'
  BY <1>0, <1>1, <1>2, <1>3, UserMoves
<1>4. current \in Nat \cup {None} /\ d \in Nat \cup {None}
  BY SMTT(30), <1>0, Cells DEF TypeOK, UserRow
<1>5. CASE StartPing
  BY ZenonT(30), <1>3, <1>5 DEF StartPing, sessions
<1>6. CASE Ping
  BY ZenonT(30), <1>3, <1>6 DEF Ping, sessions
<1>7. CASE PingReturns
  <2>1. user["prober"].pc = "probe" /\ Goto("prober", "idle", None)
    BY <1>7 DEF PingReturns
  <2>2. CASE UNCHANGED <<current, link>>
    BY ZenonT(30), <1>3, <2>1, <2>2
  <2>3. CASE InvalidateConnection(d)
    <3> HIDE DEF d
    <3> QED
      BY ZenonT(30), <1>0, <1>1, <1>2, <1>4, <2>1, <2>3, ConnectionDropped DEF InvalidateConnection
  <2> QED
    BY ZenonT(30), <1>7, <2>2, <2>3 DEF PingReturns
<1>8. CASE PingExpires
  <2>1. /\ current' = current /\ Goto("prober", "idle", None)
        /\ Closing(IF user["prober"].pc = "opened" THEN {d} ELSE {})
    BY <1>8 DEF PingExpires
  <2>2. CASE user["prober"].pc = "opened"
    <3>1. current # d
      BY <1>0, <2>2 DEF SessionInv, OpenedInv
    <3>2. Closing({d})
      BY <2>1, <2>2
    <3> HIDE DEF d
    <3> QED
      BY ZenonT(30), <1>0, <1>1, <1>2, <1>4, <2>1, <3>1, <3>2, ConnectionDropped DEF d
  <2>3. CASE user["prober"].pc # "opened"
    <3>1. Closing({})
      BY <2>1, <2>3
    <3>2. link' = link
      BY <1>0, <3>1 DEF Closing, Conns, TypeOK
    <3> QED
      BY ZenonT(30), <1>3, <2>1, <2>3, <3>2
  <2> QED
    BY <2>2, <2>3
<1> QED
  BY <1>5, <1>6, <1>7, <1>8

LEMMA StepShutdown ==
  ASSUME SessionInv, Cancel \/ Close
  PROVE  SessionInv'
<1>1. /\ UNCHANGED <<wire, confirms, returns, accepted, user, result, call>>
      /\ \/ UNCHANGED <<current, link, closed>>
         \/ current' = None /\ Closing({current} \ {None})
  BY DEF Cancel, Close, sessions, broker
<1>2. call' \in CallRow
  BY <1>1 DEF SessionInv, TypeOK
<1> QED
  BY <1>1, <1>2, UsersStay

-----------------------------------------------------------------------------
(* Publications, confirmations and returned messages *)

\* One cell of a sequence is replaced.
LEMMA CellReplaced ==
  ASSUME NEW S, NEW s \in Seq(S), NEW n, Len(s) = n, NEW i \in 1..n, NEW e \in S
  PROVE  /\ [s EXCEPT ![i] = e] \in Seq(S) /\ Len([s EXCEPT ![i] = e]) = n
         /\ \A d \in 1..n : [s EXCEPT ![i] = e][d] = IF d = i THEN e ELSE s[d]
BY ExceptSeq

\* Only what connection c carries changes, the link of c may get worse but not lost,
\* and only the publisher may move, from a publication on c.
LEMMA MessageStep ==
  ASSUME SessionInv, NEW c \in Conns,
         NEW w \in Seq(Nat), wire' = [wire EXCEPT ![c] = w],
         NEW f \in Seq(Confirmation), confirms' = [confirms EXCEPT ![c] = f],
         NEW r \in Nat, returns' = [returns EXCEPT ![c] = r],
         NEW l \in LinkState, link' = [link EXCEPT ![c] = l], link[c] = "closed" => l = "closed",
         UNCHANGED <<current, closed>>, accepted \subseteq accepted',
         user' \in [Users -> UserRow],
         \A v \in Users : v # "publisher" => user'[v] = user[v],
         \/ user["publisher"].pc # "opened" /\ user'["publisher"].pc # "opened"
         \/ user' = user,
         user'["publisher"].conn \in {None, current, user["publisher"].conn},
         call' \in CallRow, result' \in [1..MaxCalls -> Outcome],
         \A d \in Conns \ {c} : Busy(d) => Busy(d)',
         \/ Busy(c)'
         \/ w = <<>> /\ f = <<>> /\ r = 0
         \/ c # current /\ \A u \in Users : ~(user[u].pc = "opened" /\ user[u].conn = c),
         user'["publisher"].pc = "sent" =>
           \/ user'["publisher"].conn = c /\ Awaits(c)'
           \/ /\ user'["publisher"] = user["publisher"] /\ user["publisher"].conn # c
              /\ call'.number = call.number /\ call'.returned = call.returned,
         \A k \in 1..MaxCalls : result'[k] = "ok" => result[k] = "ok" \/ k \in accepted'
  PROVE  SessionInv'
<1>0. TypeOK /\ None \notin Conns /\ Len(link) \in Nat /\ Conns = 1..Len(link)
  <2>1. TypeOK
    BY ZenonT(30) DEF SessionInv
  <2>2. Len(link) \in Nat /\ Conns = 1..Len(link)
    BY ZenonT(30), <2>1, Cells
  <2> QED
    BY <2>1, <2>2, SessionAssumption
<1>1. /\ link' \in Seq(LinkState) /\ Len(link') = Len(link) /\ Conns' = Conns
      /\ \A d \in Conns : link'[d] = IF d = c THEN l ELSE link[d]
  <2>1. /\ link' \in Seq(LinkState) /\ Len(link') = Len(link)
        /\ \A d \in Conns : link'[d] = IF d = c THEN l ELSE link[d]
    <3>1. link \in Seq(LinkState) /\ c \in 1..Len(link)
      BY <1>0 DEF TypeOK
    <3> QED
      BY SMTT(30), <1>0, <3>1, CellReplaced
  <2>2. Conns' = 1..Len(link')
    BY ZenonT(30), <2>1, LenProperties DEF Conns
  <2> QED
    BY ZenonT(30), <1>0, <2>1, <2>2
<1>2. /\ wire' \in Seq(Seq(Nat)) /\ Len(wire') = Len(link)
      /\ \A d \in Conns : wire'[d] = IF d = c THEN w ELSE wire[d]
  <2>1. wire \in [1..Len(link) -> Seq(Nat)]
    BY <1>0, LenProperties DEF TypeOK
  <2>2. wire' \in [1..Len(link) -> Seq(Nat)]
    BY <1>0, <2>1
  <2>3. wire' \in Seq(Seq(Nat)) /\ Len(wire') = Len(link)
    BY ZenonT(120), <1>0, <2>2, FunctionSequence
  <2> QED
    BY ZenonT(30), <1>0, <2>1, <2>3
<1>3. /\ confirms' \in Seq(Seq(Confirmation)) /\ Len(confirms') = Len(link)
      /\ \A d \in Conns : confirms'[d] = IF d = c THEN f ELSE confirms[d]
  <2>1. confirms \in [1..Len(link) -> Seq(Confirmation)]
    BY <1>0, LenProperties DEF TypeOK
  <2>2. confirms' \in [1..Len(link) -> Seq(Confirmation)]
    BY <1>0, <2>1
  <2>3. confirms' \in Seq(Seq(Confirmation)) /\ Len(confirms') = Len(link)
    BY ZenonT(120), <1>0, <2>2, FunctionSequence
  <2> QED
    BY <1>0, <2>1, <2>3
<1>4. /\ returns' \in Seq(Nat) /\ Len(returns') = Len(link)
      /\ \A d \in Conns : returns'[d] = IF d = c THEN r ELSE returns[d]
  <2>1. returns \in [1..Len(link) -> Nat]
    BY ZenonT(30), <1>0, LenProperties DEF TypeOK
  <2>2. returns' \in [1..Len(link) -> Nat]
    BY <1>0, <2>1
  <2>3. returns' \in Seq(Nat) /\ Len(returns') = Len(link)
    BY ZenonT(120), <1>0, <2>2, FunctionSequence
  <2> QED
    BY <1>0, <2>1, <2>3
<1>5. \A u \in Users : /\ user'[u].conn \in {None, current, user[u].conn}
                       /\ user'[u].pc = "opened" \/ user[u].pc = "opened" => user'[u] = user[u]
  BY ZenonT(30)
<1>6. TypeOK'
  BY ZenonT(30), <1>0, <1>1, <1>2, <1>3, <1>4, <1>5 DEF TypeOK
<1>7. OpenedInv'
  <2> SUFFICES ASSUME NEW u \in Users, user'[u].pc = "opened"
               PROVE  /\ user'[u].conn \in Conns' /\ user'[u].conn # current'
                      /\ \A v \in Users \ {u} : user'[v].conn # user'[u].conn
    BY ZenonT(30) DEF OpenedInv
  <2>1. user'[u] = user[u]
    BY ZenonT(30), <1>5
  <2>2. /\ user[u].conn \in Conns /\ user[u].conn # current /\ user[u].conn # None
        /\ \A v \in Users \ {u} : user[v].conn # user[u].conn
    BY ZenonT(30), <1>0, <2>1 DEF SessionInv, OpenedInv
  <2> QED
    BY ZenonT(30), <1>1, <1>5, <2>1, <2>2
<1>8. CleanInv'
  <2> SUFFICES ASSUME NEW d \in Conns, ~Busy(d)',
                      d = current' \/ \E u \in Users : user'[u].pc = "opened" /\ user'[u].conn = d
               PROVE  Clean(d)'
    BY ZenonT(30), <1>1 DEF CleanInv
  <2>1. d = current \/ \E u \in Users : user[u].pc = "opened" /\ user[u].conn = d
    BY ZenonT(30), <1>5
  <2>2. CASE d = c
    <3>1. w = <<>> /\ f = <<>> /\ r = 0
      BY ZenonT(30), <2>1, <2>2
    <3> QED
      BY ZenonT(30), <1>2, <1>3, <1>4, <2>2, <3>1 DEF Clean
  <2>3. CASE d # c
    <3>1. Clean(d)
      BY ZenonT(30), <2>1, <2>3 DEF SessionInv, CleanInv
    <3> QED
      BY ZenonT(30), <1>2, <1>3, <1>4, <2>3, <3>1 DEF Clean
  <2> QED
    BY ZenonT(30), <2>2, <2>3
<1>9. ConfirmationInv'
  <2> SUFFICES ASSUME user'["publisher"].pc = "sent"
               PROVE  user'["publisher"].conn \in Conns' /\ Awaits(user["publisher"].conn)'
    BY ZenonT(30) DEF ConfirmationInv
  <2>1. CASE user'["publisher"].conn = c /\ Awaits(c)'
    BY ZenonT(30), <1>1, <2>1 DEF Awaits, Clean
  <2>2. CASE /\ user'["publisher"] = user["publisher"] /\ user["publisher"].conn # c
             /\ call'.number = call.number /\ call'.returned = call.returned
    <3>1. user["publisher"].conn \in Conns /\ Awaits(user["publisher"].conn)
      BY ZenonT(30), <2>2 DEF SessionInv, ConfirmationInv
    <3> QED
      BY ZenonT(120), <1>1, <1>2, <1>3, <1>4, <2>2, <3>1 DEF Awaits, Clean
  <2> QED
    BY ZenonT(30), <2>1, <2>2
<1>10. ConfirmedMeansAccepted'
  BY ZenonT(30) DEF SessionInv, ConfirmedMeansAccepted
<1>11. NoLeakedConnection'
  <2> SUFFICES ASSUME NEW d \in Conns, link'[d] # "closed"
               PROVE  \/ d = current' /\ ~closed'
                      \/ \E u \in Users : user'[u].pc = "opened" /\ user'[u].conn = d
    BY ZenonT(30), <1>1 DEF NoLeakedConnection
  <2>1. \/ d = current /\ ~closed
        \/ \E u \in Users : user[u].pc = "opened" /\ user[u].conn = d
    BY ZenonT(30), <1>1 DEF SessionInv, NoLeakedConnection
  <2> QED
    BY ZenonT(30), <1>5, <2>1
<1> QED
  BY ZenonT(30), <1>6, <1>7, <1>8, <1>9, <1>10, <1>11 DEF SessionInv

\* A message step on connection c leaves what it does not replace as it is.
LEMMA SameCells ==
  ASSUME TypeOK, NEW c \in Conns
  PROVE  /\ link = [link EXCEPT ![c] = link[c]] /\ wire = [wire EXCEPT ![c] = wire[c]]
         /\ confirms = [confirms EXCEPT ![c] = confirms[c]]
         /\ returns = [returns EXCEPT ![c] = returns[c]]
<1>1. link \in [1..Len(link) -> LinkState] /\ c \in 1..Len(link)
  BY LenProperties DEF TypeOK, Conns
<1>2. wire \in [1..Len(link) -> Seq(Nat)]
  BY LenProperties DEF TypeOK
<1>3. confirms \in [1..Len(link) -> Seq(Confirmation)]
  BY LenProperties DEF TypeOK
<1>4. returns \in [1..Len(link) -> Nat]
  BY ZenonT(30), LenProperties DEF TypeOK
<1> QED
  BY <1>1, <1>2, <1>3, <1>4

LEMMA StepSend ==
  ASSUME SessionInv, Send
  PROVE  SessionInv'
<1>0. TypeOK /\ call \in CallRow /\ call' = [call EXCEPT !.returned = FALSE]
  BY DEF SessionInv, TypeOK, Send
<1>1. /\ UNCHANGED <<current, link, closed, confirms, returns, accepted, result>>
      /\ user["publisher"].pc = "publish"
  BY DEF Send, sessions
<1>2. call' \in CallRow /\ call'.number = call.number /\ call'.returned = FALSE
  BY ZenonT(30), <1>0, CallTypes
<1>3. NoneReported
  BY <1>0, <1>1, <1>2, NothingReported
<1>4. CASE current = None \/ link[current] # "open"
  <2>1. \/ Goto("publisher", "connect", None) /\ wire' = wire
        \/ Goto("publisher", "failed", current) /\ wire' = wire
    BY <1>4 DEF Send
  <2>2. None \in {None, current, user["publisher"].conn}
    OBVIOUS
  <2> QED
    BY <1>1, <1>3, <2>1, <2>2, PublisherMoves
<1>5. CASE current # None /\ link[current] = "open"
  <2>1. PICK c \in Conns : c = current
    BY <1>0, <1>5 DEF TypeOK
  <2>2. /\ Goto("publisher", "sent", c) /\ wire' = [wire EXCEPT ![c] = Append(wire[c], call.number)]
    BY <1>5, <2>1 DEF Send
  <2>3. Clean(c)
    <3>1. ~Busy(c)
      BY <1>1 DEF Busy
    <3> QED
      BY <2>1, <3>1 DEF SessionInv, CleanInv
  <2>4. Append(wire[c], call.number) = <<call.number>> /\ <<call.number>> \in Seq(Nat)
    BY <1>0, <2>3 DEF Clean, CallRow
  <2>5. /\ confirms' = [confirms EXCEPT ![c] = confirms[c]] /\ confirms[c] \in Seq(Confirmation)
        /\ returns' = [returns EXCEPT ![c] = returns[c]] /\ returns[c] \in Nat
        /\ link' = [link EXCEPT ![c] = link[c]] /\ link[c] \in LinkState
        /\ wire' = [wire EXCEPT ![c] = <<call.number>>]
        /\ c \in DOMAIN wire
    BY <1>0, <1>1, <2>2, <2>4, Cells, SameCells
  <2>6. /\ user' \in [Users -> UserRow] /\ user'["publisher"].pc = "sent"
        /\ user'["publisher"].conn = c /\ \A v \in Users : v # "publisher" => user'[v] = user[v]
    <3>1. c \in Nat \cup {None} /\ "sent" \in UserPc /\ "publisher" \in Users /\ "consumer" \in Users
      BY SMTT(30), <1>0, Cells DEF UserPc, Users
    <3> QED
      BY <1>0, <2>2, <3>1, UserGoes
  <2>7. Awaits(c)'
    <3>1. wire'[c] = <<call'.number>> /\ confirms'[c] = <<>> /\ returns'[c] = 0
      BY <1>1, <1>2, <2>3, <2>5 DEF Clean
    <3> QED
      BY <1>2, <3>1 DEF Awaits
  <2>8. Busy(c)' /\ \A d \in Conns \ {c} : Busy(d) => Busy(d)'
    BY <1>1, <2>6 DEF Busy
  <2>9. result' \in [1..MaxCalls -> Outcome]
    BY <1>0, <1>1 DEF TypeOK
  <2>10. /\ user["publisher"].pc # "opened" /\ user'["publisher"].pc # "opened"
         /\ user'["publisher"].conn \in {None, current, user["publisher"].conn}
         /\ accepted \subseteq accepted' /\ UNCHANGED <<current, closed>>
    BY <1>1, <2>1, <2>6
  <2>11. \A k \in 1..MaxCalls : result'[k] = "ok" => result[k] = "ok" \/ k \in accepted'
    BY ZenonT(30), <1>1
  <2> QED
    BY ZenonT(30), <1>2, <2>4, <2>5, <2>6, <2>7, <2>8, <2>9, <2>10, <2>11, MessageStep
<1> QED
  BY <1>4, <1>5

LEMMA StepTakeReturn ==
  ASSUME SessionInv, TakeReturn
  PROVE  SessionInv'
<1>0. TypeOK /\ call \in CallRow /\ call' = [call EXCEPT !.returned = TRUE]
  BY DEF SessionInv, TypeOK, TakeReturn
<1>1. /\ UNCHANGED <<current, link, closed, user, result, wire, confirms, accepted>>
      /\ user["publisher"].pc = "sent"
  BY DEF TakeReturn, sessions
<1>2. PICK c \in Conns : c = user["publisher"].conn
  BY <1>1 DEF SessionInv, ConfirmationInv
<1>3. Awaits(c) /\ returns[c] > 0 /\ returns' = [returns EXCEPT ![c] = returns[c] - 1]
  BY <1>1, <1>2 DEF SessionInv, ConfirmationInv, TakeReturn
<1>4. call' \in CallRow /\ call'.number = call.number /\ call'.returned = TRUE
  BY ZenonT(30), <1>0, CallTypes
<1>5. wire[c] = <<>> /\ confirms[c] = <<"ack">> /\ returns[c] = 1
  BY <1>3 DEF Awaits, Clean
<1>6. /\ wire' = [wire EXCEPT ![c] = wire[c]] /\ wire[c] \in Seq(Nat)
      /\ confirms' = [confirms EXCEPT ![c] = confirms[c]] /\ confirms[c] \in Seq(Confirmation)
      /\ returns' = [returns EXCEPT ![c] = 0]
      /\ link' = [link EXCEPT ![c] = link[c]] /\ link[c] \in LinkState
      /\ c \in DOMAIN returns
  <2>1. returns[c] - 1 = 0
    BY <1>5
  <2> QED
    BY ZenonT(30), <1>0, <1>1, <1>3, <2>1, Cells, SameCells
<1>7. Awaits(c)'
  BY <1>1, <1>4, <1>5, <1>6 DEF Awaits
<1>8. Busy(c)' /\ \A d \in Conns : Busy(d) => Busy(d)'
  BY <1>1, <1>2 DEF Busy
<1>9. /\ result' \in [1..MaxCalls -> Outcome] /\ user' \in [Users -> UserRow]
      /\ user'["publisher"].conn = c
  BY ZenonT(30), <1>0, <1>1, <1>2 DEF TypeOK
<1> QED
  BY ZenonT(120), <1>1, <1>2, <1>4, <1>6, <1>7, <1>8, <1>9, MessageStep

\* The confirmation that is taken is that of the call in progress.
LEMMA StepTakeConfirmation ==
  ASSUME SessionInv, TakeConfirmation
  PROVE  SessionInv'
<1>0. TypeOK /\ call \in CallRow /\ "publisher" \in Users /\ "consumer" \in Users
  BY DEF SessionInv, TypeOK, Users
<1>1. /\ UNCHANGED <<current, link, closed, wire, accepted>>
      /\ user["publisher"].pc = "sent"
  BY DEF TakeConfirmation, sessions
<1>2. PICK c \in Conns : c = user["publisher"].conn
  BY ZenonT(30), <1>1 DEF SessionInv, ConfirmationInv
<1>3. /\ Awaits(c) /\ confirms[c] # <<>> /\ confirms' = [confirms EXCEPT ![c] = Tail(confirms[c])]
      /\ returns' = [returns EXCEPT ![c] = Drained(c)]
      /\ \/ Returned(c) /\ Goto("publisher", "returned", c) /\ UNCHANGED <<call, result>>
         \/ ~Returned(c) /\ Goto("publisher", "failed", c) /\ UNCHANGED <<call, result>>
         \/ ~Returned(c) /\ Head(confirms[c]) = "ack" /\ PublishReturns("ok")
  BY ZenonT(30), <1>1, <1>2 DEF SessionInv, ConfirmationInv, TakeConfirmation
<1>4. /\ wire[c] = <<>> /\ Tail(confirms[c]) = <<>> /\ Drained(c) = 0
      /\ ~Returned(c) /\ Head(confirms[c]) = "ack" => call.number \in accepted
  <2>1. /\ wire[c] = <<>> /\ confirms[c] \in {<<"ack">>, <<"nack">>}
        /\ \/ returns[c] = 0
           \/ returns[c] = 1 /\ ~call.returned
        /\ confirms[c] = <<"ack">> /\ ~Returned(c) => call.number \in accepted
    <3>1. \/ confirms[c] = <<"ack">> /\ returns[c] = 0 /\ ~call.returned /\ call.number \in accepted
          \/ confirms[c] = <<"ack">> /\ returns[c] = 1 /\ ~call.returned
          \/ confirms[c] = <<"ack">> /\ returns[c] = 0 /\ call.returned
          \/ confirms[c] = <<"nack">> /\ returns[c] = 0 /\ ~call.returned
      BY <1>3 DEF Awaits, Clean
    <3>2. wire[c] = <<>>
      BY <1>3 DEF Awaits, Clean
    <3>3. <<"ack">> # <<"nack">> /\ (returns[c] = 1 => returns[c] > 0)
      OBVIOUS
    <3>4. confirms[c] = <<"ack">> /\ ~Returned(c) => call.number \in accepted
      BY <3>1, <3>3 DEF Returned
    <3> QED
      BY ZenonT(30), <3>1, <3>2, <3>4
  <2>2. /\ Tail(<<"ack">>) = <<>> /\ Tail(<<"nack">>) = <<>>
        /\ Head(<<"ack">>) = "ack" /\ Head(<<"nack">>) = "nack"
    OBVIOUS
  <2>3. Drained(c) = 0
    BY <2>1 DEF Drained
  <2> QED
    BY ZenonT(30), <2>1, <2>2, <2>3
<1>5. /\ wire' = [wire EXCEPT ![c] = <<>>] /\ <<>> \in Seq(Nat)
      /\ confirms' = [confirms EXCEPT ![c] = <<>>] /\ <<>> \in Seq(Confirmation)
      /\ returns' = [returns EXCEPT ![c] = 0]
      /\ link' = [link EXCEPT ![c] = link[c]] /\ link[c] \in LinkState
  <2>1. <<>> \in Seq(Nat) /\ <<>> \in Seq(Confirmation)
    OBVIOUS
  <2> QED
    BY ZenonT(30), <1>0, <1>1, <1>3, <1>4, <2>1, Cells, SameCells
<1>6. PICK pc \in {"returned", "failed", "idle"}, e \in {c, None} : Goto("publisher", pc, e)
  BY <1>3 DEF PublishReturns
<1>7. /\ user' \in [Users -> UserRow] /\ user'["publisher"].pc = pc
      /\ user'["publisher"].conn = e /\ \A v \in Users : v # "publisher" => user'[v] = user[v]
  <2>1. e \in Nat \cup {None} /\ pc \in UserPc
    BY <1>0, Cells DEF UserPc
  <2> QED
    BY ZenonT(30), <1>0, <1>6, <2>1, UserGoes
<1>8. call' \in CallRow /\ result' \in [1..MaxCalls -> Outcome]
  <2>1. CASE UNCHANGED <<call, result>>
    BY <1>0, <2>1 DEF TypeOK
  <2>2. CASE PublishReturns("ok")
    <3>1. call' \in CallRow
      BY ZenonT(30), <1>0, <2>2, CallTypes DEF PublishReturns
    <3>2. result' \in [1..MaxCalls -> Outcome]
      BY ZenonT(30), <1>0, <2>2 DEF PublishReturns, TypeOK, Outcome
    <3> QED
      BY <3>1, <3>2
  <2> QED
    BY <1>3, <2>1, <2>2
<1>9. \A k \in 1..MaxCalls : result'[k] = "ok" => result[k] = "ok" \/ k \in accepted'
  <2> SUFFICES ASSUME NEW k \in 1..MaxCalls, result'[k] = "ok", result[k] # "ok"
               PROVE  k \in accepted
    BY <1>1
  <2>1. ~Returned(c) /\ Head(confirms[c]) = "ack" /\ PublishReturns("ok")
    BY <1>3
  <2>2. k = call.number
    BY <1>0, <2>1 DEF PublishReturns, TypeOK
  <2> QED
    BY <1>4, <2>1, <2>2
<1>10. \A d \in Conns \ {c} : Busy(d) => Busy(d)'
  BY <1>2 DEF Busy
<1>11. user["publisher"].pc # "opened" /\ user'["publisher"].pc \notin {"opened", "sent"}
  BY <1>1, <1>7
<1>12. user'["publisher"].conn \in {None, current, user["publisher"].conn}
  BY <1>2, <1>7
<1>13. 0 \in Nat /\ accepted \subseteq accepted' /\ (link[c] = "closed" => link[c] = "closed")
  BY ZenonT(30), <1>1
<1> QED
  BY ZenonT(30), <1>1, <1>5, <1>7, <1>8, <1>9, <1>10, <1>11, <1>12, <1>13, MessageStep

LEMMA StepBreak ==
  ASSUME SessionInv, NEW c \in Conns, NEW state \in {"lame", "closed"}, Break(c, state)
  PROVE  SessionInv'
<1>0. TypeOK /\ call \in CallRow /\ state \in LinkState
  BY DEF SessionInv, TypeOK, LinkState
<1>1. /\ UNCHANGED <<current, closed, user, call, result, confirms, returns, accepted>>
      /\ link[c] = "open" /\ link' = [link EXCEPT ![c] = state] /\ wire' = [wire EXCEPT ![c] = <<>>]
  BY DEF Break
<1>2. /\ <<>> \in Seq(Nat) /\ c \in DOMAIN wire
      /\ confirms' = [confirms EXCEPT ![c] = confirms[c]] /\ confirms[c] \in Seq(Confirmation)
      /\ returns' = [returns EXCEPT ![c] = returns[c]] /\ returns[c] \in Nat
  <2>1. <<>> \in Seq(Nat)
    OBVIOUS
  <2> QED
    BY <1>0, <1>1, <2>1, Cells, SameCells
<1>3. \/ Busy(c)' \/ (confirms[c] = <<>> /\ returns[c] = 0)
      \/ c # current /\ \A u \in Users : ~(user[u].pc = "opened" /\ user[u].conn = c)
  BY <1>1 DEF SessionInv, CleanInv, Clean, Busy
<1>4. user'["publisher"].pc = "sent" /\ user'["publisher"].conn = c => Awaits(c)'
  <2> SUFFICES ASSUME user["publisher"].pc = "sent", user["publisher"].conn = c
               PROVE  Awaits(c)'
    BY <1>1
  <2>1. Awaits(c)
    BY DEF SessionInv, ConfirmationInv
  <2>2. wire'[c] = <<>> /\ UNCHANGED <<confirms, returns, call, accepted>>
    BY <1>1, <1>2
  <2> QED
    BY ZenonT(30), <2>1, <2>2 DEF Awaits, Clean
<1>5. /\ result' \in [1..MaxCalls -> Outcome] /\ user' \in [Users -> UserRow] /\ call' \in CallRow
      /\ \A d \in Conns \ {c} : Busy(d) => Busy(d)'
  BY ZenonT(30), <1>0, <1>1 DEF TypeOK, Busy
<1> QED
  BY ZenonT(30), <1>0, <1>1, <1>2, <1>3, <1>4, <1>5, MessageStep

LEMMA StepBrokerAnswers ==
  ASSUME SessionInv, NEW c \in Conns, NEW answer \in {"accept", "nack", "return"},
         BrokerAnswers(c, answer)
  PROVE  SessionInv'
<1> DEFINE f == IF link[c] = "open"
                THEN Append(confirms[c], IF answer = "nack" THEN "nack" ELSE "ack")
                ELSE confirms[c]
           r == IF link[c] = "open" /\ answer = "return" THEN returns[c] + 1 ELSE returns[c]
<1>0. /\ TypeOK /\ call \in CallRow /\ wire[c] \in Seq(Nat) /\ confirms[c] \in Seq(Confirmation)
      /\ returns[c] \in Nat /\ link[c] \in LinkState
  BY ZenonT(30), Cells DEF SessionInv, TypeOK
<1>1. /\ UNCHANGED <<current, link, closed, user, call, result>>
      /\ wire[c] # <<>> /\ wire' = [wire EXCEPT ![c] = Tail(wire[c])]
      /\ accepted' = IF answer = "accept" THEN accepted \cup {Head(wire[c])} ELSE accepted
  BY ZenonT(30) DEF BrokerAnswers, sessions
<1>2. confirms' = [confirms EXCEPT ![c] = f] /\ returns' = [returns EXCEPT ![c] = r]
  <2>1. CASE link[c] = "open"
    <3>1. confirms' = [confirms EXCEPT ![c] = f]
      BY <2>1 DEF BrokerAnswers
    <3>2. returns' = [returns EXCEPT ![c] = r]
      BY <2>1 DEF BrokerAnswers
    <3> QED
      BY ZenonT(30), <3>1, <3>2
  <2>2. CASE link[c] # "open"
    BY <1>0, <2>2, SameCells DEF BrokerAnswers
  <2> QED
    BY <2>1, <2>2
<1>3. f \in Seq(Confirmation) /\ r \in Nat /\ Tail(wire[c]) \in Seq(Nat)
  <2>1. f \in Seq(Confirmation)
    BY <1>0 DEF Confirmation
  <2>2. Tail(wire[c]) \in Seq(Nat)
    BY <1>0, <1>1
  <2> QED
    BY <1>0, <2>1, <2>2
<1>4. link' = [link EXCEPT ![c] = link[c]]
  BY ZenonT(30), <1>0, <1>1, SameCells
<1>5. Busy(c)' \/ (c # current /\ \A u \in Users : ~(user[u].pc = "opened" /\ user[u].conn = c))
  BY <1>1 DEF SessionInv, CleanInv, Clean, Busy
<1>6. user'["publisher"].pc = "sent" /\ user'["publisher"].conn = c => Awaits(c)'
  <2> SUFFICES ASSUME user["publisher"].pc = "sent", user["publisher"].conn = c
               PROVE  Awaits(c)'
    BY <1>1
  <2>1. Awaits(c)
    BY ZenonT(30) DEF SessionInv, ConfirmationInv
  <2>2. wire[c] = <<call.number>> /\ confirms[c] = <<>> /\ returns[c] = 0 /\ ~call.returned
    BY ZenonT(30), <1>1, <2>1 DEF Awaits, Clean
  <2>3. wire'[c] = <<>> /\ (answer = "accept" => call.number \in accepted')
    BY SMTT(30), <1>0, <1>1, <2>2, Cells
  <2>4. confirms'[c] = f /\ returns'[c] = r /\ call' = call
    BY ZenonT(30), <1>0, <1>1, <1>2, Cells
  <2>5. CASE link[c] = "open"
    BY SMTT(30), <2>2, <2>3, <2>4, <2>5 DEF Awaits
  <2>6. CASE link[c] # "open"
    BY ZenonT(30), <2>2, <2>3, <2>4, <2>6 DEF Awaits, Clean
  <2> QED
    BY <2>5, <2>6
<1>7. /\ result' \in [1..MaxCalls -> Outcome] /\ user' \in [Users -> UserRow] /\ call' \in CallRow
      /\ accepted \subseteq accepted' /\ \A d \in Conns \ {c} : Busy(d) => Busy(d)'
  BY <1>0, <1>1 DEF TypeOK, Busy
<1> HIDE DEF f, r
<1> QED
  BY ZenonT(30), <1>0, <1>1, <1>2, <1>3, <1>4, <1>5, <1>6, <1>7, MessageStep

-----------------------------------------------------------------------------
(* The theorems *)

LEMMA SessionInductive == Spec => []SessionInv
<1>1. Init => SessionInv
  <2> SUFFICES ASSUME Init
               PROVE  SessionInv
    OBVIOUS
  <2>1. /\ link = <<"open">> /\ current = 1 /\ wire = <<<<>>>> /\ confirms = <<<<>>>>
        /\ returns = <<0>> /\ call = NoCall /\ ~closed
        /\ result = [k \in 1..MaxCalls |-> "none"]
        /\ Conns = {1}
    BY DEF Init, Conns
  <2>2. /\ user \in [Users -> UserRow]
        /\ \A u \in Users : user[u].conn = None /\ user[u].pc \in {"idle", "connect"}
    BY DEF Init, UserRow, UserPc
  <2>3. TypeOK
    <3>1. link \in Seq(LinkState) /\ Len(link) = 1
      BY <2>1 DEF LinkState
    <3>2. <<>> \in Seq(Nat) /\ <<>> \in Seq(Confirmation)
      OBVIOUS
    <3>3. wire \in Seq(Seq(Nat)) /\ Len(wire) = 1
      BY <2>1, <3>2
    <3>4. confirms \in Seq(Seq(Confirmation)) /\ Len(confirms) = 1
      BY <2>1, <3>2
    <3>5. returns \in Seq(Nat) /\ Len(returns) = 1
      BY <2>1
    <3>6. call \in CallRow /\ result \in [1..MaxCalls -> Outcome]
      BY <2>1 DEF NoCall, CallRow, Outcome
    <3> QED
      BY <2>1, <2>2, <3>1, <3>3, <3>4, <3>5, <3>6 DEF TypeOK
  <2>4. OpenedInv /\ ConfirmationInv /\ NoLeakedConnection
    BY <2>1, <2>2 DEF OpenedInv, ConfirmationInv, NoLeakedConnection, Users
  <2>5. CleanInv /\ ConfirmedMeansAccepted
    BY <2>1 DEF CleanInv, Clean, ConfirmedMeansAccepted
  <2> QED
    BY <2>3, <2>4, <2>5 DEF SessionInv
<1>2. SessionInv /\ [Next]_vars => SessionInv'
  <2> SUFFICES ASSUME SessionInv, [Next]_vars
               PROVE  SessionInv'
    OBVIOUS
  <2>1. ASSUME NEW u \in Users, UserStep(u)
        PROVE  SessionInv'
    BY <2>1, StepEnsureConnected, StepDial, StepOpenFails, StepInstall DEF UserStep
  <2>2. CASE PublisherStep
    BY <2>1, <2>2, StepPublish, StepSend, StepTakeReturn, StepTakeConfirmation, StepPublishFails
    DEF PublisherStep, Users
  <2>3. CASE ConsumerStep
    BY <2>1, <2>3, StepConsumer DEF ConsumerStep, Users
  <2>4. CASE StartPing \/ ProberStep \/ PingExpires
    BY <2>1, <2>4, StepProber DEF ProberStep, Users
  <2>5. CASE Publish \/ PublishTimeout
    BY <2>5, StepPublish
  <2>6. CASE Cancel \/ Close
    BY <2>6, StepShutdown
  <2>7. CASE \E c \in Conns, answer \in {"accept", "nack", "return"} : BrokerAnswers(c, answer)
    BY <2>7, StepBrokerAnswers
  <2>8. CASE \E c \in Conns, state \in {"lame", "closed"} : Break(c, state)
    BY <2>8, StepBreak
  <2>9. CASE UNCHANGED vars
    <3>1. UNCHANGED <<wire, confirms, returns, accepted, user, result, call, current, link, closed>>
      BY <2>9 DEF vars
    <3>2. call' \in CallRow
      BY <3>1 DEF SessionInv, TypeOK
    <3> QED
      BY <3>1, <3>2, UsersStay
  <2> QED
    BY <2>2, <2>3, <2>4, <2>5, <2>6, <2>7, <2>8, <2>9 DEF Next
<1> QED
  BY <1>1, <1>2, PTL DEF Spec

\* Whatever connections break, are invalidated and replaced, Publish returns nil only
\* for a message that the broker has put into the queue.
THEOREM ConfirmationsAreOwn == Spec => []ConfirmedMeansAccepted
BY SessionInductive, PTL DEF SessionInv

\* However reconnecting, invalidation, a failed topology and Close interleave, every
\* connection that is not closed is the current one or is being set up.
THEOREM ConnectionsAreOwned == Spec => []NoLeakedConnection
BY SessionInductive, PTL DEF SessionInv
=============================================================================
