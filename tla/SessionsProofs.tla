--------------------------- MODULE SessionsProofs ---------------------------
(* What holds of Sessions for any number of connections, failing writes and *)
(* crashes of the broker.                                                   *)
EXTENDS Sessions, FiniteSetTheorems, TLAPS

\* Which values there are; IdsApart bounds the ids.
SessionsTypeOK ==
  /\ up \in BOOLEAN /\ crashes \in 0..MaxCrashes /\ failures \in 0..MaxFailures
  /\ client \in [Conns -> {"new", "waiting", "active", "ending", "gone"}]
  /\ inbox \in [Conns -> Seq({"start", "end"})]
  /\ mine \in [Conns -> Nat] /\ current \in [Conns -> Nat]
  /\ handler \in [Conns -> Handling \cup {"none", "decode"}]
  /\ seq \in Nat /\ DOMAIN rows \subseteq 1..seq
  /\ \A id \in DOMAIN rows : rows[id] \in [conn : Conns, ended : {"null", "clean", "dropped"}]
  /\ manager \in SUBSET Nat /\ tracked \in [Conns -> SUBSET Nat]

OpenRow(c, id) == Open(id) /\ rows[id].conn = c

\* The ids connection c, its client and its handler know.
Known(c) == (tracked[c] \cup {mine[c], current[c]}) \ {NoId}

\* No id was ever given to two connections, and the row of an id, if it is still there, is
\* that of the connection that knows the id.
IdsApart ==
  /\ manager \subseteq 1..seq
  /\ \A c \in Conns :
    /\ tracked[c] \subseteq 1..seq
    /\ \A id \in Known(c) : id <= seq /\ (id \in DOMAIN rows => rows[id].conn = c)
    /\ \A d \in Conns : c # d => Known(c) \cap Known(d) = {}

\* Before its registration is read a connection has left no trace.
NoSession(c) ==
  mine[c] = NoId /\ tracked[c] = {} /\ \A id \in DOMAIN rows : rows[id].conn # c

\* Where the client is, its handler can only be at certain places.
InStep(c) ==
  /\ inbox[c] \in {<<>>, <<"start">>, <<"end">>}
  /\ client[c] = "new" => handler[c] = "none" /\ inbox[c] = <<>>
  /\ client[c] = "waiting" => handler[c] \in {"decode", "register", "track", "reply"} /\ mine[c] = NoId
  /\ client[c] = "active" => handler[c] = "decode" /\ inbox[c] = <<>>
  /\ inbox[c] # <<>> => handler[c] = "decode"
  /\ inbox[c] = <<"start">> => client[c] \in {"waiting", "gone"}
  /\ inbox[c] = <<"end">> => client[c] \in {"ending", "gone"}
  /\ handler[c] = "none" => client[c] \in {"new", "gone"}
  /\ handler[c] \in {"register", "track", "reply"} => client[c] \in {"waiting", "gone"} /\ mine[c] = NoId
  /\ handler[c] \in {"deregister", "untrack"} => client[c] \in {"ending", "gone"}
  /\ handler[c] \in {"orphan", "forget"} => client[c] = "gone"

\* What each place of the handler knows of the session in the three views.
SessionAt(c) ==
  /\ client[c] = "new" \/ inbox[c] = <<"start">> => NoSession(c)
  /\ client[c] = "active" \/ inbox[c] = <<"end">> => mine[c] # NoId /\ tracked[c] = {mine[c]}
  /\ handler[c] \in {"none", "register", "track", "orphan", "forget"} => tracked[c] = {}
  /\ handler[c] \in {"register", "track", "reply", "orphan"} => OpenRow(c, current[c])
  /\ handler[c] = "register" => current[c] \notin manager
  /\ handler[c] \in {"track", "reply", "deregister", "orphan", "forget"} =>
       current[c] # NoId /\ current[c] \in manager
  /\ handler[c] = "reply" => tracked[c] = {current[c]}
  /\ handler[c] \in {"deregister", "untrack"} =>
       current[c] = mine[c] /\ mine[c] # NoId /\ tracked[c] = {mine[c]}
  /\ handler[c] = "untrack" => mine[c] \notin manager
  /\ Idle(c) => \A id \in tracked[c] : id \in manager /\ OpenRow(c, id)
  /\ \A i, j \in tracked[c] : i = j
  /\ \A id \in manager : id \in DOMAIN rows /\ rows[id].conn = c =>
       id \in tracked[c] \/ (handler[c] \in {"track", "orphan", "forget"} /\ id = current[c])

ViewsInv == IdsApart /\ \A c \in Conns : InStep(c) /\ SessionAt(c)

-----------------------------------------------------------------------------
(* Typing. *)

LEMMA TypeInit == Init => SessionsTypeOK
<1> SUFFICES ASSUME Init PROVE SessionsTypeOK
  OBVIOUS
<1>1. DOMAIN rows = {}
  BY DEF Init
<1> QED BY <1>1, SessionsAssumption DEF Init, SessionsTypeOK, NoId

\* The three ways in which the table changes.
LEMMA NewRowType ==
  ASSUME SessionsTypeOK, NEW c \in Conns, NewRow(c, seq + 1), seq' = seq + 1
  PROVE  /\ DOMAIN rows' = DOMAIN rows \cup {seq + 1} /\ DOMAIN rows' \subseteq 1..seq'
         /\ seq + 1 \notin DOMAIN rows
         /\ rows'[seq + 1] = [conn |-> c, ended |-> "null"]
         /\ \A id \in DOMAIN rows : rows'[id] = rows[id]
         /\ \A id \in DOMAIN rows' : rows'[id] \in [conn : Conns, ended : {"null", "clean", "dropped"}]
  BY DEF SessionsTypeOK, NewRow

\* UPDATE sessions keeps the table a table.
LEMMA EndRowType ==
  ASSUME SessionsTypeOK, NEW e, NEW how \in {"clean", "dropped"}, EndRow(e, how)
  PROVE  /\ DOMAIN rows' = DOMAIN rows /\ seq' = seq /\ failures' = failures
         /\ \A id \in DOMAIN rows : rows'[id].conn = rows[id].conn
         /\ \A id \in DOMAIN rows : id # e => rows'[id] = rows[id]
         /\ \A id \in DOMAIN rows : rows'[id] \in [conn : Conns, ended : {"null", "clean", "dropped"}]
  BY DEF SessionsTypeOK, EndRow

\* So does DELETE.
LEMMA PruneType ==
  ASSUME Prune
  PROVE  /\ DOMAIN rows' \subseteq DOMAIN rows
         /\ \A id \in DOMAIN rows' : rows'[id] = rows[id]
         /\ \A id \in DOMAIN rows : Open(id) => id \in DOMAIN rows'
  BY DEF Prune, Ended, Open, Restrict

\* cleanupConnection moves ids about.
LEMMA OrphanType ==
  ASSUME SessionsTypeOK, NEW c \in Conns, TakeOrphan(c)
  PROVE  /\ current' \in [Conns -> Nat] /\ tracked' \in [Conns -> SUBSET Nat]
         /\ handler' \in [Conns -> Handling \cup {"none", "decode"}]
<1>1. current' \in [Conns -> Nat] /\ tracked' \in [Conns -> SUBSET Nat]
  <2>1. tracked[c] \subseteq Nat /\ tracked' = [tracked EXCEPT ![c] = {}]
    BY DEF TakeOrphan, SessionsTypeOK
  <2>2. current' = current \/ \E id \in tracked[c] : current' = [current EXCEPT ![c] = id]
    BY DEF TakeOrphan
  <2> QED BY <2>1, <2>2 DEF SessionsTypeOK
<1>2. handler' \in [Conns -> Handling \cup {"none", "decode"}]
  BY DEF TakeOrphan, Goto, Handling, SessionsTypeOK
<1> QED BY <1>1, <1>2

LEMMA TypeStep == SessionsTypeOK /\ [Next]_vars => SessionsTypeOK'
<1> SUFFICES ASSUME SessionsTypeOK, [Next]_vars PROVE SessionsTypeOK'
  OBVIOUS
<1> USE SessionsAssumption DEF SessionsTypeOK, Handling, clientVars, dbVars, memVars
<1>1. ASSUME NEW c \in Conns, ClientStep(c) PROVE SessionsTypeOK'
  <2>1. CASE Connect(c)
    BY <2>1 DEF Connect
  <2>2. CASE SendEnd(c)
    BY <2>2 DEF SendEnd
  <2>3. CASE Hangup(c)
    BY <2>3 DEF Hangup
  <2> QED BY <1>1, <2>1, <2>2, <2>3 DEF ClientStep
<1>2. ASSUME NEW c \in Conns, HandlerStep(c) PROVE SessionsTypeOK'
  <2>r. ASSUME NEW m, Receive(c, m) PROVE inbox' \in [Conns -> Seq({"start", "end"})]
    BY <2>r DEF Receive
  <2>1. CASE CreateSession(c)
    <3>1. NewRow(c, seq + 1) /\ seq' = seq + 1
      BY <2>1 DEF CreateSession
    <3>2. seq' \in Nat /\ UNCHANGED <<up, crashes, failures, client, mine, manager, tracked>>
      BY <2>1 DEF CreateSession, Receive
    <3>3. inbox' \in [Conns -> Seq({"start", "end"})]
      BY <2>1, <2>r DEF CreateSession
    <3>4. current' \in [Conns -> Nat] /\ handler' \in [Conns -> Handling \cup {"none", "decode"}]
      BY <2>1 DEF CreateSession, Goto
    <3>5. /\ DOMAIN rows' \subseteq 1..seq'
          /\ \A id \in DOMAIN rows' : rows'[id] \in [conn : Conns, ended : {"null", "clean", "dropped"}]
      BY <3>1, NewRowType
    <3> QED BY <3>2, <3>3, <3>4, <3>5
  <2>2. CASE CreateSessionFails(c)
    BY <2>2, <2>r DEF CreateSessionFails, Receive, Goto, Fail
  <2>3. CASE Register(c)
    <3>1. manager' \in SUBSET Nat
      <4>1. current[c] \in Nat /\ manager' = manager \cup {current[c]}
        BY <2>3 DEF Register
      <4> QED BY <4>1
    <3>2. handler' \in [Conns -> Handling \cup {"none", "decode"}]
      BY <2>3 DEF Register, Goto
    <3> QED BY <3>1, <3>2, <2>3 DEF Register
  <2>4. CASE Track(c)
    BY <2>4 DEF Track, Goto, NoId
  <2>5. CASE Reply(c)
    <3>1. /\ client' \in {client, [client EXCEPT ![c] = "active"]}
          /\ mine' \in {mine, [mine EXCEPT ![c] = current[c]]}
      BY <2>5 DEF Reply
    <3>3. /\ client' \in [Conns -> {"new", "waiting", "active", "ending", "gone"}]
          /\ mine' \in [Conns -> Nat]
      BY <3>1
    <3>2. handler' \in [Conns -> Handling \cup {"none", "decode"}]
      BY <2>5 DEF Reply, Goto
    <3> QED BY <3>1, <3>2, <3>3, <2>5 DEF Reply
  <2>e. ASSUME NEW id, NEW how \in {"clean", "dropped"}, EndRow(id, how) \/ Fail
        PROVE  /\ seq' = seq /\ failures' \in 0..MaxFailures /\ DOMAIN rows' \subseteq 1..seq
               /\ \A i \in DOMAIN rows' : rows'[i] \in [conn : Conns, ended : {"null", "clean", "dropped"}]
    <3>1. CASE EndRow(id, how)
      BY <3>1, EndRowType
    <3>2. CASE Fail
      BY <3>2 DEF Fail
    <3> QED BY <2>e, <3>1, <3>2
  <2>6. CASE EndSession(c)
    <3>1. EndRow(mine[c], "clean") \/ Fail
      BY <2>6 DEF EndSession
    <3>2. inbox' \in [Conns -> Seq({"start", "end"})]
      BY <2>6, <2>r DEF EndSession
    <3> QED BY <3>1, <3>2, <2>6, <2>e DEF EndSession, Receive, Goto
  <2>7. CASE Deregister(c)
    BY <2>7 DEF Deregister, Goto
  <2>8. CASE Untrack(c)
    BY <2>8 DEF Untrack, Goto
  <2>9. CASE Cleanup(c)
    BY <2>9, OrphanType DEF Cleanup
  <2>10. CASE EndOrphan(c)
    <3>1. EndRow(current[c], "dropped") \/ Fail
      BY <2>10 DEF EndOrphan
    <3> QED BY <3>1, <2>10, <2>e DEF EndOrphan, Goto
  <2>11. CASE ForgetOrphan(c)
    BY <2>11 DEF ForgetOrphan, Goto
  <2> QED
    BY <1>2, <2>1, <2>2, <2>3, <2>4, <2>5, <2>6, <2>7, <2>8, <2>9, <2>10, <2>11 DEF HandlerStep
<1>3. CASE Prune
  <2>1. /\ DOMAIN rows' \subseteq 1..seq
        /\ \A i \in DOMAIN rows' : rows'[i] \in [conn : Conns, ended : {"null", "clean", "dropped"}]
    BY <1>3, PruneType
  <2> QED BY <1>3, <2>1 DEF Prune
<1>4. CASE Crash
  <2>1. /\ client' \in [Conns -> {"new", "waiting", "active", "ending", "gone"}]
        /\ inbox' \in [Conns -> Seq({"start", "end"})]
    BY <1>4 DEF Crash
  <2>2. /\ handler' \in [Conns -> Handling \cup {"none", "decode"}]
        /\ current' \in [Conns -> Nat] /\ tracked' \in [Conns -> SUBSET Nat] /\ manager' \in SUBSET Nat
    BY <1>4 DEF Crash, NoId
  <2>3. up' \in BOOLEAN /\ UNCHANGED <<mine, rows, seq, failures>>
    BY <1>4 DEF Crash
  <2>4. crashes' \in 0..MaxCrashes
    BY <1>4 DEF Crash
  <2> QED BY <2>1, <2>2, <2>3, <2>4
<1>5. CASE Restart
  BY <1>5 DEF Restart
<1>6. CASE UNCHANGED vars
  BY <1>6 DEF vars
<1>7. ASSUME NEW c \in Conns, GiveUp(c) PROVE SessionsTypeOK'
  <2>1. TakeOrphan(c) /\ UNCHANGED <<up, crashes, mine, rows, seq, failures, manager>>
    BY <1>7 DEF GiveUp
  <2>2. /\ client' \in [Conns -> {"new", "waiting", "active", "ending", "gone"}]
        /\ inbox' \in [Conns -> Seq({"start", "end"})]
    BY <1>7 DEF GiveUp
  <2> QED BY <2>1, <2>2, OrphanType
<1> QED BY <1>1, <1>2, <1>3, <1>4, <1>5, <1>6, <1>7 DEF Next

-----------------------------------------------------------------------------
(* The views. *)

ClientSame(d) ==
  /\ client'[d] = client[d] /\ inbox'[d] = inbox[d] /\ mine'[d] = mine[d]
  /\ handler'[d] = handler[d] /\ current'[d] = current[d] /\ tracked'[d] = tracked[d]

\* A step that does not touch a connection, its open rows and the ids it knows.
LEMMA Unconcerned ==
  ASSUME SessionsTypeOK, IdsApart, NEW d \in Conns, InStep(d), SessionAt(d), ClientSame(d),
         \A id \in Known(d) : id \in manager' <=> id \in manager,
         \A id : OpenRow(d, id) => id \in DOMAIN rows' /\ rows'[id] = rows[id],
         \A id \in DOMAIN rows' : rows'[id].conn = d => id \in DOMAIN rows /\ rows[id].conn = d,
         \A id \in manager' : id \in DOMAIN rows' /\ rows'[id].conn = d => id \in manager
  PROVE  InStep(d)' /\ SessionAt(d)'
<1>1. InStep(d)'
  BY DEF InStep, ClientSame
<1>2. \A id : OpenRow(d, id) => OpenRow(d, id)'
  BY DEF OpenRow, Open
<1>3. NoSession(d) => NoSession(d)'
  BY DEF NoSession, ClientSame
<1>4. current[d] # NoId => current[d] \in Known(d)
  BY DEF Known
<1>5. mine[d] # NoId => mine[d] \in Known(d)
  BY DEF Known
<1>6. tracked[d] \subseteq Known(d)
  BY DEF Known, IdsApart, NoId, SessionsTypeOK
<1>7. OpenRow(d, current[d]) => current[d] # NoId
  BY DEF OpenRow, Open, SessionsTypeOK, NoId
<1> QED
  BY <1>1, <1>2, <1>3, <1>4, <1>5, <1>6, <1>7 DEF ClientSame, SessionAt, Idle

\* A step of the connection c, its client or its handler.
OnlyConcerns(c) ==
  /\ \A d \in Conns \ {c} : ClientSame(d)
  /\ \A id \in manager' : id \in manager \cup Known(c)
  /\ \A id \in manager : id \in manager' \cup Known(c)
  /\ \A id \in DOMAIN rows : rows[id].conn # c => id \in DOMAIN rows' /\ rows'[id] = rows[id]
  /\ \A id \in DOMAIN rows' : rows'[id].conn # c => id \in DOMAIN rows /\ rows'[id] = rows[id]

\* What one handler does concerns no other connection.
LEMMA OthersUnconcerned ==
  ASSUME SessionsTypeOK, ViewsInv, NEW c \in Conns, OnlyConcerns(c), NEW d \in Conns, d # c
  PROVE  InStep(d)' /\ SessionAt(d)'
<1>1. ClientSame(d) /\ InStep(d) /\ SessionAt(d) /\ IdsApart
  BY DEF OnlyConcerns, ViewsInv
<1>2. \A id \in Known(d) : id \notin Known(c)
  BY <1>1 DEF IdsApart
<1>3. \A id \in Known(d) : id \in manager' <=> id \in manager
  BY <1>2 DEF OnlyConcerns
<1>4. \A id : OpenRow(d, id) => id \in DOMAIN rows' /\ rows'[id] = rows[id]
  BY DEF OpenRow, Open, OnlyConcerns
<1>5. \A id \in DOMAIN rows' : rows'[id].conn = d => id \in DOMAIN rows /\ rows[id].conn = d
  BY DEF OnlyConcerns
<1>6. \A id \in Known(c) : id \in DOMAIN rows => rows[id].conn = c
  BY <1>1 DEF IdsApart
<1>7. \A id \in manager' : id \in DOMAIN rows' /\ rows'[id].conn = d => id \in manager
  BY <1>5, <1>6 DEF OnlyConcerns
<1> QED BY <1>1, <1>3, <1>4, <1>5, <1>7, Unconcerned

\* No step but CreateSession makes an id known.
LEMMA NoNewIds ==
  ASSUME SessionsTypeOK, IdsApart, seq' = seq, manager' \subseteq 1..seq,
         \A c \in Conns : Known(c)' \subseteq Known(c) /\ tracked'[c] \subseteq 1..seq,
         \A id \in DOMAIN rows' : id \in DOMAIN rows /\ rows'[id].conn = rows[id].conn
  PROVE  IdsApart'
  BY DEF IdsApart

\* The ids in use were given out.
LEMMA KnownIds ==
  ASSUME SessionsTypeOK, IdsApart, NEW c \in Conns
  PROVE  /\ tracked[c] \subseteq Known(c) /\ tracked[c] \subseteq 1..seq
         /\ mine[c] # NoId => mine[c] \in Known(c)
         /\ current[c] # NoId => current[c] \in Known(c)
         /\ Known(c) \subseteq 1..seq
         /\ \A id : OpenRow(c, id) => id # NoId /\ id \in 1..seq
  BY DEF Known, IdsApart, NoId, SessionsTypeOK, OpenRow, Open

\* Steps of the clients.
LEMMA ClientKeepsViews ==
  ASSUME SessionsTypeOK, ViewsInv, NEW c \in Conns, ClientStep(c)
  PROVE  ViewsInv'
<1> USE DEF clientVars, dbVars, memVars
<1>1. IdsApart /\ InStep(c) /\ SessionAt(c)
  BY DEF ViewsInv
<1>2. /\ UNCHANGED <<mine, current, tracked, rows, seq, manager>>
      /\ \A d \in Conns \ {c} : client'[d] = client[d] /\ inbox'[d] = inbox[d] /\ handler'[d] = handler[d]
  BY DEF ClientStep, Connect, SendEnd, Hangup, SessionsTypeOK
<1>3. IdsApart'
  <2>1. \A d \in Conns : Known(d)' = Known(d)
    BY <1>2 DEF Known
  <2> QED BY <1>1, <1>2, <2>1 DEF IdsApart
<1>4. OnlyConcerns(c)
  BY <1>2 DEF OnlyConcerns, ClientSame
<1>5. InStep(c)' /\ SessionAt(c)'
  <2>1. \A id : OpenRow(c, id)' <=> OpenRow(c, id)
    BY <1>2 DEF OpenRow, Open
  <2>2. NoSession(c)' <=> NoSession(c)
    BY <1>2 DEF NoSession
  <2>3. CASE Connect(c)
    <3>1. /\ client'[c] = "waiting" /\ inbox'[c] = <<"start">> /\ handler'[c] = "decode"
          /\ client[c] = "new" /\ handler[c] = "none"
      BY <1>1, <2>3 DEF Connect, SessionsTypeOK, InStep
    <3>2. NoSession(c)
      BY <1>1, <3>1 DEF SessionAt
    <3>3. InStep(c)'
      BY <1>2, <3>1, <3>2 DEF InStep, NoSession
    <3>4. SessionAt(c)'
      BY <1>1, <1>2, <2>1, <2>2, <3>1, <3>2 DEF SessionAt, NoSession, Idle
    <3> QED BY <3>3, <3>4
  <2>4. CASE SendEnd(c)
    <3>1. /\ client'[c] = "ending" /\ inbox'[c] = <<"end">> /\ handler'[c] = "decode"
          /\ client[c] = "active" /\ handler[c] = "decode"
      BY <1>1, <2>4 DEF SendEnd, SessionsTypeOK, InStep
    <3>2. InStep(c)'
      BY <1>1, <1>2, <3>1 DEF InStep
    <3>3. SessionAt(c)'
      BY <1>1, <1>2, <2>1, <2>2, <3>1 DEF SessionAt, Idle
    <3> QED BY <3>2, <3>3
  <2>5. CASE Hangup(c)
    <3>1. /\ client'[c] = "gone" /\ inbox'[c] = inbox[c] /\ handler'[c] = handler[c]
          /\ client[c] \in {"waiting", "active", "ending"}
      BY <1>1, <2>5 DEF Hangup, SessionsTypeOK
    <3>2. InStep(c)'
      BY <1>1, <1>2, <3>1 DEF InStep
    <3>3. SessionAt(c)'
      BY <1>1, <1>2, <2>1, <2>2, <3>1 DEF SessionAt, Idle
    <3> QED BY <3>2, <3>3
  <2> QED BY <2>3, <2>4, <2>5 DEF ClientStep
<1> QED BY <1>3, <1>4, <1>5, OthersUnconcerned DEF ViewsInv

\* The parts of ViewsInv that a step of the handler of c has to restore.
LEMMA HandlerSuffices ==
  ASSUME SessionsTypeOK, ViewsInv, NEW c \in Conns, OnlyConcerns(c),
         IdsApart', InStep(c)', SessionAt(c)'
  PROVE  ViewsInv'
  BY OthersUnconcerned DEF ViewsInv

\* What is the same for every message: it leaves the stream, and the rest waits.
LEMMA Received ==
  ASSUME SessionsTypeOK, NEW c \in Conns, InStep(c), NEW m, Receive(c, m)
  PROVE  /\ inbox[c] = <<m>> /\ handler[c] = "decode"
         /\ inbox'[c] = <<>> /\ \A d \in Conns \ {c} : inbox'[d] = inbox[d]
         /\ UNCHANGED <<client, mine>>
<1>1. inbox[c] \in {<<"start">>, <<"end">>} /\ Head(inbox[c]) = m
  BY DEF Receive, InStep
<1>2. inbox[c] = <<m>> /\ Tail(inbox[c]) = <<>>
  <2>1. CASE inbox[c] = <<"start">>
    BY <1>1, <2>1
  <2>2. CASE inbox[c] = <<"end">>
    BY <1>1, <2>2
  <2> QED BY <1>1, <2>1, <2>2
<1> QED BY <1>2 DEF Receive, SessionsTypeOK

\* A new row, with an id nobody had.
LEMMA CreateSessionKeepsViews ==
  ASSUME SessionsTypeOK, ViewsInv, NEW c \in Conns, CreateSession(c)
  PROVE  ViewsInv'
<1> DEFINE n == seq + 1
<1>1. IdsApart /\ InStep(c) /\ SessionAt(c)
  BY DEF ViewsInv
<1>2. Receive(c, "start")
  BY DEF CreateSession
<1>3. /\ inbox[c] = <<"start">> /\ inbox'[c] = <<>> /\ handler[c] = "decode"
      /\ \A d \in Conns \ {c} : inbox'[d] = inbox[d]
      /\ UNCHANGED <<client, mine>>
  BY <1>1, <1>2, Received
<1>4. /\ seq' = n /\ UNCHANGED <<manager, tracked>>
      /\ current'[c] = n /\ handler'[c] = "register"
      /\ \A d \in Conns \ {c} : current'[d] = current[d] /\ handler'[d] = handler[d]
  BY DEF CreateSession, Goto, memVars, SessionsTypeOK
<1>5. NewRow(c, seq + 1)
  BY DEF CreateSession
<1>6. /\ DOMAIN rows' = DOMAIN rows \cup {n} /\ n \notin DOMAIN rows
      /\ rows'[n] = [conn |-> c, ended |-> "null"]
      /\ \A id \in DOMAIN rows : rows'[id] = rows[id]
  BY <1>4, <1>5, NewRowType
<1>7. n \in Nat /\ \A id \in 1..seq : id \in 1..n /\ id # n
  BY DEF SessionsTypeOK
<1>8. n \notin manager /\ n # NoId /\ \A d \in Conns : n \notin Known(d)
  BY <1>1, <1>7, KnownIds DEF IdsApart, NoId, SessionsTypeOK
<1> HIDE DEF n
<1>9. NoSession(c) /\ client[c] \in {"waiting", "gone"}
  BY <1>1, <1>3 DEF SessionAt, InStep
<1>10. OnlyConcerns(c)
  BY <1>3, <1>4, <1>6 DEF OnlyConcerns, ClientSame
<1>11. IdsApart'
  <2>1. \A d \in Conns \ {c} : Known(d)' = Known(d)
    BY <1>3, <1>4 DEF Known
  <2>2. Known(c)' = {n}
    BY <1>3, <1>4, <1>8, <1>9 DEF Known, NoSession
  <2>3. \A d \in Conns : \A id \in Known(d)' : id <= seq' /\ (id \in DOMAIN rows' => rows'[id].conn = d)
    <3>1. SUFFICES ASSUME NEW d \in Conns, NEW id \in Known(d)'
                   PROVE  id <= seq' /\ (id \in DOMAIN rows' => rows'[id].conn = d)
      OBVIOUS
    <3>2. CASE d = c
      BY <1>4, <1>6, <1>7, <2>2, <3>1, <3>2
    <3>3. CASE d # c
      <4>1. id \in Known(d) /\ id # n
        BY <1>8, <2>1, <3>1, <3>3
      <4>2. id <= seq /\ id \in Nat
        BY <1>1, <4>1, KnownIds DEF IdsApart
      <4>3. id <= seq'
        BY <1>4, <4>2 DEF n, SessionsTypeOK
      <4>4. id \in DOMAIN rows' => rows'[id].conn = d
        BY <1>1, <1>6, <4>1 DEF IdsApart
      <4> QED BY <4>3, <4>4
    <3> QED BY <3>2, <3>3
  <2>4. \A d, e \in Conns : d # e => Known(d)' \cap Known(e)' = {}
    BY <1>1, <1>8, <2>1, <2>2 DEF IdsApart
  <2>5. manager' \subseteq 1..seq' /\ \A d \in Conns : tracked'[d] \subseteq 1..seq'
    BY <1>1, <1>4, <1>7 DEF IdsApart
  <2> QED BY <2>3, <2>4, <2>5 DEF IdsApart
<1>12. InStep(c)'
  BY <1>1, <1>3, <1>4, <1>9 DEF InStep, NoSession
<1>13. SessionAt(c)'
  <2>1. OpenRow(c, current[c])'
    <3>1. n \in DOMAIN rows' /\ rows'[n].ended = "null" /\ rows'[n].conn = c
      BY <1>6
    <3> QED BY <1>4, <3>1 DEF OpenRow, Open
  <2>2. \A id \in manager : id \in DOMAIN rows' => rows'[id].conn # c
    BY <1>6, <1>8, <1>9 DEF NoSession
  <2> QED BY <1>3, <1>4, <1>8, <1>9, <2>1, <2>2 DEF SessionAt, NoSession, Idle
<1> QED BY <1>10, <1>11, <1>12, <1>13, HandlerSuffices

\* Steps of the handler that leave the table alone and learn no new id.
LEMMA TableSame ==
  ASSUME SessionsTypeOK, ViewsInv, NEW c \in Conns,
         UNCHANGED <<rows, seq>>,
         \A d \in Conns \ {c} : ClientSame(d),
         Known(c)' \subseteq Known(c), tracked'[c] \subseteq tracked[c] \cup {current[c]},
         tracked'[c] # tracked[c] => current[c] \in Known(c) \/ tracked'[c] \subseteq tracked[c],
         manager' = manager \/ (current[c] \in Known(c) /\ manager' \in {manager \cup {current[c]}, manager \ {current[c]}}),
         InStep(c)', SessionAt(c)'
  PROVE  ViewsInv'
<1>1. IdsApart
  BY DEF ViewsInv
<1>2. OnlyConcerns(c)
  BY DEF OnlyConcerns
<1>3. \A d \in Conns : Known(d)' \subseteq Known(d)
  <2>1. \A d \in Conns \ {c} : Known(d)' = Known(d)
    BY DEF ClientSame, Known
  <2> QED BY <2>1
<1>4. manager' \subseteq 1..seq
  BY <1>1, KnownIds DEF IdsApart
<1>5. \A d \in Conns : tracked'[d] \subseteq 1..seq
  <2>1. tracked'[c] \subseteq 1..seq
    BY <1>1, KnownIds
  <2>2. \A d \in Conns \ {c} : tracked'[d] \subseteq 1..seq
    BY <1>1 DEF IdsApart, ClientSame
  <2> QED BY <2>1, <2>2
<1>6. IdsApart'
  BY <1>1, <1>3, <1>4, <1>5, NoNewIds
<1> QED BY <1>2, <1>6, HandlerSuffices

\* Steps that write one of the views.
LEMMA SmallStepsKeepViews ==
  ASSUME SessionsTypeOK, ViewsInv, NEW c \in Conns,
         \/ CreateSessionFails(c) \/ Register(c) \/ Track(c) \/ Reply(c)
         \/ Deregister(c) \/ Untrack(c) \/ Cleanup(c) \/ GiveUp(c) \/ ForgetOrphan(c)
  PROVE  ViewsInv'
<1> USE DEF clientVars, dbVars, memVars
<1>1. IdsApart /\ InStep(c) /\ SessionAt(c)
  BY DEF ViewsInv
<1>2. UNCHANGED <<rows, seq>>
  BY DEF CreateSessionFails, Fail, Register, Track, Reply, Deregister, Untrack, Cleanup, GiveUp, ForgetOrphan
<1>3. \A id : OpenRow(c, id)' <=> OpenRow(c, id)
  BY <1>2 DEF OpenRow, Open
<1>4. CASE CreateSessionFails(c)
  <2>1. /\ inbox[c] = <<"start">> /\ inbox'[c] = <<>> /\ handler[c] = "decode"
        /\ \A d \in Conns \ {c} : inbox'[d] = inbox[d]
        /\ UNCHANGED <<client, mine>>
    BY <1>1, <1>4, Received DEF CreateSessionFails
  <2>2. /\ UNCHANGED <<manager, tracked, current>> /\ handler'[c] = "decode"
        /\ \A d \in Conns \ {c} : handler'[d] = handler[d]
    BY <1>4 DEF CreateSessionFails, Goto, SessionsTypeOK
  <2>3. NoSession(c) /\ client[c] \in {"waiting", "gone"}
    BY <1>1, <2>1 DEF SessionAt, InStep
  <2>4. InStep(c)'
    BY <1>1, <2>1, <2>2, <2>3 DEF InStep
  <2>5. SessionAt(c)'
    BY <1>1, <1>2, <1>3, <2>1, <2>2, <2>3 DEF SessionAt, NoSession, Idle
  <2>6. \A d \in Conns : Known(d)' = Known(d)
    BY <2>1, <2>2 DEF Known
  <2> QED BY <1>2, <2>1, <2>2, <2>4, <2>5, <2>6, TableSame DEF ClientSame
<1>5. CASE Register(c)
  <2>1. /\ handler[c] = "register" /\ handler'[c] = "track"
        /\ \A d \in Conns \ {c} : handler'[d] = handler[d]
        /\ manager' = manager \cup {current[c]}
        /\ UNCHANGED <<client, inbox, mine, current, tracked>>
    BY <1>5 DEF Register, Goto, SessionsTypeOK
  <2>2. OpenRow(c, current[c]) /\ current[c] # NoId /\ current[c] \in Known(c)
    BY <1>1, <2>1, KnownIds DEF SessionAt
  <2>3. InStep(c)'
    BY <1>1, <2>1 DEF InStep
  <2>4. SessionAt(c)'
    BY <1>1, <1>2, <1>3, <2>1, <2>2 DEF SessionAt, NoSession, Idle, InStep
  <2>5. \A d \in Conns : Known(d)' = Known(d)
    BY <2>1 DEF Known
  <2> QED BY <1>2, <2>1, <2>2, <2>3, <2>4, <2>5, TableSame DEF ClientSame
<1>6. CASE Track(c)
  <2>1. /\ handler[c] = "track" /\ handler'[c] = "reply"
        /\ \A d \in Conns \ {c} : handler'[d] = handler[d] /\ tracked'[d] = tracked[d]
        /\ tracked'[c] = tracked[c] \cup {current[c]}
        /\ UNCHANGED <<client, inbox, mine, current, manager>>
    BY <1>6 DEF Track, Goto, SessionsTypeOK
  <2>2. /\ OpenRow(c, current[c]) /\ current[c] # NoId /\ current[c] \in Known(c)
        /\ tracked[c] = {} /\ tracked'[c] = {current[c]}
    BY <1>1, <2>1, KnownIds DEF SessionAt
  <2>3. InStep(c)'
    BY <1>1, <2>1 DEF InStep
  <2>4. SessionAt(c)'
    BY <1>1, <1>2, <1>3, <2>1, <2>2 DEF SessionAt, NoSession, Idle, InStep
  <2>5. Known(c)' = Known(c)
    BY <2>1, <2>2 DEF Known
  <2> QED BY <1>2, <2>1, <2>2, <2>3, <2>4, <2>5, TableSame DEF ClientSame
<1>7. CASE Reply(c)
  <2>1. /\ handler[c] = "reply" /\ handler'[c] = "decode"
        /\ \A d \in Conns \ {c} : handler'[d] = handler[d] /\ client'[d] = client[d] /\ mine'[d] = mine[d]
        /\ UNCHANGED <<inbox, current, manager, tracked>>
    BY <1>7 DEF Reply, Goto, SessionsTypeOK
  <2>2. \/ client[c] = "waiting" /\ client'[c] = "active" /\ mine'[c] = current[c]
        \/ client[c] # "waiting" /\ client'[c] = client[c] /\ mine'[c] = mine[c]
    BY <1>7 DEF Reply, SessionsTypeOK
  <2>3. /\ OpenRow(c, current[c]) /\ current[c] # NoId /\ current[c] \in manager
        /\ tracked[c] = {current[c]} /\ inbox[c] = <<>> /\ client[c] \in {"waiting", "gone"}
        /\ mine[c] = NoId
    BY <1>1, <2>1 DEF SessionAt, InStep
  <2>4. InStep(c)'
    BY <1>1, <2>1, <2>2, <2>3 DEF InStep
  <2>5. SessionAt(c)'
    BY <1>1, <1>2, <1>3, <2>1, <2>2, <2>3 DEF SessionAt, NoSession, Idle
  <2>6. Known(c)' = Known(c)
    BY <2>1, <2>2, <2>3 DEF Known
  <2> QED BY <1>2, <2>1, <2>4, <2>5, <2>6, TableSame DEF ClientSame
<1>8. CASE Deregister(c)
  <2>1. /\ handler[c] = "deregister" /\ handler'[c] = "untrack"
        /\ \A d \in Conns \ {c} : handler'[d] = handler[d]
        /\ manager' = manager \ {current[c]}
        /\ UNCHANGED <<client, inbox, mine, current, tracked>>
    BY <1>8 DEF Deregister, Goto, SessionsTypeOK
  <2>2. current[c] = mine[c] /\ mine[c] # NoId /\ tracked[c] = {mine[c]} /\ current[c] \in Known(c)
    BY <1>1, <2>1, KnownIds DEF SessionAt
  <2>3. InStep(c)'
    BY <1>1, <2>1 DEF InStep
  <2>4. SessionAt(c)'
    BY <1>1, <1>2, <1>3, <2>1, <2>2 DEF SessionAt, NoSession, Idle, InStep
  <2>5. Known(c)' = Known(c)
    BY <2>1 DEF Known
  <2> QED BY <1>2, <2>1, <2>2, <2>3, <2>4, <2>5, TableSame DEF ClientSame
<1>9. CASE Untrack(c)
  <2>1. /\ handler[c] = "untrack" /\ handler'[c] = "decode"
        /\ \A d \in Conns \ {c} : handler'[d] = handler[d] /\ tracked'[d] = tracked[d]
        /\ tracked'[c] = tracked[c] \ {current[c]}
        /\ UNCHANGED <<client, inbox, mine, current, manager>>
    BY <1>9 DEF Untrack, Goto, SessionsTypeOK
  <2>2. /\ current[c] = mine[c] /\ tracked[c] = {mine[c]} /\ mine[c] \notin manager
        /\ client[c] \in {"ending", "gone"} /\ inbox[c] = <<>> /\ tracked'[c] = {}
    BY <1>1, <2>1 DEF SessionAt, InStep
  <2>3. InStep(c)'
    BY <1>1, <2>1, <2>2 DEF InStep
  <2>4. SessionAt(c)'
    BY <1>1, <1>2, <1>3, <2>1, <2>2 DEF SessionAt, NoSession, Idle
  <2>5. Known(c)' \subseteq Known(c)
    BY <2>1 DEF Known
  <2> QED BY <1>2, <2>1, <2>3, <2>4, <2>5, TableSame DEF ClientSame
<1>10. CASE Cleanup(c) \/ GiveUp(c)
  <2>1. /\ handler[c] = "decode" /\ TakeOrphan(c) /\ UNCHANGED <<mine, manager>>
        /\ client'[c] = "gone" /\ inbox'[c] = <<>> /\ inbox[c] # <<"start">>
        /\ \A d \in Conns \ {c} : client'[d] = client[d] /\ inbox'[d] = inbox[d]
    <3>1. CASE Cleanup(c)
      <4>1. <<>> # <<"start">>
        OBVIOUS
      <4> QED BY <3>1, <4>1 DEF Cleanup
    <3>2. CASE GiveUp(c)
      <4>1. inbox[c] # <<"start">>
        BY <1>1, <3>2 DEF GiveUp, SessionAt, NoSession
      <4> QED BY <3>2, <4>1 DEF GiveUp, SessionsTypeOK
    <3> QED BY <1>10, <3>1, <3>2
  <2>2. /\ tracked'[c] = {}
        /\ \A d \in Conns \ {c} : handler'[d] = handler[d] /\ tracked'[d] = tracked[d] /\ current'[d] = current[d]
        /\ \/ tracked[c] = {} /\ handler'[c] = "none" /\ current'[c] = current[c]
           \/ handler'[c] = "orphan" /\ current'[c] \in tracked[c]
    BY <2>1 DEF TakeOrphan, Goto, SessionsTypeOK
  <2>3. InStep(c)'
    BY <1>1, <2>1, <2>2 DEF InStep
  <2>4. \A id \in tracked[c] : id \in manager /\ OpenRow(c, id) /\ id # NoId
    BY <1>1, <2>1, KnownIds DEF SessionAt, Idle
  <2>5. SessionAt(c)'
    BY <1>1, <1>2, <1>3, <2>1, <2>2, <2>4 DEF SessionAt, NoSession, Idle
  <2>6. Known(c)' \subseteq Known(c)
    BY <2>1, <2>2 DEF Known
  <2> QED BY <1>2, <2>1, <2>2, <2>3, <2>5, <2>6, TableSame DEF ClientSame
<1>11. CASE ForgetOrphan(c)
  <2>1. /\ handler[c] = "forget" /\ handler'[c] = "none"
        /\ \A d \in Conns \ {c} : handler'[d] = handler[d]
        /\ manager' = manager \ {current[c]}
        /\ UNCHANGED <<client, inbox, mine, current, tracked>>
    BY <1>11 DEF ForgetOrphan, Goto, SessionsTypeOK
  <2>2. current[c] \in Known(c) /\ tracked[c] = {} /\ client[c] = "gone" /\ inbox[c] = <<>>
    BY <1>1, <2>1, KnownIds DEF SessionAt, InStep
  <2>3. InStep(c)'
    BY <1>1, <2>1, <2>2 DEF InStep
  <2>4. SessionAt(c)'
    BY <1>1, <1>2, <1>3, <2>1, <2>2 DEF SessionAt, NoSession, Idle
  <2>5. Known(c)' = Known(c)
    BY <2>1 DEF Known
  <2> QED BY <1>2, <2>1, <2>2, <2>3, <2>4, <2>5, TableSame DEF ClientSame
<1> QED BY <1>4, <1>5, <1>6, <1>7, <1>8, <1>9, <1>10, <1>11

\* The handler of c ends the row of the id e, or fails to.
LEMMA EndRowKeepsOthers ==
  ASSUME SessionsTypeOK, ViewsInv, NEW c \in Conns, NEW e \in Known(c), NEW how \in {"clean", "dropped"},
         EndRow(e, how) \/ Fail, manager' = manager, tracked' = tracked,
         \A d \in Conns \ {c} : ClientSame(d), Known(c)' \subseteq Known(c)
  PROVE  /\ OnlyConcerns(c) /\ IdsApart'
         /\ \A id \in DOMAIN rows' : id \in DOMAIN rows /\ rows'[id].conn = rows[id].conn
<1>1. IdsApart
  BY DEF ViewsInv
<1>2. /\ DOMAIN rows' = DOMAIN rows /\ seq' = seq
      /\ \A id \in DOMAIN rows : rows'[id].conn = rows[id].conn
      /\ \A id \in DOMAIN rows : id # e => rows'[id] = rows[id]
  <2>1. CASE EndRow(e, how)
    BY <2>1, EndRowType
  <2>2. CASE Fail
    BY <2>2 DEF Fail
  <2> QED BY <2>1, <2>2
<1>3. e \in DOMAIN rows => rows[e].conn = c
  BY <1>1 DEF IdsApart
<1>4. OnlyConcerns(c)
  BY <1>2, <1>3 DEF OnlyConcerns
<1>5. \A d \in Conns : Known(d)' \subseteq Known(d)
  <2>1. \A d \in Conns \ {c} : Known(d)' = Known(d)
    BY DEF ClientSame, Known
  <2> QED BY <2>1
<1>6. IdsApart'
  BY <1>1, <1>2, <1>5, NoNewIds DEF IdsApart
<1> QED BY <1>2, <1>4, <1>6

\* The end of a session that its client asked for.
LEMMA EndSessionKeepsViews ==
  ASSUME SessionsTypeOK, ViewsInv, NEW c \in Conns, EndSession(c)
  PROVE  ViewsInv'
<1>1. IdsApart /\ InStep(c) /\ SessionAt(c)
  BY DEF ViewsInv
<1>2. /\ inbox[c] = <<"end">> /\ inbox'[c] = <<>> /\ handler[c] = "decode"
      /\ \A d \in Conns \ {c} : inbox'[d] = inbox[d]
      /\ UNCHANGED <<client, mine>>
  BY <1>1, Received DEF EndSession
<1>3. /\ handler'[c] = "deregister" /\ current'[c] = mine[c]
      /\ \A d \in Conns \ {c} : handler'[d] = handler[d] /\ current'[d] = current[d]
      /\ UNCHANGED <<manager, tracked>>
  BY DEF EndSession, Goto, memVars, SessionsTypeOK
<1>4. /\ mine[c] # NoId /\ tracked[c] = {mine[c]} /\ mine[c] \in manager /\ OpenRow(c, mine[c])
      /\ client[c] \in {"ending", "gone"} /\ mine[c] \in Known(c)
  BY <1>1, <1>2, KnownIds DEF SessionAt, InStep, Idle
<1>5. Known(c)' \subseteq Known(c)
  BY <1>2, <1>3 DEF Known
<1>6. EndRow(mine[c], "clean") \/ Fail
  BY DEF EndSession
<1>7. /\ OnlyConcerns(c) /\ IdsApart'
      /\ \A id \in DOMAIN rows' : id \in DOMAIN rows /\ rows'[id].conn = rows[id].conn
  BY <1>2, <1>3, <1>4, <1>5, <1>6, EndRowKeepsOthers DEF ClientSame
<1>8. InStep(c)'
  BY <1>1, <1>2, <1>3, <1>4 DEF InStep
<1>9. SessionAt(c)'
  BY <1>1, <1>2, <1>3, <1>4, <1>7 DEF SessionAt, Idle
<1> QED BY <1>7, <1>8, <1>9, HandlerSuffices

\* The end of a session whose client is gone.
LEMMA EndOrphanKeepsViews ==
  ASSUME SessionsTypeOK, ViewsInv, NEW c \in Conns, EndOrphan(c)
  PROVE  ViewsInv'
<1>1. IdsApart /\ InStep(c) /\ SessionAt(c)
  BY DEF ViewsInv
<1>2. /\ handler[c] = "orphan" /\ handler'[c] = "forget"
      /\ \A d \in Conns \ {c} : handler'[d] = handler[d]
      /\ UNCHANGED <<client, inbox, mine, current, manager, tracked>>
  BY DEF EndOrphan, Goto, clientVars, memVars, SessionsTypeOK
<1>3. /\ current[c] # NoId /\ current[c] \in manager /\ tracked[c] = {} /\ current[c] \in Known(c)
      /\ client[c] = "gone" /\ inbox[c] = <<>>
  BY <1>1, <1>2, KnownIds DEF SessionAt, InStep
<1>4. Known(c)' \subseteq Known(c)
  BY <1>2 DEF Known
<1>5. EndRow(current[c], "dropped") \/ Fail
  BY DEF EndOrphan
<1>6. /\ OnlyConcerns(c) /\ IdsApart'
      /\ \A id \in DOMAIN rows' : id \in DOMAIN rows /\ rows'[id].conn = rows[id].conn
  BY <1>2, <1>3, <1>4, <1>5, EndRowKeepsOthers DEF ClientSame
<1>7. InStep(c)'
  BY <1>1, <1>2, <1>3 DEF InStep
<1>8. SessionAt(c)'
  BY <1>1, <1>2, <1>3, <1>6 DEF SessionAt, Idle
<1> QED BY <1>6, <1>7, <1>8, HandlerSuffices

\* Pruning takes only rows that no view needs.
LEMMA PruneKeepsViews ==
  ASSUME SessionsTypeOK, ViewsInv, Prune
  PROVE  ViewsInv'
<1>1. UNCHANGED <<client, inbox, mine, handler, current, tracked, manager, seq>>
  BY DEF Prune, clientVars, memVars
<1>2. /\ DOMAIN rows' \subseteq DOMAIN rows
      /\ \A id \in DOMAIN rows' : rows'[id] = rows[id]
      /\ \A id \in DOMAIN rows : Open(id) => id \in DOMAIN rows'
  BY PruneType
<1>3. IdsApart
  BY DEF ViewsInv
<1>4. IdsApart'
  <2>1. \A c \in Conns : Known(c)' = Known(c)
    BY <1>1 DEF Known
  <2> QED BY <1>1, <1>2, <1>3, <2>1, NoNewIds DEF IdsApart
<1>5. ASSUME NEW d \in Conns PROVE InStep(d)' /\ SessionAt(d)'
  <2>1. ClientSame(d) /\ InStep(d) /\ SessionAt(d)
    BY <1>1 DEF ClientSame, ViewsInv
  <2>2. \A id : OpenRow(d, id) => id \in DOMAIN rows' /\ rows'[id] = rows[id]
    BY <1>2 DEF OpenRow, Open
  <2> QED BY <1>1, <1>2, <1>3, <2>1, <2>2, Unconcerned
<1> QED BY <1>4, <1>5 DEF ViewsInv

\* A crash forgets manager and tracker with the connections.
LEMMA CrashKeepsViews ==
  ASSUME SessionsTypeOK, ViewsInv, Crash
  PROVE  ViewsInv'
<1>1. UNCHANGED <<mine, rows, seq>> /\ manager' = {}
  BY DEF Crash, dbVars
<1>2. \A c \in Conns :
        /\ client'[c] = (IF client[c] = "new" THEN "new" ELSE "gone")
        /\ inbox'[c] = <<>> /\ handler'[c] = "none" /\ current'[c] = NoId /\ tracked'[c] = {}
  BY DEF Crash
<1>3. IdsApart
  BY DEF ViewsInv
<1>4. IdsApart'
  <2>1. \A c \in Conns : Known(c)' \subseteq Known(c)
    BY <1>1, <1>2 DEF Known
  <2> QED BY <1>1, <1>2, <1>3, <2>1, NoNewIds
<1>5. ASSUME NEW c \in Conns PROVE InStep(c)' /\ SessionAt(c)'
  <2>1. InStep(c) /\ SessionAt(c)
    BY DEF ViewsInv
  <2>2. InStep(c)'
    BY <1>1, <1>2 DEF InStep
  <2>3. client'[c] = "new" => NoSession(c)'
    BY <1>1, <1>2, <2>1 DEF SessionAt, NoSession
  <2>4. SessionAt(c)'
    BY <1>1, <1>2, <2>3 DEF SessionAt, Idle
  <2> QED BY <2>2, <2>4
<1> QED BY <1>4, <1>5 DEF ViewsInv

LEMMA ViewsInit == Init => ViewsInv
<1> SUFFICES ASSUME Init PROVE ViewsInv
  OBVIOUS
<1>1. DOMAIN rows = {} /\ manager = {}
  BY DEF Init
<1>2. IdsApart
  BY <1>1 DEF Init, IdsApart, Known
<1>3. \A c \in Conns : InStep(c)
  BY DEF Init, InStep
<1>4. \A c \in Conns : SessionAt(c)
  BY <1>1 DEF Init, SessionAt, NoSession, Idle
<1> QED BY <1>2, <1>3, <1>4 DEF ViewsInv

LEMMA ViewsStep == SessionsTypeOK /\ ViewsInv /\ [Next]_vars => ViewsInv'
<1> SUFFICES ASSUME SessionsTypeOK, ViewsInv, [Next]_vars PROVE ViewsInv'
  OBVIOUS
<1>1. ASSUME NEW c \in Conns, HandlerStep(c) PROVE ViewsInv'
  BY <1>1, CreateSessionKeepsViews, SmallStepsKeepViews, EndSessionKeepsViews, EndOrphanKeepsViews
     DEF HandlerStep
<1>2. CASE Restart \/ UNCHANGED vars
  <2>1. UNCHANGED <<client, inbox, mine, handler, current, tracked, manager, rows, seq>>
    BY <1>2 DEF Restart, vars, clientVars, dbVars, memVars
  <2>2. \A c \in Conns : (InStep(c)' <=> InStep(c)) /\ (SessionAt(c)' <=> SessionAt(c)) /\ Known(c)' = Known(c)
    BY <2>1 DEF InStep, SessionAt, NoSession, Idle, OpenRow, Open, Known
  <2>3. IdsApart'
    BY <2>1, <2>2 DEF ViewsInv, IdsApart
  <2> QED BY <2>2, <2>3 DEF ViewsInv
<1> QED BY <1>1, <1>2, ClientKeepsViews, SmallStepsKeepViews, PruneKeepsViews, CrashKeepsViews DEF Next

\* What the theorems rest on.
LEMMA ViewsInvariant == Spec => [](SessionsTypeOK /\ ViewsInv)
<1>1. Init => SessionsTypeOK /\ ViewsInv
  BY TypeInit, ViewsInit
<1>2. (SessionsTypeOK /\ ViewsInv) /\ [Next]_vars => (SessionsTypeOK /\ ViewsInv)'
  BY TypeStep, ViewsStep
<1> QED BY <1>1, <1>2, PTL DEF Spec

-----------------------------------------------------------------------------
(* The theorems. *)

\* The views agree whenever a handler is between messages, whatever the handlers of other
\* connections, failing writes, pruning and crashes do in between.
THEOREM ViewsStayInAgreement == Spec => []ViewsAgree
<1>1. ViewsInv => ViewsAgree
  <2> SUFFICES ASSUME ViewsInv, NEW c \in Conns, Idle(c)
               PROVE  /\ \A id \in tracked[c] : id \in manager /\ Open(id) /\ rows[id].conn = c
                      /\ \A id \in manager : id \in DOMAIN rows /\ rows[id].conn = c => id \in tracked[c]
    BY DEF ViewsAgree
  <2>1. SessionAt(c)
    BY DEF ViewsInv
  <2> QED BY <2>1 DEF SessionAt, Idle, OpenRow
<1> QED BY <1>1, ViewsInvariant, PTL

\* However many brokers crash and rows are pruned, no id is given to two clients.
THEOREM IdsStayApart == Spec => []IdsNameOneClient
<1>1. SessionsTypeOK /\ ViewsInv => IdsNameOneClient
  <2> SUFFICES ASSUME SessionsTypeOK, ViewsInv, NEW c \in Conns, NEW d \in Conns
               PROVE  /\ mine[c] # NoId /\ mine[c] = mine[d] => c = d
                      /\ mine[c] \in DOMAIN rows => rows[mine[c]].conn = c
    BY DEF IdsNameOneClient
  <2>1. IdsApart
    BY DEF ViewsInv
  <2>2. \A e \in Conns : mine[e] # NoId => mine[e] \in Known(e)
    BY DEF Known
  <2>3. NoId \notin DOMAIN rows
    BY DEF SessionsTypeOK, NoId
  <2> QED BY <2>1, <2>2, <2>3 DEF IdsApart
<1> QED BY <1>1, ViewsInvariant, PTL

\* A session that has ended keeps its row as it is until it is pruned, and only such a
\* session is pruned: neither the cleanup of a connection nor a retry ends it again.
THEOREM SessionsEndForGood == Spec => EndedForGood
<1> DEFINE Kept == \A id \in DOMAIN rows :
                     IF rows[id].ended = "null" THEN id \in DOMAIN rows'
                     ELSE id \in DOMAIN rows' => rows'[id] = rows[id]
<1>1. SessionsTypeOK /\ ViewsInv /\ [Next]_vars => Kept
  <2> SUFFICES ASSUME SessionsTypeOK, ViewsInv, [Next]_vars PROVE Kept
    OBVIOUS
  <2>1. CASE UNCHANGED rows
    BY <2>1
  <2>2. CASE Prune
    BY <2>2, PruneType DEF Open
  <2>3. ASSUME NEW c \in Conns, CreateSession(c) PROVE Kept
    BY <2>3, NewRowType DEF CreateSession
  <2>4. ASSUME NEW c \in Conns, EndSession(c) PROVE Kept
    <3>1. InStep(c) /\ SessionAt(c) /\ Receive(c, "end") /\ (EndRow(mine[c], "clean") \/ Fail)
      BY <2>4 DEF ViewsInv, EndSession
    <3>2. Open(mine[c])
      BY <3>1, Received DEF SessionAt, Idle, OpenRow
    <3>3. CASE EndRow(mine[c], "clean")
      BY <3>2, <3>3, EndRowType DEF Open
    <3> QED BY <3>1, <3>3 DEF Fail
  <2>5. ASSUME NEW c \in Conns, EndOrphan(c) PROVE Kept
    <3>1. SessionAt(c) /\ handler[c] = "orphan" /\ (EndRow(current[c], "dropped") \/ Fail)
      BY <2>5 DEF ViewsInv, EndOrphan
    <3>2. Open(current[c])
      BY <3>1 DEF SessionAt, OpenRow
    <3>3. CASE EndRow(current[c], "dropped")
      BY <3>2, <3>3, EndRowType DEF Open
    <3> QED BY <3>1, <3>3 DEF Fail
  <2>6. ASSUME NEW c \in Conns,
               \/ ClientStep(c) \/ CreateSessionFails(c) \/ Register(c) \/ Track(c) \/ Reply(c)
               \/ Deregister(c) \/ Untrack(c) \/ Cleanup(c) \/ GiveUp(c) \/ ForgetOrphan(c)
        PROVE  UNCHANGED rows
    BY <2>6 DEF ClientStep, Connect, SendEnd, Hangup, CreateSessionFails, Fail, Register, Track, Reply,
                Deregister, Untrack, Cleanup, GiveUp, ForgetOrphan, dbVars
  <2>7. ASSUME Crash \/ Restart \/ UNCHANGED vars PROVE UNCHANGED rows
    BY <2>7 DEF Crash, Restart, vars, dbVars
  <2> QED BY <2>1, <2>2, <2>3, <2>4, <2>5, <2>6, <2>7 DEF Next, HandlerStep
<1>2. SessionsTypeOK /\ ViewsInv /\ [Next]_vars => [Kept]_vars
  BY <1>1
<1> QED BY <1>2, ViewsInvariant, PTL DEF Spec, EndedForGood

\* Connections whose registration was read, or lost in a crash: each has taken one id at most.
Used == {c \in Conns : client[c] # "new" /\ inbox[c] # <<"start">>}


SeqBound == seq <= Cardinality(Used)

\* A connection registers once, so the ids are bounded by their number.
LEMMA SeqBoundStep == SessionsTypeOK /\ ViewsInv /\ SeqBound /\ [Next]_vars => SeqBound'
<1> SUFFICES ASSUME SessionsTypeOK, ViewsInv, SeqBound, [Next]_vars PROVE SeqBound'
  OBVIOUS
<1>1. IsFiniteSet(Used) /\ IsFiniteSet(Used') /\ Cardinality(Used) \in Nat /\ Cardinality(Used') \in Nat
  <2>1. IsFiniteSet(Used) /\ IsFiniteSet(Used')
    BY SessionsAssumption, FS_Subset DEF Used
  <2> QED BY <2>1, FS_CardinalityType
<1>2. ASSUME UNCHANGED seq, Used \subseteq Used' PROVE SeqBound'
  <2>1. Cardinality(Used) <= Cardinality(Used')
    BY <1>1, <1>2, FS_Subset
  <2> QED BY <1>1, <1>2, <2>1 DEF SeqBound, SessionsTypeOK
<1>3. ASSUME NEW c \in Conns, CreateSession(c) PROVE SeqBound'
  <2>1. InStep(c) /\ Receive(c, "start")
    BY <1>3 DEF ViewsInv, CreateSession
  <2>2. /\ inbox[c] = <<"start">> /\ inbox'[c] = <<>> /\ handler[c] = "decode"
        /\ \A d \in Conns \ {c} : inbox'[d] = inbox[d]
        /\ UNCHANGED client
    BY <2>1, Received
  <2>3. client[c] # "new" /\ <<>> # <<"start">>
    BY <2>1, <2>2 DEF InStep
  <2>4. c \notin Used /\ Used' = Used \cup {c}
    BY <2>2, <2>3 DEF Used
  <2>5. Cardinality(Used') = Cardinality(Used) + 1
    BY <1>1, <2>4, FS_AddElement
  <2>6. seq' = seq + 1
    BY <1>3 DEF CreateSession
  <2> QED BY <1>1, <2>5, <2>6 DEF SeqBound, SessionsTypeOK
<1>4. ASSUME NEW c \in Conns, ClientStep(c) PROVE SeqBound'
  <2>1. InStep(c) /\ UNCHANGED seq
    BY <1>4 DEF ViewsInv, ClientStep, Connect, SendEnd, Hangup, dbVars
  <2>2. \A d \in Conns \ {c} : client'[d] = client[d] /\ inbox'[d] = inbox[d]
    BY <1>4 DEF ClientStep, Connect, SendEnd, Hangup, SessionsTypeOK
  <2>3. c \in Used => c \in Used'
    <3>1. CASE Connect(c)
      BY <3>1 DEF Connect, Used
    <3>2. CASE SendEnd(c)
      <4>1. client'[c] = "ending" /\ inbox'[c] = <<"end">>
        BY <2>1, <3>2 DEF SendEnd, InStep, SessionsTypeOK
      <4> QED BY <4>1 DEF Used
    <3>3. CASE Hangup(c)
      BY <3>3 DEF Hangup, Used, SessionsTypeOK
    <3> QED BY <1>4, <3>1, <3>2, <3>3 DEF ClientStep
  <2> QED BY <1>2, <2>1, <2>2, <2>3 DEF Used
<1>5. ASSUME NEW c \in Conns, CreateSessionFails(c) \/ EndSession(c) PROVE SeqBound'
  <2>1. \E m : Receive(c, m)
    BY <1>5 DEF CreateSessionFails, EndSession
  <2>2. InStep(c)
    BY DEF ViewsInv
  <2>3. UNCHANGED client /\ inbox'[c] = <<>> /\ \A d \in Conns \ {c} : inbox'[d] = inbox[d]
    BY <2>1, <2>2, Received
  <2>4. UNCHANGED seq
    BY <1>5 DEF CreateSessionFails, EndSession, EndRow, Fail
  <2>5. <<>> # <<"start">>
    OBVIOUS
  <2> QED BY <1>2, <2>3, <2>4, <2>5 DEF Used
<1>6. CASE Crash
  <2>1. UNCHANGED seq /\ \A d \in Conns : inbox'[d] = <<>> /\ (client[d] # "new" => client'[d] # "new")
    BY <1>6 DEF Crash, dbVars
  <2>2. <<>> # <<"start">>
    OBVIOUS
  <2> QED BY <1>2, <2>1, <2>2 DEF Used
<1>7. ASSUME \/ Prune \/ Restart \/ UNCHANGED vars
             \/ \E c \in Conns : \/ Register(c) \/ Track(c) \/ Deregister(c) \/ Untrack(c)
                                 \/ Cleanup(c) \/ EndOrphan(c) \/ ForgetOrphan(c)
      PROVE  SeqBound'
  <2>1. UNCHANGED <<client, inbox, seq>>
    BY <1>7 DEF Prune, Restart, vars, Register, Track, Deregister, Untrack, Cleanup, EndOrphan, EndRow,
                Fail, ForgetOrphan, clientVars, dbVars
  <2> QED BY <1>2, <2>1 DEF Used
<1>8. ASSUME NEW c \in Conns, Reply(c) PROVE SeqBound'
  <2>1. UNCHANGED <<inbox, seq>> /\ \A d \in Conns : client[d] # "new" => client'[d] # "new"
    BY <1>8 DEF Reply, dbVars, SessionsTypeOK
  <2> QED BY <1>2, <2>1 DEF Used
<1>9. ASSUME NEW c \in Conns, GiveUp(c) PROVE SeqBound'
  <2>1. UNCHANGED seq /\ client'[c] = "gone" /\ inbox'[c] = <<>>
        /\ \A d \in Conns \ {c} : client'[d] = client[d] /\ inbox'[d] = inbox[d]
    BY <1>9 DEF GiveUp, dbVars, SessionsTypeOK
  <2>2. <<>> # <<"start">>
    OBVIOUS
  <2> QED BY <1>2, <2>1, <2>2 DEF Used
<1> QED
  BY <1>3, <1>4, <1>5, <1>6, <1>7, <1>8, <1>9 DEF Next, HandlerStep

\* Types, and the table and the views hold only ids that were given out, one per connection
\* at most.
THEOREM TypeCorrect == Spec => []TypeOK
<1>1. Init => SeqBound
  <2> SUFFICES ASSUME Init PROVE SeqBound
    OBVIOUS
  <2>1. Used \subseteq Conns
    BY DEF Used
  <2>2. IsFiniteSet(Used)
    BY <2>1, SessionsAssumption, FS_Subset
  <2> QED BY <2>2, FS_CardinalityType DEF Init, SeqBound
<1>2. (SessionsTypeOK /\ ViewsInv) /\ SeqBound /\ [Next]_vars => SeqBound'
  BY SeqBoundStep
<1>3. SessionsTypeOK /\ ViewsInv /\ SeqBound => TypeOK
  <2> SUFFICES ASSUME SessionsTypeOK, ViewsInv, SeqBound PROVE TypeOK
    OBVIOUS
  <2>1. /\ IsFiniteSet(Used) /\ Cardinality(Used) <= Cardinality(Conns)
        /\ Cardinality(Used) \in Nat /\ Cardinality(Conns) \in Nat
    <3>1. Used \in SUBSET Conns
      BY DEF Used
    <3> QED BY <3>1, SessionsAssumption, FS_Subset, FS_CardinalityType
  <2>2. 0..seq \subseteq Ids
    BY <2>1 DEF SeqBound, Ids, SessionsTypeOK
  <2>3. IdsApart
    BY DEF ViewsInv
  <2>4. \A c \in Conns : mine[c] \in 0..seq /\ current[c] \in 0..seq
    BY <2>3, KnownIds DEF NoId, SessionsTypeOK
  <2>5. mine \in [Conns -> Ids] /\ current \in [Conns -> Ids] /\ seq \in Ids
    BY <2>2, <2>4 DEF SessionsTypeOK
  <2>6. manager \subseteq 1..seq /\ tracked \in [Conns -> SUBSET (1..seq)]
    BY <2>3 DEF IdsApart, SessionsTypeOK
  <2> QED BY <2>5, <2>6 DEF TypeOK, SessionsTypeOK
<1> QED BY <1>1, <1>2, <1>3, ViewsInvariant, PTL DEF Spec
=============================================================================
