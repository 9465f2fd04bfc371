------------------------------ MODULE Sessions ------------------------------
(***************************************************************************)
(* The life of sessions: the table sessions (internal/storage), which      *)
(* survives the broker, and the two views of it that do not, the session   *)
(* manager (internal/session) and the connection tracker (connTracker).    *)
(* handleSessionStart, handleSessionEnd and cleanupConnection              *)
(* (internal/broker/broker.go) update the three one after the other, each  *)
(* in the goroutine of its connection.                                     *)
(*                                                                         *)
(* A connection is used once.  Its client registers one session, as        *)
(* Client.RegisterSession and reconnect do, waits for the id, and later    *)
(* ends the session with that id, or just goes away.                       *)
(***************************************************************************)
EXTENDS Naturals, Sequences, FiniteSets, FiniteSetsExt, Functions

CONSTANTS Conns,       \* connections
          MaxFailures, \* bound: writes to the database that fail
          MaxCrashes   \* bound: crashes of the broker

ASSUME SessionsAssumption == IsFiniteSet(Conns) /\ MaxFailures \in Nat /\ MaxCrashes \in Nat

VARIABLES
  up,       \* whether a broker process is running
  client,   \* client[c]: where the client of c is
  inbox,    \* inbox[c]: messages sent on c and not yet decoded
  mine,     \* mine[c]: the session id the client of c was told, or 0
  handler,  \* handler[c]: where the goroutine of c is
  current,  \* current[c]: the id that goroutine is working on
  rows,     \* the table sessions: a function on the ids it holds
  seq,      \* the largest id ever used (sqlite_sequence)
  manager,  \* ids in the session manager
  tracked,  \* tracked[c]: ids the tracker holds for c
  failures, crashes

clientVars == <<client, inbox, mine>>
dbVars     == <<rows, seq, failures>>
memVars    == <<manager, tracked>>
vars == <<up, crashes, clientVars, handler, current, dbVars, memVars>>

NoId == 0
Handling == {"register", "track", "reply", "deregister", "untrack", "orphan", "forget"}

Open(id) == id \in DOMAIN rows /\ rows[id].ended = "null"
Ended    == {id \in DOMAIN rows : rows[id].ended # "null"}

Init ==
  /\ up = TRUE /\ crashes = 0
  /\ client = [c \in Conns |-> "new"]
  /\ inbox = [c \in Conns |-> <<>>]
  /\ mine = [c \in Conns |-> NoId]
  /\ handler = [c \in Conns |-> "none"]
  /\ current = [c \in Conns |-> NoId]
  /\ rows = <<>> /\ seq = 0 /\ failures = 0
  /\ manager = {} /\ tracked = [c \in Conns |-> {}]

-----------------------------------------------------------------------------
(* Steps the handlers share. *)

Goto(c, pc) == handler' = [handler EXCEPT ![c] = pc]

\* A write to the database fails and leaves it as it was.
Fail == failures < MaxFailures /\ failures' = failures + 1 /\ UNCHANGED <<rows, seq>>

Receive(c, m) ==
  /\ handler[c] = "decode" /\ inbox[c] # <<>> /\ Head(inbox[c]) = m
  /\ inbox' = [inbox EXCEPT ![c] = Tail(@)]
  /\ UNCHANGED <<up, crashes, client, mine>>

NewRow(c, id) ==
  rows' = [i \in DOMAIN rows \cup {id} |->
             IF i = id THEN [conn |-> c, ended |-> "null"] ELSE rows[i]]

-----------------------------------------------------------------------------
(* Faulty variants of definitions below. The runs show that each breaks a    *)
(* property; none is part of the specification.                              *)

\* Ids without AUTOINCREMENT: one more than the largest id still in the table.
CreateSessionReusesId(c) ==
  LET id == 1 + (CHOOSE i \in DOMAIN rows \cup {0} : \A j \in DOMAIN rows : j <= i)
  IN  /\ Receive(c, "start")
      /\ seq' = seq + 1 /\ NewRow(c, id)
      /\ current' = [current EXCEPT ![c] = id]
      /\ Goto(c, "register")
      /\ UNCHANGED <<failures, memVars>>

\* The id of the row inserted before.
CreateSessionStaleId(c) ==
  /\ Receive(c, "start")
  /\ seq' = seq + 1 /\ NewRow(c, seq + 1)
  /\ current' = [current EXCEPT ![c] = seq]
  /\ Goto(c, "register")
  /\ UNCHANGED <<failures, memVars>>

\* handleSessionEnd without sessions.Deregister.
DeregisterNothing(c) ==
  /\ handler[c] = "deregister"
  /\ Goto(c, "untrack")
  /\ UNCHANGED <<up, crashes, clientVars, current, dbVars, memVars>>

\* handleSessionEnd without connTracker.unregisterSession.
UntrackNothing(c) ==
  /\ handler[c] = "untrack"
  /\ Goto(c, "decode")
  /\ UNCHANGED <<up, crashes, clientVars, current, dbVars, memVars>>

\* The connection is forgotten together with its orphans.
CleanupForgets(c) ==
  /\ handler[c] = "decode" /\ client[c] = "gone" /\ inbox[c] = <<>>
  /\ tracked' = [tracked EXCEPT ![c] = {}]
  /\ Goto(c, "none")
  /\ UNCHANGED <<up, crashes, clientVars, current, dbVars, manager>>

-----------------------------------------------------------------------------
(* Clients. *)

\* Connect and the message of RegisterSession; acceptLoop starts the handler.
Connect(c) ==
  /\ up /\ client[c] = "new"
  /\ client' = [client EXCEPT ![c] = "waiting"]
  /\ inbox' = [inbox EXCEPT ![c] = <<"start">>]
  /\ handler' = [handler EXCEPT ![c] = "decode"]
  /\ UNCHANGED <<up, crashes, mine, current, dbVars, memVars>>

SendEnd(c) ==
  /\ client[c] = "active"
  /\ client' = [client EXCEPT ![c] = "ending"]
  /\ inbox' = [inbox EXCEPT ![c] = Append(@, "end")]
  /\ UNCHANGED <<up, crashes, mine, handler, current, dbVars, memVars>>

\* Close, or the end of the client process.
Hangup(c) ==
  /\ client[c] \in {"waiting", "active", "ending"}
  /\ client' = [client EXCEPT ![c] = "gone"]
  /\ UNCHANGED <<up, crashes, inbox, mine, handler, current, dbVars, memVars>>

-----------------------------------------------------------------------------
(* handleSessionStart. *)

\* AUTOINCREMENT: no id is given twice, not even after its row was pruned.
CreateSession(c) ==
  /\ Receive(c, "start")
  /\ seq' = seq + 1 /\ NewRow(c, seq + 1)
  /\ current' = [current EXCEPT ![c] = seq + 1]
  /\ Goto(c, "register")
  /\ UNCHANGED <<failures, memVars>>

\* The handler returns without a reply.
CreateSessionFails(c) ==
  /\ Receive(c, "start")
  /\ Fail /\ Goto(c, "decode")
  /\ UNCHANGED <<current, memVars>>

Register(c) ==
  /\ handler[c] = "register"
  /\ manager' = manager \cup {current[c]}
  /\ Goto(c, "track")
  /\ UNCHANGED <<up, crashes, clientVars, current, dbVars, tracked>>

Track(c) ==
  /\ handler[c] = "track"
  /\ tracked' = [tracked EXCEPT ![c] = @ \cup {current[c]}]
  /\ Goto(c, "reply")
  /\ UNCHANGED <<up, crashes, clientVars, current, dbVars, manager>>

\* The reply reaches the client unless the client is gone.
Reply(c) ==
  /\ handler[c] = "reply"
  /\ IF client[c] = "waiting"
     THEN /\ client' = [client EXCEPT ![c] = "active"]
          /\ mine' = [mine EXCEPT ![c] = current[c]]
     ELSE UNCHANGED <<client, mine>>
  /\ Goto(c, "decode")
  /\ UNCHANGED <<up, crashes, inbox, current, dbVars, memVars>>

-----------------------------------------------------------------------------
(* handleSessionEnd and cleanupConnection. *)

\* UPDATE sessions SET ended_at = ... WHERE id = ...
EndRow(id, how) ==
  /\ rows' = [i \in DOMAIN rows |-> IF i = id THEN [rows[i] EXCEPT !.ended = how] ELSE rows[i]]
  /\ UNCHANGED <<seq, failures>>

\* A failed update is logged; the handler goes on as if it had succeeded.
EndSession(c) ==
  /\ Receive(c, "end")
  /\ EndRow(mine[c], "clean") \/ Fail
  /\ current' = [current EXCEPT ![c] = mine[c]]
  /\ Goto(c, "deregister")
  /\ UNCHANGED memVars

Deregister(c) ==
  /\ handler[c] = "deregister"
  /\ manager' = manager \ {current[c]}
  /\ Goto(c, "untrack")
  /\ UNCHANGED <<up, crashes, clientVars, current, dbVars, tracked>>

\* unregisterSession: the cleanup of the connection will not find the id.
Untrack(c) ==
  /\ handler[c] = "untrack"
  /\ tracked' = [tracked EXCEPT ![c] = @ \ {current[c]}]
  /\ Goto(c, "decode")
  /\ UNCHANGED <<up, crashes, clientVars, current, dbVars, manager>>

\* cleanupConnection takes the orphaned session, of which a connection has at most one.
TakeOrphan(c) ==
  /\ tracked' = [tracked EXCEPT ![c] = {}]
  /\ IF tracked[c] = {}
     THEN Goto(c, "none") /\ UNCHANGED current
     ELSE /\ \E id \in tracked[c] : current' = [current EXCEPT ![c] = id]
          /\ Goto(c, "orphan")

\* The client is gone and the stream is read.
Cleanup(c) ==
  /\ handler[c] = "decode" /\ client[c] = "gone" /\ inbox[c] = <<>>
  /\ TakeOrphan(c)
  /\ UNCHANGED <<up, crashes, clientVars, dbVars, manager>>

\* The handler gives up on a line it cannot decode, such as a log message longer than the
\* decoder takes, which only a client that was told its id sends.  What the client sent
\* after it, its session_end too, is never read, and what it sends from now on is lost.
GiveUp(c) ==
  /\ handler[c] = "decode" /\ mine[c] # NoId
  /\ client' = [client EXCEPT ![c] = "gone"]
  /\ inbox' = [inbox EXCEPT ![c] = <<>>]
  /\ TakeOrphan(c)
  /\ UNCHANGED <<up, crashes, mine, dbVars, manager>>

EndOrphan(c) ==
  /\ handler[c] = "orphan"
  /\ EndRow(current[c], "dropped") \/ Fail
  /\ Goto(c, "forget")
  /\ UNCHANGED <<up, crashes, clientVars, current, memVars>>

ForgetOrphan(c) ==
  /\ handler[c] = "forget"
  /\ manager' = manager \ {current[c]}
  /\ Goto(c, "none")
  /\ UNCHANGED <<up, crashes, clientVars, current, dbVars, tracked>>

-----------------------------------------------------------------------------
(* The broker process and the retention. *)

\* PruneByAge deletes ended sessions that are old enough, whichever these are.
Prune ==
  /\ \E old \in SUBSET Ended : rows' = Restrict(rows, DOMAIN rows \ old)
  /\ UNCHANGED <<up, crashes, clientVars, handler, current, seq, failures, memVars>>

\* Only the table survives; every client loses its connection.
Crash ==
  /\ up /\ crashes < MaxCrashes
  /\ up' = FALSE /\ crashes' = crashes + 1
  /\ client' = [c \in Conns |-> IF client[c] = "new" THEN "new" ELSE "gone"]
  /\ inbox' = [c \in Conns |-> <<>>]
  /\ handler' = [c \in Conns |-> "none"] /\ current' = [c \in Conns |-> NoId]
  /\ manager' = {} /\ tracked' = [c \in Conns |-> {}]
  /\ UNCHANGED <<mine, dbVars>>

\* New and Start build empty views and leave the table as it is.
Restart ==
  /\ ~up /\ up' = TRUE
  /\ UNCHANGED <<crashes, clientVars, handler, current, dbVars, memVars>>

ClientStep(c) == Connect(c) \/ SendEnd(c) \/ Hangup(c)
HandlerStep(c) ==
  \/ CreateSession(c) \/ CreateSessionFails(c) \/ Register(c) \/ Track(c) \/ Reply(c)
  \/ EndSession(c) \/ Deregister(c) \/ Untrack(c)
  \/ Cleanup(c) \/ EndOrphan(c) \/ ForgetOrphan(c)

Next ==
  \/ \E c \in Conns : ClientStep(c) \/ HandlerStep(c) \/ GiveUp(c)
  \/ Prune \/ Crash \/ Restart

Spec == Init /\ [][Next]_vars

\* A handler keeps running; clients and the retention do as they please, and no undecodable
\* line has to come.
FairSpec == Spec /\ \A c \in Conns : WF_vars(HandlerStep(c))

-----------------------------------------------------------------------------
(* Properties. *)

Ids == 0..Cardinality(Conns)

\* Type correctness; the table holds only ids that were given out.
TypeOK ==
  /\ up \in BOOLEAN /\ crashes \in 0..MaxCrashes /\ failures \in 0..MaxFailures
  /\ client \in [Conns -> {"new", "waiting", "active", "ending", "gone"}]
  /\ inbox \in [Conns -> Seq({"start", "end"})]
  /\ mine \in [Conns -> Ids] /\ current \in [Conns -> Ids]
  /\ handler \in [Conns -> Handling \cup {"none", "decode"}]
  /\ seq \in Ids /\ DOMAIN rows \subseteq 1..seq
  /\ \A id \in DOMAIN rows : rows[id] \in [conn : Conns, ended : {"null", "clean", "dropped"}]
  /\ manager \subseteq 1..seq /\ tracked \in [Conns -> SUBSET (1..seq)]

Idle(c) == handler[c] \in {"none", "decode"}

\* The views agree whenever the handler of the session's connection is between messages:
\* a session is counted as active (devlog status) exactly while its connection tracks it,
\* and then it is open in the table, its own connection's, and safe from pruning.
ViewsAgree ==
  \A c \in Conns : Idle(c) =>
    /\ \A id \in tracked[c] : id \in manager /\ Open(id) /\ rows[id].conn = c
    /\ \A id \in manager : id \in DOMAIN rows /\ rows[id].conn = c => id \in tracked[c]

\* No two clients are ever told the same session id, and the row a client's id names is
\* its own: ids are not reused after pruning or after a restart of the broker.
IdsNameOneClient ==
  \A c, d \in Conns :
    /\ mine[c] # NoId /\ mine[c] = mine[d] => c = d
    /\ mine[c] \in DOMAIN rows => rows[mine[c]].conn = c

\* Once a session has ended its row never changes again: the cleanup after a clean end
\* (after a hangup or after an undecodable line) does not overwrite ended_at, and an open session is never pruned.
EndedForGood ==
  [][\A id \in DOMAIN rows :
       IF rows[id].ended = "null" THEN id \in DOMAIN rows'
       ELSE id \in DOMAIN rows' => rows'[id] = rows[id]]_vars

StoreWorks == failures = 0 /\ crashes = 0

\* When a client is gone its session ends: cleanupConnection leaves no row open for a
\* client that hung up or was given up on, unless the database refused a write or the broker crashed.
GoneClientsEnd ==
  \A c \in Conns :
    client[c] = "gone"
      ~> (StoreWorks => \A id \in DOMAIN rows : rows[id].conn = c => rows[id].ended # "null")
=============================================================================
