------------------------------ MODULE Queries ------------------------------
(***************************************************************************)
(* What devlog answers: the tables sessions and log_events                 *)
(* (internal/storage), the cache in front of them, and the requests of the *)
(* command line (cmd/devlog) and of the MCP server (internal/mcp), each of *)
(* which becomes one QueryMessage to handleQuery (internal/broker).        *)
(*                                                                         *)
(* Requests only read, so they are operators of the state.  The steps are  *)
(* what changes the tables, whole handlers and whole batches at a time:    *)
(* Sessions and Pipeline have their interleavings.  Time is in hours; a    *)
(* text is the set of words it consists of, upper and lower case alike.    *)
(***************************************************************************)
EXTENDS Integers, Sequences, FiniteSets, SequencesExt, Functions, Ordering

CONSTANTS Services,
          Kinds,       \* stream and text of the lines the children write
          Words,       \* what is searched for
          Durations, Dates, \* what is given to --since, and to the argument since of a tool
          UserConfig, Projects, \* ~/.devlog/config.yaml, the .devlog.yaml files
          CacheSize,   \* entries the cache keeps per service
          ReplyLimit,  \* events that fit into the mebibyte a Decoder reads
          DayFlags,    \* values of devlog prune --days, 0 for none
          Day,         \* hours of a day
          MaxTime, MaxLines, MaxRuns \* bounds: hours, lines, runs of devlog run

File == [max_age_days : Int, interval_hours : Int]

ASSUME QueriesAssumption ==
  /\ IsFiniteSet(Services)
  /\ Kinds \subseteq [stream : {"stdout", "stderr"}, text : SUBSET STRING]
  /\ Projects \cup {UserConfig} \subseteq File
  /\ CacheSize \in Nat \ {0} /\ ReplyLimit \in Nat
  /\ DayFlags \subseteq Nat /\ Durations \cup Dates \subseteq Nat \ {0}
  /\ {Day, MaxTime} \subseteq Nat \ {0} /\ {MaxLines, MaxRuns} \subseteq Nat

VARIABLES
  now,       \* the hour
  sessions,  \* the table sessions: a function on the ids it holds
  seq,       \* the largest session id ever used
  events,    \* the table log_events: a set of rows
  pending,   \* rows in the channel and in the batch of batchWriter
  logged,    \* how many lines the brokers have handled; a line's id is that number
  client,    \* client[s]: the id of the session of devlog run of service s, 0 for none
  cache,     \* cache[s]: the ring buffer of service s, oldest first
  warmed,    \* how many lines had been handled when the broker started
  retention, \* the RetentionConfig the broker was started with
  cold       \* services whose stored lines a failed warm-up left out of the cache

tableVars == <<sessions, seq, client>>
cacheVars == <<cache, warmed, retention, cold>>
vars == <<now, tableVars, events, pending, logged, cacheVars>>

Ids == 1..MaxRuns
Row == [id : 1..MaxLines, service : Services, session : Ids, ts : 1..MaxTime,
        stream : {"stdout", "stderr"}, level : {"fatal", "error", "warn", "info", "debug", ""},
        text : {k.text : k \in Kinds}]

-----------------------------------------------------------------------------
(* Configuration, levels and the queries on the tables. *)

defaults == [max_age_days |-> 30, interval_hours |-> 1]

\* A value of zero is an absent one.
mergeFromFile(cfg, file) == [f \in DOMAIN cfg |-> IF file[f] # 0 THEN file[f] ELSE cfg[f]]

\* The file of the user under the file of the project (faulty variant of Load).
LoadUserLast(project) == mergeFromFile(mergeFromFile(defaults, project), UserConfig)

Load(project) == mergeFromFile(mergeFromFile(defaults, UserConfig), project)

\* The patterns in the order in which Detect tries them. Those for JSON, which follow, match
\* no line that none of these matches.
patterns == << <<{"FATAL", "PANIC"}, "fatal">>, <<{"ERROR", "ERR"}, "error">>,
               <<{"WARN", "WARNING"}, "warn">>, <<{"INFO"}, "info">>,
               <<{"DEBUG", "TRACE"}, "debug">> >>

Matching(text) == {i \in DOMAIN patterns : patterns[i][1] \cap text # {}}

\* The last pattern that matches (faulty variant of Detect).
DetectLast(text) ==
  IF Matching(text) = {} THEN ""
  ELSE patterns[CHOOSE i \in Matching(text) : \A j \in Matching(text) : j <= i][2]

Detect(text) ==
  IF Matching(text) = {} THEN ""
  ELSE patterns[CHOOSE i \in Matching(text) : \A j \in Matching(text) : i <= j][2]

\* A line of stderr without a level is an error.
LevelOf(kind) ==
  IF Detect(kind.text) = "" /\ kind.stream = "stderr" THEN "error" ELSE Detect(kind.text)

\* LIKE '%q%': the query goes into the pattern as it is, wildcards included.
Like(text, q) == q \in text \cup {"", "%"} \/ (q = "_" /\ text # {})

\* The index on (service, timestamp) settles ties by the row.
Newer(a, b) == a.ts > b.ts \/ (a.ts = b.ts /\ a.id > b.id)

\* ORDER BY timestamp DESC.
NewestFirst(rows) == Ordered(rows, {p \in rows \X rows : Newer(p[1], p[2])})

\* AND timestamp >= ?, only for a positive bound.
Since(rows, since) == IF since > 0 THEN {e \in rows : e.ts >= since} ELSE rows

Of(service) == {e \in events : e.service = service}

\* ORDER BY timestamp, without DESC (faulty variant of QueryRecentLogs).
QueryOldestLogs(service, n) ==
  LET all == Reverse(NewestFirst(Of(service))) IN SubSeq(all, 1, IF Len(all) < n THEN Len(all) ELSE n)

QueryRecentLogs(service, n) ==
  LET all == NewestFirst(Of(service)) IN SubSeq(all, 1, IF Len(all) < n THEN Len(all) ELSE n)

SearchLogs(service, q, since) ==
  NewestFirst(Since({e \in Of(service) : Like(e.text, q)}, since))

QueryErrors(service, since) ==
  NewestFirst(Since({e \in Of(service) : e.stream = "stderr" \/ e.level = "error"}, since))

\* A session as it is listed.
Info(id) == [id |-> id, service |-> sessions[id].service,
             started |-> sessions[id].started, ended |-> sessions[id].ended]

\* Of two sessions that started in the same hour the one with the larger id started later.
StartedLater(a, b) == a.started > b.started \/ (a.started = b.started /\ a.id > b.id)

\* ORDER BY started_at DESC.
QuerySessions(service) ==
  LET found == {Info(id) : id \in {i \in DOMAIN sessions : service \in {"", sessions[i].service}}}
  IN  Ordered(found, {p \in found \X found : StartedLater(p[1], p[2])})

QueryServices == {sessions[id].service : id \in DOMAIN sessions}

\* The ring buffer: the last CacheSize entries.
Newest(entries) ==
  IF Len(entries) > CacheSize THEN SubSeq(entries, Len(entries) - CacheSize + 1, Len(entries))
  ELSE entries

-----------------------------------------------------------------------------
(* Requests. *)

Unset == 0  \* no --since, no "since" argument
Bad   == -1 \* one that cannot be parsed

\* A limit of 0 is an absent one.
Requests ==
  LET Form(vias, commands, services, queries, bounds, limits) ==
        [via : vias, command : commands, service : services,
         query : queries, since : bounds, limit : limits]
      Both == {"cli", "mcp"}
      Lines(via, bounds) == Form({via}, {"search"}, Services, Words, {Unset, Bad} \cup bounds, {0})
                              \cup Form({via}, {"errors"}, Services, {""}, {Unset, Bad} \cup bounds, {0})
  IN  Lines("cli", Durations) \cup Lines("mcp", Dates)
      \cup Form(Both, {"recent"}, Services, {""}, {Unset}, 0..CacheSize)
      \cup Form(Both, {"sessions"}, Services \cup {""}, {""}, {Unset}, {0})
      \cup Form(Both, {"services"}, {""}, {""}, {Unset}, {0})

\* The flag of errors declares an hour.
declaredSince == 1

\* Both --since flags are bound to one variable, and init declares the one of search last:
\* what errors declares is lost.
defaultSince == 0

\* What is no duration counts as no bound.
parseSince(since) ==
  CASE since = Unset -> defaultSince
    [] since = Bad   -> 0
    [] OTHER         -> now - since

CliMessage(r) == [command |-> r.command, service |-> r.service, query |-> r.query,
                  since |-> parseSince(r.since), limit |-> IF r.limit = 0 THEN 100 ELSE r.limit]

\* Arguments the tools refuse.
Refused(r) ==
  /\ r.via = "mcp"
  /\ r.since = Bad \/ (r.command = "search" /\ r.query = "")

McpMessage(r) == [command |-> r.command, service |-> r.service, query |-> r.query,
                  since |-> IF r.since = Unset THEN 0 ELSE r.since,
                  limit |-> IF r.limit = 0 THEN 100 ELSE r.limit]

\* LogCache.Recent: the last entries, oldest first.
Recent(service, limit) ==
  LET c == cache[service] IN SubSeq(c, IF limit < Len(c) THEN Len(c) - limit + 1 ELSE 1, Len(c))

handleQuery(msg) ==
  CASE msg.command = "recent"   -> Recent(msg.service, IF msg.limit <= 0 THEN 100 ELSE msg.limit)
    [] msg.command = "search"   -> SearchLogs(msg.service, msg.query, msg.since)
    [] msg.command = "errors"   -> QueryErrors(msg.service, msg.since)
    [] msg.command = "sessions" -> QuerySessions(msg.service)
    [] msg.command = "services" -> SetToSeq(QueryServices)

Failure == [error |-> TRUE, rows |-> <<>>]

\* The Decoder gives up on a response that is too long.
Reply(msg) ==
  LET rows == handleQuery(msg)
  IN  IF Len(rows) > ReplyLimit THEN Failure ELSE [error |-> FALSE, rows |-> rows]

\* What is printed, and what the tool returns.
Answer(r) ==
  IF Refused(r) THEN Failure
  ELSE Reply(IF r.via = "cli" THEN CliMessage(r) ELSE McpMessage(r))

-----------------------------------------------------------------------------
(* Faulty variants of definitions below. The runs show that each breaks a    *)
(* property; none is part of the specification.                              *)

\* The sessions that end at the cutoff are deleted with those that ended before.
PruneByAgeInclusive(age) ==
  LET cutoff == now - age * Day
      old == {id \in DOMAIN sessions : sessions[id].ended # 0 /\ sessions[id].ended <= cutoff}
  IN  /\ events' = {e \in events : e.ts >= cutoff}
      /\ sessions' = Restrict(sessions, DOMAIN sessions \ old)
      /\ UNCHANGED <<now, seq, client, pending, logged, cacheVars>>

\* A full ring buffer grows.
CacheAddUnbounded(entry) == cache' = [cache EXCEPT ![entry.service] = Append(@, entry)]

-----------------------------------------------------------------------------
(* What changes the tables. *)

\* A client whose session cannot be created gets no answer and logs nothing (module Client).
RegisterSession(s) ==
  /\ client[s] = 0 /\ seq < MaxRuns
  /\ seq' = seq + 1
  /\ sessions' = [id \in DOMAIN sessions \cup {seq + 1} |->
                   IF id = seq + 1 THEN [service |-> s, started |-> now, ended |-> 0]
                                   ELSE sessions[id]]
  /\ client' = [client EXCEPT ![s] = seq + 1]
  /\ UNCHANGED <<now, events, pending, logged, cacheVars>>

CacheAdd(entry) == cache' = [cache EXCEPT ![entry.service] = Newest(Append(@, entry))]

\* handleLog: into the cache, and into the channel unless that is full. A line that waited
\* for a reconnect has an older stamp.
Log(s, kind, ts) ==
  LET row == [id |-> logged + 1, service |-> s, session |-> client[s], ts |-> ts,
              stream |-> kind.stream, level |-> LevelOf(kind), text |-> kind.text]
  IN  /\ client[s] # 0 /\ logged < MaxLines
      /\ logged' = logged + 1
      /\ CacheAdd(row)
      /\ pending' \in {pending, pending \cup {row}}
      /\ UNCHANGED <<now, tableVars, events, warmed, retention, cold>>

\* batchWriter inserts the lines up to one of them, or the transaction fails.
Flush ==
  \E last \in pending :
    LET batch == {e \in pending : e.id <= last.id}
    IN  /\ pending' = pending \ batch
        /\ events' \in {events, events \cup batch}
        /\ UNCHANGED <<now, tableVars, logged, cacheVars>>

\* handleSessionEnd or cleanupConnection; the update may fail.
EndSession(s) ==
  /\ client[s] # 0
  /\ client' = [client EXCEPT ![s] = 0]
  /\ sessions' \in {sessions, [id \in DOMAIN sessions |->
                                IF id = client[s] THEN [sessions[id] EXCEPT !.ended = now]
                                ELSE sessions[id]]}
  /\ UNCHANGED <<now, seq, events, pending, logged, cacheVars>>

\* A batch is written within 100 ms: no line waits for the next hour.
Tick ==
  /\ now < MaxTime /\ pending = {}
  /\ now' = now + 1
  /\ UNCHANGED <<tableVars, events, pending, logged, cacheVars>>

PruneByAge(age) ==
  LET cutoff == now - age * Day
      old == {id \in DOMAIN sessions : sessions[id].ended # 0 /\ sessions[id].ended < cutoff}
  IN  /\ events' = {e \in events : e.ts >= cutoff}
      /\ sessions' = Restrict(sessions, DOMAIN sessions \ old)
      /\ UNCHANGED <<now, seq, client, pending, logged, cacheVars>>

\* The cache keeps what the table loses.
RetentionLoop ==
  /\ retention.max_age_days > 0 /\ retention.interval_hours > 0
  /\ PruneByAge(retention.max_age_days)

\* devlog prune, in the directory of a project.
PruneCommand(project, days) ==
  PruneByAge(IF days > 0 THEN days ELSE Load(project).max_age_days)

\* A query that fails leaves its service without lines; a failure of the query for the
\* services leaves them all without.
WarmCache(failing) ==
  /\ cache' = [s \in Services |->
                 IF s \in QueryServices \ failing
                 THEN Reverse(QueryRecentLogs(s, CacheSize)) ELSE <<>>]
  /\ cold' = {s \in failing : Of(s) # {}}
  /\ warmed' = logged

\* The broker stops or dies, and a client starts another one from the directory of its
\* project. The clients have lost their connections and register again; lines that a stop
\* did not flush before are lost.
Restart(project) ==
  /\ retention' = Load(project)
  /\ \E failing \in SUBSET QueryServices : WarmCache(failing)
  /\ client' = [s \in Services |-> 0] /\ pending' = {}
  /\ \E ends \in SUBSET {id \in DOMAIN sessions : sessions[id].ended = 0} :
       sessions' = [id \in DOMAIN sessions |->
                     IF id \in ends THEN [sessions[id] EXCEPT !.ended = now] ELSE sessions[id]]
  /\ UNCHANGED <<now, seq, events, logged>>

Init ==
  /\ now = 1
  /\ sessions = <<>> /\ seq = 0 /\ events = {} /\ pending = {} /\ logged = 0
  /\ client = [s \in Services |-> 0] /\ cache = [s \in Services |-> <<>>]
  /\ retention \in {Load(project) : project \in Projects} /\ cold = {} /\ warmed = 0

Next ==
  \/ \E s \in Services :
       \/ RegisterSession(s) \/ EndSession(s)
       \/ \E kind \in Kinds, ts \in {now - 1, now} \ {0} : Log(s, kind, ts)
  \/ Flush \/ Tick \/ RetentionLoop
  \/ \E project \in Projects : Restart(project) \/ \E days \in DayFlags : PruneCommand(project, days)

Spec == Init /\ [][Next]_vars

-----------------------------------------------------------------------------
(* Properties. *)

\* Types, and no service has more entries in the cache than its ring buffer takes.
TypeOK ==
  /\ now \in 1..MaxTime
  /\ seq \in 0..MaxRuns /\ DOMAIN sessions \subseteq 1..seq
  /\ \A id \in DOMAIN sessions :
       sessions[id] \in [service : Services, started : 1..now, ended : 0..now]
  /\ logged \in 0..MaxLines /\ warmed \in 0..logged
  /\ \A e \in events \cup pending : e \in Row /\ e.ts <= now /\ e.id <= logged
  /\ \A s \in Services :
       /\ client[s] \in 0..seq
       /\ Len(cache[s]) <= CacheSize /\ \A i \in DOMAIN cache[s] : cache[s][i].service = s
  /\ retention \in File /\ cold \subseteq Services

\* The age of devlog prune --days, and the ages that the files give the brokers and prunes of
\* the projects: the project's before the user's before the default.
InForce ==
  {days \in DayFlags : days > 0} \cup
  {IF p.max_age_days # 0 THEN p.max_age_days
   ELSE IF UserConfig.max_age_days # 0 THEN UserConfig.max_age_days ELSE 30 : p \in Projects}

\* No file gives a negative age, by which devlog prune would delete what is yet to come.
AgesPositive == \A age \in InForce : age > 0

\* The reference from log_events to sessions, which the database does not enforce: pruning by
\* age never takes a session away from lines it keeps, nor from lines that the batch writer
\* has yet to insert, although it tests the end of the one and the time stamp of the other,
\* and runs in the broker and in devlog prune.
LinesHaveSessions ==
  AgesPositive => \A e \in events :
    e.session \in DOMAIN sessions /\ sessions[e.session].service = e.service

\* A line disappears only when it is older than an age somebody has asked for.
PruneKeepsRecent ==
  [][\A e \in events \ events' : \E age \in InForce : e.ts < now - age * Day]_vars

\* How many entries a request for recent lines can get at most.
Size(r) ==
  LET limit == IF r.limit = 0 THEN 100 ELSE r.limit
  IN  IF limit < CacheSize THEN limit ELSE CacheSize

\* The lines that the broker has handled itself follow each other as it handled them, and
\* follow those of its predecessors, which follow each other by their stamps.
Earlier(a, b) ==
  IF b.id > warmed THEN a.id < b.id ELSE a.id <= warmed /\ Newer(b, a)

\* What is stored is what devlog recent shows, by an earlier broker too: the warm-up finds the
\* services by their sessions, so those must outlive the lines. The answer is in order,
\* without a line twice; when a stored line is missing, the answer is as long as the limit
\* and the cache allow and has only later lines, unless the warm-up of the service failed and
\* the line is from before. A request fails only if the answer may be too long for a reply.
RecentShowsStored ==
  AgesPositive => \A r \in {q \in Requests : q.command = "recent"} :
    LET a == Answer(r)
        shown == ToSet(a.rows)
        stored == {e \in Of(r.service) : r.service \in cold => e.id > warmed}
    IN  IF a.error THEN Size(r) > ReplyLimit
        ELSE /\ \A i, j \in DOMAIN a.rows : i < j => Earlier(a.rows[i], a.rows[j])
             /\ \A e \in stored \ shown : Len(a.rows) = Size(r) /\ \A x \in shown : Earlier(e, x)

\* Since when, for a request without --since that of its command (README.md:122), which is
\* none for search and for the tools.
From(r) ==
  CASE r.since = Unset -> IF r.via = "cli" /\ r.command = "errors" THEN now - declaredSince ELSE 0
    [] r.since = Bad   -> 0
    [] OTHER           -> IF r.via = "cli" THEN now - r.since ELSE r.since

\* The lines a user means. A line is an error by its stream, or by its first matching level:
\* a fatal one on stdout is none.
Meant(r) ==
  {e \in Of(r.service) :
    /\ e.ts >= From(r)
    /\ r.command = "search" => r.query \in e.text \cup {""}
    /\ r.command = "errors" =>
         e.stream = "stderr" \/ (e.text \cap {"ERROR", "ERR"} # {} /\ e.text \cap {"FATAL", "PANIC"} = {})}

\* Requests that are read as if they asked for more: a query with a wildcard of LIKE, a
\* --since that is no duration, errors without --since, whose declared hour the code loses.
Widened(r) ==
  \/ r.query \in {"%", "_"}
  \/ r.via = "cli" /\ (r.since = Bad \/ (r.command = "errors" /\ r.since = Unset))

LineRequests == {r \in Requests : r.command \in {"search", "errors"} /\ ~Refused(r)}

\* A search or a query for errors leaves out no line that was meant, and returns no other
\* unless it is widened; each line once, the newest first. It fails only when the lines are
\* too many for a reply.
LinesMatch(r) ==
  LET a == Answer(r)
      meant == Meant(r)
  IN  IF a.error THEN Cardinality(IF Widened(r) THEN Of(r.service) ELSE meant) > ReplyLimit
      ELSE /\ meant \subseteq ToSet(a.rows) /\ (~Widened(r) => ToSet(a.rows) = meant)
           /\ \A i, j \in DOMAIN a.rows : i < j => Newer(a.rows[i], a.rows[j])

\* The list of the sessions has those of the service asked for, each once, the one that
\* started last first; a session is listed as active as long as its client runs.
SessionsMatch(r) ==
  LET a == Answer(r)
      mine == {id \in DOMAIN sessions : r.service \in {"", sessions[id].service}}
  IN  IF a.error THEN Cardinality(mine) > ReplyLimit
      ELSE /\ Len(a.rows) = Cardinality(mine) /\ {x.id : x \in ToSet(a.rows)} = mine
           /\ \A i, j \in DOMAIN a.rows : i < j => a.rows[i].started >= a.rows[j].started
           /\ \A s \in Services : client[s] \in mine =>
                \E x \in ToSet(a.rows) : x.id = client[s] /\ x.service = s /\ x.ended = 0

\* The list of the services has every service that has stored lines, and none twice.
ServicesMatch(r) ==
  LET a == Answer(r)
  IN  IF a.error THEN Cardinality(Services) > ReplyLimit
      ELSE /\ Len(a.rows) = Cardinality(ToSet(a.rows))
           /\ AgesPositive => {e.service : e \in events} \subseteq ToSet(a.rows)

\* What the command line and the tools answer is what was meant.
AnswersMatch ==
  /\ \A r \in LineRequests : LinesMatch(r)
  /\ \A r \in Requests : /\ r.command = "sessions" => SessionsMatch(r)
                         /\ r.command = "services" => ServicesMatch(r)
=============================================================================
