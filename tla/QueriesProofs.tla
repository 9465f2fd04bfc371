---------------------------- MODULE QueriesProofs ----------------------------
(* What holds of Queries for any services, files, retention ages and number *)
(* of hours: the tables, the cache and the answers stay in agreement.       *)
EXTENDS Queries, OrderingProofs, FiniteSetTheorems, SequenceTheorems, TLAPS

-----------------------------------------------------------------------------
(* The lists that the queries return. *)

\* The rows of a table: stamps and ids are numbers, and no two rows have the same id.
Rows(S) ==
  /\ IsFiniteSet(S)
  /\ \A e \in S : e.ts \in Int /\ e.id \in Int
  /\ \A d, e \in S : d.id = e.id => d = e

\* A query returns every row that it selects once, the newest first.
LEMMA NewestFirstProperties ==
  ASSUME NEW S, Rows(S)
  PROVE  /\ NewestFirst(S) \in Seq(S) /\ Len(NewestFirst(S)) = Cardinality(S)
         /\ ToSet(NewestFirst(S)) = S
         /\ \A i, j \in DOMAIN NewestFirst(S) :
              i < j => Newer(NewestFirst(S)[i], NewestFirst(S)[j])
<1> DEFINE R == {p \in S \X S : Newer(p[1], p[2])}
           list == NewestFirst(S)
<1>1. \A x, y \in S : <<x, y>> \in R <=> Newer(x, y)
  OBVIOUS
<1>2. /\ \A x \in S : ~Newer(x, x)
      /\ \A x, y, z \in S : Newer(x, y) /\ Newer(y, z) => Newer(x, z)
      /\ \A x, y \in S : x # y => Newer(x, y) \/ Newer(y, x)
  BY DEF Rows, Newer
<1>3. list = Ordered(S, R)
  BY DEF NewestFirst
<1> HIDE DEF R, list
<1>4. StrictlyOrders(R, S) /\ IsFiniteSet(S)
  BY <1>1, <1>2 DEF StrictlyOrders, Rows
<1>5. /\ list \in Seq(S) /\ Len(list) = Cardinality(S) /\ ToSet(list) = S
      /\ \A i, j \in DOMAIN list : i < j => <<list[i], list[j]>> \in R
  BY <1>3, <1>4, OrderedProperties
<1>6. ASSUME NEW i \in DOMAIN list, NEW j \in DOMAIN list, i < j
      PROVE  Newer(list[i], list[j])
  <2>1. list[i] \in S /\ list[j] \in S
    BY <1>5 DEF ToSet
  <2> QED BY <1>1, <1>5, <1>6, <2>1
<1> QED BY <1>5, <1>6 DEF list

\* The list of the sessions: each of them once, the one that started last first.
LEMMA ListedSessions ==
  ASSUME NEW m \in Nat, NEW S \in SUBSET (1..m),
         \A id \in S : sessions[id].started \in Int
  PROVE  LET found == {Info(id) : id \in S}
             list  == Ordered(found, {p \in found \X found : StartedLater(p[1], p[2])})
         IN  /\ Len(list) = Cardinality(S) /\ ToSet(list) = found
             /\ \A i, j \in DOMAIN list : i < j => list[i].started >= list[j].started
<1> DEFINE found == {Info(id) : id \in S}
           R == {p \in found \X found : StartedLater(p[1], p[2])}
           list == Ordered(found, R)
           info == [id \in S |-> Info(id)]
<1>1. /\ \A x \in found : x.id \in S /\ x = Info(x.id) /\ x.id \in Int /\ x.started \in Int
      /\ \A x, y \in found : x.id = y.id => x = y
  BY DEF Info
<1>2. IsFiniteSet(S)
  <2>1. IsFiniteSet(1..m)
    BY FS_Interval
  <2> QED BY <2>1, FS_Subset
<1>3. IsFiniteSet(found) /\ Cardinality(found) = Cardinality(S)
  <2>1. info \in [S -> found] /\ \A x \in found : \E id \in S : info[id] = x
    OBVIOUS
  <2>2. \A a, b \in S : info[a] = info[b] => a = b
    BY DEF Info
  <2> HIDE DEF info, found
  <2>3. info \in Surjection(S, found) /\ info \in Injection(S, found)
    BY <2>1, <2>2 DEF Surjection, Injection, IsInjective
  <2> QED BY <1>2, <2>3, FS_Surjection
<1>4. \A x, y \in found : <<x, y>> \in R <=> StartedLater(x, y)
  OBVIOUS
<1> HIDE DEF found, R
<1>5. StrictlyOrders(R, found)
  BY <1>1, <1>4 DEF StrictlyOrders, StartedLater
<1>6. /\ list \in Seq(found) /\ Len(list) = Cardinality(found) /\ ToSet(list) = found
      /\ \A i, j \in DOMAIN list : i < j => <<list[i], list[j]>> \in R
  BY <1>3, <1>5, OrderedProperties
<1> HIDE DEF list
<1>7. ASSUME NEW i \in DOMAIN list, NEW j \in DOMAIN list, i < j
      PROVE  list[i].started >= list[j].started
  <2>1. list[i] \in found /\ list[j] \in found
    BY <1>6 DEF ToSet
  <2>2. StartedLater(list[i], list[j])
    BY <1>4, <1>6, <1>7, <2>1
  <2> QED BY <1>1, <2>1, <2>2 DEF StartedLater
<1> QED BY <1>3, <1>6, <1>7 DEF list, R, found

\* The list of the services holds every service, once.
LEMMA ListedSet ==
  ASSUME NEW S, IsFiniteSet(S)
  PROVE  ToSet(SetToSeq(S)) = S /\ Len(SetToSeq(S)) = Cardinality(S)
<1> DEFINE n == Cardinality(S)
           list == SetToSeq(S)
<1>1. n \in Nat /\ IsFiniteSet(1..n) /\ Cardinality(1..n) = n /\ ExistsBijection(1..n, S)
  BY FS_CardinalityType, FS_Interval
<1>2. PICK f \in [1..n -> S] : IsInjective(f)
  BY <1>1 DEF ExistsBijection, Bijection, Injection, Surjection
<1>3. list \in [1..n -> S] /\ IsInjective(list)
  BY <1>2 DEF SetToSeq
<1> HIDE DEF list, n
<1>4. list \in Injection(1..n, S)
  BY <1>3 DEF Injection
<1>5. list \in Surjection(1..n, S)
  BY <1>1, <1>4, FS_Injection DEF n
<1>6. Len(list) = n
  BY <1>1, <1>3
<1>7. ToSet(list) = S
  BY <1>3, <1>5 DEF ToSet, Surjection
<1> QED BY <1>6, <1>7 DEF list, n

-----------------------------------------------------------------------------
(* Files and levels. *)

\* What a file leaves out, the file below it or the default decides.
LEMMA LoadedFile ==
  ASSUME NEW p \in Projects
  PROVE  /\ Load(p) \in File
         /\ Load(p).max_age_days = IF p.max_age_days # 0 THEN p.max_age_days
                                   ELSE IF UserConfig.max_age_days # 0 THEN UserConfig.max_age_days
                                   ELSE 30
<1>1. p \in File /\ UserConfig \in File /\ defaults \in File
  BY QueriesAssumption DEF File, defaults
<1>2. ASSUME NEW cfg \in File, NEW file \in File
      PROVE  /\ mergeFromFile(cfg, file) \in File
             /\ mergeFromFile(cfg, file).max_age_days =
                  IF file.max_age_days # 0 THEN file.max_age_days ELSE cfg.max_age_days
  BY <1>2 DEF mergeFromFile, File
<1> DEFINE below == mergeFromFile(defaults, UserConfig)
<1>3. below \in File
      /\ below.max_age_days = IF UserConfig.max_age_days # 0 THEN UserConfig.max_age_days ELSE 30
  BY <1>1, <1>2 DEF defaults
<1> HIDE DEF below
<1>4. Load(p) = mergeFromFile(below, p)
  BY DEF Load, below
<1> QED BY <1>1, <1>2, <1>3, <1>4

LevelNames == {"fatal", "error", "warn", "info", "debug", ""}

\* The first pattern that matches decides.
LEMMA DetectedLevel ==
  ASSUME NEW text
  PROVE  /\ Detect(text) \in LevelNames
         /\ Detect(text) = "error" <=> /\ text \cap {"ERROR", "ERR"} # {}
                                       /\ text \cap {"FATAL", "PANIC"} = {}
<1> DEFINE M == Matching(text)
           first == CHOOSE i \in M : \A j \in M : i <= j
<1>1. M \subseteq 1..5 /\ (1 \in M <=> text \cap {"FATAL", "PANIC"} # {})
                       /\ (2 \in M <=> text \cap {"ERROR", "ERR"} # {})
  BY DEF Matching, patterns
<1>2. CASE M = {}
  <2>1. Detect(text) = ""
    BY <1>2 DEF Detect
  <2> QED BY <1>1, <1>2, <2>1 DEF LevelNames
<1>3. CASE M # {}
  <2>1. \E i \in M : \A j \in M : i <= j
    <3> HIDE DEF M
    <3>1. M \subseteq {1, 2, 3, 4, 5}
      BY <1>1
    <3>2. ASSUME NEW k \in M, \A j \in 1..5 : j < k => j \notin M
          PROVE  \A j \in M : k <= j
      BY <1>1, <3>2
    <3>3. CASE 1 \in M
      BY <3>2, <3>3
    <3>4. CASE 1 \notin M /\ 2 \in M
      BY <3>2, <3>4
    <3>5. CASE 1 \notin M /\ 2 \notin M /\ 3 \in M
      BY <3>2, <3>5
    <3>6. CASE 1 \notin M /\ 2 \notin M /\ 3 \notin M /\ 4 \in M
      BY <3>2, <3>6
    <3>7. CASE M = {5}
      BY <3>2, <3>7
    <3> QED BY <1>3, <3>1, <3>3, <3>4, <3>5, <3>6, <3>7
  <2>2. first \in M /\ \A j \in M : first <= j
    BY <2>1
  <2>3. Detect(text) = patterns[first][2]
    BY <1>3 DEF Detect
  <2> HIDE DEF M, first
  <2>4. first \in 1..5 /\ (first = 1 <=> 1 \in M) /\ (first = 2 <=> 2 \in M /\ 1 \notin M)
    BY <1>1, <2>2
  <2>5. /\ patterns[1][2] = "fatal" /\ patterns[2][2] = "error" /\ patterns[3][2] = "warn"
        /\ patterns[4][2] = "info" /\ patterns[5][2] = "debug"
    BY DEF patterns
  <2>6. first \in {1, 2, 3, 4, 5}
    BY <2>4
  <2> QED BY <1>1, <2>3, <2>4, <2>5, <2>6 DEF LevelNames
<1> QED BY <1>2, <1>3

\* A line is one of the errors when its stream, or its level, makes it one.
LEMMA ErrorLevel ==
  ASSUME NEW k \in Kinds
  PROVE  /\ LevelOf(k) \in LevelNames
         /\ k.stream = "stderr" \/ LevelOf(k) = "error" <=>
              \/ k.stream = "stderr"
              \/ k.text \cap {"ERROR", "ERR"} # {} /\ k.text \cap {"FATAL", "PANIC"} = {}
<1>1. Detect(k.text) \in LevelNames /\ "error" \in LevelNames
  BY DetectedLevel DEF LevelNames
<1> QED BY <1>1, DetectedLevel DEF LevelOf

-----------------------------------------------------------------------------
(* The inductive invariant. *)

\* The broker's configuration is that of a project.
Configured == retention \in {Load(p) : p \in Projects}

\* The hour, the sessions and the running clients.
SessionTypes ==
  /\ now \in 1..MaxTime /\ seq \in 0..MaxRuns
  /\ DOMAIN sessions \subseteq 1..seq
  /\ \A id \in DOMAIN sessions :
       sessions[id] \in [service : Services, started : 1..now, ended : 0..now]
  /\ client \in [Services -> 0..seq]

\* The rows in the table and on their way to it.
Lines == events \cup pending

\* A row is as handleLog has written it.
Written(e) ==
  /\ e \in Row /\ e.ts <= now /\ e.id <= logged
  /\ \E k \in Kinds : e.stream = k.stream /\ e.text = k.text /\ e.level = LevelOf(k)

LineTypes ==
  /\ logged \in 0..MaxLines /\ warmed \in 0..logged
  /\ Rows(Lines) /\ \A e \in Lines : Written(e)

\* A running client's session is in the table, and is open.
Open(s, id) == /\ id \in DOMAIN sessions
               /\ sessions[id].service = s /\ sessions[id].ended = 0

RunningIsOpen == \A s \in Services : client[s] # 0 => Open(s, client[s])

\* A line is no younger than the end of its session, so no cutoff can be between them.
LineInSession(e) ==
  /\ e.session \in DOMAIN sessions /\ sessions[e.session].service = e.service
  /\ sessions[e.session].ended = 0 \/ e.ts <= sessions[e.session].ended

\* A session with lines that wait to be inserted cannot have ended before this hour, so no
\* cutoff of the past is later than its end.
LinesInSessions ==
  /\ \A e \in Lines : LineInSession(e)
  /\ \A e \in pending : sessions[e.session].ended \in {0, now}

TablesInv ==
  /\ Configured /\ SessionTypes /\ LineTypes /\ RunningIsOpen
  /\ AgesPositive => LinesInSessions

\* Row a is in the cache of service s, or there is no room for it among later rows.
InPlace(s, a) ==
  \/ a \in ToSet(cache[s])
  \/ Len(cache[s]) = CacheSize /\ \A x \in ToSet(cache[s]) : Earlier(a, x)

\* The cache of a service is in order, and leaves out only what it may.
CacheOf(s) ==
  /\ cache[s] \in Seq({r \in Row : r.service = s /\ r.id <= logged})
  /\ Len(cache[s]) <= CacheSize
  /\ \A i, j \in DOMAIN cache[s] : i < j => Earlier(cache[s][i], cache[s][j])
  /\ AgesPositive => \A e \in Lines :
       e.service = s /\ (s \in cold => e.id > warmed) => InPlace(s, e)

CacheInv ==
  /\ cold \subseteq Services /\ cache = [s \in Services |-> cache[s]]
  /\ \A s \in Services : CacheOf(s)

-----------------------------------------------------------------------------
(* What the steps do to the tables. *)

\* What is left of the rows of a table are rows.
LEMMA SubsetOfRows ==
  ASSUME NEW S, Rows(S), NEW T \in SUBSET S
  PROVE  Rows(T)
BY FS_Subset DEF Rows

\* Lines only disappear, or reach the table.
LEMMA FewerLines ==
  ASSUME LineTypes, UNCHANGED <<now, logged>>, warmed' \in 0..logged, Lines' \in SUBSET Lines
  PROVE  LineTypes'
<1>1. Rows(Lines)'
  BY SubsetOfRows DEF LineTypes, Rows
<1>2. \A e \in Lines' : Written(e)'
  BY DEF LineTypes, Written
<1> QED BY <1>1, <1>2 DEF LineTypes

\* The retention loop and devlog prune delete by an age that somebody has asked for.
LEMMA AgeInForce ==
  ASSUME Configured,
         RetentionLoop \/ \E p \in Projects, days \in DayFlags : PruneCommand(p, days)
  PROVE  \E age \in InForce : age \in Int /\ PruneByAge(age)
<1>1. ASSUME NEW p \in Projects
      PROVE  Load(p).max_age_days \in InForce /\ Load(p).max_age_days \in Int
  BY LoadedFile DEF InForce, File
<1>2. CASE RetentionLoop
  <2>1. PICK p \in Projects : retention = Load(p)
    BY DEF Configured
  <2> QED BY <1>1, <1>2, <2>1 DEF RetentionLoop
<1>3. ASSUME NEW p \in Projects, NEW days \in DayFlags, PruneCommand(p, days)
      PROVE  \E age \in InForce : age \in Int /\ PruneByAge(age)
  <2>1. CASE days > 0
    <3>1. days \in InForce /\ days \in Int
      BY <2>1, QueriesAssumption DEF InForce
    <3> QED BY <1>3, <2>1, <3>1 DEF PruneCommand
  <2>2. CASE ~(days > 0)
    BY <1>1, <1>3, <2>2 DEF PruneCommand
  <2> QED BY <2>1, <2>2
<1> QED BY <1>2, <1>3

\* A cutoff is a time, and a positive age puts it into the past.
LEMMA Cutoff ==
  ASSUME SessionTypes, NEW age \in Int
  PROVE  now - age * Day \in Int /\ (age > 0 => now - age * Day <= now)
<1>1. now \in Int /\ Day \in Nat \ {0}
  BY QueriesAssumption DEF SessionTypes
<1>2. age * Day \in Int /\ (age > 0 => age * Day >= 0)
  BY <1>1
<1> QED BY <1>1, <1>2

\* DELETE by age, from both tables.
LEMMA PruneTables ==
  ASSUME TablesInv, NEW age \in InForce, age \in Int, PruneByAge(age)
  PROVE  TablesInv'
<1> DEFINE cutoff == now - age * Day
           old == {id \in DOMAIN sessions : sessions[id].ended # 0 /\ sessions[id].ended < cutoff}
<1> USE DEF TablesInv
<1>1. /\ events' = {e \in events : e.ts >= cutoff} /\ sessions' = Restrict(sessions, DOMAIN sessions \ old)
      /\ UNCHANGED <<now, seq, logged, client, pending, cache, warmed, retention, cold>>
  BY DEF PruneByAge, cacheVars
<1>2. /\ DOMAIN sessions' = DOMAIN sessions \ old
      /\ \A id \in DOMAIN sessions' : sessions'[id] = sessions[id]
  BY <1>1 DEF Restrict
<1>3. SessionTypes'
  BY <1>1, <1>2 DEF SessionTypes
<1>4. LineTypes'
  BY <1>1, FewerLines DEF LineTypes, Lines
<1>5. RunningIsOpen'
  BY <1>1, <1>2 DEF RunningIsOpen, Open
<1>6. ASSUME AgesPositive PROVE LinesInSessions'
  <2>1. cutoff \in Int /\ cutoff <= now /\ now \in Int
    BY <1>6, Cutoff DEF AgesPositive, SessionTypes
  <2>2. ASSUME NEW e \in Lines' PROVE LineInSession(e)' /\ e.session \notin old
    <3>1. e \in Lines /\ e.ts \in Int
      BY <1>1, <2>2 DEF Lines, LineTypes, Rows
    <3>2. /\ e.session \in DOMAIN sessions /\ sessions[e.session].service = e.service
          /\ sessions[e.session].ended = 0 \/ e.ts <= sessions[e.session].ended
          /\ e \in pending => sessions[e.session].ended \in {0, now}
      BY <1>6, <3>1 DEF LinesInSessions, LineInSession
    <3>3. sessions[e.session].ended \in Int
      BY <3>2 DEF SessionTypes
    <3>4. e \in pending \/ e.ts >= cutoff
      BY <1>1, <2>2 DEF Lines
    <3>5. e.session \notin old
      BY <2>1, <3>1, <3>2, <3>3, <3>4
    <3> HIDE DEF old
    <3> QED BY <1>2, <3>2, <3>5 DEF LineInSession
  <2>3. \A e \in pending' : sessions'[e.session].ended \in {0, now'}
    <3> HIDE DEF old, cutoff
    <3> QED BY <1>1, <1>2, <1>6, <2>2 DEF LinesInSessions, LineInSession, Lines
  <2> QED BY <2>2, <2>3 DEF LinesInSessions
<1>7. Configured'
  BY <1>1 DEF Configured
<1> QED BY <1>3, <1>4, <1>5, <1>6, <1>7

\* An hour passes.
LEMMA TickTables ==
  ASSUME TablesInv, Tick
  PROVE  TablesInv'
<1> USE DEF TablesInv
<1>1. /\ now < MaxTime /\ now' = now + 1 /\ pending = {}
      /\ UNCHANGED <<sessions, seq, client, events, pending, logged, cache, warmed, retention, cold>>
  BY DEF Tick, tableVars, cacheVars
<1>2. SessionTypes'
  BY <1>1, QueriesAssumption DEF SessionTypes
<1>3. LineTypes'
  <2>1. \A e \in Lines : e.ts <= now'
    BY <1>1 DEF LineTypes, Rows, SessionTypes, Written
  <2> QED BY <1>1, <2>1 DEF LineTypes, Written, Lines
<1> QED BY <1>1, <1>2, <1>3 DEF RunningIsOpen, Open, LinesInSessions, LineInSession, Lines, Configured

\* A client registers.
LEMMA RegisterTables ==
  ASSUME TablesInv, NEW s \in Services, RegisterSession(s)
  PROVE  TablesInv'
<1> USE DEF TablesInv
<1>1. /\ client[s] = 0 /\ seq < MaxRuns /\ seq' = seq + 1
      /\ sessions' = [id \in DOMAIN sessions \cup {seq + 1} |->
                       IF id = seq + 1 THEN [service |-> s, started |-> now, ended |-> 0]
                       ELSE sessions[id]]
      /\ client' = [client EXCEPT ![s] = seq + 1]
      /\ UNCHANGED <<now, events, pending, logged, cache, warmed, retention, cold>>
  BY DEF RegisterSession, cacheVars
<1>2. Configured' /\ LineTypes'
  BY <1>1 DEF Configured, LineTypes, Written, Lines
<1>3. seq \in Nat /\ seq + 1 \notin DOMAIN sessions
  BY QueriesAssumption DEF SessionTypes
<1>4. /\ DOMAIN sessions' = DOMAIN sessions \cup {seq + 1}
      /\ sessions'[seq + 1] = [service |-> s, started |-> now, ended |-> 0]
      /\ \A id \in DOMAIN sessions : sessions'[id] = sessions[id]
  BY <1>1, <1>3
<1>5. client'[s] = seq + 1 /\ \A t \in Services \ {s} : client'[t] = client[t]
  BY <1>1 DEF SessionTypes
<1>6. SessionTypes'
  <2>1. /\ now' = now /\ now \in 1..MaxTime /\ 0..seq \subseteq 0..seq' /\ seq + 1 \in 0..seq'
        /\ seq' \in 0..MaxRuns
    BY <1>1, <1>3, QueriesAssumption DEF SessionTypes
  <2>2. DOMAIN sessions' \subseteq 1..seq'
    BY <1>1, <1>3, <1>4 DEF SessionTypes
  <2>3. ASSUME NEW id \in DOMAIN sessions'
        PROVE  sessions'[id] \in [service : Services, started : 1..now, ended : 0..now]
    <3>1. CASE id = seq + 1
      <4>1. now \in 1..now /\ 0 \in 0..now
        BY <2>1
      <4> QED BY <1>4, <3>1, <4>1
    <3>2. CASE id \in DOMAIN sessions
      BY <1>4, <3>2 DEF SessionTypes
    <3> QED BY <1>4, <3>1, <3>2
  <2>4. client' \in [Services -> 0..seq']
    BY <1>1, <2>1 DEF SessionTypes
  <2> QED BY <2>1, <2>2, <2>3, <2>4 DEF SessionTypes
<1>7. RunningIsOpen'
  <2> SUFFICES ASSUME NEW t \in Services, client'[t] # 0 PROVE Open(t, client[t])'
    BY DEF RunningIsOpen
  <2>1. CASE t = s
    BY <1>4, <1>5, <2>1 DEF Open
  <2>2. CASE t # s
    BY <1>4, <1>5, <2>2 DEF RunningIsOpen, Open
  <2> QED BY <2>1, <2>2
<1>8. ASSUME AgesPositive PROVE LinesInSessions'
  <2>1. \A e \in Lines : e.session \in DOMAIN sessions /\ LineInSession(e)
    BY <1>8 DEF LinesInSessions, LineInSession
  <2>2. \A e \in Lines : LineInSession(e)'
    BY <1>4, <2>1 DEF LineInSession
  <2> QED BY <1>1, <1>4, <1>8, <2>1, <2>2 DEF LinesInSessions, Lines
<1> QED BY <1>2, <1>6, <1>7, <1>8

\* The row that a line becomes.
LEMMA LoggedRow ==
  ASSUME TablesInv, NEW s \in Services, NEW kind \in Kinds, NEW ts \in {now - 1, now} \ {0},
         client[s] # 0, logged < MaxLines
  PROVE  [id |-> logged + 1, service |-> s, session |-> client[s], ts |-> ts,
          stream |-> kind.stream, level |-> LevelOf(kind), text |-> kind.text] \in Row
<1> USE DEF TablesInv
<1>1. logged + 1 \in 1..MaxLines /\ ts \in 1..MaxTime
  BY QueriesAssumption DEF LineTypes, SessionTypes
<1>2. client[s] \in Ids
  BY QueriesAssumption DEF SessionTypes, Ids
<1>3. kind.stream \in {"stdout", "stderr"} /\ kind.text \in {k.text : k \in Kinds}
  BY QueriesAssumption
<1>4. LevelOf(kind) \in {"fatal", "error", "warn", "info", "debug", ""}
  BY ErrorLevel DEF LevelNames
<1> QED BY <1>1, <1>2, <1>3, <1>4 DEF Row

\* A line waits for the batch writer, or finds no room.
LEMMA LogTables ==
  ASSUME TablesInv, NEW s \in Services, NEW kind \in Kinds, NEW ts \in {now - 1, now} \ {0},
         Log(s, kind, ts)
  PROVE  TablesInv'
<1> DEFINE row == [id |-> logged + 1, service |-> s, session |-> client[s], ts |-> ts,
                   stream |-> kind.stream, level |-> LevelOf(kind), text |-> kind.text]
<1> USE DEF TablesInv
<1>1. /\ client[s] # 0 /\ logged < MaxLines /\ logged' = logged + 1
      /\ pending' \in {pending, pending \cup {row}}
      /\ UNCHANGED <<now, sessions, seq, client, events, warmed, retention, cold>>
  BY DEF Log, tableVars
<1>2. Configured' /\ SessionTypes' /\ RunningIsOpen'
  BY <1>1 DEF Configured, SessionTypes, RunningIsOpen, Open
<1>3. /\ row.id = logged + 1 /\ row.service = s /\ row.session = client[s] /\ row.ts = ts
      /\ row.stream = kind.stream /\ row.level = LevelOf(kind) /\ row.text = kind.text
  OBVIOUS
<1>4. logged \in Nat /\ ts \in Int /\ ts <= now
  BY <1>1, QueriesAssumption DEF LineTypes, SessionTypes
<1>5. row \in Row
  BY <1>1, LoggedRow
<1>6. LineInSession(row) /\ sessions[row.session].ended = 0
  BY <1>1, <1>3 DEF RunningIsOpen, Open, LineInSession
<1> HIDE DEF row
<1>7. \A e \in Lines' : e = row \/ e \in Lines
  BY <1>1 DEF Lines
<1>8. LineTypes'
  <2>1. \A e \in Lines : e.id <= logged /\ e.id \in Int
    BY DEF LineTypes, Written, Rows
  <2>2. Rows(Lines)'
    <3>1. IsFiniteSet(Lines) /\ IsFiniteSet(Lines \cup {row})
      BY FS_AddElement DEF LineTypes, Rows
    <3>2. IsFiniteSet(Lines')
      <4>1. Lines' \in {Lines, Lines \cup {row}}
        BY <1>1 DEF Lines
      <4> QED BY <3>1, <4>1
    <3>3. \A e \in Lines' : e.ts \in Int /\ e.id \in Int
      BY <1>3, <1>4, <1>7 DEF LineTypes, Rows
    <3>4. \A e \in Lines : e.id # row.id
      BY <1>3, <1>4, <2>1
    <3>5. \A d, e \in Lines : d.id = e.id => d = e
      BY DEF LineTypes, Rows
    <3>6. ASSUME NEW d \in Lines', NEW e \in Lines', d.id = e.id
          PROVE  d = e
      BY <1>7, <3>4, <3>5, <3>6
    <3> QED BY <3>2, <3>3, <3>6 DEF Rows
  <2>3. ASSUME NEW e \in Lines' PROVE Written(e)'
    <3>1. CASE e = row
      <4>1. row \in Row /\ row.ts <= now' /\ row.id <= logged'
        BY <1>1, <1>3, <1>4, <1>5
      <4>2. row.stream = kind.stream /\ row.text = kind.text /\ row.level = LevelOf(kind)
        BY <1>3
      <4> QED BY <3>1, <4>1, <4>2 DEF Written
    <3>2. CASE e \in Lines
      BY <1>1, <1>4, <2>1, <3>2 DEF LineTypes, Written
    <3> QED BY <1>7, <3>1, <3>2
  <2>4. logged' \in 0..MaxLines /\ warmed' \in 0..logged'
    BY <1>1, <1>4, QueriesAssumption DEF LineTypes
  <2> QED BY <2>2, <2>3, <2>4 DEF LineTypes
<1>9. ASSUME AgesPositive PROVE LinesInSessions'
  <2>1. \A e \in Lines' : LineInSession(e)'
    BY <1>1, <1>6, <1>7, <1>9 DEF LinesInSessions, LineInSession
  <2>2. \A e \in pending' : sessions[e.session].ended \in {0, now}
    BY <1>1, <1>6, <1>9 DEF LinesInSessions
  <2> QED BY <1>1, <2>1, <2>2 DEF LinesInSessions
<1> QED BY <1>2, <1>8, <1>9

\* A batch is inserted, or its transaction fails.
LEMMA FlushTables ==
  ASSUME TablesInv, Flush
  PROVE  TablesInv' /\ Lines' \in SUBSET Lines
<1>1. /\ Lines' \in SUBSET Lines /\ pending' \in SUBSET pending
      /\ UNCHANGED <<now, sessions, seq, client, logged, warmed, retention>>
  BY DEF Flush, Lines, tableVars, cacheVars
<1>2. LineTypes'
  BY <1>1, FewerLines DEF TablesInv, LineTypes
<1>3. Configured' /\ SessionTypes' /\ RunningIsOpen'
  BY <1>1 DEF TablesInv, Configured, SessionTypes, RunningIsOpen, Open
<1>4. AgesPositive => LinesInSessions'
  BY <1>1 DEF TablesInv, LinesInSessions, LineInSession
<1> QED BY <1>1, <1>2, <1>3, <1>4 DEF TablesInv

\* Ending open sessions now leaves no line younger than the ends.
LEMMA EndOpenSessions ==
  ASSUME TablesInv, NEW ends \in SUBSET {id \in DOMAIN sessions : sessions[id].ended = 0},
         DOMAIN sessions' = DOMAIN sessions,
         \A id \in DOMAIN sessions : sessions'[id] =
           IF id \in ends THEN [sessions[id] EXCEPT !.ended = now] ELSE sessions[id],
         UNCHANGED <<now, seq, events, logged>>,
         pending' \in SUBSET pending, warmed' \in 0..logged,
         client' \in [Services -> 0..seq]
  PROVE  SessionTypes' /\ LineTypes' /\ (AgesPositive => LinesInSessions')
<1> USE DEF TablesInv
<1>1. ASSUME NEW id \in DOMAIN sessions
      PROVE  /\ sessions'[id] \in [service : Services, started : 1..now, ended : 0..now]
             /\ sessions'[id].service = sessions[id].service
             /\ \/ sessions'[id].ended = sessions[id].ended
                \/ sessions[id].ended = 0 /\ sessions'[id].ended = now
  <2>1. now \in 0..now /\ sessions[id] \in [service : Services, started : 1..now, ended : 0..now]
    BY DEF SessionTypes
  <2>2. CASE id \in ends
    BY <2>1, <2>2
  <2>3. CASE id \notin ends
    BY <2>1, <2>3
  <2> QED BY <2>2, <2>3
<1>2. SessionTypes'
  BY <1>1 DEF SessionTypes
<1>3. Lines' \in SUBSET Lines
  BY DEF Lines
<1>4. LineTypes'
  BY <1>3, FewerLines
<1>5. ASSUME AgesPositive PROVE LinesInSessions'
  <2>1. ASSUME NEW e \in Lines' PROVE LineInSession(e)' /\ e.session \in DOMAIN sessions
    <3>1. /\ e.session \in DOMAIN sessions /\ sessions[e.session].service = e.service
          /\ sessions[e.session].ended = 0 \/ e.ts <= sessions[e.session].ended
      BY <1>3, <1>5 DEF LinesInSessions, LineInSession
    <3>2. e.ts <= now
      BY <1>3 DEF LineTypes, Written
    <3> QED BY <1>1, <3>1, <3>2 DEF LineInSession
  <2>2. ASSUME NEW e \in pending' PROVE sessions'[e.session].ended \in {0, now}
    <3>1. e.session \in DOMAIN sessions /\ sessions[e.session].ended \in {0, now}
      BY <1>5, <2>1 DEF LinesInSessions, Lines
    <3> QED BY <1>1, <3>1
  <2> QED BY <2>1, <2>2 DEF LinesInSessions
<1> QED BY <1>2, <1>4, <1>5

\* A client ends its session, or its end is not written.
LEMMA EndTables ==
  ASSUME TablesInv, NEW s \in Services, EndSession(s)
  PROVE  TablesInv'
<1> DEFINE mine == {id \in DOMAIN sessions : id = client[s]}
<1> USE DEF TablesInv
<1>1. /\ client[s] # 0 /\ client' = [client EXCEPT ![s] = 0]
      /\ UNCHANGED <<now, seq, events, pending, logged, cache, warmed, retention, cold>>
  BY DEF EndSession, cacheVars
<1>2. PICK ends \in SUBSET mine :
        /\ DOMAIN sessions' = DOMAIN sessions
        /\ \A id \in DOMAIN sessions : sessions'[id] =
             IF id \in ends THEN [sessions[id] EXCEPT !.ended = now] ELSE sessions[id]
  <2>1. CASE sessions' = sessions
    <3>1. {} \in SUBSET mine
      OBVIOUS
    <3> QED BY <2>1, <3>1
  <2>2. CASE sessions' = [id \in DOMAIN sessions |->
                           IF id = client[s] THEN [sessions[id] EXCEPT !.ended = now]
                           ELSE sessions[id]]
    <3>1. \A id \in DOMAIN sessions : id \in mine <=> id = client[s]
      OBVIOUS
    <3>2. mine \in SUBSET mine
      OBVIOUS
    <3> HIDE DEF mine
    <3> QED BY <2>2, <3>1, <3>2
  <2> QED BY <2>1, <2>2 DEF EndSession
<1>3. \A id \in mine : sessions[id].service = s /\ sessions[id].ended = 0
  BY <1>1 DEF RunningIsOpen, Open
<1>4. client' \in [Services -> 0..seq]
  BY <1>1, QueriesAssumption DEF SessionTypes
<1>5. SessionTypes' /\ LineTypes' /\ (AgesPositive => LinesInSessions')
  <2>1. ends \in SUBSET {id \in DOMAIN sessions : sessions[id].ended = 0}
    BY <1>3
  <2>2. pending' \in SUBSET pending /\ warmed' \in 0..logged
    BY <1>1 DEF LineTypes
  <2> HIDE DEF TablesInv
  <2> QED BY <1>1, <1>2, <1>4, <2>1, <2>2, EndOpenSessions
<1>6. RunningIsOpen'
  <2> SUFFICES ASSUME NEW t \in Services, client'[t] # 0
               PROVE  Open(t, client[t])'
    BY DEF RunningIsOpen
  <2>1. t # s /\ client'[t] = client[t]
    BY <1>1 DEF SessionTypes
  <2>2. Open(t, client[t])
    BY <2>1 DEF RunningIsOpen
  <2>3. client[t] \notin ends
    BY <1>3, <2>1, <2>2 DEF Open
  <2> QED BY <1>2, <2>1, <2>2, <2>3 DEF Open
<1>7. Configured'
  BY <1>1 DEF Configured
<1> QED BY <1>5, <1>6, <1>7

\* Another broker takes over.
LEMMA RestartTables ==
  ASSUME TablesInv, NEW p \in Projects, Restart(p)
  PROVE  TablesInv'
<1>1. /\ retention' = Load(p) /\ client' = [s \in Services |-> 0] /\ pending' = {}
      /\ warmed' = logged /\ UNCHANGED <<now, seq, events, logged>>
  BY DEF Restart, WarmCache
<1>2. PICK ends \in SUBSET {id \in DOMAIN sessions : sessions[id].ended = 0} :
        /\ DOMAIN sessions' = DOMAIN sessions
        /\ \A id \in DOMAIN sessions : sessions'[id] =
             IF id \in ends THEN [sessions[id] EXCEPT !.ended = now] ELSE sessions[id]
  BY DEF Restart
<1>3. SessionTypes' /\ LineTypes' /\ (AgesPositive => LinesInSessions')
  <2>1. client' \in [Services -> 0..seq]
    BY <1>1, QueriesAssumption DEF TablesInv, SessionTypes
  <2>2. pending' \in SUBSET pending /\ warmed' \in 0..logged
    BY <1>1, QueriesAssumption DEF TablesInv, LineTypes
  <2> QED BY <1>1, <1>2, <2>1, <2>2, EndOpenSessions
<1>4. RunningIsOpen'
  BY <1>1 DEF RunningIsOpen
<1>5. Configured'
  BY <1>1 DEF Configured
<1> QED BY <1>3, <1>4, <1>5 DEF TablesInv

\* Every step keeps the tables in agreement.
LEMMA TablesStep ==
  ASSUME TablesInv, [Next]_vars
  PROVE  TablesInv'
<1>1. CASE RetentionLoop \/ \E p \in Projects, days \in DayFlags : PruneCommand(p, days)
  BY <1>1, AgeInForce, PruneTables DEF TablesInv
<1>2. CASE UNCHANGED vars
  BY <1>2 DEF vars, tableVars, cacheVars, TablesInv, Configured, SessionTypes, LineTypes, Written,
              RunningIsOpen, Open, LinesInSessions, LineInSession, Lines
<1> QED
  BY <1>1, <1>2, TickTables, RegisterTables, LogTables, FlushTables, EndTables, RestartTables DEF Next

LEMMA TablesInitially ==
  ASSUME Init
  PROVE  TablesInv
<1>1. Configured /\ SessionTypes
  <2>1. DOMAIN sessions = {} /\ now \in 1..MaxTime /\ seq \in 0..MaxRuns /\ 0 \in 0..seq
    BY QueriesAssumption DEF Init
  <2> QED BY <2>1 DEF Init, Configured, SessionTypes
<1>2. LineTypes
  <2>1. Lines = {} /\ logged = 0 /\ warmed = 0
    BY DEF Init, Lines
  <2> QED BY <2>1, FS_EmptySet, QueriesAssumption DEF LineTypes, Rows
<1>3. RunningIsOpen /\ LinesInSessions
  BY DEF Init, RunningIsOpen, LinesInSessions, Lines
<1> QED BY <1>1, <1>2, <1>3 DEF TablesInv

\* What the theorems on the tables rest on.
LEMMA TablesInvariant == Spec => []TablesInv
<1> QED BY TablesInitially, TablesStep, PTL DEF Spec

\* No line is left without its session, unless an age reaches into the future: a cutoff that
\* spares a line spares its session, a session that still runs is never deleted, and one that
\* has just ended outlives the lines that wait to be inserted (PruneByAge, Flush).
THEOREM LinesKeepTheirSessions == Spec => []LinesHaveSessions
<1>1. TablesInv => LinesHaveSessions
  BY DEF TablesInv, LinesInSessions, LineInSession, LinesHaveSessions, Lines
<1> QED BY <1>1, TablesInvariant, PTL

\* Only age deletes a line, and only an age that a file or a flag has asked for: of the files,
\* the project's decides, then the user's, then the default (Load, PruneByAge).
THEOREM RecentLinesAreKept == Spec => PruneKeepsRecent
<1> DEFINE Kept == \A e \in events \ events' : \E age \in InForce : e.ts < now - age * Day
<1>1. TablesInv /\ [Next]_vars => [Kept]_vars
  <2> SUFFICES ASSUME TablesInv, Next, NEW e \in events \ events'
               PROVE  \E age \in InForce : e.ts < now - age * Day
    OBVIOUS
  <2>1. RetentionLoop \/ \E p \in Projects, days \in DayFlags : PruneCommand(p, days)
    BY DEF Next, Tick, RegisterSession, Log, Flush, EndSession, Restart
  <2>2. PICK age \in InForce : age \in Int /\ PruneByAge(age)
    BY <2>1, AgeInForce DEF TablesInv
  <2>3. ~(e.ts >= now - age * Day)
    BY <2>2 DEF PruneByAge
  <2>4. e.ts \in Int /\ now - age * Day \in Int
    BY <2>2, Cutoff DEF TablesInv, LineTypes, Rows, Lines
  <2> QED BY <2>2, <2>3, <2>4
<1>2. Spec => [][Kept]_vars
  BY <1>1, TablesInvariant, PTL DEF Spec
<1> QED BY <1>2 DEF PruneKeepsRecent

-----------------------------------------------------------------------------
(* The cache. *)

\* A piece of a list holds elements of it, at the places it says.
LEMMA Piece ==
  ASSUME NEW S, NEW q \in Seq(S), NEW m \in Int, NEW n \in Int, 1 <= m, n <= Len(q), m <= n + 1
  PROVE  /\ SubSeq(q, m, n) \in Seq(S) /\ Len(SubSeq(q, m, n)) = n - m + 1
         /\ \A i \in 1..(n - m + 1) : SubSeq(q, m, n)[i] = q[m + i - 1]
<1>1. Len(q) \in Nat /\ \A i \in 1..Len(q) : q[i] \in S
  BY LenProperties, ElementOfSeq
<1>2. \A i \in m..n : q[i] \in S
  BY <1>1
<1> QED BY <1>2, SubSeqProperties

\* The ring buffer: the new entry comes last, and a full one loses its first.
LEMMA RingBuffer ==
  ASSUME NEW S, NEW q \in Seq(S), NEW x \in S, Len(q) <= CacheSize
  PROVE  LET r == Newest(Append(q, x))
             d == IF Len(q) = CacheSize THEN 1 ELSE 0
         IN  /\ r \in Seq(S) /\ Len(r) = Len(q) + 1 - d
             /\ \A i \in 1..Len(r) : r[i] = IF i + d = Len(q) + 1 THEN x ELSE q[i + d]
<1> DEFINE a == Append(q, x)
<1>1. /\ a \in Seq(S) /\ Len(a) = Len(q) + 1 /\ a[Len(q) + 1] = x
      /\ \A i \in 1..Len(q) : a[i] = q[i]
  BY AppendProperties
<1>2. Len(q) \in Nat /\ CacheSize \in Nat \ {0}
  BY LenProperties, QueriesAssumption
<1> HIDE DEF a
<1>3. CASE Len(q) = CacheSize
  <2>1. Newest(a) = SubSeq(a, 2, Len(a))
    <3>1. Len(a) > CacheSize /\ Len(a) - CacheSize + 1 = 2
      BY <1>1, <1>2, <1>3
    <3> QED BY <3>1 DEF Newest
  <2>2. /\ SubSeq(a, 2, Len(a)) \in Seq(S) /\ Len(SubSeq(a, 2, Len(a))) = Len(q)
        /\ \A i \in 1..Len(q) : SubSeq(a, 2, Len(a))[i] = a[2 + i - 1]
    <3>1. Len(a) \in Int /\ 1 <= 2 /\ 2 <= Len(a) + 1 /\ Len(a) - 2 + 1 = Len(q)
      BY <1>1, <1>2
    <3> QED BY <1>1, <3>1, Piece
  <2>3. \A i \in 1..Len(q) : a[2 + i - 1] = IF i + 1 = Len(q) + 1 THEN x ELSE q[i + 1]
    <3> SUFFICES ASSUME NEW i \in 1..Len(q)
                 PROVE  a[i + 1] = IF i + 1 = Len(q) + 1 THEN x ELSE q[i + 1]
      BY <1>2
    <3>1. i + 1 = Len(q) + 1 \/ i + 1 \in 1..Len(q)
      BY <1>2
    <3> QED BY <1>1, <1>2, <3>1
  <2> QED BY <1>2, <1>3, <2>1, <2>2, <2>3 DEF a
<1>4. CASE Len(q) # CacheSize
  <2>1. Newest(a) = a
    BY <1>1, <1>2, <1>4 DEF Newest
  <2>2. \A i \in 1..(Len(q) + 1) : a[i] = IF i = Len(q) + 1 THEN x ELSE q[i]
    <3> SUFFICES ASSUME NEW i \in 1..(Len(q) + 1)
                 PROVE  a[i] = IF i = Len(q) + 1 THEN x ELSE q[i]
      OBVIOUS
    <3>1. i = Len(q) + 1 \/ i \in 1..Len(q)
      BY <1>2
    <3> QED BY <1>1, <1>2, <3>1
  <2> QED BY <1>1, <1>2, <1>4, <2>1, <2>2 DEF a
<1> QED BY <1>3, <1>4

\* What the warm-up reads: the newest rows, as many as the cache takes.
LEMMA RecentRows ==
  ASSUME NEW s, Rows(Of(s)), NEW n \in Nat
  PROVE  LET q == QueryRecentLogs(s, n)
         IN  /\ q \in Seq(Of(s)) /\ Len(q) <= n
             /\ \A i, j \in DOMAIN q : i < j => Newer(q[i], q[j])
             /\ \A e \in Of(s) :
                  e \in ToSet(q) \/ (Len(q) = n /\ \A x \in ToSet(q) : Newer(x, e))
<1> DEFINE all == NewestFirst(Of(s))
           q == QueryRecentLogs(s, n)
<1>1. /\ all \in Seq(Of(s)) /\ ToSet(all) = Of(s)
      /\ \A i, j \in DOMAIN all : i < j => Newer(all[i], all[j])
  BY NewestFirstProperties
<1>2. Len(all) \in Nat /\ DOMAIN all = 1..Len(all)
  BY <1>1, LenProperties
<1>3. q = SubSeq(all, 1, IF Len(all) < n THEN Len(all) ELSE n)
  BY DEF QueryRecentLogs
<1> HIDE DEF all, q
<1>4. CASE Len(all) < n
  <2>1. q = all
    BY <1>1, <1>3, <1>4, SubSeqFull
  <2>2. /\ q \in Seq(Of(s)) /\ Len(q) <= n /\ ToSet(q) = Of(s)
        /\ \A i, j \in DOMAIN q : i < j => Newer(q[i], q[j])
    BY <1>1, <1>2, <1>4, <2>1
  <2> QED BY <2>2 DEF q
<1>5. CASE ~(Len(all) < n)
  <2>1. /\ q \in Seq(Of(s)) /\ Len(q) = n /\ \A i \in 1..n : q[i] = all[i]
    <3>1. /\ SubSeq(all, 1, n) \in Seq(Of(s)) /\ Len(SubSeq(all, 1, n)) = n - 1 + 1
          /\ \A i \in 1..(n - 1 + 1) : SubSeq(all, 1, n)[i] = all[1 + i - 1]
      BY <1>1, <1>2, <1>5, Piece
    <3> QED BY <1>3, <1>5, <3>1
  <2>2. DOMAIN q = 1..n
    BY <2>1, LenProperties
  <2>3. \A i, j \in DOMAIN q : i < j => Newer(q[i], q[j])
    BY <1>1, <1>2, <1>5, <2>1, <2>2
  <2>4. ASSUME NEW e \in Of(s), e \notin ToSet(q)
        PROVE  \A x \in ToSet(q) : Newer(x, e)
    <3>1. PICK k \in 1..Len(all) : e = all[k]
      BY <1>1, <1>2 DEF ToSet
    <3>2. k > n
      BY <2>1, <2>2, <2>4, <3>1 DEF ToSet
    <3> SUFFICES ASSUME NEW i \in 1..n PROVE Newer(q[i], e)
      BY <2>2 DEF ToSet
    <3>3. i \in DOMAIN all /\ k \in DOMAIN all /\ i < k
      BY <1>2, <1>5, <3>2
    <3> QED BY <1>1, <2>1, <3>1, <3>3
  <2> QED BY <2>1, <2>3, <2>4 DEF q
<1> QED BY <1>4, <1>5

\* A list read backwards.
LEMMA Backwards ==
  ASSUME NEW S, NEW q \in Seq(S)
  PROVE  /\ Reverse(q) \in Seq(S) /\ Len(Reverse(q)) = Len(q) /\ ToSet(Reverse(q)) = ToSet(q)
         /\ \A i \in 1..Len(q) : Len(q) - i + 1 \in 1..Len(q) /\ Reverse(q)[i] = q[Len(q) - i + 1]
<1> DEFINE n == Len(q)
           rev == Reverse(q)
<1>1. n \in Nat /\ DOMAIN q = 1..n /\ \A i \in 1..n : q[i] \in S
  BY LenProperties, ElementOfSeq
<1>2. \A i \in 1..n : n - i + 1 \in 1..n /\ n - (n - i + 1) + 1 = i
  BY <1>1
<1>3. rev = [i \in 1..n |-> q[n - i + 1]]
  BY DEF Reverse
<1> HIDE DEF rev, n
<1>4. rev \in [1..n -> S] /\ \A i \in 1..n : rev[i] = q[n - i + 1]
  BY <1>1, <1>2, <1>3
<1>5. rev \in Seq(S) /\ Len(rev) = n
  BY <1>1, <1>4
<1>6. ToSet(rev) = ToSet(q)
  <2>1. DOMAIN rev = 1..n
    BY <1>3
  <2>2. ASSUME NEW i \in 1..n PROVE q[i] \in ToSet(rev)
    <3>1. n - i + 1 \in DOMAIN rev /\ rev[n - i + 1] = q[i]
      BY <1>2, <1>4, <2>1
    <3> QED BY <3>1 DEF ToSet
  <2>3. \A i \in 1..n : rev[i] \in ToSet(q)
    BY <1>1, <1>2, <1>4 DEF ToSet
  <2> QED BY <1>1, <2>1, <2>2, <2>3 DEF ToSet
<1> QED BY <1>2, <1>4, <1>5, <1>6 DEF rev, n

\* What only takes lines away leaves the cache as complete as it was.
LEMMA CacheFrame ==
  ASSUME CacheInv, UNCHANGED <<cache, cold, warmed, logged>>, Lines' \subseteq Lines
  PROVE  CacheInv'
<1>1. \A s \in Services : CacheOf(s) => CacheOf(s)'
  BY DEF CacheOf, InPlace, Earlier
<1> QED BY <1>1 DEF CacheInv

\* A line reaches the cache whether it reaches the table or not, and is the last there.
LEMMA CacheAfterLog ==
  ASSUME TablesInv, CacheInv, NEW s \in Services, NEW kind \in Kinds,
         NEW ts \in {now - 1, now} \ {0}, Log(s, kind, ts)
  PROVE  CacheInv'
<1> DEFINE row == [id |-> logged + 1, service |-> s, session |-> client[s], ts |-> ts,
                   stream |-> kind.stream, level |-> LevelOf(kind), text |-> kind.text]
           EntriesOf(t, n) == {r \in Row : r.service = t /\ r.id <= n}
<1>1. /\ cache' = [cache EXCEPT ![row.service] = Newest(Append(@, row))]
      /\ pending' \in {pending, pending \cup {row}} /\ logged' = logged + 1
      /\ UNCHANGED <<events, cold, warmed>>
  BY DEF Log, CacheAdd
<1>2. row \in Row /\ row.service = s /\ row.id = logged + 1
  <2>1. row \in Row
    BY LoggedRow DEF Log
  <2> QED BY <2>1
<1> HIDE DEF row
<1>3. logged \in Nat /\ warmed <= logged /\ warmed \in Nat
  BY QueriesAssumption DEF TablesInv, LineTypes
<1>4. \A r \in Row : r.id \in Nat
  <2>1. \A r \in Row : r.id \in 1..MaxLines
    BY DEF Row
  <2>2. MaxLines \in Nat
    BY QueriesAssumption
  <2> QED BY <2>1, <2>2
<1>5. /\ cache' = [t \in Services |-> cache'[t]] /\ cache'[s] = Newest(Append(cache[s], row))
      /\ \A t \in Services \ {s} : cache'[t] = cache[t]
  BY <1>1, <1>2 DEF CacheInv
<1>6. \A a \in Row : a.id <= logged => Earlier(a, row)
  BY <1>2, <1>3, <1>4 DEF Earlier
<1>7. \A a, b : Earlier(a, b)' <=> Earlier(a, b)
  BY <1>1 DEF Earlier
<1>8. \A e \in Lines' : e = row \/ e \in Lines
  BY <1>1 DEF Lines
<1>9. CacheOf(s)'
  <2> DEFINE q == cache[s]
             r == cache'[s]
             d == IF Len(q) = CacheSize THEN 1 ELSE 0
  <2>1. CacheOf(s)
    BY DEF CacheInv
  <2>2. q \in Seq(EntriesOf(s, logged)) /\ Len(q) <= CacheSize
    BY <2>1 DEF CacheOf
  <2>3. q \in Seq(EntriesOf(s, logged + 1)) /\ row \in EntriesOf(s, logged + 1)
    <3>1. EntriesOf(s, logged) \subseteq EntriesOf(s, logged + 1)
      BY <1>3, <1>4
    <3>2. row \in EntriesOf(s, logged + 1)
      BY <1>2, <1>3
    <3> HIDE DEF EntriesOf
    <3>3. \A i \in 1..Len(q) : q[i] \in EntriesOf(s, logged + 1)
      BY <2>2, <3>1, ElementOfSeq
    <3>4. q \in [1..Len(q) -> EntriesOf(s, logged + 1)] /\ Len(q) \in Nat
      BY <2>2, <3>3, LenProperties
    <3> QED BY <3>2, <3>4
  <2>4. /\ r \in Seq(EntriesOf(s, logged + 1)) /\ Len(r) = Len(q) + 1 - d
        /\ \A i \in 1..Len(r) : r[i] = IF i + d = Len(q) + 1 THEN row ELSE q[i + d]
    <3> HIDE DEF EntriesOf, q, r
    <3>1. LET e == Newest(Append(q, row))
              c == IF Len(q) = CacheSize THEN 1 ELSE 0
          IN  /\ e \in Seq(EntriesOf(s, logged + 1)) /\ Len(e) = Len(q) + 1 - c
              /\ \A i \in 1..Len(e) : e[i] = IF i + c = Len(q) + 1 THEN row ELSE q[i + c]
      BY <2>2, <2>3, RingBuffer
    <3>2. r = Newest(Append(q, row))
      BY <1>5 DEF r, q
    <3> QED BY <3>1, <3>2
  <2>5. /\ DOMAIN q = 1..Len(q) /\ DOMAIN r = 1..Len(r)
        /\ \A i \in 1..Len(q) : q[i] \in Row /\ q[i].id <= logged
    <3>1. DOMAIN q = 1..Len(q) /\ \A i \in 1..Len(q) : q[i] \in EntriesOf(s, logged)
      BY <2>2, LenProperties, ElementOfSeq
    <3> QED BY <2>2, <2>4, <3>1, LenProperties
  <2>6. /\ CacheSize \in Nat \ {0} /\ d \in Int /\ 0 <= d /\ d <= 1
        /\ Len(q) \in Nat /\ Len(r) \in Nat /\ Len(r) >= 1
        /\ Len(r) = Len(q) + 1 - d /\ Len(r) <= CacheSize
        /\ (Len(q) = CacheSize => d = 1 /\ Len(r) = CacheSize) /\ (Len(q) # CacheSize => d = 0)
    <3>1. CacheSize \in Nat \ {0}
      BY QueriesAssumption
    <3>2. Len(q) <= CacheSize /\ Len(q) \in Nat /\ Len(r) = Len(q) + 1 - d
      BY <2>2, <2>4, <2>5
    <3> HIDE DEF q, r
    <3> QED BY <3>1, <3>2
  <2>7. \A i, j \in DOMAIN q : i < j => Earlier(q[i], q[j])
    BY <2>1 DEF CacheOf
  <2> HIDE DEF q, r, d, EntriesOf
  <2>8. \A i \in 1..Len(r) : r[i] = IF i + d = Len(q) + 1 THEN row ELSE q[i + d]
    BY <2>4
  <2>9. ASSUME NEW i \in DOMAIN r, NEW j \in DOMAIN r, i < j
        PROVE  Earlier(r[i], r[j])
    <3>0. i \in 1..Len(r) /\ j \in 1..Len(r)
      BY <2>5, <2>9
    <3>1. i + d \in 1..Len(q) /\ r[i] = q[i + d]
      BY <2>8, <2>6, <2>9, <3>0
    <3>2. CASE j + d = Len(q) + 1
      BY <1>6, <2>8, <2>5, <3>1, <3>2
    <3>3. CASE j + d # Len(q) + 1
      <4>1. j + d \in 1..Len(q) /\ r[j] = q[j + d] /\ i + d < j + d
        <5>1. i + d < j + d /\ j + d \in 1..Len(q)
          BY <2>6, <2>9, <3>0, <3>3
        <5> QED BY <2>8, <3>0, <3>3, <5>1
      <4> QED BY <2>5, <2>7, <3>1, <4>1
    <3> QED BY <3>2, <3>3
  <2>10. row \in ToSet(r) /\ \A x \in ToSet(r) : x = row \/ x \in ToSet(q)
    <3>1. Len(r) \in DOMAIN r /\ r[Len(r)] = row
      <4>1. Len(r) \in 1..Len(r) /\ Len(r) + d = Len(q) + 1
        BY <2>6
      <4> QED BY <2>8, <2>5, <4>1
    <3>2. \A i \in 1..Len(r) : r[i] = row \/ (i + d \in 1..Len(q) /\ r[i] = q[i + d])
      BY <2>8, <2>6
    <3> QED BY <2>5, <3>1, <3>2 DEF ToSet
  <2>11. ASSUME NEW a \in Lines, a \in ToSet(q)
         PROVE  \/ a \in ToSet(r)
                \/ Len(r) = CacheSize /\ \A x \in ToSet(r) : Earlier(a, x)
    <3>1. PICK k \in 1..Len(q) : a = q[k]
      BY <2>5, <2>11 DEF ToSet
    <3>0. k \in Int /\ 1 <= k /\ k <= Len(q)
      BY <2>6
    <3>2. CASE k - d \in 1..Len(r)
      <4>1. r[k - d] = q[k]
        <5>1. (k - d) + d = k /\ k # Len(q) + 1
          BY <2>6, <3>0
        <5> QED BY <2>8, <3>2, <5>1
      <4> QED BY <2>5, <3>1, <3>2, <4>1 DEF ToSet
    <3>3. CASE k - d \notin 1..Len(r)
      <4>1. k = 1 /\ d = 1 /\ Len(q) = CacheSize
        BY <2>6, <3>0, <3>3
      <4>2. ASSUME NEW i \in DOMAIN r PROVE Earlier(a, r[i])
        <5>1. CASE i + d = Len(q) + 1
          BY <1>6, <2>8, <2>5, <3>1, <5>1
        <5>2. CASE i + d # Len(q) + 1
          <6>0. i \in 1..Len(r)
            BY <2>5
          <6>1. i + d \in 1..Len(q) /\ r[i] = q[i + d] /\ k < i + d
            BY <2>8, <2>6, <4>1, <5>2, <6>0
          <6> QED BY <2>5, <2>7, <3>1, <6>1
        <5> QED BY <5>1, <5>2
      <4> QED BY <2>6, <4>1, <4>2 DEF ToSet
    <3> QED BY <3>2, <3>3
  <2>12. ASSUME AgesPositive, NEW e \in Lines', e.service = s, s \in cold' => e.id > warmed'
         PROVE  InPlace(s, e)'
    <3>1. CASE e = row
      BY <2>10, <3>1 DEF InPlace, r
    <3>2. CASE e \in Lines
      <4>1. InPlace(s, e)
        BY <1>1, <2>1, <2>12, <3>2 DEF CacheOf
      <4>2. CASE e \in ToSet(q)
        BY <1>7, <2>11, <3>2, <4>2 DEF InPlace, r
      <4>3. CASE e \notin ToSet(q)
        <5>1. Len(q) = CacheSize /\ \A x \in ToSet(q) : Earlier(e, x)
          BY <4>1, <4>3 DEF InPlace, q
        <5>2. Earlier(e, row)
          BY <1>6, <3>2 DEF TablesInv, LineTypes, Written
        <5> QED BY <1>7, <2>6, <2>10, <5>1, <5>2 DEF InPlace, r
      <4> QED BY <4>2, <4>3
    <3> QED BY <1>8, <2>12, <3>1, <3>2
  <2>13. r \in Seq({x \in Row : x.service = s /\ x.id <= logged'})
    BY <1>1, <2>4 DEF EntriesOf
  <2> QED BY <1>7, <2>6, <2>9, <2>12, <2>13 DEF CacheOf, r
<1>10. ASSUME NEW t \in Services \ {s} PROVE CacheOf(t)'
  <2>1. CacheOf(t) /\ cache'[t] = cache[t]
    BY <1>5 DEF CacheInv
  <2>2. \A e \in Lines' : e.service = t => e \in Lines
    BY <1>2, <1>8
  <2>3. cache[t] \in Seq({x \in Row : x.service = t /\ x.id <= logged'})
    <3>1. cache[t] \in Seq({x \in Row : x.service = t /\ x.id <= logged})
      BY <2>1 DEF CacheOf
    <3>2. \A x \in Row : x.id <= logged => x.id <= logged'
      BY <1>1, <1>3, <1>4
    <3>3. {x \in Row : x.service = t /\ x.id <= logged} \subseteq
            {x \in Row : x.service = t /\ x.id <= logged'}
      BY <3>2
    <3>4. \A i \in 1..Len(cache[t]) : cache[t][i] \in {x \in Row : x.service = t /\ x.id <= logged'}
      BY <3>1, <3>3, ElementOfSeq
    <3> HIDE DEF EntriesOf
    <3>5. cache[t] \in [1..Len(cache[t]) -> {x \in Row : x.service = t /\ x.id <= logged'}]
          /\ Len(cache[t]) \in Nat
      BY <3>1, <3>4, LenProperties
    <3> QED BY <3>5
  <2> QED BY <1>1, <1>7, <2>1, <2>2, <2>3 DEF CacheOf, InPlace
<1> QED BY <1>1, <1>5, <1>9, <1>10 DEF CacheInv

\* warmCache reads what the tables have.
LEMMA CacheAfterRestart ==
  ASSUME TablesInv, CacheInv, NEW p \in Projects, Restart(p)
  PROVE  CacheInv'
<1>1. events' = events /\ pending' = {} /\ logged' = logged
  BY DEF Restart
<1>2. PICK failing \in SUBSET QueryServices : WarmCache(failing)
  BY DEF Restart
<1> DEFINE list(s) == Reverse(QueryRecentLogs(s, CacheSize))
<1>3. /\ cache' = [s \in Services |-> IF s \in QueryServices \ failing THEN list(s) ELSE <<>>]
      /\ cold' = {s \in failing : Of(s) # {}} /\ warmed' = logged
  BY <1>2 DEF WarmCache
<1>4. QueryServices \subseteq Services
  BY DEF QueryServices, TablesInv, SessionTypes
<1>5. CacheSize \in Nat \ {0}
  BY QueriesAssumption
<1>6. /\ \A e \in events : e \in Row /\ e.id <= logged
      /\ Lines' = events /\ \A s : Rows(Of(s))
  BY <1>1, SubsetOfRows DEF TablesInv, LineTypes, Written, Lines, Of
<1> DEFINE EarlierNow(a, b) == a.id <= warmed' /\ ~(b.id > warmed') /\ Newer(b, a)
<1>7. \A a, b \in events : Newer(b, a) => EarlierNow(a, b)
  <2>1. \A e \in events : e.id \in Int /\ e.id <= logged
    BY DEF TablesInv, LineTypes, Rows, Written, Lines
  <2>2. logged \in Int
    BY DEF TablesInv, LineTypes
  <2> QED BY <1>3, <2>1, <2>2
<1> HIDE DEF EarlierNow
<1>8. ASSUME NEW s \in Services, s \in QueryServices \ failing
      PROVE  CacheOf(s)'
  <2> DEFINE q == QueryRecentLogs(s, CacheSize)
             n == Len(q)
             rev == Reverse(q)
  <2>1. /\ q \in Seq(Of(s)) /\ n <= CacheSize
        /\ \A i, j \in DOMAIN q : i < j => Newer(q[i], q[j])
        /\ \A e \in Of(s) :
             e \in ToSet(q) \/ (n = CacheSize /\ \A x \in ToSet(q) : Newer(x, e))
    BY <1>5, <1>6, RecentRows
  <2> HIDE DEF q
  <2>2. /\ rev \in Seq(Of(s)) /\ Len(rev) = n /\ ToSet(rev) = ToSet(q)
        /\ \A i \in 1..n : n - i + 1 \in 1..n /\ rev[i] = q[n - i + 1]
    BY <2>1, Backwards
  <2>3. /\ n \in Nat /\ DOMAIN q = 1..n /\ DOMAIN rev = 1..n
        /\ \A i \in 1..n : q[i] \in events
    <3>1. DOMAIN q = 1..n /\ n \in Nat /\ \A i \in 1..n : q[i] \in Of(s)
      BY <2>1, LenProperties, ElementOfSeq
    <3>2. DOMAIN rev = 1..n
      BY <2>2, LenProperties
    <3> QED BY <3>1, <3>2 DEF Of
  <2>4. cache'[s] = rev
    BY <1>3, <1>8 DEF q
  <2> HIDE DEF rev, n
  <2>5. ASSUME NEW i \in 1..n, NEW j \in 1..n, i < j
        PROVE  EarlierNow(rev[i], rev[j])
    <3>1. n - j + 1 < n - i + 1 /\ n - j + 1 \in 1..n /\ n - i + 1 \in 1..n
      BY <2>2, <2>3, <2>5
    <3>2. Newer(q[n - j + 1], q[n - i + 1])
      BY <2>1, <2>3, <3>1
    <3>3. q[n - j + 1] \in events /\ q[n - i + 1] \in events
      BY <2>3, <3>1
    <3> QED BY <1>7, <2>2, <3>2, <3>3
  <2>6. ASSUME NEW e \in events, e.service = s
        PROVE  \/ e \in ToSet(rev)
               \/ n = CacheSize /\ \A x \in ToSet(rev) : EarlierNow(e, x)
    <3>1. e \in Of(s) /\ \A x \in ToSet(rev) : x \in events
      <4>1. \A x \in ToSet(q) : x \in events
        BY <2>3 DEF ToSet
      <4> QED BY <2>2, <2>6, <4>1 DEF Of
    <3> QED BY <1>7, <2>1, <2>2, <3>1
  <2>7. rev \in Seq({r \in Row : r.service = s /\ r.id <= logged'})
    <3>1. \A i \in 1..n : rev[i] \in {r \in Row : r.service = s /\ r.id <= logged'}
      <4>1. \A i \in 1..n : rev[i] \in Of(s)
        BY <2>2, ElementOfSeq
      <4> QED BY <1>1, <1>6, <4>1 DEF Of
    <3>2. rev \in [1..n -> {r \in Row : r.service = s /\ r.id <= logged'}]
      BY <2>2, <2>3, <3>1
    <3> QED BY <2>3, <3>2
  <2>8. \A i, j \in DOMAIN cache'[s] : i < j => EarlierNow(cache'[s][i], cache'[s][j])
    BY <2>3, <2>4, <2>5
  <2>9. \A e \in Lines' : e.service = s =>
          \/ e \in ToSet(cache'[s])
          \/ Len(cache'[s]) = CacheSize /\ \A x \in ToSet(cache'[s]) : EarlierNow(e, x)
    BY <1>6, <2>2, <2>4, <2>6
  <2> QED
    BY <2>1, <2>2, <2>4, <2>7, <2>8, <2>9 DEF CacheOf, InPlace, Earlier, EarlierNow
<1>9. ASSUME NEW s \in Services, s \notin QueryServices \ failing
      PROVE  CacheOf(s)'
  <2>1. cache'[s] = <<>>
    BY <1>3, <1>9
  <2>2. ASSUME AgesPositive, NEW e \in Lines', e.service = s
        PROVE  s \in cold' /\ ~(e.id > warmed')
    <3>1. e \in events /\ e \in Of(s) /\ e.id <= logged
      BY <1>6, <2>2 DEF Of
    <3>2. s \in QueryServices
      BY <2>2, <3>1 DEF TablesInv, LinesInSessions, LineInSession, QueryServices, Lines
    <3>3. e.id \in Int /\ logged \in Int
      BY <3>1 DEF TablesInv, LineTypes, Rows, Lines
    <3> QED BY <1>3, <1>9, <3>1, <3>2, <3>3
  <2>3. /\ <<>> \in Seq({r \in Row : r.service = s /\ r.id <= logged'})
        /\ Len(<<>>) <= CacheSize /\ DOMAIN <<>> = {}
    BY <1>5
  <2> QED BY <2>1, <2>2, <2>3 DEF CacheOf
<1>10. cold' \subseteq Services /\ cache' = [s \in Services |-> cache'[s]]
  BY <1>3, <1>4
<1> QED BY <1>8, <1>9, <1>10 DEF CacheInv

LEMMA CacheStep ==
  ASSUME TablesInv, CacheInv, [Next]_vars
  PROVE  CacheInv'
<1>1. CASE RetentionLoop \/ \E p \in Projects, days \in DayFlags : PruneCommand(p, days)
  <2>1. PICK age \in InForce : age \in Int /\ PruneByAge(age)
    BY <1>1, AgeInForce DEF TablesInv
  <2>2. UNCHANGED <<cache, cold, warmed, logged>> /\ Lines' \subseteq Lines
    BY <2>1 DEF PruneByAge, cacheVars, Lines
  <2> QED BY <2>2, CacheFrame
<1>2. CASE \/ Tick \/ UNCHANGED vars
           \/ \E s \in Services : RegisterSession(s) \/ EndSession(s)
  <2>1. UNCHANGED <<cache, cold, warmed, logged, events, pending>>
    BY <1>2 DEF Tick, vars, tableVars, cacheVars, RegisterSession, EndSession
  <2> QED BY <2>1, CacheFrame DEF Lines
<1>3. CASE Flush
  <2>1. UNCHANGED <<cache, cold, warmed, logged>>
    BY <1>3 DEF Flush, cacheVars
  <2> QED BY <1>3, <2>1, FlushTables, CacheFrame
<1> QED BY <1>1, <1>2, <1>3, CacheAfterLog, CacheAfterRestart DEF Next

\* What the theorems on the cache rest on.
LEMMA CacheInvariant == Spec => [](TablesInv /\ CacheInv)
<1>1. Init => CacheInv
  <2> SUFFICES ASSUME Init PROVE CacheInv
    OBVIOUS
  <2>1. CacheSize \in Nat \ {0}
    BY QueriesAssumption
  <2>2. Lines = {} /\ cold = {} /\ cache = [s \in Services |-> <<>>]
    BY DEF Init, Lines
  <2>3. ASSUME NEW s \in Services PROVE CacheOf(s)
    <3>1. cache[s] = <<>>
      BY <2>2
    <3>2. /\ <<>> \in Seq({r \in Row : r.service = s /\ r.id <= logged})
          /\ Len(<<>>) <= CacheSize /\ DOMAIN <<>> = {}
      BY <2>1
    <3> QED BY <2>2, <3>1, <3>2 DEF CacheOf
  <2> QED BY <2>2, <2>3 DEF CacheInv
<1>2. TablesInv /\ CacheInv /\ [Next]_vars => (TablesInv /\ CacheInv)'
  BY TablesStep, CacheStep
<1> QED BY TablesInitially, <1>1, <1>2, PTL DEF Spec

\* The types, the session ids that are given out, and a cache that holds for each service no
\* more lines than its ring buffer takes, and none of another service (CacheAdd, WarmCache).
THEOREM TypeCorrect == Spec => []TypeOK
<1>1. TablesInv /\ CacheInv => TypeOK
  <2> SUFFICES ASSUME TablesInv, CacheInv PROVE TypeOK
    OBVIOUS
  <2>1. retention \in File
    BY LoadedFile DEF TablesInv, Configured
  <2>2. /\ now \in 1..MaxTime /\ seq \in 0..MaxRuns /\ DOMAIN sessions \subseteq 1..seq
        /\ \A id \in DOMAIN sessions :
             sessions[id] \in [service : Services, started : 1..now, ended : 0..now]
        /\ logged \in 0..MaxLines /\ warmed \in 0..logged
        /\ \A e \in events \cup pending : e \in Row /\ e.ts <= now /\ e.id <= logged
        /\ \A s \in Services : client[s] \in 0..seq
    BY DEF TablesInv, SessionTypes, LineTypes, Written, Lines
  <2>3. ASSUME NEW s \in Services
        PROVE  Len(cache[s]) <= CacheSize /\ \A i \in DOMAIN cache[s] : cache[s][i].service = s
    <3>1. /\ cache[s] \in Seq({r \in Row : r.service = s /\ r.id <= logged})
          /\ Len(cache[s]) <= CacheSize
      BY DEF CacheInv, CacheOf
    <3>2. \A i \in DOMAIN cache[s] : cache[s][i] \in {r \in Row : r.service = s /\ r.id <= logged}
      BY <3>1, LenProperties, ElementOfSeq
    <3> QED BY <3>1, <3>2
  <2> QED BY <2>1, <2>2, <2>3 DEF TypeOK, CacheInv
<1> QED BY <1>1, CacheInvariant, PTL

-----------------------------------------------------------------------------
(* The answers. *)

\* What a request for recent lines asks for.
RecentSize(r) == IF r.limit = 0 THEN 100 ELSE r.limit

\* Such a request is answered from the cache, with as many of the last entries as it may get.
LEMMA RecentAnswer ==
  ASSUME CacheInv, NEW r \in Requests, r.command = "recent"
  PROVE  LET a == Answer(r)
             c == cache[r.service]
         IN  IF a.error THEN Size(r) > ReplyLimit
             ELSE \E d \in Nat :
                    /\ Len(a.rows) \in Nat /\ DOMAIN a.rows = 1..Len(a.rows)
                    /\ Len(a.rows) = Len(c) - d
                    /\ \A i \in 1..Len(a.rows) : a.rows[i] = c[i + d]
                    /\ d > 0 \/ Len(c) = CacheSize => Len(a.rows) = Size(r)
<1> DEFINE c == cache[r.service]
           S == {x \in Row : x.service = r.service /\ x.id <= logged}
           limit == RecentSize(r)
           msg == IF r.via = "cli" THEN CliMessage(r) ELSE McpMessage(r)
           rows == Recent(r.service, limit)
           d == IF limit < Len(c) THEN Len(c) - limit ELSE 0
<1>1. /\ r.via \in {"cli", "mcp"} /\ r.service \in Services
      /\ r.since = 0 /\ r.limit \in 0..CacheSize
  BY DEF Requests, Unset
<1>2. CacheSize \in Nat \ {0} /\ ReplyLimit \in Nat
  BY QueriesAssumption
<1>3. limit \in Nat \ {0} /\ Size(r) = IF limit < CacheSize THEN limit ELSE CacheSize
  BY <1>1, <1>2 DEF Size, RecentSize
<1>4. c \in Seq(S) /\ Len(c) <= CacheSize /\ Len(c) \in Nat
  <2>1. c \in Seq(S) /\ Len(c) <= CacheSize
    BY <1>1 DEF CacheInv, CacheOf
  <2> HIDE DEF S, c
  <2> QED BY <2>1, LenProperties
<1>5. msg.command = "recent" /\ msg.service = r.service /\ msg.limit = limit
  BY DEF CliMessage, McpMessage, RecentSize
<1>6. ~Refused(r)
  BY <1>1 DEF Refused, Bad
<1> HIDE DEF msg, limit, c, S
<1>7. handleQuery(msg) = rows
  <2>1. ~(limit <= 0)
    BY <1>3
  <2>2. handleQuery(msg) = Recent(msg.service, IF msg.limit <= 0 THEN 100 ELSE msg.limit)
    BY <1>5 DEF handleQuery
  <2> QED BY <1>5, <2>1, <2>2
<1>8. Answer(r) = IF Len(rows) > ReplyLimit THEN Failure ELSE [error |-> FALSE, rows |-> rows]
  BY <1>6, <1>7 DEF Answer, Reply, msg
<1>9. rows = SubSeq(c, IF limit < Len(c) THEN Len(c) - limit + 1 ELSE 1, Len(c))
  BY DEF Recent, c
<1>10. /\ d \in Nat /\ rows \in Seq(S) /\ Len(rows) = Len(c) - d
       /\ \A i \in 1..Len(rows) : rows[i] = c[i + d]
  <2>1. /\ d \in Nat /\ d + 1 \in Int /\ 1 <= d + 1 /\ d + 1 <= Len(c) + 1
        /\ Len(c) - (d + 1) + 1 = Len(c) - d
    BY <1>3, <1>4
  <2>2. rows = SubSeq(c, d + 1, Len(c))
    <3>1. (IF limit < Len(c) THEN Len(c) - limit + 1 ELSE 1) = d + 1
      BY <1>3, <1>4
    <3> HIDE DEF d, rows
    <3> QED BY <1>9, <3>1
  <2> HIDE DEF d, rows
  <2>3. /\ rows \in Seq(S) /\ Len(rows) = Len(c) - (d + 1) + 1
        /\ \A i \in 1..(Len(c) - (d + 1) + 1) : rows[i] = c[d + 1 + i - 1]
    <3>1. LET e == SubSeq(c, d + 1, Len(c))
          IN  /\ e \in Seq(S) /\ Len(e) = Len(c) - (d + 1) + 1
              /\ \A i \in 1..(Len(c) - (d + 1) + 1) : e[i] = c[d + 1 + i - 1]
      <4>1. Len(c) \in Int /\ Len(c) <= Len(c)
        BY <1>4
      <4> QED BY <1>4, <2>1, <4>1, Piece
    <3> QED BY <2>2, <3>1
  <2>4. \A i \in Int : d + 1 + i - 1 = i + d
    BY <2>1
  <2>5. Len(rows) = Len(c) - d /\ \A i \in 1..Len(rows) : i \in Int
    BY <1>4, <2>1, <2>3
  <2> QED BY <2>1, <2>3, <2>4, <2>5
<1>11. /\ Len(rows) \in Nat /\ DOMAIN rows = 1..Len(rows) /\ Len(rows) <= Size(r)
       /\ d > 0 \/ Len(c) = CacheSize => Len(rows) = Size(r)
  <2>1. Len(rows) \in Nat /\ DOMAIN rows = 1..Len(rows)
    BY <1>10, LenProperties
  <2>2. Len(rows) = Len(c) - d
    BY <1>10
  <2>3. /\ limit < Len(c) => d = Len(c) - limit
        /\ ~(limit < Len(c)) => d = 0
    BY <1>3, <1>4
  <2> HIDE DEF rows, d
  <2>4. CASE limit < Len(c)
    <3>1. Len(rows) = limit /\ limit < CacheSize
      BY <1>2, <1>3, <1>4, <2>2, <2>3, <2>4
    <3> QED BY <1>2, <1>3, <2>1, <3>1
  <2>5. CASE ~(limit < Len(c))
    <3>1. Len(rows) = Len(c) /\ d = 0 /\ Len(c) <= limit
      BY <1>3, <1>4, <2>2, <2>3, <2>5
    <3>2. Size(r) = (IF limit < CacheSize THEN limit ELSE CacheSize) /\ limit \in Nat
      BY <1>3
    <3>3. Len(c) <= CacheSize /\ Len(c) \in Nat /\ CacheSize \in Nat
      BY <1>2, <1>4
    <3>4. Len(rows) <= Size(r) /\ (Len(c) = CacheSize => Len(rows) = Size(r))
      BY <3>1, <3>2, <3>3
    <3>5. ~(d > 0)
      BY <3>1
    <3> QED BY <2>1, <3>4, <3>5
  <2> QED BY <2>4, <2>5
<1> HIDE DEF rows, d
<1>12. CASE Len(rows) > ReplyLimit
  <2>1. Answer(r).error /\ Size(r) \in Nat
    BY <1>2, <1>3, <1>8, <1>12 DEF Failure
  <2> QED BY <1>2, <1>11, <1>12, <2>1
<1>13. CASE ~(Len(rows) > ReplyLimit)
  <2>1. ~Answer(r).error /\ Answer(r).rows = rows
    BY <1>8, <1>13
  <2> QED BY <1>10, <1>11, <2>1 DEF c
<1> QED BY <1>12, <1>13

\* Unless an age reaches into the future, devlog recent shows the stored lines, and of those
\* that are too many the latest, whichever broker has handled them: every stored line leads
\* warmCache to its service, the ring buffer loses its oldest entry only to a later one, and
\* nothing in the cache is out of order.
THEOREM RecentLinesAreShown == Spec => []RecentShowsStored
<1>1. TablesInv /\ CacheInv => RecentShowsStored
  <2> SUFFICES ASSUME TablesInv, CacheInv, AgesPositive,
                      NEW r \in Requests, r.command = "recent"
               PROVE  LET a == Answer(r)
                          shown == ToSet(a.rows)
                          stored == {e \in Of(r.service) : r.service \in cold => e.id > warmed}
                      IN  IF a.error THEN Size(r) > ReplyLimit
                          ELSE /\ \A i, j \in DOMAIN a.rows : i < j => Earlier(a.rows[i], a.rows[j])
                               /\ \A e \in stored \ shown :
                                    Len(a.rows) = Size(r) /\ \A x \in shown : Earlier(e, x)
    BY DEF RecentShowsStored
  <2> DEFINE a == Answer(r)
             c == cache[r.service]
  <2>1. CASE a.error
    BY <2>1, RecentAnswer
  <2>2. CASE ~a.error
    <3>1. PICK d \in Nat :
            /\ Len(a.rows) \in Nat /\ DOMAIN a.rows = 1..Len(a.rows)
            /\ Len(a.rows) = Len(c) - d
            /\ \A i \in 1..Len(a.rows) : a.rows[i] = c[i + d]
            /\ d > 0 \/ Len(c) = CacheSize => Len(a.rows) = Size(r)
      BY <2>2, RecentAnswer
    <3>2. r.service \in Services
      BY DEF Requests
    <3>3. CacheOf(r.service)
      BY <3>2 DEF CacheInv
    <3>4. /\ Len(c) \in Nat /\ DOMAIN c = 1..Len(c)
          /\ \A i, j \in DOMAIN c : i < j => Earlier(c[i], c[j])
      <4>1. c \in Seq({x \in Row : x.service = r.service /\ x.id <= logged})
        BY <3>3 DEF CacheOf
      <4> QED BY <3>3, <4>1, LenProperties DEF CacheOf
    <3>5. \A e \in Of(r.service) :
            (r.service \in cold => e.id > warmed) => InPlace(r.service, e)
      BY <3>3 DEF CacheOf, Lines, Of
    <3> HIDE DEF a, c
    <3>6. /\ Len(a.rows) \in Nat /\ Len(c) \in Nat /\ Len(a.rows) = Len(c) - d
          /\ DOMAIN a.rows = 1..Len(a.rows)
      BY <3>1, <3>4
    <3>7. \A i \in 1..Len(a.rows) : i + d \in 1..Len(c)
      BY <3>6
    <3>8. ASSUME NEW i \in DOMAIN a.rows, NEW j \in DOMAIN a.rows, i < j
          PROVE  Earlier(a.rows[i], a.rows[j])
      <4>1. i \in 1..Len(a.rows) /\ j \in 1..Len(a.rows)
        BY <3>1
      <4>2. i + d < j + d
        BY <3>1, <3>8, <4>1
      <4> QED BY <3>1, <3>4, <3>7, <4>1, <4>2
    <3>9. \A x \in ToSet(a.rows) : \E i \in 1..Len(a.rows) : x = c[i + d] /\ x \in ToSet(c)
      BY <3>1, <3>4, <3>7 DEF ToSet
    <3>10. ASSUME NEW e \in Of(r.service), r.service \in cold => e.id > warmed,
                 e \notin ToSet(a.rows)
          PROVE  Len(a.rows) = Size(r) /\ \A x \in ToSet(a.rows) : Earlier(e, x)
      <4>1. CASE e \in ToSet(c)
        <5>1. PICK k \in 1..Len(c) : e = c[k]
          BY <3>4, <4>1 DEF ToSet
        <5>2. k \in Int /\ 1 <= k /\ k <= Len(c)
          BY <3>4
        <5>3. ~(k > d)
          <6> SUFFICES ASSUME k > d PROVE FALSE
            OBVIOUS
          <6>1. k - d \in 1..Len(a.rows) /\ (k - d) + d = k
            BY <3>6, <5>2
          <6>2. a.rows[k - d] = e
            BY <3>1, <5>1, <6>1
          <6> QED BY <3>1, <3>10, <6>1, <6>2 DEF ToSet
        <5>4. Len(a.rows) = Size(r)
          BY <3>1, <5>2, <5>3
        <5>5. ASSUME NEW x \in ToSet(a.rows) PROVE Earlier(e, x)
          <6>1. PICK i \in 1..Len(a.rows) : x = c[i + d]
            BY <3>9
          <6>2. k < i + d /\ i + d \in 1..Len(c)
            BY <3>1, <3>7, <5>2, <5>3
          <6> QED BY <3>4, <5>1, <6>1, <6>2
        <5> QED BY <5>4, <5>5
      <4>2. CASE e \notin ToSet(c)
        <5>1. Len(c) = CacheSize /\ \A x \in ToSet(c) : Earlier(e, x)
          BY <3>5, <3>10, <4>2 DEF InPlace, c
        <5> QED BY <3>1, <3>9, <5>1
      <4> QED BY <4>1, <4>2
    <3> QED BY <2>2, <3>8, <3>10 DEF a
  <2> QED BY <2>1, <2>2
<1> QED BY <1>1, CacheInvariant, PTL

\* What a search or a query for errors selects: every line that is meant, and no other unless
\* the request is widened. LIKE finds the word, the bound is the hour meant, and the level of
\* a line tells an error from the rest.
LEMMA LineSelection ==
  ASSUME TablesInv, NEW r \in LineRequests
  PROVE  LET msg == IF r.via = "cli" THEN CliMessage(r) ELSE McpMessage(r)
         IN  \E found \in SUBSET Of(r.service) :
               /\ handleQuery(msg) = NewestFirst(found)
               /\ Meant(r) \subseteq found /\ (~Widened(r) => found = Meant(r))
<1> DEFINE msg == IF r.via = "cli" THEN CliMessage(r) ELSE McpMessage(r)
           bound == msg.since
<1>1. /\ r \in Requests /\ r.command \in {"search", "errors"} /\ ~Refused(r)
      /\ r.via \in {"cli", "mcp"} /\ r.since \in {Unset, Bad} \cup Durations \cup Dates
  BY DEF LineRequests, Requests
<1>2. r.since \in Int /\ now \in Int
  BY <1>1, QueriesAssumption DEF Unset, Bad, TablesInv, SessionTypes
<1>3. msg.command = r.command /\ msg.service = r.service /\ msg.query = r.query
  BY DEF CliMessage, McpMessage
<1>4. bound \in Int /\ (bound = From(r) \/ (bound = 0 /\ Widened(r)))
  <2>1. CASE r.via = "cli"
    <3>1. bound = parseSince(r.since)
      BY <2>1 DEF CliMessage
    <3>2. CASE r.since = Unset
      <4>1. bound = 0
        BY <3>1, <3>2 DEF parseSince, defaultSince
      <4>2. r.command = "errors" \/ From(r) = 0
        BY <1>1, <3>2 DEF From
      <4>3. r.command = "errors" => Widened(r)
        BY <2>1, <3>2 DEF Widened
      <4> QED BY <4>1, <4>2, <4>3
    <3>3. CASE r.since = Bad
      <4>1. bound = 0
        BY <3>1, <3>3 DEF parseSince, Unset, Bad
      <4> QED BY <2>1, <3>3, <4>1 DEF Widened
    <3>4. CASE r.since # Unset /\ r.since # Bad
      <4>1. bound = now - r.since /\ From(r) = now - r.since
        BY <2>1, <3>1, <3>4 DEF parseSince, From
      <4> QED BY <1>2, <4>1
    <3> QED BY <3>2, <3>3, <3>4
  <2>2. CASE r.via = "mcp"
    <3>1. bound = IF r.since = Unset THEN 0 ELSE r.since
      BY <2>2 DEF McpMessage
    <3>2. r.since # Bad
      BY <1>1, <2>2 DEF Refused
    <3>3. From(r) = IF r.since = Unset THEN 0 ELSE r.since
      BY <2>2, <3>2 DEF From
    <3> QED BY <1>2, <3>1, <3>3
  <2> QED BY <1>1, <2>1, <2>2
<1> HIDE DEF msg, bound
<1>5. ASSUME NEW S \in SUBSET Of(r.service)
      PROVE  /\ Since(S, bound) \in SUBSET S
             /\ {e \in S : e.ts >= From(r)} \subseteq Since(S, bound)
             /\ ~Widened(r) => Since(S, bound) = {e \in S : e.ts >= From(r)}
  <2>1. \A e \in S : e.ts \in Int /\ e.ts > 0
    <3>1. \A e \in Row : e.ts \in 1..MaxTime
      BY DEF Row
    <3>2. \A e \in S : e \in Row
      BY DEF Of, Lines, TablesInv, LineTypes, Written
    <3> QED BY <3>1, <3>2, QueriesAssumption
  <2>2. Since(S, bound) = {e \in S : e.ts >= bound}
    BY <1>4, <2>1 DEF Since
  <2> QED BY <1>4, <2>1, <2>2
<1>6. CASE r.command = "search"
  <2> DEFINE found == {e \in Of(r.service) : Like(e.text, r.query)}
             result == Since(found, bound)
  <2>1. \A text : /\ r.query \in text \cup {""} => Like(text, r.query)
                  /\ ~Widened(r) => (Like(text, r.query) <=> r.query \in text \cup {""})
    BY DEF Like, Widened
  <2>2. Meant(r) = {e \in Of(r.service) : e.ts >= From(r) /\ r.query \in e.text \cup {""}}
    BY <1>6 DEF Meant
  <2>3. /\ result \in SUBSET Of(r.service) /\ {e \in found : e.ts >= From(r)} \subseteq result
        /\ ~Widened(r) => result = {e \in found : e.ts >= From(r)}
    BY <1>5
  <2>4. handleQuery(msg) = NewestFirst(result)
    BY <1>3, <1>6 DEF handleQuery, SearchLogs, bound
  <2> HIDE DEF result
  <2>5. Meant(r) \subseteq result /\ (~Widened(r) => result = Meant(r))
    BY <2>1, <2>2, <2>3
  <2> QED BY <2>3, <2>4, <2>5 DEF msg
<1>7. CASE r.command = "errors"
  <2> DEFINE found == {e \in Of(r.service) : e.stream = "stderr" \/ e.level = "error"}
             result == Since(found, bound)
  <2>1. \A e \in Of(r.service) :
          e.stream = "stderr" \/ e.level = "error" <=>
            \/ e.stream = "stderr"
            \/ e.text \cap {"ERROR", "ERR"} # {} /\ e.text \cap {"FATAL", "PANIC"} = {}
    <3> SUFFICES ASSUME NEW e \in events
                 PROVE  e.stream = "stderr" \/ e.level = "error" <=>
                          \/ e.stream = "stderr"
                          \/ e.text \cap {"ERROR", "ERR"} # {} /\ e.text \cap {"FATAL", "PANIC"} = {}
      BY DEF Of
    <3>1. PICK k \in Kinds : e.stream = k.stream /\ e.text = k.text /\ e.level = LevelOf(k)
      BY DEF TablesInv, LineTypes, Written, Lines
    <3> QED BY <3>1, ErrorLevel
  <2>2. Meant(r) = {e \in Of(r.service) : e.ts >= From(r) /\
                     (\/ e.stream = "stderr"
                      \/ e.text \cap {"ERROR", "ERR"} # {} /\ e.text \cap {"FATAL", "PANIC"} = {})}
    BY <1>7 DEF Meant
  <2>3. Meant(r) = {e \in found : e.ts >= From(r)}
    BY <2>1, <2>2
  <2>4. /\ result \in SUBSET Of(r.service) /\ {e \in found : e.ts >= From(r)} \subseteq result
        /\ ~Widened(r) => result = {e \in found : e.ts >= From(r)}
    BY <1>5
  <2>5. handleQuery(msg) = NewestFirst(result)
    BY <1>3, <1>7 DEF handleQuery, QueryErrors, bound
  <2> HIDE DEF result, found
  <2> QED BY <2>3, <2>4, <2>5 DEF msg
<1> QED BY <1>1, <1>6, <1>7

\* The answer to a request for lines.
LEMMA LineAnswer ==
  ASSUME TablesInv, NEW r \in LineRequests
  PROVE  LinesMatch(r)
<1>1. PICK found \in SUBSET Of(r.service) :
        /\ handleQuery(IF r.via = "cli" THEN CliMessage(r) ELSE McpMessage(r)) = NewestFirst(found)
        /\ Meant(r) \subseteq found /\ (~Widened(r) => found = Meant(r))
  BY LineSelection
<1>2. Rows(Of(r.service)) /\ Rows(found)
  <2>1. Of(r.service) \in SUBSET Lines
    BY DEF Of, Lines
  <2>2. found \in SUBSET Lines
    BY <1>1, <2>1
  <2> QED BY <2>1, <2>2, SubsetOfRows DEF TablesInv, LineTypes
<1> DEFINE rows == NewestFirst(found)
<1>3. /\ Len(rows) = Cardinality(found) /\ ToSet(rows) = found
      /\ \A i, j \in DOMAIN rows : i < j => Newer(rows[i], rows[j])
  BY <1>2, NewestFirstProperties
<1>4. Answer(r) = IF Len(rows) > ReplyLimit THEN Failure ELSE [error |-> FALSE, rows |-> rows]
  <2>1. ~Refused(r)
    BY DEF LineRequests
  <2> QED BY <1>1, <2>1 DEF Answer, Reply
<1> HIDE DEF rows
<1>5. CASE Len(rows) > ReplyLimit
  <2>1. Answer(r).error
    BY <1>4, <1>5 DEF Failure
  <2>2. /\ Cardinality(found) <= Cardinality(Of(r.service))
        /\ Cardinality(found) \in Nat /\ Cardinality(Of(r.service)) \in Nat
    <3>1. IsFiniteSet(Of(r.service)) /\ IsFiniteSet(found)
      BY <1>2 DEF Rows
    <3> QED BY <3>1, FS_Subset, FS_CardinalityType
  <2>3. Cardinality(IF Widened(r) THEN Of(r.service) ELSE Meant(r)) > ReplyLimit
    BY <1>1, <1>3, <1>5, <2>2, QueriesAssumption
  <2> QED BY <2>1, <2>3 DEF LinesMatch
<1>6. CASE ~(Len(rows) > ReplyLimit)
  <2>1. ~Answer(r).error /\ Answer(r).rows = rows
    BY <1>4, <1>6
  <2> QED BY <1>1, <1>3, <2>1 DEF LinesMatch
<1> QED BY <1>5, <1>6

\* The requests for lists take no bound, and no tool refuses them.
LEMMA ListRequest ==
  ASSUME NEW r \in Requests, r.command \in {"sessions", "services"}
  PROVE  ~Refused(r)
<1>1. r.since = 0 /\ r.command # "search"
  BY DEF Requests, Unset
<1>2. r.since # Bad
  BY <1>1 DEF Bad
<1> QED BY <1>1, <1>2 DEF Refused

\* The answer to a request for the services.
LEMMA ServicesAnswer ==
  ASSUME TablesInv, NEW r \in Requests, r.command = "services"
  PROVE  ServicesMatch(r)
<1> DEFINE list == SetToSeq(QueryServices)
<1>1. IsFiniteSet(Services) /\ ReplyLimit \in Nat
  BY QueriesAssumption
<1>2. QueryServices \in SUBSET Services
  BY DEF QueryServices, TablesInv, SessionTypes
<1>3. /\ IsFiniteSet(QueryServices) /\ Cardinality(QueryServices) <= Cardinality(Services)
      /\ Cardinality(QueryServices) \in Nat /\ Cardinality(Services) \in Nat
  BY <1>1, <1>2, FS_Subset, FS_CardinalityType
<1>4. ToSet(list) = QueryServices /\ Len(list) = Cardinality(QueryServices)
  BY <1>3, ListedSet
<1>5. AgesPositive => \A e \in events : e.service \in QueryServices
  BY DEF TablesInv, LinesInSessions, LineInSession, QueryServices, Lines
<1>6. handleQuery(IF r.via = "cli" THEN CliMessage(r) ELSE McpMessage(r)) = list
  BY DEF handleQuery, CliMessage, McpMessage
<1>7. Answer(r) = IF Len(list) > ReplyLimit THEN Failure ELSE [error |-> FALSE, rows |-> list]
  BY <1>6, ListRequest DEF Answer, Reply
<1> HIDE DEF list
<1>8. CASE Len(list) > ReplyLimit
  <2>1. Answer(r).error /\ Cardinality(Services) > ReplyLimit
    BY <1>1, <1>3, <1>4, <1>7, <1>8 DEF Failure
  <2> QED BY <2>1 DEF ServicesMatch
<1>9. CASE ~(Len(list) > ReplyLimit)
  <2>1. ~Answer(r).error /\ Answer(r).rows = list
    BY <1>7, <1>9
  <2> QED BY <1>4, <1>5, <2>1 DEF ServicesMatch
<1> QED BY <1>8, <1>9

\* The answer to a request for the sessions.
LEMMA SessionsAnswer ==
  ASSUME TablesInv, NEW r \in Requests, r.command = "sessions"
  PROVE  SessionsMatch(r)
<1> DEFINE mine == {id \in DOMAIN sessions : r.service \in {"", sessions[id].service}}
           found == {Info(id) : id \in mine}
           list == QuerySessions(r.service)
<1>1. seq \in Nat /\ mine \in SUBSET (1..seq) /\ \A id \in mine : sessions[id].started \in Int
  <2>1. seq \in Nat /\ DOMAIN sessions \subseteq 1..seq
    BY QueriesAssumption DEF TablesInv, SessionTypes
  <2>2. \A id \in DOMAIN sessions : sessions[id].started \in Int
    BY DEF TablesInv, SessionTypes
  <2> QED BY <2>1, <2>2
<1>2. list = Ordered(found, {p \in found \X found : StartedLater(p[1], p[2])})
  BY DEF QuerySessions
<1>3. /\ Len(list) = Cardinality(mine) /\ ToSet(list) = found
      /\ \A i, j \in DOMAIN list : i < j => list[i].started >= list[j].started
  <2> HIDE DEF mine, list
  <2> QED BY <1>1, <1>2, ListedSessions
<1>4. {x.id : x \in found} = mine
  <2>1. \A id \in mine : Info(id) \in found /\ Info(id).id = id
    BY DEF Info
  <2>2. ASSUME NEW x \in found PROVE x.id \in mine
    <3>1. PICK id \in mine : x = Info(id)
      OBVIOUS
    <3> HIDE DEF mine
    <3> QED BY <2>1, <3>1
  <2> HIDE DEF found, mine
  <2> QED BY <2>1, <2>2
<1>5. ASSUME NEW s \in Services, client[s] \in mine
      PROVE  \E x \in found : x.id = client[s] /\ x.service = s /\ x.ended = 0
  <2>1. client[s] # 0
    <3> HIDE DEF mine
    <3>1. client[s] \in 1..seq
      BY <1>1, <1>5
    <3> QED BY <1>1, <3>1
  <2>2. Open(s, client[s])
    BY <2>1 DEF TablesInv, RunningIsOpen
  <2>3. Info(client[s]) \in found
    BY <1>5
  <2>4. /\ Info(client[s]).id = client[s] /\ Info(client[s]).service = s
        /\ Info(client[s]).ended = 0
    BY <2>2 DEF Info, Open
  <2> HIDE DEF found, mine
  <2> QED BY <2>3, <2>4
<1>6. Answer(r) = IF Len(list) > ReplyLimit THEN Failure ELSE [error |-> FALSE, rows |-> list]
  <2>1. handleQuery(IF r.via = "cli" THEN CliMessage(r) ELSE McpMessage(r)) = list
    BY DEF handleQuery, CliMessage, McpMessage
  <2> QED BY <2>1, ListRequest DEF Answer, Reply
<1> HIDE DEF list, found
<1>7. CASE Len(list) > ReplyLimit
  <2>1. Answer(r).error
    BY <1>6, <1>7 DEF Failure
  <2> QED BY <1>3, <1>7, <2>1 DEF SessionsMatch
<1>8. CASE ~(Len(list) > ReplyLimit)
  <2>1. ~Answer(r).error /\ Answer(r).rows = list
    BY <1>6, <1>8
  <2> QED BY <1>3, <1>4, <1>5, <2>1 DEF SessionsMatch
<1> QED BY <1>7, <1>8

\* What the command line and the tools answer is what was meant. A search or a query for errors
\* (SearchLogs, QueryErrors, Detect) returns every line that was meant, once, and the newest
\* first; it returns others only if it is widened, and fails only when the lines are too many
\* for a reply. The list of the sessions has each session asked for once, the one that started
\* last first, and shows every running client as active. The list of the services has every
\* one that has stored lines.
THEOREM AnswersAreMeant == Spec => []AnswersMatch
<1>1. TablesInv => AnswersMatch
  BY LineAnswer, SessionsAnswer, ServicesAnswer DEF AnswersMatch
<1> QED BY <1>1, TablesInvariant, PTL
=============================================================================
