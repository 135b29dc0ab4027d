------------------------------- MODULE QueryCache -------------------------------
(***************************************************************************)
(* What the screens of the frontend show of the server: the hooks of       *)
(* frontend/src and the query cache they configure.                        *)
(*                                                                         *)
(* A query is fetched when a screen that uses it is mounted and its data   *)
(* is missing, invalidated or older than staleTime, and by polling.  Data  *)
(* is what the server had when it read the request; it arrives later.      *)
(* A mutation that was answered invalidates queries by their key: a query  *)
(* that is mounted is fetched again, and a fetch under way is cancelled.   *)
(* The server is a version of each table: the number of the last write.    *)
(***************************************************************************)
EXTENDS Integers

CONSTANTS
  Screens,       \* screens the user moves between, of those of ScreenQueries
  Queries,       \* queries that are followed, of those of Root
  MaxWrites      \* bound: writes on the server

Tables == {"orders", "allocations", "jobs", "events", "pipelines", "stations"}

(* The first element of the queryKey; invalidation is by that element.     *)
Root ==
  [orders |-> "customer-orders", order |-> "customer-orders", jobs |-> "jobs",
   job |-> "jobs", history |-> "jobs", board |-> "jobs", pipelines |-> "pipelines",
   pipeline |-> "pipelines", stations |-> "stations", summary |-> "analytics",
   metrics |-> "analytics"]

(* The tables the endpoint of a query reads.                               *)
Reads ==
  [orders |-> {"orders", "allocations", "jobs"}, order |-> {"orders", "allocations", "jobs"},
   jobs |-> {"jobs", "allocations", "pipelines"}, job |-> Tables,
   history |-> {"jobs", "events", "stations"},
   board |-> {"jobs", "events", "stations", "pipelines"},
   pipelines |-> {"pipelines", "stations"}, pipeline |-> {"pipelines", "stations"},
   stations |-> {"stations"}, summary |-> {"events", "pipelines", "stations"},
   metrics |-> {"orders", "allocations", "jobs"}]

(* refetchInterval; summary stands for all cards of the overview.          *)
Polled == {"job", "history", "board", "summary", "metrics"}

(* The queries of a screen, without those it has disabled, and the         *)
(* mutations it offers.                                                    *)
ScreenQueries ==
  [ordersList |-> {"orders", "metrics"}, orderForm |-> {"pipelines"},
   orderDetail |-> {"order", "jobs"}, jobsList |-> {"jobs"},
   jobDetail |-> {"job", "history", "pipeline"}, jobForm |-> {"pipelines"},
   liveOperations |-> {"board", "summary"}, stations |-> {"stations"},
   newStation |-> {}, editStation |-> {"pipelines"},
   pipelines |-> {"pipelines"}, pipelineForm |-> {"stations"}]

ScreenMutations ==
  [ordersList |-> {"deleteOrder"}, orderForm |-> {"createOrder"},
   orderDetail |-> {"allocate"}, jobsList |-> {}, jobDetail |-> {"deleteJob"},
   jobForm |-> {"createJob"}, liveOperations |-> {}, stations |-> {"changeStation"},
   newStation |-> {"changeStation"}, editStation |-> {"changeStation"},
   pipelines |-> {"changePipeline"}, pipelineForm |-> {"changePipeline"}]

Writes ==
  [createOrder |-> {"orders", "allocations", "jobs"},
   deleteOrder |-> {"orders", "allocations", "jobs", "events"}, allocate |-> {"allocations"},
   createJob |-> {"jobs"}, deleteJob |-> {"jobs", "allocations", "events"},
   changePipeline |-> {"pipelines"}, changeStation |-> {"stations", "events"}]

(* Faulty variant: an allocation refreshes the order only.                 *)
InvalidatesOrderOnly ==
  [createOrder |-> {"customer-orders", "jobs"}, deleteOrder |-> {"customer-orders", "jobs"},
   allocate |-> {"customer-orders"}, createJob |-> {"jobs"}, deleteJob |-> {"jobs"},
   changePipeline |-> {"pipelines"}, changeStation |-> {"stations"}]

(* invalidateQueries in onSuccess.                                         *)
Invalidates ==
  [createOrder |-> {"customer-orders", "jobs"}, deleteOrder |-> {"customer-orders", "jobs"},
   allocate |-> {"customer-orders", "jobs"}, createJob |-> {"jobs"}, deleteJob |-> {"jobs"},
   changePipeline |-> {"pipelines"}, changeStation |-> {"stations"}]

ASSUME QueryCacheAssumption ==
  /\ Screens \subseteq DOMAIN ScreenQueries /\ Queries \subseteq DOMAIN Root
  /\ MaxWrites \in Nat

Version  == [Tables -> 0 .. MaxWrites]
Initial  == [t \in Tables |-> 0]
NoData   == [t \in {} |-> 0]

VARIABLES
  db,            \* server: table -> number of its last write
  screen,        \* the screen that is mounted
  entry,         \* query -> its cache entry
  mutations,     \* mutations not answered: name, and number of its write or 0
  due            \* history: query -> what it has to show of the user's own writes

queryCacheVars == <<db, screen, entry, mutations, due>>

Entry ==
  [data : Version \cup {NoData}, invalid : BOOLEAN,
   fetch : {"idle", "sent", "read"}, answer : Version \cup {NoData}]

Missing == [data |-> NoData, invalid |-> FALSE, fetch |-> "idle", answer |-> NoData]

Fetching(e) == [e EXCEPT !.fetch = "sent", !.answer = NoData]

LastWrite == CHOOSE n \in {db[t] : t \in Tables} : \A t \in Tables : db[t] <= n

Mounted(q) == q \in ScreenQueries[screen]

(* An observer that mounts: fetch unless the data is there and fresh.      *)
Mount(e, old) ==
  IF e.fetch = "idle" /\ (e.data = NoData \/ e.invalid \/ old) THEN Fetching(e) ELSE e

QueryCacheInit ==
  /\ db = Initial
  /\ screen \in Screens
  /\ entry = [q \in Queries |-> IF Mounted(q) THEN Mount(Missing, TRUE) ELSE Missing]
  /\ mutations = {}
  /\ due = [q \in Queries |-> Initial]

-------------------------------------------------------------------------------

(* The user opens another screen; old: staleTime has passed.               *)
OpenScreen(s) ==
  /\ s # screen
  /\ screen' = s
  /\ \E old \in BOOLEAN :
       entry' = [q \in Queries |->
                   IF q \in ScreenQueries[s] \ ScreenQueries[screen]
                   THEN Mount(entry[q], old \/ q \in Polled) ELSE entry[q]]
  /\ UNCHANGED <<db, mutations, due>>

(* Faulty variant: the interval is given up once there is data.            *)
PollUntilData(q) ==
  /\ Mounted(q) /\ q \in Polled /\ entry[q].fetch = "idle" /\ entry[q].data = NoData
  /\ entry' = [entry EXCEPT ![q] = Fetching(@)]
  /\ UNCHANGED <<db, screen, mutations, due>>

(* refetchInterval, also after an error.                                   *)
Poll(q) ==
  /\ Mounted(q) /\ q \in Polled /\ entry[q].fetch = "idle"
  /\ entry' = [entry EXCEPT ![q] = Fetching(@)]
  /\ UNCHANGED <<db, screen, mutations, due>>

(* A window that gets the focus back.                                      *)
Refocus ==
  /\ \E old \in BOOLEAN :
       entry' = [q \in Queries |-> IF Mounted(q) THEN Mount(entry[q], old) ELSE entry[q]]
  /\ UNCHANGED <<db, screen, mutations, due>>

(* The server answers a fetch from what it has now; the answer travels.    *)
ServerReads(q) ==
  /\ entry[q].fetch = "sent"
  /\ entry' = [entry EXCEPT
       ![q].fetch = "read", ![q].answer = [t \in Tables |-> IF t \in Reads[q] THEN db[t] ELSE 0]]
  /\ UNCHANGED <<db, screen, mutations, due>>

Arrives(q) ==
  /\ entry[q].fetch = "read"
  /\ entry' = [entry EXCEPT ![q] = [Missing EXCEPT !.data = entry[q].answer]]
  /\ UNCHANGED <<db, screen, mutations, due>>

(* All retries failed: the data stays as it was.                           *)
FetchFails(q) ==
  /\ entry[q].fetch # "idle"
  /\ entry' = [entry EXCEPT ![q].fetch = "idle", ![q].answer = NoData]
  /\ UNCHANGED <<db, screen, mutations, due>>

-------------------------------------------------------------------------------

(* Bound: one mutation of each kind at a time.                             *)
Mutate(m) ==
  /\ m \in ScreenMutations[screen] /\ \A x \in mutations : x.name # m
  /\ mutations' = mutations \cup {[name |-> m, at |-> 0]}
  /\ UNCHANGED <<db, screen, entry, due>>

Write(tables) ==
  /\ LastWrite < MaxWrites
  /\ db' = [t \in Tables |-> IF t \in tables THEN LastWrite + 1 ELSE db[t]]

Commit(x) ==
  /\ x.at = 0
  /\ Write(Writes[x.name])
  /\ mutations' = (mutations \ {x}) \cup {[x EXCEPT !.at = LastWrite + 1]}
  /\ UNCHANGED <<screen, entry, due>>

(* invalidateQueries: a mounted query is fetched again; a fetch under way  *)
(* is cancelled for it unless it is the first, of a query without data.    *)
Invalidated(e, mounted) ==
  LET marked == [e EXCEPT !.invalid = TRUE]
  IN  IF ~mounted \/ (e.data = NoData /\ e.fetch # "idle") THEN marked ELSE Fetching(marked)

(* The gap of the hooks: the form that edits a station mounts pipelines,   *)
(* which come with the names of their stations, and no station hook        *)
(* invalidates them.                                                       *)
NotRefreshed == {<<"pipelines", "changeStation">>}

Beside(q, m) ==
  /\ <<q, m>> \notin NotRefreshed
  /\ \E s \in DOMAIN ScreenQueries : m \in ScreenMutations[s] /\ q \in ScreenQueries[s]

(* What the mounted queries have to show from now on, if a screen that     *)
(* offers the mutation shows them; a query that has no data yet may still  *)
(* get what was read before.                                               *)
DueAfter(x, q) ==
  [t \in Tables |->
     IF /\ Mounted(q) /\ Beside(q, x.name) /\ entry[q].data # NoData
        /\ t \in Reads[q] \cap Writes[x.name]
     THEN x.at ELSE due[q][t]]

Answered(x) ==
  /\ x.at # 0
  /\ mutations' = mutations \ {x}
  /\ entry' = [q \in Queries |->
                 IF Root[q] \in Invalidates[x.name] THEN Invalidated(entry[q], Mounted(q))
                                                    ELSE entry[q]]
  /\ due' = [q \in Queries |-> DueAfter(x, q)]
  /\ UNCHANGED <<db, screen>>

(* Refused, or the answer is lost: nothing is invalidated.                 *)
MutationFails(x) ==
  /\ mutations' = mutations \ {x}
  /\ UNCHANGED <<db, screen, entry, due>>

(* Other users and the eyes.                                               *)
OtherWrites ==
  /\ Write({"events", "jobs"}) \/ Write({"orders", "allocations"})
  /\ UNCHANGED <<screen, entry, mutations, due>>

QueryCacheNext ==
  \/ \E s \in Screens : OpenScreen(s)
  \/ \E q \in Queries : Poll(q) \/ ServerReads(q) \/ Arrives(q) \/ FetchFails(q)
  \/ \E m \in DOMAIN Writes : Mutate(m)
  \/ \E x \in mutations : Commit(x) \/ Answered(x) \/ MutationFails(x)
  \/ Refocus \/ OtherWrites

(* Polling goes on, and the server is reached again and again.             *)
QueryCacheFairness ==
  \A q \in Polled \cap Queries :
    /\ WF_queryCacheVars(Poll(q))
    /\ SF_queryCacheVars(ServerReads(q))
    /\ SF_queryCacheVars(Arrives(q))

QueryCacheSpec ==
  QueryCacheInit /\ [][QueryCacheNext]_queryCacheVars /\ QueryCacheFairness

-------------------------------------------------------------------------------

(* Once the answer to the user's own change has been handled, a query of   *)
(* the screens that offer the change which was shown with data when the    *)
(* answer came never shows the time before the change as current, whatever *)
(* fetches were under way: the hooks invalidate what their screens show of *)
(* what they changed.  Excepted are polled data, which comes by itself,    *)
(* and the pipelines on the form of a station (NotRefreshed); nothing is   *)
(* said of the queries of other screens.                                   *)
OwnWriteVisible ==
  \A q \in Queries \ Polled :
    entry[q].data # NoData /\ ~entry[q].invalid
      => \A t \in Tables : entry[q].data[t] >= due[q][t]

Current(q) == entry[q].data # NoData /\ \A t \in Reads[q] : entry[q].data[t] = db[t]

(* A polled query that stays on screen shows, in the end, what the server  *)
(* has, although fetches fail and nobody invalidates it.                   *)
PolledConverges ==
  \A q \in Polled \cap Queries : <>[]Mounted(q) => <>[]Current(q)
===============================================================================
