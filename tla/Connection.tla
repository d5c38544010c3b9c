----------------------------- MODULE Connection -----------------------------
(***************************************************************************)
(* Connections and their pool (Connection.cpp, ConnectionInfo.cpp,         *)
(* ConnectionPool.cpp, spi.cpp and the connection calls of core.cpp).      *)
(*                                                                         *)
(* The environment is the ODBC Driver Manager, with the protocol of        *)
(* SQLConnectionPoolTests.cpp: it connects an application directly with    *)
(* SQLDriverConnect, or it fills a connection info, asks for its pool,     *)
(* rates the connections of that pool, and takes one as it is (100),       *)
(* resets one to the info (50), or opens a new one with SQLPoolConnect.    *)
(* It repeats a call that answers SQL_STILL_EXECUTING.                     *)
(*                                                                         *)
(* Steps that hold the mutex of a connection from start to end are one     *)
(* action; internalOpen waits for the server in the middle and is two.     *)
(***************************************************************************)
EXTENDS ConnectionParams

CONSTANTS Connections, Tokens,     \* handles of connections and of infos
          DirectStrings,           \* the strings of connects without a pool
          PooledStrings,           \* and with a pool
          Typed,                   \* what a user may type into the dialog
          Completions,             \* subset of {"prompt", "complete", "noprompt"}
          CancelPolls,             \* whether a dialog is cancelled during a repeated call: the
                                   \* task of the first call then opens for nobody
          Memory,                  \* what a flag that is not initialised may hold
          MaxPoolId,               \* bound on the handles given to pools
          None

VARIABLES isOpen, params, exploreClient, isAsync, isFunctionsAsync,
          openTask,   \* the asynchronous open: its state and its string
          opening,    \* the threads inside internalOpen: a "call", the "task"
          infos,      \* the connection infos
          pools,      \* servers (host and port) with their pool IDs
          nextId,     \* the ID the next pool gets
          dm          \* what the Driver Manager knows of each connection

cvars == <<isOpen, params, exploreClient, isAsync, isFunctionsAsync, openTask, opening>>
vars == <<isOpen, params, exploreClient, isAsync, isFunctionsAsync, openTask, opening,
          infos, pools, nextId, dm>>

NoTask == [state |-> "none", string |-> << >>]
NoInfo == [phase |-> "free", params |-> None, isAsync |-> FALSE,
           isFunctionsAsync |-> FALSE, pool |-> 0]
Idle == [state |-> "allocated", string |-> << >>, completion |-> "noprompt",
         token |-> None, pool |-> 0]

\* The constructor of Connection leaves isFunctionsAsync as the memory was.
Init ==
  /\ isOpen = [c \in Connections |-> FALSE]
  /\ params = [c \in Connections |-> None]
  /\ exploreClient = [c \in Connections |-> None]
  /\ isAsync = [c \in Connections |-> FALSE]
  /\ isFunctionsAsync \in [Connections -> Memory]
  /\ openTask = [c \in Connections |-> NoTask]
  /\ opening = [c \in Connections |-> {}]
  /\ infos = [t \in Tokens |-> NoInfo]
  /\ pools = {}
  /\ nextId = 1
  /\ dm = [c \in Connections |-> Idle]
-----------------------------------------------------------------------------
(***************************************************************************)
(* Opening.                                                                *)
(***************************************************************************)

\* ConnectionDialog: OK is disabled without a host; a field left empty leaves
\* the parameter as it was.
Dialog(p) ==
  {[f \in DOMAIN p |-> IF f \in DOMAIN typed /\ NonEmpty(typed[f]) THEN typed[f] ELSE p[f]] :
     typed \in {u \in Typed : NonEmpty(u.host) \/ NonEmpty(p.host)}}

\* The parameters and the strings that can occur, and what parse() and
\* getFullConnectionString() make of them.
Strings == DirectStrings \cup PooledStrings
ReadParams == {Parse(s) : s \in Strings} \ {Invalid}
AllParams == ReadParams \cup UNION {Dialog(p) : p \in ReadParams}
Written == [p \in AllParams |-> FullConnectionString(p)]
Parsed == [s \in Strings \cup {Written[p] : p \in AllParams} |-> Parse(s)]

\* What an open can make of a string.
Results == {Parsed[s] : s \in DOMAIN Parsed} \ {Invalid}

\* resolveUri() and the constructor of ExploreClient
Client(p) ==
  [https |-> p.ssl_enabled, host |-> p.host, port |-> IF p.port > 0 THEN p.port ELSE 0,
   namespace |-> p.namespace, auth_token |-> p.auth_token]

\* None is the null pointer and the value of a field that is not set; the memory of a flag
\* holds a flag.
ASSUME ConnectionAssumption ==
  /\ DirectStrings \cup PooledStrings \subseteq Seq(Items)
  /\ Memory \subseteq BOOLEAN /\ MaxPoolId \in Nat /\ CancelPolls \in BOOLEAN
  /\ None \notin Tokens /\ \A p \in Results : None \notin {p, Client(p)}

Fails(string) == string = << >> \/ Parsed[string] = Invalid

\* Without a host there is no URI, or one that the HTTP client refuses: resolveUri() or the
\* constructor of ExploreClient throws when params is set already.
HasHost(string) == Parsed[string].host.word # NoWord

OpenWithoutHost(c, string) ==
  /\ params' = [params EXCEPT ![c] = Parsed[string]]
  /\ UNCHANGED <<exploreClient, opening>>

\* internalOpen up to isAvailable().
StartOpen(c, string, thread) ==
  /\ params' = [params EXCEPT ![c] = Parsed[string]]
  /\ exploreClient' = [exploreClient EXCEPT ![c] = Client(Parsed[string])]
  /\ opening' = [opening EXCEPT ![c] = @ \cup {thread}]

Answered(c, state) == dm' = [dm EXCEPT ![c].state = state]

\* SQL_SUCCESS; an error or SQL_NO_DATA.
Connected(c) == dm' = [dm EXCEPT ![c] = [Idle EXCEPT !.state = "connected",
                                                   !.token = dm[c].token,
                                                     !.pool = dm[c].pool]]
NotConnected(c) == dm' = [dm EXCEPT ![c] = Idle]

\* open(): an empty or malformed string is refused before anything is set; without a host
\* the client of an earlier open that failed, or none, stays beside the new parameters.
Open(c, string) ==
  \/ /\ Fails(string)
     /\ NotConnected(c)
     /\ UNCHANGED cvars
  \/ /\ ~Fails(string) /\ ~HasHost(string)
     /\ OpenWithoutHost(c, string)
     /\ NotConnected(c)
     /\ UNCHANGED <<isOpen, isAsync, isFunctionsAsync, openTask>>
  \/ /\ ~Fails(string) /\ HasHost(string)
     /\ StartOpen(c, string, "call")
     /\ Answered(c, "waiting")
     /\ UNCHANGED <<isOpen, isAsync, isFunctionsAsync, openTask>>

\* Mutant of OpenAsync: a task that is done is not noticed.
OpenAsyncNeverDone(c, string) ==
  /\ openTask' = IF openTask[c].state = "none"
                 THEN [openTask EXCEPT ![c] = [state |-> "queued", string |-> string]]
                 ELSE openTask
  /\ Answered(c, "polling")
  /\ UNCHANGED <<isOpen, params, exploreClient, isAsync, isFunctionsAsync, opening>>

\* openAsync(): the task stays when get() throws what its body threw.
OpenAsync(c, string) ==
  /\ \/ /\ openTask[c].state = "none"
        /\ openTask' = [openTask EXCEPT ![c] = [state |-> "queued", string |-> string]]
        /\ Answered(c, "polling")
     \/ /\ openTask[c].state \in {"queued", "running"}
        /\ Answered(c, "polling")
        /\ UNCHANGED openTask
     \/ /\ openTask[c].state = "done"
        /\ openTask' = [openTask EXCEPT ![c] = NoTask]
        /\ Connected(c)
     \/ /\ openTask[c].state = "failed"
        /\ NotConnected(c)
        /\ UNCHANGED openTask
  /\ UNCHANGED <<isOpen, params, exploreClient, isAsync, isFunctionsAsync, opening>>

OpenInMode(c, string) ==
  \/ isFunctionsAsync[c] /\ OpenAsync(c, string)
  \/ ~isFunctionsAsync[c] /\ Open(c, string)

\* The body of the task locks the connection, and so do the calls of the ODBC
\* interface; SQLPoolConnect takes no lock.
Unlocked(c) ==
  "task" \notin opening[c] /\ ("call" \in opening[c] => dm[c].token # None)

RunTask(c) ==
  /\ openTask[c].state = "queued" /\ Unlocked(c)
  /\ LET string == openTask[c].string
     IN  \/ /\ Fails(string)
            /\ openTask' = [openTask EXCEPT ![c].state = "failed"]
            /\ UNCHANGED <<params, exploreClient, opening>>
         \/ /\ ~Fails(string) /\ ~HasHost(string)
            /\ openTask' = [openTask EXCEPT ![c].state = "failed"]
            /\ OpenWithoutHost(c, string)
         \/ /\ ~Fails(string) /\ HasHost(string)
            /\ openTask' = [openTask EXCEPT ![c].state = "running"]
            /\ StartOpen(c, string, "task")
  /\ UNCHANGED <<isOpen, isAsync, isFunctionsAsync, infos, pools, nextId, dm>>

\* isAvailable() answers, or fails; then params and exploreClient stay set.
FinishOpen(c) ==
  \E thread \in opening[c], available \in BOOLEAN :
    /\ opening' = [opening EXCEPT ![c] = @ \ {thread}]
    /\ isOpen' = [isOpen EXCEPT ![c] = @ \/ available]
    /\ IF thread = "task"
       THEN /\ openTask' = [openTask EXCEPT ![c].state = IF available THEN "done" ELSE "failed"]
            /\ UNCHANGED dm
       ELSE /\ IF available THEN Connected(c) ELSE NotConnected(c)
            /\ UNCHANGED openTask
    /\ UNCHANGED <<params, exploreClient, isAsync, isFunctionsAsync, infos, pools, nextId>>
-----------------------------------------------------------------------------
(***************************************************************************)
(* SQLDriverConnect, SQLDisconnect, SQLSetConnectAttr.  They lock the      *)
(* connection: they wait while a thread is inside internalOpen.            *)
(***************************************************************************)
\* connectionString->find(L"DSN") is case-sensitive.
HasDSN(string) == \E i \in DOMAIN string : string[i].key.word = "dsn" /\ string[i].key.capitals

Asks(string, completion) == completion = "prompt" \/ (completion = "complete" /\ HasDSN(string))

\* The string to open after a dialog, if there is one.
Completed(string, completion) ==
  IF Asks(string, completion) THEN {Written[p] : p \in Dialog(Parsed[string])}
  ELSE {string}

\* A first call or a repeated one: each of them shows the dialog.
SQLDriverConnect(c) ==
  /\ Unlocked(c)
  /\ dm[c].state \in {"calling", "polling"} /\ dm[c].token = None
  /\ LET string == dm[c].string
         completion == dm[c].completion
         asks == Asks(string, completion)
     IN  \/ /\ asks /\ Parsed[string] = Invalid
            /\ NotConnected(c)
            /\ UNCHANGED cvars
         \/ /\ asks /\ Parsed[string] # Invalid        \* cancelled: SQL_NO_DATA
            /\ dm[c].state = "calling" \/ CancelPolls
            /\ NotConnected(c)
            /\ UNCHANGED cvars
         \/ /\ ~asks /\ completion = "noprompt" /\ string = << >>
            /\ NotConnected(c)
            /\ UNCHANGED cvars
         \/ /\ asks => Parsed[string] # Invalid
            /\ ~(completion = "noprompt" /\ string = << >>)
            /\ \E chosen \in Completed(string, completion) : OpenInMode(c, chosen)
  /\ UNCHANGED <<infos, pools, nextId>>

\* Mutant of SQLDisconnect: the client is not reset.
SQLDisconnectKeepsClient(c) ==
  /\ Unlocked(c)
  /\ dm[c].state \in {"connected", "pooled"}
  /\ params' = [params EXCEPT ![c] = None]
  /\ isOpen' = [isOpen EXCEPT ![c] = FALSE]
  /\ dm' = [dm EXCEPT ![c] = Idle]
  /\ UNCHANGED <<exploreClient, isAsync, isFunctionsAsync, openTask, opening, infos, pools, nextId>>

\* close(): of the application, or of the Driver Manager for a pooled connection.
SQLDisconnect(c) ==
  /\ Unlocked(c)
  /\ dm[c].state \in {"connected", "pooled"}
  /\ exploreClient' = [exploreClient EXCEPT ![c] = None]
  /\ params' = [params EXCEPT ![c] = None]
  /\ isOpen' = [isOpen EXCEPT ![c] = FALSE]
  /\ dm' = [dm EXCEPT ![c] = Idle]
  /\ UNCHANGED <<isAsync, isFunctionsAsync, openTask, opening, infos, pools, nextId>>

\* The Driver Manager refuses attributes during a call.
SQLSetConnectAttr(c) ==
  /\ Unlocked(c)
  /\ \/ /\ dm[c].state = "connected"
        /\ \E on \in BOOLEAN : isAsync' = [isAsync EXCEPT ![c] = on]
        /\ UNCHANGED isFunctionsAsync
     \/ /\ dm[c].state = "allocated"
        /\ \E on \in BOOLEAN : isFunctionsAsync' = [isFunctionsAsync EXCEPT ![c] = on]
        /\ UNCHANGED isAsync
  /\ UNCHANGED <<isOpen, params, exploreClient, openTask, opening, infos, pools, nextId, dm>>
-----------------------------------------------------------------------------
(***************************************************************************)
(* The service provider interface.  It takes no lock.                      *)
(***************************************************************************)

\* Bound: the Driver Manager prepares a connect when it is in no other call.
NoCall == \A c \in Connections : dm[c].state \in {"allocated", "connected", "pooled"}

\* SQLAllocHandle(SQL_HANDLE_DBC_INFO_TOKEN): the modes are not initialised.
AllocInfo(t) ==
  /\ infos[t].phase = "free" /\ NoCall
  /\ \E a, f \in Memory :
       infos' = [infos EXCEPT ![t] = [NoInfo EXCEPT !.phase = "allocated", !.isAsync = a,
                                                    !.isFunctionsAsync = f]]
  /\ UNCHANGED <<cvars, pools, nextId, dm>>

SQLSetConnectAttrForDbcInfo(t) ==
  /\ infos[t].phase = "allocated"
  /\ \E on \in BOOLEAN :
       \/ infos' = [infos EXCEPT ![t].isAsync = on]
       \/ infos' = [infos EXCEPT ![t].isFunctionsAsync = on]
  /\ UNCHANGED <<cvars, pools, nextId, dm>>

SQLSetDriverConnectInfo(t) ==
  /\ infos[t].phase = "allocated"
  /\ \E s \in PooledStrings :
       /\ Parsed[s] # Invalid          \* otherwise SQL_ERROR and nothing changes
       /\ infos' = [infos EXCEPT ![t].params = Parsed[s], ![t].phase = "described"]
  /\ UNCHANGED <<cvars, pools, nextId, dm>>

\* ConnectionPool::getPoolID
SQLGetPoolID(t) ==
  /\ infos[t].phase = "described"
  /\ LET found == {entry \in pools : SameServer(entry, infos[t].params)}
     IN  IF found # {}
         THEN /\ \E entry \in found :
                   infos' = [infos EXCEPT ![t].pool = entry.id, ![t].phase = "rating"]
              /\ UNCHANGED <<pools, nextId>>
         ELSE /\ nextId <= MaxPoolId
              /\ pools' = pools \cup {[host |-> infos[t].params.host, port |-> infos[t].params.port,
                                    id |-> nextId]}
              /\ infos' = [infos EXCEPT ![t].pool = nextId, ![t].phase = "rating"]
              /\ nextId' = nextId + 1
  /\ UNCHANGED <<cvars, dm>>

\* Mutant of PerfectlyMatch: the parameters are not compared.
MatchModes(t, c) ==
  isAsync[c] = infos[t].isAsync /\ isFunctionsAsync[c] = infos[t].isFunctionsAsync

PerfectlyMatch(t, c) ==
  /\ EqualParams(params[c], infos[t].params)
  /\ isAsync[c] = infos[t].isAsync
  /\ isFunctionsAsync[c] = infos[t].isFunctionsAsync

\* Mutant of RateConnection: all or nothing.
RateConnectionStrict(t, c) == IF PerfectlyMatch(t, c) THEN 100 ELSE 0

RateConnection(t, c) ==
  IF ~SameServer(params[c], infos[t].params) THEN 0
  ELSE IF PerfectlyMatch(t, c) THEN 100 ELSE 50

\* The candidates of an info: the pooled connections of its pool.
Candidates(t) == {c \in Connections : dm[c].state = "pooled" /\ dm[c].pool = infos[t].pool}

HandOver(t, c) ==
  /\ dm' = [dm EXCEPT ![c].state = "connected", ![c].token = t]
  /\ infos' = [infos EXCEPT ![t].phase = "used"]

\* SQLRateConnection answered 100.
Reuse(t, c) ==
  /\ infos[t].phase = "rating" /\ c \in Candidates(t)
  /\ RateConnection(t, c) = 100
  /\ HandOver(t, c)
  /\ UNCHANGED <<cvars, pools, nextId>>

\* setInfo
SetInfo(t, c) ==
  /\ params' = [params EXCEPT ![c] = infos[t].params]
  /\ isAsync' = [isAsync EXCEPT ![c] = infos[t].isAsync]
  /\ isFunctionsAsync' = [isFunctionsAsync EXCEPT ![c] = infos[t].isFunctionsAsync]
  /\ UNCHANGED <<isOpen, exploreClient, openTask, opening>>

\* SQLRateConnection answered 50: SQLSetConnectAttr(SQL_ATTR_DBC_INFO_TOKEN).
Reset(t, c) ==
  /\ infos[t].phase = "rating" /\ c \in Candidates(t) /\ Unlocked(c)
  /\ RateConnection(t, c) = 50
  /\ SetInfo(t, c)
  /\ HandOver(t, c)
  /\ UNCHANGED <<pools, nextId>>

\* SQLPoolConnect: the parameters travel as a connection string.
SQLPoolConnect(t, c) ==
  /\ dm[c].state \in {"calling", "polling"} /\ dm[c].token = t
  /\ OpenInMode(c, Written[infos[t].params])
  /\ UNCHANGED <<infos, pools, nextId>>

SQLCleanupConnectionPoolID(id) ==
  /\ \A t \in Tokens : infos[t].pool # id
  /\ \A c \in Connections : dm[c].pool # id
  /\ \E entry \in pools : entry.id = id /\ pools' = pools \ {entry}
  /\ UNCHANGED <<cvars, infos, nextId, dm>>
-----------------------------------------------------------------------------
(***************************************************************************)
(* The Driver Manager.                                                     *)
(***************************************************************************)
Begin(c) ==
  /\ dm[c].state = "allocated"
  /\ \/ /\ \A t \in Tokens : infos[t].phase = "free"
        /\ \E s \in DirectStrings, completion \in Completions :
             dm' = [dm EXCEPT ![c] = [Idle EXCEPT !.state = "calling", !.string = s,
                                                  !.completion = completion]]
        /\ UNCHANGED infos
     \/ \E t \in Tokens :
          /\ infos[t].phase = "rating"
          /\ \A d \in Candidates(t) : RateConnection(t, d) = 0
          /\ dm' = [dm EXCEPT ![c] = [Idle EXCEPT !.state = "calling", !.token = t,
                                                  !.pool = infos[t].pool]]
          /\ infos' = [infos EXCEPT ![t].phase = "used"]
  /\ UNCHANGED <<cvars, pools, nextId>>

\* The application disconnects; the Driver Manager keeps the connection.
ReturnToPool(c) ==
  /\ dm[c].state = "connected" /\ dm[c].token # None
  /\ dm' = [dm EXCEPT ![c].state = "pooled", ![c].token = None]
  /\ UNCHANGED <<cvars, infos, pools, nextId>>

\* SQLFreeHandle of an info that no connect uses.
FreeInfo(t) ==
  /\ infos[t].phase # "free"
  /\ \A c \in Connections : dm[c].token # t
  /\ infos' = [infos EXCEPT ![t] = NoInfo]
  /\ UNCHANGED <<cvars, pools, nextId, dm>>

Next ==
  \/ \E c \in Connections :
       \/ RunTask(c) \/ FinishOpen(c)
       \/ SQLDriverConnect(c) \/ SQLDisconnect(c) \/ SQLSetConnectAttr(c)
       \/ Begin(c) \/ ReturnToPool(c)
  \/ \E t \in Tokens :
       \/ AllocInfo(t) \/ SQLSetConnectAttrForDbcInfo(t) \/ SQLSetDriverConnectInfo(t)
       \/ SQLGetPoolID(t) \/ FreeInfo(t)
  \/ \E t \in Tokens, c \in Connections : Reuse(t, c) \/ Reset(t, c) \/ SQLPoolConnect(t, c)
  \/ \E id \in 1..MaxPoolId : SQLCleanupConnectionPoolID(id)

\* Requests are answered, the pool of threads runs every task, and a call that
\* answered SQL_STILL_EXECUTING is repeated.
Fairness ==
  \A c \in Connections :
    /\ WF_vars(RunTask(c)) /\ WF_vars(FinishOpen(c))
    /\ WF_vars(SQLDriverConnect(c)) /\ \A t \in Tokens : WF_vars(SQLPoolConnect(t, c))

Spec == Init /\ [][Next]_vars
FairSpec == Spec /\ Fairness
-----------------------------------------------------------------------------
Answers == {"allocated", "calling", "waiting", "polling", "connected", "pooled"}

TypeOK ==
  /\ isOpen \in [Connections -> BOOLEAN]
  /\ isAsync \in [Connections -> BOOLEAN]
  /\ isFunctionsAsync \in [Connections -> BOOLEAN]
  /\ \A c \in Connections : exploreClient[c] # None => params[c] # None
  /\ \A c \in Connections :
       /\ openTask[c].state \in {"none", "queued", "running", "done", "failed"}
       /\ opening[c] \subseteq {"call", "task"}
       /\ "task" \in opening[c] <=> openTask[c].state = "running"
       /\ "call" \in opening[c] <=> dm[c].state = "waiting"
       /\ dm[c].state \in Answers
       /\ dm[c].token \in Tokens \cup {None}
       /\ dm[c].pool \in 0..MaxPoolId
  /\ \A t \in Tokens : infos[t].pool \in 0..MaxPoolId
  /\ nextId \in 1..(MaxPoolId + 1)
  /\ \A entry \in pools : entry.id \in 1..(nextId - 1)

(***************************************************************************)
(* The REST client of an open connection talks to the server its           *)
(* parameters name.  setInfo replaces the parameters and keeps the client: *)
(* that is sound only because the pool ID, the rating and the string a     *)
(* pooled connection is opened with agree on what a server is.             *)
(***************************************************************************)
OpenReachesItsServer ==
  \A c \in Connections : isOpen[c] =>
    /\ params[c] # None /\ exploreClient[c] # None
    /\ EqualText(exploreClient[c].host, params[c].host)
    /\ exploreClient[c].port = IF params[c].port > 0 THEN params[c].port ELSE 0

(***************************************************************************)
(* One server has one pool, whatever the case its name is written in, and  *)
(* a pool ID is not given twice.                                           *)
(***************************************************************************)
PoolPerServer ==
  \A e1, e2 \in pools :
    (EqualText(e1.host, e2.host) /\ e1.port = e2.port) \/ e1.id = e2.id => e1 = e2

(***************************************************************************)
(* Every connection a pool keeps can serve every request sent to that      *)
(* pool: getPoolID and rateConnection agree.  (A port of zero or less is   *)
(* not written to the string a pooled connection is opened with, which     *)
(* then has port 10000 and is rated 0 for ever.)                           *)
(***************************************************************************)
PooledServeTheirPool ==
  \A t \in Tokens : infos[t].phase = "rating" /\ infos[t].params.port > 0 =>
    \A c \in Candidates(t) : RateConnection(t, c) > 0

(***************************************************************************)
(* Whichever way a request of the pool is served - as is, after setInfo,   *)
(* or by a new connection opened from a string that is written and read    *)
(* again - the connection has the parameters of the request, and, when it  *)
(* is not new, its modes.  The string drops the data source name and a     *)
(* port of zero or less.                                                    *)
(***************************************************************************)
HandedOver(c) ==
  /\ dm'[c].state = "connected" /\ dm[c].state # "connected"
  /\ dm'[c].token # None

HandedOverAsRequested ==
  [][\A c \in Connections : HandedOver(c) =>
       LET info == infos[dm'[c].token]
       IN  /\ info.params.port > 0 =>
                EqualParams([params'[c] EXCEPT !.dsn = info.params.dsn], info.params)
           /\ dm[c].state = "pooled" =>
                /\ isAsync'[c] = info.isAsync
                /\ isFunctionsAsync'[c] = info.isFunctionsAsync]_vars

(***************************************************************************)
(* A connect call, repeated while it is still executing, comes to an end.  *)
(***************************************************************************)
ConnectAnswered ==
  \A c \in Connections :
    dm[c].state \in {"calling", "waiting", "polling"} ~>
      dm[c].state \notin {"calling", "waiting", "polling"}
=============================================================================
