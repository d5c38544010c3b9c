--------------------------- MODULE QueryExecution ---------------------------
(***************************************************************************)
(* The execution of queries: SQLExecDirect and SQLTables of the statements *)
(* of one connection, request by request, with the server's queries, the   *)
(* retries of an application and the diagnostics it reads.                 *)
(*                                                                         *)
(* Each statement has a thread of the application of its own.  A call      *)
(* holds the lock of the connection until it returns, so that the calls of *)
(* the other statements wait for the query it polls.  Statements are       *)
(* synchronous here; Statement has the asynchronous calls, QueryReader     *)
(* what a data reader does once it is open.                                *)
(***************************************************************************)
EXTENDS Integers, Sequences

CONSTANTS
  Statements,
  Texts,         \* the query texts
  SelectOne,     \* those QueryCommand answers itself
  Malformed,     \* those with an escape sequence the parser refuses
  Length,        \* text -> number of characters
  HavingCount,   \* those with "HAVING (COUNT(1) > 0)" in them
  ServerStatuses,\* the statuses the server's queries go through
  MaxCalls,      \* bound on the calls
  MaxFailures    \* bound on the failed requests

None == "none"

\* OperationStatus, and a name that parseStatus does not know.
Running == {"INITIALIZED", "PENDING", "RUNNING"}
Ended == {"FINISHED", "ERROR", "CANCELED", "CLOSED", "UNKNOWN", "not a status"}

ASSUME QueryAssumption ==
  /\ None \notin Statements
  /\ SelectOne \subseteq Texts /\ Malformed \subseteq Texts \ SelectOne
  /\ HavingCount \subseteq Texts
  /\ Length \in [Texts -> Nat]
  /\ ServerStatuses \subseteq Running \cup Ended
  /\ MaxCalls \in Nat /\ MaxFailures \in Nat

VARIABLES
  state,        \* statement -> State: OPEN stands for FETCH and CLOSED too
  command,      \* statement -> its command
  dataReader,   \* statement -> the query it reads, Offline, or NoReader
  sqlStatus,    \* statement -> SQLSTATEs, the latest first
  lock,         \* the statement whose call holds the connection's lock
  pc,           \* statement -> where its thread is in the call
  args,         \* statement -> the arguments of the call
  result,       \* statement -> what the last call returned
  queries,      \* the queries of the server; a handle is an index
  failures,     \* failed requests still to come
  calls,        \* number of calls
  linkFailed    \* statement -> history: the last call ended in an answer with another code

clientVars == <<state, command, dataReader>>
callVars == <<lock, pc, args, result, calls, linkFailed>>
vars == <<clientVars, sqlStatus, callVars, queries, failures>>

-----------------------------------------------------------------------------
\* The conversion of the text's length to SQLSMALLINT, and what toStdString makes of it.
SQL_NTS == -3
Int16(n) == ((n + 32768) % 65536) - 32768
NoText == [text |-> None, length |-> 0]

ReceivedUnchecked(text, n) ==
  [text |-> text, length |-> IF Int16(n) = SQL_NTS THEN Length[text] ELSE Int16(n)]

Received(text, n) ==
  CASE Int16(n) = SQL_NTS -> [text |-> text, length |-> Length[text]]
    [] Int16(n) >= 0 -> [text |-> text, length |-> Int16(n)]
    [] OTHER -> NoText

Whole(query) == query.length = Length[query.text]

Arguments == [fn : {"SQLExecDirect"}, text : Texts, length : {SQL_NTS}]
             \cup {[fn |-> "SQLExecDirect", text |-> t, length |-> Length[t]] : t \in Texts}
             \cup {[fn |-> f, text |-> None, length |-> 0] : f \in {"SQLTables", "SQLFreeStmt"}}
NoArguments == [fn |-> None, text |-> None, length |-> 0]

\* A command: for a query or for the tables; number is the history of who made it.
NoHandle == 0
NoCommand == [fn |-> None, query |-> NoText, handle |-> NoHandle, by |-> None, number |-> 0]
NoReader == -1
Offline == 0

\* How a request may end, and the SQLSTATE of the exception doRequest ends in; "transport"
\* is an exception of the HTTP client.
Outcomes == {"BadRequest", "Unauthorized", "other status", "transport"}
GeneralError == <<"H", "Y", "0", "0", "0">>
LinkFailure == <<"0", "8", "S", "0", "1">>
SqlState(outcome) == IF outcome = "other status" THEN LinkFailure ELSE GeneralError

Init ==
  /\ state = [s \in Statements |-> "INITIAL"]
  /\ command = [s \in Statements |-> NoCommand]
  /\ dataReader = [s \in Statements |-> NoReader]
  /\ sqlStatus = [s \in Statements |-> << >>]
  /\ lock = None
  /\ pc = [s \in Statements |-> "idle"]
  /\ args = [s \in Statements |-> NoArguments]
  /\ result = [s \in Statements |-> None]
  /\ queries = << >>
  /\ failures = MaxFailures
  /\ calls = 0
  /\ linkFailed = [s \in Statements |-> FALSE]

-----------------------------------------------------------------------------
(***************************************************************************)
(* The frame of a call: it takes the lock, clears the statement's records  *)
(* and returns a code, with a record when an exception reached the entry   *)
(* point.                                                                  *)
(***************************************************************************)
Call(s) ==
  /\ pc[s] = "idle" /\ calls < MaxCalls
  /\ pc' = [pc EXCEPT ![s] = "called"]
  /\ calls' = calls + 1
  /\ result' = [result EXCEPT ![s] = None]
  /\ linkFailed' = [linkFailed EXCEPT ![s] = FALSE]
  /\ UNCHANGED <<clientVars, sqlStatus, lock, args, queries, failures>>

EnterUncleared(s) ==
  /\ pc[s] = "called" /\ lock = None
  /\ lock' = s
  /\ \E a \in Arguments : args' = [args EXCEPT ![s] = a]
  /\ pc' = [pc EXCEPT ![s] = "entered"]
  /\ UNCHANGED <<clientVars, sqlStatus, result, calls, linkFailed, queries, failures>>

Enter(s) ==
  /\ pc[s] = "called" /\ lock = None
  /\ lock' = s
  /\ sqlStatus' = [sqlStatus EXCEPT ![s] = << >>]
  /\ \E a \in Arguments : args' = [args EXCEPT ![s] = a]
  /\ pc' = [pc EXCEPT ![s] = "entered"]
  /\ UNCHANGED <<clientVars, result, calls, linkFailed, queries, failures>>

Return(s, code) ==
  /\ pc' = [pc EXCEPT ![s] = "idle"]
  /\ lock' = None
  /\ result' = [result EXCEPT ![s] = code]
  /\ args' = [args EXCEPT ![s] = NoArguments]
  /\ UNCHANGED calls

Succeed(s) == Return(s, "SUCCESS") /\ UNCHANGED <<sqlStatus, linkFailed>>

\* The exception of the body is added in front of the records.
Throw(s, sqlState, outcome) ==
  /\ Return(s, "ERROR")
  /\ sqlStatus' = [sqlStatus EXCEPT ![s] = <<sqlState>> \o @]
  /\ linkFailed' = [linkFailed EXCEPT ![s] = (outcome = "other status")]

Proceed(s, stage) ==
  /\ pc' = [pc EXCEPT ![s] = stage]
  /\ UNCHANGED <<sqlStatus, lock, args, result, calls, linkFailed>>

\* A request that changes nothing on the server fails, and with it the call.
RequestFails(s) ==
  /\ failures > 0
  /\ failures' = failures - 1
  /\ \E o \in Outcomes : Throw(s, SqlState(o), o)
  /\ UNCHANGED <<clientVars, queries>>

-----------------------------------------------------------------------------
(***************************************************************************)
(* SQLExecDirect and SQLPrepare: executeInternal makes the command unless  *)
(* one was left by a call that failed, and opens it.                       *)
(***************************************************************************)
NewCommand(s, fn, query) ==
  [fn |-> fn, query |-> query, handle |-> NoHandle, by |-> s, number |-> calls]

BeginExecute(s) ==
  /\ pc[s] = "entered" /\ args[s].fn = "SQLExecDirect"
  /\ LET query == Received(args[s].text, args[s].length)
     IN  \/ /\ query # NoText
            /\ state[s] \in {"INITIAL", "PREPARE"}
            /\ command' = IF state[s] = "INITIAL"
                          THEN [command EXCEPT ![s] = NewCommand(s, "SQLExecDirect", query)]
                          ELSE command
            /\ state' = [state EXCEPT ![s] = "PREPARE"]
            /\ Proceed(s, "open")
         \/ /\ query = NoText \/ state[s] \notin {"INITIAL", "PREPARE"}
            /\ Throw(s, GeneralError, "driver")
            /\ UNCHANGED <<state, command>>
  /\ UNCHANGED <<dataReader, queries, failures>>

\* Statement::openQuery has a reader.
Opened(s, reader) ==
  /\ dataReader' = [dataReader EXCEPT ![s] = reader]
  /\ state' = [state EXCEPT ![s] = "OPEN"]
  /\ Succeed(s)
  /\ UNCHANGED command

IsSelectOne(query) == query.text \in SelectOne /\ Whole(query)

\* The query that answers nothing but itself is not sent.
OpenLocally(s) ==
  /\ pc[s] = "open" /\ command[s].fn = "SQLExecDirect" /\ IsSelectOne(command[s].query)
  /\ Opened(s, Offline)
  /\ UNCHANGED <<queries, failures>>

\* A text that was cut off may or may not be one the parser refuses.
Refused(query) == query.text \in Malformed \/ ~Whole(query)
Parsed(query) == query.text \notin Malformed \/ ~Whole(query)

ParseFails(s) ==
  /\ pc[s] = "open" /\ command[s].fn = "SQLExecDirect" /\ ~IsSelectOne(command[s].query)
  /\ command[s].handle = NoHandle
  /\ Refused(command[s].query)
  /\ Throw(s, GeneralError, "driver")
  /\ UNCHANGED <<clientVars, queries, failures>>

\* ExploreClient::execute erases the first "HAVING (COUNT(1) > 0)" of what it sends, which a
\* text that was cut off may have lost with its end.
Erasures(query) ==
  {erased \in BOOLEAN :
     /\ erased => query.text \in HavingCount
     /\ Whole(query) /\ query.text \in HavingCount => erased}

\* The server has the query when the reply is lost, too.
NewQuery(c, erased, answered) ==
  [query |-> c.query, erased |-> erased, by |-> c.by, number |-> c.number,
   status |-> "INITIALIZED", answered |-> answered]

Send(s, answered) ==
  \E erased \in Erasures(command[s].query) :
    queries' = Append(queries, NewQuery(command[s], erased, answered))

Submitting(s) ==
  /\ pc[s] = "open" /\ command[s].fn = "SQLExecDirect" /\ ~IsSelectOne(command[s].query)
  /\ command[s].handle = NoHandle
  /\ Parsed(command[s].query)

Submit(s) ==
  /\ Submitting(s)
  /\ Send(s, TRUE)
  /\ command' = [command EXCEPT ![s].handle = Len(queries')]
  /\ Proceed(s, "status")
  /\ UNCHANGED <<state, dataReader, failures>>

SubmitFails(s) == Submitting(s) /\ RequestFails(s)

SubmitUnanswered(s) ==
  /\ Submitting(s)
  /\ failures > 0
  /\ failures' = failures - 1
  /\ Send(s, FALSE)
  /\ Throw(s, SqlState("transport"), "server")
  /\ UNCHANGED clientVars

\* A command with a handle is not submitted again: the call goes on with its query.
ResumeResubmits(s) ==
  /\ pc[s] = "open" /\ command[s].handle # NoHandle
  /\ Send(s, TRUE)
  /\ command' = [command EXCEPT ![s].handle = Len(queries')]
  /\ Proceed(s, "status")
  /\ UNCHANGED <<state, dataReader, failures>>

Resume(s) ==
  /\ pc[s] = "open" /\ command[s].handle # NoHandle
  /\ Proceed(s, "status")
  /\ UNCHANGED <<clientVars, queries, failures>>

-----------------------------------------------------------------------------
(***************************************************************************)
(* The polling loop of executeReader.  A poll that finds the query running *)
(* changes nothing; the loop ends with the query or with a request that    *)
(* fails.                                                                  *)
(***************************************************************************)
Status(s) == queries[command[s].handle].status

PollFinished(s) ==
  /\ pc[s] = "status" /\ Status(s) = "FINISHED"
  /\ Proceed(s, "schema")
  /\ UNCHANGED <<clientVars, queries, failures>>

PollEndedUnnoticed(s) ==
  /\ pc[s] = "status" /\ Status(s) \in Ended \ {"FINISHED", "CLOSED"}
  /\ Throw(s, GeneralError, "driver")
  /\ UNCHANGED <<clientVars, queries, failures>>

\* An error, or the invalid_argument of parseStatus.
PollEnded(s) ==
  /\ pc[s] = "status" /\ Status(s) \in Ended \ {"FINISHED"}
  /\ Throw(s, GeneralError, "driver")
  /\ UNCHANGED <<clientVars, queries, failures>>

PollFails(s) == pc[s] = "status" /\ RequestFails(s)

\* The constructor of QueryDataReader asks for the schema.
LoadSchema(s) ==
  /\ pc[s] = "schema"
  /\ Opened(s, command[s].handle)
  /\ UNCHANGED <<queries, failures>>

LoadSchemaFails(s) == pc[s] = "schema" /\ RequestFails(s)

-----------------------------------------------------------------------------
(***************************************************************************)
(* SQLTables with table types: getTablesInternal, and the two requests of  *)
(* TablesCommand.  SQLExecDirect opens that command again when it failed.  *)
(***************************************************************************)
BeginTables(s) ==
  /\ pc[s] = "entered" /\ args[s].fn = "SQLTables"
  /\ \/ /\ state[s] = "INITIAL"
        /\ command' = [command EXCEPT ![s] = NewCommand(s, "SQLTables", NoText)]
        /\ state' = [state EXCEPT ![s] = "PREPARE"]
        /\ Proceed(s, "open")
     \/ /\ state[s] # "INITIAL"
        /\ Throw(s, GeneralError, "driver")
        /\ UNCHANGED <<state, command>>
  /\ UNCHANGED <<dataReader, queries, failures>>

GetStreams(s) ==
  /\ pc[s] = "open" /\ command[s].fn = "SQLTables"
  /\ Proceed(s, "datasets")
  /\ UNCHANGED <<clientVars, queries, failures>>

GetStreamsFails(s) ==
  pc[s] = "open" /\ command[s].fn = "SQLTables" /\ RequestFails(s)

GetDatasets(s) ==
  /\ pc[s] = "datasets"
  /\ Opened(s, Offline)
  /\ UNCHANGED <<queries, failures>>

GetDatasetsFails(s) == pc[s] = "datasets" /\ RequestFails(s)

\* SQLFreeStmt(SQL_CLOSE): the query is not closed on the server.
FreeStmt(s) ==
  /\ pc[s] = "entered" /\ args[s].fn = "SQLFreeStmt"
  /\ dataReader' = [dataReader EXCEPT ![s] = NoReader]
  /\ command' = [command EXCEPT ![s] = NoCommand]
  /\ state' = [state EXCEPT ![s] = "INITIAL"]
  /\ Succeed(s)
  /\ UNCHANGED <<queries, failures>>

-----------------------------------------------------------------------------
(***************************************************************************)
(* SQLGetDiagRec takes no lock.  It copies a SQLSTATE into a buffer it     *)
(* gives as one of 5 characters, the last of which is the terminator.  The *)
(* number just past the last record is an error, as 0 is; only those after *)
(* it are no data.                                                         *)
(***************************************************************************)
RecNumbers == 0..3

GetRecCount(s) == Len(sqlStatus[s])

FromStdString(str, bufferLength) ==
  SubSeq(str, 1, IF Len(str) < bufferLength - 1 THEN Len(str) ELSE bufferLength - 1)

GetDiagRec(s, recNumber) ==
  CASE GetRecCount(s) + 1 < recNumber -> [code |-> "NO_DATA", sqlState |-> << >>]
    [] recNumber \in 1..GetRecCount(s) ->
         [code |-> "SUCCESS", sqlState |-> FromStdString(sqlStatus[s][recNumber], 5)]
    [] OTHER -> [code |-> "ERROR", sqlState |-> << >>]

-----------------------------------------------------------------------------
(***************************************************************************)
(* The server: a query runs to one of its ends, and is forgotten some time *)
(* after it finished.                                                      *)
(***************************************************************************)
StatusAfter(status) ==
  CASE status = "INITIALIZED" -> ServerStatuses \ {"INITIALIZED", "CLOSED"}
    [] status = "PENDING" -> ServerStatuses \ {"INITIALIZED", "PENDING", "CLOSED"}
    [] status = "RUNNING" -> ServerStatuses \ (Running \cup {"CLOSED"})
    [] status = "FINISHED" -> ServerStatuses \cap {"CLOSED"}
    [] OTHER -> {}

Serve(i) ==
  /\ i \in DOMAIN queries
  /\ \E status \in StatusAfter(queries[i].status) :
       queries' = [queries EXCEPT ![i].status = status]
  /\ UNCHANGED <<clientVars, sqlStatus, callVars, failures>>

ServeToEnd(i) == Serve(i) /\ queries[i].status # "FINISHED"

Execute(s) == BeginExecute(s) \/ OpenLocally(s) \/ ParseFails(s) \/ Submit(s) \/ SubmitFails(s)
              \/ SubmitUnanswered(s) \/ Resume(s) \/ PollFinished(s) \/ PollEnded(s) \/ PollFails(s)
              \/ LoadSchema(s) \/ LoadSchemaFails(s)

Tables(s) == BeginTables(s) \/ GetStreams(s) \/ GetStreamsFails(s) \/ GetDatasets(s)
             \/ GetDatasetsFails(s)

Continue(s) == Enter(s) \/ Execute(s) \/ Tables(s) \/ FreeStmt(s)

Next ==
  \/ \E s \in Statements : Call(s) \/ Continue(s)
  \/ \E i \in 1..MaxCalls : Serve(i)

Spec == Init /\ [][Next]_vars

\* A thread that is in a call runs on and gets the lock, requests are answered or fail, and
\* the server comes to an end with every query.  Nothing makes the application call.
Fairness ==
  /\ \A s \in Statements : WF_vars(Continue(s))
  /\ \A i \in 1..MaxCalls : WF_vars(ServeToEnd(i))

FairSpec == Spec /\ Fairness

-----------------------------------------------------------------------------
(***************************************************************************)
(* Properties.                                                             *)
(***************************************************************************)
SqlStates == {GeneralError, LinkFailure}
Stages == {"idle", "called", "entered", "open", "status", "schema", "datasets"}
ReceivedTexts == [text : Texts \cup {None}, length : Nat]

TypeOK ==
  /\ state \in [Statements -> {"INITIAL", "PREPARE", "OPEN"}]
  /\ command \in [Statements -> [fn : {None, "SQLExecDirect", "SQLTables"},
                                 query : ReceivedTexts, handle : Nat,
                                 by : Statements \cup {None}, number : Nat]]
  /\ dataReader \in [Statements -> Nat \cup {NoReader}]
  /\ sqlStatus \in [Statements -> Seq(SqlStates)]
  /\ lock \in Statements \cup {None}
  /\ pc \in [Statements -> Stages]
  /\ args \in [Statements -> Arguments \cup {NoArguments}]
  /\ result \in [Statements -> {None, "SUCCESS", "ERROR"}]
  /\ queries \in Seq([query : ReceivedTexts, erased : BOOLEAN, by : Statements, number : Nat,
                      status : Running \cup Ended, answered : BOOLEAN])
  /\ failures \in Nat /\ calls \in Nat /\ linkFailed \in [Statements -> BOOLEAN]

(***************************************************************************)
(* However often a call fails and is repeated, the server is given the     *)
(* query of an execution once, unless its answer was lost: the handle is   *)
(* kept by the command.                                                    *)
(***************************************************************************)
SubmittedOnce ==
  \A i, j \in DOMAIN queries :
    /\ queries[i].answered /\ queries[j].answered
    /\ queries[i].by = queries[j].by /\ queries[i].number = queries[j].number
    => i = j

(***************************************************************************)
(* An open statement reads the query of its own command, which was         *)
(* finished when the reader was made, whatever calls failed before.        *)
(***************************************************************************)
ReadsItsQuery ==
  \A s \in Statements : dataReader[s] \notin {NoReader, Offline} =>
    LET q == queries[dataReader[s]]
    IN  /\ dataReader[s] = command[s].handle
        /\ q.query = command[s].query /\ q.by = s /\ q.number = command[s].number
        /\ q.status \in {"FINISHED", "CLOSED"}

(***************************************************************************)
(* The server is given a text whole, although its length is cut to 16      *)
(* bits, but for a "HAVING (COUNT(1) > 0)", which goes from every text     *)
(* that has one.  A text of 2^16 characters or more is beyond that.        *)
(***************************************************************************)
TextsWhole ==
  \A i \in DOMAIN queries :
    LET q == queries[i]
    IN  Length[q.query.text] < 65536 =>
          Whole(q.query) /\ (q.erased <=> q.query.text \in HavingCount)

QueriesAsRequested == SubmittedOnce /\ ReadsItsQuery /\ TextsWhole

(***************************************************************************)
(* After a call that failed SQLGetDiagRec has one record, that of this     *)
(* call, with the first 4 characters of its SQLSTATE: of 08S01 when the    *)
(* server answered with a code the client does not know, and of HY000      *)
(* otherwise.  After a call that succeeded it has none.  Asked for the     *)
(* record after the last one it reports an error, and no data only beyond. *)
(***************************************************************************)
ErrorsExplained ==
  \A s \in Statements : pc[s] = "idle" =>
    LET count == IF result[s] = "ERROR" THEN 1 ELSE 0
    IN  /\ result[s] = "ERROR" =>
             GetDiagRec(s, 1) =
               [code |-> "SUCCESS",
                sqlState |-> IF linkFailed[s] THEN <<"0", "8", "S", "0">>
                                              ELSE <<"H", "Y", "0", "0">>]
        /\ \A r \in RecNumbers \ 1..count :
             GetDiagRec(s, r).code = IF r <= count + 1 THEN "ERROR" ELSE "NO_DATA"

(***************************************************************************)
(* Every call returns: the lock is passed on, and no end of a query and no *)
(* failed request leaves a thread in the polling loop.                     *)
(***************************************************************************)
CallsReturn == \A s \in Statements : pc[s] # "idle" ~> pc[s] = "idle"
=============================================================================
