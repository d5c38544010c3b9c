----------------------------- MODULE Statement -----------------------------
(***************************************************************************)
(* One ODBC statement: its states, its command and data reader, and the    *)
(* asynchronous execution of its calls.                                    *)
(*                                                                         *)
(* Two kinds of threads take steps: the application, which calls through   *)
(* the Driver Manager, and the pool that runs the statement's tasks.  A    *)
(* call and the body of a task both run under the lock of the connection   *)
(* and are one step each; a task is done one step after its body.  A call  *)
(* that returns SQL_STILL_EXECUTING is repeated until it returns something *)
(* else, and the Driver Manager lets no other call through meanwhile.      *)
(*                                                                         *)
(* The data reader is abstract here: it hands out the rows of its source   *)
(* in order, as RowStream says.  QueryReader has its detail.               *)
(***************************************************************************)
EXTENDS Integers, FiniteSets

CONSTANTS
  Queries,         \* the texts SQLExecDirect and SQLPrepare are called with
  RowCount,        \* request -> number of rows of its result
  Local,           \* the queries whose reader never asks the server: SELECT 1, DDL
  FrameSize,       \* rows of a frame of the other queries' readers
  Columns,         \* column numbers an application may bind
  Modes,           \* the values SQL_ATTR_ASYNC_ENABLE may take: subset of BOOLEAN
  MaxOpened,       \* bound on the successful executions
  MaxFailures      \* bound on the failures of the server

\* The catalog functions; those of SyncOnly have no asynchronous form and no request to
\* the server: SQLGetTypeInfo, SQLSpecialColumns, SQLTables for schemas.
SyncOnly == {"types"}
Catalog == {"columns", "tables"} \cup SyncOnly
Requests == Queries \cup Catalog

\* What is answered without the server: QueryCommand answers SELECT 1 by itself.
Offline == SyncOnly \cup (Queries \cap {"select 1"})

ASSUME StatementAssumption ==
  /\ Queries \cap (Catalog \cup {"fetch", "no command", "no call", "close", "unbind",
                              "resetParams", "bind", "setAsync"}) = {}
  /\ RowCount \in [Requests -> Nat]
  /\ Local \subseteq Queries
  /\ FrameSize \in Nat \ {0}
  /\ Modes \subseteq BOOLEAN /\ Modes # {}
  /\ MaxOpened \in Nat /\ MaxFailures \in Nat

VARIABLES
  state,            \* State
  command,          \* the request the command was made for
  dataReader,
  columnBindings,
  isAsync,
  tasks,            \* executeTask, columnsTask, tablesTask and fetchTask
  buffer,           \* column -> the row last copied to the application's buffer
  failures,         \* failures of the server still to come
  crashed,          \* the reader read the front of an empty frame cache
  \* the application and the Driver Manager
  call,             \* the call that returned SQL_STILL_EXECUTING
  cursor,           \* closed, open after an execution, or end after SQL_NO_DATA
  answer,           \* the last call and what it returned
  ownFailure,       \* history: the server failed the last call or the reader it reads from
  opened,           \* history: number of successful executions
  fetches           \* history: rows reported since the last execution

objectVars == <<state, command, dataReader>>
historyVars == <<ownFailure, opened, fetches>>
vars == <<objectVars, columnBindings, isAsync, tasks, buffer, failures, crashed,
          call, cursor, answer, historyVars>>

-----------------------------------------------------------------------------
States == {"INITIAL", "PREPARE", "OPEN", "FETCH", "CLOSED"}
Functions == {"execute", "columns", "tables", "fetch"}
Codes == {"SUCCESS", "NO_DATA", "ERROR", "STILL_EXECUTING"}

NoCommand == "no command"

\* A reader, by what it reads from, whether it was asked for a row, the rows it handed out,
\* and whether a request for rows failed: drained if that left the frame cache empty.
Readers == [source : Requests, firstLoad : BOOLEAN, pos : Nat, failed : BOOLEAN,
            drained : BOOLEAN]
NewReader(source, first) ==
  [source |-> source, firstLoad |-> first, pos |-> 0, failed |-> FALSE, drained |-> FALSE]
NoReader == NewReader(NoCommand, FALSE)

NoTask == [stage |-> "none", request |-> NoCommand, code |-> "SUCCESS"]
Tasks == [stage : {"queued", "ran", "done"}, request : Requests \cup {"fetch"}, code : Codes]

NoRow == [exec |-> 0, pos |-> 0]
NoCall == "no call"

\* The task of a call that can run asynchronously.
TaskOf(request) == IF request \in Queries THEN "execute" ELSE request

Init ==
  /\ state = "INITIAL"
  /\ command = NoCommand
  /\ dataReader = NoReader
  /\ columnBindings = {}
  /\ isAsync \in Modes
  /\ tasks = [f \in Functions |-> NoTask]
  /\ buffer = [c \in Columns |-> NoRow]
  /\ failures = MaxFailures
  /\ crashed = FALSE
  /\ call = NoCall
  /\ cursor = "closed"
  /\ answer = [fn |-> NoCall, code |-> "SUCCESS"]
  /\ ownFailure = FALSE
  /\ opened = 0
  /\ fetches = 0

-----------------------------------------------------------------------------
(***************************************************************************)
(* The bodies: executeInternal, getColumnsInternal, getTablesInternal and  *)
(* fetchInternal, with the code they end in.                               *)
(***************************************************************************)

\* The server fails the body of the call, ...
ServerFails ==
  /\ failures > 0
  /\ failures' = failures - 1
  /\ ownFailure' = TRUE

\* ... or does not: what it did to this call before stays as it was.
ServerAnswers ==
  /\ ownFailure' = (call # NoCall /\ ownFailure)
  /\ UNCHANGED failures

\* The states a request is accepted in.
Accepting(request) == IF request \in Queries THEN {"INITIAL", "PREPARE"} ELSE {"INITIAL"}

\* A statement that is prepared keeps its command, whatever the new request is; openQuery
\* makes the reader, and a failure leaves the statement prepared.
OpenBody(request, code) ==
  \/ /\ state \in Accepting(request)
     /\ command' = IF state = "PREPARE" THEN command ELSE request
     /\ \/ /\ code = "SUCCESS"
           /\ dataReader' = NewReader(command', TRUE)
           /\ state' = "OPEN"
           /\ opened' = opened + 1
           /\ fetches' = 0
           /\ ServerAnswers
        \/ /\ code = "ERROR"
           /\ command' \notin Offline
           /\ ServerFails
           /\ state' = "PREPARE"
           /\ UNCHANGED <<dataReader, opened, fetches>>
  \/ /\ state \notin Accepting(request)
     /\ code = "ERROR"
     /\ ServerAnswers
     /\ UNCHANGED <<objectVars, opened, fetches>>

IsLocal(reader) == reader.source \in Local \cup Catalog

\* The number of frames the reader went into, and whether it asks for a further one:
\* before the first row, and while the last frame was full.
FramesOf(reader) == (reader.pos + FrameSize - 1) \div FrameSize
AsksServer(reader) ==
  ~IsLocal(reader) /\ (reader.firstLoad \/ FramesOf(reader) * FrameSize <= RowCount[reader.source])

\* What a failed request leaves in the frame cache: nothing when it was the first one.  At
\* the end of a frame, nothing if the frame was popped before the reader waited for the
\* request, that frame if the failure was seen first.  Else the frame being read.
DrainedBy(reader) ==
  IF reader.firstLoad THEN {TRUE} ELSE IF reader.pos % FrameSize = 0 THEN BOOLEAN ELSE {FALSE}

\* canReadFast reads the front of the frame cache whatever happened before.  read() throws
\* the exception of a failed task first, and the first request had no task.
ReadsEmptyCache(reader) == reader.drained /\ (isAsync \/ reader.pos = 0)

\* The next row is the current frame's.
CanReadFast(reader) ==
  \/ IsLocal(reader)
  \/ /\ ~reader.firstLoad
     /\ reader.pos % FrameSize # 0
     /\ reader.pos # RowCount[reader.source]

\* Mutant of Advance: the reader goes backwards.
AdvanceBack(reader) == [reader EXCEPT !.pos = @ - 1, !.firstLoad = FALSE]

\* Mutant of Advance: the reader stays at its row.
AdvanceNot(reader) == [reader EXCEPT !.firstLoad = FALSE]

\* read() finds a row.
Advance(reader) == [reader EXCEPT !.pos = @ + 1, !.firstLoad = FALSE]

\* Mutant of AtEnd: the last row is taken for the end.
AtEndEarly(reader) == reader.pos + 1 >= RowCount[reader.source]

\* read() finds no row.
AtEnd(reader) == reader.pos = RowCount[reader.source]

\* fetchInternal copies the row that was read to every bound column.
FetchBody(code) ==
  \/ /\ state \in {"OPEN", "FETCH"}
     /\ ~dataReader.failed
     /\ UNCHANGED command
     /\ \/ /\ code = "SUCCESS"
           /\ ~AtEnd(dataReader)
           /\ state' = "FETCH"
           /\ dataReader' = Advance(dataReader)
           /\ buffer' = [c \in Columns |-> IF c \in columnBindings
                                           THEN [exec |-> opened, pos |-> dataReader'.pos]
                                           ELSE buffer[c]]
           /\ ServerAnswers
        \/ /\ code = "NO_DATA"
           /\ AtEnd(dataReader)
           /\ state' = "CLOSED"
           /\ dataReader' = [dataReader EXCEPT !.firstLoad = FALSE]
           /\ UNCHANGED buffer
           /\ ServerAnswers
        \/ /\ code = "ERROR"
           /\ AsksServer(dataReader)
           /\ ServerFails
           /\ state' = "FETCH"
           /\ \E drained \in DrainedBy(dataReader) :
                dataReader' = [dataReader EXCEPT !.failed = TRUE, !.firstLoad = FALSE,
                                                 !.drained = drained]
           /\ UNCHANGED buffer
  \/ /\ state \in {"OPEN", "FETCH"}
     /\ dataReader.failed
     /\ code = "ERROR"
     /\ ownFailure' = TRUE
     /\ UNCHANGED <<objectVars, buffer, failures>>
  \/ /\ state \notin {"OPEN", "FETCH"}
     /\ code = "ERROR"
     /\ ServerAnswers
     /\ UNCHANGED <<objectVars, buffer>>

-----------------------------------------------------------------------------
(***************************************************************************)
(* Calls.                                                                  *)
(***************************************************************************)

\* The Driver Manager lets a new call through, or the repetition of an unfinished one.
LetsThrough(fn) == ~crashed /\ (call = NoCall \/ call = fn)

\* The driver returns from a call.
Answer(fn, code) ==
  /\ answer' = [fn |-> fn, code |-> code]
  /\ call' = IF code = "STILL_EXECUTING" THEN fn ELSE NoCall

\* A request that is answered with success opens the cursor; it needs it closed.
AnswerRequest(request, code) ==
  /\ Answer(request, code)
  /\ cursor' = IF code = "SUCCESS" THEN "open" ELSE "closed"

AnswerFetch(code) ==
  /\ Answer("fetch", code)
  /\ cursor' = IF code = "NO_DATA" THEN "end" ELSE cursor

RunsAsync(request) == isAsync /\ request \notin SyncOnly

\* execute, getColumns, getTables, and the requests without an asynchronous form.
CallSync(request) ==
  /\ LetsThrough(request)
  /\ cursor = "closed" /\ opened < MaxOpened
  /\ ~RunsAsync(request)
  /\ \E code \in Codes : OpenBody(request, code) /\ AnswerRequest(request, code)
  /\ UNCHANGED <<columnBindings, isAsync, tasks, buffer, crashed>>

\* runAsync, the first time: the task is queued.
CallAsync(request) ==
  /\ LetsThrough(request)
  /\ cursor = "closed" /\ opened < MaxOpened
  /\ RunsAsync(request)
  /\ tasks[TaskOf(request)] = NoTask
  /\ tasks' = [tasks EXCEPT ![TaskOf(request)] =
                 [stage |-> "queued", request |-> request, code |-> "SUCCESS"]]
  /\ AnswerRequest(request, "STILL_EXECUTING")
  /\ ServerAnswers
  /\ UNCHANGED <<objectVars, columnBindings, isAsync, buffer, crashed, opened, fetches>>

\* What a call is told that finds a task there.
Reply(task) == IF task.stage = "done" THEN task.code ELSE "STILL_EXECUTING"

\* Mutant of AfterPoll: a finished task is not forgotten.
AfterPollKept(task) == task

\* Mutant of AfterPoll: a task that is not done is started again.
AfterPollRestarted(task) ==
  IF task.stage = "done" THEN NoTask ELSE [task EXCEPT !.stage = "queued"]

\* The task is forgotten when its result was taken; get() throws the exception of a failed
\* task first, so that this task stays.
AfterPoll(task) == IF task.stage = "done" /\ task.code # "ERROR" THEN NoTask ELSE task

\* runAsync with a task there; what it was started for is not compared with the request.
PollAsync(request) ==
  /\ LetsThrough(request)
  /\ cursor = "closed"
  /\ RunsAsync(request)
  /\ tasks[TaskOf(request)] # NoTask
  /\ tasks' = [tasks EXCEPT ![TaskOf(request)] = AfterPoll(@)]
  /\ AnswerRequest(request, Reply(tasks[TaskOf(request)]))
  /\ ServerAnswers
  /\ UNCHANGED <<objectVars, columnBindings, isAsync, buffer, crashed, opened, fetches>>

\* The application fetches until SQL_NO_DATA.
LetsFetch ==
  /\ LetsThrough("fetch")
  /\ cursor = "open"

CountRow(code) == fetches' = IF code = "SUCCESS" THEN fetches + 1 ELSE fetches

\* The body runs in the call: fetch, or fetchAsync when the row is there.
FetchNow(code) ==
  /\ FetchBody(code)
  /\ CountRow(code)
  /\ AnswerFetch(code)
  /\ UNCHANGED <<columnBindings, isAsync, tasks, crashed, opened>>

Readable == state \in {"OPEN", "FETCH"}

\* read() or canReadFast reads the front of an empty frame cache.
FetchCrashes ==
  /\ LetsFetch
  /\ Readable /\ ReadsEmptyCache(dataReader)
  /\ crashed' = TRUE
  /\ UNCHANGED <<objectVars, columnBindings, isAsync, tasks, buffer, failures,
                 call, cursor, answer, historyVars>>

FetchSync ==
  /\ LetsFetch
  /\ ~isAsync
  /\ Readable => ~ReadsEmptyCache(dataReader)
  /\ \E code \in Codes : FetchNow(code)

\* A statement in another state answers with an error, whatever its task found.
FetchAsyncFast ==
  /\ LetsFetch
  /\ isAsync
  /\ Readable => ~ReadsEmptyCache(dataReader) /\ CanReadFast(dataReader)
  /\ \E code \in Codes : FetchNow(code)

FetchAsyncStart ==
  /\ LetsFetch
  /\ isAsync
  /\ Readable /\ ~ReadsEmptyCache(dataReader) /\ ~CanReadFast(dataReader)
  /\ tasks["fetch"] = NoTask
  /\ tasks' = [tasks EXCEPT !["fetch"] =
                 [stage |-> "queued", request |-> "fetch", code |-> "SUCCESS"]]
  /\ AnswerFetch("STILL_EXECUTING")
  /\ ServerAnswers
  /\ UNCHANGED <<objectVars, columnBindings, isAsync, buffer, crashed, opened, fetches>>

FetchAsyncPoll ==
  /\ LetsFetch
  /\ isAsync
  /\ Readable /\ ~ReadsEmptyCache(dataReader) /\ ~CanReadFast(dataReader)
  /\ tasks["fetch"] # NoTask
  /\ tasks' = [tasks EXCEPT !["fetch"] = AfterPoll(@)]
  /\ AnswerFetch(Reply(tasks["fetch"]))
  /\ CountRow(Reply(tasks["fetch"]))
  /\ ServerAnswers
  /\ UNCHANGED <<objectVars, columnBindings, isAsync, buffer, crashed, opened>>

-----------------------------------------------------------------------------
(***************************************************************************)
(* The pool.                                                               *)
(***************************************************************************)

\* The body of the task of a request, under the lock of the connection.
RunRequest(f) ==
  /\ ~crashed
  /\ f # "fetch"
  /\ tasks[f].stage = "queued"
  /\ \E code \in Codes :
       /\ OpenBody(tasks[f].request, code)
       /\ tasks' = [tasks EXCEPT ![f].stage = "ran", ![f].code = code]
  /\ UNCHANGED <<columnBindings, isAsync, buffer, crashed, call, cursor, answer>>

RunFetch ==
  /\ ~crashed
  /\ tasks["fetch"].stage = "queued"
  /\ \E code \in Codes :
       /\ FetchBody(code)
       /\ tasks' = [tasks EXCEPT !["fetch"].stage = "ran", !["fetch"].code = code]
  /\ UNCHANGED <<columnBindings, isAsync, crashed, call, cursor, answer, opened, fetches>>

\* is_done() becomes true after the body released the lock.
Complete(f) ==
  /\ tasks[f].stage = "ran"
  /\ tasks' = [tasks EXCEPT ![f].stage = "done"]
  /\ UNCHANGED <<objectVars, columnBindings, isAsync, buffer, failures, crashed,
                 call, cursor, answer, historyVars>>

-----------------------------------------------------------------------------
(***************************************************************************)
(* The calls that never run asynchronously.                                *)
(***************************************************************************)

\* The call ends in this step, and no request to the server is part of it.
AnswerAtOnce(fn, accepted) ==
  /\ ~crashed
  /\ call = NoCall
  /\ answer' = [fn |-> fn, code |-> IF accepted THEN "SUCCESS" ELSE "ERROR"]
  /\ ownFailure' = FALSE
  /\ UNCHANGED <<tasks, buffer, failures, crashed, call, opened, fetches>>

\* Mutant of FreeStmtClose: the reader stays.
FreeStmtCloseKeepsReader ==
  /\ AnswerAtOnce("close", TRUE)
  /\ cursor' = "closed"
  /\ state' = "INITIAL"
  /\ command' = NoCommand
  /\ UNCHANGED <<dataReader, columnBindings, isAsync>>

\* Mutant of FreeStmtClose: the statement stays prepared.
FreeStmtCloseToPrepared ==
  /\ AnswerAtOnce("close", TRUE)
  /\ cursor' = "closed"
  /\ state' = IF state = "INITIAL" THEN state ELSE "PREPARE"
  /\ dataReader' = NoReader
  /\ UNCHANGED <<command, columnBindings, isAsync>>

\* SQLFreeStmt(SQL_CLOSE): reset.  Bindings and tasks stay.
FreeStmtClose ==
  /\ AnswerAtOnce("close", TRUE)
  /\ cursor' = "closed"
  /\ state' = "INITIAL"
  /\ command' = NoCommand
  /\ dataReader' = NoReader
  /\ UNCHANGED <<columnBindings, isAsync>>

\* SQLFreeStmt(SQL_UNBIND): unbindColumns.
FreeStmtUnbind ==
  LET accepted == state \in {"INITIAL", "PREPARE", "OPEN"} IN
  /\ AnswerAtOnce("unbind", accepted)
  /\ columnBindings' = IF accepted THEN {} ELSE columnBindings
  /\ UNCHANGED <<objectVars, isAsync, cursor>>

\* SQLFreeStmt(SQL_RESET_PARAMS): resetParameters has nothing to reset.
FreeStmtResetParams ==
  /\ AnswerAtOnce("resetParams", state = "INITIAL")
  /\ UNCHANGED <<objectVars, columnBindings, isAsync, cursor>>

\* SQLBindCol with a buffer: addColumnBinding.
BindCol(c) ==
  LET accepted == state # "CLOSED" IN
  /\ AnswerAtOnce("bind", accepted)
  /\ columnBindings' = IF accepted THEN columnBindings \cup {c} ELSE columnBindings
  /\ UNCHANGED <<objectVars, isAsync, cursor>>

\* SQLBindCol without a buffer: removeColumnBinding.
UnbindCol(c) ==
  /\ AnswerAtOnce("bind", c \in columnBindings)
  /\ columnBindings' = columnBindings \ {c}
  /\ UNCHANGED <<objectVars, isAsync, cursor>>

\* SQLSetStmtAttr(SQL_ATTR_ASYNC_ENABLE): setAsync.
SetAsync(value) ==
  /\ AnswerAtOnce("setAsync", TRUE)
  /\ isAsync' = value
  /\ UNCHANGED <<objectVars, columnBindings, cursor>>

\* Nothing can be said after the crash.
Crashed == crashed /\ UNCHANGED vars

Fetch == FetchCrashes \/ FetchSync \/ FetchAsyncFast \/ FetchAsyncStart \/ FetchAsyncPoll

Call == \/ \E r \in Requests : CallSync(r) \/ CallAsync(r) \/ PollAsync(r)
        \/ Fetch

Pool == \/ \E f \in Functions : RunRequest(f) \/ Complete(f)
        \/ RunFetch

Other == \/ FreeStmtClose \/ FreeStmtUnbind \/ FreeStmtResetParams
         \/ \E c \in Columns : BindCol(c) \/ UnbindCol(c)
         \/ \E value \in Modes : SetAsync(value)

Next == Call \/ Pool \/ Other \/ Crashed

Spec == Init /\ [][Next]_vars

\* The pool runs what is queued, and an application that got SQL_STILL_EXECUTING calls
\* again, as the asynchronous tests do.
Fairness ==
  /\ WF_vars(Pool)
  /\ WF_vars(call # NoCall /\ Call)

FairSpec == Spec /\ Fairness

-----------------------------------------------------------------------------
(***************************************************************************)
(* Properties.                                                             *)
(***************************************************************************)

TypeOK ==
  /\ state \in States
  /\ command \in Requests \cup {NoCommand}
  /\ dataReader \in Readers \cup {NoReader}
  /\ columnBindings \subseteq Columns
  /\ isAsync \in BOOLEAN
  /\ tasks \in [Functions -> Tasks \cup {NoTask}]
  /\ buffer \in [Columns -> [exec : Nat, pos : Nat]]
  /\ failures \in Nat /\ opened \in Nat /\ fetches \in Nat
  /\ crashed \in BOOLEAN /\ cursor \in {"closed", "open", "end"} /\ ownFailure \in BOOLEAN
  /\ call \in Requests \cup {"fetch", NoCall}
  /\ answer.code \in Codes

\* The state tells which of the command and the reader exist, so that no fetch, close or
\* request, which look at the state first, follows a null pointer: also between the body of
\* a task and the call that collects its result, after a body that failed, and when the
\* mode changes.  SQLDescribeCol and its like look at no state, and are not covered.
StateMatchesResources ==
  /\ state = "INITIAL" => command = NoCommand /\ dataReader = NoReader
  /\ state = "PREPARE" => command # NoCommand /\ dataReader = NoReader
  /\ state \in {"OPEN", "FETCH", "CLOSED"} =>
       command # NoCommand /\ dataReader.source = command

\* A request that reports success leaves the statement open at the first row: the result
\* of an asynchronous call is reported once and belongs to the call that asked for it.
SuccessIsFresh ==
  answer.fn \in Requests /\ answer.code = "SUCCESS" =>
    state = "OPEN" /\ dataReader.firstLoad /\ cursor = "open"

\* A fetch that reports a row has put that row, the next one of the execution, into the
\* buffer of every bound column: no row is lost or repeated between a task and its call.
BoundColumnsCurrent ==
  answer = [fn |-> "fetch", code |-> "SUCCESS"] =>
    \A c \in columnBindings : buffer[c] = [exec |-> opened, pos |-> fetches]

\* SQL_NO_DATA comes when every row was reported.
NoDataIsComplete ==
  answer = [fn |-> "fetch", code |-> "NO_DATA"] => fetches = RowCount[dataReader.source]

\* Each fetch delivers the next row until the last one, and then the end.
FetchesExact == BoundColumnsCurrent /\ NoDataIsComplete

\* A result that needs no server is fetched exactly in either mode, whatever ran on the
\* statement before it and whatever tasks that left behind.
LocalFetchesExact == IsLocal(dataReader) => FetchesExact

\* A request or a fetch that the Driver Manager lets through fails when the server failed
\* it, and for no other reason.
ErrorsAreReal ==
  answer.fn \in Requests \cup {"fetch"} /\ answer.code = "ERROR" => ownFailure

\* What is open after a request was answered with success is that request.
ExecutesRequested ==
  answer.fn \in Requests /\ answer.code = "SUCCESS" => command = answer.fn

\* As long as the server failed nothing, synchronous calls, closes and bindings never lead
\* to an error or to another query than the one asked for, in whatever order they come.
ExactUntilFailure == failures = MaxFailures => ErrorsAreReal /\ ExecutesRequested

\* A call that returned SQL_STILL_EXECUTING gets its answer if it is repeated.
CallsAnswered == (call # NoCall) ~> (call = NoCall \/ crashed)
=============================================================================
