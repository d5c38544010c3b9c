# CDAP ODBC driver: TLA+ models, runs and proofs

The driver (`src/CdapOdbc`, C++, a Windows DLL) lets an ODBC application query a
CDAP server: the application calls the ODBC functions, the driver answers them
with requests to the server's REST interface. This directory holds TLA+ modules
of the parts in which threads, tasks and failures meet, TLC configurations that
check them on small instances, and proofs that TLAPS checks.

All paths below are relative to `src/CdapOdbc`.

## 1. Inventory

| Component | State | Operations | Hard behaviours | Correct when |
|---|---|---|---|---|
| **Row prefetch** `QueryDataReader`, `ConcurrentQueue`, `QueryResult` | queue of frames, `moreFrames`, `fetchSize`, `currentRowIndex`, one `pplx::task` | `read`, `canReadFast`, the task's `loadFrame`, destructor | the task pushes a frame, sets `moreFrames` and ends in separate steps while `read` looks at all three; a failing task; a reply that is lost; fetch size computed by division | rows in order, none twice or missing, end only after the last, no access to an empty queue, no endless wait, bounded memory |
| **Statement** | `State`, command, reader, bindings, table names, `isAsync`, four tasks | execute, catalog functions, fetch, each with a polled asynchronous form; reset, bind, unbind | the body runs in a task, the result is collected by a later call; failures between two assignments; mode changes | state tells what exists; each success reports its own call; each fetched row is the next |
| **Handle registry** `Driver` | five maps, an atomic handle counter, a mutex | `alloc*`, `free*`, `get*` | handle made outside the mutex; parents freed during an allocation; `get*` returns a reference that outlives the mutex | parents alive, handles unique and never reused, a free takes exactly what hangs on the object |
| **ODBC entry points** `core.cpp` | none of its own | 60 functions | locks, exceptions to return codes | the code returned is the one the component's outcome calls for |
| **Query execution** `QueryCommand`, `QueryStatus` | query handle, `hasData` | `executeReader` polls until the query ended; `loadRows` | every final status of the server; retry after an error; no close | result opened only if finished, handle reused on retry |
| **REST client** `ExploreClient` | HTTP client, token | requests | failure before or after the server acted | an error is never taken for an answer |
| **Connection** | REST client, params, `isOpen`, modes, open task, lock | `open`, `openAsync`, `close`, `setInfo` | failure half-way; close while a prefetch runs; uninitialised mode | open implies client and params; a failed open can be repeated |
| **Pooling** `ConnectionInfo`, `ConnectionPool`, `spi.cpp` | infos, pool ids | get id, rate, connect, set info | reuse by another info, no lock | same id exactly when exchangeable |
| **Connection string** `ConnectionParams` | parameters | parse, format, compare | quoting, round trip | what is written is read again |
| **Query text** `ODBCEscapeSequenceParser`, `ArgumentsParser` | position, stack | rewrite escapes | nesting, quotes, commas | text outside escapes unchanged, the meaning of each escape, or a refusal |
| **Catalog readers** `Tables-`, `Columns-`, `NoSchemaColumns-`, `Schemas-`, `Types-`, `SpecialColumns-`, `QuerySELECT1DataReader` | index, cached answer | `read`, `getColumnValue` | shown and real table names while the server changes | a shown name maps back to its table |
| **Value conversion** `DataReader` | none | `fetch*` per type | truncation, lengths in bytes or characters | buffer never exceeded, what is there is what the indicator says |
| **Diagnostics** `SQLStatus`, `CdapException` | list of errors | add, clear, `SQLGetDiagRec` | record numbers from 1 | each error once, then no data |
| **Data sources** `setup.cpp`, `Driver`, dialogs | registry entries | `ConfigDSN` add, modify, delete | old entry removed before the new one is written | cancel and failure change nothing |
| **Debugging aids, unused mappers** | - | - | - | not part of the behaviour |

How they meet: an entry point looks its object up in the registry (registry
mutex, released again), takes the lock of the object's connection, and calls the
statement or the connection. The statement runs its body in the call or, in
asynchronous mode, in a `pplx` task that takes the same connection lock. The
body asks the command for a reader and the reader for rows. A query's reader
asks the server through the command, and its prefetch task does so *without* the
connection lock. Freeing a handle destroys objects from the registry downwards
under the registry mutex; `SQLFreeStmt(SQL_CLOSE)` destroys command and reader
under the connection lock.

The hazards of the code, each at its line and with the properties that watch it,
are the `hazards` list of `PROJECT.json`.

## 2. Modules

| Module | Models | Size of an instance |
|---|---|---|
| `RowStream` | abstract: what `SQLFetch` promises about one result set; its weaker form may end early | - |
| `QueryReader` | `QueryDataReader` with its loader, the queue, the server's cursor, and the end of the reader | `MCQueryReader` |
| `QueryReaderProofs` | theorems about `QueryReader` | every value |
| `HandleRegistry` | the five maps of `Driver` under `SQLAllocHandle`, `SQLFreeHandle` | `MCHandleRegistry` |
| `HandleRegistryProofs` | theorems about `HandleRegistry` | every value |
| `Statement` | one `Statement` with its tasks, the application and the Driver Manager | `MCStatement` |
| `StatementProofs` | theorems about `Statement` | every value |
| `ConnectionParams` | connection strings: parse, format, compare | used by `Connection` |
| `Connection` | connections, their asynchronous open, connection infos and pools, the Driver Manager | `MCConnection` |
| `ConnectionProofs` | theorems about `Connection` and `ConnectionParams` | every value |
| `EscapeParser` | the rewriting of escape sequences and its reference translation | `MCEscapeParser` |
| `EscapeParserProofs` | theorems about `EscapeParser` | every value |
| `QueryExecution` | `executeReader` and `SQLTables` request by request, the server's queries, the lock of the connection, diagnostics | `MCQueryExecution` |
| `QueryExecutionProofs` | theorems about `QueryExecution` | every value |
| `Lifecycle` | the objects of a connection while calls, tasks and prefetches use them and frees destroy them; the registry's mutex and the connection's lock | `MCLifecycle` |
| `LifecycleProofs` | theorems about `Lifecycle` | every value |
| `Values` | values, their conversion to C types and what is written to a buffer, the table of types | used by `Catalog` |
| `Catalog` | catalog readers, table names, bindings and fetched cells | `MCCatalog` |
| `CatalogProofs` | theorems about `Catalog` and `Values` | every value |

`PROJECT.json` maps every definition to the lines it stands for.

### QueryReader

Two threads. The *loader* is `loadFrame` inside the task: `LoaderRequest`,
`LoaderPush`, `LoaderDecide` (`moreFrames`), `LoaderAdjust` (`adjustFetchSize`),
`LoaderReturn` (`is_done` becomes true). The *reading thread* is `read()`: the
calls that decide at once (`ReadNoResultSet`, `ReadFirstFrame`, `ReadRow`,
`ReadRethrows`, ...) and, at the end of a frame, the steps of `loadDataContinue`
and `tryLoadFrameAsync`: `ReadEndOfFrame`, `TryLoad`, `Launch`, `MustWait`,
`CheckEmpty`, `Wait`, `Verdict`. Each reads or writes one shared variable: the
queue (its operations are atomic under the queue's mutex), the atomic
`moreFrames`, or the state of the task.

Choices:

- `loadDataBegin` is one step (`ReadFirstFrame`): no task exists before it ends.
  Only the first request, the checks of the first frame and the launch are in it.
- `task` holds both `taskCreated` and the state of the task, as there is one task
  at most: a new one starts only when the old one is done.
- The server hands out the next rows of a query, fewer than asked for only at the
  end. This is how `moreFrames` uses it; it is the explore service's behaviour and
  not under `src/`.
- A failed request either never reached the server or, with `LostReplies`, had
  already moved its cursor.
- A response is `bytes * rows` long. A row's `bytes` come from `RowBytes`; 0 is a
  response without Content-Length, more than the optimal size a row so large that
  the fetch size becomes 0. The division truncates as in C++.
- Undefined behaviour (front of an empty `std::queue`, division by zero, use of the
  destroyed command) leads to `reader = "undefined"`, where the model stops.
- `isAsync` says whether rows are fetched with `fetchAsync`, which asks `canReadFast()`
  before it collects its task; `SetAsync` changes it between two fetches. The
  question changes nothing, so that it is an action of its own (`CanReadFast`) only where it
  reads the front of an empty cache; `ReadRethrows` and `ReadEmptyCache` are left to the cases
  in which it does not come before them. Which of the rows an asynchronous fetch hands on is
  the matter of `Statement`.
- `BeginTeardown`/`EndTeardown`: the destructor waits for the task. With
  `"reset"` the command is destroyed before, as `Statement::reset` does.

### HandleRegistry

A map is a function from live handles to the parent. An allocation is two steps
(`GenerateHandle` on the atomic counter; then `Alloc*` or `AllocFails` under the
mutex), a free is one step. Freeing a connection takes its descriptors and
statements, freeing an environment takes its connections with theirs. The
environment pointer of a connection info is not maintained: the model keeps it
in `connectionInfos` but no property is about it (Section 7).

### Statement

Bodies (`OpenBody`, `FetchBody`) are predicates of the code they end in and are
used by the synchronous calls and by the tasks. `OpenBody` has the order of the
code: `command` first, state `PREPARE`, then the reader. A call that returned
`SQL_STILL_EXECUTING` is repeated with the same function; the Driver Manager lets
nothing else through meanwhile. A task is `queued`, `ran` (its body released the
lock) and `done` (what `is_done` says). `AfterPoll` says that a task that failed
is not forgotten, as `get()` throws first.

The reader is abstract: a position in its source's rows, whether the first load
is to come, and whether a request failed (final, as `ErrorIsFinal` of
`QueryReader` shows). Its prefetch is not there: end of data is never early here.
A request that failed may have left the frame cache empty (`drained`): the first one
always did, one at the end of a frame if that frame was popped before the failure was seen
(`DrainedBy`). In asynchronous mode every fetch after that reads the front of the empty
cache in `canReadFast`, in synchronous mode only after the first request, whose error
no task keeps (`ReadsEmptyCache`): the statement is `crashed` then, and the system stops. In
`CallsAnswered` a crash ends the wait for an answer.
`CanReadFast` and `AsksServer` say when a row is in the current frame and when a
fetch needs the server; frames have `FrameSize` rows, that is the fetch size never
changes in this module. `SQLPrepare` behaves as `SQLExecDirect` and `SQLExecute`
does nothing (`core.cpp` 833-902), so that one call stands for them.
The application does not fetch after `SQL_NO_DATA` and executes with a closed
cursor only, as ODBC's state tables demand; requests for schemas and special
columns are like those for types (`SyncOnly`).

### ConnectionParams and Connection

A text is a word with the marks the code can tell: capitals (ignored by
`_wcsicmp`), surrounding blanks (`trim`), trailing `=` signs (`split` loses or
multiplies them). A connection string is the sequence of its `key=value` items,
so that parse and format are real functions between strings and parameters. `Words`
are what is left of a text without its marks, `NoWord` the empty one; `Number` is
what `_wtoi` makes of a word.

`Connection` has per connection what `Connection.h` has, plus `openTask` (the asynchronous
open), `opening` (threads inside `internalOpen`, which waits for the server in the middle:
`StartOpen`, `FinishOpen`) and `dm`, the Driver Manager's view. An empty or malformed string
is refused before anything is set; without a host (`HasHost`) the parameters are set and the
REST client is not made, so that it is missing or that of an earlier open
(`OpenWithoutHost`). The Driver Manager follows the protocol the tests emulate
(`CdapOdbc.Tests/SQLConnectionPoolTests.cpp`): allocate an info, set attributes, set the
connect string, ask for the pool, rate the connections of that pool, and reuse one
(`Reuse`), reset one (`Reset`) or open a new one (`SQLPoolConnect`). A call that answered
`SQL_STILL_EXECUTING` is repeated with the same arguments. `SQLPoolConnect` takes no lock,
the others wait for `Unlocked`. The flag that is not initialised starts with any value of
`Memory`, which is both in the run. The dialog can end with any of `Typed`.

### EscapeParser

The loop of `toString()`, one action for each branch, on tokens: the constant `Tokens` is
any set that has the quotes, the openings and the words the translations write. `Resolved`
rewrites a function escape; the scan goes on after it. The reference is separate: a *term*
is a text together with its meaning, and terms are built from the inside out with the
expectations of `CdapOdbc.UnitTests/OdbcEscapeSequenceParserTest.cpp`: a `Leaf` (words and
closed literals), a `FixedEscape` (date, timestamp), `Concat`, a `Parenthesized` list and an
`Escape`, a call whose arguments are terms. `IsQuery` are the queries that terms and texts
without escapes make up, of any length and depth (`QueriesNested`: all queries for which a
meaning is given are of this kind; nothing is claimed about the others but that the scan and
its stack are right).

A term has its meaning whether or not the parser can find it. Two kinds of calls are
`beyond` it: those with a line break in their arguments, which `(.*)` of the expression
for functions does not match (`Broken`, `CallBeyond`), and calls of `atan2` and `left` one
of whose arguments has a comma in a nested call, as `insideNested` is never set. The
property lets the parser refuse these, but not translate them to something else. Whether `^`
and `$` of an expression match at a line break within the text is up to the library; the queries
are those for which it makes no difference (`LinesAssumption`).

### QueryExecution

Each statement has a thread; a call takes the connection's lock (`Enter`), goes through its
requests one action at a time and returns (`Return`), with the records of `SQLStatus`.
`Submit` hands a query to the server, whose queries go through `ServerStatuses` on their
own. What it hands over lacks the first `HAVING (COUNT(1) > 0)` of the text (`Erasures`:
texts in `HavingCount` have one). A SQLSTATE is a sequence of characters, as `GetDiagRec`
copies all but the last one (`FromStdString`). A request fails with any exception of
`doRequest`; `SubmitUnanswered` fails after the server has the query. A command left by a
failed call stays, as does its handle (`Resume`). `SQLPrepare` is `SQLExecDirect` here as
well. Data readers are only their handle.

### Lifecycle

The composition of the registry, the statements, their tasks and the loaders of
their readers, as far as holding and waiting go. The actors are the application's
threads and one task for each statement, which has the statement's name. A call
takes the mutex to find its statement (`GetStatement`), lets it go, waits for the
connection's lock (`Lock`) and runs a body; a task starts at the lock. The loader
(`Request`, `Push`) takes neither; `Request` uses the statement's command. `SQLFreeStmt`
destroys the command (`FreeStmt`) and then the reader, whose destructor waits
(`FreeStmtWaited`); a loader that begins its request in between makes the system
`undefined`, where it stops. `SQLFreeStmt` and the end of a frame wait for
the loader with the lock in hand, a free with the mutex (`FreeStatement`,
`FreeConnection`, then `DestroyStatement`, `DestroyConnection`). A reader is there
or not: what it delivers is the other modules' matter, so that a body may do
anything its reader could make it do (`ExecDirect` opens a reader or fails,
`FetchRow` or `FetchFrame`). A task that failed may stay for good; one task stands for the
four of a statement, as the Driver Manager lets no other function through while
one is executing. The Driver Manager's other rule, that no handle is
freed while it is used, is `Unused`; the driver itself does nothing to exclude it.
Changes of the mode between calls and `SQLDisconnect` are not in it.

### Values and Catalog

`Convert` says what a JSON value becomes for a C type, `FetchVarchar` and `FetchWVarchar`
what of it fits a buffer, `FetchFixed` what the other fetches write. A text is a sequence of
`Characters`, which is any set with the digits and the letters the driver itself writes. A
double that becomes a text is filled up with blanks, as `setw` does. `Catalog` opens readers
on the server's objects, which another user creates and drops between the calls, binds
columns and fetches rows; `cells` are the application's buffers with their indicators. The
names of objects are sequences of characters with `-`, as the mapping of names is about
them; `find_first_of` in `getRealName` is modelled by what it does (any of the characters),
not by what was meant. `NumResultCols`, `ColAttribute` and `DescribeCol` change no state and
are operators.

## 3. Runs

| Run | Instance | Shows |
|---|---|---|
| `reader_failures` | up to 6 rows, first fetch of 2, later ones of 1 to 3, 2 failures, fair | type invariant; refinement of the prefix stream, and of the full stream as long as nothing failed and the loader was not overtaken; current row stable; errors final; `read` and destructor return; undefined behaviour only on a fetch after an error that left the frame cache empty, and in synchronous mode only if that was the first request's |
| `reader_lost_replies` | 2 failures, lost replies, rows of 0 to 7 bytes, both teardowns | rows never repeat or go back; at most two frames in memory |
| `registry` | 2 threads, 5 handles, symmetric threads | no dangling parent; a handle denotes one object and is never reused; a free spares what does not hang on it |
| `statement_sync` | 3 executions, 2 failures | every fetched row is the next one, end after the last; without failures no call errs or runs another query |
| `statement_async` | both modes, 2 executions, 1 failure, fair | state matches command and reader; a success is fresh; local results are exact; repeated calls get answered, unless the empty frame cache is read |
| `connection` | 1 connection, 1 info, 2 pool ids; a host in two spellings, two namespaces, port 0, a data source, a malformed and an empty string; with and without a dialog; fair | the client of an open connection talks to its server; one pool for a server; every pooled connection can serve its pool; a request gets the parameters and modes it asked for; connects are answered |
| `escape` | all calls of 8 functions on 6 leaves, calls of calls, some triply nested, arguments of several parts and with line breaks, all sequences of at most 3 of 11 tokens and the unclosed calls | the stack holds exactly the openings still in the text; each query becomes its meaning or is refused, and refused only if it means nothing or is beyond the parser |
| `query` | 2 statements, 3 calls, 1 failure, 4 texts of lengths around 2^15 and 2^16, two with the `HAVING` clause, queries that finish, fail and are forgotten, fair | a query is submitted once, a reader reads the query of its command, no text is cut below 2^16 but for the clause; an error has one record with 4 characters of its SQLSTATE, and just after it `SQL_ERROR`; calls return |
| `lifecycle` | 2 threads, 2 statements with their tasks and loaders, either mode, 5 calls, fair | a prefetch keeps reader, statement and connection until it ends, and the command but for `SQL_CLOSE`; one user of a reader at a time; calls return and tasks end whatever a free waits for, unless that one case occurred |
| `catalog` | 2 streams, 2 datasets, 3 changes, 4 calls, 7 bindings, 3 rows of 4 types | shown names resolve; bound cells show this row, cut and terminated, with the right indicator; a column bound as described is fetched |
| `reader_early_end` | no failures | **violated** `EndIsComplete` |
| `statement_async_row` | asynchronous | **violated** `BoundColumnsCurrent` |

Bounds. Six rows with frames of one to three rows give each alignment of the end
of the data with the end of a frame, empty last frames, and several frames in
flight one after another; the optimal response of 6 bytes with rows of 2, 3 and
6 makes the fetch size 3, 2 or 1 after a frame. Nothing in `read` or `loadFrame`
counts beyond two frames. Two failures cover a failure after a failure: of the
same read, of the task that replaces a failed one. Five handles are an
environment, two connections and a child of each; a third thread would
add nothing but another allocation in progress (the proofs are for any number).
Three rows in frames of two are a full frame and a partial one; two executions
let a leftover of the first meet the second, `"other"` has 2 rows, a full frame
and an empty one.

One connection and one info are enough for `connection`: all that connections
share is `pools`, an info is compared with one connection at a time, and a
connection left in a pool by an earlier info meets every later one. Two pool ids
let a pool be removed and made again. In `query` two statements compete for the
lock and three calls let each failure be followed by a repetition and a close. A query
starts as `INITIALIZED` and ends in `FINISHED`, `ERROR` or `CLOSED`; the
statuses left out, `PENDING` and `RUNNING` on the way, `CANCELED`, `UNKNOWN` and what is no
status at the end, take the branches of these. In
`catalog` three changes are enough to create an object, drop it and create the
one of the same Hive name; the buffers hold less than, exactly and more than the
texts, with a character of two bytes at the border. In `lifecycle` five calls are an
execution, its repetition, a fetch, a free and one more call that looks a handle
up meanwhile; no place of the code waits for more than one other actor. In `escape` a query is a
record of the bounded grammar; three levels are needed for an opening that stays
on the stack while two inner ones are resolved.

Fairness. A started task is run by the pool and a request is answered or fails (`WF` of
`Loader`, `Pool`); a thread inside `read` runs on (`WF` of `Continue`). No fairness makes
the application call, except for repeating a call that returned `SQL_STILL_EXECUTING`, as
`CdapOdbc.Tests/SQLAsyncTests.cpp` does in each of its loops. The connection lock is never
held across two steps of `Statement`, so that its own fairness plays no part: a poll that
blocks until a body ended is a poll that comes later. `ConnectAnswered` needs the task to be
run, the server's availability to be answered or refused, and the call to be repeated.
`CallsReturn` needs a thread inside a call to run on, every query of the server to end, and
the lock to be passed on: a thread waiting for it waits for a bounded number of calls, so
that the mutex needs no fairness of its own. `AllEnd` is alike: threads run, the pool runs
tasks and loaders, requests end, and the calls are bounded. A query that never ends does
hold every call of its connection for ever: the polling loop has no other exit.

`ImplementsStream` (in `MCQueryReader`, with its history variable `overtaken`) states
when the end of data is right: no request failed, and the reading thread never drained a
whole frame between the loader's push of it and the end of the loader's task, coming to an
empty cache. From the first time on nothing is claimed, also where the end is not reported
early then.
With the code's 1000 rows a frame this is what usually happens; the code does not
ensure it, which `reader_early_end` shows.

## 4. What the violated runs show

- `reader_early_end`. The loader has pushed frame 2 and has not returned. The
  reading thread reads all of frame 2 and comes to `loadDataContinue`: the task
  is not done, so no new one is started, the cache is empty, so it waits; the
  old task ends, the cache is still empty, and `read()` returns false
  although `moreFrames` is true. The comment at `QueryDataReader.cpp:43` expects
  to know here whether there are more rows.
- `statement_async_row`. The task of a fetch reads row 1; the repeated call finds
  `canReadFast()` and reads row 2 in the call; row 1 is never seen. The task is
  collected at the end of the frame, where the application gets its last row twice.

## 5. Proofs

Every safety invariant and action property that a run checks is a theorem for all
values of the constants. The
theorems rest on the named `ASSUME`s of the modules, which TLC evaluates on every
run. Where a theorem has a hypothesis of its own, the property fails without it, and
Section 7 says what the code does then; only the hypothesis of `TranslatedCorrect` is
of another kind, it says which texts have a meaning that the result can be compared with. Each
inductive invariant was checked with TLC on the instance of its component's run before it
was proved, but for `Promised` of `EscapeParserProofs`, which quantifies over all sets and
of which TLC checks the consequence.

`QueryReaderProofs`, for every `MaxRows`, `FETCH_SIZE`, optimal size, set of row
sizes, number of failures and set of teardowns. It extends `MCQueryReader`, since the
refinement of the full stream speaks of its history variable `overtaken`:

- `TypeCorrect`: `Spec => []TypeOK`. `TypeOK` alone is not inductive: the new
  fetch size is a natural number only because the divisor is positive and the
  number of rows divided by is the fetch size itself. `LoaderInv` adds that a
  frame that was received has rows, that a frame the fetch size is computed from
  is exactly as long as the fetch size, and that the server's cursor stays within
  the result.
- `OrderCorrect`, `CurrentRowCorrect`, `PrefixStreamCorrect`, `IncreasingCorrect`: the
  rows read are 1, 2, 3, ..., the row the application holds is stable, the reader
  refines `RowStream!PrefixSpec`, and no row repeats. `OrderInv` says that the rows
  read, the frames in the cache and the loader's frame follow each other up to the
  server's cursor (`Sequential`), and that the reader's index stands at the row last
  read (`Positioned`). A step either moves the front border (a read), the back border
  (a request) or the border between loader and cache (a push). Replacing a failed
  task does no harm because its frame was never received. With lost replies there
  may be gaps (`Follows`): `IncreasingCorrect` needs no hypothesis, `OrderCorrect`
  and `PrefixStreamCorrect` assume `~LostReplies`, without which they do not hold.
- `StreamCorrect`: `MCSpec => ImplementsStream`, the refinement of the full stream as
  long as nothing failed and the loader was not overtaken. `SupplyInv` says where the
  missing rows are: if the reader stands before an empty cache, a frame is on its way
  or the cursor is at the end. It assumes that no reply is lost and that a row is not
  larger than the optimal response, since the fetch size would become 0. Under the same
  conditions `EndCorrect` says when the end of the data can be trusted: `EndIsComplete`,
  which `reader_early_end` violates, holds as long as no request failed and the loader
  was not overtaken.
- `UndefinedCorrect`: `UndefinedOnlyAfterError`, for responses with a Content-Length and
  destructors that do not follow a destroyed command (`0 \notin RowBytes`,
  `"reset" \notin Teardowns`). `AliveInv` says that a failure whose error is not
  known to a task was that of the very first request, and that `read` takes the
  front frame only after a look whether there is one. `canReadFast` does not look, and
  meets an empty cache only in a call after one that ended in an error (`ErrorInv`).
- `ErrorFinalCorrect` and `CacheCorrect`, with lost replies too. For the first, an
  error is reported only by a reader whose task failed, or whose very first
  request failed and left the cache empty (`ErrorInv`): either way no later call
  gets to a row. For the second, the frame in flight counts as one of the cache,
  and a task is started only where there is at most one (`CacheInv`).

`HandleRegistryProofs`, for any set of threads and any range of handles:
`TypeCorrect`; `NoOrphansCorrect` (with the types inductive as it stands, as an
allocation looks the parent up under the mutex); `HandlesCorrect`, by an invariant
that puts every handle ever used below `lastHandleIndex` and keeps live, pending
and freed handles apart; `SparesCorrect`, an action property of each step by itself.

`StatementProofs`, for any queries, results, frame size, columns and failures:

- `TypeCorrect` and `StateCorrect`, in either mode, by one invariant: the types,
  `StateMatchesResources` itself, and that only the fetch task was started for a
  fetch, so that the body a task runs is the one of its call. A body changes
  command, reader and state together; the lemmas `OpenBodyStep` and
  `FetchBodyStep` say so once and serve the calls and the pool alike.
- `FreshCorrect`, in either mode: `SuccessIsFresh`. A task that has ended in success
  and was not collected could answer a later call. `FreshInv` says that there is
  none: a task in the queue belongs to the call that is being repeated, and a task of
  another function than fetch that has succeeded belongs to it too and has left the
  statement open at its first load.
- `LocalFetchCorrect`, in either mode: a result that needs no server is read in the
  call itself, so that no task stands between the call and the position of its reader.
- `SyncFetchCorrect` and `QuietCorrect` assume `Modes = {FALSE}`: then there are no
  tasks, and the number of rows reported since the execution is the position of the
  reader (`SyncInv`); and as long as no failure was spent, an open cursor stands for a
  readable result of the query that was asked (`QuietInv`). Without the assumption the
  first is false: `statement_async_row`.

`QueryExecutionProofs`, for any statements, texts, lengths, numbers of calls and
failures:

- `TypeCorrect`, by `Typed`: the types, and that a command was made by the
  statement that holds it.
- `DiagnosticsCorrect`: `Spec => []ErrorsExplained`. The property speaks of the
  moment after a call; `DiagInv` says what holds before: the list is empty inside
  a call once it was entered, and a call that ends in error adds one record.
  SQLSTATEs are the two the driver has, of which the first 4 characters differ.
- `ExecutionCorrect`: `Spec => []QueriesAsRequested`. A query whose answer was lost
  is on the server and in no command, a query in a command is that of an earlier
  call if the call before failed. `OwnInv` ties them together: the server's
  queries are numbered as they were submitted (`Numbered`), a command knows at most one of
  them, with its own text (`OwnCommand`), and where a call stands in
  `executeReader` says what its command has and how far its query is (`OwnCall`).
  The lemma `ReceivedWhole` is the arithmetic: below 2^16 the remainder is the
  length. A text that is whole has its clause erased if and only if it has one; of one that
  was cut nothing is said.

`ConnectionProofs`, for any connections, infos, strings, words and bounds:

- `RoundTrip`: what `getFullConnectionString` writes of parameters that `parse` can
  return, `parse` reads as the same parameters but for the data source name and a port
  of zero or less. The written items have distinct keys and no marks, so that the item
  a key finds is the one that was written for it.
- `PoolCorrect`: one pool for a server, one server for a pool ID, with no hypothesis.
  IDs in use are below `nextId` (`GivenOnce`).
- `TypeCorrect`, `ServerCorrect`, `PooledCorrect`, `HandOverCorrect` by `ServeInv`,
  whose parts are one predicate for each connection: the client has the host and the
  port of the parameters (`Reaches`); the call or the task inside `internalOpen` is
  the one the Driver Manager knows of (`Threads`); a call has the info it was made with
  (`Holds`); the open task is that of the call that is repeated and opens its string,
  which is what the info's parameters were written as (`Tasks`); a connection serves
  its pool (`Member`). They assume `~CancelPolls`: with a cancelled dialog the task
  of an abandoned connect opens the connection later, for nobody.

`LifecycleProofs`, for any threads, statements and numbers of calls: `TypeCorrect`,
`PrefetchCorrect`, `ExclusiveCorrect` by `LifeInv`. `Control` ties the lock and the
mutex to the places of their holders, from which `ReaderExclusive` follows. For
`PrefetchKeepsItsObjects` no free may get past a loader: a loader keeps its reader, and
the reader's destructor its statement (`Outlives`); `Freeing` says that a statement is in
its destructor only in a free of it or of its connection, and that none is used during
the latter. `CommandInv` says that a reader has a command beside it, unless the holder of the
connection's lock is inside `SQLFreeStmt` and waits; it holds as the lock keeps every
other call of the statement out meanwhile, and as a statement that is freed loses its command
after its reader.

`EscapeParserProofs`, for any tokens and queries: `TypeCorrect`, `OpeningsCorrect` by
`ScanInv`: the quote of the loop is the quote of the text before the position, and the
stack has exactly the openings before it that are outside a literal, in their order.
A resolved escape replaces the end of the text before the position, so that this
must be shown of what replaces it: the templates and arguments bring no opening
outside a literal and no open quote (`PlainTexts`). That holds of whatever
`ArgumentsParser` returns (`ReadSoFar`).

- `TranslatedCorrect`: `Spec => []TranslatedOrRefused` if `QueriesNested`. A scan is
  deterministic (`NextIsStep`), so that what it will end in is settled by where it is:
  `Yields(c, m)` says that `c` lies in a set that is closed under steps and in which nothing
  is done with another result than `m` or refused although `m` is a text. The inductive
  invariant `Promised` is `ScanInv` with `Yields(Now, Answer(source))`: the answer is the
  meaning, or a refusal for a query that is beyond the parser. It is kept by every step
  (`YieldsForth`); what remains is that a query's start has it (`QueryYields`). For that a
  term is `Translated` if the scan passes its text *wherever it stands*, behind any text and
  with any functions open, and leaves its meaning there and its position behind it, or fails
  if the answer is `Refused`. Terms are built of translated ones only: of a call the scan
  passes the arguments first, whatever their depth, and then resolves the innermost open
  function, whose text holds the meanings of the arguments by then. For the two functions
  whose arguments are moved about, `ArgumentsParser` must find in that text the arguments
  that were written: the meaning of an argument is read over without a split (`Neutral`),
  unless it has a comma outside a literal (`commas`), and then there are more than two
  arguments and the function is refused. A call with a line break in the answer of its
  arguments does not match (`ClosedFacts`). The two facts, what the scan and what
  `ArgumentsParser` make of it, are what `Good` says of a term, and every constructor keeps
  them (`GoodsClosed`, `TranslatedsClosed`).
- The hypothesis is not empty: `TermsGrow`, `ArgumentsGrow` and `QueriesGrow` say that
  what is built with the constructors from queries is a query, and `PartsAssumption` of
  `MCEscapeParser`, that the parts the run's queries are built from are allowed.

`CatalogProofs`, for any objects of the server, characters, rows, bindings and bounds:

- `DescribedCorrect`: `Spec => []CellsDescribed`. The lemma `CellWritten` says that
  what is written for one binding shows the value, whatever the reader, the value and
  the length of the buffer (`VarcharFits`, `WVarcharFits` for the texts);
  `DescribedFetched` that a binding to the described type is never refused. The rest is
  that a column is bound once (`BoundOnce`), so that no later binding overwrites a cell.
  Assumed of the application and the server: a buffer for texts has room for a
  terminator, and the values of a column are of its type (`Conforms`).
- `ResolveCorrect`: `Spec => []TablesResolve`. The map leads from a name to the last
  table shown by it (`Mapped`); where only one was, that is the one. The reader of its
  columns has the schema of an object of that name, though the object may be gone by
  then (`ReadsSchema`).
- `TypeCorrect`, with the shape of every reader (`IsReader`) and cell (`IsCell`).

Recursive functions (the bytes of a text, the digits of a number, the quote after a
position, the arguments of an escape) are reasoned about by induction over a *set* of
positions: the lemma `Induction` follows from the well-foundedness of the naturals, by
`LeastNumber`, and needs no operator as a parameter. It gives both that the function
exists and what each of its values has in common.

Only model-checked: liveness (`ReadReturns`, `CallsAnswered`, `ConnectAnswered`,
`CallsReturn`, `AllEnd`), for which the prover has no means: no liveness under fairness and
no ENABLED can be proved with it. Every other property of a passing run is a theorem.

## 6. Not modelled

- *Data sources and setup* (`setup.cpp`, the data source calls of `Driver`): Windows
  dialogs and the installer's registry. What is left of them without those is one
  sequence of calls: `modifyDataSource` removes the old data source before the new
  one is written, and `addDataSource` shows a modal dialog under the registry
  mutex.
- *SQLDisconnect with a prefetch in flight*: `close` destroys the REST client and
  neither looks at the readers nor waits for them (`Connection.cpp:90`); a prefetch
  does not take the connection's lock and may be in a request. Nothing in the code
  excludes the use of the destroyed client, so that a model would only say so.
- *Constants*: `SQLGetInfo`, `SQLGetFunctions`, and the calls that are not
  implemented and answer `SQL_ERROR` or `SQL_SUCCESS` (`SQLCancel`,
  `SQLCloseCursor`, `SQLExecute`, ...).
- *Library code*: JSON, HTTP and TLS, character tables. A request is served or
  fails. `Encoding::convert` shares one converter between threads without a lock
  (`Encoding.cpp:20`); a torn conversion is not a matter of states.
- `closeQuery` is never called: there is nothing to model, and the server keeps
  every query until it forgets it by itself (`query` has that).
- Logging, profiling and the mappers nobody calls.

Open: under which use of the asynchronous mode `BoundColumnsCurrent` holds. For
queries that are not `IsQuery` (an unclosed literal, a brace outside a call) the project
claims no meaning.

## 7. Known behaviours without a run of their own

Seen while modelling, present in the models, and excluded by no property:

- A prefetch that fails after `checkTaskForExceptions` and before the task is asked whether
  it is done is taken for the end of the data (`QueryDataReader.cpp:47`): `EndIsComplete`
  with one failure, even if the loader is not overtaken.
- A failed task is replaced at `QueryDataReader.cpp:95`. If its request had moved the
  cursor, the rows of that reply are skipped: `DeliveredInOrder` with `LostReplies`.
- Rows above 4 MB make the fetch size 0 and end the data early
  (`QueryDataReader.cpp:30`); no Content-Length divides by zero (`:29`).
- After a failed first request the next fetch reads the front of an empty queue
  (`QueryDataReader.h:58`). In asynchronous mode it does so after any failed prefetch that
  was waited for at the end of a frame, which was popped before (`QueryDataReader.cpp:37`):
  `fetchAsync` asks `canReadFast` (`QueryDataReader.cpp:174`) before it collects the task that
  holds the exception. `UndefinedOnlyAfterError` says that nothing else does: a
  synchronous fetch after a row was delivered throws first.
- `Statement::reset` destroys the command, then the reader, whose destructor waits
  for a task that calls `queryCommand->loadRows` (`Statement.cpp:274`): `SQLFreeStmt` with
  `SQL_CLOSE` while a prefetch is about to begin. `PrefetchKeepsItsObjects` says that it is
  the only such case; freeing the statement destroys the reader first.
- After a failed execution the state is `PREPARE`; the next `SQLExecDirect` with
  another text opens the command of the failed one (`Statement.cpp:75`), and so it
  does after a failed `SQLTables`.
- An asynchronous fetch whose task finds the end answers the repeated call with
  a state error instead of `SQL_NO_DATA` (`Statement.cpp:245`): `ErrorsAreReal`.
- `reset` leaves tasks behind, and the exception of a failed one answers the
  next call (`Statement.cpp:272`, `:327`).
- A connection info outlives its environment and keeps the pointer to it
  (`Driver.cpp:389`).

Connections:

- A port of zero or less is not written to the string a pooled connection is
  opened with, which then has port 10000 (`ConnectionParams.cpp:177`); a data source
  name is not written either.
- A failed asynchronous open leaves its task: every later connect of that handle
  answers with the same exception (`Connection.cpp:72`).
- Each poll of an asynchronous connect shows the dialog again; when a later one is
  cancelled, the task still opens the connection, for nobody (`core.cpp:160`). The
  constant `CancelPolls` turns this on; `HandedOverAsRequested` is violated then.
- `setInfo` keeps the REST client with the namespace and token it was made with
  (`Connection.cpp:98`); `OpenReachesItsServer` is about host and port only.
- A value that ends in `=`, as tokens in base 64 do, loses one sign, with two it
  is refused; an empty host that was written cannot be read again.

- A connection string without a host sets the parameters and then throws
  (`Connection.cpp:44`): the client is missing or that of an earlier open that failed.

Query text and execution:

- A function escape with a line break in its arguments is refused, as `(.*)` does not match
  it (`ODBCEscapeSequenceParser.cpp:22`).
- `insideNested` of `ArgumentsParser` is never set: the comma of a nested call
  splits the arguments of the outer one, and `{fn left({fn right(a,b)},c)}` is refused.
- `HAVING (COUNT(1) > 0)` is erased from every query before it is sent, once, wherever it
  stands, in a literal as well (`ExploreClient.cpp:192`).
- `SQLGetDiagRec` copies 4 of the 5 characters of a SQLSTATE (`core.cpp:1930` gives 5 as the
  length of the buffer, `Argument.cpp:25` keeps one for the terminator): the application
  sees `08S0` and `HY00`.
- An HTTP status the client does not know gives 08S01, a failure of the transport
  HY000 (`CdapException.cpp`); `SQLGetDiagRec` answers `SQL_ERROR`, not
  `SQL_NO_DATA`, for the number just after the last record (`core.cpp:1917`), and
  the diagnostic calls take no lock.
- A text with an explicit length of 2^16 or more is cut to the rest (`core.cpp:920`).

Catalog and values:

- `-` and `_` are one character in Hive names: two objects can have one name
  (`Unambiguous` excludes them). The names are remembered only when TABLE_NAME is
  bound. A name that starts with a letter of `stream_` or `dataset_` but not
  with the prefix loses seven or eight characters.
- The fetches of numbers do not touch the indicator, so that it stays
  `SQL_NULL_DATA` after a null unless the application resets it. Truncation is
  never reported. A character of UTF-8 can be cut in two.
- A conversion that is refused loses the row: the next fetch reads the next one.
- A double bound as SQL_C_WCHAR is filled up with blanks to the width of the buffer
  in bytes, twice what it holds in characters: the digits are on the right and are
  cut off (`SecureString.cpp:28`, `DataReader.cpp:26`).
- `.005` of a timestamp is read as 500 milliseconds; a timestamp without a
  fraction is refused; a tinyint wraps at 256; a text read as SBIGINT stops at
  2^31 - 1. Columns of types binary and float are described with C types that no fetch
  writes.
- `SQLNumResultCols` fails after the first fetch (`Statement.cpp:310`). The readers of
  the catalog return a null `ColumnInfo`, which `SQLDescribeCol` and
  `SQLColAttribute` follow (`core.cpp:1020`).
- An int column is described as SQL_BIGINT with an octet length of 4
  (`Driver.cpp:175`), and as SQL_INTEGER by `SQLColumns`.
