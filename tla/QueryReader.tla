---------------------------- MODULE QueryReader ----------------------------
(***************************************************************************)
(* QueryDataReader: the rows of one query, read by the thread that calls   *)
(* SQLFetch while a background task (pplx::task, at most one at a time)    *)
(* loads the next frame of rows into a ConcurrentQueue.                    *)
(*                                                                         *)
(* Two threads take steps.  The reading thread executes read(); the loader *)
(* executes loadFrame() inside the task.  They share frameCache (each      *)
(* operation of it is atomic under its own mutex), moreFrames (atomic),    *)
(* fetchSize and the completion state of the task.  Every access to a      *)
(* shared variable whose order matters is a step of its own.               *)
(*                                                                         *)
(* The server keeps the cursor of the query: a request for n rows returns  *)
(* the next n rows, fewer at the end, and advances the cursor.             *)
(***************************************************************************)
EXTENDS Integers, Sequences

CONSTANTS
  MaxRows,              \* bound on the rows of a result set
  FETCH_SIZE,           \* rows of the first request
  OPTIMAL_RESPONSE_SIZE_IN_BYTES,
  RowBytes,             \* bytes a row may take in a response; 0: no Content-Length
  MaxFailures,          \* bound on the requests that fail
  LostReplies,          \* TRUE: a failed request may have advanced the cursor
  Modes,                \* the values SQL_ATTR_ASYNC_ENABLE may take: subset of BOOLEAN
  Teardowns             \* how the reader may go: subset of {"destructor", "reset"}

ASSUME QueryReaderAssumption ==
  /\ MaxRows \in Nat
  /\ FETCH_SIZE \in Nat \ {0}
  /\ OPTIMAL_RESPONSE_SIZE_IN_BYTES \in Nat \ {0}
  /\ RowBytes \subseteq Nat
  /\ MaxFailures \in Nat
  /\ LostReplies \in BOOLEAN
  /\ Modes \subseteq BOOLEAN
  /\ Teardowns \subseteq {"destructor", "reset"}

VARIABLES
  \* the server and the network
  rows,              \* number of rows of the result set
  cursor,            \* rows the server has handed out
  failures,          \* requests that may still fail
  \* Statement and QueryCommand
  isAsync,           \* rows are fetched with fetchAsync, which asks canReadFast first
  hasData,           \* the query has a result set
  commandAlive,      \* the command the reader points to exists
  \* QueryDataReader
  frameCache,        \* the loaded frames, front first
  moreFrames,        \* the last frame was as long as requested
  firstLoad,
  currentRowIndex,   \* index of the current row in the front frame, from 0
  fetchSize,
  task,              \* the loader: where it is in loadFrame, or how it ended
  frame,             \* the loader's local variable: the frame it received
  \* the reading thread
  reader,            \* where the thread is in read()
  result,            \* what the last finished read() reported
  delivered          \* history: the numbers of the rows reported as read

serverVars  == <<rows, cursor, failures>>
commandVars == <<isAsync, hasData, commandAlive>>
loadVars    == <<frameCache, moreFrames, fetchSize, task, frame>>
readVars    == <<firstLoad, currentRowIndex, reader, result, delivered>>
vars == <<serverVars, commandVars, loadVars, readVars>>

-----------------------------------------------------------------------------
\* A frame holds the rows first + 1 .. first + size of the result set.
Frames == [first : Nat, size : Nat]
NoFrame == [first |-> 0, size |-> 0]

\* taskCreated is FALSE, the stages of loadFrame, and the ways the task ends.
NoTask == "none"
LoadStages == {"request", "push", "decide", "adjust", "return"}
TaskStates == {NoTask, "done", "failed", "crashed"} \cup LoadStages

\* task.is_done(), which is also true of a task that ended with an exception.
IsDone == task \in {"done", "failed"}
TaskCreated == task # NoTask

ReadStages == {"tryLoad", "launch", "mustWait", "checkEmpty", "wait", "verdict"}
ReaderStates == {"idle", "destroying", "destroyed", "undefined"} \cup ReadStages
Results == {"none", "row", "noData", "error"}

Smaller(a, b) == IF a < b THEN a ELSE b

\* The frame the server answers a request with (ExploreClient::getQueryResult).
NextFrame == [first |-> cursor, size |-> Smaller(fetchSize, rows - cursor)]

\* The request is served and the cursor moves past the frame.
Served ==
  /\ cursor' = cursor + NextFrame.size
  /\ UNCHANGED <<rows, failures>>

\* The request fails: before the server saw it, or, with LostReplies, after.
RequestFails ==
  /\ failures > 0
  /\ failures' = failures - 1
  /\ \/ cursor' = cursor
     \/ LostReplies /\ cursor' = cursor + NextFrame.size
  /\ UNCHANGED rows

\* adjustFetchSize: one row's share of the response.  The divisions truncate.
OneRow(responseSize) == responseSize \div fetchSize

\* Mutant of AdjustedFetchSize: the bytes that are left of the optimal response.
AdjustedFetchSizeLeft(responseSize) == OPTIMAL_RESPONSE_SIZE_IN_BYTES - responseSize

\* How many rows of that size make the optimal response.
AdjustedFetchSize(responseSize) == OPTIMAL_RESPONSE_SIZE_IN_BYTES \div OneRow(responseSize)

\* The row number under the reader, when the front frame is f.
RowNumber(f, index) == f.first + index + 1

\* In the initial state executeReader() has just made the reader of a query that ended.
Init ==
  /\ rows \in 0..MaxRows
  /\ cursor = 0
  /\ failures = MaxFailures
  /\ isAsync \in Modes
  /\ hasData \in BOOLEAN
  /\ hasData \/ rows = 0
  /\ commandAlive = TRUE
  /\ frameCache = <<>>
  /\ moreFrames = TRUE
  /\ firstLoad = TRUE
  /\ currentRowIndex = -1
  /\ fetchSize = FETCH_SIZE
  /\ task = NoTask
  /\ frame = NoFrame
  /\ reader = "idle"
  /\ result = "none"
  /\ delivered = <<>>

-----------------------------------------------------------------------------
(***************************************************************************)
(* The loader: loadFrame() run by the task.                                *)
(***************************************************************************)

\* The request is sent and answered.  An empty frame ends the task, moreFrames as it
\* was.  The command belongs to the statement: without it the task reads freed memory.
LoaderRequest ==
  /\ task = "request"
  /\ \/ /\ commandAlive
        /\ Served
        /\ frame' = NextFrame
        /\ task' = IF NextFrame.size > 0 THEN "push" ELSE "done"
        /\ UNCHANGED reader
     \/ /\ commandAlive
        /\ RequestFails
        /\ task' = "failed"
        /\ UNCHANGED <<frame, reader>>
     \/ /\ ~commandAlive
        /\ task' = "crashed"
        /\ reader' = "undefined"
        /\ UNCHANGED <<serverVars, frame>>
  /\ UNCHANGED <<commandVars, frameCache, moreFrames, fetchSize,
                 firstLoad, currentRowIndex, result, delivered>>

\* Mutant of LoaderPush: the new frame goes to the front of the cache.
LoaderPushFront ==
  /\ task = "push"
  /\ frameCache' = <<frame>> \o frameCache
  /\ task' = "decide"
  /\ UNCHANGED <<serverVars, commandVars, readVars, moreFrames, fetchSize, frame>>

LoaderPush ==
  /\ task = "push"
  /\ frameCache' = Append(frameCache, frame)
  /\ task' = "decide"
  /\ UNCHANGED <<serverVars, commandVars, readVars, moreFrames, fetchSize, frame>>

\* Mutant of LoaderDecide: only a frame longer than requested means that there is more.
LoaderDecideOffByOne ==
  /\ task = "decide"
  /\ moreFrames' = (frame.size > fetchSize)
  /\ task' = IF frame.size = fetchSize THEN "adjust" ELSE "return"
  /\ UNCHANGED <<serverVars, commandVars, readVars, frameCache, fetchSize, frame>>

\* A frame as long as requested means that there is more.
LoaderDecide ==
  /\ task = "decide"
  /\ moreFrames' = (frame.size = fetchSize)
  /\ task' = IF frame.size = fetchSize THEN "adjust" ELSE "return"
  /\ UNCHANGED <<serverVars, commandVars, readVars, frameCache, fetchSize, frame>>

\* A response without Content-Length has size 0, and the division traps.
LoaderAdjust ==
  /\ task = "adjust"
  /\ \E bytes \in RowBytes :
       LET responseSize == bytes * frame.size IN
       IF OneRow(responseSize) = 0
       THEN /\ task' = "crashed"
            /\ reader' = "undefined"
            /\ UNCHANGED fetchSize
       ELSE /\ fetchSize' = AdjustedFetchSize(responseSize)
            /\ task' = "return"
            /\ UNCHANGED reader
  /\ UNCHANGED <<serverVars, commandVars, frameCache, moreFrames, frame,
                 firstLoad, currentRowIndex, result, delivered>>

\* Mutant of LoaderReturn: the task goes on loading while there are more frames.
LoaderReturnLoops ==
  /\ task = "return"
  /\ task' = IF moreFrames THEN "request" ELSE "done"
  /\ UNCHANGED <<serverVars, commandVars, readVars, frameCache, moreFrames, fetchSize, frame>>

LoaderReturn ==
  /\ task = "return"
  /\ task' = "done"
  /\ UNCHANGED <<serverVars, commandVars, readVars, frameCache, moreFrames, fetchSize, frame>>

Loader == LoaderRequest \/ LoaderPush \/ LoaderDecide \/ LoaderAdjust \/ LoaderReturn

-----------------------------------------------------------------------------
(***************************************************************************)
(* The reading thread: read(), called by Statement::fetchInternal, which   *)
(* copies the row it finds and closes the statement at the end of data.    *)
(***************************************************************************)

\* read() is called: the previous call returned and did not report the end.
Called == reader = "idle" /\ result # "noData"

\* read() returns TRUE and the row under the reader is copied to the bound columns.
ReturnRow(cache, index) ==
  /\ result' = "row"
  /\ delivered' = Append(delivered, RowNumber(Head(cache), index))
  /\ reader' = "idle"

\* read() returns FALSE ("noData") or throws ("error").
Return(outcome) ==
  /\ result' = outcome
  /\ reader' = "idle"
  /\ UNCHANGED delivered

\* The build reads freed or empty memory, or divides by zero: nothing is promised.
Undefined ==
  /\ reader' = "undefined"
  /\ UNCHANGED <<result, delivered>>

\* A query without a result set, such as DDL.
ReadNoResultSet ==
  /\ Called
  /\ ~hasData
  /\ Return("noData")
  /\ UNCHANGED <<serverVars, commandVars, loadVars, firstLoad, currentRowIndex>>

\* loadDataBegin: the first frame is loaded by the reading thread itself, no task
\* exists yet; then the task for the second frame starts.
ReadFirstFrame ==
  /\ Called
  /\ hasData
  /\ firstLoad
  /\ firstLoad' = FALSE
  /\ Served
  /\ IF NextFrame.size = 0
     THEN /\ Return("noData")
          /\ UNCHANGED <<loadVars, currentRowIndex>>
     ELSE /\ frameCache' = <<NextFrame>>
          /\ moreFrames' = (NextFrame.size = fetchSize)
          /\ IF moreFrames'
             THEN \E bytes \in RowBytes :
                    LET responseSize == bytes * NextFrame.size IN
                    IF OneRow(responseSize) = 0
                    THEN Undefined /\ UNCHANGED <<fetchSize, task, currentRowIndex>>
                    ELSE /\ fetchSize' = AdjustedFetchSize(responseSize)
                         /\ task' = "request"
                         /\ currentRowIndex' = 0
                         /\ ReturnRow(frameCache', 0)
             ELSE /\ UNCHANGED <<fetchSize, task>>
                  /\ currentRowIndex' = 0
                  /\ ReturnRow(frameCache', 0)
          /\ UNCHANGED frame
  /\ UNCHANGED commandVars

ReadFirstFrameFails ==
  /\ Called
  /\ hasData
  /\ firstLoad
  /\ firstLoad' = FALSE
  /\ RequestFails
  /\ Return("error")
  /\ UNCHANGED <<commandVars, loadVars, currentRowIndex>>

\* Mutant of ReadRethrows: the failed task is forgotten once its exception was thrown.
ReadRethrowsOnce ==
  /\ Called
  /\ hasData
  /\ ~firstLoad
  /\ ~(isAsync /\ frameCache = <<>>)
  /\ task = "failed"
  /\ task' = NoTask
  /\ Return("error")
  /\ UNCHANGED <<serverVars, commandVars, frameCache, moreFrames, fetchSize, frame,
                 firstLoad, currentRowIndex>>

\* fetchAsync calls canReadFast before it looks at its own task or calls read().  It
\* changes nothing, but with an empty cache it compares the index with the size of a frame
\* that is not there, also where read() would throw the exception of a failed task.
CanReadFast ==
  /\ Called
  /\ isAsync
  /\ hasData
  /\ ~firstLoad
  /\ frameCache = <<>>
  /\ Undefined
  /\ UNCHANGED <<serverVars, commandVars, loadVars, firstLoad, currentRowIndex>>

\* checkTaskForExceptions: the exception of a failed task is thrown, at every call.
ReadRethrows ==
  /\ Called
  /\ hasData
  /\ ~firstLoad
  /\ ~(isAsync /\ frameCache = <<>>)
  /\ task = "failed"
  /\ Return("error")
  /\ UNCHANGED <<serverVars, commandVars, loadVars, firstLoad, currentRowIndex>>

\* ++currentRowIndex, and the frame still has that row.
ReadRow ==
  /\ Called
  /\ hasData
  /\ ~firstLoad
  /\ task # "failed"
  /\ frameCache # <<>>
  /\ currentRowIndex + 1 # Head(frameCache).size
  /\ currentRowIndex' = currentRowIndex + 1
  /\ ReturnRow(frameCache, currentRowIndex')
  /\ UNCHANGED <<serverVars, commandVars, loadVars, firstLoad>>

\* Mutant of ReadEndOfFrame: currentRowIndex is not reset.
ReadEndOfFrameNoReset ==
  /\ Called
  /\ hasData
  /\ ~firstLoad
  /\ task # "failed"
  /\ frameCache # <<>>
  /\ currentRowIndex + 1 = Head(frameCache).size
  /\ frameCache' = Tail(frameCache)
  /\ currentRowIndex' = currentRowIndex + 1
  /\ reader' = "tryLoad"
  /\ UNCHANGED <<serverVars, commandVars, firstLoad, result, delivered,
                 moreFrames, fetchSize, task, frame>>

\* ++currentRowIndex, the frame is fetched: loadDataContinue discards it.
ReadEndOfFrame ==
  /\ Called
  /\ hasData
  /\ ~firstLoad
  /\ task # "failed"
  /\ frameCache # <<>>
  /\ currentRowIndex + 1 = Head(frameCache).size
  /\ frameCache' = Tail(frameCache)
  /\ currentRowIndex' = 0
  /\ reader' = "tryLoad"
  /\ UNCHANGED <<serverVars, commandVars, firstLoad, result, delivered,
                 moreFrames, fetchSize, task, frame>>

\* isFrameFetched reads the front of an empty queue.
ReadEmptyCache ==
  /\ Called
  /\ ~isAsync
  /\ hasData
  /\ ~firstLoad
  /\ task # "failed"
  /\ frameCache = <<>>
  /\ currentRowIndex' = currentRowIndex + 1
  /\ Undefined
  /\ UNCHANGED <<serverVars, commandVars, loadVars, firstLoad>>

\* The steps of loadDataContinue after the pop change the reading thread only,
\* except that Launch starts a task.
Proceed(from, to) ==
  /\ reader = from
  /\ reader' = to
  /\ UNCHANGED <<serverVars, commandVars, frameCache, moreFrames, fetchSize, frame,
                 firstLoad, currentRowIndex, result, delivered>>

\* tryLoadFrameAsync reads moreFrames ...
TryLoad ==
  /\ Proceed("tryLoad", IF moreFrames THEN "launch" ELSE "mustWait")
  /\ UNCHANGED task

\* ... and, if there is no unfinished task, starts a new one in its place.
Launch ==
  /\ Proceed("launch", "mustWait")
  /\ task' = IF ~TaskCreated \/ IsDone THEN "request" ELSE task

\* Mutant of MustWait: the thread goes on without waiting.
MustWaitNever ==
  /\ Proceed("mustWait", "verdict")
  /\ UNCHANGED task

\* Mutant of MustWait: taskCreated is not checked.
MustWaitUncreated ==
  /\ Proceed("mustWait", IF ~IsDone THEN "checkEmpty" ELSE "verdict")
  /\ UNCHANGED task

\* With a task unfinished and no frame in the cache the thread waits.
MustWait ==
  /\ Proceed("mustWait", IF TaskCreated /\ ~IsDone THEN "checkEmpty" ELSE "verdict")
  /\ UNCHANGED task

CheckEmpty ==
  /\ Proceed("checkEmpty", IF frameCache = <<>> THEN "wait" ELSE "verdict")
  /\ UNCHANGED task

\* task.wait(); task.get()
Wait ==
  /\ task = "done"
  /\ Proceed("wait", "verdict")
  /\ UNCHANGED task

WaitThrows ==
  /\ reader = "wait"
  /\ task = "failed"
  /\ Return("error")
  /\ UNCHANGED <<serverVars, commandVars, loadVars, firstLoad, currentRowIndex>>

\* There is a row if a task is unfinished or the cache has a frame.
Verdict ==
  /\ reader = "verdict"
  /\ IF (TaskCreated /\ ~IsDone) \/ (frameCache # <<>> /\ Head(frameCache).size > 0)
     THEN IF frameCache = <<>> THEN Undefined ELSE ReturnRow(frameCache, currentRowIndex)
     ELSE Return("noData")
  /\ UNCHANGED <<serverVars, commandVars, loadVars, firstLoad, currentRowIndex>>

Read == \/ ReadNoResultSet \/ ReadFirstFrame \/ ReadFirstFrameFails \/ ReadRethrows
        \/ ReadRow \/ ReadEndOfFrame \/ ReadEmptyCache \/ CanReadFast

Continue == TryLoad \/ Launch \/ MustWait \/ CheckEmpty \/ Wait \/ WaitThrows \/ Verdict

-----------------------------------------------------------------------------
\* SQLSetStmtAttr(SQL_ATTR_ASYNC_ENABLE) between two fetches.
SetAsync ==
  /\ reader = "idle"
  /\ isAsync' \in Modes
  /\ UNCHANGED <<serverVars, hasData, commandAlive, loadVars, readVars>>

(***************************************************************************)
(* The end of the reader.  ~Statement destroys its members in reverse      *)
(* order, the reader before the command; Statement::reset destroys the     *)
(* command first.  ~QueryDataReader waits for the task.                    *)
(***************************************************************************)
BeginTeardown ==
  /\ reader = "idle"
  /\ reader' = "destroying"
  /\ \/ "destructor" \in Teardowns /\ UNCHANGED commandAlive
     \/ "reset" \in Teardowns /\ commandAlive' = FALSE
  /\ UNCHANGED <<serverVars, isAsync, hasData, loadVars, firstLoad, currentRowIndex, result, delivered>>

EndTeardown ==
  /\ reader = "destroying"
  /\ ~TaskCreated \/ IsDone
  /\ reader' = "destroyed"
  /\ commandAlive' = FALSE
  /\ UNCHANGED <<serverVars, isAsync, hasData, loadVars, firstLoad, currentRowIndex, result, delivered>>

\* Nothing is left to do, or nothing can be said.
Terminated == reader \in {"destroyed", "undefined"} /\ UNCHANGED vars

Next == Loader \/ Read \/ Continue \/ SetAsync \/ BeginTeardown \/ EndTeardown \/ Terminated

Spec == Init /\ [][Next]_vars

\* The pool runs a task that was started, requests are answered or fail, and a thread
\* inside read() or the destructor runs on.  Nothing makes the application call.
Fairness == WF_vars(Loader) /\ WF_vars(Continue) /\ WF_vars(EndTeardown)

-----------------------------------------------------------------------------
(***************************************************************************)
(* Properties.                                                             *)
(***************************************************************************)

TypeOK ==
  /\ rows \in Nat /\ cursor \in Nat /\ failures \in Nat
  /\ isAsync \in BOOLEAN /\ hasData \in BOOLEAN /\ commandAlive \in BOOLEAN
  /\ frameCache \in Seq(Frames)
  /\ moreFrames \in BOOLEAN
  /\ firstLoad \in BOOLEAN
  /\ currentRowIndex \in Int
  /\ fetchSize \in Nat
  /\ task \in TaskStates
  /\ frame \in Frames
  /\ reader \in ReaderStates
  /\ result \in Results
  /\ delivered \in Seq(Int)

\* Rows come out of the reader in the order of the result set, none skipped and none
\* repeated, whatever the prefetch does: the k-th row read is row k.
DeliveredInOrder == \A k \in 1..Len(delivered) : delivered[k] = k

\* Even when replies are lost no row is repeated and none comes after a later one.
DeliveredIncreasing == \A k \in 2..Len(delivered) : delivered[k - 1] < delivered[k]

\* The end of data is reported only when every row was read: a prefetch that is late,
\* empty or failed is never mistaken for the end.
EndIsComplete == result = "noData" => Len(delivered) = rows

\* Behaviour is undefined only if the application fetches again after an error, and then
\* because a failed request left the frame cache empty, whichever way read(), canReadFast,
\* the loader and the destructor interleave.  In synchronous mode that request was the very
\* first one: of any other the exception is thrown before the cache is looked at.
UndefinedOnlyAfterError ==
  reader = "undefined" =>
    /\ result = "error" /\ failures < MaxFailures
    /\ frameCache = <<>>
    /\ isAsync \/ delivered = <<>>

\* Prefetching stays one frame ahead: at most the frame being read and the next one are
\* in memory, and a second one is loaded only after the front frame was discarded.
CacheBounded == Len(frameCache) + (IF task = "push" THEN 1 ELSE 0) <= 2

\* While the application holds a row, the frame it came from is at the front of the
\* cache and the index still points to it: the loader only appends.
CurrentRowStable ==
  result = "row" /\ reader = "idle" =>
    /\ frameCache # <<>>
    /\ RowNumber(Head(frameCache), currentRowIndex) = delivered[Len(delivered)]

\* Once read() has thrown, it neither yields a row nor reports the end of data: an
\* application that retries SQLFetch is never led past the rows that failed to load.
ErrorIsFinal == [][result = "error" => result' = "error"]_vars

\* Every call of read(), and the destructor, returns: no interleaving leaves the reading
\* thread waiting for a frame that nobody loads.
InCall == reader \in ReadStages \cup {"destroying"}
ReadReturns == InCall ~> ~InCall

Stream == INSTANCE RowStream WITH ended <- (result = "noData")

\* In every interleaving the reader implements the weaker stream: it delivers a prefix
\* of the result set in order and, once the end was reported, nothing more.
ImplementsPrefixStream == Stream!PrefixSpec
=============================================================================
