-------------------------- MODULE StatementProofs --------------------------
(***************************************************************************)
(* Proofs about Statement.  In either mode, for any queries, results and   *)
(* failures, the state of the statement tells which of its command and its *)
(* reader exist (StateCorrect).  In synchronous mode each fetch hands out  *)
(* the next row and the end comes after the last one (SyncFetchCorrect).   *)
(***************************************************************************)
EXTENDS Statement, TLAPS

\* What the bodies of the calls change, and keep typed.
BodyOK ==
  /\ state \in States
  /\ command \in Requests \cup {NoCommand}
  /\ dataReader \in Readers \cup {NoReader}
  /\ failures \in Nat /\ opened \in Nat /\ fetches \in Nat
  /\ ownFailure \in BOOLEAN

\* Only the task of a fetch was started for a fetch.
TaskRequests == \A f \in Functions \ {"fetch"} : tasks[f].request # "fetch"

Inv == TypeOK /\ StateMatchesResources /\ TaskRequests

\* A request is none of the names that stand for something else.
LEMMA RequestNames ==
  ASSUME NEW r \in Requests
  PROVE  /\ r # NoCommand /\ r # NoCall /\ r # "fetch"
         /\ r \notin {"close", "unbind", "resetParams", "bind", "setAsync"}
BY StatementAssumption DEF Requests, Catalog, SyncOnly, NoCommand, NoCall

LEMMA ServerType ==
  ASSUME TypeOK, ServerFails \/ ServerAnswers
  PROVE  failures' \in Nat /\ ownFailure' \in BOOLEAN
<1>1. CASE ServerFails
  BY <1>1 DEF ServerFails, TypeOK
<1>2. CASE ServerAnswers
  BY <1>2 DEF ServerAnswers, TypeOK
<1> QED
  BY <1>1, <1>2

\* The body of a request keeps the statement in order whether it succeeds or fails, since
\* the command is made before the state says so and the reader before the statement opens.
LEMMA OpenBodyStep ==
  ASSUME Inv, NEW request \in Requests, NEW code \in Codes, OpenBody(request, code)
  PROVE  BodyOK' /\ StateMatchesResources'
<1> USE DEF Inv, TypeOK, StateMatchesResources, BodyOK, States
<1>1. CASE state \in Accepting(request)
  <2>1. /\ command' = IF state = "PREPARE" THEN command ELSE request
        /\ state \in {"INITIAL", "PREPARE"}
    BY <1>1 DEF OpenBody, Accepting
  <2>2. command' \in Requests /\ command' # NoCommand /\ dataReader = NoReader
    BY <2>1, RequestNames
  <2>3. CASE code = "SUCCESS"
    <3>1. state' = "OPEN" /\ opened' = opened + 1 /\ fetches' = 0 /\ ServerAnswers
      BY <1>1, <2>3 DEF OpenBody
    <3>2. dataReader' = NewReader(command', TRUE)
      BY <1>1, <2>3 DEF OpenBody
    <3>3. dataReader' \in Readers /\ dataReader'.source = command'
      BY <2>2, <3>2 DEF Readers, NewReader
    <3> QED
      BY <2>2, <3>1, <3>3, ServerType
  <2>4. CASE code # "SUCCESS"
    <3>1. /\ state' = "PREPARE" /\ ServerFails
          /\ UNCHANGED <<dataReader, opened, fetches>>
      BY <1>1, <2>4 DEF OpenBody
    <3> QED
      BY <2>2, <3>1, ServerType
  <2> QED
    BY <2>3, <2>4
<1>2. CASE state \notin Accepting(request)
  <2>1. ServerAnswers /\ UNCHANGED <<state, command, dataReader, opened, fetches>>
    BY <1>2 DEF OpenBody, objectVars
  <2> QED
    BY <2>1, ServerType
<1> QED
  BY <1>1, <1>2

\* An open statement has a reader of its own command.
LEMMA OpenReader ==
  ASSUME Inv, state \in {"OPEN", "FETCH"}
  PROVE  /\ dataReader \in Readers /\ dataReader.source = command
         /\ command \in Requests /\ command # NoCommand
         /\ dataReader.pos \in Nat
<1>1. command # NoCommand /\ dataReader.source = command /\ command \in Requests
  BY DEF Inv, TypeOK, StateMatchesResources
<1>2. dataReader # NoReader
  BY <1>1 DEF NoReader, NewReader
<1> QED
  BY <1>1, <1>2 DEF Inv, TypeOK, Readers

LEMMA FetchBodyStep ==
  ASSUME Inv, NEW code \in Codes, FetchBody(code)
  PROVE  /\ state' \in States /\ command' = command
         /\ dataReader' \in Readers \cup {NoReader}
         /\ buffer' \in [Columns -> [exec : Nat, pos : Nat]]
         /\ failures' \in Nat /\ ownFailure' \in BOOLEAN
         /\ StateMatchesResources'
<1> USE DEF States
<1>1. CASE state \in {"OPEN", "FETCH"} /\ ~dataReader.failed
  <2>1. /\ dataReader \in Readers /\ dataReader.source = command
        /\ command \in Requests /\ command # NoCommand /\ dataReader.pos \in Nat
    BY <1>1, OpenReader
  <2>2. command' = command
    BY <1>1 DEF FetchBody, objectVars
  <2>3. CASE code = "SUCCESS"
    <3>1. /\ state' = "FETCH" /\ dataReader' = Advance(dataReader) /\ ServerAnswers
          /\ buffer' = [c \in Columns |-> IF c \in columnBindings
                                          THEN [exec |-> opened, pos |-> dataReader'.pos]
                                          ELSE buffer[c]]
      BY <1>1, <2>3 DEF FetchBody
    <3>2. dataReader' \in Readers /\ dataReader'.source = command /\ dataReader'.pos \in Nat
      <4>1. dataReader' = [dataReader EXCEPT !.pos = dataReader.pos + 1, !.firstLoad = FALSE]
        BY <3>1 DEF Advance
      <4>2. dataReader.pos + 1 \in Nat
        BY <2>1
      <4> QED
        BY <2>1, <4>1, <4>2 DEF Readers
    <3>3. buffer' \in [Columns -> [exec : Nat, pos : Nat]]
      BY <3>1, <3>2 DEF Inv, TypeOK
    <3> QED
      BY <2>1, <2>2, <3>1, <3>2, <3>3, ServerType DEF Inv, StateMatchesResources
  <2>4. CASE code = "NO_DATA"
    <3>1. /\ state' = "CLOSED" /\ dataReader' = [dataReader EXCEPT !.firstLoad = FALSE]
          /\ ServerAnswers /\ UNCHANGED buffer
      BY <1>1, <2>4 DEF FetchBody
    <3>2. dataReader' \in Readers /\ dataReader'.source = command
      BY <2>1, <3>1 DEF Readers
    <3> QED
      BY <2>1, <2>2, <3>1, <3>2, ServerType DEF Inv, TypeOK, StateMatchesResources
  <2>5. CASE code \notin {"SUCCESS", "NO_DATA"}
    <3>1. state' = "FETCH" /\ ServerFails /\ UNCHANGED buffer
      BY <1>1, <2>5 DEF FetchBody
    <3>2. PICK drained \in DrainedBy(dataReader) :
            dataReader' = [dataReader EXCEPT !.failed = TRUE, !.firstLoad = FALSE,
                                             !.drained = drained]
      BY <1>1, <2>5 DEF FetchBody
    <3>3. drained \in BOOLEAN
      BY DEF DrainedBy
    <3>4. dataReader' \in Readers /\ dataReader'.source = command
      BY <2>1, <3>2, <3>3 DEF Readers
    <3> QED
      BY <2>1, <2>2, <3>1, <3>4, ServerType DEF Inv, TypeOK, StateMatchesResources
  <2> QED
    BY <2>3, <2>4, <2>5
<1>2. CASE ~(state \in {"OPEN", "FETCH"} /\ ~dataReader.failed)
  <2>1. /\ UNCHANGED <<state, command, dataReader, buffer>>
        /\ \/ ownFailure' = TRUE /\ UNCHANGED failures
           \/ ServerAnswers
    BY <1>2 DEF FetchBody, objectVars
  <2> QED
    BY <2>1, ServerType DEF Inv, TypeOK, StateMatchesResources
<1> QED
  BY <1>1, <1>2

\* What a call is answered with, and what is left of its task.
LEMMA PollType ==
  ASSUME NEW task \in Tasks \cup {NoTask}
  PROVE  Reply(task) \in Codes /\ AfterPoll(task) \in Tasks \cup {NoTask}
BY DEF Reply, AfterPoll, Tasks, NoTask, Codes

LEMMA AnswerType ==
  ASSUME NEW fn, NEW code \in Codes, Answer(fn, code), fn \in Requests \cup {"fetch"}
  PROVE  call' \in Requests \cup {"fetch", NoCall} /\ answer'.code \in Codes
BY DEF Answer

-----------------------------------------------------------------------------
(***************************************************************************)
(* The state matches the resources.                                        *)
(***************************************************************************)
LEMMA InvInit == Init => Inv
<1> SUFFICES ASSUME Init PROVE Inv
  OBVIOUS
<1>1. isAsync \in BOOLEAN
  BY StatementAssumption DEF Init
<1>2. buffer \in [Columns -> [exec : Nat, pos : Nat]]
  BY DEF Init, NoRow
<1>3. tasks \in [Functions -> Tasks \cup {NoTask}] /\ TaskRequests
  BY DEF Init, TaskRequests, NoTask, NoCommand
<1>4. answer.code \in Codes
  BY DEF Init, Codes
<1> QED
  BY <1>1, <1>2, <1>3, <1>4, StatementAssumption
     DEF Init, Inv, TypeOK, StateMatchesResources, States

\* A request is answered in the call, starts a task, or collects one.
LEMMA RequestStep ==
  ASSUME Inv, NEW request \in Requests,
         CallSync(request) \/ CallAsync(request) \/ PollAsync(request)
  PROVE  Inv'
<1> USE DEF Inv
<1>1. CASE CallSync(request)
  <2>1. PICK code \in Codes : OpenBody(request, code) /\ AnswerRequest(request, code)
    BY <1>1 DEF CallSync
  <2>2. BodyOK' /\ StateMatchesResources'
    BY <2>1, OpenBodyStep
  <2>3. /\ call' \in Requests \cup {"fetch", NoCall} /\ answer'.code \in Codes
        /\ cursor' \in {"closed", "open", "end"}
    BY <2>1, AnswerType DEF AnswerRequest
  <2> QED
    BY <1>1, <2>2, <2>3 DEF CallSync, TypeOK, BodyOK, TaskRequests
<1>2. CASE CallAsync(request)
  <2>1. /\ call' \in Requests \cup {"fetch", NoCall} /\ answer'.code \in Codes
        /\ cursor' \in {"closed", "open", "end"}
    BY <1>2, AnswerType DEF CallAsync, AnswerRequest, Codes
  <2>2. [stage |-> "queued", request |-> request, code |-> "SUCCESS"] \in Tasks
    BY DEF Tasks, Codes
  <2>3. tasks' \in [Functions -> Tasks \cup {NoTask}] /\ TaskRequests'
    BY <1>2, <2>2, RequestNames DEF CallAsync, TypeOK, TaskRequests
  <2> QED
    BY <1>2, <2>1, <2>3, ServerType DEF CallAsync, TypeOK, StateMatchesResources, objectVars
<1>3. CASE PollAsync(request)
  <2>1. TaskOf(request) \in Functions
    BY <1>3 DEF PollAsync, RunsAsync, TaskOf, Requests, Catalog, Functions
  <2>2. tasks[TaskOf(request)] \in Tasks \cup {NoTask}
    BY <2>1 DEF TypeOK
  <2>3. /\ call' \in Requests \cup {"fetch", NoCall} /\ answer'.code \in Codes
        /\ cursor' \in {"closed", "open", "end"}
    BY <1>3, <2>2, PollType, AnswerType DEF PollAsync, AnswerRequest
  <2>4. tasks' \in [Functions -> Tasks \cup {NoTask}] /\ TaskRequests'
    <3>1. AfterPoll(tasks[TaskOf(request)]) \in {tasks[TaskOf(request)], NoTask}
      BY DEF AfterPoll
    <3>2. NoTask.request # "fetch"
      BY DEF NoTask, NoCommand
    <3> QED
      BY <1>3, <2>1, <2>2, <3>1, <3>2, PollType DEF PollAsync, TypeOK, TaskRequests
  <2> QED
    BY <1>3, <2>3, <2>4, ServerType DEF PollAsync, TypeOK, StateMatchesResources, objectVars
<1> QED
  BY <1>1, <1>2, <1>3

LEMMA CountType ==
  ASSUME Inv, NEW code \in Codes, CountRow(code)
  PROVE  fetches' \in Nat
BY DEF CountRow, Inv, TypeOK

LEMMA FetchAnswerType ==
  ASSUME Inv, NEW code \in Codes, AnswerFetch(code)
  PROVE  /\ call' \in Requests \cup {"fetch", NoCall} /\ answer'.code \in Codes
         /\ cursor' \in {"closed", "open", "end"}
BY AnswerType DEF AnswerFetch, Inv, TypeOK

LEMMA FetchNowStep ==
  ASSUME Inv, NEW code \in Codes, FetchNow(code)
  PROVE  Inv'
<1>1. /\ FetchBody(code) /\ CountRow(code) /\ AnswerFetch(code)
      /\ UNCHANGED <<columnBindings, isAsync, tasks, crashed, opened>>
  BY DEF FetchNow
<1> QED
  BY <1>1, FetchBodyStep, CountType, FetchAnswerType DEF Inv, TypeOK, TaskRequests

LEMMA FetchStep ==
  ASSUME Inv, Fetch
  PROVE  Inv'
<1>1. CASE FetchCrashes
  BY <1>1 DEF FetchCrashes, Inv, TypeOK, StateMatchesResources, TaskRequests, objectVars, historyVars
<1>2. CASE FetchSync \/ FetchAsyncFast
  BY <1>2, FetchNowStep DEF FetchSync, FetchAsyncFast
<1>3. CASE FetchAsyncStart
  <2>1. /\ call' \in Requests \cup {"fetch", NoCall} /\ answer'.code \in Codes
        /\ cursor' \in {"closed", "open", "end"}
    BY <1>3, FetchAnswerType DEF FetchAsyncStart, Codes
  <2>2. [stage |-> "queued", request |-> "fetch", code |-> "SUCCESS"] \in Tasks
    BY DEF Tasks, Codes
  <2>3. tasks' \in [Functions -> Tasks \cup {NoTask}] /\ TaskRequests'
    BY <1>3, <2>2 DEF FetchAsyncStart, Inv, TypeOK, TaskRequests
  <2> QED
    BY <1>3, <2>1, <2>3, ServerType
       DEF FetchAsyncStart, Inv, TypeOK, StateMatchesResources, objectVars
<1>4. CASE FetchAsyncPoll
  <2>1. tasks["fetch"] \in Tasks \cup {NoTask}
    BY DEF Inv, TypeOK, Functions
  <2>2. Reply(tasks["fetch"]) \in Codes /\ AfterPoll(tasks["fetch"]) \in Tasks \cup {NoTask}
    BY <2>1, PollType
  <2>3. /\ call' \in Requests \cup {"fetch", NoCall} /\ answer'.code \in Codes
        /\ cursor' \in {"closed", "open", "end"} /\ fetches' \in Nat
    BY <1>4, <2>2, FetchAnswerType, CountType DEF FetchAsyncPoll
  <2>4. tasks' \in [Functions -> Tasks \cup {NoTask}] /\ TaskRequests'
    BY <1>4, <2>2 DEF FetchAsyncPoll, Inv, TypeOK, TaskRequests
  <2> QED
    BY <1>4, <2>3, <2>4, ServerType
       DEF FetchAsyncPoll, Inv, TypeOK, StateMatchesResources, objectVars
<1> QED
  BY <1>1, <1>2, <1>3, <1>4 DEF Fetch

\* The task of a function, with a new stage and code.
LEMMA TaskStep ==
  ASSUME Inv, NEW f \in Functions, tasks[f].stage \in {"queued", "ran", "done"},
         NEW stage \in {"queued", "ran", "done"}, NEW code \in Codes,
         \/ tasks' = [tasks EXCEPT ![f].stage = stage]
         \/ tasks' = [tasks EXCEPT ![f].stage = stage, ![f].code = code]
  PROVE  /\ tasks[f] \in Tasks
         /\ tasks' \in [Functions -> Tasks \cup {NoTask}]
         /\ TaskRequests'
<1>1. tasks \in [Functions -> Tasks \cup {NoTask}]
  BY DEF Inv, TypeOK
<1>2. tasks[f] \in Tasks
  BY <1>1 DEF NoTask
<1>3. tasks'[f] \in Tasks /\ tasks'[f].request = tasks[f].request
  BY <1>1, <1>2 DEF Tasks
<1>4. \A g \in Functions \ {f} : tasks'[g] = tasks[g]
  BY <1>1
<1>5. tasks' = [g \in Functions |-> tasks'[g]]
  BY <1>1
<1>6. tasks' \in [Functions -> Tasks \cup {NoTask}]
  BY <1>1, <1>3, <1>4, <1>5
<1> QED
  BY <1>2, <1>3, <1>4, <1>6 DEF Inv, TaskRequests

LEMMA PoolStep ==
  ASSUME Inv, Pool
  PROVE  Inv'
<1>1. ASSUME NEW f \in Functions, RunRequest(f)
      PROVE  Inv'
  <2>1. PICK code \in Codes :
          /\ OpenBody(tasks[f].request, code)
          /\ tasks' = [tasks EXCEPT ![f].stage = "ran", ![f].code = code]
    BY <1>1 DEF RunRequest
  <2>2. /\ tasks[f] \in Tasks /\ tasks' \in [Functions -> Tasks \cup {NoTask}]
        /\ TaskRequests'
    BY <1>1, <2>1, TaskStep DEF RunRequest
  <2>3. tasks[f].request \in Requests
    BY <1>1, <2>2 DEF RunRequest, Tasks, Inv, TaskRequests
  <2>4. BodyOK' /\ StateMatchesResources'
    BY <2>1, <2>3, OpenBodyStep
  <2> QED
    BY <1>1, <2>2, <2>4 DEF RunRequest, Inv, TypeOK, BodyOK
<1>2. ASSUME NEW f \in Functions, Complete(f)
      PROVE  Inv'
  <2>1. tasks' \in [Functions -> Tasks \cup {NoTask}] /\ TaskRequests'
    BY <1>2, TaskStep DEF Complete, Codes
  <2> QED
    BY <1>2, <2>1 DEF Complete, Inv, TypeOK, StateMatchesResources, objectVars, historyVars
<1>3. CASE RunFetch
  <2>1. PICK code \in Codes :
          /\ FetchBody(code)
          /\ tasks' = [tasks EXCEPT !["fetch"].stage = "ran", !["fetch"].code = code]
    BY <1>3 DEF RunFetch
  <2>2. tasks' \in [Functions -> Tasks \cup {NoTask}] /\ TaskRequests'
    BY <1>3, <2>1, TaskStep DEF RunFetch, Functions
  <2> QED
    BY <1>3, <2>1, <2>2, FetchBodyStep DEF RunFetch, Inv, TypeOK
<1> QED
  BY <1>1, <1>2, <1>3 DEF Pool

\* What every call has in common that never runs asynchronously.
LEMMA AtOnceType ==
  ASSUME Inv, NEW fn, NEW accepted, AnswerAtOnce(fn, accepted)
  PROVE  /\ answer'.code \in Codes /\ ownFailure' \in BOOLEAN
         /\ UNCHANGED <<tasks, buffer, failures, crashed, call, opened, fetches>>
         /\ TaskRequests'
BY DEF AnswerAtOnce, Codes, Inv, TaskRequests

LEMMA OtherStep ==
  ASSUME Inv, Other
  PROVE  Inv'
<1> USE DEF Inv, TypeOK, StateMatchesResources
<1>1. CASE FreeStmtClose
  BY <1>1, AtOnceType DEF FreeStmtClose, States
<1>2. CASE FreeStmtUnbind
  <2>1. PICK accepted : AnswerAtOnce("unbind", accepted)
    BY <1>2 DEF FreeStmtUnbind
  <2> QED
    BY <1>2, <2>1, AtOnceType DEF FreeStmtUnbind, objectVars
<1>3. CASE FreeStmtResetParams
  BY <1>3, AtOnceType DEF FreeStmtResetParams, objectVars
<1>4. ASSUME NEW c \in Columns, BindCol(c) \/ UnbindCol(c)
      PROVE  Inv'
  <2>1. columnBindings' \subseteq Columns
    BY <1>4 DEF BindCol, UnbindCol
  <2>2. PICK accepted : AnswerAtOnce("bind", accepted)
    BY <1>4 DEF BindCol, UnbindCol
  <2> QED
    BY <1>4, <2>1, <2>2, AtOnceType DEF BindCol, UnbindCol, objectVars
<1>5. ASSUME NEW value \in Modes, SetAsync(value)
      PROVE  Inv'
  <2>1. isAsync' \in BOOLEAN
    BY <1>5, StatementAssumption DEF SetAsync
  <2> QED
    BY <1>5, <2>1, AtOnceType DEF SetAsync, objectVars
<1> QED
  BY <1>1, <1>2, <1>3, <1>4, <1>5 DEF Other

LEMMA InvStep == Inv /\ [Next]_vars => Inv'
<1> SUFFICES ASSUME Inv, [Next]_vars PROVE Inv'
  OBVIOUS
<1>1. CASE Call
  BY <1>1, RequestStep, FetchStep DEF Call
<1>2. CASE Pool
  BY <1>2, PoolStep
<1>3. CASE Other
  BY <1>3, OtherStep
<1>4. CASE UNCHANGED vars
  BY <1>4 DEF vars, objectVars, historyVars, Inv, TypeOK, StateMatchesResources, TaskRequests
<1> QED
  BY <1>1, <1>2, <1>3, <1>4 DEF Next, Crashed

LEMMA InvAlways == Spec => []Inv
BY InvInit, InvStep, PTL DEF Spec

\* The variables of a statement keep their types, for any queries and results.
THEOREM TypeCorrect == Spec => []TypeOK
BY InvAlways, PTL DEF Inv

\* In whatever order calls, tasks, failures, closes and changes of the mode come, the
\* state tells which of the command and the reader exist: no call that looks at it first
\* follows a null pointer.
THEOREM StateCorrect == Spec => []StateMatchesResources
BY InvAlways, PTL DEF Inv

-----------------------------------------------------------------------------
(***************************************************************************)
(* Synchronous mode.  There are no tasks, and the number of rows reported  *)
(* since the execution is the position of the reader.                      *)
(***************************************************************************)
SyncInv ==
  /\ isAsync = FALSE
  /\ tasks = [f \in Functions |-> NoTask]
  /\ state \in {"OPEN", "FETCH"} => fetches = dataReader.pos
  /\ BoundColumnsCurrent
  /\ NoDataIsComplete

LEMMA SyncRequest ==
  ASSUME Inv, SyncInv, NEW request \in Requests,
         CallSync(request) \/ CallAsync(request) \/ PollAsync(request)
  PROVE  SyncInv'
<1>1. CallSync(request)
  BY DEF SyncInv, CallAsync, PollAsync, RunsAsync
<1>2. PICK code \in Codes : OpenBody(request, code) /\ AnswerRequest(request, code)
  BY <1>1 DEF CallSync
<1>3. answer'.fn # "fetch"
  BY <1>2, RequestNames DEF AnswerRequest, Answer
<1>4. state' \in {"OPEN", "FETCH"} => fetches' = dataReader'.pos
  <2>1. CASE state \in Accepting(request) /\ code = "SUCCESS"
    <3>1. /\ dataReader' = NewReader(command', TRUE)
          /\ fetches' = 0
      BY <1>2, <2>1 DEF OpenBody
    <3> QED
      BY <3>1 DEF NewReader
  <2>2. CASE state \in Accepting(request) /\ code # "SUCCESS"
    BY <1>2, <2>2 DEF OpenBody
  <2>3. CASE state \notin Accepting(request)
    BY <1>2, <2>3 DEF OpenBody, objectVars, SyncInv
  <2> QED
    BY <2>1, <2>2, <2>3
<1>5. isAsync' = isAsync /\ tasks' = tasks
  BY <1>1 DEF CallSync
<1> QED
  BY <1>3, <1>4, <1>5 DEF SyncInv, BoundColumnsCurrent, NoDataIsComplete

LEMMA SyncFetch ==
  ASSUME Inv, SyncInv, Fetch
  PROVE  SyncInv'
<1>1. CASE FetchCrashes
  BY <1>1 DEF FetchCrashes, SyncInv, BoundColumnsCurrent, NoDataIsComplete, objectVars, historyVars
<1>2. CASE FetchSync
  <2>1. PICK code \in Codes : FetchNow(code)
    BY <1>2 DEF FetchSync
  <2>2. /\ FetchBody(code) /\ CountRow(code)
        /\ answer' = [fn |-> "fetch", code |-> code]
        /\ UNCHANGED <<columnBindings, isAsync, tasks, opened>>
    BY <2>1 DEF FetchNow, AnswerFetch, Answer
  <2>3. answer'.code = code
    BY <2>2
  <2>4. CASE state \in {"OPEN", "FETCH"} /\ ~dataReader.failed
    <3>1. dataReader \in Readers /\ dataReader.pos \in Nat /\ fetches = dataReader.pos
      BY <2>4, OpenReader DEF SyncInv
    <3>2. CASE code = "SUCCESS"
      <4>1. /\ dataReader' = [dataReader EXCEPT !.pos = dataReader.pos + 1, !.firstLoad = FALSE]
            /\ buffer' = [c \in Columns |-> IF c \in columnBindings
                                            THEN [exec |-> opened, pos |-> dataReader'.pos]
                                            ELSE buffer[c]]
        BY <2>2, <2>4, <3>2 DEF FetchBody, Advance
      <4>2. fetches' = dataReader'.pos
        BY <2>2, <3>1, <3>2, <4>1 DEF CountRow, Readers
      <4>3. BoundColumnsCurrent'
        BY <2>2, <4>1, <4>2 DEF BoundColumnsCurrent, Inv, TypeOK
      <4>4. NoDataIsComplete'
        BY <2>3, <3>2 DEF NoDataIsComplete
      <4> QED
        BY <2>2, <4>2, <4>3, <4>4 DEF SyncInv
    <3>3. CASE code = "NO_DATA"
      <4>1. /\ AtEnd(dataReader) /\ state' = "CLOSED" /\ fetches' = fetches
            /\ dataReader' = [dataReader EXCEPT !.firstLoad = FALSE]
        BY <2>2, <2>4, <3>3 DEF FetchBody, CountRow
      <4>2. dataReader'.source = dataReader.source /\ fetches' = RowCount[dataReader.source]
        BY <3>1, <4>1 DEF AtEnd, Readers
      <4> QED
        BY <2>2, <2>3, <3>3, <4>1, <4>2 DEF SyncInv, BoundColumnsCurrent, NoDataIsComplete
    <3>4. CASE code \notin {"SUCCESS", "NO_DATA"}
      <4>1. dataReader'.pos = dataReader.pos /\ fetches' = fetches
        BY <2>2, <2>4, <3>1, <3>4 DEF FetchBody, CountRow, Readers
      <4> QED
        BY <2>2, <2>3, <3>1, <3>4, <4>1 DEF SyncInv, BoundColumnsCurrent, NoDataIsComplete
    <3> QED
      BY <3>2, <3>3, <3>4
  <2>5. CASE ~(state \in {"OPEN", "FETCH"} /\ ~dataReader.failed)
    <3>1. code = "ERROR" /\ UNCHANGED <<state, dataReader, buffer>>
      BY <2>2, <2>5 DEF FetchBody, objectVars
    <3>2. fetches' = fetches
      BY <2>2, <3>1 DEF CountRow
    <3> QED
      BY <2>2, <2>3, <3>1, <3>2 DEF SyncInv, BoundColumnsCurrent, NoDataIsComplete
  <2> QED
    BY <2>4, <2>5
<1>3. CASE FetchAsyncFast \/ FetchAsyncStart \/ FetchAsyncPoll
  BY <1>3 DEF FetchAsyncFast, FetchAsyncStart, FetchAsyncPoll, SyncInv
<1> QED
  BY <1>1, <1>2, <1>3 DEF Fetch

LEMMA SyncOther ==
  ASSUME Modes = {FALSE}, Inv, SyncInv, Other
  PROVE  SyncInv'
<1>1. /\ answer'.fn # "fetch"
      /\ UNCHANGED <<tasks, fetches>>
      /\ isAsync' = FALSE
      /\ state' = "INITIAL" \/ UNCHANGED <<state, dataReader>>
  <2>1. isAsync = FALSE
    BY DEF SyncInv
  <2>2. CASE FreeStmtClose
    BY <2>1, <2>2 DEF FreeStmtClose, AnswerAtOnce
  <2>3. CASE FreeStmtUnbind
    BY <2>1, <2>3 DEF FreeStmtUnbind, AnswerAtOnce, objectVars
  <2>4. CASE FreeStmtResetParams
    BY <2>1, <2>4 DEF FreeStmtResetParams, AnswerAtOnce, objectVars
  <2>5. CASE \E c \in Columns : BindCol(c)
    BY <2>1, <2>5 DEF BindCol, AnswerAtOnce, objectVars
  <2>6. CASE \E c \in Columns : UnbindCol(c)
    BY <2>1, <2>6 DEF UnbindCol, AnswerAtOnce, objectVars
  <2>7. CASE \E value \in Modes : SetAsync(value)
    BY <2>7 DEF SetAsync, AnswerAtOnce, objectVars
  <2> QED
    BY <2>2, <2>3, <2>4, <2>5, <2>6, <2>7 DEF Other
<1> QED
  BY <1>1 DEF SyncInv, BoundColumnsCurrent, NoDataIsComplete

LEMMA SyncStep == Modes = {FALSE} /\ Inv /\ SyncInv /\ [Next]_vars => SyncInv'
<1> SUFFICES ASSUME Modes = {FALSE}, Inv, SyncInv, [Next]_vars PROVE SyncInv'
  OBVIOUS
<1>1. CASE Call
  BY <1>1, SyncRequest, SyncFetch DEF Call
<1>2. CASE Pool
  BY <1>2 DEF Pool, RunRequest, RunFetch, Complete, SyncInv, Functions, NoTask
<1>3. CASE Other
  BY <1>3, SyncOther
<1>4. CASE UNCHANGED vars
  BY <1>4 DEF vars, objectVars, historyVars, SyncInv, BoundColumnsCurrent, NoDataIsComplete
<1> QED
  BY <1>1, <1>2, <1>3, <1>4 DEF Next, Crashed

LEMMA SyncAlways == ASSUME Modes = {FALSE} PROVE Spec => [](Inv /\ SyncInv)
<1>1. Init => SyncInv
  <2> SUFFICES ASSUME Init PROVE SyncInv
    OBVIOUS
  <2>1. isAsync = FALSE
    BY DEF Init
  <2>2. answer.fn = "no call" /\ state = "INITIAL" /\ tasks = [f \in Functions |-> NoTask]
    BY DEF Init, NoCall
  <2>3. answer.fn # "fetch"
    BY <2>2
  <2>4. BoundColumnsCurrent /\ NoDataIsComplete
    BY <2>3 DEF BoundColumnsCurrent, NoDataIsComplete
  <2>5. ~(state \in {"OPEN", "FETCH"})
    BY <2>2
  <2> QED
    BY <2>1, <2>2, <2>4, <2>5 DEF SyncInv
<1>2. Inv /\ SyncInv /\ [Next]_vars => SyncInv'
  BY SyncStep
<1> QED
  BY <1>1, <1>2, InvAlways, PTL DEF Spec

\* In synchronous mode, for any queries, results, frames and failures: a fetch that
\* reports a row has put the next row of the execution into every bound column, and the
\* end of data is reported after the last row.
THEOREM SyncFetchCorrect ==
  ASSUME Modes = {FALSE} PROVE Spec => []FetchesExact
<1>1. SyncInv => FetchesExact
  BY DEF SyncInv, FetchesExact
<1> QED
  BY <1>1, SyncAlways, PTL

-----------------------------------------------------------------------------
(***************************************************************************)
(* Either mode: whose result a call collects.  A task of a request that is *)
(* queued or succeeded belongs to the call that is unfinished (Owns), and  *)
(* a queued fetch waits for a row that is not there yet, so that the call  *)
(* that started it cannot return without it.                               *)
(***************************************************************************)
Fresh == state = "OPEN" /\ dataReader.firstLoad
Owns(f) == call # NoCall /\ TaskOf(call) = f

FreshInv ==
  /\ call # NoCall => isAsync /\ call \notin SyncOnly /\ answer.code = "STILL_EXECUTING"
  /\ \A f \in Functions : tasks[f].stage = "queued" => Owns(f)
  /\ \A f \in Functions \ {"fetch"} :
       tasks[f].stage \in {"ran", "done"} /\ tasks[f].code = "SUCCESS" => Owns(f) /\ Fresh
  /\ tasks["fetch"].stage = "queued" =>
       Readable /\ ~ReadsEmptyCache(dataReader) /\ ~CanReadFast(dataReader)
  /\ SuccessIsFresh

\* A result that needs no server is read in the call itself.
LocalInv == IsLocal(dataReader) => FetchesExact /\ (Readable => fetches = dataReader.pos)

\* The request a task was started for, and the function it belongs to.
LEMMA TaskNames ==
  /\ \A r \in Requests : TaskOf(r) # "fetch" /\ (r \notin SyncOnly => TaskOf(r) \in Functions)
  /\ TaskOf("fetch") = "fetch"
<1>1. "fetch" \notin Queries
  BY StatementAssumption
<1> QED
  BY <1>1 DEF TaskOf, Requests, Catalog, SyncOnly, Functions

\* The body of a request ends in one of two ways.
LEMMA OpenBodyCodes ==
  ASSUME NEW request, NEW code, OpenBody(request, code)
  PROVE  /\ code \in {"SUCCESS", "ERROR"}
         /\ code = "SUCCESS" => /\ Fresh' /\ opened' = opened + 1 /\ fetches' = 0
                                /\ dataReader'.pos = 0 /\ state \in Accepting(request)
         /\ code = "ERROR" => /\ dataReader' = dataReader /\ fetches' = fetches
                              /\ opened' = opened
                              /\ state' = state \/ state' = "PREPARE"
BY DEF OpenBody, Fresh, NewReader, objectVars

LEMMA FetchBodyCodes ==
  ASSUME NEW code, FetchBody(code)
  PROVE  code \in {"SUCCESS", "NO_DATA", "ERROR"}
BY DEF FetchBody

\* A call that answers while no task of a request is queued or has succeeded leaves the
\* tasks as they should be, whatever it did to the statement.
LEMMA NoOwner ==
  ASSUME FreshInv, call = NoCall \/ call = "fetch"
  PROVE  \A f \in Functions \ {"fetch"} :
           ~(tasks[f].stage = "queued")
           /\ ~(tasks[f].stage \in {"ran", "done"} /\ tasks[f].code = "SUCCESS")
BY TaskNames DEF FreshInv, Owns

LEMMA FreshCallSync ==
  ASSUME Inv, FreshInv, NEW request \in Requests, CallSync(request)
  PROVE  FreshInv'
<1>1. PICK code \in Codes : OpenBody(request, code) /\ AnswerRequest(request, code)
  BY DEF CallSync
<1>2. call = NoCall /\ UNCHANGED <<tasks, isAsync>>
  BY RequestNames DEF CallSync, LetsThrough, RunsAsync, FreshInv
<1>3. code \in {"SUCCESS", "ERROR"} /\ (code = "SUCCESS" => Fresh')
  BY <1>1, OpenBodyCodes
<1>4. /\ answer' = [fn |-> request, code |-> code] /\ call' = NoCall
      /\ code = "SUCCESS" => cursor' = "open"
  BY <1>1, <1>3 DEF AnswerRequest, Answer
<1>5. SuccessIsFresh'
  BY <1>3, <1>4 DEF SuccessIsFresh, Fresh
<1>6. tasks["fetch"].stage # "queued"
  BY <1>2 DEF FreshInv, Owns, Functions
<1>7. \A f \in Functions \ {"fetch"} :
        tasks'[f].stage # "queued"
        /\ ~(tasks'[f].stage \in {"ran", "done"} /\ tasks'[f].code = "SUCCESS")
  BY <1>2, NoOwner
<1> QED
  BY <1>2, <1>4, <1>5, <1>6, <1>7 DEF FreshInv

LEMMA FreshCallAsync ==
  ASSUME Inv, FreshInv, NEW request \in Requests, CallAsync(request)
  PROVE  FreshInv'
<1>1. /\ call' = request /\ request # NoCall /\ isAsync' /\ request \notin SyncOnly
      /\ answer' = [fn |-> request, code |-> "STILL_EXECUTING"]
      /\ UNCHANGED <<state, dataReader>>
  BY RequestNames DEF CallAsync, AnswerRequest, Answer, RunsAsync, objectVars
<1>2. TaskOf(request) \in Functions \ {"fetch"} /\ tasks[TaskOf(request)] = NoTask
  BY <1>1, TaskNames DEF CallAsync
<1>3. /\ tasks'[TaskOf(request)].stage = "queued"
      /\ \A f \in Functions \ {TaskOf(request)} : tasks'[f] = tasks[f]
  BY <1>2 DEF CallAsync, Inv, TypeOK
<1>4. call = NoCall \/ call = request
  BY DEF CallAsync, LetsThrough
<1>5. \A f \in Functions \ {TaskOf(request)} : ~Owns(f)
  BY <1>4 DEF Owns
<1>6. SuccessIsFresh'
  BY <1>1 DEF SuccessIsFresh
<1>7. tasks'["fetch"].stage # "queued"
  BY <1>2, <1>3, <1>5 DEF FreshInv, Functions
<1>8. \A f \in Functions : tasks'[f].stage = "queued" => Owns(f)'
  BY <1>1, <1>2, <1>3, <1>5 DEF FreshInv, Owns
<1>9. \A f \in Functions \ {"fetch"} :
        ~(tasks'[f].stage \in {"ran", "done"} /\ tasks'[f].code = "SUCCESS")
  BY <1>2, <1>3, <1>5 DEF FreshInv
<1> QED
  BY <1>1, <1>6, <1>7, <1>8, <1>9 DEF FreshInv

LEMMA FreshPollAsync ==
  ASSUME Inv, FreshInv, NEW request \in Requests, PollAsync(request)
  PROVE  FreshInv'
<1> DEFINE f == TaskOf(request)
           reply == Reply(tasks[f])
<1>1. /\ answer' = [fn |-> request, code |-> reply]
      /\ call' = IF reply = "STILL_EXECUTING" THEN request ELSE NoCall
      /\ reply = "SUCCESS" => cursor' = "open"
      /\ isAsync /\ isAsync' = isAsync /\ request \notin SyncOnly /\ request # NoCall
      /\ UNCHANGED <<state, dataReader>>
      /\ tasks' = [tasks EXCEPT ![f] = AfterPoll(@)]
      /\ call = NoCall \/ call = request
  BY RequestNames
     DEF PollAsync, AnswerRequest, Answer, RunsAsync, objectVars, LetsThrough
<1>2. f \in Functions \ {"fetch"}
  BY <1>1, TaskNames
<1>3. tasks'[f] = AfterPoll(tasks[f]) /\ \A g \in Functions \ {f} : tasks'[g] = tasks[g]
  BY <1>1, <1>2 DEF Inv, TypeOK
<1>4. \A g \in Functions \ {f} : ~Owns(g)
  BY <1>1 DEF Owns
<1>5. reply # "STILL_EXECUTING" => tasks[f].stage = "done" /\ tasks[f].code = reply
  BY DEF Reply
<1>6. reply = "SUCCESS" => Fresh
  BY <1>2, <1>5 DEF FreshInv
<1>7. SuccessIsFresh'
  BY <1>1, <1>6 DEF SuccessIsFresh, Fresh
<1>8. tasks'["fetch"].stage # "queued"
  BY <1>2, <1>3, <1>4 DEF FreshInv, Functions
<1>9. ASSUME tasks'[f].stage = "queued"
      PROVE  call' # NoCall /\ TaskOf(call') = f
  <2>1. tasks[f].stage = "queued"
    BY <1>3, <1>9 DEF AfterPoll, NoTask
  <2>2. reply = "STILL_EXECUTING"
    BY <2>1 DEF Reply
  <2> QED
    BY <1>1, <2>2
<1>10. ASSUME tasks'[f].stage \in {"ran", "done"}, tasks'[f].code = "SUCCESS"
       PROVE  call' # NoCall /\ TaskOf(call') = f /\ Fresh'
  <2>1. tasks'[f] = tasks[f] /\ tasks[f].stage \in {"ran", "done"}
        /\ tasks[f].code = "SUCCESS" /\ tasks[f].stage # "done"
    BY <1>3, <1>10 DEF AfterPoll, NoTask
  <2>2. reply = "STILL_EXECUTING" /\ Fresh
    BY <1>2, <2>1 DEF Reply, FreshInv
  <2> QED
    BY <1>1, <2>2 DEF Fresh
<1> HIDE DEF f, reply
<1>11. \A g \in Functions : tasks'[g].stage = "queued" => Owns(g)'
  BY <1>3, <1>4, <1>9 DEF FreshInv, Owns
<1>12. \A g \in Functions \ {"fetch"} :
         tasks'[g].stage \in {"ran", "done"} /\ tasks'[g].code = "SUCCESS" =>
           Owns(g)' /\ Fresh'
  BY <1>3, <1>4, <1>10 DEF FreshInv, Owns
<1>13. call' # NoCall => isAsync' /\ call' \notin SyncOnly /\ answer'.code = "STILL_EXECUTING"
  BY <1>1
<1> QED
  BY <1>7, <1>8, <1>11, <1>12, <1>13 DEF FreshInv

\* A fetch that runs in the call finds no queued task: one that waits is polled instead.
LEMMA FreshFetchNow ==
  ASSUME Inv, FreshInv, FetchSync \/ FetchAsyncFast
  PROVE  FreshInv'
<1>1. PICK code \in Codes : FetchNow(code)
  BY DEF FetchSync, FetchAsyncFast
<1>2. /\ code \in {"SUCCESS", "NO_DATA", "ERROR"}
      /\ answer' = [fn |-> "fetch", code |-> code] /\ call' = NoCall
      /\ UNCHANGED tasks
  BY <1>1, FetchBodyCodes DEF FetchNow, AnswerFetch, Answer
<1>3. call = NoCall \/ call = "fetch"
  BY DEF FetchSync, FetchAsyncFast, LetsFetch, LetsThrough
<1>4. tasks["fetch"].stage # "queued"
  <2>1. CASE FetchSync
    BY <2>1 DEF FetchSync, FreshInv, Owns, Functions
  <2>2. CASE FetchAsyncFast
    BY <2>2 DEF FetchAsyncFast, FreshInv
  <2> QED
    BY <2>1, <2>2
<1>5. \A f \in Functions \ {"fetch"} :
        tasks[f].stage # "queued"
        /\ ~(tasks[f].stage \in {"ran", "done"} /\ tasks[f].code = "SUCCESS")
  BY <1>3, NoOwner
<1>6. SuccessIsFresh'
  BY <1>2, RequestNames DEF SuccessIsFresh
<1> QED
  BY <1>2, <1>4, <1>5, <1>6 DEF FreshInv

LEMMA FreshFetchTask ==
  ASSUME Inv, FreshInv, FetchAsyncStart \/ FetchAsyncPoll
  PROVE  FreshInv'
<1>1. PICK code : /\ answer' = [fn |-> "fetch", code |-> code]
                  /\ call' = IF code = "STILL_EXECUTING" THEN "fetch" ELSE NoCall
                  /\ \/ code = "STILL_EXECUTING" /\ tasks' = [tasks EXCEPT !["fetch"] =
                          [stage |-> "queued", request |-> "fetch", code |-> "SUCCESS"]]
                     \/ code = Reply(tasks["fetch"])
                        /\ tasks' = [tasks EXCEPT !["fetch"] = AfterPoll(@)]
  BY DEF FetchAsyncStart, FetchAsyncPoll, AnswerFetch, Answer
<1>2. /\ isAsync /\ UNCHANGED <<isAsync, state, dataReader>>
      /\ Readable /\ ~ReadsEmptyCache(dataReader) /\ ~CanReadFast(dataReader)
      /\ call = NoCall \/ call = "fetch"
  BY DEF FetchAsyncStart, FetchAsyncPoll, LetsFetch, LetsThrough, objectVars
<1>3. "fetch" \in Functions /\ "fetch" # NoCall /\ "fetch" \notin SyncOnly
      /\ "fetch" \notin Requests
  BY RequestNames DEF Functions, NoCall, SyncOnly
<1>4. \A f \in Functions \ {"fetch"} : tasks'[f] = tasks[f]
  BY <1>1 DEF Inv, TypeOK
<1>5. \A f \in Functions \ {"fetch"} :
        tasks'[f].stage # "queued"
        /\ ~(tasks'[f].stage \in {"ran", "done"} /\ tasks'[f].code = "SUCCESS")
  BY <1>2, <1>4, NoOwner
<1>6. tasks'["fetch"].stage = "queued" => code = "STILL_EXECUTING"
  <2>1. ASSUME tasks' = [tasks EXCEPT !["fetch"] = AfterPoll(@)], tasks'["fetch"].stage = "queued"
        PROVE  Reply(tasks["fetch"]) = "STILL_EXECUTING"
    <3>1. tasks'["fetch"] = AfterPoll(tasks["fetch"])
      BY <1>3, <2>1 DEF Inv, TypeOK
    <3> QED
      BY <2>1, <3>1 DEF AfterPoll, Reply, NoTask
  <2> QED
    BY <1>1, <2>1
<1>7. tasks'["fetch"].stage = "queued" => call' # NoCall /\ TaskOf(call') = "fetch"
  BY <1>1, <1>3, <1>6, TaskNames
<1>8. (Readable /\ ~ReadsEmptyCache(dataReader) /\ ~CanReadFast(dataReader))'
  BY <1>2 DEF Readable, ReadsEmptyCache, CanReadFast, IsLocal
<1>9. SuccessIsFresh'
  BY <1>1, <1>3 DEF SuccessIsFresh
<1>10. call' # NoCall => isAsync' /\ call' \notin SyncOnly /\ answer'.code = "STILL_EXECUTING"
  BY <1>1, <1>2, <1>3
<1> QED
  BY <1>5, <1>7, <1>8, <1>9, <1>10 DEF FreshInv, Owns

\* The pool runs the task of the unfinished call, and no call is answered meanwhile.
LEMMA FreshPool ==
  ASSUME Inv, FreshInv, Pool
  PROVE  FreshInv'
<1>0. "fetch" \in Functions /\ "fetch" # NoCall /\ \A r \in Requests : r # "fetch"
  BY RequestNames DEF Functions, NoCall
<1>1. ASSUME NEW f \in Functions, RunRequest(f)
      PROVE  FreshInv'
  <2>1. PICK code \in Codes :
          /\ OpenBody(tasks[f].request, code)
          /\ tasks' = [tasks EXCEPT ![f].stage = "ran", ![f].code = code]
    BY <1>1 DEF RunRequest
  <2>2. /\ f # "fetch" /\ tasks[f].stage = "queued" /\ Owns(f)
        /\ UNCHANGED <<call, cursor, answer, isAsync>>
    BY <1>1 DEF RunRequest, FreshInv
  <2>3. tasks[f] \in Tasks
    BY <1>1, <2>1, <2>2, TaskStep
  <2>4. /\ tasks'[f].stage = "ran" /\ tasks'[f].code = code
        /\ \A g \in Functions \ {f} : tasks'[g] = tasks[g]
    BY <2>1, <2>3 DEF Inv, TypeOK, Tasks
  <2>5. \A g \in Functions \ {f} : ~Owns(g)
    BY <2>2 DEF Owns
  <2>6. code = "SUCCESS" => Fresh'
    BY <2>1, OpenBodyCodes
  <2>7. SuccessIsFresh'
    BY <2>2 DEF FreshInv, Owns, SuccessIsFresh
  <2>8. tasks'["fetch"].stage # "queued"
    BY <1>0, <2>2, <2>4, <2>5 DEF FreshInv
  <2>9. \A g \in Functions : tasks'[g].stage # "queued"
    BY <2>4, <2>5 DEF FreshInv
  <2>10. \A g \in Functions \ {"fetch"} :
           tasks'[g].stage \in {"ran", "done"} /\ tasks'[g].code = "SUCCESS" =>
             Owns(g)' /\ Fresh'
    BY <2>2, <2>4, <2>5, <2>6 DEF FreshInv, Owns
  <2> QED
    BY <2>2, <2>7, <2>8, <2>9, <2>10 DEF FreshInv
<1>2. ASSUME NEW f \in Functions, Complete(f)
      PROVE  FreshInv'
  <2>1. /\ tasks[f].stage = "ran"
        /\ UNCHANGED <<state, dataReader, call, cursor, answer, isAsync>>
    BY <1>2 DEF Complete, objectVars
  <2>2. tasks[f] \in Tasks
    BY <1>2, <2>1, TaskStep DEF Complete, Codes
  <2>3. /\ tasks'[f].stage = "done" /\ tasks'[f].code = tasks[f].code
        /\ \A g \in Functions \ {f} : tasks'[g] = tasks[g]
    BY <1>2, <2>2 DEF Complete, Inv, TypeOK, Tasks
  <2>4. SuccessIsFresh'
    BY <2>1 DEF FreshInv, SuccessIsFresh
  <2>5. \A g \in Functions : tasks'[g].stage = "queued" => tasks'[g] = tasks[g]
    BY <2>3
  <2>6. \A g \in Functions :
          tasks'[g].stage \in {"ran", "done"} /\ tasks'[g].code = "SUCCESS" =>
            tasks[g].stage \in {"ran", "done"} /\ tasks[g].code = "SUCCESS"
    BY <2>1, <2>3
  <2>7. tasks'["fetch"].stage = "queued" =>
          (Readable /\ ~ReadsEmptyCache(dataReader) /\ ~CanReadFast(dataReader))'
    BY <1>0, <2>1, <2>5 DEF FreshInv, Readable, ReadsEmptyCache, CanReadFast, IsLocal
  <2> QED
    BY <2>1, <2>4, <2>5, <2>6, <2>7 DEF FreshInv, Owns, Fresh
<1>3. CASE RunFetch
  <2>1. PICK code \in Codes :
          tasks' = [tasks EXCEPT !["fetch"].stage = "ran", !["fetch"].code = code]
    BY <1>3 DEF RunFetch
  <2>2. /\ tasks["fetch"].stage = "queued" /\ Owns("fetch")
        /\ UNCHANGED <<call, cursor, answer, isAsync>>
    BY <1>0, <1>3 DEF RunFetch, FreshInv
  <2>3. tasks["fetch"] \in Tasks
    BY <1>0, <2>1, <2>2, TaskStep
  <2>4. /\ tasks'["fetch"].stage = "ran"
        /\ \A g \in Functions \ {"fetch"} : tasks'[g] = tasks[g] /\ ~Owns(g)
    BY <1>0, <2>1, <2>2, <2>3 DEF Inv, TypeOK, Tasks, Owns
  <2>5. SuccessIsFresh'
    BY <2>2 DEF FreshInv, Owns, SuccessIsFresh
  <2> QED
    BY <2>2, <2>4, <2>5 DEF FreshInv
<1> QED
  BY <1>1, <1>2, <1>3 DEF Pool

LEMMA FreshOther ==
  ASSUME Inv, FreshInv, Other
  PROVE  FreshInv'
<1>1. /\ call = NoCall /\ call' = NoCall /\ tasks' = tasks
      /\ answer'.fn \in {"close", "unbind", "resetParams", "bind", "setAsync"}
  BY DEF Other, FreeStmtClose, FreeStmtUnbind, FreeStmtResetParams, BindCol, UnbindCol, SetAsync,
         AnswerAtOnce
<1>2. SuccessIsFresh'
  BY <1>1, RequestNames DEF SuccessIsFresh
<1>3. tasks["fetch"].stage # "queued"
  BY <1>1 DEF FreshInv, Owns, Functions
<1>4. \A f \in Functions \ {"fetch"} :
        tasks[f].stage # "queued"
        /\ ~(tasks[f].stage \in {"ran", "done"} /\ tasks[f].code = "SUCCESS")
  BY <1>1, NoOwner
<1> QED
  BY <1>1, <1>2, <1>3, <1>4 DEF FreshInv

LEMMA FreshStep == Inv /\ FreshInv /\ [Next]_vars => FreshInv'
<1> SUFFICES ASSUME Inv, FreshInv, [Next]_vars PROVE FreshInv'
  OBVIOUS
<1>1. CASE UNCHANGED vars \/ FetchCrashes
  <2>1. UNCHANGED <<state, dataReader, tasks, call, cursor, answer, isAsync>>
    BY <1>1 DEF vars, FetchCrashes, objectVars
  <2> QED
    BY <2>1 DEF FreshInv, Owns, Fresh, SuccessIsFresh, Readable, ReadsEmptyCache, CanReadFast, IsLocal
<1> QED
  BY <1>1, FreshCallSync, FreshCallAsync, FreshPollAsync, FreshFetchNow, FreshFetchTask,
     FreshPool, FreshOther
     DEF Next, Call, Fetch, Crashed

LEMMA FreshAlways == Spec => [](Inv /\ FreshInv)
<1>1. Init => FreshInv
  <2> SUFFICES ASSUME Init PROVE FreshInv
    OBVIOUS
  <2>1. \A f \in Functions : tasks[f].stage = "none"
    BY DEF Init, NoTask
  <2>2. "fetch" \in Functions
    BY DEF Functions
  <2>3. call = NoCall /\ SuccessIsFresh
    BY RequestNames DEF Init, SuccessIsFresh
  <2> QED
    BY <2>1, <2>2, <2>3 DEF FreshInv
<1> QED
  BY <1>1, FreshStep, InvAlways, PTL DEF Spec

\* In either mode a request that reports success leaves the statement open at the first
\* row: no result of another task is taken for it, and nothing reads ahead of the call.
THEOREM FreshCorrect == Spec => []SuccessIsFresh
BY FreshAlways, PTL DEF FreshInv

\* A reader of a local result is always at a row or at the end: it never starts a task.
LEMMA LocalReads == \A r : IsLocal(r) => CanReadFast(r) /\ ~AsksServer(r)
BY DEF CanReadFast, AsksServer

LEMMA LocalRequest ==
  ASSUME Inv, FreshInv, LocalInv, NEW request \in Requests,
         CallSync(request) \/ CallAsync(request) \/ PollAsync(request)
  PROVE  LocalInv'
<1>1. CASE CallSync(request)
  <2>1. PICK code \in Codes : OpenBody(request, code) /\ AnswerRequest(request, code)
    BY <1>1 DEF CallSync
  <2>2. answer'.fn # "fetch"
    BY <2>1, RequestNames DEF AnswerRequest, Answer
  <2>3. FetchesExact'
    BY <2>2 DEF FetchesExact, BoundColumnsCurrent, NoDataIsComplete
  <2>4. \/ fetches' = 0 /\ dataReader'.pos = 0
        \/ dataReader' = dataReader /\ fetches' = fetches /\ (Readable' => Readable)
    BY <2>1, OpenBodyCodes DEF Readable
  <2> QED
    BY <2>3, <2>4 DEF LocalInv, IsLocal
<1>2. CASE CallAsync(request) \/ PollAsync(request)
  <2>1. UNCHANGED <<state, dataReader, fetches>> /\ answer'.fn # "fetch"
    BY <1>2, RequestNames DEF CallAsync, PollAsync, AnswerRequest, Answer, objectVars
  <2>2. FetchesExact'
    BY <2>1 DEF FetchesExact, BoundColumnsCurrent, NoDataIsComplete
  <2> QED
    BY <2>1, <2>2 DEF LocalInv, IsLocal, Readable
<1> QED
  BY <1>1, <1>2

LEMMA LocalFetchNow ==
  ASSUME Inv, LocalInv, NEW code \in Codes, FetchNow(code)
  PROVE  LocalInv'
<1>1. /\ FetchBody(code) /\ CountRow(code)
      /\ answer' = [fn |-> "fetch", code |-> code]
      /\ UNCHANGED <<columnBindings, opened>>
  BY DEF FetchNow, AnswerFetch, Answer
<1>2. answer'.code = code
  BY <1>1
<1> SUFFICES ASSUME IsLocal(dataReader)'
             PROVE  FetchesExact' /\ (Readable' => fetches' = dataReader'.pos)
  BY DEF LocalInv
<1>3. CASE Readable /\ ~dataReader.failed
  <2>1. dataReader \in Readers /\ dataReader.pos \in Nat
    BY <1>3, OpenReader DEF Readable
  <2>2. dataReader'.source = dataReader.source
    BY <1>1, <1>3, <2>1 DEF FetchBody, Advance, Readers, Readable
  <2>3. IsLocal(dataReader)
    BY <2>2 DEF IsLocal
  <2>4. fetches = dataReader.pos
    BY <1>3, <2>3 DEF LocalInv
  <2>5. CASE code = "SUCCESS"
    <3>1. /\ dataReader' = [dataReader EXCEPT !.pos = dataReader.pos + 1, !.firstLoad = FALSE]
          /\ buffer' = [c \in Columns |-> IF c \in columnBindings
                                          THEN [exec |-> opened, pos |-> dataReader'.pos]
                                          ELSE buffer[c]]
      BY <1>1, <1>3, <2>5 DEF FetchBody, Advance, Readable
    <3>2. fetches' = dataReader'.pos
      BY <1>1, <2>1, <2>4, <2>5, <3>1 DEF CountRow, Readers
    <3>3. BoundColumnsCurrent'
      BY <1>1, <3>1, <3>2 DEF BoundColumnsCurrent, Inv, TypeOK
    <3>4. NoDataIsComplete'
      BY <1>2, <2>5 DEF NoDataIsComplete
    <3> QED
      BY <3>2, <3>3, <3>4 DEF FetchesExact
  <2>6. CASE code = "NO_DATA"
    <3>1. /\ AtEnd(dataReader) /\ state' = "CLOSED" /\ fetches' = fetches
      BY <1>1, <1>3, <2>6 DEF FetchBody, CountRow, Readable
    <3>2. fetches' = RowCount[dataReader'.source]
      BY <2>2, <2>4, <3>1 DEF AtEnd
    <3>3. BoundColumnsCurrent' /\ NoDataIsComplete'
      BY <1>2, <2>6, <3>2 DEF BoundColumnsCurrent, NoDataIsComplete
    <3> QED
      BY <3>1, <3>3 DEF FetchesExact, Readable
  <2>7. code # "ERROR"
    BY <1>1, <1>3, <2>3, LocalReads DEF FetchBody, Readable
  <2> QED
    BY <1>1, <2>5, <2>6, <2>7, FetchBodyCodes
<1>4. CASE ~(Readable /\ ~dataReader.failed)
  <2>1. code = "ERROR" /\ UNCHANGED <<state, dataReader>>
    BY <1>1, <1>4 DEF FetchBody, objectVars, Readable
  <2>2. fetches' = fetches
    BY <1>1, <2>1 DEF CountRow
  <2>3. BoundColumnsCurrent' /\ NoDataIsComplete'
    BY <1>2, <2>1 DEF BoundColumnsCurrent, NoDataIsComplete
  <2> QED
    BY <2>1, <2>2, <2>3 DEF LocalInv, FetchesExact, IsLocal, Readable
<1> QED
  BY <1>3, <1>4

LEMMA LocalPool ==
  ASSUME Inv, FreshInv, LocalInv, Pool
  PROVE  LocalInv'
<1>1. ASSUME NEW f \in Functions, RunRequest(f)
      PROVE  LocalInv'
  <2>1. PICK code \in Codes : OpenBody(tasks[f].request, code)
    BY <1>1 DEF RunRequest
  <2>2. answer' = answer /\ answer.code = "STILL_EXECUTING"
    BY <1>1 DEF RunRequest, FreshInv, Owns
  <2>3. FetchesExact'
    BY <2>2 DEF FetchesExact, BoundColumnsCurrent, NoDataIsComplete
  <2>4. \/ fetches' = 0 /\ dataReader'.pos = 0
        \/ dataReader' = dataReader /\ fetches' = fetches /\ (Readable' => Readable)
    BY <2>1, OpenBodyCodes DEF Readable
  <2> QED
    BY <2>3, <2>4 DEF LocalInv, IsLocal
<1>2. ASSUME NEW f \in Functions, Complete(f)
      PROVE  LocalInv'
  BY <1>2 DEF Complete, LocalInv, FetchesExact, BoundColumnsCurrent, NoDataIsComplete, IsLocal,
              Readable, objectVars, historyVars
<1>3. CASE RunFetch
  <2>1. PICK code \in Codes : FetchBody(code)
    BY <1>3 DEF RunFetch
  <2>2. Readable /\ ~CanReadFast(dataReader)
    BY <1>3 DEF RunFetch, FreshInv
  <2>3. dataReader \in Readers /\ ~IsLocal(dataReader)
    BY <2>2, OpenReader, LocalReads DEF Readable
  <2>4. dataReader'.source = dataReader.source
    BY <2>1, <2>3 DEF FetchBody, Advance, Readers, objectVars
  <2> QED
    BY <2>3, <2>4 DEF LocalInv, IsLocal
<1> QED
  BY <1>1, <1>2, <1>3 DEF Pool

LEMMA LocalOther ==
  ASSUME Inv, LocalInv, Other
  PROVE  LocalInv'
<1>1. answer'.fn # "fetch" /\ fetches' = fetches
  BY DEF Other, FreeStmtClose, FreeStmtUnbind, FreeStmtResetParams, BindCol, UnbindCol, SetAsync,
         AnswerAtOnce
<1>2. state' = "INITIAL" \/ UNCHANGED <<state, dataReader>>
  BY DEF Other, FreeStmtClose, FreeStmtUnbind, FreeStmtResetParams, BindCol, UnbindCol, SetAsync,
         objectVars
<1>3. FetchesExact'
  BY <1>1 DEF FetchesExact, BoundColumnsCurrent, NoDataIsComplete
<1> QED
  BY <1>1, <1>2, <1>3 DEF LocalInv, Readable, IsLocal

LEMMA LocalStep == Inv /\ FreshInv /\ LocalInv /\ [Next]_vars => LocalInv'
<1> SUFFICES ASSUME Inv, FreshInv, LocalInv, [Next]_vars PROVE LocalInv'
  OBVIOUS
<1>1. CASE UNCHANGED vars
  BY <1>1 DEF vars, LocalInv, FetchesExact, BoundColumnsCurrent, NoDataIsComplete, IsLocal,
              Readable, objectVars, historyVars
<1>2. CASE FetchCrashes
  BY <1>2 DEF FetchCrashes, LocalInv, FetchesExact, BoundColumnsCurrent, NoDataIsComplete,
              IsLocal, Readable, objectVars, historyVars
<1>3. CASE FetchSync \/ FetchAsyncFast
  BY <1>3, LocalFetchNow DEF FetchSync, FetchAsyncFast
<1>4. CASE FetchAsyncStart \/ FetchAsyncPoll
  <2>1. dataReader' = dataReader /\ ~CanReadFast(dataReader)
    BY <1>4 DEF FetchAsyncStart, FetchAsyncPoll, objectVars
  <2> QED
    BY <2>1, LocalReads DEF LocalInv, IsLocal
<1> QED
  BY <1>1, <1>2, <1>3, <1>4, LocalRequest, LocalPool, LocalOther DEF Next, Call, Fetch, Crashed

\* A result that needs no server is fetched exactly in either mode: no fetch task is ever
\* started for it, and none that another result left behind is taken for its row.
THEOREM LocalFetchCorrect == Spec => []LocalFetchesExact
<1>1. Init => LocalInv
  <2> SUFFICES ASSUME Init PROVE LocalInv
    OBVIOUS
  <2>1. answer.fn = "no call" /\ ~Readable
    BY DEF Init, Readable, NoCall
  <2>2. answer.fn # "fetch"
    BY <2>1
  <2>3. FetchesExact
    BY <2>2 DEF FetchesExact, BoundColumnsCurrent, NoDataIsComplete
  <2> QED
    BY <2>1, <2>3 DEF LocalInv
<1>2. LocalInv => LocalFetchesExact
  BY DEF LocalInv, LocalFetchesExact
<1> QED
  BY <1>1, <1>2, LocalStep, FreshAlways, PTL DEF Spec

-----------------------------------------------------------------------------
(***************************************************************************)
(* Synchronous mode before the first failure of the server.  The state     *)
(* follows the cursor of the Driver Manager, so that what it lets through  *)
(* is accepted.                                                            *)
(***************************************************************************)
QuietInv ==
  /\ failures <= MaxFailures
  /\ failures = MaxFailures =>
       /\ cursor = "closed" => state = "INITIAL"
       /\ cursor = "open" => Readable /\ ~dataReader.failed
       /\ answer.fn \in Requests \cup {"fetch"} => answer.code # "ERROR"
       /\ ExecutesRequested

\* Failures only run out.
LEMMA FailuresFall ==
  ASSUME Inv, QuietInv, ServerFails \/ ServerAnswers
  PROVE  /\ failures' <= MaxFailures
         /\ failures' = MaxFailures => ServerAnswers /\ failures = MaxFailures
<1>1. failures \in Nat /\ MaxFailures \in Nat
  BY StatementAssumption DEF Inv, TypeOK
<1> QED
  BY <1>1 DEF ServerFails, ServerAnswers, QuietInv

LEMMA QuietRequest ==
  ASSUME Inv, SyncInv, QuietInv, NEW request \in Requests,
         CallSync(request) \/ CallAsync(request) \/ PollAsync(request)
  PROVE  QuietInv'
<1>1. CallSync(request)
  BY DEF SyncInv, CallAsync, PollAsync, RunsAsync
<1>2. PICK code \in Codes : OpenBody(request, code) /\ AnswerRequest(request, code)
  BY <1>1 DEF CallSync
<1>3. ServerFails \/ ServerAnswers
  BY <1>2 DEF OpenBody
<1>4. failures' <= MaxFailures
  BY <1>3, FailuresFall
<1>5. ASSUME failures' = MaxFailures
      PROVE  /\ code = "SUCCESS" /\ state' = "OPEN" /\ command' = request
             /\ ~dataReader'.failed
  <2>1. state = "INITIAL" /\ ~ServerFails
    <3>1. failures = MaxFailures /\ MaxFailures \in Nat
      BY <1>3, <1>5, FailuresFall, StatementAssumption
    <3>2. failures' # failures - 1
      BY <1>5, <3>1
    <3> QED
      BY <1>1, <3>1, <3>2 DEF CallSync, QuietInv, ServerFails
  <2>2. state \in Accepting(request)
    BY <2>1 DEF Accepting
  <2> QED
    BY <1>2, <2>1, <2>2 DEF OpenBody, NewReader
<1>6. /\ answer' = [fn |-> request, code |-> code]
      /\ cursor' = IF code = "SUCCESS" THEN "open" ELSE "closed"
  BY <1>2 DEF AnswerRequest, Answer
<1> QED
  BY <1>4, <1>5, <1>6 DEF QuietInv, Readable, ExecutesRequested

LEMMA QuietFetch ==
  ASSUME Inv, SyncInv, QuietInv, Fetch
  PROVE  QuietInv'
<1>1. CASE FetchCrashes
  BY <1>1 DEF FetchCrashes, QuietInv, Readable, ExecutesRequested, objectVars
<1>2. CASE FetchSync
  <2>1. PICK code \in Codes : FetchNow(code)
    BY <1>2 DEF FetchSync
  <2>2. /\ FetchBody(code) /\ cursor = "open"
        /\ answer' = [fn |-> "fetch", code |-> code]
        /\ cursor' = IF code = "NO_DATA" THEN "end" ELSE cursor
    BY <1>2, <2>1 DEF FetchSync, LetsFetch, FetchNow, AnswerFetch, Answer
  <2>3. CASE failures = MaxFailures
    <3>1. Readable /\ ~dataReader.failed
      BY <2>2, <2>3 DEF QuietInv
    <3>2. dataReader \in Readers
      BY <3>1, OpenReader DEF Readable
    <3>3. \/ code \in {"SUCCESS", "NO_DATA"} /\ ServerAnswers /\ ~dataReader'.failed
             /\ (code = "SUCCESS" => state' = "FETCH")
          \/ code = "ERROR" /\ ServerFails
      BY <2>2, <3>1, <3>2 DEF FetchBody, Readable, Advance, Readers
    <3>4. failures' <= MaxFailures /\ (failures' = MaxFailures => ~ServerFails)
      <4>1. MaxFailures \in Nat
        BY StatementAssumption
      <4>2. ServerFails => failures' # MaxFailures
        BY <2>3, <4>1 DEF ServerFails
      <4> QED
        BY <3>3, <4>2, FailuresFall
    <3> QED
      BY <2>2, <3>3, <3>4, RequestNames DEF QuietInv, Readable, ExecutesRequested
  <2>4. CASE failures # MaxFailures
    <3>1. ServerFails \/ ServerAnswers \/ failures' = failures
      BY <2>2 DEF FetchBody
    <3>2. failures' <= MaxFailures /\ failures' # MaxFailures
      BY <2>4, <3>1, FailuresFall DEF QuietInv
    <3> QED
      BY <3>2 DEF QuietInv
  <2> QED
    BY <2>3, <2>4
<1>3. CASE FetchAsyncFast \/ FetchAsyncStart \/ FetchAsyncPoll
  BY <1>3 DEF FetchAsyncFast, FetchAsyncStart, FetchAsyncPoll, SyncInv
<1> QED
  BY <1>1, <1>2, <1>3 DEF Fetch

LEMMA QuietStep == Modes = {FALSE} /\ Inv /\ SyncInv /\ QuietInv /\ [Next]_vars => QuietInv'
<1> SUFFICES ASSUME Inv, SyncInv, QuietInv, [Next]_vars PROVE QuietInv'
  OBVIOUS
<1>1. CASE Pool
  BY <1>1 DEF Pool, RunRequest, RunFetch, Complete, SyncInv, Functions, NoTask
<1>2. CASE Other
  <2>1. /\ failures' = failures
        /\ answer'.fn \in {"close", "unbind", "resetParams", "bind", "setAsync"}
        /\ \/ cursor' = "closed" /\ state' = "INITIAL"
           \/ UNCHANGED <<cursor, state, dataReader>>
    BY <1>2 DEF Other, FreeStmtClose, FreeStmtUnbind, FreeStmtResetParams, BindCol, UnbindCol,
                SetAsync, AnswerAtOnce, objectVars
  <2> QED
    BY <2>1, RequestNames DEF QuietInv, Readable, ExecutesRequested
<1>3. CASE UNCHANGED vars
  BY <1>3 DEF vars, QuietInv, Readable, ExecutesRequested, objectVars
<1> QED
  BY <1>1, <1>2, <1>3, QuietRequest, QuietFetch DEF Next, Call, Crashed

\* In synchronous mode, as long as the server failed nothing: no request or fetch that the
\* Driver Manager lets through is refused, and what opens is what was asked for, after any
\* closes, bindings and repeated executions.
THEOREM QuietCorrect ==
  ASSUME Modes = {FALSE} PROVE Spec => []ExactUntilFailure
<1>1. Init => QuietInv
  <2> SUFFICES ASSUME Init PROVE QuietInv
    OBVIOUS
  <2>1. failures <= MaxFailures
    <3>1. failures = MaxFailures
      BY DEF Init
    <3>2. MaxFailures \in Nat
      BY StatementAssumption
    <3> QED
      BY <3>1, <3>2
  <2>2. state = "INITIAL" /\ cursor = "closed"
    BY DEF Init
  <2>3. answer.fn = NoCall /\ NoCall # "fetch"
    BY DEF Init, NoCall
  <2>4. answer.fn \notin Requests \cup {"fetch"}
    BY <2>3, RequestNames
  <2> QED
    BY <2>1, <2>2, <2>4 DEF QuietInv, ExecutesRequested
<1>2. Inv /\ SyncInv /\ QuietInv /\ [Next]_vars => QuietInv'
  BY QuietStep
<1>3. QuietInv => ExactUntilFailure
  BY DEF QuietInv, ExactUntilFailure, ErrorsAreReal
<1> QED
  BY <1>1, <1>2, <1>3, InvAlways, SyncAlways, PTL DEF Spec
=============================================================================
