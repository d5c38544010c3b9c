------------------------ MODULE QueryExecutionProofs ------------------------
(***************************************************************************)
(* Proofs about QueryExecution, for any statements, texts and failures:    *)
(* its types, the records a failed call leaves, and that the query a       *)
(* statement reads is the one of its last execution.                       *)
(***************************************************************************)
EXTENDS QueryExecution, SequenceTheorems, TLAPS

Commands == [fn : {None, "SQLExecDirect", "SQLTables"}, query : ReceivedTexts, handle : Nat,
             by : Statements \cup {None}, number : Nat]
Queries == [query : ReceivedTexts, erased : BOOLEAN, by : Statements, number : Nat,
            status : Running \cup Ended, answered : BOOLEAN]

ClientOK ==
  /\ state \in [Statements -> {"INITIAL", "PREPARE", "OPEN"}]
  /\ command \in [Statements -> Commands]
  /\ dataReader \in [Statements -> Nat \cup {NoReader}]

CallOK ==
  /\ sqlStatus \in [Statements -> Seq(SqlStates)]
  /\ lock \in Statements \cup {None}
  /\ pc \in [Statements -> Stages]
  /\ args \in [Statements -> Arguments \cup {NoArguments}]
  /\ result \in [Statements -> {None, "SUCCESS", "ERROR"}]
  /\ calls \in Nat
  /\ linkFailed \in [Statements -> BOOLEAN]

ServerOK ==
  /\ queries \in Seq(Queries)
  /\ failures \in Nat

\* Who made a command is in it.
Typed == ClientOK /\ CallOK /\ ServerOK /\ \A s \in Statements :
           command[s].fn # None => command[s].by = s

LEMMA TypedImpliesTypeOK == Typed => TypeOK
BY DEF Typed, TypeOK, ClientOK, CallOK, ServerOK, Commands, Queries

\* The ends of a call keep the types.
LEMMA SucceedType ==
  ASSUME CallOK, NEW s \in Statements, Succeed(s)
  PROVE  CallOK'
BY DEF CallOK, Succeed, Return, Stages

LEMMA ThrowType ==
  ASSUME CallOK, NEW s \in Statements, NEW sqlState \in SqlStates, NEW outcome,
         Throw(s, sqlState, outcome)
  PROVE  CallOK'
<1>1. sqlStatus' \in [Statements -> Seq(SqlStates)]
  <2>1. <<sqlState>> \o sqlStatus[s] \in Seq(SqlStates)
    BY DEF CallOK
  <2> QED
    BY <2>1 DEF Throw, CallOK
<1> QED
  BY <1>1 DEF CallOK, Throw, Return, Stages

LEMMA ProceedType ==
  ASSUME CallOK, NEW s \in Statements, NEW stage \in Stages, Proceed(s, stage)
  PROVE  CallOK'
BY DEF CallOK, Proceed

-----------------------------------------------------------------------------
\* A step of a call that has the lock goes on, succeeds, or throws: every end of a request
\* and of a query is one of the three.
Steps(s) ==
  \/ \E stage \in Stages \ {"idle", "called"} : Proceed(s, stage)
  \/ Succeed(s)
  \/ \E o \in Outcomes \cup {"driver", "server"} : Throw(s, SqlState(o), o)

LEMMA RequestFailsSteps ==
  ASSUME NEW s \in Statements, RequestFails(s) PROVE Steps(s)
BY DEF RequestFails, Steps

LEMMA CallSteps ==
  ASSUME NEW s \in Statements, Execute(s) \/ Tables(s) \/ FreeStmt(s)
  PROVE  Steps(s) /\ pc[s] \notin {"idle", "called"}
<1>1. CASE BeginExecute(s) \/ BeginTables(s) \/ ParseFails(s) \/ PollEnded(s)
  BY <1>1 DEF BeginExecute, BeginTables, ParseFails, PollEnded, Steps, Stages, SqlState
<1>2. CASE OpenLocally(s) \/ LoadSchema(s) \/ GetDatasets(s) \/ FreeStmt(s)
  BY <1>2 DEF OpenLocally, LoadSchema, GetDatasets, FreeStmt, Opened, Steps
<1>3. CASE Submit(s) \/ Resume(s) \/ PollFinished(s) \/ GetStreams(s)
  BY <1>3 DEF Submit, Submitting, Resume, PollFinished, GetStreams, Steps, Stages
<1>4. CASE SubmitUnanswered(s)
  BY <1>4 DEF SubmitUnanswered, Submitting, Steps, SqlState
<1>5. CASE SubmitFails(s) \/ PollFails(s) \/ LoadSchemaFails(s) \/ GetStreamsFails(s)
           \/ GetDatasetsFails(s)
  BY <1>5, RequestFailsSteps DEF SubmitFails, Submitting, PollFails, LoadSchemaFails,
     GetStreamsFails, GetDatasetsFails
<1> QED
  BY <1>1, <1>2, <1>3, <1>4, <1>5 DEF Execute, Tables

LEMMA CallStepsType ==
  ASSUME CallOK, NEW s \in Statements, Steps(s)
  PROVE  CallOK'
<1>1. CASE \E stage \in Stages \ {"idle", "called"} : Proceed(s, stage)
  BY <1>1, ProceedType
<1>2. CASE Succeed(s)
  BY <1>2, SucceedType
<1>3. CASE \E o \in Outcomes \cup {"driver", "server"} : Throw(s, SqlState(o), o)
  <2>1. \A o : SqlState(o) \in SqlStates
    BY DEF SqlState, SqlStates
  <2> QED
    BY <1>3, <2>1, ThrowType
<1> QED
  BY <1>1, <1>2, <1>3 DEF Steps

\* What a call receives: a text that is shorter than 2^16 characters is received whole or not
\* at all, although its length is cut to 16 bits.
LEMMA ReceivedWhole ==
  ASSUME NEW text \in Texts, NEW n \in {SQL_NTS, Length[text]}, Received(text, n) # NoText
  PROVE  /\ Received(text, n) \in [text : Texts, length : Nat]
         /\ Length[Received(text, n).text] < 65536 => Whole(Received(text, n))
<1>1. Length[text] \in Nat
  BY QueryAssumption
<1>2. n \in Int /\ Int16(n) \in Int
  BY <1>1 DEF SQL_NTS, Int16
<1>3. CASE Int16(n) = SQL_NTS
  <2>1. Received(text, n) = [text |-> text, length |-> Length[text]]
    BY <1>3 DEF Received, SQL_NTS
  <2> QED
    BY <1>1, <2>1 DEF Whole
<1>4. CASE Int16(n) # SQL_NTS /\ Int16(n) >= 0
  <2>1. Received(text, n) = [text |-> text, length |-> Int16(n)]
    BY <1>4 DEF Received
  <2>2. ASSUME Length[text] < 65536 PROVE Int16(n) = Length[text]
    <3>1. n # SQL_NTS
      BY <1>4 DEF SQL_NTS, Int16
    <3>2. n = Length[text]
      BY <3>1
    <3> QED
      BY <1>1, <1>4, <2>2, <3>2 DEF Int16
  <2> QED
    BY <1>1, <1>2, <1>4, <2>1, <2>2 DEF Whole
<1>5. CASE ~(Int16(n) = SQL_NTS \/ Int16(n) >= 0)
  BY <1>2, <1>5 DEF Received
<1> QED
  BY <1>3, <1>4, <1>5

LEMMA ArgumentsOfExecute ==
  ASSUME CallOK, NEW s \in Statements, args[s].fn = "SQLExecDirect"
  PROVE  args[s].text \in Texts /\ args[s].length \in {SQL_NTS, Length[args[s].text]}
<1>1. args[s] \in Arguments \cup {NoArguments}
  BY DEF CallOK
<1>2. NoArguments.fn # "SQLExecDirect"
  BY DEF NoArguments, None
<1>3. CASE args[s] \in [fn : {"SQLExecDirect"}, text : Texts, length : {SQL_NTS}]
  BY <1>3
<1>4. CASE args[s] \in {[fn |-> "SQLExecDirect", text |-> t, length |-> Length[t]] : t \in Texts}
  BY <1>4
<1>5. CASE args[s] \in {[fn |-> f, text |-> None, length |-> 0] : f \in {"SQLTables", "SQLFreeStmt"}}
  BY <1>5
<1> QED
  BY <1>1, <1>2, <1>3, <1>4, <1>5 DEF Arguments

LEMMA NewCommandType ==
  ASSUME CallOK, NEW s \in Statements, NEW fn \in {"SQLExecDirect", "SQLTables"},
         NEW query \in ReceivedTexts
  PROVE  NewCommand(s, fn, query) \in Commands
BY DEF CallOK, NewCommand, NoHandle, Commands

LEMMA ErasuresType ==
  ASSUME NEW query
  PROVE  Erasures(query) \subseteq BOOLEAN
BY DEF Erasures

LEMMA NewQueryType ==
  ASSUME ClientOK, NEW s \in Statements, command[s].by \in Statements,
         NEW erased \in BOOLEAN, NEW answered \in BOOLEAN
  PROVE  NewQuery(command[s], erased, answered) \in Queries
BY DEF ClientOK, NewQuery, Running, Commands, Queries

\* What is sent is a query of the command, without the clause when the text is whole.
LEMMA SendQuery ==
  ASSUME ClientOK, NEW s \in Statements, command[s].by \in Statements,
         NEW answered \in BOOLEAN, Send(s, answered)
  PROVE  \E q \in Queries :
           /\ q.query = command[s].query /\ q.by = command[s].by
           /\ q.number = command[s].number /\ q.answered = answered
           /\ Whole(q.query) => (q.erased <=> q.query.text \in HavingCount)
           /\ queries' = Append(queries, q)
<1>1. PICK erased \in Erasures(command[s].query) :
        queries' = Append(queries, NewQuery(command[s], erased, answered))
  BY DEF Send
<1> DEFINE q == NewQuery(command[s], erased, answered)
<1>2. q \in Queries
  BY ErasuresType, NewQueryType
<1>3. /\ q.query = command[s].query /\ q.by = command[s].by /\ q.erased = erased
      /\ q.number = command[s].number /\ q.answered = answered
  BY DEF NewQuery
<1>4. Whole(command[s].query) => (erased <=> command[s].query.text \in HavingCount)
  BY <1>1 DEF Erasures
<1> HIDE DEF q
<1> QED
  BY <1>1, <1>2, <1>3, <1>4 DEF q

LEMMA CommandHandle ==
  ASSUME ClientOK, NEW s \in Statements, NEW n \in Nat,
         command' = [command EXCEPT ![s].handle = n]
  PROVE  /\ command' \in [Statements -> Commands]
         /\ \A r \in Statements :
              command'[r].fn = command[r].fn /\ command'[r].by = command[r].by
<1>1. [command[s] EXCEPT !.handle = n] \in Commands
  BY DEF ClientOK, Commands
<1>2. /\ [command[s] EXCEPT !.handle = n].fn = command[s].fn
      /\ [command[s] EXCEPT !.handle = n].by = command[s].by
  BY DEF ClientOK, Commands
<1> QED
  BY <1>1, <1>2 DEF ClientOK

\* What a step of a call does to the statement and the queries.
LEMMA ClientStep ==
  ASSUME Typed, NEW s \in Statements, Execute(s) \/ Tables(s) \/ FreeStmt(s)
  PROVE  /\ ClientOK' /\ ServerOK'
         /\ \A r \in Statements : command'[r].fn # None => command'[r].by = r
<1> USE DEF Typed
<1>1. CASE BeginExecute(s)
  <2> DEFINE query == Received(args[s].text, args[s].length)
  <2>1. CASE UNCHANGED command
    BY <1>1, <2>1 DEF BeginExecute, ClientOK, ServerOK
  <2>2. CASE query # NoText /\ command' = [command EXCEPT ![s] = NewCommand(s, "SQLExecDirect", query)]
    <3>1. query \in ReceivedTexts
      BY <1>1, <2>2, ArgumentsOfExecute, ReceivedWhole DEF BeginExecute, ReceivedTexts
    <3>2. NewCommand(s, "SQLExecDirect", query) \in
            Commands
      BY <3>1, NewCommandType
    <3>3. NewCommand(s, "SQLExecDirect", query).by = s
      BY DEF NewCommand
    <3> HIDE DEF query
    <3> QED
      BY <1>1, <2>2, <3>2, <3>3 DEF BeginExecute, ClientOK, ServerOK
  <2> QED
    BY <1>1, <2>1, <2>2 DEF BeginExecute
<1>2. CASE BeginTables(s)
  <2>1. NoText \in ReceivedTexts
    BY DEF NoText, ReceivedTexts
  <2>2. NewCommand(s, "SQLTables", NoText) \in
          Commands
    BY <2>1, NewCommandType
  <2>3. NewCommand(s, "SQLTables", NoText).by = s
    BY DEF NewCommand
  <2> QED
    BY <1>2, <2>2, <2>3 DEF BeginTables, ClientOK, ServerOK
<1>3. CASE FreeStmt(s)
  <2>1. NoCommand \in Commands
    BY DEF NoCommand, NoText, NoHandle, ReceivedTexts, Commands
  <2>2. NoCommand.fn = None
    BY DEF NoCommand
  <2> QED
    BY <1>3, <2>1, <2>2 DEF FreeStmt, ClientOK, ServerOK
<1>4. CASE Submit(s)
  <2>1. command[s].by \in Statements
    BY <1>4 DEF Submit, Submitting, None
  <2>2. PICK q \in Queries : queries' = Append(queries, q)
    BY <1>4, <2>1, SendQuery DEF Submit
  <2>3. failures' \in Nat
    BY <1>4 DEF Submit, ServerOK
  <2>4. queries \in Seq(Queries)
    BY DEF ServerOK
  <2>5. queries' \in Seq(Queries) /\ Len(queries') \in Nat
    <3>1. Len(queries) \in Nat
      BY <2>4, LenProperties
    <3> QED
      BY <2>2, <2>4, <3>1, AppendProperties
  <2>6. ServerOK'
    BY <2>3, <2>5 DEF ServerOK
  <2> QED
    BY <1>4, <2>5, <2>6, CommandHandle DEF Submit, ClientOK
<1>5. CASE SubmitUnanswered(s)
  <2>1. command[s].by \in Statements
    BY <1>5 DEF SubmitUnanswered, Submitting, None
  <2>2. PICK q \in Queries : queries' = Append(queries, q)
    BY <1>5, <2>1, SendQuery DEF SubmitUnanswered
  <2>3. failures' \in Nat
    BY <1>5 DEF SubmitUnanswered, ServerOK
  <2>4. queries \in Seq(Queries)
    BY DEF ServerOK
  <2>5. queries' \in Seq(Queries) /\ Len(queries') \in Nat
    <3>1. Len(queries) \in Nat
      BY <2>4, LenProperties
    <3> QED
      BY <2>2, <2>4, <3>1, AppendProperties
  <2>6. ServerOK'
    BY <2>3, <2>5 DEF ServerOK
  <2> QED
    BY <1>5, <2>6 DEF SubmitUnanswered, ClientOK, clientVars
<1>6. CASE OpenLocally(s) \/ LoadSchema(s) \/ GetDatasets(s)
  <2>1. command[s].handle \in Nat
    BY DEF ClientOK, Commands
  <2> QED
    BY <1>6, <2>1 DEF OpenLocally, LoadSchema, GetDatasets, Opened, Offline, ClientOK, ServerOK
<1>7. CASE ParseFails(s) \/ Resume(s) \/ PollFinished(s) \/ PollEnded(s) \/ GetStreams(s)
  BY <1>7 DEF ParseFails, Resume, PollFinished, PollEnded, GetStreams, ClientOK, ServerOK,
     clientVars
<1>8. CASE RequestFails(s)
  BY <1>8 DEF RequestFails, ClientOK, ServerOK, clientVars
<1> QED
  BY <1>1, <1>2, <1>3, <1>4, <1>5, <1>6, <1>7, <1>8 DEF Execute, Tables, SubmitFails, PollFails,
     LoadSchemaFails, GetStreamsFails, GetDatasetsFails

LEMMA ServeType ==
  ASSUME Typed, NEW i \in 1..MaxCalls, Serve(i) PROVE Typed'
<1>1. \A status \in StatusAfter(queries[i].status) : status \in Running \cup Ended
  BY QueryAssumption DEF StatusAfter
<1>2. PICK status \in StatusAfter(queries[i].status) :
        queries' = [queries EXCEPT ![i].status = status]
  BY DEF Serve
<1>3. queries[i] \in Queries
  BY ElementOfSeq DEF Serve, Typed, ServerOK
<1>4. [queries[i] EXCEPT !.status = status] \in Queries
  BY <1>1, <1>3 DEF Queries
<1>5. ServerOK'
  BY <1>2, <1>4, ExceptSeq DEF Serve, Typed, ServerOK
<1> QED
  BY <1>5 DEF Serve, Typed, ClientOK, CallOK, clientVars, callVars

LEMMA TypedStep == Typed /\ [Next]_vars => Typed'
<1> SUFFICES ASSUME Typed, [Next]_vars PROVE Typed'
  OBVIOUS
<1>1. ASSUME NEW s \in Statements, Call(s) PROVE Typed'
  BY <1>1 DEF Call, Typed, ClientOK, CallOK, ServerOK, Stages, clientVars
<1>2. ASSUME NEW s \in Statements, Enter(s) PROVE Typed'
  BY <1>2 DEF Enter, Typed, ClientOK, CallOK, ServerOK, Stages, clientVars
<1>3. ASSUME NEW s \in Statements, Execute(s) \/ Tables(s) \/ FreeStmt(s) PROVE Typed'
  BY <1>3, CallSteps, CallStepsType, ClientStep DEF Typed
<1>4. ASSUME NEW i \in 1..MaxCalls, Serve(i) PROVE Typed'
  BY <1>4, ServeType
<1>5. CASE UNCHANGED vars
  BY <1>5 DEF vars, clientVars, callVars, Typed, ClientOK, CallOK, ServerOK
<1> QED
  BY <1>1, <1>2, <1>3, <1>4, <1>5 DEF Next, Continue

LEMMA TypedAlways == Spec => []Typed
<1>1. Init => Typed
  <2>1. NoCommand \in Commands
    BY DEF NoCommand, NoText, NoHandle, ReceivedTexts, Commands
  <2>2. NoCommand.fn = None
    BY DEF NoCommand
  <2> QED
    BY <2>1, <2>2, QueryAssumption DEF Init, Typed, ClientOK, CallOK, ServerOK, Stages
<1> QED
  BY <1>1, TypedStep, PTL DEF Spec

\* Every variable of the calls, the statements and the server keeps its type.
THEOREM TypeCorrect == Spec => []TypeOK
BY TypedAlways, TypedImpliesTypeOK, PTL

-----------------------------------------------------------------------------
(***************************************************************************)
(* The records.  A call that has the lock has none; one that failed leaves *)
(* the one of its exception.                                               *)
(***************************************************************************)
Record(s) == IF linkFailed[s] THEN LinkFailure ELSE GeneralError

DiagInv ==
  \A s \in Statements :
    /\ pc[s] \notin {"idle", "called"} => sqlStatus[s] = << >>
    /\ pc[s] # "idle" => ~linkFailed[s]
    /\ pc[s] = "idle" =>
         \/ result[s] # "ERROR" /\ sqlStatus[s] = << >> /\ ~linkFailed[s]
         \/ result[s] = "ERROR" /\ sqlStatus[s] = <<Record(s)>>

LEMMA DiagCallStep ==
  ASSUME Typed, DiagInv, NEW s \in Statements, Steps(s), pc[s] \notin {"idle", "called"}
  PROVE  DiagInv'
<1> USE DEF Typed, CallOK, Record
<1>1. CASE \E stage \in Stages \ {"idle", "called"} : Proceed(s, stage)
  BY <1>1 DEF Proceed, DiagInv
<1>2. CASE Succeed(s)
  BY <1>2 DEF Succeed, Return, DiagInv
<1>3. CASE \E o \in Outcomes \cup {"driver", "server"} : Throw(s, SqlState(o), o)
  <2>1. PICK o \in Outcomes \cup {"driver", "server"} : Throw(s, SqlState(o), o)
    BY <1>3
  <2>2. sqlStatus[s] = << >>
    BY DEF DiagInv
  <2>3. <<SqlState(o)>> \o << >> = <<SqlState(o)>>
    OBVIOUS
  <2>4. sqlStatus'[s] = <<SqlState(o)>> /\ linkFailed'[s] = (o = "other status")
    BY <2>1, <2>2, <2>3 DEF Throw
  <2>5. sqlStatus'[s] = <<Record(s)'>>
    BY <2>4 DEF SqlState
  <2>6. pc'[s] = "idle" /\ result'[s] = "ERROR"
    BY <2>1 DEF Throw, Return
  <2>7. ASSUME NEW r \in Statements, r # s
        PROVE  /\ sqlStatus'[r] = sqlStatus[r] /\ linkFailed'[r] = linkFailed[r]
               /\ pc'[r] = pc[r] /\ result'[r] = result[r]
    BY <2>1, <2>7 DEF Throw, Return
  <2> QED
    BY <2>5, <2>6, <2>7 DEF DiagInv
<1> QED
  BY <1>1, <1>2, <1>3 DEF Steps

LEMMA DiagStep == Typed /\ DiagInv /\ [Next]_vars => DiagInv'
<1> SUFFICES ASSUME Typed, DiagInv, [Next]_vars PROVE DiagInv'
  OBVIOUS
<1> USE DEF Typed, CallOK, Record
<1>1. ASSUME NEW s \in Statements, Call(s) PROVE DiagInv'
  BY <1>1 DEF Call, DiagInv
<1>2. ASSUME NEW s \in Statements, Enter(s) PROVE DiagInv'
  BY <1>2 DEF Enter, DiagInv
<1>3. ASSUME NEW s \in Statements, Execute(s) \/ Tables(s) \/ FreeStmt(s) PROVE DiagInv'
  BY <1>3, CallSteps, DiagCallStep
<1>4. ASSUME NEW i \in 1..MaxCalls, Serve(i) PROVE DiagInv'
  BY <1>4 DEF Serve, callVars, DiagInv
<1>5. CASE UNCHANGED vars
  BY <1>5 DEF vars, callVars, DiagInv
<1> QED
  BY <1>1, <1>2, <1>3, <1>4, <1>5 DEF Next, Continue

\* The terminator takes the place of the last character of a SQLSTATE.
LEMMA Copied ==
  /\ FromStdString(GeneralError, 5) = <<"H", "Y", "0", "0">>
  /\ FromStdString(LinkFailure, 5) = <<"0", "8", "S", "0">>
<1>1. ASSUME NEW a, NEW b, NEW c, NEW d, NEW e
      PROVE  SubSeq(<<a, b, c, d, e>>, 1, 4) = <<a, b, c, d>> /\ Len(<<a, b, c, d, e>>) = 5
  <2> DEFINE S == {a, b, c, d, e}
             long == <<a, b, c, d, e>>
             short == <<a, b, c, d>>
  <2>1. long \in Seq(S) /\ short \in Seq(S) /\ Len(long) = 5 /\ Len(short) = 4
    OBVIOUS
  <2>2. SubSeq(long, 1, 4) \in Seq(S) /\ Len(SubSeq(long, 1, 4)) = 4
    BY <2>1, SubSeqProperties
  <2>3. \A i \in 1..4 : SubSeq(long, 1, 4)[i] = short[i]
    <3>1. \A i \in 1..4 : SubSeq(long, 1, 4)[i] = long[i]
      BY <2>1, SubSeqProperties
    <3>2. \A i \in 1..4 : long[i] = short[i]
      OBVIOUS
    <3> QED
      BY <3>1, <3>2
  <2> HIDE DEF long, short
  <2>4. SubSeq(long, 1, 4) = short
    BY <2>1, <2>2, <2>3, SeqEqual
  <2> QED
    BY <2>1, <2>4 DEF long, short
<1>2. SubSeq(GeneralError, 1, 4) = <<"H", "Y", "0", "0">> /\ Len(GeneralError) = 5
  BY <1>1 DEF GeneralError
<1>3. SubSeq(LinkFailure, 1, 4) = <<"0", "8", "S", "0">> /\ Len(LinkFailure) = 5
  BY <1>1 DEF LinkFailure
<1> QED
  BY <1>2, <1>3 DEF FromStdString

LEMMA DiagImpliesErrorsExplained == Typed /\ DiagInv => ErrorsExplained
<1> DEFINE Count(s) == IF result[s] = "ERROR" THEN 1 ELSE 0
<1> SUFFICES ASSUME Typed, DiagInv, NEW s \in Statements, pc[s] = "idle"
             PROVE  /\ result[s] = "ERROR" =>
                         GetDiagRec(s, 1) =
                           [code |-> "SUCCESS",
                            sqlState |-> IF linkFailed[s] THEN <<"0", "8", "S", "0">>
                                                          ELSE <<"H", "Y", "0", "0">>]
                    /\ \A r \in RecNumbers \ 1..Count(s) :
                         GetDiagRec(s, r).code = IF r <= Count(s) + 1 THEN "ERROR" ELSE "NO_DATA"
  BY DEF ErrorsExplained
<1>1. RecNumbers = {0, 1, 2, 3}
  BY DEF RecNumbers
<1>2. CASE result[s] # "ERROR" /\ sqlStatus[s] = << >> /\ ~linkFailed[s]
  <2>1. GetRecCount(s) = 0
    BY <1>2 DEF GetRecCount
  <2> QED
    BY <1>1, <1>2, <2>1 DEF GetDiagRec
<1>3. CASE result[s] = "ERROR" /\ sqlStatus[s] = <<Record(s)>>
  <2>1. GetRecCount(s) = 1 /\ sqlStatus[s][1] = Record(s)
    BY <1>3 DEF GetRecCount
  <2>2. GetDiagRec(s, 1) = [code |-> "SUCCESS", sqlState |-> FromStdString(Record(s), 5)]
    BY <2>1 DEF GetDiagRec
  <2>3. FromStdString(Record(s), 5) = IF linkFailed[s] THEN <<"0", "8", "S", "0">>
                                                        ELSE <<"H", "Y", "0", "0">>
    BY Copied DEF Record
  <2>4. \A r \in {0, 2, 3} :
          GetDiagRec(s, r).code = IF r <= 2 THEN "ERROR" ELSE "NO_DATA"
    BY <2>1 DEF GetDiagRec
  <2>5. RecNumbers \ 1..Count(s) = {0, 2, 3} /\ Count(s) = 1
    BY <1>1, <1>3
  <2> QED
    BY <2>2, <2>3, <2>4, <2>5
<1> QED
  BY <1>2, <1>3 DEF DiagInv

\* SQLGetDiagRec after any call: one record exactly when the call failed, that of a broken link
\* exactly when the server answered with a code the client does not know, each with 4 of the 5
\* characters of its SQLSTATE; an error for the record after the last and no data beyond it.
THEOREM DiagnosticsCorrect == Spec => []ErrorsExplained
<1>1. Init => DiagInv
  BY DEF Init, DiagInv, None
<1> QED
  BY <1>1, DiagStep, DiagImpliesErrorsExplained, TypedAlways, PTL DEF Spec

-----------------------------------------------------------------------------
(***************************************************************************)
(* The queries.  QueriesAsRequested is not inductive: that a repeated call *)
(* does not submit its query again rests on the handle that the command    *)
(* has since an answer arrived, and that a new execution is not mistaken   *)
(* for an earlier one on the number of its call.                           *)
(***************************************************************************)
Done == {"FINISHED", "CLOSED"}

\* The command of a statement and the query that its handle names.
OwnCommand(s) ==
  /\ command[s].fn # None => command[s].number \in 0..calls
  /\ command[s].handle # NoHandle =>
       LET q == queries[command[s].handle]
       IN  /\ command[s].handle \in DOMAIN queries /\ command[s].fn = "SQLExecDirect"
           /\ q.query = command[s].query /\ q.by = s /\ q.number = command[s].number
  /\ command[s].fn = "SQLExecDirect" /\ command[s].handle = NoHandle =>
       \A i \in DOMAIN queries :
         queries[i].by = s /\ queries[i].number = command[s].number => ~queries[i].answered
  /\ command[s].fn = "SQLExecDirect" /\ Length[command[s].query.text] < 65536 =>
       Whole(command[s].query)

\* Where its call is, and its reader.
OwnCall(s) ==
  /\ pc[s] \in {"open", "status", "schema", "datasets"} => state[s] = "PREPARE"
  /\ pc[s] \in {"status", "schema"} => command[s].handle # NoHandle
  /\ pc[s] = "schema" => Status(s) \in Done
  /\ state[s] # "OPEN" => dataReader[s] = NoReader
  /\ dataReader[s] \notin {NoReader, Offline} =>
       dataReader[s] = command[s].handle /\ Status(s) \in Done
  /\ pc[s] \in {"called", "entered"} =>
       \A i \in DOMAIN queries : queries[i].by = s => queries[i].number < calls

Numbered == \A i \in DOMAIN queries : queries[i].number \in 0..calls

OwnInv ==
  /\ SubmittedOnce /\ TextsWhole /\ Numbered
  /\ \A s \in Statements : OwnCommand(s) /\ OwnCall(s)

\* A step of the server, or of another statement, disturbs none of this: queries stay what
\* they are and a query that is done stays done.
QueriesKept ==
  \A i \in DOMAIN queries :
    /\ i \in DOMAIN queries'
    /\ queries'[i].query = queries[i].query /\ queries'[i].by = queries[i].by
    /\ queries'[i].erased = queries[i].erased
    /\ queries'[i].number = queries[i].number /\ queries'[i].answered = queries[i].answered
    /\ queries[i].status \in Done => queries'[i].status \in Done

Untouched(r) ==
  /\ state'[r] = state[r] /\ command'[r] = command[r]
  /\ dataReader'[r] = dataReader[r] /\ pc'[r] = pc[r]

LEMMA NumbersTyped ==
  ASSUME Typed
  PROVE  /\ \A i \in DOMAIN queries : queries[i] \in Queries /\ queries[i].number \in Nat
         /\ \A s \in Statements : command[s] \in Commands /\ command[s].number \in Nat
         /\ calls \in Nat
<1>1. \A i \in DOMAIN queries : queries[i] \in Queries
  BY DEF Typed, ServerOK
<1>2. \A s \in Statements : command[s] \in Commands
  BY DEF Typed, ClientOK
<1> QED
  BY <1>1, <1>2 DEF Queries, Commands, Typed, CallOK

LEMMA UntouchedKept ==
  ASSUME Typed, NEW r \in Statements, OwnCommand(r), OwnCall(r), QueriesKept, Untouched(r),
         \A i \in DOMAIN queries' : i \in DOMAIN queries \/ queries'[i].by # r,
         calls' \in Nat, calls' >= calls
  PROVE  OwnCommand(r)' /\ OwnCall(r)'
<1>1. OwnCommand(r)'
  BY NumbersTyped DEF OwnCommand, QueriesKept, Untouched
<1>2. dataReader'[r] \notin {NoReader, Offline} => Status(r)' \in Done /\ command'[r].handle # NoHandle
  BY DEF OwnCall, OwnCommand, QueriesKept, Untouched, Status, Offline, NoHandle
<1>3. pc'[r] = "schema" => Status(r)' \in Done
  BY DEF OwnCall, OwnCommand, QueriesKept, Untouched, Status
<1>4. pc'[r] \in {"called", "entered"} =>
        \A i \in DOMAIN queries' : queries'[i].by = r => queries'[i].number < calls'
  BY NumbersTyped DEF OwnCall, QueriesKept, Untouched
<1> QED
  BY <1>1, <1>2, <1>3, <1>4 DEF OwnCall, Untouched

LEMMA GlobalKept ==
  ASSUME Typed, SubmittedOnce, TextsWhole, Numbered, QueriesKept,
         DOMAIN queries' = DOMAIN queries, calls' \in Nat, calls' >= calls
  PROVE  SubmittedOnce' /\ TextsWhole' /\ Numbered'
<1>1. SubmittedOnce'
  BY DEF SubmittedOnce, QueriesKept
<1>2. TextsWhole'
  BY DEF TextsWhole, QueriesKept
<1>3. Numbered'
  BY NumbersTyped DEF Numbered, QueriesKept
<1> QED
  BY <1>1, <1>2, <1>3

LEMMA ServeOwn ==
  ASSUME Typed, OwnInv, NEW i \in 1..MaxCalls, Serve(i) PROVE OwnInv'
<1>1. PICK status \in StatusAfter(queries[i].status) :
        queries' = [queries EXCEPT ![i].status = status]
  BY DEF Serve
<1>2. queries[i].status \in Done => status \in Done
  BY DEF StatusAfter, Done
<1>3. QueriesKept /\ DOMAIN queries' = DOMAIN queries
  <2>1. \A j \in DOMAIN queries : queries[j] \in Queries
    BY NumbersTyped
  <2>2. queries' = [queries EXCEPT ![i] = [queries[i] EXCEPT !.status = status]]
    BY <1>1
  <2>3. queries \in [1..Len(queries) -> Queries] /\ DOMAIN queries = 1..Len(queries)
    BY DEF Typed, ServerOK
  <2>4. DOMAIN queries' = DOMAIN queries
    BY <2>2, <2>3
  <2>5. ASSUME NEW j \in DOMAIN queries, j # i PROVE queries'[j] = queries[j]
    BY <2>2, <2>3, <2>5
  <2>6. queries'[i] = [queries[i] EXCEPT !.status = status] /\ i \in DOMAIN queries
    BY <2>2, <2>3 DEF Serve
  <2>7. queries[i] \in Queries
    BY <2>1, <2>6
  <2>8. /\ queries'[i].query = queries[i].query /\ queries'[i].by = queries[i].by
        /\ queries'[i].erased = queries[i].erased
        /\ queries'[i].number = queries[i].number /\ queries'[i].answered = queries[i].answered
        /\ queries'[i].status = status
    BY <2>6, <2>7 DEF Queries
  <2> QED
    BY <1>2, <2>4, <2>5, <2>8 DEF QueriesKept
<1>4. calls' = calls /\ calls \in Nat
  BY NumbersTyped DEF Serve, callVars
<1>5. ASSUME NEW r \in Statements PROVE OwnCommand(r)' /\ OwnCall(r)'
  <2>1. Untouched(r)
    BY DEF Serve, clientVars, callVars, Untouched
  <2> QED
    BY <1>3, <1>4, <2>1, UntouchedKept DEF OwnInv
<1> QED
  BY <1>3, <1>4, <1>5, GlobalKept DEF OwnInv

\* A call begins: its number is above those of the statement's queries.
LEMMA CallOwn ==
  ASSUME Typed, OwnInv, NEW s \in Statements, Call(s) \/ Enter(s) PROVE OwnInv'
<1>1. QueriesKept /\ DOMAIN queries' = DOMAIN queries
  BY DEF Call, Enter, QueriesKept
<1>2. calls' \in Nat /\ calls' >= calls
  BY NumbersTyped DEF Call, Enter
<1>3. ASSUME NEW r \in Statements, r # s PROVE OwnCommand(r)' /\ OwnCall(r)'
  <2>1. Untouched(r)
    BY <1>3 DEF Call, Enter, clientVars, Untouched, Typed, CallOK
  <2> QED
    BY <1>1, <1>2, <2>1, UntouchedKept DEF OwnInv
<1>4. OwnCommand(s)' /\ OwnCall(s)'
  <2>1. OwnCommand(s)'
    BY <1>2, NumbersTyped DEF Call, Enter, clientVars, OwnInv, OwnCommand
  <2>2. pc'[s] \in {"called", "entered"}
    BY DEF Call, Enter, Typed, CallOK
  <2>3. \A i \in DOMAIN queries : queries[i].by = s => queries[i].number < calls'
    BY <1>2, NumbersTyped DEF Call, Enter, OwnInv, OwnCall, Numbered
  <2>4. /\ state'[s] # "OPEN" => dataReader'[s] = NoReader
        /\ dataReader'[s] \notin {NoReader, Offline} =>
             dataReader'[s] = command'[s].handle /\ Status(s)' \in Done
    BY DEF Call, Enter, clientVars, OwnInv, OwnCall, Status
  <2> QED
    BY <2>1, <2>2, <2>3, <2>4 DEF OwnCall, Call, Enter
<1> QED
  BY <1>1, <1>2, <1>3, <1>4, GlobalKept DEF OwnInv

\* The steps of a call that submit nothing.
Quiet(s) ==
  \/ BeginExecute(s) \/ OpenLocally(s) \/ ParseFails(s) \/ Resume(s) \/ PollFinished(s)
  \/ PollEnded(s) \/ LoadSchema(s) \/ RequestFails(s) \/ BeginTables(s) \/ GetStreams(s)
  \/ GetDatasets(s) \/ FreeStmt(s)

LEMMA StepsUntouched ==
  ASSUME Typed, NEW s \in Statements, Steps(s)
  PROVE  calls' = calls /\ \A r \in Statements \ {s} : pc'[r] = pc[r]
<1> USE DEF Typed, CallOK
<1>1. CASE \E stage \in Stages \ {"idle", "called"} : Proceed(s, stage)
  <2>1. PICK stage \in Stages \ {"idle", "called"} : Proceed(s, stage)
    BY <1>1
  <2> QED
    BY <2>1 DEF Proceed
<1>2. CASE Succeed(s)
  BY <1>2 DEF Succeed, Return, Stages
<1>3. CASE \E o \in Outcomes \cup {"driver", "server"} : Throw(s, SqlState(o), o)
  BY <1>3 DEF Throw, Return, Stages
<1> QED
  BY <1>1, <1>2, <1>3 DEF Steps

LEMMA BeginExecuteOwn ==
  ASSUME Typed, OwnInv, NEW s \in Statements, BeginExecute(s), pc'[s] \in {"idle", "open"},
         calls' = calls
  PROVE  OwnCommand(s)' /\ OwnCall(s)'
<1>1. UNCHANGED <<dataReader, queries>> /\ pc[s] = "entered"
  BY DEF BeginExecute
<1>2. CASE UNCHANGED <<state, command>>
  <2>1. pc'[s] = "idle" \/ state[s] \in {"INITIAL", "PREPARE"}
    BY <1>2 DEF BeginExecute, Throw, Return, Typed, CallOK, ClientOK
  <2>2. pc'[s] = "open" => state'[s] = "PREPARE"
    BY <1>2 DEF BeginExecute, Throw, Return, Typed, CallOK, ClientOK
  <2> QED
    BY <1>1, <1>2, <2>2 DEF OwnInv, OwnCommand, OwnCall, Status
<1>3. CASE ~UNCHANGED <<state, command>>
  <2> DEFINE query == Received(args[s].text, args[s].length)
  <2>1. query # NoText /\ state[s] \in {"INITIAL", "PREPARE"} /\ state'[s] = "PREPARE"
    BY <1>3 DEF BeginExecute, Typed, ClientOK
  <2>2. /\ dataReader'[s] = NoReader
    BY <1>1, <2>1 DEF OwnInv, OwnCall
  <2>3. OwnCall(s)'
    BY <2>1, <2>2 DEF OwnCall
  <2>4. CASE state[s] = "PREPARE"
    <3>1. command' = command
      BY <1>3, <2>4 DEF BeginExecute
    <3> QED
      BY <1>1, <2>3, <3>1 DEF OwnInv, OwnCommand
  <2>5. CASE state[s] = "INITIAL"
    <3>1. command'[s] = NewCommand(s, "SQLExecDirect", query)
      BY <1>3, <2>5 DEF BeginExecute, Typed, ClientOK
    <3>2. Length[query.text] < 65536 => Whole(query)
      BY <2>1, ArgumentsOfExecute, ReceivedWhole DEF BeginExecute, Typed
    <3>3. \A i \in DOMAIN queries : queries[i].by = s => queries[i].number # calls
      BY <1>1, NumbersTyped DEF OwnInv, OwnCall
    <3>4. /\ command'[s].number = calls /\ command'[s].handle = NoHandle
          /\ command'[s].query = query /\ calls \in 0..calls
      BY <3>1, NumbersTyped DEF NewCommand
    <3> HIDE DEF query
    <3> QED
      BY <1>1, <2>3, <3>2, <3>3, <3>4 DEF OwnCommand
  <2> QED
    BY <2>1, <2>4, <2>5
<1> QED
  BY <1>2, <1>3

LEMMA QuietOwn ==
  ASSUME Typed, OwnInv, NEW s \in Statements, Quiet(s), Steps(s), pc[s] \notin {"idle", "called"}
  PROVE  OwnInv'
<1>1. queries' = queries
  BY DEF Quiet, BeginExecute, OpenLocally, ParseFails, Resume, PollFinished, PollEnded, LoadSchema,
     RequestFails, BeginTables, GetStreams, GetDatasets, FreeStmt
<1>2. QueriesKept /\ DOMAIN queries' = DOMAIN queries
  BY <1>1 DEF QueriesKept
<1>3. calls' = calls /\ calls' \in Nat /\ calls' >= calls
  BY StepsUntouched, NumbersTyped
<1>4. ASSUME NEW r \in Statements, r # s PROVE OwnCommand(r)' /\ OwnCall(r)'
  <2>1. pc'[r] = pc[r]
    BY <1>4, StepsUntouched
  <2>2. state'[r] = state[r] /\ command'[r] = command[r] /\ dataReader'[r] = dataReader[r]
    BY <1>4 DEF Quiet, BeginExecute, OpenLocally, ParseFails, Resume, PollFinished, PollEnded,
       LoadSchema, RequestFails, BeginTables, GetStreams, GetDatasets, FreeStmt, Opened, clientVars,
       Typed, ClientOK
  <2>3. Untouched(r)
    BY <2>1, <2>2 DEF Untouched
  <2> QED
    BY <1>2, <1>3, <2>3, UntouchedKept DEF OwnInv
<1>5. OwnCommand(s)' /\ OwnCall(s)'
  <2> USE DEF Typed, ClientOK, CallOK
  <2>1. CASE BeginExecute(s)
    <3>1. pc'[s] \in {"idle", "open"}
      BY <2>1 DEF BeginExecute, Proceed, Throw, Return
    <3> QED
      BY <1>3, <2>1, <3>1, BeginExecuteOwn
  <2>2. CASE ParseFails(s) \/ PollEnded(s) \/ RequestFails(s)
    <3>1. pc'[s] = "idle" /\ UNCHANGED clientVars
      BY <2>2 DEF ParseFails, PollEnded, RequestFails, Throw, Return
    <3> QED
      BY <1>1, <1>3, <3>1 DEF clientVars, OwnInv, OwnCommand, OwnCall, Status
  <2>3. CASE Resume(s) \/ PollFinished(s) \/ GetStreams(s)
    <3>1. /\ UNCHANGED clientVars /\ pc[s] \in {"open", "status"}
          /\ \/ pc'[s] = "datasets"
             \/ pc'[s] = "status" /\ command[s].handle # NoHandle
             \/ pc'[s] = "schema" /\ pc[s] = "status" /\ Status(s) = "FINISHED"
      BY <2>3 DEF Resume, PollFinished, GetStreams, Proceed
    <3> QED
      BY <1>1, <1>3, <3>1 DEF clientVars, OwnInv, OwnCommand, OwnCall, Status, Done
  <2>4. CASE OpenLocally(s) \/ LoadSchema(s) \/ GetDatasets(s)
    <3>1. /\ command' = command /\ pc'[s] = "idle" /\ state'[s] = "OPEN"
          /\ \/ dataReader'[s] = Offline
             \/ dataReader'[s] = command[s].handle /\ pc[s] = "schema"
      BY <2>4 DEF OpenLocally, LoadSchema, GetDatasets, Opened, Succeed, Return
    <3> QED
      BY <1>1, <1>3, <3>1 DEF OwnInv, OwnCommand, OwnCall, Status, Done
  <2>5. CASE BeginTables(s)
    <3>1. CASE UNCHANGED <<state, command>>
      <4>1. pc'[s] = "idle" /\ dataReader' = dataReader
        BY <2>5, <3>1 DEF BeginTables, Throw, Return
      <4> QED
        BY <1>1, <1>3, <3>1, <4>1 DEF OwnInv, OwnCommand, OwnCall, Status
    <3>2. CASE ~UNCHANGED <<state, command>>
      <4>1. /\ state[s] = "INITIAL" /\ state'[s] = "PREPARE" /\ pc'[s] = "open"
            /\ dataReader'[s] = dataReader[s]
            /\ command'[s] = NewCommand(s, "SQLTables", NoText)
        BY <2>5, <3>2 DEF BeginTables, Proceed
      <4>2. /\ command'[s].fn = "SQLTables" /\ command'[s].number = calls
            /\ command'[s].handle = NoHandle
        BY <4>1 DEF NewCommand
      <4>3. dataReader'[s] = NoReader
        BY <4>1 DEF OwnInv, OwnCall
      <4> QED
        BY <1>3, <4>1, <4>2, <4>3 DEF OwnCommand, OwnCall
    <3> QED
      BY <3>1, <3>2
  <2>6. CASE FreeStmt(s)
    <3>1. /\ state'[s] = "INITIAL" /\ pc'[s] = "idle" /\ dataReader'[s] = NoReader
          /\ command'[s] = NoCommand
      BY <2>6 DEF FreeStmt, Succeed, Return
    <3>2. command'[s].fn = None /\ command'[s].handle = NoHandle
      BY <3>1 DEF NoCommand
    <3> QED
      BY <3>1, <3>2 DEF OwnCommand, OwnCall, None
  <2> QED
    BY <2>1, <2>2, <2>3, <2>4, <2>5, <2>6 DEF Quiet
<1> QED
  BY <1>2, <1>3, <1>4, <1>5, GlobalKept DEF OwnInv

\* The server has one query more, that of the statement's command.
LEMMA NewQueryOwn ==
  ASSUME Typed, OwnInv, NEW s \in Statements, command[s].fn = "SQLExecDirect",
         command[s].handle = NoHandle, calls' = calls, NEW q \in Queries,
         q.query = command[s].query, q.by = s, q.number = command[s].number,
         Whole(q.query) => (q.erased <=> q.query.text \in HavingCount),
         queries' = Append(queries, q)
  PROVE  /\ QueriesKept /\ SubmittedOnce' /\ TextsWhole' /\ Numbered'
         /\ Len(queries') \in DOMAIN queries' /\ queries'[Len(queries')] = q
         /\ Len(queries') # NoHandle
         /\ \A i \in DOMAIN queries' : i \in DOMAIN queries \/ i = Len(queries')
<1> DEFINE n == Len(queries')
<1>1. /\ n \in Nat \ {0} /\ DOMAIN queries' = 1..n /\ queries'[n] = q
      /\ DOMAIN queries = 1..(n - 1)
      /\ \A i \in 1..(n - 1) : queries'[i] = queries[i]
  <2>1. queries \in Seq(Queries)
    BY DEF Typed, ServerOK
  <2>2. Len(queries) \in Nat /\ DOMAIN queries = 1..Len(queries)
    BY <2>1, LenProperties
  <2>3. queries' \in Seq(Queries) /\ n = Len(queries) + 1 /\ queries'[n] = q
    BY <2>1, <2>2, AppendProperties
  <2>4. DOMAIN queries' = 1..n
    BY <2>3, LenProperties
  <2>5. \A i \in 1..Len(queries) : queries'[i] = queries[i]
    BY <2>1, AppendProperties
  <2>6. n - 1 = Len(queries) /\ n \in Nat \ {0}
    BY <2>2, <2>3
  <2> QED
    BY <2>2, <2>3, <2>4, <2>5, <2>6
<1> HIDE DEF n
<1>2. QueriesKept
  BY <1>1 DEF QueriesKept
<1>3. \A i \in DOMAIN queries' : i \in DOMAIN queries \/ i = n
  BY <1>1
<1>4. \A i \in DOMAIN queries :
        queries[i].by = s /\ queries[i].number = command[s].number => ~queries[i].answered
  BY DEF OwnInv, OwnCommand
<1>5. SubmittedOnce'
  BY <1>1, <1>2, <1>3, <1>4 DEF OwnInv, SubmittedOnce, QueriesKept
<1>6. TextsWhole'
  BY <1>1, <1>2, <1>3 DEF OwnInv, OwnCommand, TextsWhole, QueriesKept
<1>7. Numbered'
  BY <1>1, <1>2, <1>3, NumbersTyped DEF OwnInv, OwnCommand, Numbered, QueriesKept, None
<1> QED
  BY <1>1, <1>2, <1>3, <1>5, <1>6, <1>7 DEF n, NoHandle

\* The command's query gets the next handle; an answer that is lost leaves the command
\* without it, and the query unanswered.
LEMMA SubmitOwn ==
  ASSUME Typed, OwnInv, NEW s \in Statements, Submit(s) \/ SubmitUnanswered(s)
  PROVE  OwnInv'
<1>1. /\ pc[s] = "open" /\ command[s].fn = "SQLExecDirect" /\ command[s].handle = NoHandle
      /\ calls' = calls /\ UNCHANGED <<state, dataReader>>
      /\ \A r \in Statements \ {s} : pc'[r] = pc[r] /\ command'[r] = command[r]
  BY DEF Submit, SubmitUnanswered, Submitting, Proceed, Throw, Return, clientVars, Typed, CallOK,
     ClientOK
<1>2. command[s].by = s
  BY <1>1 DEF Typed, None
<1>4. PICK q \in Queries :
        /\ q.query = command[s].query /\ q.by = s /\ q.number = command[s].number
        /\ Whole(q.query) => (q.erased <=> q.query.text \in HavingCount)
        /\ queries' = Append(queries, q)
        /\ q.answered => Submit(s)
  <2>1. CASE Submit(s)
    BY <1>2, <2>1, SendQuery DEF Submit, Typed
  <2>2. CASE SubmitUnanswered(s)
    BY <1>2, <2>2, SendQuery DEF SubmitUnanswered, Typed
  <2> QED
    BY <2>1, <2>2
<1> DEFINE n == Len(queries')
<1>5. /\ QueriesKept /\ SubmittedOnce' /\ TextsWhole' /\ Numbered'
      /\ n \in DOMAIN queries' /\ queries'[n] = q /\ n # NoHandle
      /\ \A i \in DOMAIN queries' : i \in DOMAIN queries \/ i = n
  BY <1>1, <1>4, NewQueryOwn
<1>6. ASSUME NEW r \in Statements, r # s PROVE OwnCommand(r)' /\ OwnCall(r)'
  <2>1. Untouched(r)
    BY <1>1, <1>6 DEF Untouched
  <2>2. \A i \in DOMAIN queries' : i \in DOMAIN queries \/ queries'[i].by # r
    BY <1>4, <1>5, <1>6
  <2>3. calls' \in Nat /\ calls' >= calls
    BY <1>1, NumbersTyped
  <2> QED
    BY <1>5, <2>1, <2>2, <2>3, UntouchedKept DEF OwnInv
<1>7. state'[s] = "PREPARE" /\ dataReader'[s] = NoReader
  BY <1>1 DEF OwnInv, OwnCall
<1>8. CASE Submit(s)
  <2>1. command' = [command EXCEPT ![s].handle = n] /\ pc'[s] = "status"
    BY <1>8 DEF Submit, Proceed, Typed, CallOK
  <2>2. /\ command'[s].handle = n /\ command'[s].fn = "SQLExecDirect"
        /\ command'[s].query = command[s].query /\ command'[s].number = command[s].number
    <3>1. command'[s] = [command[s] EXCEPT !.handle = n]
      BY <2>1 DEF Typed, ClientOK
    <3> QED
      BY <1>1, <3>1, NumbersTyped DEF Commands
  <2>3. OwnCommand(s)'
    BY <1>1, <1>4, <1>5, <2>2 DEF OwnInv, OwnCommand, None
  <2> QED
    BY <1>5, <1>6, <1>7, <2>1, <2>2, <2>3 DEF OwnInv, OwnCall
<1>9. CASE ~Submit(s)
  <2>1. command' = command /\ pc'[s] = "idle"
    BY <1>9 DEF SubmitUnanswered, Throw, Return, clientVars, Typed, CallOK
  <2>2. OwnCommand(s)'
    BY <1>1, <1>4, <1>5, <1>9, <2>1 DEF OwnInv, OwnCommand, QueriesKept
  <2> QED
    BY <1>5, <1>6, <1>7, <2>1, <2>2 DEF OwnInv, OwnCall
<1> QED
  BY <1>8, <1>9

LEMMA OwnStep == Typed /\ OwnInv /\ [Next]_vars => OwnInv'
<1> SUFFICES ASSUME Typed, OwnInv, [Next]_vars PROVE OwnInv'
  OBVIOUS
<1>1. ASSUME NEW s \in Statements, Call(s) \/ Enter(s) PROVE OwnInv'
  BY <1>1, CallOwn
<1>2. ASSUME NEW s \in Statements, Execute(s) \/ Tables(s) \/ FreeStmt(s) PROVE OwnInv'
  <2>1. Steps(s) /\ pc[s] \notin {"idle", "called"}
    BY <1>2, CallSteps
  <2>2. Quiet(s) \/ Submit(s) \/ SubmitUnanswered(s)
    BY <1>2 DEF Execute, Tables, SubmitFails, PollFails, LoadSchemaFails, GetStreamsFails,
       GetDatasetsFails, Quiet
  <2> QED
    BY <2>1, <2>2, QuietOwn, SubmitOwn
<1>3. ASSUME NEW i \in 1..MaxCalls, Serve(i) PROVE OwnInv'
  BY <1>3, ServeOwn
<1>4. CASE UNCHANGED vars
  BY <1>4 DEF vars, clientVars, callVars, OwnInv, OwnCommand, OwnCall, SubmittedOnce, TextsWhole,
     Numbered, Status
<1> QED
  BY <1>1, <1>2, <1>3, <1>4 DEF Next, Continue

LEMMA OwnImpliesReadsItsQuery == OwnInv => ReadsItsQuery
BY DEF OwnInv, OwnCommand, OwnCall, ReadsItsQuery, Status, Done, NoHandle, Offline

\* Whatever requests fail and however often calls are repeated: the server has the query of an
\* execution once unless its answer was lost, an open statement reads the query of its own
\* command, which had finished, and a text below 2^16 characters reaches the server whole but for
\* its first "HAVING (COUNT(1) > 0)".
THEOREM ExecutionCorrect == Spec => []QueriesAsRequested
<1>1. Init => OwnInv
  <2>1. NoCommand.fn = None /\ NoCommand.handle = NoHandle
    BY DEF NoCommand
  <2>2. DOMAIN << >> = {}
    OBVIOUS
  <2> QED
    BY <2>1, <2>2 DEF Init, OwnInv, OwnCommand, OwnCall, SubmittedOnce, TextsWhole, Numbered, None
<1>2. OwnInv => QueriesAsRequested
  BY OwnImpliesReadsItsQuery DEF OwnInv, QueriesAsRequested
<1> QED
  BY <1>1, <1>2, OwnStep, TypedAlways, PTL DEF Spec
=============================================================================
