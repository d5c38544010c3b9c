----------------------------- MODULE Lifecycle ------------------------------
(***************************************************************************)
(* The objects behind the handles of one connection while they are used    *)
(* and destroyed: the registry's mutex, the connection's lock, the tasks   *)
(* of the statements and the loaders of their readers.                     *)
(*                                                                         *)
(* A call looks its statement up under the mutex, lets the mutex go, and   *)
(* waits for the lock of the connection.  The task of an asynchronous call *)
(* takes that lock too.  The loader of a reader takes neither, and whoever *)
(* destroys the reader waits for it: SQLFreeStmt with the lock, a free     *)
(* with the mutex.  SQLFreeStmt destroys the command first; a prefetch     *)
(* that begins after that uses what is gone, which is undefined, and the   *)
(* system stops there.                                                     *)
(*                                                                         *)
(* HandleRegistry has the maps, Statement the states of a statement and    *)
(* QueryReader the frames; here a reader is there or not, and a fetch may  *)
(* find its row or need a frame.                                           *)
(***************************************************************************)
EXTENDS Naturals, FiniteSets

CONSTANTS
  Threads,      \* of the application
  Statements,   \* the handles that statements may get
  MaxCalls      \* bound on the calls

None == "none"

ASSUME LifecycleAssumption ==
  /\ Threads \cap Statements = {} /\ None \notin Threads \cup Statements
  /\ MaxCalls \in Nat

VARIABLES
  connection,       \* "live" or "destroyed"
  statements,       \* statement -> "unborn", "live", "dying" in its destructor, "destroyed"
  isAsync,          \* statement -> its mode
  command,          \* statement -> whether it has a command
  reader,           \* statement -> whether it has a data reader
  loader,           \* statement -> the prefetch of its reader
  undefined,        \* a prefetch has used a command that is gone
  mutex,            \* who holds the mutex of the registry
  lock,             \* who holds the lock of the connection
  job,              \* thread or task -> the function and the statement
  at,               \* thread or task -> where it is
  calls             \* number of calls

objects == <<connection, statements, isAsync, command, reader, loader, undefined>>
vars == <<objects, mutex, lock, job, at, calls>>

\* A task has the name of its statement.
Actors == Threads \cup Statements

NoJob == [fn |-> None, stmt |-> None]
Statement == {"SQLExecDirect", "SQLFetch", "SQLFreeStmt"}
Free == {"SQLFreeHandle STMT", "SQLFreeHandle DBC"}
Jobs == [fn : Statement \cup {"SQLFreeHandle STMT"}, stmt : Statements]
        \cup [fn : {"SQLFreeHandle DBC"}, stmt : {None}]

Init ==
  /\ connection = "live"
  /\ statements = [s \in Statements |-> "unborn"]
  /\ isAsync \in [Statements -> BOOLEAN]
  /\ command = [s \in Statements |-> FALSE]
  /\ reader = [s \in Statements |-> FALSE]
  /\ loader = [s \in Statements |-> "none"]
  /\ undefined = FALSE
  /\ mutex = None /\ lock = None
  /\ job = [u \in Actors |-> NoJob]
  /\ at = [u \in Actors |-> "idle"]
  /\ calls = 0

Goes(u, place) == at' = [at EXCEPT ![u] = place]

\* Inside a statement, or about to be.
Uses(u, s) == job[u].stmt = s /\ job[u].fn \in Statement /\ at[u] \in {"found", "locked", "waiting"}

-----------------------------------------------------------------------------
(***************************************************************************)
(* Calls.  The Driver Manager lets no other function through while a call  *)
(* of an asynchronous statement is executing, and no free while a          *)
(* statement is used.                                                      *)
(***************************************************************************)
AllocStatement(s) ==
  /\ statements[s] = "unborn" /\ connection = "live" /\ mutex = None
  /\ statements' = [statements EXCEPT ![s] = "live"]
  /\ UNCHANGED <<connection, isAsync, command, reader, loader, undefined, mutex, lock, job, at, calls>>

LetsThrough(j) ==
  /\ at[j.stmt] \in {"idle", "done"} \/ job[j.stmt].fn = j.fn
  /\ isAsync[j.stmt] /\ j.fn \in Statement =>
       \A u \in Threads : job[u].stmt = j.stmt /\ job[u].fn \in Statement => job[u].fn = j.fn

Call(t) ==
  /\ at[t] = "idle" /\ calls < MaxCalls
  /\ \E j \in Jobs :
       /\ j.stmt # None => statements[j.stmt] # "unborn" /\ LetsThrough(j)
       /\ job' = [job EXCEPT ![t] = j]
  /\ Goes(t, "called")
  /\ calls' = calls + 1
  /\ UNCHANGED <<objects, mutex, lock>>

Return(t) == Goes(t, "idle") /\ job' = [job EXCEPT ![t] = NoJob]

\* A handle that is gone is answered with SQL_INVALID_HANDLE.
GetStatement(t) ==
  /\ at[t] = "called" /\ job[t].fn \in Statement
  /\ mutex = None
  /\ IF statements[job[t].stmt] = "live" THEN Goes(t, "found") /\ UNCHANGED job
     ELSE Return(t)
  /\ UNCHANGED <<objects, mutex, lock, calls>>

\* Mutant of Lock: a task does not take it.
LockCallsOnly(u) ==
  /\ at[u] = "found"
  /\ IF u \in Threads THEN lock = None /\ lock' = u ELSE UNCHANGED lock
  /\ Goes(u, "locked")
  /\ UNCHANGED <<objects, mutex, job, calls>>

\* lock_guard<Connection>, of a call or of a task.
Lock(u) ==
  /\ at[u] = "found" /\ lock = None
  /\ lock' = u
  /\ Goes(u, "locked")
  /\ UNCHANGED <<objects, mutex, job, calls>>

\* Mutant of Leave: a task keeps the lock.
LeaveLocked(u) ==
  IF u \in Threads THEN Return(u) /\ lock' = None
  ELSE Goes(u, "done") /\ UNCHANGED <<job, lock>>

\* The end of a call, or of a task, which is then done.
Leave(u) ==
  /\ lock' = None
  /\ IF u \in Threads THEN Return(u) ELSE Goes(u, "done") /\ UNCHANGED job

-----------------------------------------------------------------------------
(***************************************************************************)
(* The bodies, with the lock.                                              *)
(***************************************************************************)
Inside(u, fn, place) == job[u].fn = fn /\ at[u] = place

\* In an asynchronous statement a call runs no body unless it is refused, or the row is at
\* hand, which it is not before a task is done that was started to get it.
InTask(u) == u \in Statements
RunsHere(u) == InTask(u) \/ ~isAsync[job[u].stmt]
FastHere(u) ==
  RunsHere(u) \/ ~reader[job[u].stmt] \/ at[job[u].stmt] \in {"idle", "done"}

\* executeInternal, which finds the statement with a reader and refuses, or fails and leaves
\* the command alone, or opens.
ExecDirect(u) ==
  /\ Inside(u, "SQLExecDirect", "locked") /\ RunsHere(u)
  /\ command' = [command EXCEPT ![job[u].stmt] = TRUE]
  /\ \E opens \in BOOLEAN : reader' = [reader EXCEPT ![job[u].stmt] = @ \/ opens]
  /\ Leave(u)
  /\ UNCHANGED <<connection, statements, isAsync, loader, undefined, mutex, calls>>

\* A row that is at hand, the end of the data, or a state error.
FetchRow(u) ==
  /\ Inside(u, "SQLFetch", "locked") /\ FastHere(u)
  /\ Leave(u)
  /\ UNCHANGED <<objects, mutex, calls>>

\* tryLoadFrameAsync: there is one loader at a time.
FetchFrame(u) ==
  LET s == job[u].stmt
  IN  /\ Inside(u, "SQLFetch", "locked") /\ RunsHere(u) /\ reader[s]
      /\ loader' = [loader EXCEPT ![s] = IF @ = "none" THEN "queued" ELSE @]
      /\ \/ Leave(u)
         \/ Goes(u, "waiting") /\ UNCHANGED <<job, lock>>
      /\ UNCHANGED <<connection, statements, isAsync, command, reader, undefined, mutex, calls>>

\* task.wait() of loadDataContinue
FetchWaited(u) ==
  /\ Inside(u, "SQLFetch", "waiting") /\ loader[job[u].stmt] = "none"
  /\ Leave(u)
  /\ UNCHANGED <<objects, mutex, calls>>

\* runAsync and fetchAsync: a task is started, or the one of this function collected. One that
\* runs stays, and so does one that failed; a task of another function is not looked at.
PollTask(t) ==
  LET s == job[t].stmt
      own == at[s] # "idle" /\ job[s].fn = job[t].fn
      Poll(place, j) == /\ at' = [at EXCEPT ![t] = "idle", ![s] = place]
                        /\ job' = [job EXCEPT ![t] = NoJob, ![s] = j]
  IN  /\ at[t] = "locked" /\ t \in Threads /\ job[t].fn \in {"SQLExecDirect", "SQLFetch"}
      /\ isAsync[s] /\ (job[t].fn = "SQLFetch" => reader[s])
      /\ \/ ~own /\ at[s] \in {"idle", "done"} /\ Poll("found", job[t])
         \/ own /\ at[s] = "done" /\ Poll("idle", NoJob)
         \/ own /\ Poll(at[s], job[s])
      /\ lock' = None
      /\ UNCHANGED <<objects, mutex, calls>>

\* SQL_CLOSE: Statement::reset destroys the command, and waits in the destructor of the
\* reader.
FreeStmt(u) ==
  /\ Inside(u, "SQLFreeStmt", "locked")
  /\ command' = [command EXCEPT ![job[u].stmt] = FALSE]
  /\ Goes(u, "waiting")
  /\ UNCHANGED <<connection, statements, isAsync, reader, loader, undefined, mutex, lock, job, calls>>

\* Mutant of FreeStmtWaited: the destructor of the reader does not wait.
FreeStmtAtOnce(u) ==
  /\ Inside(u, "SQLFreeStmt", "waiting")
  /\ reader' = [reader EXCEPT ![job[u].stmt] = FALSE]
  /\ Leave(u)
  /\ UNCHANGED <<connection, statements, isAsync, command, loader, undefined, mutex, calls>>

FreeStmtWaited(u) ==
  /\ Inside(u, "SQLFreeStmt", "waiting") /\ loader[job[u].stmt] = "none"
  /\ reader' = [reader EXCEPT ![job[u].stmt] = FALSE]
  /\ Leave(u)
  /\ UNCHANGED <<connection, statements, isAsync, command, loader, undefined, mutex, calls>>

-----------------------------------------------------------------------------
(***************************************************************************)
(* The loader of a reader runs in the pool.  It asks the server through    *)
(* the command, whose query it names in the request, and the connection.   *)
(***************************************************************************)

\* Mutant of Request: the loader takes the lock of the connection as the tasks do.
RequestLocked(s) ==
  /\ loader[s] = "queued" /\ lock = None
  /\ IF command[s] THEN loader' = [loader EXCEPT ![s] = "request"] /\ UNCHANGED undefined
     ELSE undefined' = TRUE /\ UNCHANGED loader
  /\ UNCHANGED <<connection, statements, isAsync, command, reader, mutex, lock, job, at, calls>>

Request(s) ==
  /\ loader[s] = "queued"
  /\ IF command[s] THEN loader' = [loader EXCEPT ![s] = "request"] /\ UNCHANGED undefined
     ELSE undefined' = TRUE /\ UNCHANGED loader
  /\ UNCHANGED <<connection, statements, isAsync, command, reader, mutex, lock, job, at, calls>>

\* The answer is pushed to the frame cache, or the request failed.
Push(s) ==
  /\ loader[s] = "request"
  /\ loader' = [loader EXCEPT ![s] = "none"]
  /\ UNCHANGED <<connection, statements, isAsync, command, reader, undefined, mutex, lock, job, at, calls>>

-----------------------------------------------------------------------------
(***************************************************************************)
(* SQLFreeHandle: the destructors run under the mutex.                     *)
(***************************************************************************)
FreeInvalid(t) ==
  /\ at[t] = "called" /\ job[t].fn \in Free /\ mutex = None
  /\ IF job[t].fn = "SQLFreeHandle DBC" THEN connection # "live"
     ELSE statements[job[t].stmt] # "live"
  /\ Return(t)
  /\ UNCHANGED <<objects, mutex, lock, calls>>

Unused(s) == \A u \in Actors : ~Uses(u, s)

FreeStatement(t) ==
  LET s == job[t].stmt
  IN  /\ Inside(t, "SQLFreeHandle STMT", "called") /\ mutex = None
      /\ statements[s] = "live" /\ Unused(s)
      /\ mutex' = t
      /\ statements' = [statements EXCEPT ![s] = "dying"]
      /\ Goes(t, "waiting")
      /\ UNCHANGED <<connection, isAsync, command, reader, loader, undefined, lock, job, calls>>

\* freeStatements takes one statement of the connection after the other.
FreeConnection(t) ==
  /\ Inside(t, "SQLFreeHandle DBC", "called") /\ mutex = None
  /\ connection = "live" /\ \A s \in Statements : Unused(s)
  /\ mutex' = t
  /\ Goes(t, "waiting")
  /\ UNCHANGED <<objects, lock, job, calls>>

FreeNextStatement(t) ==
  /\ Inside(t, "SQLFreeHandle DBC", "waiting")
  /\ \A s \in Statements : statements[s] # "dying"
  /\ \E s \in Statements : statements[s] = "live" /\ statements' = [statements EXCEPT ![s] = "dying"]
  /\ UNCHANGED <<connection, isAsync, command, reader, loader, undefined, mutex, lock, job, at, calls>>

\* The members go in the reverse order of their declaration: the reader, whose destructor
\* waits, before the command.
DestroyStatement(t, s) ==
  /\ mutex = t /\ statements[s] = "dying"
  /\ loader[s] = "none"
  /\ statements' = [statements EXCEPT ![s] = "destroyed"]
  /\ reader' = [reader EXCEPT ![s] = FALSE]
  /\ command' = [command EXCEPT ![s] = FALSE]
  /\ IF job[t].fn = "SQLFreeHandle STMT" THEN Return(t) /\ mutex' = None
     ELSE UNCHANGED <<job, at, mutex>>
  /\ UNCHANGED <<connection, isAsync, loader, undefined, lock, calls>>

DestroyConnection(t) ==
  /\ Inside(t, "SQLFreeHandle DBC", "waiting")
  /\ \A s \in Statements : statements[s] \notin {"live", "dying"}
  /\ connection' = "destroyed"
  /\ mutex' = None
  /\ Return(t)
  /\ UNCHANGED <<statements, isAsync, command, reader, loader, undefined, lock, calls>>

-----------------------------------------------------------------------------
Body(u) == ExecDirect(u) \/ FetchRow(u) \/ FetchFrame(u) \/ FetchWaited(u) \/ FreeStmt(u)
           \/ FreeStmtWaited(u)

FreeHandle(t) == FreeInvalid(t) \/ FreeStatement(t) \/ FreeConnection(t) \/ FreeNextStatement(t)
                 \/ DestroyConnection(t) \/ \E s \in Statements : DestroyStatement(t, s)

Continue(u) ==
  /\ ~undefined
  /\ Lock(u) \/ Body(u) \/ (u \in Threads /\ (GetStatement(u) \/ PollTask(u) \/ FreeHandle(u)))

Load(s) == ~undefined /\ (Request(s) \/ Push(s))

Next ==
  \/ \E t \in Threads : ~undefined /\ Call(t)
  \/ \E u \in Actors : Continue(u)
  \/ \E s \in Statements : ~undefined /\ AllocStatement(s)
  \/ \E s \in Statements : Load(s)

\* Threads run, the pool runs every task and every loader, requests are answered or fail.
Spec == Init /\ [][Next]_vars /\ \A u \in Actors : WF_vars(Continue(u))
             /\ \A s \in Statements : WF_vars(Load(s))

-----------------------------------------------------------------------------
(***************************************************************************)
(* Properties.                                                             *)
(***************************************************************************)

\* Types, and that who holds the lock or the mutex is in a body or in a free.
TypeOK ==
  /\ connection \in {"live", "destroyed"}
  /\ statements \in [Statements -> {"unborn", "live", "dying", "destroyed"}]
  /\ isAsync \in [Statements -> BOOLEAN]
  /\ command \in [Statements -> BOOLEAN] /\ reader \in [Statements -> BOOLEAN]
  /\ loader \in [Statements -> {"none", "queued", "request"}] /\ undefined \in BOOLEAN
  /\ job \in [Actors -> Jobs \cup {NoJob}]
  /\ at \in [Actors -> {"idle", "called", "found", "locked", "waiting", "done"}]
  /\ lock \in Actors \cup {None} /\ mutex \in Threads \cup {None}
  /\ lock # None => job[lock].fn \in Statement /\ at[lock] \in {"locked", "waiting"}
  /\ mutex # None => job[mutex].fn \in Free /\ at[mutex] = "waiting"
  /\ calls \in 0..MaxCalls

(***************************************************************************)
(* A prefetch, which takes neither mutex nor lock and outlives the fetch   *)
(* that began it, has its reader, its statement and its connection until   *)
(* it ends, whatever is closed or freed meanwhile.  It has the command of  *)
(* the statement too, but for one case: SQL_CLOSE destroys the command,    *)
(* then waits for the prefetch.  Nothing else makes a prefetch use what is *)
(* gone.                                                                   *)
(***************************************************************************)
Closes(u, s) == Inside(u, "SQLFreeStmt", "waiting") /\ job[u].stmt = s

PrefetchKeepsItsObjects ==
  /\ \A s \in Statements : loader[s] # "none" =>
       /\ reader[s] /\ statements[s] \in {"live", "dying"} /\ connection = "live"
       /\ command[s] \/ \E u \in Actors : Closes(u, s)
  /\ undefined => \E s \in Statements, u \in Actors : loader[s] = "queued" /\ Closes(u, s)

(***************************************************************************)
(* One user of a reader at a time: a call, the task of an earlier call of  *)
(* the same function, or a free.                                           *)
(***************************************************************************)
ReaderExclusive ==
  \A s \in Statements :
    LET users == {u \in Actors : Uses(u, s) /\ at[u] \in {"locked", "waiting"}}
    IN  Cardinality(users) <= IF statements[s] = "live" THEN 1 ELSE 0

(***************************************************************************)
(* Nobody waits for ever: calls return and tasks end, whoever destroys a   *)
(* reader with the lock or with the mutex in hand, unless a prefetch used  *)
(* a command that was gone.                                                *)
(***************************************************************************)
AllEnd == \A u \in Actors : at[u] \notin {"idle", "done"} ~> at[u] \in {"idle", "done"} \/ undefined
=============================================================================
