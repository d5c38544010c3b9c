------------------------- MODULE LifecycleProofs --------------------------
(***************************************************************************)
(* Theorems about Lifecycle, for any threads and statements and any number *)
(* of calls: a prefetch keeps the objects it uses, but for the command     *)
(* that SQL_CLOSE destroys, and a reader has one user at a time.           *)
(***************************************************************************)
EXTENDS Lifecycle, FiniteSetTheorems, TLAPS

-----------------------------------------------------------------------------
(***************************************************************************)
(* The inductive invariant.                                                *)
(***************************************************************************)
Places == {"idle", "called", "found", "locked", "waiting", "done"}
AnyJob == Jobs \cup {NoJob}

\* Where an actor may be, and what it runs there.  A task runs a function of its own
\* statement.
Fits(u, p, j) ==
  /\ p \in Places /\ j \in AnyJob
  /\ p = "idle" <=> j = NoJob
  /\ p \in {"found", "locked"} => j.fn \in Statement
  /\ u \in Threads => p # "done"
  /\ u \in Statements => p # "called" /\ (j # NoJob => j.stmt = u /\ j.fn \in Statement)

\* The lock and the mutex are held by whoever is past them, and by nobody else.
Locked(p, j) == p \in {"locked", "waiting"} /\ j.fn \in Statement
Frees(p, j) == p = "waiting" /\ j.fn \in Free

Control ==
  /\ at \in [Actors -> Places] /\ job \in [Actors -> AnyJob]
  /\ lock \in Actors \cup {None} /\ mutex \in Threads \cup {None}
  /\ \A u \in Actors : /\ Fits(u, at[u], job[u])
                       /\ lock = u <=> Locked(at[u], job[u])
                       /\ mutex = u <=> Frees(at[u], job[u])

ObjectTypes ==
  /\ connection \in {"live", "destroyed"}
  /\ statements \in [Statements -> {"unborn", "live", "dying", "destroyed"}]
  /\ isAsync \in [Statements -> BOOLEAN]
  /\ command \in [Statements -> BOOLEAN] /\ reader \in [Statements -> BOOLEAN]
  /\ loader \in [Statements -> {"none", "queued", "request"}] /\ undefined \in BOOLEAN
  /\ calls \in 0..MaxCalls

\* A statement is in its destructor only in a free of it or of its connection, and no
\* statement is used during a free of the connection.
Freeing ==
  /\ \A s \in Statements : statements[s] = "dying" =>
       mutex # None /\ (job[mutex].fn = "SQLFreeHandle STMT" => job[mutex].stmt = s)
  /\ mutex # None /\ job[mutex].fn = "SQLFreeHandle DBC" => \A s \in Statements : Unused(s)
  /\ connection = "destroyed" => \A s \in Statements : statements[s] \notin {"live", "dying"}

\* A call or a task that has a statement finds it and its connection whole until it returns,
\* and a prefetch its reader.
Outlives(s) ==
  /\ ~Unused(s) => statements[s] = "live" /\ connection = "live"
  /\ loader[s] # "none" =>
       reader[s] /\ statements[s] \in {"live", "dying"} /\ connection = "live"

LifeInv ==
  /\ Control
  /\ ObjectTypes
  /\ Freeing
  /\ \A s \in Statements : Outlives(s)

LEMMA InvImpliesTypes == LifeInv => TypeOK
  BY LifecycleAssumption DEF LifeInv, Control, ObjectTypes, TypeOK, Places, AnyJob, Locked, Frees, Actors

-----------------------------------------------------------------------------
(***************************************************************************)
(* Jobs.                                                                   *)
(***************************************************************************)
LEMMA JobFacts ==
  /\ NoJob \in AnyJob /\ NoJob.fn \notin Statement \cup Free
  /\ \A j \in AnyJob : /\ j.fn \in Statement => j.stmt \in Statements /\ j.fn \notin Free /\ j # NoJob
                       /\ j.fn \in Free => j # NoJob
                       /\ j.fn = "SQLFreeHandle STMT" => j.stmt \in Statements
                       /\ j # NoJob => j.fn \in Statement \cup Free
<1>1. NoJob.fn = None
  BY DEF NoJob
<1>2. ASSUME NEW j \in AnyJob
      PROVE /\ j.fn \in Statement => j.stmt \in Statements /\ j.fn \notin Free /\ j # NoJob
            /\ j.fn \in Free => j # NoJob
            /\ j.fn = "SQLFreeHandle STMT" => j.stmt \in Statements
            /\ j # NoJob => j.fn \in Statement \cup Free
  <2>1. CASE j \in [fn : Statement \cup {"SQLFreeHandle STMT"}, stmt : Statements]
    <3>1. j.fn \in Statement \cup {"SQLFreeHandle STMT"} /\ j.stmt \in Statements
      BY <2>1
    <3> QED
      BY <1>1, <3>1 DEF Statement, Free, None
  <2>2. CASE j \in [fn : {"SQLFreeHandle DBC"}, stmt : {None}]
    <3>1. j.fn = "SQLFreeHandle DBC"
      BY <2>2
    <3> QED
      BY <1>1, <3>1 DEF Statement, Free, None
  <2>3. CASE j = NoJob
    BY <1>1, <2>3 DEF Statement, Free, None
  <2> QED
    BY <2>1, <2>2, <2>3 DEF AnyJob, Jobs
<1> QED
  BY <1>1, <1>2 DEF AnyJob, Statement, Free, None

\* One actor moves, and takes or leaves the lock and the mutex as its place demands.
Moves(u, p, j) ==
  /\ at' = [at EXCEPT ![u] = p] /\ job' = [job EXCEPT ![u] = j]
  /\ Fits(u, p, j)
  /\ lock' = u <=> Locked(p, j)
  /\ lock' = lock \/ lock = u \/ lock' = u
  /\ lock' \in {u, lock, None} /\ (lock' = u => lock \in {u, None})
  /\ lock' = None => lock \in {u, None}
  /\ mutex' = u <=> Frees(p, j)
  /\ mutex' \in {u, mutex, None} /\ (mutex' = u => mutex \in {u, None} /\ u \in Threads)
  /\ mutex' = None => mutex \in {u, None}

LEMMA MoveControl ==
  ASSUME Control, NEW u \in Actors, NEW p, NEW j, Moves(u, p, j)
  PROVE  Control'
<1>1. at' \in [Actors -> Places] /\ job' \in [Actors -> AnyJob]
  BY DEF Control, Moves, Fits
<1>2. lock' \in Actors \cup {None} /\ mutex' \in Threads \cup {None}
  BY DEF Control, Moves
<1>3. ASSUME NEW v \in Actors
      PROVE /\ Fits(v, at'[v], job'[v])
            /\ lock' = v <=> Locked(at'[v], job'[v])
            /\ mutex' = v <=> Frees(at'[v], job'[v])
  <2>1. CASE v = u
    BY <2>1 DEF Control, Moves
  <2>2. CASE v # u
    <3>1. at'[v] = at[v] /\ job'[v] = job[v]
      BY <2>2 DEF Control, Moves
    <3>2. v # None
      BY LifecycleAssumption DEF Actors
    <3>3. (lock' = v <=> lock = v) /\ (mutex' = v <=> mutex = v)
      BY <2>2, <3>2 DEF Moves
    <3> QED
      BY <3>1, <3>3 DEF Control
  <2> QED
    BY <2>1, <2>2
<1>4. \A v \in Actors : /\ Fits(v, at[v], job[v])'
                        /\ (lock = v <=> Locked(at[v], job[v]))'
                        /\ (mutex = v <=> Frees(at[v], job[v]))'
  BY <1>3 DEF Fits, Locked, Frees
<1> QED
  BY <1>1, <1>2, <1>4 DEF Control

Inside3 == {"found", "locked", "waiting"}

\* A move that enters no statement makes no new user.
LEMMA MoveUses ==
  ASSUME Control, NEW u \in Actors, NEW p, NEW j, Moves(u, p, j),
         j.fn \in Statement /\ p \in Inside3 => at[u] \in Inside3 /\ job[u] = j
  PROVE  \A s \in Statements : Unused(s) => Unused(s)'
<1> SUFFICES ASSUME NEW s \in Statements, Unused(s), NEW v \in Actors, Uses(v, s)'
             PROVE FALSE
  BY DEF Unused
<1>1. CASE v = u
  BY <1>1 DEF Moves, Control, Uses, Unused, Inside3
<1>2. CASE v # u
  <2>1. at'[v] = at[v] /\ job'[v] = job[v]
    BY <1>2 DEF Control, Moves
  <2> QED
    BY <2>1 DEF Uses, Unused
<1> QED
  BY <1>1, <1>2

\* A step that destroys nothing, makes no new user, and leaves alone what a free does.
Spares ==
  /\ UNCHANGED <<connection, statements, mutex>>
  /\ mutex # None => job'[mutex] = job[mutex]
  /\ \A s \in Statements : Unused(s) => Unused(s)'
  /\ \A s \in Statements : loader'[s] # "none" =>
       reader'[s] /\ (loader[s] # "none" \/ ~Unused(s))

LEMMA SparesObjects ==
  ASSUME LifeInv, Spares
  PROVE  Freeing' /\ \A s \in Statements : Outlives(s)'
<1>1. Freeing'
  BY DEF Spares, LifeInv, Freeing
<1>2. ASSUME NEW s \in Statements PROVE Outlives(s)'
  BY DEF Spares, LifeInv, Outlives
<1> QED
  BY <1>1, <1>2

-----------------------------------------------------------------------------
(***************************************************************************)
(* Calls and bodies.                                                       *)
(***************************************************************************)
LEMMA NotNone == \A u \in Actors : u # None
  BY LifecycleAssumption DEF Actors

LEMMA Kinds == /\ Threads \subseteq Actors /\ Statements \subseteq Actors
               /\ \A t \in Threads : t \notin Statements
  BY LifecycleAssumption DEF Actors

\* Leave: whoever holds the lock of the connection returns, or its task is done.
LEMMA LeaveMoves ==
  ASSUME Control, NEW u \in Actors, Locked(at[u], job[u]), Leave(u), UNCHANGED mutex
  PROVE  \E p, j : Moves(u, p, j) /\ p \in {"idle", "done"}
<1>1. lock = u /\ lock' = None
  BY DEF Control, Leave
<1>2. mutex # u
  BY JobFacts DEF Control, Locked, Frees
<1>3. CASE u \in Threads
  <2>1. at' = [at EXCEPT ![u] = "idle"] /\ job' = [job EXCEPT ![u] = NoJob]
    BY <1>3 DEF Leave, Return, Goes
  <2>2. Fits(u, "idle", NoJob)
    BY <1>3, JobFacts, Kinds DEF Fits, Places
  <2>3. ~Locked("idle", NoJob) /\ ~Frees("idle", NoJob)
    BY DEF Locked, Frees
  <2> QED
    BY <1>1, <1>2, <2>1, <2>2, <2>3, NotNone DEF Moves
<1>4. CASE u \notin Threads
  <2>1. at' = [at EXCEPT ![u] = "done"] /\ job' = [job EXCEPT ![u] = job[u]]
    BY <1>4 DEF Leave, Goes, Control
  <2>2. Fits(u, "done", job[u])
    BY <1>4 DEF Fits, Places, Control, Locked
  <2>3. ~Locked("done", job[u]) /\ ~Frees("done", job[u])
    BY DEF Locked, Frees
  <2> QED
    BY <1>1, <1>2, <2>1, <2>2, <2>3, NotNone DEF Moves
<1> QED
  BY <1>3, <1>4

\* A body that ends: what is left to say is what becomes of readers and loaders.
LEMMA LeaveStep ==
  ASSUME LifeInv, NEW u \in Actors, Locked(at[u], job[u]), Leave(u),
         UNCHANGED <<connection, statements, mutex>>
  PROVE  /\ Control'
         /\ mutex # None => job'[mutex] = job[mutex]
         /\ \A s \in Statements : Unused(s) => Unused(s)'
<1>1. PICK p, j : Moves(u, p, j) /\ p \in {"idle", "done"}
  BY LeaveMoves DEF LifeInv
<1>2. mutex # u
  BY JobFacts DEF LifeInv, Control, Locked, Frees
<1>3. Control'
  BY <1>1, MoveControl DEF LifeInv
<1>4. \A s \in Statements : Unused(s) => Unused(s)'
  BY <1>1, MoveUses DEF LifeInv, Inside3
<1>5. mutex # None => job'[mutex] = job[mutex]
  BY <1>1, <1>2, Kinds DEF Moves, LifeInv, Control
<1> QED
  BY <1>3, <1>4, <1>5

\* The statement of a body is used.
LEMMA BodyUses ==
  ASSUME Control, NEW u \in Actors, Locked(at[u], job[u])
  PROVE  job[u].stmt \in Statements /\ ~Unused(job[u].stmt)
  BY JobFacts DEF Control, Locked, Uses, Unused

LEMMA ExecDirectStep == ASSUME LifeInv, NEW u \in Actors, ExecDirect(u) PROVE LifeInv'
<1>1. Locked(at[u], job[u]) /\ Leave(u)
  BY DEF ExecDirect, Inside, Locked, Statement
<1>2. UNCHANGED <<connection, statements, isAsync, loader, undefined, mutex, calls>>
  BY DEF ExecDirect
<1>3. PICK opens \in BOOLEAN :
        /\ reader' = [reader EXCEPT ![job[u].stmt] = @ \/ opens]
        /\ command' = [command EXCEPT ![job[u].stmt] = TRUE]
  BY DEF ExecDirect
<1>4. \A s \in Statements : reader[s] => reader'[s]
  BY <1>3 DEF LifeInv, ObjectTypes
<1>5. reader' \in [Statements -> BOOLEAN] /\ command' \in [Statements -> BOOLEAN]
  BY <1>1, <1>3, BodyUses DEF LifeInv, ObjectTypes
<1>6. Spares /\ Control'
  BY <1>1, <1>2, <1>4, LeaveStep DEF Spares, LifeInv, Outlives
<1> QED
  BY <1>2, <1>5, <1>6, SparesObjects DEF LifeInv, ObjectTypes

LEMMA FetchRowStep == ASSUME LifeInv, NEW u \in Actors, FetchRow(u) PROVE LifeInv'
<1>1. Locked(at[u], job[u]) /\ Leave(u)
  BY DEF FetchRow, Inside, Locked, Statement
<1>2. UNCHANGED <<objects, mutex, calls>>
  BY DEF FetchRow
<1>3. Spares /\ Control'
  BY <1>1, <1>2, LeaveStep DEF Spares, LifeInv, Outlives, objects
<1> QED
  BY <1>2, <1>3, SparesObjects DEF LifeInv, ObjectTypes, objects

LEMMA FetchWaitedStep == ASSUME LifeInv, NEW u \in Actors, FetchWaited(u) PROVE LifeInv'
<1>1. Locked(at[u], job[u]) /\ Leave(u)
  BY DEF FetchWaited, Inside, Locked, Statement
<1>2. UNCHANGED <<objects, mutex, calls>>
  BY DEF FetchWaited
<1>3. Spares /\ Control'
  BY <1>1, <1>2, LeaveStep DEF Spares, LifeInv, Outlives, objects
<1> QED
  BY <1>2, <1>3, SparesObjects DEF LifeInv, ObjectTypes, objects

LEMMA FreeStmtWaitedStep == ASSUME LifeInv, NEW u \in Actors, FreeStmtWaited(u) PROVE LifeInv'
<1>1. Locked(at[u], job[u]) /\ Leave(u)
  BY DEF FreeStmtWaited, Inside, Locked, Statement
<1>2. UNCHANGED <<connection, statements, isAsync, command, loader, undefined, mutex, calls>>
  BY DEF FreeStmtWaited
<1>3. loader[job[u].stmt] = "none" /\ reader' = [reader EXCEPT ![job[u].stmt] = FALSE]
  BY DEF FreeStmtWaited
<1>4. \A s \in Statements : loader[s] # "none" => reader'[s] = reader[s]
  BY <1>3 DEF LifeInv, ObjectTypes
<1>5. reader' \in [Statements -> BOOLEAN]
  BY <1>3 DEF LifeInv, ObjectTypes
<1>6. Spares /\ Control'
  BY <1>1, <1>2, <1>4, LeaveStep DEF Spares, LifeInv, Outlives
<1> QED
  BY <1>2, <1>5, <1>6, SparesObjects DEF LifeInv, ObjectTypes

\* The lock is kept while a body waits for the loader.
LEMMA WaitStep ==
  ASSUME LifeInv, NEW u \in Actors, at[u] = "locked", Goes(u, "waiting"),
         UNCHANGED <<connection, statements, mutex, job, lock>>
  PROVE  Control' /\ \A s \in Statements : Unused(s) => Unused(s)'
<1>1. job[u].fn \in Statement /\ job[u].fn \notin Free /\ lock = u /\ mutex # u
  BY JobFacts DEF LifeInv, Control, Fits, Locked, Frees
<1>2. Fits(u, "waiting", job[u])
  BY <1>1, JobFacts DEF LifeInv, Control, Fits, Places
<1>3. Moves(u, "waiting", job[u])
  BY <1>1, <1>2, NotNone DEF Moves, Goes, LifeInv, Control, Locked, Frees
<1> QED
  BY <1>3, MoveControl, MoveUses DEF LifeInv, Inside3

LEMMA FetchFrameStep == ASSUME LifeInv, NEW u \in Actors, FetchFrame(u) PROVE LifeInv'
<1> DEFINE s0 == job[u].stmt
<1>1. at[u] = "locked" /\ Locked(at[u], job[u]) /\ reader[s0]
  BY DEF FetchFrame, Inside, Locked, Statement
<1>2. loader' = [loader EXCEPT ![s0] = IF @ = "none" THEN "queued" ELSE @]
  BY DEF FetchFrame
<1>3. UNCHANGED <<connection, statements, isAsync, command, reader, undefined, mutex, calls>>
  BY DEF FetchFrame
<1>4. s0 \in Statements /\ ~Unused(s0)
  BY <1>1, BodyUses DEF LifeInv
<1>5. loader' \in [Statements -> {"none", "queued", "request"}]
  BY <1>2, <1>4 DEF LifeInv, ObjectTypes
<1>6. \A s \in Statements : loader'[s] # "none" => reader'[s] /\ (loader[s] # "none" \/ ~Unused(s))
  BY <1>1, <1>2, <1>3, <1>4 DEF LifeInv, ObjectTypes, Outlives
<1>7. /\ Control' /\ (mutex # None => job'[mutex] = job[mutex])
      /\ \A s \in Statements : Unused(s) => Unused(s)'
  <2>1. CASE Leave(u)
    BY <1>1, <1>3, <2>1, LeaveStep
  <2>2. CASE Goes(u, "waiting") /\ UNCHANGED <<job, lock>>
    BY <1>1, <1>3, <2>2, WaitStep
  <2> QED
    BY <2>1, <2>2 DEF FetchFrame
<1>8. Spares
  BY <1>3, <1>6, <1>7 DEF Spares
<1> QED
  BY <1>3, <1>5, <1>7, <1>8, SparesObjects DEF LifeInv, ObjectTypes

LEMMA FreeStmtStep == ASSUME LifeInv, NEW u \in Actors, FreeStmt(u) PROVE LifeInv'
<1>1. /\ at[u] = "locked" /\ Goes(u, "waiting")
      /\ command' = [command EXCEPT ![job[u].stmt] = FALSE]
      /\ UNCHANGED <<connection, statements, isAsync, reader, loader, undefined, mutex, lock, job,
                     calls>>
  BY DEF FreeStmt, Inside
<1>2. Control' /\ \A s \in Statements : Unused(s) => Unused(s)'
  BY <1>1, WaitStep
<1>3. Spares
  BY <1>1, <1>2 DEF Spares, LifeInv, Outlives
<1> QED
  BY <1>1, <1>2, <1>3, SparesObjects DEF LifeInv, ObjectTypes

LEMMA LockStep == ASSUME LifeInv, NEW u \in Actors, Lock(u) PROVE LifeInv'
<1>1. at[u] = "found" /\ lock = None /\ lock' = u /\ UNCHANGED <<objects, mutex, job, calls>>
      /\ at' = [at EXCEPT ![u] = "locked"]
  BY DEF Lock, Goes
<1>2. job[u].fn \in Statement /\ mutex # u /\ job' = [job EXCEPT ![u] = job[u]]
  BY <1>1 DEF LifeInv, Control, Fits, Frees
<1>3. Fits(u, "locked", job[u])
  BY <1>1, <1>2, JobFacts DEF LifeInv, Control, Fits, Places
<1>4. Moves(u, "locked", job[u])
  BY <1>1, <1>2, <1>3, NotNone DEF Moves, Locked, Frees
<1>5. Control' /\ \A s \in Statements : Unused(s) => Unused(s)'
  BY <1>1, <1>4, MoveControl, MoveUses DEF LifeInv, Inside3
<1>6. Spares
  BY <1>1, <1>5 DEF Spares, LifeInv, Outlives, objects
<1> QED
  BY <1>1, <1>5, <1>6, SparesObjects DEF LifeInv, ObjectTypes, objects

\* A thread that is neither in a body nor in a free goes on without lock and mutex.
LEMMA FreeMoves ==
  ASSUME Control, NEW t \in Threads, at[t] \in {"idle", "called"}, NEW p \in Places, NEW j \in AnyJob,
         p \in {"idle", "called", "found"}, p = "idle" <=> j = NoJob,
         p = "found" => j.fn \in Statement,
         at' = [at EXCEPT ![t] = p], job' = [job EXCEPT ![t] = j], UNCHANGED <<mutex, lock>>
  PROVE  Moves(t, p, j)
<1>1. lock # t /\ mutex # t
  BY Kinds DEF Control, Locked, Frees
<1>2. Fits(t, p, j)
  BY Kinds DEF Fits
<1> QED
  BY <1>1, <1>2, NotNone, Kinds DEF Moves, Locked, Frees

LEMMA CallStep == ASSUME LifeInv, NEW t \in Threads, Call(t) PROVE LifeInv'
<1>1. PICK j \in Jobs : job' = [job EXCEPT ![t] = j]
  BY DEF Call
<1>2. /\ at[t] = "idle" /\ at' = [at EXCEPT ![t] = "called"] /\ calls < MaxCalls /\ calls' = calls + 1
      /\ UNCHANGED <<objects, mutex, lock>>
  BY DEF Call, Goes
<1>3. j \in AnyJob /\ j # NoJob
  <2>1. j.fn # NoJob.fn
    BY DEF Jobs, NoJob, Statement, None
  <2> QED
    BY <2>1 DEF AnyJob
<1>4. Moves(t, "called", j)
  BY <1>1, <1>2, <1>3, FreeMoves DEF LifeInv, Places
<1>5. Control' /\ \A s \in Statements : Unused(s) => Unused(s)'
  BY <1>4, MoveControl, MoveUses, Kinds DEF LifeInv, Inside3
<1>6. mutex # t
  BY <1>2, Kinds DEF LifeInv, Control, Frees
<1>7. Spares
  BY <1>1, <1>2, <1>5, <1>6, Kinds DEF Spares, LifeInv, Outlives, objects, Control
<1>8. calls' \in 0..MaxCalls
  BY <1>2, LifecycleAssumption DEF LifeInv, ObjectTypes
<1> QED
  BY <1>2, <1>5, <1>7, <1>8, SparesObjects DEF LifeInv, ObjectTypes, objects

\* The statement that is found is live, and so is its connection; nobody is in a free.
LEMMA GetStatementStep == ASSUME LifeInv, NEW t \in Threads, GetStatement(t) PROVE LifeInv'
<1>1. at[t] = "called" /\ job[t].fn \in Statement /\ mutex = None
      /\ UNCHANGED <<objects, mutex, lock, calls>>
  BY DEF GetStatement
<1>2. job[t] \in AnyJob
  BY Kinds DEF LifeInv, Control
<1>3. CASE statements[job[t].stmt] = "live"
  <2>1. at' = [at EXCEPT ![t] = "found"] /\ job' = [job EXCEPT ![t] = job[t]]
    BY <1>3 DEF GetStatement, Goes, LifeInv, Control
  <2>2. Moves(t, "found", job[t])
    BY <1>1, <1>2, <2>1, FreeMoves, JobFacts DEF LifeInv, Places
  <2>3. Control'
    BY <2>2, MoveControl, Kinds DEF LifeInv
  <2>4. Freeing'
    <3>1. connection # "destroyed"
      BY <1>1, <1>2, <1>3, JobFacts DEF LifeInv, Freeing
    <3> QED
      BY <1>1, <3>1 DEF LifeInv, Freeing, objects
  <2>5. ASSUME NEW s \in Statements PROVE Outlives(s)'
    <3>1. CASE s = job[t].stmt
      <4>1. connection = "live"
        BY <1>1, <1>3, <3>1 DEF LifeInv, Freeing, ObjectTypes
      <4> QED
        BY <1>1, <1>3, <3>1, <4>1 DEF LifeInv, Outlives, objects
    <3>2. CASE s # job[t].stmt
      <4>1. Unused(s) => Unused(s)'
        BY <2>1, <3>2, Kinds DEF Unused, Uses, LifeInv, Control
      <4> QED
        BY <1>1, <4>1 DEF LifeInv, Outlives, objects
    <3> QED
      BY <3>1, <3>2
  <2> QED
    BY <1>1, <2>3, <2>4, <2>5 DEF LifeInv, ObjectTypes, objects
<1>4. CASE statements[job[t].stmt] # "live"
  <2>1. at' = [at EXCEPT ![t] = "idle"] /\ job' = [job EXCEPT ![t] = NoJob]
    BY <1>4 DEF GetStatement, Return, Goes
  <2>2. Moves(t, "idle", NoJob)
    BY <1>1, <2>1, FreeMoves, JobFacts DEF LifeInv, Places
  <2>3. Control' /\ \A s \in Statements : Unused(s) => Unused(s)'
    BY <2>2, MoveControl, MoveUses, Kinds DEF LifeInv, Inside3
  <2>4. Spares
    BY <1>1, <2>3 DEF Spares, LifeInv, Outlives, objects
  <2> QED
    BY <1>1, <2>3, <2>4, SparesObjects DEF LifeInv, ObjectTypes, objects
<1> QED
  BY <1>3, <1>4

\* The poll of a task: the call returns and the task starts, stays or is collected.  It is
\* the statement of the call that the task uses.
LEMMA PollTaskStep == ASSUME LifeInv, NEW t \in Threads, PollTask(t) PROVE LifeInv'
<1> DEFINE s0 == job[t].stmt
<1>1. /\ at[t] = "locked" /\ lock' = None /\ UNCHANGED <<objects, mutex, calls>>
      /\ job[t].fn \in {"SQLExecDirect", "SQLFetch"}
  BY DEF PollTask
<1>2. s0 \in Statements /\ ~Unused(s0) /\ lock = t /\ mutex # t /\ job[t] \in AnyJob /\ s0 # t
      /\ job[t] # NoJob
  <2>1. Locked(at[t], job[t])
    BY <1>1 DEF Locked, Statement
  <2> QED
    BY <2>1, BodyUses, JobFacts, Kinds DEF LifeInv, Control, Locked, Frees
<1>3. PICK p, j :
        /\ at' = [at EXCEPT ![t] = "idle", ![s0] = p]
        /\ job' = [job EXCEPT ![t] = NoJob, ![s0] = j]
        /\ \/ p = "found" /\ j = job[t] /\ at[s0] \in {"idle", "done"}
           \/ p = "idle" /\ j = NoJob /\ at[s0] = "done"
           \/ p = at[s0] /\ j = job[s0]
  BY DEF PollTask
<1>4. Fits(t, "idle", NoJob) /\ ~Locked("idle", NoJob) /\ ~Frees("idle", NoJob)
  BY JobFacts, Kinds DEF Fits, Places, Locked, Frees
<1>5. Fits(s0, p, j) /\ lock # s0 /\ mutex # s0 /\ ~Locked(p, j) /\ ~Frees(p, j)
  <2>1. s0 \in Actors /\ s0 \notin Threads /\ lock # s0 /\ mutex # s0
    BY <1>2, Kinds, NotNone DEF LifeInv, Control
  <2>2. CASE p = "found" /\ j = job[t]
    <3>1. j.fn \in Statement /\ j.stmt = s0
      BY <1>1, <2>2 DEF Statement
    <3> QED
      BY <1>2, <2>1, <2>2, <3>1 DEF Fits, Places, Locked, Frees
  <2>3. CASE p = "idle" /\ j = NoJob
    BY <2>1, <2>3, JobFacts DEF Fits, Places, Locked, Frees
  <2>4. CASE p = at[s0] /\ j = job[s0]
    BY <2>1, <2>4 DEF LifeInv, Control
  <2> QED
    BY <1>3, <2>1, <2>2, <2>3, <2>4
<1>6. \A v \in Actors \ {t, s0} : at'[v] = at[v] /\ job'[v] = job[v]
  BY <1>3 DEF LifeInv, Control
<1>7. at'[t] = "idle" /\ job'[t] = NoJob /\ at'[s0] = p /\ job'[s0] = j
  BY <1>2, <1>3, Kinds DEF LifeInv, Control
<1>8. at' \in [Actors -> Places] /\ job' \in [Actors -> AnyJob]
  BY <1>3, <1>4, <1>5, JobFacts DEF LifeInv, Control, Fits, Places
<1>9. Control'
  <2>1. ASSUME NEW v \in Actors
        PROVE /\ Fits(v, at'[v], job'[v])
              /\ lock' = v <=> Locked(at'[v], job'[v])
              /\ mutex' = v <=> Frees(at'[v], job'[v])
    <3>1. CASE v = t
      BY <1>1, <1>2, <1>4, <1>7, <3>1, NotNone
    <3>2. CASE v = s0
      BY <1>1, <1>2, <1>4, <1>5, <1>7, <3>2, NotNone
    <3>3. CASE v \notin {t, s0}
      BY <1>1, <1>2, <1>6, <3>3, NotNone DEF LifeInv, Control
    <3> QED
      BY <3>1, <3>2, <3>3
  <2>2. \A v \in Actors : /\ Fits(v, at[v], job[v])'
                          /\ (lock = v <=> Locked(at[v], job[v]))'
                          /\ (mutex = v <=> Frees(at[v], job[v]))'
    BY <2>1 DEF Fits, Locked, Frees
  <2> QED
    BY <1>1, <1>8, <2>2 DEF LifeInv, Control
<1>10. ASSUME NEW s \in Statements, Unused(s) PROVE Unused(s)'
  <2> SUFFICES ASSUME NEW v \in Actors, Uses(v, s)' PROVE FALSE
    BY DEF Unused
  <2>1. v # t
    BY <1>7, JobFacts DEF Uses
  <2>2. CASE v = s0
    <3>1. j.stmt = s0
      BY <1>2, <1>5, <1>7, <2>2, JobFacts DEF Fits, Uses
    <3> QED
      BY <1>2, <1>7, <1>10, <2>2, <3>1 DEF Uses
  <2>3. CASE v # s0
    BY <1>6, <1>10, <2>1, <2>3 DEF Uses, Unused
  <2> QED
    BY <2>2, <2>3
<1>11. Spares
  BY <1>1, <1>2, <1>5, <1>6, <1>10, Kinds DEF Spares, LifeInv, Outlives, objects, Control
<1> QED
  BY <1>1, <1>9, <1>11, SparesObjects DEF LifeInv, ObjectTypes, objects

-----------------------------------------------------------------------------
(***************************************************************************)
(* Allocation and the loader.                                              *)
(***************************************************************************)
LEMMA AllocStatementStep ==
  ASSUME LifeInv, NEW s \in Statements, AllocStatement(s) PROVE LifeInv'
<1>1. /\ statements[s] = "unborn" /\ connection = "live" /\ mutex = None
      /\ statements' = [statements EXCEPT ![s] = "live"]
      /\ UNCHANGED <<connection, isAsync, command, reader, loader, undefined, mutex, lock, job, at, calls>>
  BY DEF AllocStatement
<1>2. \A r \in Statements : Unused(r)' = Unused(r)
  BY <1>1 DEF Unused, Uses
<1>3. \A r \in Statements : statements'[r] = IF r = s THEN "live" ELSE statements[r]
  BY <1>1 DEF LifeInv, ObjectTypes
<1>4. Control' /\ ObjectTypes'
  BY <1>1 DEF LifeInv, Control, ObjectTypes, Fits, Locked, Frees
<1>5. Freeing'
  BY <1>1, <1>3 DEF LifeInv, Freeing
<1>6. \A r \in Statements : Outlives(r)'
  BY <1>1, <1>2, <1>3 DEF LifeInv, Outlives
<1> QED
  BY <1>4, <1>5, <1>6 DEF LifeInv

LEMMA LoadStep == ASSUME LifeInv, NEW s \in Statements, Load(s) PROVE LifeInv'
<1>1. /\ loader[s] # "none" /\ undefined' \in {undefined, TRUE}
      /\ loader' = loader \/ \E l \in {"none", "request"} : loader' = [loader EXCEPT ![s] = l]
      /\ UNCHANGED <<connection, statements, isAsync, command, reader, mutex, lock, job, at, calls>>
  BY DEF Load, Request, Push
<1>2. \A r \in Statements : Unused(r)' = Unused(r)
  BY <1>1 DEF Unused, Uses
<1>3. \A r \in Statements : loader'[r] # "none" => loader[r] # "none"
  BY <1>1 DEF LifeInv, ObjectTypes
<1>4. Control'
  BY <1>1 DEF LifeInv, Control, Fits, Locked, Frees
<1>5. ObjectTypes'
  BY <1>1 DEF LifeInv, ObjectTypes
<1>6. Spares
  BY <1>1, <1>2, <1>3 DEF LifeInv, Outlives, Spares
<1> QED
  BY <1>4, <1>5, <1>6, SparesObjects DEF LifeInv

-----------------------------------------------------------------------------
(***************************************************************************)
(* Frees.                                                                  *)
(***************************************************************************)

\* A statement is used in the next state as it is in this one by an actor that is in no
\* statement before or after.
LEMMA FreeUses ==
  ASSUME NEW t \in Threads, job[t].fn \notin Statement, job'[t].fn \notin Statement,
         \A v \in Actors \ {t} : at'[v] = at[v] /\ job'[v] = job[v],
         NEW s \in Statements
  PROVE  Unused(s)' = Unused(s)
<1>1. \A v \in Actors : Uses(v, s)' = Uses(v, s)
  BY DEF Uses
<1> QED
  BY <1>1 DEF Unused

LEMMA FreeInvalidStep == ASSUME LifeInv, NEW t \in Threads, FreeInvalid(t) PROVE LifeInv'
<1>1. /\ at[t] = "called" /\ UNCHANGED <<objects, mutex, lock, calls>>
      /\ at' = [at EXCEPT ![t] = "idle"] /\ job' = [job EXCEPT ![t] = NoJob]
  BY DEF FreeInvalid, Return, Goes
<1>2. mutex # t
  BY <1>1, Kinds DEF LifeInv, Control, Frees
<1>3. Moves(t, "idle", NoJob)
  BY <1>1, FreeMoves, JobFacts DEF LifeInv, Places
<1>4. Control' /\ \A s \in Statements : Unused(s) => Unused(s)'
  BY <1>3, MoveControl, MoveUses, Kinds DEF LifeInv, Inside3
<1>5. Spares
  BY <1>1, <1>2, <1>4, Kinds DEF Spares, LifeInv, Outlives, objects, Control
<1> QED
  BY <1>1, <1>4, <1>5, SparesObjects DEF LifeInv, ObjectTypes, objects

\* A free takes the mutex and waits, or starts with the statements.
LEMMA TakeMutex ==
  ASSUME LifeInv, NEW t \in Threads, at[t] = "called", job[t].fn \in Free, mutex = None,
         mutex' = t, Goes(t, "waiting"), UNCHANGED <<lock, job>>
  PROVE  Control' /\ \A s \in Statements : Unused(s)' = Unused(s)
<1>1. lock # t /\ job[t] \in AnyJob /\ job[t].fn \notin Statement /\ job[t] # NoJob
  BY Kinds, JobFacts DEF LifeInv, Control, Locked
<1>2. Fits(t, "waiting", job[t])
  BY <1>1, Kinds DEF Fits, Places
<1>3. Moves(t, "waiting", job[t])
  BY <1>1, <1>2, Kinds, NotNone DEF Moves, LifeInv, Control, Locked, Frees, Goes
<1>4. \A v \in Actors \ {t} : at'[v] = at[v] /\ job'[v] = job[v]
  BY DEF Goes, LifeInv, Control
<1>5. \A s \in Statements : Unused(s)' = Unused(s)
  BY <1>1, <1>4, FreeUses
<1> QED
  BY <1>3, <1>5, MoveControl, Kinds DEF LifeInv

LEMMA FreeStatementStep == ASSUME LifeInv, NEW t \in Threads, FreeStatement(t) PROVE LifeInv'
<1> DEFINE s0 == job[t].stmt
<1>1. /\ at[t] = "called" /\ job[t].fn = "SQLFreeHandle STMT" /\ mutex = None /\ mutex' = t
      /\ statements[s0] = "live" /\ Unused(s0) /\ statements' = [statements EXCEPT ![s0] = "dying"]
      /\ Goes(t, "waiting") /\ UNCHANGED <<connection, isAsync, command, reader, loader, undefined, lock, job, calls>>
  BY DEF FreeStatement, Inside
<1>2. s0 \in Statements
  BY <1>1, JobFacts, Kinds DEF LifeInv, Control
<1>3. Control' /\ \A s \in Statements : Unused(s)' = Unused(s)
  BY <1>1, TakeMutex DEF Free
<1>4. \A s \in Statements : statements'[s] = IF s = s0 THEN "dying" ELSE statements[s]
  BY <1>1, <1>2 DEF LifeInv, ObjectTypes
<1>5. ObjectTypes'
  BY <1>1, <1>2 DEF LifeInv, ObjectTypes
<1>6. t # None
  BY NotNone, Kinds
<1>7. Freeing'
  BY <1>1, <1>2, <1>4, <1>6 DEF LifeInv, Freeing
<1>8. \A s \in Statements : Outlives(s)'
  BY <1>1, <1>3, <1>4 DEF LifeInv, Outlives
<1> QED
  BY <1>3, <1>5, <1>7, <1>8 DEF LifeInv

LEMMA FreeConnectionStep == ASSUME LifeInv, NEW t \in Threads, FreeConnection(t) PROVE LifeInv'
<1>1. /\ at[t] = "called" /\ job[t].fn = "SQLFreeHandle DBC" /\ mutex = None /\ mutex' = t
      /\ connection = "live" /\ \A s \in Statements : Unused(s)
      /\ Goes(t, "waiting")
      /\ UNCHANGED <<connection, statements, isAsync, command, reader, loader, undefined, lock, job, calls>>
  BY DEF FreeConnection, Inside, objects
<1>2. Control' /\ \A s \in Statements : Unused(s)' = Unused(s)
  BY <1>1, TakeMutex DEF Free
<1>3. ObjectTypes'
  BY <1>1 DEF LifeInv, ObjectTypes
<1>4. Freeing'
  BY <1>1, <1>2 DEF LifeInv, Freeing
<1>5. \A s \in Statements : Outlives(s)'
  BY <1>1, <1>2 DEF LifeInv, Outlives
<1> QED
  BY <1>2, <1>3, <1>4, <1>5 DEF LifeInv

\* The thread of a free that waits has the mutex.
LEMMA FreeHolds ==
  ASSUME Control, NEW t \in Threads
  PROVE  /\ at[t] = "waiting" /\ job[t].fn \in Free <=> mutex = t
         /\ mutex = t => lock # t /\ job[t].fn \notin Statement
  BY Kinds, JobFacts DEF Control, Frees, Locked

LEMMA FreeNextStatementStep ==
  ASSUME LifeInv, NEW t \in Threads, FreeNextStatement(t) PROVE LifeInv'
<1>1. /\ at[t] = "waiting" /\ job[t].fn = "SQLFreeHandle DBC"
      /\ UNCHANGED <<connection, isAsync, command, reader, loader, undefined, mutex, lock, job, at, calls>>
  BY DEF FreeNextStatement, Inside
<1>2. PICK s0 \in Statements :
        statements[s0] = "live" /\ statements' = [statements EXCEPT ![s0] = "dying"]
  BY DEF FreeNextStatement
<1>3. mutex = t /\ mutex # None
  BY <1>1, FreeHolds, NotNone, Kinds DEF LifeInv, Free
<1>4. \A s \in Statements : Unused(s) /\ Unused(s)'
  BY <1>1, <1>3 DEF LifeInv, Freeing, Unused, Uses
<1>5. \A s \in Statements : statements'[s] = IF s = s0 THEN "dying" ELSE statements[s]
  BY <1>2 DEF LifeInv, ObjectTypes
<1>6. Control' /\ ObjectTypes'
  BY <1>1, <1>2 DEF LifeInv, Control, ObjectTypes, Fits, Locked, Frees
<1>7. Freeing'
  BY <1>1, <1>2, <1>3, <1>4, <1>5 DEF LifeInv, Freeing
<1>8. \A s \in Statements : Outlives(s)'
  BY <1>1, <1>2, <1>4, <1>5 DEF LifeInv, Outlives
<1> QED
  BY <1>6, <1>7, <1>8 DEF LifeInv

\* A free lets the mutex go and returns.
LEMMA LetMutexGo ==
  ASSUME LifeInv, NEW t \in Threads, mutex = t, mutex' = None, Return(t), UNCHANGED lock
  PROVE  Control' /\ \A s \in Statements : Unused(s)' = Unused(s)
<1>1. at' = [at EXCEPT ![t] = "idle"] /\ job' = [job EXCEPT ![t] = NoJob]
  BY DEF Return, Goes
<1>2. lock # t /\ job[t].fn \notin Statement
  BY FreeHolds DEF LifeInv
<1>3. Fits(t, "idle", NoJob)
  BY JobFacts, Kinds DEF Fits, Places
<1>4. Moves(t, "idle", NoJob)
  BY <1>1, <1>2, <1>3, Kinds, NotNone DEF Moves, Locked, Frees
<1>5. /\ \A v \in Actors \ {t} : at'[v] = at[v] /\ job'[v] = job[v]
      /\ job'[t].fn \notin Statement
  BY <1>1, JobFacts, Kinds DEF LifeInv, Control
<1>6. \A s \in Statements : Unused(s)' = Unused(s)
  BY <1>2, <1>5, FreeUses
<1> QED
  BY <1>4, <1>6, MoveControl, Kinds DEF LifeInv

LEMMA DestroyStatementStep ==
  ASSUME LifeInv, NEW t \in Threads, NEW s0 \in Statements, DestroyStatement(t, s0) PROVE LifeInv'
<1>1. /\ mutex = t /\ statements[s0] = "dying" /\ loader[s0] = "none"
      /\ statements' = [statements EXCEPT ![s0] = "destroyed"]
      /\ reader' = [reader EXCEPT ![s0] = FALSE] /\ command' = [command EXCEPT ![s0] = FALSE]
      /\ UNCHANGED <<connection, isAsync, loader, undefined, lock, calls>>
  BY DEF DestroyStatement
<1>2. ObjectTypes'
  BY <1>1 DEF LifeInv, ObjectTypes
<1>3. \A s \in Statements : statements'[s] = IF s = s0 THEN "destroyed" ELSE statements[s]
  BY <1>1 DEF LifeInv, ObjectTypes
<1>4. Unused(s0)
  BY <1>1 DEF LifeInv, Outlives
<1>5. t # None
  BY NotNone, Kinds
<1>6. /\ Control' /\ \A s \in Statements : Unused(s)' = Unused(s)
      /\ Freeing'
  <2>1. CASE job[t].fn = "SQLFreeHandle STMT"
    <3>1. Return(t) /\ mutex' = None
      BY <2>1 DEF DestroyStatement
    <3>2. Control' /\ \A s \in Statements : Unused(s)' = Unused(s)
      BY <1>1, <3>1, LetMutexGo
    <3>3. ASSUME NEW s \in Statements PROVE statements'[s] # "dying"
      <4>1. statements[s] = "dying" => job[t].stmt = s
        BY <1>1, <2>1 DEF LifeInv, Freeing
      <4>2. job[t].stmt = s0
        BY <1>1, <2>1 DEF LifeInv, Freeing
      <4> QED
        BY <1>3, <4>1, <4>2
    <3>4. Freeing'
      BY <1>1, <1>3, <3>1, <3>3 DEF LifeInv, Freeing
    <3> QED
      BY <3>2, <3>4
  <2>2. CASE job[t].fn # "SQLFreeHandle STMT"
    <3>1. UNCHANGED <<job, at, mutex>>
      BY <2>2 DEF DestroyStatement
    <3>2. Control'
      BY <1>1, <3>1 DEF LifeInv, Control, Fits, Locked, Frees
    <3>3. \A s \in Statements : Unused(s)' = Unused(s)
      BY <3>1 DEF Unused, Uses
    <3>4. Freeing'
      BY <1>1, <1>3, <3>1, <3>3 DEF LifeInv, Freeing
    <3> QED
      BY <3>2, <3>3, <3>4
  <2> QED
    BY <2>1, <2>2
<1>7. ASSUME NEW s \in Statements PROVE Outlives(s)'
  <2>1. CASE s = s0
    BY <1>1, <1>4, <1>6, <2>1 DEF Outlives
  <2>2. CASE s # s0
    <3>1. reader'[s] = reader[s]
      BY <1>1, <2>2 DEF LifeInv, ObjectTypes
    <3> QED
      BY <1>1, <1>3, <1>6, <2>2, <3>1 DEF LifeInv, Outlives
  <2> QED
    BY <2>1, <2>2
<1> QED
  BY <1>2, <1>6, <1>7 DEF LifeInv

LEMMA DestroyConnectionStep ==
  ASSUME LifeInv, NEW t \in Threads, DestroyConnection(t) PROVE LifeInv'
<1>1. /\ at[t] = "waiting" /\ job[t].fn = "SQLFreeHandle DBC"
      /\ \A s \in Statements : statements[s] \notin {"live", "dying"}
      /\ connection' = "destroyed" /\ mutex' = None /\ Return(t)
      /\ UNCHANGED <<statements, isAsync, command, reader, loader, undefined, lock, calls>>
  BY DEF DestroyConnection, Inside
<1>2. mutex = t
  BY <1>1, FreeHolds DEF LifeInv, Free
<1>3. Control' /\ \A s \in Statements : Unused(s)' = Unused(s)
  BY <1>1, <1>2, LetMutexGo
<1>4. ObjectTypes'
  BY <1>1 DEF LifeInv, ObjectTypes
<1>5. Freeing'
  BY <1>1 DEF Freeing
<1>6. \A s \in Statements : Outlives(s)'
  BY <1>1, <1>3 DEF LifeInv, Outlives
<1> QED
  BY <1>3, <1>4, <1>5, <1>6 DEF LifeInv

-----------------------------------------------------------------------------
(***************************************************************************)
(* The invariant in every state.                                           *)
(***************************************************************************)
LEMMA LifeInit == Init => LifeInv
<1> SUFFICES ASSUME Init PROVE LifeInv
  OBVIOUS
<1>1. \A u \in Actors : at[u] = "idle" /\ job[u] = NoJob
  BY DEF Init
<1>2. \A s \in Statements : statements[s] = "unborn" /\ loader[s] = "none" /\ Unused(s)
  BY <1>1 DEF Init, Unused, Uses
<1>3. Control
  BY <1>1, JobFacts, Kinds, NotNone DEF Init, Control, Fits, Places, Locked, Frees
<1>4. ObjectTypes
  <2>1. command \in [Statements -> BOOLEAN] /\ reader \in [Statements -> BOOLEAN]
    BY DEF Init
  <2>2. calls \in 0..MaxCalls
    <3>1. calls = 0 /\ MaxCalls \in Nat
      BY LifecycleAssumption DEF Init
    <3> QED
      BY <3>1
  <2>3. /\ connection \in {"live", "destroyed"} /\ undefined \in BOOLEAN
        /\ isAsync \in [Statements -> BOOLEAN]
        /\ statements \in [Statements -> {"unborn", "live", "dying", "destroyed"}]
        /\ loader \in [Statements -> {"none", "queued", "request"}]
    BY DEF Init
  <2> QED
    BY <2>1, <2>2, <2>3 DEF ObjectTypes
<1>5. Freeing /\ \A s \in Statements : Outlives(s)
  BY <1>2 DEF Init, Freeing, Outlives
<1> QED
  BY <1>3, <1>4, <1>5 DEF LifeInv

LEMMA LifeStep == LifeInv /\ [Next]_vars => LifeInv'
<1> SUFFICES ASSUME LifeInv, [Next]_vars PROVE LifeInv'
  OBVIOUS
<1>1. CASE UNCHANGED vars
  <2>1. Control' /\ ObjectTypes'
    BY <1>1 DEF vars, objects, LifeInv, Control, ObjectTypes, Fits, Locked, Frees
  <2>2. \A s \in Statements : Unused(s)' = Unused(s)
    BY <1>1 DEF vars, Unused, Uses
  <2>3. Freeing' /\ \A s \in Statements : Outlives(s)'
    BY <1>1, <2>2 DEF vars, objects, LifeInv, Freeing, Outlives
  <2> QED
    BY <2>1, <2>3 DEF LifeInv
<1>2. ASSUME NEW u \in Actors, Body(u) PROVE LifeInv'
  BY <1>2, ExecDirectStep, FetchRowStep, FetchFrameStep, FetchWaitedStep, FreeStmtStep,
     FreeStmtWaitedStep DEF Body
<1>3. ASSUME NEW t \in Threads, FreeHandle(t) PROVE LifeInv'
  BY <1>3, FreeInvalidStep, FreeStatementStep, FreeConnectionStep, FreeNextStatementStep,
     DestroyConnectionStep, DestroyStatementStep DEF FreeHandle
<1>4. ASSUME NEW u \in Actors, Continue(u) PROVE LifeInv'
  BY <1>2, <1>3, <1>4, LockStep, GetStatementStep, PollTaskStep DEF Continue
<1> QED
  BY <1>1, <1>4, CallStep, AllocStatementStep, LoadStep DEF Next

LEMMA LifeAlways == Spec => []LifeInv
  BY LifeInit, LifeStep, PTL DEF Spec

-----------------------------------------------------------------------------
(***************************************************************************)
(* The commands.  A reader has its command, but while SQL_CLOSE waits for  *)
(* its prefetch; and that takes the lock of the connection, so that no     *)
(* other function of the statement meets a reader without one.             *)
(***************************************************************************)
Closing(s) == \E u \in Actors : Closes(u, s)

CommandInv ==
  /\ \A s \in Statements : reader[s] => command[s] \/ Closing(s)
  /\ undefined => \E s \in Statements : loader[s] = "queued" /\ Closing(s)

LEMMA InvImpliesKeeps == LifeInv /\ CommandInv => PrefetchKeepsItsObjects
  BY DEF LifeInv, Outlives, CommandInv, Closing, PrefetchKeepsItsObjects

LEMMA CloserLocks ==
  ASSUME Control, NEW u \in Actors, NEW s \in Statements, Closes(u, s)
  PROVE  lock = u /\ at[u] = "waiting" /\ job[u].fn = "SQLFreeStmt"
  BY DEF Control, Closes, Inside, Locked, Statement

\* Only who closes moves on from closing, and with the lock in somebody's hand nobody else
\* closes.
ClosersStay == \A u \in Actors, s \in Statements : Closes(u, s) => Closes(u, s)'

LEMMA CommandsKept ==
  ASSUME CommandInv, ClosersStay, ~undefined, UNCHANGED <<command, undefined>>,
         \A s \in Statements : reader'[s] => reader[s]
  PROVE  CommandInv'
<1>1. ASSUME NEW s \in Statements, Closing(s) PROVE Closing(s)'
  BY <1>1 DEF Closing, ClosersStay
<1> QED
  BY <1>1 DEF CommandInv

LEMMA OneMoves ==
  ASSUME Control, NEW u \in Actors, ~(at[u] = "waiting" /\ job[u].fn = "SQLFreeStmt"),
         \A v \in Actors \ {u} : at'[v] = at[v] /\ job'[v] = job[v]
  PROVE  ClosersStay
<1> SUFFICES ASSUME NEW v \in Actors, NEW s \in Statements, Closes(v, s) PROVE Closes(v, s)'
  BY DEF ClosersStay
<1>1. v # u
  BY CloserLocks
<1> QED
  BY <1>1 DEF Closes, Inside

LEMMA LeaveMovesOne ==
  ASSUME Control, NEW u \in Actors, Leave(u)
  PROVE  \A v \in Actors \ {u} : at'[v] = at[v] /\ job'[v] = job[v]
  BY DEF Leave, Return, Goes, Control

LEMMA BodyCommands ==
  ASSUME LifeInv, CommandInv, ~undefined, NEW u \in Actors, Body(u)
  PROVE  CommandInv'
<1> DEFINE s0 == job[u].stmt
<1> USE DEF LifeInv
<1>1. CASE ExecDirect(u)
  <2>1. at[u] = "locked" /\ Locked(at[u], job[u]) /\ Leave(u) /\ UNCHANGED undefined
    BY <1>1 DEF ExecDirect, Inside, Locked, Statement
  <2>2. PICK opens \in BOOLEAN :
          /\ reader' = [reader EXCEPT ![s0] = @ \/ opens]
          /\ command' = [command EXCEPT ![s0] = TRUE]
    BY <1>1 DEF ExecDirect
  <2>3. ASSUME NEW s \in Statements, reader'[s] PROVE command'[s]
    <3>1. CASE s = s0
      BY <2>2, <3>1 DEF ObjectTypes
    <3>2. CASE s # s0
      <4>1. ~Closing(s)
        BY <2>1, CloserLocks DEF Closing, Control
      <4> QED
        BY <2>2, <2>3, <3>2, <4>1 DEF CommandInv, ObjectTypes
    <3> QED
      BY <3>1, <3>2
  <2> QED
    BY <2>1, <2>3 DEF CommandInv
<1>2. CASE FetchRow(u) \/ FetchWaited(u)
  <2>1. /\ Leave(u) /\ job[u].fn = "SQLFetch" /\ UNCHANGED objects
    BY <1>2 DEF FetchRow, FetchWaited, Inside
  <2>2. ClosersStay
    BY <2>1, LeaveMovesOne, OneMoves
  <2> QED
    BY <2>1, <2>2, CommandsKept DEF objects
<1>3. CASE FetchFrame(u)
  <2>1. /\ job[u].fn = "SQLFetch" /\ UNCHANGED <<command, reader, undefined>>
        /\ Leave(u) \/ (Goes(u, "waiting") /\ UNCHANGED job)
    BY <1>3 DEF FetchFrame, Inside
  <2>2. \A v \in Actors \ {u} : at'[v] = at[v] /\ job'[v] = job[v]
    BY <2>1, LeaveMovesOne DEF Goes, Control
  <2>3. ClosersStay
    BY <2>1, <2>2, OneMoves
  <2> QED
    BY <2>1, <2>3, CommandsKept
<1>4. CASE FreeStmt(u)
  <2>1. /\ at[u] = "locked" /\ job[u].fn = "SQLFreeStmt" /\ Locked(at[u], job[u])
        /\ command' = [command EXCEPT ![s0] = FALSE] /\ Goes(u, "waiting")
        /\ UNCHANGED <<reader, undefined, job>>
    BY <1>4 DEF FreeStmt, Inside, Locked, Statement
  <2>2. ASSUME NEW s \in Statements, reader'[s] PROVE command'[s] \/ Closing(s)'
    <3>1. CASE s = s0
      <4>1. at'[u] = "waiting" /\ job'[u] = job[u]
        BY <2>1 DEF Goes, Control
      <4>2. Closes(u, s)'
        BY <2>1, <3>1, <4>1 DEF Closes, Inside
      <4> QED
        BY <4>2 DEF Closing
    <3>2. CASE s # s0
      <4>1. ~Closing(s)
        BY <2>1, CloserLocks DEF Closing, Control
      <4> QED
        BY <2>1, <2>2, <3>2, <4>1 DEF CommandInv, ObjectTypes
    <3> QED
      BY <3>1, <3>2
  <2> QED
    BY <2>1, <2>2 DEF CommandInv
<1>5. CASE FreeStmtWaited(u)
  <2>1. /\ Locked(at[u], job[u]) /\ reader' = [reader EXCEPT ![s0] = FALSE]
        /\ UNCHANGED <<command, undefined>>
    BY <1>5 DEF FreeStmtWaited, Inside, Locked, Statement
  <2>2. ASSUME NEW s \in Statements, reader'[s] PROVE command'[s]
    <3>1. s # s0 /\ reader[s]
      BY <2>1, <2>2 DEF ObjectTypes
    <3>2. ~Closing(s)
      BY <2>1, <3>1, CloserLocks DEF Closing, Control, Closes
    <3> QED
      BY <2>1, <3>1, <3>2 DEF CommandInv
  <2> QED
    BY <2>1, <2>2 DEF CommandInv
<1> QED
  BY <1>1, <1>2, <1>3, <1>4, <1>5 DEF Body

LEMMA CallCommands ==
  ASSUME LifeInv, CommandInv, ~undefined, NEW t \in Threads,
         Call(t) \/ GetStatement(t) \/ PollTask(t)
  PROVE  CommandInv'
<1> USE DEF LifeInv
<1>1. UNCHANGED objects
  BY DEF Call, GetStatement, PollTask
<1>2. ClosersStay
  <2>1. CASE Call(t) \/ GetStatement(t)
    <3>1. at[t] # "waiting" /\ \A v \in Actors \ {t} : at'[v] = at[v] /\ job'[v] = job[v]
      BY <2>1 DEF Call, GetStatement, Goes, Return, Control
    <3> QED
      BY <3>1, OneMoves, Kinds
  <2>2. CASE PollTask(t)
    <3> DEFINE s0 == job[t].stmt
    <3>1. at[t] = "locked" /\ job[t].fn \in {"SQLExecDirect", "SQLFetch"}
      BY <2>2 DEF PollTask
    <3>2. PICK p, j :
            /\ at' = [at EXCEPT ![t] = "idle", ![s0] = p]
            /\ job' = [job EXCEPT ![t] = NoJob, ![s0] = j]
            /\ at[s0] \in {"idle", "done"} \/ (p = at[s0] /\ j = job[s0])
      BY <2>2 DEF PollTask
    <3>3. s0 \in Statements /\ s0 # t
      <4>1. Locked(at[t], job[t])
        BY <3>1 DEF Locked, Statement
      <4> QED
        BY <4>1, BodyUses, Kinds
    <3>4. \A v \in Actors \ {t, s0} : at'[v] = at[v] /\ job'[v] = job[v]
      BY <3>2 DEF Control
    <3>5. at[s0] \in {"idle", "done"} \/ (at'[s0] = at[s0] /\ job'[s0] = job[s0])
      BY <3>2, <3>3, Kinds DEF Control
    <3> SUFFICES ASSUME NEW v \in Actors, NEW s \in Statements, Closes(v, s) PROVE Closes(v, s)'
      BY DEF ClosersStay
    <3>6. v # t /\ at[v] = "waiting"
      BY <3>1, CloserLocks
    <3>7. at'[v] = at[v] /\ job'[v] = job[v]
      BY <3>4, <3>5, <3>6
    <3> QED
      BY <3>7 DEF Closes, Inside
  <2> QED
    BY <2>1, <2>2
<1> QED
  BY <1>1, <1>2, CommandsKept DEF objects

LEMMA LockCommands ==
  ASSUME LifeInv, CommandInv, ~undefined, NEW u \in Actors, Lock(u)
  PROVE  CommandInv'
<1>1. UNCHANGED objects /\ at[u] = "found" /\ \A v \in Actors \ {u} : at'[v] = at[v] /\ job'[v] = job[v]
  BY DEF Lock, Goes, LifeInv, Control
<1>2. ClosersStay
  BY <1>1, OneMoves DEF LifeInv
<1> QED
  BY <1>1, <1>2, CommandsKept DEF objects

LEMMA FreeCommands ==
  ASSUME LifeInv, CommandInv, ~undefined, NEW t \in Threads, FreeHandle(t)
  PROVE  CommandInv'
<1> USE DEF LifeInv
<1>1. ASSUME NEW s0 \in Statements, DestroyStatement(t, s0) PROVE CommandInv'
  <2>1. /\ mutex = t /\ reader' = [reader EXCEPT ![s0] = FALSE]
        /\ command' = [command EXCEPT ![s0] = FALSE] /\ UNCHANGED undefined
        /\ Return(t) \/ UNCHANGED <<job, at>>
    BY <1>1 DEF DestroyStatement
  <2>2. job[t].fn # "SQLFreeStmt" /\ \A v \in Actors \ {t} : at'[v] = at[v] /\ job'[v] = job[v]
    BY <2>1, FreeHolds DEF Return, Goes, Control, Statement
  <2>3. ClosersStay
    BY <2>2, OneMoves, Kinds
  <2>4. ASSUME NEW s \in Statements, reader'[s] PROVE command'[s] \/ Closing(s)'
    <3>1. s # s0 /\ reader[s] /\ command'[s] = command[s]
      BY <2>1, <2>4 DEF ObjectTypes
    <3>2. Closing(s) => Closing(s)'
      BY <2>3 DEF Closing, ClosersStay
    <3> QED
      BY <3>1, <3>2 DEF CommandInv
  <2> QED
    BY <2>1, <2>4 DEF CommandInv
<1>2. CASE FreeInvalid(t) \/ FreeStatement(t) \/ FreeConnection(t) \/ FreeNextStatement(t)
           \/ DestroyConnection(t)
  <2>1. UNCHANGED <<command, reader, undefined>>
    BY <1>2 DEF FreeInvalid, FreeStatement, FreeConnection, FreeNextStatement, DestroyConnection, objects
  <2>2. /\ job[t].fn # "SQLFreeStmt"
        /\ \A v \in Actors \ {t} : at'[v] = at[v] /\ job'[v] = job[v]
    BY <1>2 DEF FreeInvalid, FreeStatement, FreeConnection, FreeNextStatement, DestroyConnection,
       Inside, Free, Goes, Return, Control
  <2>3. ClosersStay
    BY <2>2, OneMoves, Kinds
  <2> QED
    BY <2>1, <2>3, CommandsKept
<1> QED
  BY <1>1, <1>2 DEF FreeHandle

\* The one step that may use what is gone: a prefetch begins while SQL_CLOSE waits for it.
LEMMA LoadCommands ==
  ASSUME LifeInv, CommandInv, ~undefined, NEW s \in Statements, Load(s)
  PROVE  CommandInv'
<1>1. UNCHANGED <<command, reader, job, at>> /\ \A r \in Statements : Closing(r)' = Closing(r)
  <2>1. UNCHANGED <<command, reader, job, at>>
    BY DEF Load, Request, Push
  <2> QED
    BY <2>1 DEF Closing, Closes, Inside
<1>2. undefined' => loader'[s] = "queued" /\ ~command[s]
  BY DEF Load, Request, Push
<1>3. loader[s] # "none" /\ reader[s]
  BY DEF Load, Request, Push, LifeInv, Outlives
<1> QED
  BY <1>1, <1>2, <1>3 DEF CommandInv

LEMMA CommandStep == LifeInv /\ CommandInv /\ [Next]_vars => CommandInv'
<1> SUFFICES ASSUME LifeInv, CommandInv, [Next]_vars PROVE CommandInv'
  OBVIOUS
<1>1. CASE UNCHANGED vars
  BY <1>1 DEF vars, objects, CommandInv, Closing, Closes, Inside
<1>2. ASSUME NEW u \in Actors, Continue(u) PROVE CommandInv'
  BY <1>2, BodyCommands, CallCommands, LockCommands, FreeCommands DEF Continue
<1>3. ASSUME ~undefined, NEW s \in Statements, AllocStatement(s) PROVE CommandInv'
  <2>1. UNCHANGED <<command, reader, undefined, job, at>>
    BY <1>3 DEF AllocStatement
  <2> QED
    BY <1>3, <2>1 DEF CommandInv, Closing, Closes, Inside
<1>4. ASSUME NEW s \in Statements, Load(s) PROVE CommandInv'
  BY <1>4, LoadCommands DEF Load
<1> QED
  BY <1>1, <1>2, <1>3, <1>4, CallCommands DEF Next

-----------------------------------------------------------------------------
(***************************************************************************)
(* The theorems.                                                           *)
(***************************************************************************)
\* Every variable keeps its type, and who holds the lock is in a body, who holds the mutex
\* in a free.
THEOREM TypeCorrect == Spec => []TypeOK
  BY LifeAlways, InvImpliesTypes, PTL

\* However calls, tasks, prefetches and frees interleave: a prefetch has its reader, its
\* statement and its connection until it ends, and the command of the statement unless
\* SQL_CLOSE is waiting for it.
THEOREM PrefetchCorrect == Spec => []PrefetchKeepsItsObjects
<1>1. Init => CommandInv
  BY DEF Init, CommandInv
<1>2. LifeInv /\ CommandInv /\ [Next]_vars => CommandInv'
  BY CommandStep
<1>3. LifeInv /\ CommandInv => PrefetchKeepsItsObjects
  BY InvImpliesKeeps
<1> QED
  BY <1>1, <1>2, <1>3, LifeAlways, PTL DEF Spec

\* The lock of the connection admits one user of a reader at a time, and none once a free
\* has begun.
THEOREM ExclusiveCorrect == Spec => []ReaderExclusive
<1>1. ASSUME LifeInv PROVE ReaderExclusive
  <2> SUFFICES ASSUME NEW s \in Statements
               PROVE  LET users == {u \in Actors : Uses(u, s) /\ at[u] \in {"locked", "waiting"}}
                      IN  Cardinality(users) <= IF statements[s] = "live" THEN 1 ELSE 0
    BY DEF ReaderExclusive
  <2> DEFINE users == {u \in Actors : Uses(u, s) /\ at[u] \in {"locked", "waiting"}}
  <2>1. users \subseteq {lock}
    BY <1>1 DEF LifeInv, Control, Uses, Locked
  <2>2. CASE statements[s] = "live"
    <3>1. IsFiniteSet({lock}) /\ Cardinality({lock}) = 1
      BY FS_Singleton
    <3> QED
      BY <2>1, <2>2, <3>1, FS_Subset
  <2>3. CASE statements[s] # "live"
    <3>1. users = {}
      BY <1>1, <2>3 DEF LifeInv, Outlives, Unused
    <3> QED
      BY <2>3, <3>1, FS_EmptySet
  <2> QED
    BY <2>2, <2>3
<1> QED
  BY <1>1, LifeAlways, PTL
=============================================================================
