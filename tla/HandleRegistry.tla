--------------------------- MODULE HandleRegistry ---------------------------
(***************************************************************************)
(* The Driver object: the registry of every ODBC handle the driver has     *)
(* given out, as SQLAllocHandle and SQLFreeHandle see it.                  *)
(*                                                                         *)
(* Threads call in concurrently.  A free runs under the registry's mutex   *)
(* from beginning to end and is one step.  An allocation takes its handle  *)
(* from an atomic counter first and the mutex later, so it is two steps,   *)
(* and the parent it was called with may go away in between.               *)
(*                                                                         *)
(* A map is a function from the live handles to the parent of the object   *)
(* (the raw pointer the object keeps); environments is a set, as they have *)
(* no parent.  A call that ends in SQL_INVALID_HANDLE or SQL_ERROR leaves  *)
(* the maps alone, and only a failed allocation leaves a trace: a handle   *)
(* is used up.                                                             *)
(***************************************************************************)
EXTENDS Naturals

CONSTANTS
  Threads,        \* the calling threads
  FirstHandle,    \* initial value of lastHandleIndex, 100 in the code
  LastHandle      \* bound on the handles a run may use

ASSUME RegistryAssumption ==
  /\ FirstHandle \in Nat \ {0}
  /\ LastHandle \in Nat

VARIABLES
  lastHandleIndex,    \* the next handle, an atomic counter
  environments,       \* live environments
  connections,        \* live connection -> its environment
  statements,         \* live statement -> its connection
  descriptors,        \* live descriptor -> its connection
  connectionInfos,    \* live connection info -> its environment or SQL_NULL_HANDLE
  pending,            \* thread -> the allocation it is in the middle of
  freed               \* history: the handles of destroyed objects

maps == <<environments, connections, statements, descriptors, connectionInfos>>
vars == <<lastHandleIndex, maps, pending, freed>>

-----------------------------------------------------------------------------
SQL_NULL_HANDLE == 0

Kinds == {"ENV", "DBC", "STMT", "DESC", "DBC_INFO_TOKEN"}

NoCall == [kind |-> "none", parent |-> SQL_NULL_HANDLE, handle |-> SQL_NULL_HANDLE]
Calls == [kind : Kinds, parent : Nat, handle : Nat]

\* std::map::emplace keeps the old entry of a key that is there.
Emplace(map, handle, parent) ==
  [h \in DOMAIN map \cup {handle} |-> IF h \in DOMAIN map THEN map[h] ELSE parent]

\* std::map::erase
Erase(map, handles) == [h \in DOMAIN map \ handles |-> map[h]]

\* The entries of a map whose parent is in a set.
ChildrenOf(map, parents) == {h \in DOMAIN map : map[h] \in parents}

Empty == [h \in {} |-> SQL_NULL_HANDLE]

Init ==
  /\ lastHandleIndex = FirstHandle
  /\ environments = {}
  /\ connections = Empty
  /\ statements = Empty
  /\ descriptors = Empty
  /\ connectionInfos = Empty
  /\ pending = [t \in Threads |-> NoCall]
  /\ freed = {}

-----------------------------------------------------------------------------
(***************************************************************************)
(* SQLAllocHandle.                                                         *)
(***************************************************************************)

\* The handle types that need an input handle, those that must not have one, and the
\* connection info, which may have either.
InputAllowed(kind, input) ==
  /\ kind = "ENV" => input = SQL_NULL_HANDLE
  /\ kind \in {"DBC", "STMT", "DESC"} => input # SQL_NULL_HANDLE

\* Mutant of GenerateHandle: the counter is read here and written back by EndAlloc.
GenerateHandleNonAtomic(t, kind, input) ==
  /\ pending[t] = NoCall
  /\ lastHandleIndex < LastHandle
  /\ InputAllowed(kind, input)
  /\ pending' = [pending EXCEPT ![t] =
                   [kind |-> kind, parent |-> input, handle |-> lastHandleIndex]]
  /\ lastHandleIndex' \in {lastHandleIndex, lastHandleIndex + 1}
  /\ UNCHANGED <<maps, freed>>

\* generateNewHandle, before the mutex is taken and the input handle is looked up.
GenerateHandle(t, kind, input) ==
  /\ pending[t] = NoCall
  /\ lastHandleIndex < LastHandle
  /\ InputAllowed(kind, input)
  /\ pending' = [pending EXCEPT ![t] =
                   [kind |-> kind, parent |-> input, handle |-> lastHandleIndex]]
  /\ lastHandleIndex' = lastHandleIndex + 1
  /\ UNCHANGED <<maps, freed>>

\* Mutant of Returns: the thread keeps the handle.
ReturnsKeepsHandle(t) ==
  /\ pending' = [pending EXCEPT ![t].kind = "none", ![t].parent = SQL_NULL_HANDLE]
  /\ UNCHANGED <<lastHandleIndex, freed>>

\* The rest of the call returns, with or without a new object.
Returns(t) ==
  /\ pending' = [pending EXCEPT ![t] = NoCall]
  /\ UNCHANGED <<lastHandleIndex, freed>>

AllocEnvironment(t) ==
  /\ pending[t].kind = "ENV"
  /\ environments' = environments \cup {pending[t].handle}
  /\ UNCHANGED <<connections, statements, descriptors, connectionInfos>>
  /\ Returns(t)

AllocConnection(t) ==
  /\ pending[t].kind = "DBC"
  /\ pending[t].parent \in environments
  /\ connections' = Emplace(connections, pending[t].handle, pending[t].parent)
  /\ UNCHANGED <<environments, statements, descriptors, connectionInfos>>
  /\ Returns(t)

\* Mutant of AllocStatement: the connection is not looked up again under the mutex.
AllocStatementUnchecked(t) ==
  /\ pending[t].kind = "STMT"
  /\ statements' = Emplace(statements, pending[t].handle, pending[t].parent)
  /\ UNCHANGED <<environments, connections, descriptors, connectionInfos>>
  /\ Returns(t)

AllocStatement(t) ==
  /\ pending[t].kind = "STMT"
  /\ pending[t].parent \in DOMAIN connections
  /\ statements' = Emplace(statements, pending[t].handle, pending[t].parent)
  /\ UNCHANGED <<environments, connections, descriptors, connectionInfos>>
  /\ Returns(t)

AllocDescriptor(t) ==
  /\ pending[t].kind = "DESC"
  /\ pending[t].parent \in DOMAIN connections
  /\ descriptors' = Emplace(descriptors, pending[t].handle, pending[t].parent)
  /\ UNCHANGED <<environments, connections, statements, connectionInfos>>
  /\ Returns(t)

AllocConnectionInfo(t) ==
  /\ pending[t].kind = "DBC_INFO_TOKEN"
  /\ pending[t].parent \in environments \cup {SQL_NULL_HANDLE}
  /\ connectionInfos' = Emplace(connectionInfos, pending[t].handle, pending[t].parent)
  /\ UNCHANGED <<environments, connections, statements, descriptors>>
  /\ Returns(t)

\* findEnvironment or findConnection throws: SQL_INVALID_HANDLE.
AllocFails(t) ==
  /\ \/ /\ pending[t].kind = "DBC"
        /\ pending[t].parent \notin environments
     \/ /\ pending[t].kind = "DBC_INFO_TOKEN"
        /\ pending[t].parent \notin environments \cup {SQL_NULL_HANDLE}
     \/ /\ pending[t].kind \in {"STMT", "DESC"}
        /\ pending[t].parent \notin DOMAIN connections
  /\ UNCHANGED maps
  /\ Returns(t)

EndAlloc(t) ==
  \/ AllocEnvironment(t)
  \/ AllocConnection(t)
  \/ AllocStatement(t)
  \/ AllocDescriptor(t)
  \/ AllocConnectionInfo(t)
  \/ AllocFails(t)

-----------------------------------------------------------------------------
(***************************************************************************)
(* SQLFreeHandle.                                                          *)
(***************************************************************************)

\* Mutant of FreeConnections: the connection of a statement is not compared.
FreeConnectionsAllStatements(gone, owner) ==
  /\ connections' = Erase(connections, gone)
  /\ statements' = IF gone = {} THEN statements ELSE Empty
  /\ descriptors' = Erase(descriptors, ChildrenOf(descriptors, gone))
  /\ freed' = freed \cup owner \cup gone \cup (DOMAIN statements \ DOMAIN statements')
                   \cup ChildrenOf(descriptors, gone)

\* Connections are destroyed with their descriptors and their statements; owner is the
\* environment that is destroyed with them, if any.
FreeConnections(gone, owner) ==
  /\ connections' = Erase(connections, gone)
  /\ statements' = Erase(statements, ChildrenOf(statements, gone))
  /\ descriptors' = Erase(descriptors, ChildrenOf(descriptors, gone))
  /\ freed' = freed \cup owner \cup gone \cup ChildrenOf(statements, gone)
                   \cup ChildrenOf(descriptors, gone)

\* The connection infos of the environment stay and keep the pointer to it.
FreeEnvironment(env) ==
  /\ env \in environments
  /\ environments' = environments \ {env}
  /\ FreeConnections(ChildrenOf(connections, {env}), {env})
  /\ UNCHANGED <<lastHandleIndex, connectionInfos, pending>>

FreeConnection(dbc) ==
  /\ dbc \in DOMAIN connections
  /\ FreeConnections({dbc}, {})
  /\ UNCHANGED <<lastHandleIndex, environments, connectionInfos, pending>>

FreeStatement(stmt) ==
  /\ stmt \in DOMAIN statements
  /\ statements' = Erase(statements, {stmt})
  /\ freed' = freed \cup {stmt}
  /\ UNCHANGED <<lastHandleIndex, environments, connections, descriptors,
                 connectionInfos, pending>>

FreeDescriptor(desc) ==
  /\ desc \in DOMAIN descriptors
  /\ descriptors' = Erase(descriptors, {desc})
  /\ freed' = freed \cup {desc}
  /\ UNCHANGED <<lastHandleIndex, environments, connections, statements,
                 connectionInfos, pending>>

FreeConnectionInfo(info) ==
  /\ info \in DOMAIN connectionInfos
  /\ connectionInfos' = Erase(connectionInfos, {info})
  /\ freed' = freed \cup {info}
  /\ UNCHANGED <<lastHandleIndex, environments, connections, statements,
                 descriptors, pending>>

\* No map has the handle: SQL_INVALID_HANDLE.
FreeFails(handle) ==
  /\ handle \notin environments
  /\ handle \notin DOMAIN connections
  /\ handle \notin DOMAIN statements
  /\ handle \notin DOMAIN descriptors
  /\ handle \notin DOMAIN connectionInfos
  /\ UNCHANGED vars

\* Any handle may be passed: one that is live, was freed, or was never given out.
Free(handle) ==
  \/ FreeFails(handle)
  \/ FreeEnvironment(handle)
  \/ FreeConnection(handle)
  \/ FreeStatement(handle)
  \/ FreeDescriptor(handle)
  \/ FreeConnectionInfo(handle)

Handles == FirstHandle..LastHandle

Next ==
  \/ \E t \in Threads, kind \in Kinds, input \in Handles \cup {SQL_NULL_HANDLE} :
       GenerateHandle(t, kind, input)
  \/ \E t \in Threads : EndAlloc(t)
  \/ \E handle \in Handles : Free(handle)

Spec == Init /\ [][Next]_vars

-----------------------------------------------------------------------------
(***************************************************************************)
(* Properties.                                                             *)
(***************************************************************************)

TypeOK ==
  /\ lastHandleIndex \in Nat
  /\ environments \subseteq Nat
  /\ connections \in [DOMAIN connections -> Nat] /\ DOMAIN connections \subseteq Nat
  /\ statements \in [DOMAIN statements -> Nat] /\ DOMAIN statements \subseteq Nat
  /\ descriptors \in [DOMAIN descriptors -> Nat] /\ DOMAIN descriptors \subseteq Nat
  /\ connectionInfos \in [DOMAIN connectionInfos -> Nat] /\ DOMAIN connectionInfos \subseteq Nat
  /\ pending \in [Threads -> Calls \cup {NoCall}]
  /\ freed \subseteq Nat

\* The raw parent pointers are good: a live statement or descriptor has a live
\* connection and a live connection a live environment, although a parent may be freed
\* between the two steps of an allocation.
NoOrphans ==
  /\ \A dbc \in DOMAIN connections : connections[dbc] \in environments
  /\ \A stmt \in DOMAIN statements : statements[stmt] \in DOMAIN connections
  /\ \A desc \in DOMAIN descriptors : descriptors[desc] \in DOMAIN connections

\* The handles of the live objects, by kind.
Live(kind) ==
  CASE kind = "ENV" -> environments
    [] kind = "DBC" -> DOMAIN connections
    [] kind = "STMT" -> DOMAIN statements
    [] kind = "DESC" -> DOMAIN descriptors
    [] kind = "DBC_INFO_TOKEN" -> DOMAIN connectionInfos

\* The handles that allocations in progress are about to register.
InFlight == {pending[t].handle : t \in {u \in Threads : pending[u] # NoCall}}

\* A handle denotes one object at most: no handle is in two maps, none is registered
\* that a thread has yet to register, and no two threads hold the same new handle.
HandlesUnique ==
  /\ \A k1, k2 \in Kinds : k1 # k2 => Live(k1) \cap Live(k2) = {}
  /\ \A k \in Kinds : Live(k) \cap InFlight = {}
  /\ \A t, u \in Threads :
       pending[t] # NoCall /\ pending[u] # NoCall /\ t # u
         => pending[t].handle # pending[u].handle

\* A handle the application still holds after the object was destroyed never denotes a
\* newer object: every use of it is answered with SQL_INVALID_HANDLE.
NeverReused == \A k \in Kinds : Live(k) \cap freed = {}

\* A handle denotes one object, and after that object none, for ever.
HandleIdentity == HandlesUnique /\ NeverReused

\* Destroying an object takes what hangs on it and nothing else: a statement or a
\* descriptor that goes was freed by itself or went with its connection, and a
\* connection that goes was freed by itself or went with its environment.
Left(map) == DOMAIN map \ DOMAIN map'
SparesOthers ==
  /\ \A stmt \in Left(statements) :
       Left(statements) = {stmt} \/ statements[stmt] \in Left(connections)
  /\ \A desc \in Left(descriptors) :
       Left(descriptors) = {desc} \/ descriptors[desc] \in Left(connections)
  /\ \A dbc \in Left(connections) :
       Left(connections) = {dbc} \/ connections[dbc] \in environments \ environments'
FreeSparesOthers == [][SparesOthers]_vars
=============================================================================
