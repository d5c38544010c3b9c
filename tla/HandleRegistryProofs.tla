------------------------ MODULE HandleRegistryProofs ------------------------
(***************************************************************************)
(* For every set of threads and every bound on the handles: the registry's *)
(* maps keep their types, parent pointers are never dangling, a handle     *)
(* denotes at most one object and is never given out again.                *)
(*                                                                         *)
(* The invariants are not inductive: that a new handle is fresh follows    *)
(* from the counter being above every handle in the maps, in flight or     *)
(* freed, which is what Fresh adds.                                        *)
(***************************************************************************)
EXTENDS HandleRegistry, TLAPS

\* Everything known as a handle is below the counter, and what was freed is not in
\* flight.
Fresh ==
  /\ lastHandleIndex \in Nat \ {0}
  /\ \A k \in Kinds : \A h \in Live(k) : h < lastHandleIndex
  /\ \A h \in InFlight \cup freed : h < lastHandleIndex
  /\ freed \cap InFlight = {}

-----------------------------------------------------------------------------
\* Adding an entry to a map, or erasing entries, leaves a map of handles to parents.
LEMMA EmplaceType ==
  ASSUME NEW map, map \in [DOMAIN map -> Nat], DOMAIN map \subseteq Nat,
         NEW handle \in Nat, NEW parent \in Nat
  PROVE  /\ DOMAIN Emplace(map, handle, parent) = DOMAIN map \cup {handle}
         /\ DOMAIN Emplace(map, handle, parent) \subseteq Nat
         /\ Emplace(map, handle, parent) \in [DOMAIN Emplace(map, handle, parent) -> Nat]
         /\ \A h \in DOMAIN map : Emplace(map, handle, parent)[h] = map[h]
         /\ handle \notin DOMAIN map => Emplace(map, handle, parent)[handle] = parent
  BY DEF Emplace

LEMMA EraseType ==
  ASSUME NEW map, map \in [DOMAIN map -> Nat], DOMAIN map \subseteq Nat, NEW gone
  PROVE  /\ DOMAIN Erase(map, gone) = DOMAIN map \ gone
         /\ DOMAIN Erase(map, gone) \subseteq Nat
         /\ Erase(map, gone) \in [DOMAIN Erase(map, gone) -> Nat]
         /\ \A h \in DOMAIN map \ gone : Erase(map, gone)[h] = map[h]
  BY DEF Erase

\* The call of a thread that is not idle.
LEMMA PendingCall ==
  ASSUME TypeOK, NEW t \in Threads, pending[t].kind \in Kinds
  PROVE  /\ pending[t] \in Calls
         /\ pending[t] # NoCall
         /\ pending[t].handle \in Nat /\ pending[t].parent \in Nat
  BY DEF TypeOK, Calls, NoCall, Kinds

LEMMA ReturnsType ==
  ASSUME TypeOK, NEW t \in Threads, Returns(t)
  PROVE  /\ lastHandleIndex' \in Nat
         /\ pending' \in [Threads -> Calls \cup {NoCall}]
         /\ freed' \subseteq Nat
  BY DEF TypeOK, Returns

LEMMA TypeInit == Init => TypeOK
  BY RegistryAssumption DEF Init, TypeOK, Empty

LEMMA TypeStep == TypeOK /\ [Next]_vars => TypeOK'
<1> SUFFICES ASSUME TypeOK, [Next]_vars PROVE TypeOK'
  OBVIOUS
<1>1. ASSUME NEW t \in Threads, NEW kind \in Kinds,
             NEW input \in Handles \cup {SQL_NULL_HANDLE}, GenerateHandle(t, kind, input)
      PROVE  TypeOK'
  <2>1. input \in Nat
    BY RegistryAssumption DEF Handles, SQL_NULL_HANDLE
  <2>2. [kind |-> kind, parent |-> input, handle |-> lastHandleIndex] \in Calls
    BY <2>1 DEF TypeOK, Calls
  <2> QED
    BY <1>1, <2>2 DEF TypeOK, GenerateHandle, maps
<1>2. ASSUME NEW t \in Threads, AllocEnvironment(t) PROVE TypeOK'
  BY <1>2, PendingCall, ReturnsType DEF AllocEnvironment, TypeOK, Kinds
<1>3. ASSUME NEW t \in Threads, AllocConnection(t) PROVE TypeOK'
  BY <1>3, PendingCall, ReturnsType, EmplaceType DEF AllocConnection, TypeOK, Kinds
<1>4. ASSUME NEW t \in Threads, AllocStatement(t) PROVE TypeOK'
  BY <1>4, PendingCall, ReturnsType, EmplaceType DEF AllocStatement, TypeOK, Kinds
<1>5. ASSUME NEW t \in Threads, AllocDescriptor(t) PROVE TypeOK'
  BY <1>5, PendingCall, ReturnsType, EmplaceType DEF AllocDescriptor, TypeOK, Kinds
<1>6. ASSUME NEW t \in Threads, AllocConnectionInfo(t) PROVE TypeOK'
  BY <1>6, PendingCall, ReturnsType, EmplaceType DEF AllocConnectionInfo, TypeOK, Kinds
<1>7. ASSUME NEW t \in Threads, AllocFails(t) PROVE TypeOK'
  BY <1>7, ReturnsType DEF AllocFails, TypeOK, maps
<1>8. ASSUME NEW gone, NEW owner \in SUBSET Nat, gone \subseteq DOMAIN connections,
             FreeConnections(gone, owner)
      PROVE  /\ connections' \in [DOMAIN connections' -> Nat] /\ DOMAIN connections' \subseteq Nat
             /\ statements' \in [DOMAIN statements' -> Nat] /\ DOMAIN statements' \subseteq Nat
             /\ descriptors' \in [DOMAIN descriptors' -> Nat] /\ DOMAIN descriptors' \subseteq Nat
             /\ freed' \subseteq Nat
  BY <1>8, EraseType DEF FreeConnections, TypeOK, ChildrenOf
<1>9. ASSUME NEW handle, FreeEnvironment(handle) PROVE TypeOK'
  <2>1. ChildrenOf(connections, {handle}) \subseteq DOMAIN connections
    BY DEF ChildrenOf
  <2>2. {handle} \in SUBSET Nat
    BY <1>9 DEF FreeEnvironment, TypeOK
  <2> QED
    BY <1>8, <1>9, <2>1, <2>2 DEF FreeEnvironment, TypeOK
<1>10. ASSUME NEW handle, FreeConnection(handle) PROVE TypeOK'
  <2>1. {handle} \subseteq DOMAIN connections
    BY <1>10 DEF FreeConnection
  <2> QED
    BY <1>8, <1>10, <2>1 DEF FreeConnection, TypeOK
<1>11. ASSUME NEW handle, FreeStatement(handle) PROVE TypeOK'
  <2>1. handle \in Nat /\ freed' \subseteq Nat
    BY <1>11 DEF FreeStatement, TypeOK
  <2>2. statements' \in [DOMAIN statements' -> Nat] /\ DOMAIN statements' \subseteq Nat
    BY <1>11, EraseType DEF FreeStatement, TypeOK
  <2> QED
    BY <1>11, <2>1, <2>2 DEF FreeStatement, TypeOK
<1>12. ASSUME NEW handle, FreeDescriptor(handle) PROVE TypeOK'
  <2>1. handle \in Nat /\ freed' \subseteq Nat
    BY <1>12 DEF FreeDescriptor, TypeOK
  <2>2. descriptors' \in [DOMAIN descriptors' -> Nat] /\ DOMAIN descriptors' \subseteq Nat
    BY <1>12, EraseType DEF FreeDescriptor, TypeOK
  <2> QED
    BY <1>12, <2>1, <2>2 DEF FreeDescriptor, TypeOK
<1>13. ASSUME NEW handle, FreeConnectionInfo(handle) PROVE TypeOK'
  <2>1. handle \in Nat /\ freed' \subseteq Nat
    BY <1>13 DEF FreeConnectionInfo, TypeOK
  <2>2. connectionInfos' \in [DOMAIN connectionInfos' -> Nat] /\ DOMAIN connectionInfos' \subseteq Nat
    BY <1>13, EraseType DEF FreeConnectionInfo, TypeOK
  <2> QED
    BY <1>13, <2>1, <2>2 DEF FreeConnectionInfo, TypeOK
<1>14. ASSUME UNCHANGED vars PROVE TypeOK'
  BY <1>14 DEF TypeOK, vars, maps
<1> QED
  BY <1>1, <1>2, <1>3, <1>4, <1>5, <1>6, <1>7, <1>9, <1>10, <1>11, <1>12, <1>13, <1>14
  DEF Next, EndAlloc, Free, FreeFails

\* The registry's variables keep their types, whatever the threads call.
THEOREM TypeCorrect == Spec => []TypeOK
  BY TypeInit, TypeStep, PTL DEF Spec

-----------------------------------------------------------------------------
\* A step keeps every live object's parent alive: an allocation looks its parent up in
\* the step that registers the child, and a parent takes its children with it.
LEMMA OrphansStep == TypeOK /\ NoOrphans /\ [Next]_vars => NoOrphans'
<1> SUFFICES ASSUME TypeOK, NoOrphans, [Next]_vars PROVE NoOrphans'
  OBVIOUS
<1>1. ASSUME UNCHANGED maps PROVE NoOrphans'
  BY <1>1 DEF NoOrphans, maps
<1>2. ASSUME NEW t \in Threads, AllocEnvironment(t) PROVE NoOrphans'
  BY <1>2 DEF AllocEnvironment, NoOrphans
<1>3. ASSUME NEW t \in Threads, AllocConnection(t) PROVE NoOrphans'
  <2>1. /\ DOMAIN connections \subseteq DOMAIN connections'
        /\ \A dbc \in DOMAIN connections' : connections'[dbc] \in environments
    BY <1>3 DEF AllocConnection, NoOrphans, Emplace
  <2> QED
    BY <1>3, <2>1 DEF AllocConnection, NoOrphans
<1>4. ASSUME NEW t \in Threads, AllocStatement(t) PROVE NoOrphans'
  <2>1. \A stmt \in DOMAIN statements' : statements'[stmt] \in DOMAIN connections
    BY <1>4 DEF AllocStatement, NoOrphans, Emplace
  <2> QED
    BY <1>4, <2>1 DEF AllocStatement, NoOrphans
<1>5. ASSUME NEW t \in Threads, AllocDescriptor(t) PROVE NoOrphans'
  <2>1. \A desc \in DOMAIN descriptors' : descriptors'[desc] \in DOMAIN connections
    BY <1>5 DEF AllocDescriptor, NoOrphans, Emplace
  <2> QED
    BY <1>5, <2>1 DEF AllocDescriptor, NoOrphans
<1>6. ASSUME NEW t \in Threads, AllocConnectionInfo(t) PROVE NoOrphans'
  BY <1>6 DEF AllocConnectionInfo, NoOrphans
<1>7. ASSUME NEW gone, NEW owner, FreeConnections(gone, owner),
             \A dbc \in DOMAIN connections \ gone : connections[dbc] \in environments'
      PROVE  NoOrphans'
  <2>1. /\ DOMAIN connections' = DOMAIN connections \ gone
        /\ \A dbc \in DOMAIN connections' : connections'[dbc] = connections[dbc]
    BY <1>7 DEF FreeConnections, Erase
  <2>2. \A stmt \in DOMAIN statements' :
          /\ stmt \in DOMAIN statements \ ChildrenOf(statements, gone)
          /\ statements'[stmt] = statements[stmt]
    BY <1>7 DEF FreeConnections, Erase
  <2>3. \A desc \in DOMAIN descriptors' :
          /\ desc \in DOMAIN descriptors \ ChildrenOf(descriptors, gone)
          /\ descriptors'[desc] = descriptors[desc]
    BY <1>7 DEF FreeConnections, Erase
  <2> QED
    BY <1>7, <2>1, <2>2, <2>3 DEF NoOrphans, ChildrenOf
<1>8. ASSUME NEW handle, FreeEnvironment(handle) PROVE NoOrphans'
  <2>1. \A dbc \in DOMAIN connections \ ChildrenOf(connections, {handle}) :
          connections[dbc] \in environments'
    BY <1>8 DEF FreeEnvironment, NoOrphans, ChildrenOf
  <2> QED
    BY <1>7, <1>8, <2>1 DEF FreeEnvironment
<1>9. ASSUME NEW handle, FreeConnection(handle) PROVE NoOrphans'
  BY <1>7, <1>9 DEF FreeConnection, NoOrphans
<1>10. ASSUME NEW handle, FreeStatement(handle) PROVE NoOrphans'
  BY <1>10 DEF FreeStatement, NoOrphans, Erase
<1>11. ASSUME NEW handle, FreeDescriptor(handle) PROVE NoOrphans'
  BY <1>11 DEF FreeDescriptor, NoOrphans, Erase
<1>12. ASSUME NEW handle, FreeConnectionInfo(handle) PROVE NoOrphans'
  BY <1>12 DEF FreeConnectionInfo, NoOrphans
<1> QED
  BY <1>1, <1>2, <1>3, <1>4, <1>5, <1>6, <1>8, <1>9, <1>10, <1>11, <1>12
  DEF Next, GenerateHandle, EndAlloc, AllocFails, Free, FreeFails, vars, maps

\* No call sequence and no interleaving of allocations with frees leaves a statement, a
\* descriptor or a connection whose parent is gone: the raw pointers to the connection
\* and to the environment that these objects keep are never dangling.
THEOREM NoOrphansCorrect == Spec => []NoOrphans
<1>1. Init => NoOrphans
  BY DEF Init, NoOrphans, Empty
<1> QED
  BY <1>1, TypeInit, TypeStep, OrphansStep, PTL DEF Spec

-----------------------------------------------------------------------------
\* The inductive invariant behind the two properties of handles.
HandleInv == HandlesUnique /\ NeverReused /\ Fresh

\* What the end of an allocation does to the live handles, whatever its kind: at most
\* the thread's new handle appears, in the map of that kind.
LEMMA EndAllocLive ==
  ASSUME TypeOK, NEW t \in Threads, EndAlloc(t)
  PROVE  /\ pending[t] \in Calls /\ pending[t] # NoCall
         /\ pending' = [pending EXCEPT ![t] = NoCall]
         /\ lastHandleIndex' = lastHandleIndex /\ freed' = freed
         /\ \A k \in Kinds : Live(k)' \subseteq
              IF k = pending[t].kind THEN Live(k) \cup {pending[t].handle} ELSE Live(k)
<1>1. pending[t].kind \in Kinds /\ Returns(t)
  BY DEF EndAlloc, AllocEnvironment, AllocConnection, AllocStatement, AllocDescriptor,
         AllocConnectionInfo, AllocFails, Kinds
<1>2. /\ environments' \subseteq environments \cup
              (IF pending[t].kind = "ENV" THEN {pending[t].handle} ELSE {})
      /\ DOMAIN connections' \subseteq DOMAIN connections \cup
              (IF pending[t].kind = "DBC" THEN {pending[t].handle} ELSE {})
      /\ DOMAIN statements' \subseteq DOMAIN statements \cup
              (IF pending[t].kind = "STMT" THEN {pending[t].handle} ELSE {})
      /\ DOMAIN descriptors' \subseteq DOMAIN descriptors \cup
              (IF pending[t].kind = "DESC" THEN {pending[t].handle} ELSE {})
      /\ DOMAIN connectionInfos' \subseteq DOMAIN connectionInfos \cup
              (IF pending[t].kind = "DBC_INFO_TOKEN" THEN {pending[t].handle} ELSE {})
  BY DEF EndAlloc, AllocEnvironment, AllocConnection, AllocStatement, AllocDescriptor,
         AllocConnectionInfo, AllocFails, Emplace, maps
<1> QED
  BY <1>1, <1>2, PendingCall DEF Returns, Live, Kinds

\* What a free does to them: none appears, and those that go are recorded as freed.
LEMMA FreeLive ==
  ASSUME TypeOK, NEW handle, Free(handle)
  PROVE  /\ pending' = pending /\ lastHandleIndex' = lastHandleIndex
         /\ \A k \in Kinds : Live(k)' \subseteq Live(k)
         /\ \A h \in freed' : h \in freed \/ \E k \in Kinds : h \in Live(k) /\ h \notin Live(k)'
<1>1. /\ pending' = pending /\ lastHandleIndex' = lastHandleIndex
      /\ environments' \subseteq environments
      /\ DOMAIN connections' \subseteq DOMAIN connections
      /\ DOMAIN statements' \subseteq DOMAIN statements
      /\ DOMAIN descriptors' \subseteq DOMAIN descriptors
      /\ DOMAIN connectionInfos' \subseteq DOMAIN connectionInfos
  BY DEF Free, FreeFails, FreeEnvironment, FreeConnection, FreeStatement, FreeDescriptor,
         FreeConnectionInfo, FreeConnections, Erase, vars, maps
<1>2. ASSUME NEW h \in freed', h \notin freed
      PROVE  \/ h \in environments /\ h \notin environments'
             \/ h \in DOMAIN connections /\ h \notin DOMAIN connections'
             \/ h \in DOMAIN statements /\ h \notin DOMAIN statements'
             \/ h \in DOMAIN descriptors /\ h \notin DOMAIN descriptors'
             \/ h \in DOMAIN connectionInfos /\ h \notin DOMAIN connectionInfos'
  BY <1>2 DEF Free, FreeFails, FreeEnvironment, FreeConnection, FreeStatement, FreeDescriptor,
         FreeConnectionInfo, FreeConnections, ChildrenOf, Erase, vars, maps
<1>3. ASSUME NEW h \in freed', h \notin freed
      PROVE  \E k \in Kinds : h \in Live(k) /\ h \notin Live(k)'
  BY <1>2, <1>3 DEF Live, Kinds
<1> QED
  BY <1>1, <1>3 DEF Live, Kinds

LEMMA HandleInit == Init => HandleInv
  BY RegistryAssumption DEF Init, HandleInv, HandlesUnique, NeverReused, Fresh, Live, InFlight,
     Kinds, Empty

\* A new handle is the counter's value, above everything known.
LEMMA GenerateStep ==
  ASSUME TypeOK, HandleInv, NEW t \in Threads, NEW kind \in Kinds,
         NEW input \in Handles \cup {SQL_NULL_HANDLE}, GenerateHandle(t, kind, input)
  PROVE  HandleInv'
<1> DEFINE call == [kind |-> kind, parent |-> input, handle |-> lastHandleIndex]
<1>1. call # NoCall /\ call.handle = lastHandleIndex
  BY DEF NoCall, Kinds
<1>2. /\ pending' = [pending EXCEPT ![t] = call]
      /\ lastHandleIndex' = lastHandleIndex + 1
      /\ freed' = freed
      /\ UNCHANGED maps
  BY DEF GenerateHandle
<1>3. \A k \in Kinds : Live(k)' = Live(k)
  BY <1>2 DEF Live, maps
<1>4. pending \in [Threads -> Calls \cup {NoCall}] /\ lastHandleIndex \in Nat
  BY DEF TypeOK
<1>5. \A u \in Threads : pending[u] # NoCall => pending[u].handle < lastHandleIndex
  BY DEF HandleInv, Fresh, InFlight
<1>6. \A u \in Threads : pending'[u] = IF u = t THEN call ELSE pending[u]
  BY <1>2, <1>4
<1>7. InFlight' \subseteq InFlight \cup {lastHandleIndex}
  BY <1>1, <1>6 DEF InFlight
<1>8. HandlesUnique'
  <2>1. \A k \in Kinds : Live(k)' \cap InFlight' = {}
    BY <1>3, <1>4, <1>7 DEF HandleInv, HandlesUnique, Fresh
  <2>2. ASSUME NEW u \in Threads, NEW v \in Threads,
               pending'[u] # NoCall, pending'[v] # NoCall, u # v
        PROVE  pending'[u].handle # pending'[v].handle
    <3>1. CASE u = t
      BY <1>1, <1>4, <1>5, <1>6, <2>2, <3>1
    <3>2. CASE v = t
      BY <1>1, <1>4, <1>5, <1>6, <2>2, <3>2
    <3>3. CASE u # t /\ v # t
      BY <1>6, <2>2, <3>3 DEF HandleInv, HandlesUnique
    <3> QED
      BY <3>1, <3>2, <3>3
  <2> QED
    BY <1>3, <2>1, <2>2 DEF HandleInv, HandlesUnique
<1>9. NeverReused'
  BY <1>2, <1>3 DEF HandleInv, NeverReused
<1>10. Fresh'
  <2>1. \A h : h \in Nat /\ h < lastHandleIndex => h < lastHandleIndex + 1
    BY <1>4
  <2>2. freed \subseteq Nat
    BY DEF TypeOK
  <2>3. \A k \in Kinds : Live(k) \subseteq Nat
    BY DEF TypeOK, Live, Kinds
  <2>4. InFlight \subseteq Nat
    BY <1>4 DEF InFlight, Calls
  <2>5. \A k \in Kinds : \A h \in Live(k)' : h < lastHandleIndex'
    BY <1>2, <1>3, <2>1, <2>3 DEF HandleInv, Fresh
  <2>6. \A h \in InFlight' \cup freed' : h < lastHandleIndex'
    BY <1>2, <1>4, <1>7, <2>1, <2>2, <2>4 DEF HandleInv, Fresh
  <2>7. lastHandleIndex \notin freed
    BY <1>4 DEF HandleInv, Fresh
  <2> QED
    BY <1>2, <1>4, <1>7, <2>5, <2>6, <2>7 DEF HandleInv, Fresh
<1> QED
  BY <1>8, <1>9, <1>10 DEF HandleInv

\* The handle moves from the thread to the map: it was in no map and in no other thread.
LEMMA EndAllocStep ==
  ASSUME TypeOK, HandleInv, NEW t \in Threads, EndAlloc(t)
  PROVE  HandleInv'
<1> DEFINE new == pending[t].handle
<1>1. /\ pending[t] \in Calls /\ pending[t] # NoCall
      /\ pending' = [pending EXCEPT ![t] = NoCall]
      /\ lastHandleIndex' = lastHandleIndex /\ freed' = freed
      /\ \A k \in Kinds : Live(k)' \subseteq
           IF k = pending[t].kind THEN Live(k) \cup {new} ELSE Live(k)
  BY EndAllocLive
<1>2. pending \in [Threads -> Calls \cup {NoCall}]
  BY DEF TypeOK
<1>3. \A u \in Threads : pending'[u] = IF u = t THEN NoCall ELSE pending[u]
  BY <1>1, <1>2
<1>4. new \in InFlight /\ InFlight' \subseteq InFlight
  BY <1>1, <1>3 DEF InFlight
<1>5. new \notin InFlight'
  BY <1>1, <1>3 DEF InFlight, HandleInv, HandlesUnique
<1>6. \A k \in Kinds : new \notin Live(k)
  BY <1>4 DEF HandleInv, HandlesUnique
<1>7. new \notin freed /\ new < lastHandleIndex
  BY <1>4 DEF HandleInv, Fresh
<1>8. HandlesUnique'
  <2>1. \A k1, k2 \in Kinds : k1 # k2 => Live(k1)' \cap Live(k2)' = {}
    BY <1>1, <1>6 DEF HandleInv, HandlesUnique
  <2>2. \A k \in Kinds : Live(k)' \cap InFlight' = {}
    BY <1>1, <1>4, <1>5 DEF HandleInv, HandlesUnique
  <2>3. \A u, v \in Threads : pending'[u] # NoCall /\ pending'[v] # NoCall /\ u # v
          => pending'[u].handle # pending'[v].handle
    BY <1>3 DEF HandleInv, HandlesUnique
  <2> QED
    BY <2>1, <2>2, <2>3 DEF HandlesUnique
<1>9. NeverReused'
  BY <1>1, <1>7 DEF HandleInv, NeverReused
<1>10. Fresh'
  BY <1>1, <1>4, <1>7 DEF HandleInv, Fresh
<1> QED
  BY <1>8, <1>9, <1>10 DEF HandleInv

\* What goes was in one map, by uniqueness, so it is in none afterwards.
LEMMA FreeStep ==
  ASSUME TypeOK, HandleInv, NEW handle, Free(handle)
  PROVE  HandleInv'
<1>1. /\ pending' = pending /\ lastHandleIndex' = lastHandleIndex
      /\ \A k \in Kinds : Live(k)' \subseteq Live(k)
      /\ \A h \in freed' : h \in freed \/ \E k \in Kinds : h \in Live(k) /\ h \notin Live(k)'
  BY FreeLive
<1>2. InFlight' = InFlight
  BY <1>1 DEF InFlight
<1>3. HandlesUnique'
  BY <1>1, <1>2 DEF HandleInv, HandlesUnique
<1>4. NeverReused'
  BY <1>1 DEF HandleInv, HandlesUnique, NeverReused
<1>5. Fresh'
  BY <1>1, <1>2 DEF HandleInv, HandlesUnique, Fresh
<1> QED
  BY <1>3, <1>4, <1>5 DEF HandleInv

LEMMA HandleStep == TypeOK /\ HandleInv /\ [Next]_vars => HandleInv'
<1> SUFFICES ASSUME TypeOK, HandleInv, [Next]_vars PROVE HandleInv'
  OBVIOUS
<1>1. ASSUME UNCHANGED vars PROVE HandleInv'
  <2>1. \A k \in Kinds : Live(k)' = Live(k)
    BY <1>1 DEF vars, maps, Live
  <2>2. InFlight' = InFlight
    BY <1>1 DEF vars, InFlight
  <2> QED
    BY <1>1, <2>1, <2>2 DEF vars, HandleInv, HandlesUnique, NeverReused, Fresh
<1>2. ASSUME NEW t \in Threads, NEW kind \in Kinds,
             NEW input \in Handles \cup {SQL_NULL_HANDLE}, GenerateHandle(t, kind, input)
      PROVE  HandleInv'
  BY <1>2, GenerateStep
<1>3. ASSUME NEW t \in Threads, EndAlloc(t) PROVE HandleInv'
  BY <1>3, EndAllocStep
<1>4. ASSUME NEW handle \in Handles, Free(handle) PROVE HandleInv'
  BY <1>4, FreeStep
<1> QED
  BY <1>1, <1>2, <1>3, <1>4 DEF Next

\* A handle denotes at most one object and a freed handle never comes back, for any
\* number of threads that allocate and free at once: a stale handle is always answered
\* with SQL_INVALID_HANDLE and never reaches somebody else's object.
THEOREM HandlesCorrect == Spec => []HandleIdentity
<1>1. HandleInv => HandleIdentity
  BY DEF HandleInv, HandleIdentity
<1> QED
  BY <1>1, TypeInit, TypeStep, HandleInit, HandleStep, PTL DEF Spec

-----------------------------------------------------------------------------
(***************************************************************************)
(* What a step may take out of the maps.                                   *)
(***************************************************************************)
LEMMA EmplaceKeeps == \A map, handle, parent : DOMAIN map \subseteq DOMAIN Emplace(map, handle, parent)
  BY DEF Emplace

LEMMA EraseTakes ==
  \A map, handles : handles \subseteq DOMAIN map => DOMAIN map \ DOMAIN Erase(map, handles) = handles
  BY DEF Erase

\* An allocation takes nothing.
LEMMA AllocSpares == ASSUME NEW t \in Threads, EndAlloc(t) PROVE SparesOthers
<1>1. Left(connections) = {} /\ Left(statements) = {} /\ Left(descriptors) = {}
  BY EmplaceKeeps DEF EndAlloc, AllocEnvironment, AllocConnection, AllocStatement, AllocDescriptor,
     AllocConnectionInfo, AllocFails, maps, Left
<1> QED
  BY <1>1 DEF SparesOthers

\* Connections go with exactly their statements and descriptors.
LEMMA ConnectionsSpare ==
  ASSUME NEW gone \in SUBSET DOMAIN connections, NEW owner, FreeConnections(gone, owner)
  PROVE  /\ Left(connections) = gone
         /\ \A stmt \in Left(statements) : statements[stmt] \in Left(connections)
         /\ \A desc \in Left(descriptors) : descriptors[desc] \in Left(connections)
<1>1. Left(connections) = gone
  BY EraseTakes DEF FreeConnections, Left
<1>2. Left(statements) = ChildrenOf(statements, gone)
  BY EraseTakes DEF FreeConnections, Left, ChildrenOf
<1>3. Left(descriptors) = ChildrenOf(descriptors, gone)
  BY EraseTakes DEF FreeConnections, Left, ChildrenOf
<1> QED
  BY <1>1, <1>2, <1>3 DEF ChildrenOf

LEMMA FreeSpares == ASSUME NEW handle, Free(handle) PROVE SparesOthers
<1>1. CASE FreeFails(handle)
  BY <1>1 DEF FreeFails, vars, maps, SparesOthers, Left
<1>2. CASE FreeEnvironment(handle)
  <2>1. ChildrenOf(connections, {handle}) \in SUBSET DOMAIN connections
    BY DEF ChildrenOf
  <2>2. \A dbc \in ChildrenOf(connections, {handle}) :
          connections[dbc] \in environments \ environments'
    BY <1>2 DEF FreeEnvironment, ChildrenOf
  <2> QED
    BY <1>2, <2>1, <2>2, ConnectionsSpare DEF FreeEnvironment, SparesOthers
<1>3. CASE FreeConnection(handle)
  <2>1. {handle} \in SUBSET DOMAIN connections /\ FreeConnections({handle}, {})
    BY <1>3 DEF FreeConnection
  <2> QED
    BY <2>1, ConnectionsSpare DEF SparesOthers
<1>4. CASE FreeStatement(handle)
  BY <1>4, EraseTakes DEF FreeStatement, SparesOthers, Left
<1>5. CASE FreeDescriptor(handle)
  BY <1>5, EraseTakes DEF FreeDescriptor, SparesOthers, Left
<1>6. CASE FreeConnectionInfo(handle)
  BY <1>6 DEF FreeConnectionInfo, SparesOthers, Left
<1> QED
  BY <1>1, <1>2, <1>3, <1>4, <1>5, <1>6 DEF Free

\* In every step, of any number of threads: what leaves the maps is one object, or hangs on
\* the connection or the environment that leaves with it.
THEOREM SparesCorrect == Spec => FreeSparesOthers
<1>1. ASSUME [Next]_vars PROVE [SparesOthers]_vars
  <2>1. ASSUME NEW t \in Threads, NEW kind \in Kinds, NEW input, GenerateHandle(t, kind, input)
        PROVE  SparesOthers
    BY <2>1 DEF GenerateHandle, maps, SparesOthers, Left
  <2> QED
    BY <1>1, <2>1, AllocSpares, FreeSpares DEF Next
<1> QED
  BY <1>1, PTL DEF Spec, FreeSparesOthers
=============================================================================
