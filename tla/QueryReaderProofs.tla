------------------------- MODULE QueryReaderProofs -------------------------
(***************************************************************************)
(* Proofs about QueryReader, for result sets, frames and response sizes of *)
(* any size and any interleaving of the reading thread, the loader and the *)
(* destructor.  The rows come out in increasing order, and one after the   *)
(* other when every request is answered or known to have failed before the *)
(* server saw it (~LostReplies).                                           *)
(*                                                                         *)
(* The argument: the rows that were delivered, the frames of the cache and *)
(* the frame the loader holds follow each other in the result set up to    *)
(* the server's cursor (Sequential), and the reader's position is inside   *)
(* them (Positioned).  Between two of them rows are missing only where a   *)
(* reply may have been lost (Follows).                                     *)
(***************************************************************************)
EXTENDS MCQueryReader, SequenceTheorems, TLAPS

\* The loader holds a frame with rows, and adjusts the fetch size after a full one only.
LoaderInv ==
  /\ cursor <= rows
  /\ task \in {"push", "decide", "adjust"} => frame.size > 0
  /\ task = "adjust" => frame.size = fetchSize

\* How many rows of the result set have been in the cache so far.
Loaded == IF task = "push" THEN frame.first ELSE cursor

\* The row before the first one of the cache.
Front == IF frameCache = <<>> THEN Loaded ELSE frameCache[1].first

EndOf(f) == f.first + f.size

\* The last row that was delivered.
LastRow == IF delivered = <<>> THEN 0 ELSE delivered[Len(delivered)]

\* What begins after row b comes next after row a, lost replies aside.
Follows(a, b) == a <= b /\ (LostReplies \/ a = b)

\* The frames of the cache follow each other, and the loader's frame follows them.
Sequential ==
  /\ task = "push" => EndOf(frame) = cursor
  /\ \A i \in 1..Len(frameCache) : frameCache[i].size > 0 /\ EndOf(frameCache[i]) <= rows
  /\ \A i \in 1..Len(frameCache) :
       Follows(EndOf(frameCache[i]),
               IF i = Len(frameCache) THEN Loaded ELSE frameCache[i + 1].first)

\* The delivered rows end where the reader stands.
Positioned ==
  /\ firstLoad => /\ cursor = 0 /\ frameCache = <<>> /\ task = NoTask /\ delivered = <<>>
                  /\ result \in {"none", "noData"} /\ reader \notin ReadStages
  /\ reader \in ReadStages => /\ currentRowIndex = 0 /\ Follows(LastRow, Front)
                              /\ result = "row" /\ ~firstLoad
  /\ reader = "idle" /\ result = "row" =>
       /\ frameCache # <<>> /\ 0 <= currentRowIndex
       /\ currentRowIndex < frameCache[1].size
       /\ LastRow = RowNumber(frameCache[1], currentRowIndex)
  /\ result = "error" => \/ task = "failed"
                         \/ frameCache = <<>> /\ task = NoTask
  /\ reader = "idle" /\ result = "none" => firstLoad

OrderInv ==
  /\ LoaderInv /\ Sequential /\ Positioned
  /\ DeliveredIncreasing
  /\ LostReplies \/ DeliveredInOrder

-----------------------------------------------------------------------------
\* The frame a request is answered with is inside the result set.
LEMMA NextFrameType ==
  ASSUME TypeOK, LoaderInv
  PROVE  /\ NextFrame \in Frames
         /\ NextFrame.first = cursor
         /\ cursor + NextFrame.size <= rows
BY DEF TypeOK, LoaderInv, NextFrame, Frames, Smaller

\* The new fetch size is a number when the divisions do not trap.
LEMMA AdjustType ==
  ASSUME TypeOK, NEW bytes \in RowBytes, NEW size \in Nat,
         fetchSize > 0, OneRow(bytes * size) # 0
  PROVE  AdjustedFetchSize(bytes * size) \in Nat
<1>1. bytes * size \in Nat
  <2>1. bytes \in Nat
    BY QueryReaderAssumption
  <2> QED
    BY <2>1
<1>2. OneRow(bytes * size) \in Nat
  <2>1. \A n \in Nat : n \div fetchSize \in Nat
    BY DEF TypeOK
  <2> QED
    BY <1>1, <2>1 DEF OneRow
<1> QED
  BY <1>2, QueryReaderAssumption DEF AdjustedFetchSize

LEMMA HeadFrame ==
  ASSUME TypeOK, frameCache # <<>>
  PROVE  /\ frameCache[1] \in Frames /\ Head(frameCache) = frameCache[1]
         /\ frameCache[1].first \in Nat /\ frameCache[1].size \in Nat
         /\ 1 \in 1..Len(frameCache) /\ Len(frameCache) \in Nat
<1>1. frameCache \in Seq(Frames)
  BY DEF TypeOK
<1>2. 1 \in 1..Len(frameCache) /\ Len(frameCache) \in Nat
  BY <1>1
<1>3. frameCache[1] \in Frames
  BY <1>1, <1>2
<1> QED
  BY <1>1, <1>2, <1>3 DEF Frames

\* A row that is delivered is a number.
LEMMA ReturnRowType ==
  ASSUME TypeOK, NEW f \in Frames, NEW cache, Head(cache) = f, NEW index \in Int,
         ReturnRow(cache, index)
  PROVE  delivered' \in Seq(Int) /\ result' = "row" /\ reader' = "idle"
<1>1. RowNumber(f, index) \in Int
  BY DEF RowNumber, Frames
<1>2. delivered \in Seq(Int) /\ delivered' = Append(delivered, RowNumber(f, index))
  BY DEF TypeOK, ReturnRow
<1>3. delivered' \in Seq(Int)
  BY <1>1, <1>2
<1> QED
  BY <1>3 DEF ReturnRow

LEMMA TypeInit == Init => TypeOK /\ LoaderInv
BY QueryReaderAssumption
   DEF Init, TypeOK, LoaderInv, Frames, NoFrame, TaskStates, NoTask, LoadStages,
       ReaderStates, Results

LEMMA LoaderType ==
  ASSUME TypeOK, LoaderInv, Loader
  PROVE  TypeOK' /\ LoaderInv'
<1> USE DEF TypeOK, LoaderInv, TaskStates, LoadStages, ReaderStates, ReadStages,
            serverVars, commandVars, readVars
<1>1. CASE LoaderRequest
  <2>1. cursor' \in Nat /\ cursor' <= rows /\ rows' = rows /\ failures' \in Nat
    <3>1. /\ rows' = rows /\ failures' \in {failures, failures - 1}
          /\ failures' # failures => failures > 0
          /\ cursor' \in {cursor, cursor + NextFrame.size}
      BY <1>1 DEF LoaderRequest, Served, RequestFails
    <3>2. NextFrame.size \in Nat /\ cursor + NextFrame.size <= rows
      BY NextFrameType DEF Frames
    <3> QED
      BY <3>1, <3>2
  <2>2. CASE commandAlive /\ Served
    <3>1. /\ frame' = NextFrame /\ UNCHANGED reader
          /\ task' = IF NextFrame.size > 0 THEN "push" ELSE "done"
      BY <1>1, <2>2 DEF LoaderRequest, Served, RequestFails
    <3>2. frame' \in Frames /\ (task' = "push" => frame'.size > 0)
      BY <3>1, NextFrameType
    <3> QED
      BY <1>1, <2>1, <3>1, <3>2 DEF LoaderRequest
  <2>3. CASE commandAlive /\ ~Served
    BY <1>1, <2>1, <2>3 DEF LoaderRequest
  <2>4. CASE ~commandAlive
    BY <1>1, <2>1, <2>4 DEF LoaderRequest
  <2> QED
    BY <2>2, <2>3, <2>4
<1>2. CASE LoaderPush
  BY <1>2 DEF LoaderPush
<1>3. CASE LoaderDecide
  BY <1>3 DEF LoaderDecide
<1>4. CASE LoaderAdjust
  <2>1. PICK bytes \in RowBytes :
          IF OneRow(bytes * frame.size) = 0
          THEN task' = "crashed" /\ reader' = "undefined" /\ UNCHANGED fetchSize
          ELSE /\ fetchSize' = AdjustedFetchSize(bytes * frame.size)
               /\ task' = "return" /\ UNCHANGED reader
    BY <1>4 DEF LoaderAdjust
  <2>2. frame.size \in Nat /\ frame.size = fetchSize /\ fetchSize > 0
    BY <1>4 DEF LoaderAdjust, Frames
  <2>3. CASE OneRow(bytes * frame.size) = 0
    BY <1>4, <2>1, <2>3 DEF LoaderAdjust
  <2>4. CASE OneRow(bytes * frame.size) # 0
    <3>1. AdjustedFetchSize(bytes * frame.size) \in Nat
      BY <2>2, <2>4, AdjustType
    <3> QED
      BY <1>4, <2>1, <2>4, <3>1 DEF LoaderAdjust
  <2> QED
    BY <2>3, <2>4
<1>5. CASE LoaderReturn
  BY <1>5 DEF LoaderReturn
<1> QED
  BY <1>1, <1>2, <1>3, <1>4, <1>5 DEF Loader
LEMMA ReadType ==
  ASSUME TypeOK, LoaderInv, Read
  PROVE  TypeOK' /\ LoaderInv'
<1> USE DEF TypeOK, LoaderInv, TaskStates, LoadStages, ReaderStates, ReadStages, Results,
            serverVars, commandVars, loadVars, Called, Return, Undefined
<1>1. CASE ReadNoResultSet
  BY <1>1 DEF ReadNoResultSet
<1>2. CASE ReadFirstFrame
  <2>1. /\ cursor' \in Nat /\ cursor' <= rows /\ rows' = rows /\ failures' \in Nat
        /\ isAsync' = isAsync /\ hasData' = hasData /\ commandAlive' = commandAlive
        /\ firstLoad' = FALSE
    BY <1>2, NextFrameType DEF ReadFirstFrame, Served, Frames
  <2>2. CASE NextFrame.size = 0
    BY <1>2, <2>1, <2>2 DEF ReadFirstFrame
  <2>3. CASE NextFrame.size # 0
    <3>1. /\ NextFrame \in Frames /\ NextFrame.size \in Nat /\ frame' = frame
          /\ frameCache' = <<NextFrame>> /\ moreFrames' = (NextFrame.size = fetchSize)
          /\ moreFrames' \in BOOLEAN
      BY <1>2, <2>3, NextFrameType DEF ReadFirstFrame, Frames
    <3>2. frameCache' \in Seq(Frames) /\ Head(frameCache') = NextFrame
      BY <3>1
    <3>3. CASE NextFrame.size # fetchSize
      <4>1. currentRowIndex' = 0 /\ ReturnRow(frameCache', 0) /\ fetchSize' = fetchSize
            /\ task' = task
        BY <1>2, <2>3, <3>1, <3>3 DEF ReadFirstFrame
      <4>2. delivered' \in Seq(Int) /\ result' = "row" /\ reader' = "idle"
        BY <3>1, <3>2, <4>1, ReturnRowType
      <4> QED
        <5>1. moreFrames' \in BOOLEAN /\ currentRowIndex' \in Int /\ frame' = frame
              /\ fetchSize' = fetchSize /\ task' = task /\ frameCache' \in Seq(Frames)
          BY <3>1, <3>2, <4>1
        <5> QED
          BY <2>1, <4>2, <5>1
    <3>4. CASE NextFrame.size = fetchSize
      <4>1. PICK bytes \in RowBytes :
              IF OneRow(bytes * NextFrame.size) = 0
              THEN Undefined /\ UNCHANGED <<fetchSize, task, currentRowIndex>>
              ELSE /\ fetchSize' = AdjustedFetchSize(bytes * NextFrame.size)
                   /\ task' = "request"
                   /\ currentRowIndex' = 0
                   /\ ReturnRow(frameCache', 0)
        BY <1>2, <2>3, <3>1, <3>4 DEF ReadFirstFrame
      <4>2. fetchSize > 0
        BY <2>3, <3>1, <3>4
      <4>3. CASE OneRow(bytes * NextFrame.size) = 0
        BY <2>1, <3>1, <3>2, <4>1, <4>3
      <4>4. CASE OneRow(bytes * NextFrame.size) # 0
        <5>1. AdjustedFetchSize(bytes * NextFrame.size) \in Nat
          BY <3>1, <4>2, <4>4, AdjustType
        <5>2. delivered' \in Seq(Int) /\ result' = "row" /\ reader' = "idle"
          BY SMTT(15), <3>1, <3>2, <4>1, <4>4, ReturnRowType
        <5>3. /\ fetchSize' = AdjustedFetchSize(bytes * NextFrame.size)
              /\ task' = "request" /\ currentRowIndex' = 0
          BY <4>1, <4>4
        <5> QED
          <6>1. moreFrames' \in BOOLEAN /\ currentRowIndex' \in Int /\ frame' = frame
                /\ fetchSize' \in Nat /\ task' = "request" /\ frameCache' \in Seq(Frames)
            BY <3>1, <3>2, <5>1, <5>3
          <6> QED
            BY <2>1, <5>2, <6>1
      <4> QED
        BY <4>3, <4>4
    <3> QED
      BY <3>3, <3>4
  <2> QED
    BY <2>2, <2>3
<1>3. CASE ReadFirstFrameFails
  <2>1. cursor' \in Nat /\ cursor' <= rows /\ rows' = rows /\ failures' \in Nat
    BY <1>3, NextFrameType DEF ReadFirstFrameFails, RequestFails, Frames
  <2> QED
    BY <1>3, <2>1 DEF ReadFirstFrameFails
<1>4. CASE ReadRethrows
  BY <1>4 DEF ReadRethrows
<1>5. CASE ReadRow
  <2>1. /\ frameCache # <<>> /\ ReturnRow(frameCache, currentRowIndex + 1)
        /\ currentRowIndex' = currentRowIndex + 1 /\ currentRowIndex + 1 \in Int
        /\ UNCHANGED <<serverVars, commandVars, loadVars, firstLoad>>
    BY <1>5 DEF ReadRow
  <2>2. delivered' \in Seq(Int) /\ result' = "row" /\ reader' = "idle"
    BY <2>1, HeadFrame, ReturnRowType
  <2> QED
    BY <2>1, <2>2
<1>6. CASE ReadEndOfFrame
  BY <1>6 DEF ReadEndOfFrame
<1>7. CASE ReadEmptyCache \/ CanReadFast
  BY <1>7 DEF ReadEmptyCache, CanReadFast
<1> QED
  BY <1>1, <1>2, <1>3, <1>4, <1>5, <1>6, <1>7 DEF Read

LEMMA ContinueType ==
  ASSUME TypeOK, LoaderInv, Continue
  PROVE  TypeOK' /\ LoaderInv'
<1> USE DEF TypeOK, LoaderInv, TaskStates, LoadStages, ReaderStates, ReadStages, Results,
            serverVars, commandVars, loadVars, Proceed, Return, Undefined
<1>1. CASE TryLoad
  BY <1>1 DEF TryLoad
<1>2. CASE Launch
  BY <1>2 DEF Launch
<1>3. CASE MustWait
  BY <1>3 DEF MustWait
<1>4. CASE CheckEmpty
  BY <1>4 DEF CheckEmpty
<1>5. CASE Wait
  BY <1>5 DEF Wait
<1>6. CASE WaitThrows
  BY <1>6 DEF WaitThrows
<1>7. CASE Verdict
  <2>1. CASE frameCache # <<>> /\ ReturnRow(frameCache, currentRowIndex)
    <3>1. delivered' \in Seq(Int) /\ result' = "row" /\ reader' = "idle"
      BY <2>1, HeadFrame, ReturnRowType
    <3> QED
      BY <1>7, <3>1 DEF Verdict
  <2>2. CASE UNCHANGED delivered /\ reader' \in {"idle", "undefined"}
             /\ result' \in {result, "noData"}
    BY <1>7, <2>2 DEF Verdict
  <2> QED
    BY <1>7, <2>1, <2>2 DEF Verdict
<1> QED
  BY <1>1, <1>2, <1>3, <1>4, <1>5, <1>6, <1>7 DEF Continue

LEMMA TypeStep == TypeOK /\ LoaderInv /\ [Next]_vars => TypeOK' /\ LoaderInv'
<1> SUFFICES ASSUME TypeOK, LoaderInv, [Next]_vars PROVE TypeOK' /\ LoaderInv'
  OBVIOUS
<1>1. CASE BeginTeardown
  BY <1>1 DEF BeginTeardown, TypeOK, LoaderInv, ReaderStates, serverVars, loadVars
<1>2. CASE EndTeardown
  BY <1>2 DEF EndTeardown, TypeOK, LoaderInv, ReaderStates, serverVars, loadVars
<1>3. CASE SetAsync
  BY <1>3, QueryReaderAssumption DEF SetAsync, TypeOK, LoaderInv, serverVars, loadVars, readVars
<1>4. CASE UNCHANGED vars
  BY <1>4 DEF TypeOK, LoaderInv, vars, serverVars, commandVars, loadVars, readVars
<1> QED
  BY <1>1, <1>2, <1>3, <1>4, LoaderType, ReadType, ContinueType DEF Next, Terminated

\* The types hold, and the fetch size stays a natural number: where the divisions of
\* adjustFetchSize do not trap, their results are in range.
THEOREM TypeCorrect == Spec => []TypeOK
<1>1. Spec => [](TypeOK /\ LoaderInv)
  BY TypeInit, TypeStep, PTL DEF Spec
<1> QED
  BY <1>1, PTL
-----------------------------------------------------------------------------
LEMMA OrderInit == Init => OrderInv
BY QueryReaderAssumption
   DEF Init, OrderInv, LoaderInv, Sequential, Positioned, DeliveredInOrder,
       DeliveredIncreasing, Loaded, NoTask, ReadStages, NoFrame, EndOf

\* The order of rows in the result set: what comes next may be pushed back by a lost reply.
LEMMA FollowsFacts ==
  /\ \A a \in Nat : Follows(a, a)
  /\ \A a, b, c \in Nat : Follows(a, b) /\ Follows(b, c) => Follows(a, c)
BY DEF Follows

\* Positions are row numbers.
LEMMA PositionTypes ==
  ASSUME TypeOK
  PROVE  Loaded \in Nat /\ Front \in Nat /\ cursor \in Nat
<1>1. Loaded \in Nat
  BY DEF TypeOK, Loaded, Frames
<1>2. frameCache # <<>> => frameCache[1].first \in Nat
  BY HeadFrame
<1> QED
  BY <1>1, <1>2 DEF Front, TypeOK

\* Requests only move what is loaded forward, and the cache ends further back then.
LEMMA SequentialMoves ==
  ASSUME TypeOK, TypeOK', Sequential, rows' = rows, frameCache' = frameCache,
         Follows(Loaded, Loaded'), task' = "push" => EndOf(frame') = cursor'
  PROVE  Sequential' /\ Follows(Front, Front')
<1>1. Loaded \in Nat /\ Loaded' \in Nat
  BY DEF TypeOK, Loaded, Frames
<1>2. Follows(Front, Front')
  BY <1>1, FollowsFacts, HeadFrame DEF Front
<1>3. ASSUME NEW i \in 1..Len(frameCache)
      PROVE  Follows(EndOf(frameCache[i]),
                     IF i = Len(frameCache) THEN Loaded' ELSE frameCache[i + 1].first)
  <2>1. Follows(EndOf(frameCache[i]),
                IF i = Len(frameCache) THEN Loaded ELSE frameCache[i + 1].first)
    BY DEF Sequential
  <2>2. frameCache[i] \in Frames
    BY DEF TypeOK
  <2>3. EndOf(frameCache[i]) \in Nat
    BY <2>2 DEF EndOf, Frames
  <2>4. CASE i = Len(frameCache)
    BY <1>1, <2>1, <2>3, <2>4, FollowsFacts
  <2>5. CASE i # Len(frameCache)
    BY <2>1, <2>5
  <2> QED
    BY <2>4, <2>5
<1>4. \A i \in 1..Len(frameCache) : frameCache[i].size > 0 /\ EndOf(frameCache[i]) <= rows
  BY DEF Sequential
<1> QED
  BY <1>2, <1>3, <1>4 DEF Sequential, EndOf

\* Where the reader stands moves with what is loaded.
LEMMA PositionedMoves ==
  ASSUME TypeOK, TypeOK', Positioned, ~firstLoad, result # "error", Follows(Front, Front'),
         frameCache' = frameCache \/ (frameCache' # <<>> /\ frameCache = <<>>)
                                  \/ (frameCache' # <<>> /\ frameCache'[1] = frameCache[1]),
         UNCHANGED <<firstLoad, currentRowIndex, result, delivered>>,
         reader' = reader \/ reader' \notin ReadStages \cup {"idle"}
                          \/ (reader \in ReadStages /\ reader' \in ReadStages)
  PROVE  Positioned'
<1>1. Front \in Nat /\ Front' \in Nat
  <2>1. Loaded' \in Nat /\ frameCache' \in Seq(Frames)
    BY DEF TypeOK, Loaded, Frames
  <2>2. frameCache' # <<>> => frameCache'[1] \in Frames
    BY <2>1
  <2>3. Front' \in Nat
    BY <2>1, <2>2 DEF Front, Frames
  <2> QED
    BY <2>3, PositionTypes
<1>2. LastRow' = LastRow /\ LastRow \in Int
  <2>1. delivered # <<>> => delivered[Len(delivered)] \in Int
    BY EmptySeq DEF TypeOK
  <2> QED
    BY <2>1 DEF LastRow
<1>3. reader \in ReadStages => Follows(LastRow, Front')
  BY <1>1, <1>2 DEF Positioned, Follows
<1> QED
  BY <1>2, <1>3 DEF Positioned, RowNumber, ReadStages

LEMMA LoaderOrder ==
  ASSUME TypeOK, TypeOK', OrderInv, LoaderInv', Loader
  PROVE  OrderInv'
<1> USE DEF OrderInv, serverVars, commandVars, readVars
<1>1. CASE LoaderRequest
  <2>1. /\ task = "request" /\ rows' = rows /\ frameCache' = frameCache
        /\ firstLoad' = firstLoad /\ currentRowIndex' = currentRowIndex
        /\ result' = result /\ delivered' = delivered
        /\ reader' \in {reader, "undefined"}
        /\ task' \in {"push", "done", "failed", "crashed"}
    BY <1>1 DEF LoaderRequest, Served, RequestFails
  <2>2. ~firstLoad /\ result # "error"
    BY <2>1 DEF Positioned, NoTask
  <2>3. NextFrame \in Frames /\ NextFrame.first = cursor /\ cursor \in Nat
        /\ NextFrame.size \in Nat
    BY NextFrameType DEF Frames, TypeOK
  <2>4. \/ task' = "push" /\ frame' = NextFrame /\ cursor' = cursor + NextFrame.size
        \/ task' # "push" /\ cursor' = cursor
        \/ task' # "push" /\ LostReplies /\ cursor' = cursor + NextFrame.size
    BY <1>1, <2>3 DEF LoaderRequest, Served, RequestFails
  <2>5. Follows(Loaded, Loaded')
    BY <2>1, <2>3, <2>4 DEF Loaded, Follows
  <2>6. task' = "push" => EndOf(frame') = cursor'
    BY <2>3, <2>4 DEF EndOf
  <2>7. Sequential' /\ Follows(Front, Front')
    BY <2>1, <2>5, <2>6, SequentialMoves
  <2>8. Positioned'
    BY <2>1, <2>2, <2>7, PositionedMoves DEF ReadStages
  <2> QED
    BY <2>1, <2>7, <2>8 DEF DeliveredInOrder, DeliveredIncreasing
<1>2. CASE LoaderPush
  <2>1. /\ task = "push" /\ task' = "decide" /\ frameCache' = Append(frameCache, frame)
        /\ UNCHANGED <<rows, cursor, failures, firstLoad, currentRowIndex, reader, result,
                       delivered>>
    BY <1>2 DEF LoaderPush
  <2>2. frame \in Frames /\ frame.size > 0 /\ EndOf(frame) = cursor /\ cursor <= rows
    BY <2>1 DEF TypeOK, LoaderInv, Sequential
  <2>3. Loaded = frame.first /\ Loaded' = cursor /\ cursor \in Nat
    BY <2>1 DEF Loaded, TypeOK
  <2>4. /\ Len(frameCache') = Len(frameCache) + 1
        /\ \A i \in 1..Len(frameCache) : frameCache'[i] = frameCache[i]
        /\ frameCache'[Len(frameCache) + 1] = frame
    BY <2>1, <2>2 DEF TypeOK
  <2>5. Sequential'
    <3>1. ASSUME NEW i \in 1..Len(frameCache')
          PROVE  /\ frameCache'[i].size > 0 /\ EndOf(frameCache'[i]) <= rows
                 /\ Follows(EndOf(frameCache'[i]),
                            IF i = Len(frameCache') THEN Loaded' ELSE frameCache'[i + 1].first)
      <4>1. CASE i = Len(frameCache) + 1
        BY <2>2, <2>3, <2>4, <4>1, FollowsFacts
      <4>2. CASE i = Len(frameCache)
        <5>1. i \in 1..Len(frameCache) /\ i # Len(frameCache') /\ i + 1 = Len(frameCache) + 1
          BY <2>4, <4>2 DEF TypeOK
        <5>2. /\ frameCache[i].size > 0 /\ EndOf(frameCache[i]) <= rows
              /\ Follows(EndOf(frameCache[i]), frame.first)
          BY <2>3, <4>2, <5>1 DEF Sequential
        <5> QED
          BY <2>4, <5>1, <5>2
      <4>3. CASE i < Len(frameCache)
        <5>1. i \in 1..Len(frameCache) /\ i + 1 \in 1..Len(frameCache) /\ i # Len(frameCache)
          BY <2>4, <4>3 DEF TypeOK
        <5>2. /\ frameCache[i].size > 0 /\ EndOf(frameCache[i]) <= rows
              /\ Follows(EndOf(frameCache[i]), frameCache[i + 1].first)
          BY <5>1 DEF Sequential
        <5>3. frameCache'[i] = frameCache[i] /\ frameCache'[i + 1] = frameCache[i + 1]
          BY <2>4, <5>1
        <5>4. i # Len(frameCache')
          BY <2>4, <4>3 DEF TypeOK
        <5> QED
          BY <5>2, <5>3, <5>4
      <4> QED
        BY <2>4, <4>1, <4>2, <4>3 DEF TypeOK
    <3> QED
      BY <2>1, <3>1 DEF Sequential, EndOf
  <2>6. frameCache' # <<>> /\ Front' = Front
    BY <2>1, <2>3, <2>4 DEF Front, TypeOK
  <2>7. frameCache # <<>> => frameCache'[1] = frameCache[1]
    BY <2>4 DEF TypeOK
  <2>8. ~firstLoad /\ result # "error"
    BY <2>1 DEF Positioned, NoTask
  <2>9. Follows(Front, Front')
    BY <2>6, FollowsFacts, PositionTypes
  <2>10. Positioned'
    BY <2>1, <2>6, <2>7, <2>8, <2>9, PositionedMoves
  <2> QED
    BY <2>1, <2>5, <2>10 DEF DeliveredInOrder, DeliveredIncreasing
<1>3. CASE LoaderDecide \/ LoaderAdjust \/ LoaderReturn
  <2>1. /\ task \in {"decide", "adjust", "return"}
        /\ task' \in {"adjust", "return", "crashed", "done"}
        /\ UNCHANGED <<rows, cursor, failures, frameCache, firstLoad, currentRowIndex,
                       result, delivered>>
        /\ reader' \in {reader, "undefined"}
    BY <1>3 DEF LoaderDecide, LoaderAdjust, LoaderReturn
  <2>2. Loaded' = Loaded /\ Loaded \in Nat
    BY <2>1, PositionTypes DEF Loaded
  <2>3. Sequential' /\ Follows(Front, Front')
    BY <2>1, <2>2, FollowsFacts, SequentialMoves
  <2>4. ~firstLoad /\ result # "error"
    BY <2>1 DEF Positioned, NoTask
  <2>5. Positioned'
    BY <2>1, <2>3, <2>4, PositionedMoves DEF ReadStages
  <2> QED
    BY <2>1, <2>3, <2>5 DEF DeliveredInOrder, DeliveredIncreasing
<1> QED
  BY <1>1, <1>2, <1>3 DEF Loader

\* read() yields a row that follows the last delivered one.
LEMMA ReturnRowOrder ==
  ASSUME TypeOK, DeliveredIncreasing, LostReplies \/ DeliveredInOrder,
         NEW cache, NEW index, NEW before \in Nat, Follows(LastRow, before),
         RowNumber(Head(cache), index) = before + 1, ReturnRow(cache, index)
  PROVE  /\ DeliveredIncreasing' /\ (LostReplies \/ DeliveredInOrder')
         /\ LastRow' = RowNumber(Head(cache), index)
         /\ result' = "row" /\ reader' = "idle"
<1>1. delivered' = Append(delivered, before + 1) /\ result' = "row" /\ reader' = "idle"
  BY DEF ReturnRow
<1>2. /\ delivered \in Seq(Int) /\ Len(delivered) \in Nat
      /\ Len(delivered') = Len(delivered) + 1 /\ delivered'[Len(delivered) + 1] = before + 1
      /\ \A k \in 1..Len(delivered) : delivered'[k] = delivered[k]
  BY <1>1 DEF TypeOK
<1>3. LastRow' = before + 1
  BY <1>1, <1>2 DEF LastRow
<1>4. LastRow <= before
  BY DEF Follows
<1>5. DeliveredIncreasing'
  <2>1. ASSUME NEW k \in 2..Len(delivered) + 1
        PROVE  delivered'[k - 1] < delivered'[k]
    <3>1. CASE k = Len(delivered) + 1
      <4>1. delivered # <<>> /\ k - 1 = Len(delivered) /\ Len(delivered) \in 1..Len(delivered)
        BY <1>2, <3>1
      <4>2. delivered'[k - 1] = LastRow /\ LastRow \in Int
        BY <1>2, <4>1 DEF LastRow
      <4> QED
        BY <1>2, <1>4, <3>1, <4>2
    <3>2. CASE k # Len(delivered) + 1
      <4>1. k \in 2..Len(delivered) /\ k \in 1..Len(delivered) /\ k - 1 \in 1..Len(delivered)
        BY <1>2, <3>2
      <4>2. delivered[k - 1] < delivered[k]
        BY <4>1 DEF DeliveredIncreasing
      <4> QED
        BY <1>2, <4>1, <4>2
    <3> QED
      BY <3>1, <3>2
  <2> QED
    BY <1>2, <2>1 DEF DeliveredIncreasing
<1>6. ASSUME ~LostReplies PROVE DeliveredInOrder'
  <2>1. DeliveredInOrder /\ LastRow = before
    BY <1>6 DEF Follows
  <2>2. before = Len(delivered)
    <3>1. CASE delivered = <<>>
      BY <1>2, <2>1, <3>1 DEF LastRow
    <3>2. CASE delivered # <<>>
      <4>1. Len(delivered) \in 1..Len(delivered)
        BY <1>2, <3>2, EmptySeq
      <4> QED
        BY <2>1, <3>2, <4>1 DEF LastRow, DeliveredInOrder
    <3> QED
      BY <3>1, <3>2
  <2> QED
    BY <1>2, <2>1, <2>2 DEF DeliveredInOrder
<1> QED
  BY <1>1, <1>3, <1>5, <1>6

\* The front frame goes: the next one, or the first row not loaded yet, follows it.
LEMMA PopOrder ==
  ASSUME TypeOK, Sequential, frameCache # <<>>, frameCache' = Tail(frameCache),
         rows' = rows, cursor' = cursor, task' = task, frame' = frame
  PROVE  Sequential' /\ Follows(EndOf(frameCache[1]), Front')
<1>1. Loaded' = Loaded
  BY DEF Loaded
<1>2. /\ frameCache' \in Seq(Frames) /\ Len(frameCache') = Len(frameCache) - 1
      /\ Len(frameCache) \in Nat /\ Len(frameCache') \in Nat
      /\ \A i \in 1..Len(frameCache') : frameCache'[i] = frameCache[i + 1]
  BY DEF TypeOK
<1>3. ASSUME NEW i \in 1..Len(frameCache')
      PROVE  /\ frameCache'[i].size > 0 /\ EndOf(frameCache'[i]) <= rows
             /\ Follows(EndOf(frameCache'[i]),
                        IF i = Len(frameCache') THEN Loaded ELSE frameCache'[i + 1].first)
  <2>1. i + 1 \in 1..Len(frameCache) /\ (i = Len(frameCache') <=> i + 1 = Len(frameCache))
    BY <1>2 DEF TypeOK
  <2> QED
    <3>1. frameCache'[i] = frameCache[i + 1]
      BY <1>2
    <3>2. /\ frameCache[i + 1].size > 0 /\ EndOf(frameCache[i + 1]) <= rows
          /\ Follows(EndOf(frameCache[i + 1]),
                     IF i + 1 = Len(frameCache) THEN Loaded ELSE frameCache[(i + 1) + 1].first)
      BY <2>1 DEF Sequential
    <3>3. ASSUME i # Len(frameCache')
          PROVE  frameCache'[i + 1] = frameCache[(i + 1) + 1]
      <4>1. i + 1 \in 1..Len(frameCache')
        <5>1. \A m, n \in Nat : m \in 1..n /\ m # n => m + 1 \in 1..n
          OBVIOUS
        <5>2. i \in Nat
          OBVIOUS
        <5> QED
          BY <1>2, <3>3, <5>1, <5>2
      <4> QED
        BY <1>2, <4>1
    <3> QED
      BY <2>1, <3>1, <3>2, <3>3
<1>4. Sequential'
  BY <1>1, <1>3 DEF Sequential, EndOf
<1>5. Follows(EndOf(frameCache[1]), Front')
  <2>1. Follows(EndOf(frameCache[1]),
                IF 1 = Len(frameCache) THEN Loaded ELSE frameCache[1 + 1].first)
    BY HeadFrame DEF Sequential
  <2>2. CASE Len(frameCache) = 1
    <3>1. frameCache' = <<>>
      BY <1>2, <2>2
    <3> QED
      BY <1>1, <2>1, <2>2, <3>1 DEF Front
  <2>3. CASE Len(frameCache) # 1
    <3>1. frameCache' # <<>> /\ frameCache'[1] = frameCache[1 + 1]
      <4>1. 1 \in 1..Len(frameCache')
        BY <1>2, <2>3, HeadFrame
      <4>2. frameCache'[1] = frameCache[1 + 1]
        BY <1>2, <4>1
      <4>3. Len(frameCache') # 0
        BY ONLY <4>1
      <4> QED
        BY <1>2, <4>2, <4>3, EmptySeq
    <3> QED
      BY <2>1, <2>3, <3>1 DEF Front
  <2> QED
    BY <2>2, <2>3
<1> QED
  BY <1>4, <1>5

LEMMA ReadOrder ==
  ASSUME TypeOK, TypeOK', OrderInv, LoaderInv', Read
  PROVE  OrderInv'
<1> USE DEF OrderInv, serverVars, commandVars, loadVars, Called
<1>1. CASE ReadNoResultSet
  <2>1. /\ result' = "noData" /\ reader' = "idle"
        /\ UNCHANGED <<rows, cursor, frameCache, task, frame, delivered, firstLoad>>
    BY <1>1 DEF ReadNoResultSet, Return
  <2>2. Sequential'
    BY <2>1 DEF Sequential, Loaded, EndOf
  <2>3. Positioned'
    BY <2>1 DEF Positioned, ReadStages
  <2> QED
    BY <2>1, <2>2, <2>3 DEF DeliveredInOrder, DeliveredIncreasing
<1>2. CASE ReadFirstFrame
  <2>1. /\ cursor = 0 /\ frameCache = <<>> /\ task = NoTask /\ delivered = <<>>
        /\ rows' = rows /\ cursor' = NextFrame.size /\ frame' = frame /\ ~firstLoad'
        /\ NextFrame \in Frames /\ NextFrame.first = 0 /\ cursor' <= rows
        /\ result \in {"none", "noData"}
    BY <1>2, NextFrameType DEF ReadFirstFrame, Served, Positioned, Frames, loadVars
  <2>2. CASE NextFrame.size = 0
    BY <1>2, <2>1, <2>2 DEF ReadFirstFrame, Return, Sequential, Positioned, DeliveredInOrder,
                            DeliveredIncreasing, Loaded, EndOf, ReadStages, NoTask
  <2>3. CASE NextFrame.size # 0
    <3>1. frameCache' = <<NextFrame>> /\ task' \in {NoTask, "request"}
      BY <1>2, <2>1, <2>3 DEF ReadFirstFrame, NoTask
    <3>2. Sequential'
      BY <2>1, <2>3, <3>1 DEF Sequential, Loaded, EndOf, NoTask, Frames, Follows
    <3>3. CASE reader' = "undefined" /\ delivered' = delivered /\ result' = result
      BY <2>1, <3>2, <3>3 DEF Positioned, DeliveredInOrder, DeliveredIncreasing, ReadStages
    <3>4. CASE currentRowIndex' = 0 /\ ReturnRow(frameCache', 0)
      <4>1. RowNumber(Head(frameCache'), 0) = 0 + 1 /\ Follows(LastRow, 0)
        BY <2>1, <3>1, FollowsFacts DEF RowNumber, LastRow
      <4>2. /\ DeliveredIncreasing' /\ (LostReplies \/ DeliveredInOrder')
            /\ LastRow' = RowNumber(frameCache'[1], 0)
            /\ result' = "row" /\ reader' = "idle"
        BY <3>1, <3>4, <4>1, ReturnRowOrder
      <4>3. frameCache'[1] = NextFrame /\ NextFrame.size > 0
        BY <2>1, <2>3, <3>1 DEF Frames
      <4> QED
        BY <2>1, <3>1, <3>2, <3>4, <4>2, <4>3 DEF Positioned, RowNumber, ReadStages
    <3> QED
      BY <1>2, <2>3, <3>3, <3>4 DEF ReadFirstFrame, Undefined
  <2> QED
    BY <2>2, <2>3
<1>3. CASE ReadFirstFrameFails
  BY <1>3 DEF ReadFirstFrameFails, RequestFails, Return, Sequential, Positioned,
              DeliveredInOrder, DeliveredIncreasing, Loaded, EndOf, ReadStages, NoTask
<1>4. CASE ReadRethrows
  <2>1. /\ task = "failed" /\ result' = "error" /\ reader' = "idle" /\ ~firstLoad
        /\ UNCHANGED <<rows, cursor, frameCache, task, frame, delivered, firstLoad>>
    BY <1>4 DEF ReadRethrows, Return
  <2>2. Sequential'
    BY <2>1 DEF Sequential, Loaded, EndOf
  <2>3. Positioned'
    BY <2>1 DEF Positioned, ReadStages
  <2> QED
    BY <2>1, <2>2, <2>3 DEF DeliveredInOrder, DeliveredIncreasing
<1>5. CASE ReadRow
  <2>1. /\ reader = "idle" /\ ~firstLoad /\ frameCache # <<>> /\ task # "failed"
        /\ currentRowIndex + 1 # frameCache[1].size
        /\ currentRowIndex' = currentRowIndex + 1
        /\ ReturnRow(frameCache, currentRowIndex + 1)
        /\ UNCHANGED <<rows, cursor, frameCache, task, frame, firstLoad>>
    BY <1>5 DEF ReadRow
  <2>2. result = "row"
    BY <1>5, <2>1 DEF ReadRow, Positioned, TypeOK, Results
  <2>3. /\ 0 <= currentRowIndex /\ currentRowIndex + 1 < frameCache[1].size
        /\ LastRow \in Nat
        /\ RowNumber(Head(frameCache), currentRowIndex + 1) = LastRow + 1
    <3>1. /\ 0 <= currentRowIndex /\ currentRowIndex < frameCache[1].size
          /\ LastRow = RowNumber(frameCache[1], currentRowIndex)
          /\ currentRowIndex \in Int
      BY <2>1, <2>2 DEF Positioned, TypeOK
    <3>2. /\ Head(frameCache) = frameCache[1]
          /\ frameCache[1].first \in Nat /\ frameCache[1].size \in Nat
      BY <2>1, HeadFrame
    <3>3. currentRowIndex + 1 < frameCache[1].size
      BY <2>1, <3>1, <3>2
    <3>4. /\ RowNumber(frameCache[1], currentRowIndex) \in Nat
          /\ RowNumber(frameCache[1], currentRowIndex + 1) = RowNumber(frameCache[1], currentRowIndex) + 1
      BY <3>1, <3>2 DEF RowNumber
    <3> QED
      BY <3>1, <3>2, <3>3, <3>4
  <2>4. /\ DeliveredIncreasing' /\ (LostReplies \/ DeliveredInOrder')
        /\ result' = "row" /\ reader' = "idle"
        /\ LastRow' = RowNumber(frameCache[1], currentRowIndex + 1)
    <3>1. Follows(LastRow, LastRow)
      BY <2>3, FollowsFacts
    <3>2. /\ TypeOK /\ DeliveredIncreasing /\ (LostReplies \/ DeliveredInOrder)
          /\ LastRow \in Nat /\ RowNumber(Head(frameCache), currentRowIndex + 1) = LastRow + 1
          /\ ReturnRow(frameCache, currentRowIndex + 1)
      BY <2>1, <2>3
    <3>3. /\ DeliveredIncreasing' /\ (LostReplies \/ DeliveredInOrder')
          /\ LastRow' = RowNumber(Head(frameCache), currentRowIndex + 1)
          /\ result' = "row" /\ reader' = "idle"
      BY ONLY <3>1, <3>2, ReturnRowOrder
    <3>4. Head(frameCache) = frameCache[1]
      BY <2>1, HeadFrame
    <3> QED
      BY <3>3, <3>4
  <2>5. Sequential'
    BY <2>1 DEF Sequential, Loaded, EndOf
  <2>6. Positioned'
    <3>1. frameCache'[1] = frameCache[1] /\ 0 <= currentRowIndex + 1
      BY <2>1, <2>3 DEF TypeOK
    <3>2. LastRow' = RowNumber(frameCache'[1], currentRowIndex')
      BY <2>1, <2>4
    <3> QED
      BY <2>1, <2>3, <2>4, <3>1, <3>2 DEF Positioned, ReadStages
  <2> QED
    BY <2>4, <2>5, <2>6
<1>6. CASE ReadEndOfFrame
  <2>1. /\ reader = "idle" /\ ~firstLoad /\ frameCache # <<>> /\ task # "failed"
        /\ currentRowIndex + 1 = frameCache[1].size
        /\ currentRowIndex' = 0 /\ reader' = "tryLoad" /\ frameCache' = Tail(frameCache)
        /\ UNCHANGED <<rows, cursor, task, frame, firstLoad, result, delivered>>
    BY <1>6 DEF ReadEndOfFrame
  <2>2. result = "row"
    BY <1>6, <2>1 DEF ReadEndOfFrame, Positioned, TypeOK, Results
  <2>3. LastRow = EndOf(frameCache[1])
    <3>1. LastRow = frameCache[1].first + currentRowIndex + 1 /\ currentRowIndex \in Int
      BY <2>1, <2>2 DEF Positioned, RowNumber, TypeOK
    <3>2. frameCache[1].first \in Nat /\ currentRowIndex + 1 = frameCache[1].size
      BY <2>1, HeadFrame
    <3> QED
      BY <3>1, <3>2 DEF EndOf
  <2>4. Sequential' /\ Follows(EndOf(frameCache[1]), Front')
    BY <2>1, PopOrder
  <2>5. LastRow' = LastRow
    BY <2>1 DEF LastRow
  <2>6. Positioned'
    BY <2>1, <2>2, <2>3, <2>4, <2>5 DEF Positioned
  <2> QED
    BY <2>1, <2>4, <2>6 DEF DeliveredInOrder, DeliveredIncreasing
<1>7. CASE ReadEmptyCache \/ CanReadFast
  <2>1. /\ reader' = "undefined" /\ ~firstLoad /\ frameCache = <<>>
        /\ UNCHANGED <<rows, cursor, frameCache, task, frame, delivered, firstLoad, result>>
    BY <1>7 DEF ReadEmptyCache, CanReadFast, Undefined
  <2>2. Sequential'
    BY <2>1 DEF Sequential, Loaded, EndOf
  <2>3. Positioned'
    BY <2>1 DEF Positioned, ReadStages
  <2> QED
    BY <2>1, <2>2, <2>3 DEF DeliveredInOrder, DeliveredIncreasing
<1> QED
  BY <1>1, <1>2, <1>3, <1>4, <1>5, <1>6, <1>7 DEF Read

LEMMA ContinueOrder ==
  ASSUME TypeOK, TypeOK', OrderInv, LoaderInv', Continue
  PROVE  OrderInv'
<1> USE DEF OrderInv, serverVars, commandVars, loadVars
<1>1. CASE TryLoad \/ Launch \/ MustWait \/ CheckEmpty \/ Wait
  <2>1. /\ reader \in ReadStages /\ reader' \in ReadStages
        /\ task' = task \/ (task # "push" /\ task' = "request")
        /\ UNCHANGED <<rows, cursor, frameCache, frame, firstLoad, currentRowIndex, result,
                       delivered>>
    <3> USE DEF ReadStages, Proceed
    <3>1. CASE TryLoad
      BY <3>1 DEF TryLoad
    <3>2. CASE Launch
      BY <3>2 DEF Launch, IsDone, TaskCreated, NoTask
    <3>3. CASE MustWait
      BY <3>3 DEF MustWait
    <3>4. CASE CheckEmpty
      BY <3>4 DEF CheckEmpty
    <3>5. CASE Wait
      BY <3>5 DEF Wait
    <3> QED
      BY <1>1, <3>1, <3>2, <3>3, <3>4, <3>5
  <2>2. Loaded' = Loaded /\ Loaded \in Nat
    BY <2>1, PositionTypes DEF Loaded
  <2>3. task' = "push" => EndOf(frame') = cursor'
    BY <2>1 DEF Sequential, EndOf
  <2>4. Sequential' /\ Follows(Front, Front')
    BY <2>1, <2>2, <2>3, FollowsFacts, SequentialMoves
  <2>5. ~firstLoad /\ result # "error"
    BY <2>1 DEF Positioned
  <2>6. Positioned'
    BY <2>1, <2>4, <2>5, PositionedMoves
  <2> QED
    BY <2>1, <2>4, <2>6 DEF DeliveredInOrder, DeliveredIncreasing
<1>2. CASE WaitThrows
  <2>1. /\ task = "failed" /\ result' = "error" /\ reader' = "idle" /\ ~firstLoad
        /\ UNCHANGED <<rows, cursor, frameCache, task, frame, delivered, firstLoad>>
    BY <1>2 DEF WaitThrows, Return, Positioned, ReadStages
  <2>2. Sequential'
    BY <2>1 DEF Sequential, Loaded, EndOf
  <2>3. Positioned'
    BY <2>1 DEF Positioned, ReadStages
  <2> QED
    BY <2>1, <2>2, <2>3 DEF DeliveredInOrder, DeliveredIncreasing
<1>3. CASE Verdict
  <2>1. /\ reader = "verdict"
        /\ UNCHANGED <<rows, cursor, frameCache, task, frame, firstLoad, currentRowIndex>>
    BY <1>3 DEF Verdict
  <2>2. currentRowIndex = 0 /\ Follows(LastRow, Front) /\ result = "row" /\ ~firstLoad
    BY <2>1 DEF Positioned, ReadStages
  <2>3. Sequential'
    BY <2>1 DEF Sequential, Loaded, EndOf
  <2>4. CASE reader' \in {"idle", "undefined"} /\ delivered' = delivered
             /\ (reader' = "undefined" \/ result' = "noData") /\ result' \in {"row", "noData"}
    BY <2>1, <2>2, <2>3, <2>4 DEF Positioned, DeliveredInOrder, DeliveredIncreasing, ReadStages
  <2>5. CASE frameCache # <<>> /\ ReturnRow(frameCache, currentRowIndex)
    <3>1. /\ RowNumber(Head(frameCache), currentRowIndex) = Front + 1 /\ Front \in Nat
          /\ Head(frameCache) = frameCache[1]
      BY <2>2, <2>5, HeadFrame DEF RowNumber, Front
    <3>2. /\ DeliveredIncreasing' /\ (LostReplies \/ DeliveredInOrder')
          /\ result' = "row" /\ reader' = "idle"
          /\ LastRow' = RowNumber(frameCache[1], currentRowIndex)
      BY <2>2, <2>5, <3>1, ReturnRowOrder
    <3>3. 0 < frameCache[1].size
      BY <2>5, HeadFrame DEF Sequential
    <3> QED
      BY <2>1, <2>2, <2>3, <2>5, <3>2, <3>3 DEF Positioned, ReadStages
  <2> QED
    BY <1>3, <2>2, <2>4, <2>5 DEF Verdict, Return, Undefined
<1> QED
  BY <1>1, <1>2, <1>3 DEF Continue

LEMMA OrderStep == TypeOK /\ OrderInv /\ [Next]_vars => OrderInv'
<1> SUFFICES ASSUME TypeOK, OrderInv, [Next]_vars PROVE OrderInv'
  OBVIOUS
<1>1. TypeOK' /\ LoaderInv'
  BY TypeStep DEF OrderInv
<1>2. CASE BeginTeardown \/ EndTeardown
  <2>1. /\ reader \in {"idle", "destroying"} /\ reader' \in {"destroying", "destroyed"}
        /\ UNCHANGED <<rows, cursor, frameCache, task, frame, firstLoad, currentRowIndex, result,
                       delivered>>
    BY <1>2 DEF BeginTeardown, EndTeardown, serverVars, loadVars
  <2>2. Sequential'
    BY <2>1 DEF OrderInv, Sequential, Loaded, EndOf
  <2>3. Positioned'
    BY <2>1 DEF OrderInv, Positioned, ReadStages
  <2> QED
    BY <1>1, <2>1, <2>2, <2>3 DEF OrderInv, DeliveredInOrder, DeliveredIncreasing
<1>3. CASE SetAsync \/ UNCHANGED vars
  BY <1>1, <1>3 DEF OrderInv, Sequential, Positioned, DeliveredInOrder, DeliveredIncreasing,
              Loaded, Front, LastRow, EndOf,
              RowNumber, SetAsync, vars, serverVars, commandVars, loadVars, readVars
<1> QED
  BY <1>1, <1>2, <1>3, LoaderOrder, ReadOrder, ContinueOrder DEF Next, Terminated

LEMMA OrderAlways == Spec => [](TypeOK /\ OrderInv)
<1>1. Init => TypeOK /\ OrderInv
  BY TypeInit, OrderInit
<1>2. TypeOK /\ OrderInv /\ [Next]_vars => (TypeOK /\ OrderInv)'
  BY TypeStep, OrderStep DEF OrderInv
<1> QED
  BY <1>1, <1>2, PTL DEF Spec

\* Unless a reply is lost, the k-th row that read() yields is row k of the result set,
\* whatever the prefetch does, for any frame sizes and any number of failed requests.
THEOREM OrderCorrect == ASSUME ~LostReplies PROVE Spec => []DeliveredInOrder
<1>1. OrderInv => DeliveredInOrder
  BY DEF OrderInv
<1> QED
  BY <1>1, OrderAlways, PTL

\* Rows come out in increasing order even when replies are lost and the server's cursor
\* moves on without the reader: rows may be missing, none is repeated or comes too late.
THEOREM IncreasingCorrect == Spec => []DeliveredIncreasing
<1>1. OrderInv => DeliveredIncreasing
  BY DEF OrderInv
<1> QED
  BY <1>1, OrderAlways, PTL

\* While the application holds a row, getColumnValue finds that row: the loader never
\* moves the front frame or the index under the reading thread.
THEOREM CurrentRowCorrect == Spec => []CurrentRowStable
<1>1. TypeOK /\ OrderInv => CurrentRowStable
  <2> SUFFICES ASSUME TypeOK, OrderInv, result = "row", reader = "idle"
               PROVE  /\ frameCache # <<>>
                      /\ RowNumber(Head(frameCache), currentRowIndex) = delivered[Len(delivered)]
    BY DEF CurrentRowStable
  <2>1. /\ frameCache # <<>> /\ 0 <= currentRowIndex /\ currentRowIndex \in Int
        /\ LastRow = RowNumber(frameCache[1], currentRowIndex)
    BY DEF OrderInv, Positioned, TypeOK
  <2>2. LastRow # 0 /\ Head(frameCache) = frameCache[1]
    BY <2>1, HeadFrame DEF RowNumber
  <2> QED
    BY <2>1, <2>2 DEF LastRow
<1> QED
  BY <1>1, OrderAlways, PTL

-----------------------------------------------------------------------------
\* A row that is read is the next one of the abstract stream.
LEMMA DeliverStep ==
  ASSUME TypeOK, result # "noData", rows' = rows, NEW cache \in Seq(Frames), NEW index \in Nat,
         cache # <<>>, index < cache[1].size, EndOf(cache[1]) <= rows,
         RowNumber(cache[1], index) = Len(delivered) + 1, ReturnRow(cache, index)
  PROVE  Stream!Deliver
<1>1. delivered' = Append(delivered, Len(delivered) + 1) /\ result' = "row"
  BY DEF ReturnRow
<1>2. Len(delivered) < rows
  <2>1. cache[1] \in Frames
    OBVIOUS
  <2> QED
    BY <2>1 DEF RowNumber, EndOf, Frames, TypeOK
<1> QED
  BY <1>1, <1>2 DEF Stream!Deliver

\* Other steps of the reader change nothing of the stream, or report its end.
LEMMA SameStream ==
  ASSUME rows' = rows, delivered' = delivered,
         \/ result' = result
         \/ result # "noData"
  PROVE  [Stream!PrefixNext]_(Stream!streamVars)
BY DEF Stream!PrefixNext, Stream!EndEarly, Stream!streamVars

\* Without lost replies the last row says how many were delivered.
LEMMA ExactRows ==
  ASSUME ~LostReplies, TypeOK, OrderInv
  PROVE  /\ LastRow = Len(delivered)
         /\ \A b : Follows(LastRow, b) => Len(delivered) = b
<1>1. LastRow = Len(delivered)
  <2>1. CASE delivered = <<>>
    BY <2>1 DEF LastRow
  <2>2. CASE delivered # <<>>
    <3>1. delivered \in Seq(Int) /\ Len(delivered) \in Nat
      BY DEF TypeOK
    <3>2. Len(delivered) \in 1..Len(delivered)
      BY <2>2, <3>1, EmptySeq
    <3> QED
      BY <2>2, <3>2 DEF LastRow, OrderInv, DeliveredInOrder
  <2> QED
    BY <2>1, <2>2
<1> QED
  BY <1>1 DEF Follows

LEMMA StreamStep ==
  ASSUME ~LostReplies, TypeOK, OrderInv, [Next]_vars
  PROVE  [Stream!PrefixNext]_(Stream!streamVars)
<1> USE DEF OrderInv, serverVars, commandVars, loadVars, readVars, Called
<1>1. CASE Loader
  <2>1. rows' = rows /\ delivered' = delivered /\ result' = result
    BY <1>1 DEF Loader, LoaderRequest, Served, RequestFails, LoaderPush, LoaderDecide,
                LoaderAdjust, LoaderReturn
  <2> QED
    BY <2>1, SameStream
<1>2. CASE ReadNoResultSet \/ ReadFirstFrameFails \/ ReadRethrows \/ ReadEndOfFrame
           \/ ReadEmptyCache \/ CanReadFast
  <2>1. rows' = rows /\ delivered' = delivered /\ result # "noData"
    BY <1>2 DEF ReadNoResultSet, ReadFirstFrameFails, RequestFails, ReadRethrows, ReadEndOfFrame,
                ReadEmptyCache, CanReadFast, Return, Undefined
  <2> QED
    BY <2>1, SameStream
<1>3. CASE ReadFirstFrame
  <2>1. /\ cursor = 0 /\ delivered = <<>> /\ rows' = rows /\ result # "noData"
        /\ NextFrame \in Frames /\ NextFrame.first = 0 /\ NextFrame.size <= rows
    BY <1>3, NextFrameType DEF ReadFirstFrame, Served, Positioned, Frames
  <2>2. CASE delivered' = delivered
    BY <2>1, <2>2, SameStream
  <2>3. CASE NextFrame.size # 0 /\ ReturnRow(<<NextFrame>>, 0)
    <3> DEFINE cache == <<NextFrame>>
    <3>1. cache \in Seq(Frames) /\ cache # <<>> /\ cache[1] = NextFrame
      BY <2>1
    <3>2. RowNumber(cache[1], 0) = Len(delivered) + 1
      BY <2>1, <3>1 DEF RowNumber
    <3>3. 0 < cache[1].size /\ EndOf(cache[1]) <= rows
      BY <2>1, <2>3, <3>1 DEF EndOf, Frames
    <3>4. ReturnRow(cache, 0)
      BY <2>3
    <3> HIDE DEF cache
    <3>5. Stream!Deliver
      BY <2>1, <3>1, <3>2, <3>3, <3>4, DeliverStep
    <3> QED
      BY <3>5 DEF Stream!PrefixNext
  <2> QED
    BY <1>3, <2>2, <2>3 DEF ReadFirstFrame, Return, Undefined
<1>4. CASE ReadRow
  <2>1. /\ frameCache # <<>> /\ task # "failed" /\ ~firstLoad /\ reader = "idle"
        /\ result # "noData"
        /\ currentRowIndex + 1 # frameCache[1].size /\ rows' = rows
        /\ ReturnRow(frameCache, currentRowIndex + 1)
    BY <1>4 DEF ReadRow
  <2>2. result = "row"
    BY <2>1 DEF Positioned, TypeOK, Results
  <2>3. /\ currentRowIndex + 1 \in Nat /\ currentRowIndex + 1 < frameCache[1].size
        /\ RowNumber(frameCache[1], currentRowIndex + 1) = Len(delivered) + 1
    <3>1. /\ Len(delivered) = frameCache[1].first + currentRowIndex + 1
          /\ 0 <= currentRowIndex /\ currentRowIndex < frameCache[1].size
          /\ currentRowIndex \in Int
      BY <2>1, <2>2, ExactRows DEF Positioned, RowNumber, TypeOK
    <3> QED
      <4>1. /\ frameCache[1].first \in Nat /\ frameCache[1].size \in Nat
            /\ currentRowIndex + 1 # frameCache[1].size
        BY <2>1, HeadFrame
      <4>2. currentRowIndex + 1 \in Nat /\ currentRowIndex + 1 < frameCache[1].size
        BY <3>1, <4>1
      <4>3. RowNumber(frameCache[1], currentRowIndex + 1) = Len(delivered) + 1
        BY <3>1, <4>1 DEF RowNumber
      <4> QED
        BY <4>2, <4>3
  <2>4. EndOf(frameCache[1]) <= rows /\ frameCache \in Seq(Frames)
    BY <2>1 DEF Sequential, TypeOK
  <2> QED
    BY <2>1, <2>3, <2>4, DeliverStep DEF Stream!PrefixNext
<1>5. CASE TryLoad \/ Launch \/ MustWait \/ CheckEmpty \/ Wait
  <2>1. rows' = rows /\ delivered' = delivered /\ result' = result
    BY <1>5 DEF TryLoad, Launch, MustWait, CheckEmpty, Wait, Proceed
  <2> QED
    BY <2>1, SameStream
<1>6. CASE WaitThrows \/ Verdict
  <2>1. /\ rows' = rows /\ result = "row" /\ currentRowIndex = 0 /\ Len(delivered) = Front
    BY <1>6, ExactRows DEF WaitThrows, Verdict, Positioned, ReadStages
  <2>2. CASE delivered' = delivered
    BY <2>1, <2>2, SameStream
  <2>3. CASE frameCache # <<>> /\ ReturnRow(frameCache, currentRowIndex)
    <3>1. /\ EndOf(frameCache[1]) <= rows /\ frameCache \in Seq(Frames)
          /\ 0 < frameCache[1].size
      BY <2>3 DEF Sequential, TypeOK
    <3>2. RowNumber(frameCache[1], 0) = Len(delivered) + 1
      BY <2>1, <2>3 DEF RowNumber, Front, TypeOK, Frames
    <3> QED
      BY <2>1, <2>3, <3>1, <3>2, DeliverStep DEF Stream!PrefixNext
  <2> QED
    BY <1>6, <2>2, <2>3 DEF WaitThrows, Verdict, Return, Undefined
<1>7. CASE SetAsync \/ BeginTeardown \/ EndTeardown \/ UNCHANGED vars
  <2>1. rows' = rows /\ delivered' = delivered /\ result' = result
    BY <1>7 DEF SetAsync, BeginTeardown, EndTeardown, vars
  <2> QED
    BY <2>1, SameStream
<1> QED
  BY <1>1, <1>2, <1>3, <1>4, <1>5, <1>6, <1>7 DEF Next, Read, Continue, Terminated

\* Unless a reply is lost, the reader implements the forward-only stream that may end
\* early: every step of read(), the loader and the destructor is a step of that stream or
\* leaves it alone.
THEOREM PrefixStreamCorrect == ASSUME ~LostReplies PROVE Spec => ImplementsPrefixStream
<1>1. Init => Stream!Init
  BY DEF Init, Stream!Init
<1>2. TypeOK /\ OrderInv /\ [Next]_vars => [Stream!PrefixNext]_(Stream!streamVars)
  BY StreamStep
<1> QED
  BY <1>1, <1>2, OrderAlways, PTL DEF Spec, ImplementsPrefixStream, Stream!PrefixSpec

-----------------------------------------------------------------------------
(***************************************************************************)
(* Two facts that hold with lost replies too.  An error is only reported   *)
(* when the task failed, or before any frame was loaded: the next read()   *)
(* then throws again or stops (ErrorInv).  A new load starts right after   *)
(* the front frame was discarded (CacheInv).                               *)
(***************************************************************************)
ErrorInv ==
  /\ firstLoad => frameCache = <<>> /\ task = NoTask
  /\ reader \in ReadStages => hasData /\ ~firstLoad
  /\ result = "error" =>
       /\ hasData /\ ~firstLoad /\ reader \notin ReadStages
       /\ task = "failed" \/ (task = NoTask /\ frameCache = <<>>)

\* The frame that is being loaded counts.
InFlight == IF task \in {"request", "push"} THEN 1 ELSE 0
CacheInv == Len(frameCache) + InFlight <= IF reader \in {"tryLoad", "launch"} THEN 1 ELSE 2

LEMMA ErrorStep ==
  ASSUME ErrorInv, [Next]_vars
  PROVE  ErrorInv' /\ (result = "error" => result' = "error")
<1> USE DEF ErrorInv, ReadStages, NoTask
<1>1. CASE Loader
  <2>1. /\ task \in LoadStages /\ task' # NoTask
        /\ UNCHANGED <<firstLoad, hasData, result>>
        /\ reader' \in {reader, "undefined"}
    BY <1>1 DEF Loader, LoaderRequest, LoaderPush, LoaderDecide, LoaderAdjust, LoaderReturn,
                LoadStages, commandVars, readVars
  <2> QED
    BY <2>1 DEF LoadStages
<1>2. CASE Read
  <2>1. CASE ReadNoResultSet
    BY <2>1 DEF ReadNoResultSet, Called, Return, loadVars
  <2>2. CASE ReadFirstFrame
    BY <2>2 DEF ReadFirstFrame, Called, Return, ReturnRow, Undefined, commandVars, loadVars
  <2>3. CASE ReadFirstFrameFails
    BY <2>3 DEF ReadFirstFrameFails, Called, Return, commandVars, loadVars
  <2>4. CASE ReadRethrows
    BY <2>4 DEF ReadRethrows, Called, Return, commandVars, loadVars
  <2>5. CASE ReadRow
    BY <2>5 DEF ReadRow, Called, ReturnRow, commandVars, loadVars
  <2>6. CASE ReadEndOfFrame
    BY <2>6 DEF ReadEndOfFrame, Called, commandVars
  <2>7. CASE ReadEmptyCache \/ CanReadFast
    BY <2>7 DEF ReadEmptyCache, CanReadFast, Called, Undefined, commandVars, loadVars
  <2> QED
    BY <1>2, <2>1, <2>2, <2>3, <2>4, <2>5, <2>6, <2>7 DEF Read
<1>3. CASE Continue
  <2>1. CASE TryLoad \/ Launch \/ MustWait \/ CheckEmpty \/ Wait
    BY <2>1 DEF TryLoad, Launch, MustWait, CheckEmpty, Wait, Proceed, commandVars
  <2>2. CASE WaitThrows
    BY <2>2 DEF WaitThrows, Return, commandVars, loadVars
  <2>3. CASE Verdict
    BY <2>3 DEF Verdict, Return, ReturnRow, Undefined, commandVars, loadVars
  <2> QED
    BY <1>3, <2>1, <2>2, <2>3 DEF Continue
<1>4. CASE SetAsync \/ BeginTeardown \/ EndTeardown \/ UNCHANGED vars
  BY <1>4 DEF SetAsync, BeginTeardown, EndTeardown, vars, serverVars, commandVars, loadVars,
              readVars
<1> QED
  BY <1>1, <1>2, <1>3, <1>4 DEF Next, Terminated

\* Once read() has thrown it throws for good, or its outcome is undefined; it never
\* yields a row or the end of data again, whatever requests fail and replies are lost.
THEOREM ErrorFinalCorrect == Spec => ErrorIsFinal
<1>1. Init => ErrorInv
  BY DEF Init, ErrorInv, ReadStages
<1>2. ErrorInv /\ [Next]_vars => ErrorInv'
  BY ErrorStep
<1>3. ErrorInv /\ [Next]_vars => [result = "error" => result' = "error"]_vars
  BY ErrorStep
<1> QED
  BY <1>1, <1>2, <1>3, PTL DEF Spec, ErrorIsFinal

LEMMA CacheStep == TypeOK /\ CacheInv /\ [Next]_vars => CacheInv'
<1> SUFFICES ASSUME TypeOK, CacheInv, [Next]_vars PROVE CacheInv'
  OBVIOUS
<1> USE DEF CacheInv, InFlight
<1>0. Len(frameCache) \in Nat
  BY DEF TypeOK
<1>1. CASE Loader
  <2>1. CASE LoaderRequest
    BY <1>0, <2>1 DEF LoaderRequest
  <2>2. CASE LoaderPush
    <3>1. Len(frameCache') = Len(frameCache) + 1
      BY <2>2 DEF LoaderPush, TypeOK
    <3> QED
      BY <1>0, <2>2, <3>1 DEF LoaderPush, readVars
  <2>3. CASE LoaderDecide \/ LoaderAdjust \/ LoaderReturn
    BY <1>0, <2>3 DEF LoaderDecide, LoaderAdjust, LoaderReturn, readVars
  <2> QED
    BY <1>1, <2>1, <2>2, <2>3 DEF Loader
<1>2. CASE Read
  <2>1. CASE ReadFirstFrame
    <3>1. CASE NextFrame.size = 0
      BY <1>0, <2>1, <3>1 DEF ReadFirstFrame, Return, loadVars
    <3>2. CASE NextFrame.size # 0
      <4>1. Len(frameCache') = 1
        BY <2>1, <3>2 DEF ReadFirstFrame
      <4>2. reader' \in {"idle", "undefined"}
        BY <2>1, <3>2 DEF ReadFirstFrame, ReturnRow, Undefined
      <4> QED
        BY <4>1, <4>2
    <3> QED
      BY <3>1, <3>2
  <2>2. CASE ReadEndOfFrame
    <3>1. Len(frameCache') = Len(frameCache) - 1
      BY <2>2 DEF ReadEndOfFrame, TypeOK
    <3> QED
      BY <1>0, <2>2, <3>1 DEF ReadEndOfFrame, Called
  <2>3. CASE \/ ReadNoResultSet \/ ReadFirstFrameFails \/ ReadRethrows \/ ReadRow
             \/ ReadEmptyCache \/ CanReadFast
    BY <1>0, <2>3 DEF ReadNoResultSet, ReadFirstFrameFails, ReadRethrows, ReadRow,
                      ReadEmptyCache, CanReadFast, Called, Return, ReturnRow, Undefined, loadVars
  <2> QED
    BY <1>2, <2>1, <2>2, <2>3 DEF Read
<1>3. CASE Continue
  <2>1. CASE Launch
    BY <1>0, <2>1 DEF Launch, Proceed
  <2>2. CASE TryLoad \/ MustWait \/ CheckEmpty \/ Wait
    BY <1>0, <2>2 DEF TryLoad, MustWait, CheckEmpty, Wait, Proceed
  <2>3. CASE WaitThrows \/ Verdict
    BY <1>0, <2>3 DEF WaitThrows, Verdict, Return, ReturnRow, Undefined, loadVars
  <2> QED
    BY <1>3, <2>1, <2>2, <2>3 DEF Continue
<1>4. CASE SetAsync \/ BeginTeardown \/ EndTeardown \/ UNCHANGED vars
  BY <1>0, <1>4 DEF SetAsync, BeginTeardown, EndTeardown, vars, loadVars, readVars
<1> QED
  BY <1>1, <1>2, <1>3, <1>4 DEF Next, Terminated

\* The prefetch stays one frame ahead, for frames of any size and however often requests
\* fail or replies are lost.
THEOREM CacheCorrect == Spec => []CacheBounded
<1>1. Init => CacheInv
  BY DEF Init, CacheInv, InFlight, NoTask
<1>2. TypeOK /\ CacheInv /\ [Next]_vars => CacheInv'
  BY CacheStep
<1>3. TypeOK /\ CacheInv => CacheBounded
  BY DEF TypeOK, CacheInv, InFlight, CacheBounded
<1> QED
  BY <1>1, <1>2, <1>3, TypeCorrect, PTL DEF Spec

-----------------------------------------------------------------------------
(***************************************************************************)
(* What the reader touches exists.  Two ways out are ruled out by          *)
(* hypotheses, they are the code's: a response without Content-Length      *)
(* divides by zero, and Statement::reset destroys the command before the   *)
(* reader.  The rest is a matter of order: the command outlives a task     *)
(* that is on its way, the thread passes the wait with a frame or with a   *)
(* finished task, and the cache is empty between two calls only after an   *)
(* error, whose task is still there unless it was the first request's.     *)
(***************************************************************************)
AliveInv ==
  /\ failures <= MaxFailures
  /\ reader # "destroyed" => commandAlive
  /\ reader = "destroyed" => task \notin LoadStages
  /\ task # "crashed" /\ (task = "failed" => failures < MaxFailures)
  /\ reader = "verdict" => frameCache # <<>> \/ task \notin LoadStages
  /\ result = "error" => failures < MaxFailures /\ (task = "failed" \/ delivered = <<>>)
  /\ UndefinedOnlyAfterError

\* A full frame of rows that take some bytes makes no zero divisor.
LEMMA OneRowPositive ==
  ASSUME NEW bytes \in Nat \ {0}, fetchSize \in Nat \ {0}
  PROVE  OneRow(bytes * fetchSize) # 0
<1> DEFINE all == bytes * fetchSize
<1>1. all \in Nat /\ all >= fetchSize
  OBVIOUS
<1> HIDE DEF all
<1>2. all \div fetchSize # 0
  BY <1>1
<1> QED
  BY <1>2 DEF all, OneRow

LEMMA LoaderAlive ==
  ASSUME 0 \notin RowBytes, TypeOK, LoaderInv, ErrorInv, AliveInv, Loader
  PROVE  AliveInv'
<1> USE DEF AliveInv, UndefinedOnlyAfterError, LoadStages, serverVars, commandVars, readVars
<1>0. result # "error" /\ reader # "undefined"
  BY DEF Loader, LoaderRequest, LoaderPush, LoaderDecide, LoaderAdjust, LoaderReturn, ErrorInv,
         NoTask
<1>1. CASE LoaderRequest
  <2>1. /\ task = "request" /\ commandAlive /\ reader' = reader
        /\ UNCHANGED <<commandVars, frameCache, result, delivered>>
        /\ \/ task' \in {"push", "done"} /\ failures' = failures
           \/ task' = "failed" /\ failures' = failures - 1
    BY <1>1 DEF LoaderRequest, Served, RequestFails
  <2>2. failures \in Nat /\ MaxFailures \in Nat
    BY QueryReaderAssumption DEF TypeOK
  <2>3. failures' <= MaxFailures /\ (failures' # failures => failures' < MaxFailures)
    BY <2>1, <2>2
  <2> QED
    BY <1>0, <2>1, <2>2, <2>3
<1>2. CASE LoaderPush
  <2>1. frameCache' # <<>>
    BY <1>2, EmptySeq DEF LoaderPush, TypeOK
  <2> QED
    BY <1>0, <1>2, <2>1 DEF LoaderPush
<1>3. CASE LoaderDecide \/ LoaderReturn
  BY <1>3 DEF LoaderDecide, LoaderReturn
<1>4. CASE LoaderAdjust
  <2>1. /\ task = "adjust" /\ frame.size = fetchSize /\ fetchSize \in Nat \ {0}
        /\ UNCHANGED <<failures, commandAlive, frameCache, result, delivered>>
    BY <1>4 DEF LoaderAdjust, LoaderInv, TypeOK
  <2>2. \A bytes \in RowBytes : OneRow(bytes * frame.size) # 0
    BY <2>1, OneRowPositive, QueryReaderAssumption
  <2>3. task' = "return" /\ reader' = reader
    BY <1>4, <2>2 DEF LoaderAdjust
  <2> QED
    BY <2>1, <2>3
<1> QED
  BY <1>1, <1>2, <1>3, <1>4 DEF Loader

LEMMA ReadAlive ==
  ASSUME 0 \notin RowBytes, TypeOK, OrderInv, ErrorInv, AliveInv, Read
  PROVE  AliveInv'
<1> USE DEF AliveInv, UndefinedOnlyAfterError, LoadStages, serverVars, commandVars, loadVars, Called
<1>1. CASE ReadNoResultSet
  BY <1>1 DEF ReadNoResultSet, Return
<1>2. CASE ReadFirstFrame
  <2>1. /\ failures' = failures /\ commandAlive' = commandAlive /\ result # "error"
        /\ delivered = <<>> /\ task = NoTask /\ reader = "idle"
    BY <1>2 DEF ReadFirstFrame, Served, OrderInv, Positioned
  <2>2. \A bytes \in RowBytes : NextFrame.size = fetchSize /\ NextFrame.size # 0 =>
                                  OneRow(bytes * NextFrame.size) # 0
    BY OneRowPositive, QueryReaderAssumption DEF TypeOK
  <2>3. /\ reader' = "idle" /\ result' \in {"row", "noData"}
        /\ task' \in {NoTask, "request"}
    BY <1>2, <2>1, <2>2 DEF ReadFirstFrame, Return, ReturnRow
  <2> QED
    BY <2>1, <2>3 DEF NoTask
<1>3. CASE ReadFirstFrameFails
  <2>1. /\ failures' = failures - 1 /\ failures > 0 /\ delivered' = delivered
        /\ delivered = <<>> /\ reader = "idle" /\ reader' = "idle" /\ result' = "error"
        /\ UNCHANGED <<commandAlive, frameCache, task>>
    BY <1>3 DEF ReadFirstFrameFails, RequestFails, Return, OrderInv, Positioned
  <2>2. failures \in Nat /\ MaxFailures \in Nat
    BY QueryReaderAssumption DEF TypeOK
  <2> QED
    BY <2>1, <2>2
<1>4. CASE ReadRethrows
  BY <1>4 DEF ReadRethrows, Return
<1>5. CASE ReadRow
  BY <1>5 DEF ReadRow, ReturnRow, ErrorInv
<1>6. CASE ReadEndOfFrame
  BY <1>6 DEF ReadEndOfFrame, ErrorInv
<1>7. CASE ReadEmptyCache \/ CanReadFast
  <2>1. /\ reader = "idle" /\ result \in {"none", "row", "error"} /\ ~firstLoad
        /\ frameCache = <<>> /\ (isAsync \/ task # "failed")
    BY <1>7 DEF ReadEmptyCache, CanReadFast, TypeOK, Results
  <2>2. result = "error"
    BY <2>1 DEF OrderInv, Positioned
  <2> QED
    BY <1>7, <2>1, <2>2 DEF ReadEmptyCache, CanReadFast, Undefined
<1> QED
  BY <1>1, <1>2, <1>3, <1>4, <1>5, <1>6, <1>7 DEF Read

LEMMA ContinueAlive ==
  ASSUME TypeOK, ErrorInv, AliveInv, Continue
  PROVE  AliveInv'
<1> USE DEF AliveInv, UndefinedOnlyAfterError, LoadStages, serverVars, commandVars, loadVars,
            NoTask, IsDone, TaskCreated
<1>1. CASE TryLoad \/ CheckEmpty \/ Wait
  BY <1>1 DEF TryLoad, CheckEmpty, Wait, Proceed
<1>2. CASE Launch
  BY <1>2 DEF Launch, Proceed, ErrorInv, ReadStages
<1>3. CASE MustWait
  BY <1>3 DEF MustWait, Proceed
<1>4. CASE WaitThrows
  BY <1>4 DEF WaitThrows, Return
<1>5. CASE Verdict
  <2>1. frameCache # <<>> \/ ~(TaskCreated /\ ~IsDone)
    BY <1>5 DEF Verdict, TypeOK, TaskStates
  <2>2. result # "error"
    BY <1>5 DEF Verdict, ErrorInv, ReadStages
  <2> QED
    BY <1>5, <2>1, <2>2 DEF Verdict, Return, ReturnRow
<1> QED
  BY <1>1, <1>2, <1>3, <1>4, <1>5 DEF Continue

LEMMA AliveStep ==
  ASSUME 0 \notin RowBytes, "reset" \notin Teardowns, TypeOK, OrderInv, ErrorInv, AliveInv,
         [Next]_vars
  PROVE  AliveInv'
<1> USE DEF AliveInv, UndefinedOnlyAfterError
<1>1. CASE BeginTeardown
  BY <1>1 DEF BeginTeardown, serverVars, loadVars
<1>2. CASE EndTeardown
  BY <1>2 DEF EndTeardown, serverVars, loadVars, IsDone, TaskCreated, NoTask, LoadStages
<1>3. CASE SetAsync \/ UNCHANGED vars
  BY <1>3 DEF SetAsync, vars, serverVars, commandVars, loadVars, readVars
<1> QED
  BY <1>1, <1>2, <1>3, LoaderAlive, ReadAlive, ContinueAlive DEF Next, Terminated, OrderInv

\* When every response has a length and the destructor ends the reader, behaviour is
\* undefined only when the application fetches again after an error that left the frame
\* cache empty, and in synchronous mode only if no row was ever delivered: whichever way
\* read(), canReadFast, the loader and the destructor interleave, and whatever is lost.
THEOREM UndefinedCorrect ==
  ASSUME 0 \notin RowBytes, "reset" \notin Teardowns
  PROVE  Spec => []UndefinedOnlyAfterError
<1>1. Init => ErrorInv /\ AliveInv
  BY QueryReaderAssumption
     DEF Init, ErrorInv, AliveInv, UndefinedOnlyAfterError, ReadStages, LoadStages, NoTask
<1>2. TypeOK /\ OrderInv /\ (ErrorInv /\ AliveInv) /\ [Next]_vars => (ErrorInv /\ AliveInv)'
  BY ErrorStep, AliveStep
<1>3. Spec => [](ErrorInv /\ AliveInv)
  BY <1>1, <1>2, OrderAlways, PTL DEF Spec
<1>4. ErrorInv /\ AliveInv => UndefinedOnlyAfterError
  BY DEF AliveInv
<1> QED
  BY <1>3, <1>4, PTL

-----------------------------------------------------------------------------
(***************************************************************************)
(* The end of the data.  As long as no request failed and the loader was   *)
(* not overtaken (Undisturbed), the reading thread is always supplied: in  *)
(* read() after the launch, a frame is in the cache or on its way, or the  *)
(* server has handed out everything.                                       *)
(***************************************************************************)
Undisturbed == ~overtaken /\ failures = MaxFailures

Supplied ==
  /\ moreFrames \/ cursor = rows
  /\ task \in {"push", "decide"} =>
       frame.size <= fetchSize /\ (frame.size = fetchSize \/ cursor = rows)
  /\ reader \in {"tryLoad", "launch"} /\ task \in {"decide", "adjust", "return"} =>
       frameCache # <<>>
  /\ reader \in {"mustWait", "checkEmpty", "wait", "verdict"} =>
       frameCache # <<>> \/ task \in {"request", "push"} \/ cursor = rows

SupplyInv ==
  /\ fetchSize > 0
  /\ failures <= MaxFailures
  /\ hasData \/ (rows = 0 /\ delivered = <<>>)
  /\ task = "crashed" => reader = "undefined"
  /\ Undisturbed => Supplied

\* A row that fits into the optimal response leaves a fetch size of one row or more.
LEMMA AdjustPositive ==
  ASSUME TypeOK, fetchSize > 0, NEW bytes \in RowBytes, bytes <= OPTIMAL_RESPONSE_SIZE_IN_BYTES,
         OneRow(bytes * fetchSize) # 0
  PROVE  AdjustedFetchSize(bytes * fetchSize) > 0
<1> DEFINE all == bytes * fetchSize
           row == all \div fetchSize
<1>1. bytes \in Nat /\ fetchSize \in Nat /\ all \in Nat
  BY QueryReaderAssumption DEF TypeOK
<1>2. row \in Nat /\ row # 0
  BY <1>1 DEF OneRow
<1>3. row <= bytes
  <2>1. all < (bytes + 1) * fetchSize
    BY <1>1
  <2>2. \A n, k \in Nat : n < (k + 1) * fetchSize => n \div fetchSize <= k
    BY <1>1
  <2> HIDE DEF all
  <2> QED
    BY <1>1, <2>1, <2>2
<1> HIDE DEF row
<1>4. OPTIMAL_RESPONSE_SIZE_IN_BYTES \div row > 0
  BY <1>1, <1>2, <1>3, QueryReaderAssumption
<1> QED
  BY <1>4 DEF row, AdjustedFetchSize, OneRow

\* A request is answered with a full frame, or with all that is left.
LEMMA FullOrLast ==
  ASSUME TypeOK, LoaderInv, fetchSize > 0, Served
  PROVE  /\ NextFrame.size <= fetchSize
         /\ NextFrame.size = fetchSize \/ cursor' = rows
         /\ NextFrame.size = 0 => cursor' = rows
         /\ cursor = rows => cursor' = rows
         /\ rows' = rows /\ failures' = failures
BY DEF TypeOK, LoaderInv, Served, NextFrame, Smaller

LEMMA FetchSizeStep ==
  ASSUME \A bytes \in RowBytes : bytes <= OPTIMAL_RESPONSE_SIZE_IN_BYTES,
         TypeOK, LoaderInv, fetchSize > 0, [Next]_vars
  PROVE  fetchSize' > 0
<1>1. CASE LoaderAdjust
  <2>1. PICK bytes \in RowBytes :
          fetchSize' = fetchSize
          \/ (OneRow(bytes * frame.size) # 0 /\ fetchSize' = AdjustedFetchSize(bytes * frame.size))
    BY <1>1 DEF LoaderAdjust
  <2>2. frame.size = fetchSize
    BY <1>1 DEF LoaderAdjust, LoaderInv
  <2> QED
    BY <2>1, <2>2, AdjustPositive
<1>2. CASE ReadFirstFrame
  <2>1. CASE NextFrame.size # 0 /\ NextFrame.size = fetchSize
    <3>1. PICK bytes \in RowBytes :
            fetchSize' = fetchSize
            \/ (OneRow(bytes * NextFrame.size) # 0
                /\ fetchSize' = AdjustedFetchSize(bytes * NextFrame.size))
      BY <1>2, <2>1 DEF ReadFirstFrame
    <3> QED
      BY <2>1, <3>1, AdjustPositive
  <2>2. CASE NextFrame.size = 0 \/ NextFrame.size # fetchSize
    BY <1>2, <2>2 DEF ReadFirstFrame, loadVars
  <2> QED
    BY <2>1, <2>2
<1>3. CASE LoaderRequest \/ LoaderPush \/ LoaderDecide \/ LoaderReturn
  BY <1>3 DEF LoaderRequest, LoaderPush, LoaderDecide, LoaderReturn
<1>4. CASE ReadNoResultSet \/ ReadFirstFrameFails \/ ReadRethrows \/ ReadRow \/ ReadEndOfFrame
           \/ ReadEmptyCache \/ CanReadFast
  BY <1>4 DEF ReadNoResultSet, ReadFirstFrameFails, ReadRethrows, ReadRow, ReadEndOfFrame,
              ReadEmptyCache, CanReadFast, loadVars
<1>5. CASE Continue
  BY <1>5 DEF Continue, TryLoad, Launch, MustWait, CheckEmpty, Wait, Proceed, WaitThrows, Verdict,
              loadVars
<1>6. CASE SetAsync \/ BeginTeardown \/ EndTeardown \/ UNCHANGED vars
  BY <1>6 DEF SetAsync, BeginTeardown, EndTeardown, loadVars, vars
<1> QED
  BY <1>1, <1>2, <1>3, <1>4, <1>5, <1>6 DEF Next, Loader, Read, Terminated

\* Failures only run out, a query without a result set has no rows, and a loader that
\* crashed took the program with it.
LEMMA BoundsStep ==
  ASSUME TypeOK, LoaderInv, ErrorInv, failures <= MaxFailures,
         hasData \/ (rows = 0 /\ delivered = <<>>),
         task = "crashed" => reader = "undefined", [Next]_vars
  PROVE  /\ failures' <= failures
         /\ hasData' \/ (rows' = 0 /\ delivered' = <<>>)
         /\ task' = "crashed" => reader' = "undefined"
<1>0. failures \in Nat /\ MaxFailures \in Nat
  BY QueryReaderAssumption DEF TypeOK
<1> USE DEF serverVars, commandVars, loadVars, readVars
<1>1. CASE Loader
  <2>1. failures' <= failures /\ UNCHANGED <<rows, hasData, delivered>>
    BY <1>0, <1>1 DEF Loader, LoaderRequest, Served, RequestFails, LoaderPush, LoaderDecide,
                      LoaderAdjust, LoaderReturn
  <2>2. task' = "crashed" => reader' = "undefined"
    BY <1>1 DEF Loader, LoaderRequest, LoaderPush, LoaderDecide, LoaderAdjust, LoaderReturn
  <2> QED
    BY <2>1, <2>2
<1>2. CASE Read
  <2>1. CASE ReadNoResultSet
    BY <1>0, <2>1 DEF ReadNoResultSet, Return, Called
  <2>2. CASE ReadFirstFrame
    <3>1. failures' = failures /\ rows' = rows /\ hasData' /\ task # "crashed"
      BY <2>2 DEF ReadFirstFrame, Served, Called
    <3>2. task' # "crashed"
      BY <2>2, <3>1 DEF ReadFirstFrame
    <3> QED
      BY <1>0, <3>1, <3>2
  <2>3. CASE ReadFirstFrameFails
    BY <1>0, <2>3 DEF ReadFirstFrameFails, RequestFails, Called
  <2>4. CASE ReadRethrows \/ ReadRow \/ ReadEndOfFrame \/ ReadEmptyCache \/ CanReadFast
    BY <1>0, <2>4 DEF ReadRethrows, ReadRow, ReadEndOfFrame, ReadEmptyCache, CanReadFast, Called
  <2> QED
    BY <1>2, <2>1, <2>2, <2>3, <2>4 DEF Read
<1>3. CASE Continue
  <2>1. CASE TryLoad \/ Launch \/ MustWait \/ CheckEmpty \/ Wait
    BY <1>0, <2>1 DEF TryLoad, Launch, MustWait, CheckEmpty, Wait, Proceed
  <2>2. CASE WaitThrows
    BY <1>0, <2>2 DEF WaitThrows, Return
  <2>3. CASE Verdict
    <3>1. UNCHANGED <<failures, rows, hasData, task, frameCache>> /\ reader = "verdict"
      BY <2>3 DEF Verdict
    <3>2. hasData
      BY <3>1 DEF ErrorInv, ReadStages
    <3> QED
      BY <1>0, <3>1, <3>2
  <2> QED
    BY <1>3, <2>1, <2>2, <2>3 DEF Continue
<1>4. CASE SetAsync \/ BeginTeardown \/ EndTeardown \/ UNCHANGED vars
  BY <1>0, <1>4 DEF SetAsync, BeginTeardown, EndTeardown, vars, IsDone, TaskCreated, NoTask
<1> QED
  BY <1>1, <1>2, <1>3, <1>4 DEF Next, Terminated

LEMMA SuppliedStep ==
  ASSUME TypeOK, LoaderInv, SupplyInv, Supplied, [Next]_vars,
         failures' = failures, ~Overtakes
  PROVE  Supplied'
<1> USE DEF Supplied, commandVars, loadVars, readVars
<1>0. fetchSize > 0 /\ (task = "crashed" => reader = "undefined")
  BY DEF SupplyInv
<1>1. CASE LoaderRequest
  <2>1. /\ task = "request" /\ UNCHANGED <<frameCache, moreFrames, fetchSize>>
        /\ \/ Served /\ frame' = NextFrame /\ reader' = reader
              /\ task' = IF NextFrame.size > 0 THEN "push" ELSE "done"
           \/ task' = "crashed" /\ reader' = "undefined" /\ UNCHANGED serverVars
    BY <1>1 DEF LoaderRequest, RequestFails, TypeOK
  <2>2. CASE Served /\ frame' = NextFrame /\ reader' = reader
             /\ task' = IF NextFrame.size > 0 THEN "push" ELSE "done"
    <3>1. NextFrame.size \in Nat
      BY NextFrameType DEF Frames
    <3> QED
      BY <1>0, <2>1, <2>2, <3>1, FullOrLast
  <2>3. CASE task' = "crashed" /\ reader' = "undefined" /\ UNCHANGED serverVars
    BY <2>1, <2>3 DEF serverVars
  <2> QED
    BY <2>1, <2>2, <2>3
<1>2. CASE LoaderPush
  <2>1. frameCache' # <<>>
    BY <1>2, EmptySeq DEF LoaderPush, TypeOK
  <2> QED
    BY <1>2, <2>1 DEF LoaderPush, serverVars
<1>3. CASE LoaderDecide
  BY <1>3 DEF LoaderDecide, serverVars
<1>4. CASE LoaderAdjust
  BY <1>4 DEF LoaderAdjust, serverVars
<1>5. CASE LoaderReturn
  BY <1>5 DEF LoaderReturn, serverVars
<1>6. CASE ReadFirstFrame
  <2>1. /\ Served /\ reader = "idle" /\ reader' \in {"idle", "undefined"}
        /\ task' \in {task, "request"} /\ frame' = frame
        /\ fetchSize' = fetchSize \/ task' = "request"
        /\ \/ NextFrame.size = 0 /\ moreFrames' = moreFrames
           \/ moreFrames' = (NextFrame.size = fetchSize)
    BY <1>6 DEF ReadFirstFrame, Called, Return, ReturnRow, Undefined
  <2> QED
    BY <1>0, <2>1, FullOrLast
<1>7. CASE ReadEndOfFrame
  BY <1>7 DEF ReadEndOfFrame, Called, Overtakes, serverVars
<1>8. CASE ReadNoResultSet \/ ReadRethrows \/ ReadRow \/ ReadEmptyCache \/ CanReadFast
  BY <1>8 DEF ReadNoResultSet, ReadRethrows, ReadRow, ReadEmptyCache, CanReadFast, Return,
              ReturnRow,
              Undefined, serverVars
<1>9. CASE ReadFirstFrameFails
  BY <1>9 DEF ReadFirstFrameFails, RequestFails, TypeOK
<1>10. CASE TryLoad \/ MustWait \/ CheckEmpty \/ Wait
  BY <1>10 DEF TryLoad, MustWait, CheckEmpty, Wait, Proceed, serverVars, IsDone, TaskCreated
<1>11. CASE Launch
  <2>1. /\ reader = "launch" /\ reader' = "mustWait"
        /\ task' = IF ~TaskCreated \/ IsDone THEN "request" ELSE task
        /\ UNCHANGED <<rows, cursor, frameCache, moreFrames, frame, fetchSize>>
    BY <1>11 DEF Launch, Proceed, serverVars
  <2>2. task \in LoadStages \/ task' = "request"
    BY <1>0, <2>1 DEF TypeOK, TaskStates, TaskCreated, IsDone
  <2> QED
    BY <2>1, <2>2 DEF LoadStages
<1>12. CASE WaitThrows \/ Verdict
  BY <1>12 DEF WaitThrows, Verdict, Return, ReturnRow, Undefined, serverVars
<1>13. CASE SetAsync \/ BeginTeardown \/ EndTeardown \/ UNCHANGED vars
  BY <1>13 DEF SetAsync, BeginTeardown, EndTeardown, vars, serverVars
<1> QED
  BY <1>1, <1>2, <1>3, <1>4, <1>5, <1>6, <1>7, <1>8, <1>9, <1>10, <1>11, <1>12, <1>13
     DEF Next, Loader, Read, Continue, Terminated

LEMMA SupplyStep ==
  ASSUME \A bytes \in RowBytes : bytes <= OPTIMAL_RESPONSE_SIZE_IN_BYTES,
         TypeOK, LoaderInv, ErrorInv, SupplyInv, [MCNext]_MCVars
  PROVE  /\ SupplyInv'
         /\ Undisturbed' => Undisturbed
<1>1. [Next]_vars /\ (overtaken' = overtaken \/ overtaken' = (overtaken \/ Overtakes))
  BY DEF MCNext, MCVars
<1>2. fetchSize' > 0
  BY <1>1, FetchSizeStep DEF SupplyInv
<1>3. /\ failures' <= failures
      /\ hasData' \/ (rows' = 0 /\ delivered' = <<>>)
      /\ task' = "crashed" => reader' = "undefined"
  BY <1>1, BoundsStep DEF SupplyInv
<1>4. failures \in Nat /\ failures' \in Nat /\ MaxFailures \in Nat /\ failures <= MaxFailures
  <2>1. TypeOK'
    BY <1>1, TypeStep
  <2> QED
    BY <2>1, QueryReaderAssumption DEF TypeOK, SupplyInv
<1>5. ASSUME Undisturbed' PROVE Undisturbed /\ Supplied'
  <2>1. failures' = failures /\ failures = MaxFailures /\ ~overtaken
    <3>1. failures' = failures /\ failures = MaxFailures
      BY <1>3, <1>4, <1>5 DEF Undisturbed
    <3>2. ~overtaken
      BY <1>1, <1>5, Zenon DEF Undisturbed
    <3> QED
      BY <3>1, <3>2
  <2>2. CASE UNCHANGED MCVars
    BY <2>1, <2>2, <1>1, <1>2 DEF SupplyInv, Supplied, Undisturbed, MCVars, vars, serverVars,
                                  commandVars, loadVars, readVars
  <2>3. CASE MCNext
    <3>1. ~Overtakes
      BY <1>5, <2>3 DEF MCNext, Undisturbed
    <3> QED
      BY <1>1, <2>1, <3>1, SuppliedStep DEF SupplyInv, Undisturbed
  <2> QED
    BY <2>2, <2>3
<1> QED
  BY <1>2, <1>3, <1>4, <1>5 DEF SupplyInv

\* Undisturbed, the end is reported after the last row.
LEMMA EndComplete ==
  ASSUME ~LostReplies, TypeOK, OrderInv, SupplyInv, Undisturbed, [Next]_vars,
         result # "noData", result' = "noData"
  PROVE  Len(delivered) = rows
<1>0. Supplied /\ fetchSize > 0 /\ LoaderInv
  BY DEF SupplyInv, OrderInv
<1>1. CASE ReadNoResultSet
  BY <1>1 DEF ReadNoResultSet, SupplyInv
<1>2. CASE ReadFirstFrame
  <2>1. cursor = 0 /\ delivered = <<>> /\ Served /\ NextFrame.size = 0
    BY <1>2 DEF ReadFirstFrame, OrderInv, Positioned, ReturnRow, Undefined
  <2>2. rows = 0
    BY <1>0, <2>1, FullOrLast DEF Served, TypeOK
  <2> QED
    BY <2>1, <2>2
<1>3. CASE Verdict
  <2>1. reader = "verdict" /\ Follows(LastRow, Front)
    BY <1>3 DEF Verdict, OrderInv, Positioned, ReadStages
  <2>2. frameCache = <<>> /\ ~(TaskCreated /\ ~IsDone)
    <3>1. frameCache # <<>> => Head(frameCache).size > 0
      BY HeadFrame DEF OrderInv, Sequential
    <3> QED
      BY <1>3, <3>1 DEF Verdict, ReturnRow, Undefined
  <2>3. cursor = rows /\ Front = cursor
    BY <1>0, <2>1, <2>2 DEF Supplied, Front, Loaded, TaskCreated, IsDone, NoTask
  <2> QED
    BY <2>1, <2>3, ExactRows
<1>4. result' = result \/ result' # "noData" \/ ReadNoResultSet \/ ReadFirstFrame \/ Verdict
  <2> USE DEF readVars, Return, ReturnRow, Undefined
  <2>1. CASE Loader
    BY <2>1 DEF Loader, LoaderRequest, LoaderPush, LoaderDecide, LoaderAdjust, LoaderReturn
  <2>2. CASE Read
    BY <2>2 DEF Read, ReadFirstFrameFails, ReadRethrows, ReadRow, ReadEndOfFrame, ReadEmptyCache,
                CanReadFast
  <2>3. CASE Continue
    BY <2>3 DEF Continue, TryLoad, Launch, MustWait, CheckEmpty, Wait, Proceed, WaitThrows
  <2>4. CASE SetAsync \/ BeginTeardown \/ EndTeardown \/ UNCHANGED vars
    BY <2>4 DEF SetAsync, BeginTeardown, EndTeardown, vars
  <2> QED
    BY <2>1, <2>2, <2>3, <2>4 DEF Next, Terminated
<1> QED
  BY <1>1, <1>2, <1>3, <1>4

StreamInv == TypeOK /\ OrderInv /\ ErrorInv /\ SupplyInv

LEMMA StreamInvInit == MCInit => StreamInv
<1> SUFFICES ASSUME MCInit PROVE StreamInv
  OBVIOUS
<1>1. Init
  BY DEF MCInit
<1>2. ErrorInv /\ SupplyInv
  BY <1>1, QueryReaderAssumption
     DEF Init, ErrorInv, SupplyInv, Supplied, NoTask, ReadStages
<1> QED
  BY <1>1, <1>2, TypeInit, OrderInit DEF StreamInv

LEMMA StreamInvStep ==
  ASSUME \A bytes \in RowBytes : bytes <= OPTIMAL_RESPONSE_SIZE_IN_BYTES,
         StreamInv, [MCNext]_MCVars
  PROVE  /\ StreamInv'
         /\ ~overtaken' /\ ~(failures' < MaxFailures) => Undisturbed
<1>1. [Next]_vars
  BY DEF MCNext, MCVars
<1>2. TypeOK /\ OrderInv /\ ErrorInv /\ SupplyInv /\ LoaderInv
  BY DEF StreamInv, OrderInv
<1>3. TypeOK' /\ OrderInv' /\ ErrorInv' /\ SupplyInv' /\ (Undisturbed' => Undisturbed)
  BY <1>1, <1>2, TypeStep, OrderStep, ErrorStep, SupplyStep
<1>4. ~overtaken' /\ ~(failures' < MaxFailures) => Undisturbed'
  BY <1>3, QueryReaderAssumption DEF Undisturbed, SupplyInv, TypeOK
<1> QED
  BY <1>3, <1>4 DEF StreamInv

\* Unless a reply is lost, and when a row fits into the optimal response, the reader
\* implements the forward-only stream up to the first failed request or the first time it
\* overtakes its loader: every row comes out once and in order, and the end comes after the
\* last row, wherever it falls in a frame.
THEOREM StreamCorrect ==
  ASSUME ~LostReplies, \A bytes \in RowBytes : bytes <= OPTIMAL_RESPONSE_SIZE_IN_BYTES
  PROVE  MCSpec => ImplementsStream
<1> DEFINE StreamNext == Stream!Next \/ overtaken' \/ failures' < MaxFailures
<1>1. MCInit => StreamInv /\ Stream!Init
  BY StreamInvInit DEF MCInit, Init, Stream!Init
<1>2. StreamInv /\ [MCNext]_MCVars => StreamInv'
  BY StreamInvStep
<1>3. StreamInv /\ [MCNext]_MCVars => [StreamNext]_(Stream!streamVars)
  <2> SUFFICES ASSUME StreamInv, [MCNext]_MCVars, ~overtaken', ~(failures' < MaxFailures)
               PROVE  [Stream!Next]_(Stream!streamVars)
    OBVIOUS
  <2>1. [Next]_vars
    BY DEF MCNext, MCVars
  <2>2. TypeOK /\ OrderInv /\ SupplyInv /\ Undisturbed
    BY StreamInvStep DEF StreamInv
  <2>3. [Stream!PrefixNext]_(Stream!streamVars)
    BY <2>1, <2>2, StreamStep
  <2>4. ASSUME Stream!EndEarly PROVE Stream!End
    <3>1. result # "noData" /\ result' = "noData" /\ UNCHANGED <<rows, delivered>>
      BY <2>4 DEF Stream!EndEarly
    <3>2. Len(delivered) = rows
      BY <2>1, <2>2, <3>1, EndComplete
    <3> QED
      BY <3>1, <3>2 DEF Stream!End
  <2> QED
    BY <2>3, <2>4 DEF Stream!PrefixNext, Stream!Next
<1> QED
  BY <1>1, <1>2, <1>3, PTL DEF MCSpec, ImplementsStream

\* When the end of the data can be trusted (QueryDataReader::loadDataContinue): EndIsComplete,
\* which is false without these conditions.
THEOREM EndCorrect ==
  ASSUME ~LostReplies, \A bytes \in RowBytes : bytes <= OPTIMAL_RESPONSE_SIZE_IN_BYTES
  PROVE  MCSpec => [](~overtaken /\ failures = MaxFailures => EndIsComplete)
<1> DEFINE Trusted == ~overtaken /\ failures = MaxFailures => EndIsComplete
<1>1. MCInit => StreamInv /\ Trusted
  BY StreamInvInit DEF MCInit, Init, EndIsComplete
<1>2. StreamInv /\ [MCNext]_MCVars => StreamInv'
  BY StreamInvStep
<1>3. StreamInv /\ Trusted /\ [MCNext]_MCVars => Trusted'
  <2> SUFFICES ASSUME StreamInv, Trusted, [MCNext]_MCVars, ~overtaken', failures' = MaxFailures,
                      result' = "noData"
               PROVE  Len(delivered') = rows'
    BY DEF EndIsComplete
  <2>1. [Next]_vars
    BY DEF MCNext, MCVars
  <2>2. TypeOK /\ OrderInv /\ SupplyInv /\ Undisturbed
    <3>1. ~(failures' < MaxFailures)
      BY QueryReaderAssumption
    <3> QED
      BY <3>1, StreamInvStep DEF StreamInv
  <2>3. [Stream!PrefixNext]_(Stream!streamVars)
    BY <2>1, <2>2, StreamStep
  <2>4. UNCHANGED <<rows, delivered>>
    BY <2>3 DEF Stream!PrefixNext, Stream!Deliver, Stream!EndEarly, Stream!streamVars
  <2>5. CASE result = "noData"
    BY <2>2, <2>4, <2>5 DEF Undisturbed, EndIsComplete
  <2>6. CASE result # "noData"
    BY <2>1, <2>2, <2>4, <2>6, EndComplete
  <2> QED
    BY <2>5, <2>6
<1> QED
  BY <1>1, <1>2, <1>3, PTL DEF MCSpec
=============================================================================
