----------------------- MODULE NativeConnectionProofs -----------------------
(***************************************************************************)
(* Proofs about NativeConnection: its types, that recv says "no frame" if  *)
(* and only if its timeout has elapsed, that it loses no text, and that it *)
(* keeps its deadline as long as frames arrive whole.                      *)
(***************************************************************************)
EXTENDS NativeConnection, TLAPS

USE DEF FrameTypes, Errors, history, Upcoming

\* Elements of sequences of frame types.
LEMMA InboxOps ==
    ASSUME NEW s \in Seq(FrameTypes)
    PROVE  /\ \A t \in FrameTypes : Append(s, t) \in Seq(FrameTypes)
           /\ \A k \in Int : k <= Len(s) => SubSeq(s, 1, k) \in Seq(FrameTypes)
           /\ s # <<>> => Tail(s) \in Seq(FrameTypes)
  OBVIOUS

\* Every variable keeps to its type: in particular, a timeout of zero is never in
\* force in a read, and the budget that is left never exceeds the timeout
\* (the saturating subtraction of native.rs:64).
THEOREM TypeCorrect == Spec => []TypeOK
<1>1. ASSUME Init PROVE TypeOK
  <2>1. split \in BOOLEAN
    BY <1>1, Zenon DEF Init
  <2>2. alive \in BOOLEAN
    BY <1>1, Zenon DEF Init
  <2> QED
    BY <1>1, <2>1, <2>2, NativeAssumption DEF Init, TypeOK
<1>2. TypeOK /\ [Next]_vars => TypeOK'
  <2> SUFFICES ASSUME TypeOK, [Next]_vars PROVE TypeOK'
    OBVIOUS
  <2> USE NativeAssumption DEF TypeOK
  <2>1. CASE Arrive
    BY <2>1, InboxOps DEF Arrive, Sending, Whole, callVars
  <2>2. CASE ArrivePart
    BY <2>2 DEF ArrivePart, Sending, callVars
  <2>3. CASE ArriveMore
    BY <2>3 DEF ArriveMore, callVars
  <2>4. CASE ArriveRest
    BY <2>4, InboxOps DEF ArriveRest, Whole, callVars
  <2>5. CASE Break
    <3>1. PICK k \in 0..Len(inbox) : Cut(k)
      BY <2>5 DEF Break
    <3>2. k \in Int /\ k <= Len(inbox) /\ Taken + k \in Int /\ Taken + k <= Len(stream)
      BY <3>1 DEF Taken
    <3>3. inbox' \in Seq(FrameTypes) /\ stream' \in Seq(FrameTypes)
      BY <3>1, <3>2, InboxOps DEF Cut
    <3> QED
      BY <2>5, <3>3 DEF Break, callVars
  <2>6. CASE Recv
    <3>1. split' \in BOOLEAN
      BY <2>6, Zenon DEF Recv
    <3> QED
      BY <2>6, <3>1 DEF Recv
  <2>7. CASE Iterate
    BY <2>7 DEF Iterate, Exhausted, remaining, set_read_timeout, Return
  <2>8. CASE Tick
    BY <2>8 DEF Tick
  <2>9. CASE ReadText
    <3>1. Taken + 1 \in Int
      BY DEF Taken
    <3>2. given' \in SUBSET Int
      BY <2>9, <3>1 DEF ReadText
    <3> QED
      BY <2>9, <3>2, InboxOps DEF ReadText, Read, Return
  <2>10. CASE ReadPing
    <3>1. inbox' \in Seq(FrameTypes)
      BY <2>10, InboxOps DEF ReadPing, Read
    <3>2. UNCHANGED <<timeout, elapsed, limit, wait, half, alive, sent, stream, given, split>>
      BY <2>10 DEF ReadPing, Read
    <3>3. \/ pc' = "loop" /\ owed' = 0 /\ ret' = ret
          \/ pc' = "idle" /\ owed' = owed + 1 /\ ret' = "ws_flush"
      BY <2>10 DEF ReadPing, Return
    <3> QED
      BY <3>1, <3>2, <3>3
  <2>11. CASE ReadOther
    BY <2>11, InboxOps DEF ReadOther, Read
  <2>12. CASE ReadClose
    <3>1. inbox' \in Seq(FrameTypes) /\ stream' \in Seq(FrameTypes)
      BY <2>12, InboxOps DEF ReadClose, Taken
    <3>2. alive' \in BOOLEAN /\ half' = "nothing" /\ pc' = "idle" /\ ret' \in Errors
      BY <2>12 DEF ReadClose, Return
    <3>3. UNCHANGED <<timeout, elapsed, limit, wait, owed, sent, given, split>>
      BY <2>12 DEF ReadClose
    <3> QED
      BY <3>1, <3>2, <3>3
  <2>13. CASE ReadTimesOut
    BY <2>13 DEF ReadTimesOut, Return
  <2>14. CASE ReadFails
    BY <2>14 DEF ReadFails, Return
  <2>15. CASE Send
    BY <2>15 DEF Send
  <2>16. CASE close
    BY <2>16 DEF close
  <2>17. CASE UNCHANGED vars
    BY <2>17 DEF vars
  <2>18. CASE ReadMalformed
    BY <2>18, InboxOps DEF ReadMalformed, Return
  <2> QED
    BY <2>1, <2>2, <2>3, <2>4, <2>5, <2>6, <2>7, <2>8, <2>9, <2>10, <2>11, <2>12,
       <2>13, <2>14, <2>15, <2>16, <2>17, <2>18 DEF Next, Done
<1> QED
  BY <1>1, <1>2, PTL DEF Spec

-----------------------------------------------------------------------------
(* A read that waits runs until the timeout at least.                      *)

WaitsLong == pc = "read" => elapsed + wait >= timeout /\ elapsed + limit >= timeout

\* recv reports "no frame" only when its timeout has elapsed, whatever frames and
\* pieces of frames arrive: a read waits for all that is left of the timeout, and
\* a piece that arrives makes it wait longer, never less.  A budget that is used up
\* is found so before a timeout of zero could be set.
THEOREM NoneIsTimeout == Spec => []NoneMeansTimeout
<1> DEFINE Inv == WaitsLong /\ NoneMeansTimeout
<1>1. Init => Inv
  BY DEF Init, WaitsLong, NoneMeansTimeout
<1>2. TypeOK /\ Inv /\ [Next]_vars => Inv'
  <2> SUFFICES ASSUME TypeOK, Inv, [Next]_vars PROVE Inv'
    OBVIOUS
  <2> USE NativeAssumption DEF TypeOK, WaitsLong, NoneMeansTimeout
  <2>1. CASE Arrive \/ ArriveRest \/ Break
    BY <2>1 DEF Arrive, ArriveRest, Break, Whole, Cut, callVars
  <2>2. CASE ArrivePart \/ ArriveMore
    BY <2>2 DEF ArrivePart, ArriveMore, callVars
  <2>3. CASE Recv
    BY <2>3 DEF Recv
  <2>4. CASE Iterate
    BY <2>4 DEF Iterate, Exhausted, remaining, set_read_timeout, Return
  <2>5. CASE Tick
    BY <2>5 DEF Tick
  <2>6. CASE ReadText \/ ReadPing \/ ReadOther
    BY <2>6 DEF ReadText, ReadPing, ReadOther, Read, Return
  <2>7. CASE ReadClose \/ ReadMalformed \/ ReadTimesOut \/ ReadFails
    BY <2>7 DEF ReadClose, ReadMalformed, ReadTimesOut, ReadFails, Return
  <2>8. CASE Send \/ close \/ UNCHANGED vars
    BY <2>8 DEF Send, close, vars
  <2> QED
    BY <2>1, <2>2, <2>3, <2>4, <2>5, <2>6, <2>7, <2>8 DEF Next, Done
<1> QED
  BY <1>1, <1>2, TypeCorrect, PTL DEF Spec

-----------------------------------------------------------------------------
(* Texts.                                                                  *)

\* The frames that wait to be read are the last ones of the stream.
Waiting ==
    /\ Len(inbox) <= Len(stream)
    /\ \A i \in 1..Len(inbox) : inbox[i] = stream[Taken + i]

Kept == Waiting /\ TextsKept

\* A frame that arrives waits behind the others, and none has been read.
LEMMA WholeKeeps ==
    ASSUME TypeOK, Kept, NEW t \in FrameTypes, Whole(t), UNCHANGED given
    PROVE  Kept'
<1> USE DEF TypeOK, Kept, Waiting, TextsKept, Taken
<1>1. /\ Len(inbox') = Len(inbox) + 1 /\ Len(stream') = Len(stream) + 1
      /\ \A i \in 1..Len(inbox) : inbox'[i] = inbox[i]
      /\ \A i \in 1..Len(stream) : stream'[i] = stream[i]
      /\ inbox'[Len(inbox) + 1] = t /\ stream'[Len(stream) + 1] = t
  BY DEF Whole
<1>2. Taken' = Taken /\ Taken \in Nat /\ Taken <= Len(stream) /\ Taken + Len(inbox) = Len(stream)
  BY <1>1
<1>3. Waiting'
  <2>1. ASSUME NEW i \in 1..Len(inbox') PROVE inbox'[i] = stream'[Taken' + i]
    <3>1. CASE i = Len(inbox) + 1
      BY <1>1, <1>2, <3>1
    <3>2. CASE i \in 1..Len(inbox)
      <4>1. Taken + i \in 1..Len(stream)
        BY <1>2, <3>2
      <4> QED
        BY <1>1, <1>2, <3>2, <4>1
    <3> QED
      BY <1>1, <3>1, <3>2
  <2> QED
    BY <1>1, <2>1
<1>4. TextsKept'
  BY <1>1, <1>2
<1> QED
  BY <1>3, <1>4

\* What the end of the stream takes along has not been read.
LEMMA CutKeeps ==
    ASSUME TypeOK, Kept, NEW k \in 0..Len(inbox), Cut(k), UNCHANGED given
    PROVE  Kept'
<1> USE DEF TypeOK, Kept, Waiting, TextsKept, Taken
<1>1. /\ Len(inbox') = k /\ Len(stream') = Taken + k
      /\ \A i \in 1..k : inbox'[i] = inbox[i]
      /\ \A i \in 1..(Taken + k) : stream'[i] = stream[i]
  BY DEF Cut
<1>2. Taken' = Taken /\ Taken \in Nat /\ k \in Nat
  BY <1>1
<1>3. Waiting'
  <2>1. ASSUME NEW i \in 1..k PROVE inbox'[i] = stream'[Taken' + i]
    <3>1. Taken + i \in 1..(Taken + k) /\ i \in 1..Len(inbox)
      BY <1>2
    <3> QED
      BY <1>1, <1>2, <3>1
  <2> QED
    BY <1>1, <1>2, <2>1
<1>4. TextsKept'
  <2>1. \A i \in 1..Taken : stream'[i] = stream[i]
    BY <1>1, <1>2
  <2> HIDE DEF TypeOK, Taken
  <2> QED
    BY <1>2, <2>1
<1> QED
  BY <1>3, <1>4

\* The frame that read() takes is the next one of the stream.
LEMMA NextFrame ==
    ASSUME TypeOK, Kept, NEW t, Upcoming(t)
    PROVE  Taken \in Nat /\ Taken + 1 \in 1..Len(stream) /\ stream[Taken + 1] = t
<1>1. Len(inbox) \in Nat \ {0} /\ inbox[1] = t
  BY DEF TypeOK
<1> QED
  BY <1>1 DEF TypeOK, Kept, Waiting, Taken

\* Reading a frame keeps the books if it is returned just in case it is a text.
LEMMA TakenKeeps ==
    ASSUME TypeOK, Kept, NEW t, Upcoming(t), inbox' = Tail(inbox), UNCHANGED stream,
           given' = IF t = "text" THEN given \cup {Taken + 1} ELSE given
    PROVE  Kept'
<1> USE DEF TypeOK, Kept, Waiting, TextsKept, Taken
<1>1. /\ Len(inbox') = Len(inbox) - 1 /\ Len(inbox) \in Nat \ {0}
      /\ \A i \in 1..Len(inbox') : inbox'[i] = inbox[i + 1]
  OBVIOUS
<1>2. Taken' = Taken + 1 /\ Taken \in Nat /\ stream[Taken + 1] = t
  BY <1>1, NextFrame
<1>3. Waiting'
  BY <1>1, <1>2
<1>4. TextsKept'
  <2>1. 1..Taken' = (1..Taken) \cup {Taken + 1}
    BY <1>2
  <2> QED
    BY <1>2, <2>1
<1> QED
  BY <1>3, <1>4

\* Whatever recv returns and however often, the texts that it has read off the
\* stream are the texts that it has returned.
THEOREM NoTextIsLost == Spec => []TextsKept
<1>1. Init => Kept
  BY DEF Init, Kept, Waiting, TextsKept, Taken
<1>2. TypeOK /\ Kept /\ [Next]_vars => Kept'
  <2> SUFFICES ASSUME TypeOK, Kept, [Next]_vars PROVE Kept'
    OBVIOUS
  <2>1. CASE Arrive
    BY <2>1, WholeKeeps DEF Arrive, callVars
  <2>2. CASE ArriveRest
    <3>1. half \in FrameTypes /\ Whole(half) /\ UNCHANGED given
      BY <2>2 DEF ArriveRest, callVars, TypeOK
    <3> QED
      BY <3>1, WholeKeeps
  <2>3. CASE Break
    BY <2>3, CutKeeps DEF Break, callVars
  <2>4. CASE ReadText
    BY <2>4, TakenKeeps DEF ReadText, Read
  <2>5. CASE ReadPing
    BY <2>5, TakenKeeps DEF ReadPing, Read
  <2>6. CASE ReadOther
    BY <2>6, TakenKeeps DEF ReadOther, Read
  <2>7. CASE ReadClose
    <3>1. Upcoming("close") /\ inbox' = <<>> /\ stream' = SubSeq(stream, 1, Taken + 1) /\ UNCHANGED given
      BY <2>7 DEF ReadClose
    <3>2. Taken \in Nat /\ Taken + 1 \in 1..Len(stream) /\ stream[Taken + 1] = "close"
      BY <3>1, NextFrame
    <3>3. /\ Len(inbox') = 0 /\ Len(stream') = Taken + 1
          /\ \A i \in 1..(Taken + 1) : stream'[i] = stream[i]
      BY <3>1, <3>2 DEF TypeOK
    <3>4. Taken' = Taken + 1
      BY <3>2, <3>3 DEF Taken
    <3>5. 1..Taken' = (1..Taken) \cup {Taken + 1}
      BY <3>2, <3>4
    <3>6. TextsKept'
      BY <3>1, <3>2, <3>3, <3>5 DEF Kept, TextsKept
    <3>7. Waiting'
      BY <3>2, <3>3 DEF Waiting
    <3> QED
      BY <3>6, <3>7 DEF Kept
  <2>8. CASE ReadMalformed
    <3>1. Upcoming("malformed") /\ UNCHANGED <<stream, given>>
      BY <2>8 DEF ReadMalformed
    <3>2. CASE inbox' = Tail(inbox)
      BY <3>1, <3>2, TakenKeeps
    <3>3. CASE inbox' = inbox
      BY <3>1, <3>3 DEF Kept, Waiting, TextsKept, Taken
    <3> QED
      BY <2>8, <3>2, <3>3 DEF ReadMalformed
  <2>9. CASE UNCHANGED <<inbox, stream, given>>
    BY <2>9 DEF Kept, Waiting, TextsKept, Taken
  <2>10. CASE ArrivePart \/ ArriveMore \/ Recv \/ Tick
    BY <2>9, <2>10 DEF ArrivePart, ArriveMore, Recv, Tick, callVars
  <2>11. CASE Iterate \/ ReadTimesOut \/ ReadFails
    BY <2>9, <2>11 DEF Iterate, ReadTimesOut, ReadFails
  <2>12. CASE Send \/ close \/ UNCHANGED vars
    BY <2>9, <2>12 DEF Send, close, vars
  <2> QED
    BY <2>1, <2>2, <2>3, <2>4, <2>5, <2>6, <2>7, <2>8, <2>10, <2>11, <2>12 DEF Next, Done
<1>3. Kept => TextsKept
  BY DEF Kept
<1> QED
  BY <1>1, <1>2, <1>3, TypeCorrect, PTL DEF Spec

-----------------------------------------------------------------------------
(* Pongs.                                                                  *)

\* Pongs are flushed within the step that reads the ping, so none is owed inside
\* recv either.
NothingOwed == alive => owed = 0

\* Every ping is answered before recv returns, unless the stream has broken.
THEOREM PongsAreFlushed == Spec => []PongsFlushed
<1>1. Init => NothingOwed
  BY DEF Init, NothingOwed
<1>2. TypeOK /\ NothingOwed /\ [Next]_vars => NothingOwed'
  <2> SUFFICES ASSUME TypeOK, NothingOwed, [Next]_vars PROVE NothingOwed'
    OBVIOUS
  <2> USE DEF TypeOK, NothingOwed
  <2>1. CASE Arrive \/ ArriveRest \/ ArrivePart \/ ArriveMore
    BY <2>1 DEF Arrive, ArriveRest, ArrivePart, ArriveMore, callVars
  <2>2. CASE Break \/ Recv \/ Tick
    BY <2>2 DEF Break, Recv, Tick, callVars
  <2>3. CASE Iterate
    BY <2>3 DEF Iterate
  <2>4. CASE ReadText \/ ReadPing \/ ReadOther
    BY <2>4 DEF ReadText, ReadPing, ReadOther, Read
  <2>5. CASE ReadClose \/ ReadMalformed \/ ReadTimesOut \/ ReadFails
    BY <2>5 DEF ReadClose, ReadMalformed, ReadTimesOut, ReadFails
  <2>6. CASE Send \/ close \/ UNCHANGED vars
    BY <2>6 DEF Send, close, vars
  <2> QED
    BY <2>1, <2>2, <2>3, <2>4, <2>5, <2>6 DEF Next, Done
<1>3. NothingOwed => PongsFlushed
  BY DEF NothingOwed, PongsFlushed
<1> QED
  BY <1>1, <1>2, <1>3, TypeCorrect, PTL DEF Spec

-----------------------------------------------------------------------------
(* The deadline.                                                           *)

\* Unless a piece of a frame has restarted it, a read that waits ends at the
\* deadline at the latest.
WaitsShort ==
    ~split =>
    /\ elapsed <= timeout
    /\ pc = "read" => elapsed + wait <= timeout

\* As long as frames arrive whole, recv keeps its deadline however many pings,
\* pongs and binary frames it reads on the way.
THEOREM DeadlineIsKept == Spec => []WholeFramesInTime
<1>1. Init => WaitsShort
  BY DEF Init, WaitsShort
<1>2. TypeOK /\ WaitsShort /\ [Next]_vars => WaitsShort'
  <2> SUFFICES ASSUME TypeOK, WaitsShort, [Next]_vars PROVE WaitsShort'
    OBVIOUS
  <2> USE NativeAssumption DEF TypeOK, WaitsShort
  <2>1. CASE Arrive \/ ArriveRest \/ ArriveMore \/ Break
    BY <2>1 DEF Arrive, ArriveRest, ArriveMore, Break, Whole, Cut, callVars
  <2>2. CASE ArrivePart
    BY <2>2 DEF ArrivePart
  <2>3. CASE Recv
    BY <2>3 DEF Recv
  <2>4. CASE Iterate
    BY <2>4 DEF Iterate, Exhausted, remaining, set_read_timeout, Return
  <2>5. CASE Tick
    BY <2>5 DEF Tick
  <2>6. CASE ReadText \/ ReadPing \/ ReadOther
    BY <2>6 DEF ReadText, ReadPing, ReadOther, Read, Return
  <2>7. CASE ReadClose \/ ReadMalformed \/ ReadTimesOut \/ ReadFails
    BY <2>7 DEF ReadClose, ReadMalformed, ReadTimesOut, ReadFails, Return
  <2>8. CASE Send \/ close \/ UNCHANGED vars
    BY <2>8 DEF Send, close, vars
  <2> QED
    BY <2>1, <2>2, <2>3, <2>4, <2>5, <2>6, <2>7, <2>8 DEF Next, Done
<1>3. WaitsShort => WholeFramesInTime
  BY DEF WaitsShort, WholeFramesInTime
<1> QED
  BY <1>1, <1>2, <1>3, TypeCorrect, PTL DEF Spec
=============================================================================
