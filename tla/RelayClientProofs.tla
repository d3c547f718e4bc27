------------------------- MODULE RelayClientProofs -------------------------
(* Theorems about RelayClient, for every value of its constants.           *)
EXTENDS RelayClient, TLAPS

-----------------------------------------------------------------------------
(* Sequences used as channels.                                             *)

LEMMA TailElements ==
    ASSUME NEW S, NEW q \in Seq(S), q # <<>>
    PROVE  /\ Tail(q) \in Seq(S) /\ Head(q) \in S /\ Head(q) = q[1]
           /\ Len(Tail(q)) = Len(q) - 1
           /\ \A i \in 1..Len(Tail(q)) : Tail(q)[i] = q[i + 1]
           /\ \A i \in 1..Len(Tail(q)) : i + 1 \in 1..Len(q)
           /\ 1 \in 1..Len(q)
OBVIOUS

LEMMA AppendElements ==
    ASSUME NEW S, NEW q \in Seq(S), NEW x \in S
    PROVE  /\ Append(q, x) \in Seq(S)
           /\ Len(Append(q, x)) = Len(q) + 1
           /\ \A i \in 1..Len(Append(q, x)) :
                IF i \in 1..Len(q) THEN Append(q, x)[i] = q[i] ELSE Append(q, x)[i] = x
OBVIOUS

LEMMA AppendIndex ==
    ASSUME NEW S, NEW q \in Seq(S), NEW x
    PROVE  /\ Len(Append(q, x)) = Len(q) + 1
           /\ \A i \in 1..Len(Append(q, x)) :
                IF i \in 1..Len(q) THEN Append(q, x)[i] = q[i] ELSE Append(q, x)[i] = x
OBVIOUS

LEMMA PrefixElements ==
    ASSUME NEW S, NEW q \in Seq(S), NEW k \in 0..Len(q)
    PROVE  /\ SubSeq(q, 1, k) \in Seq(S)
           /\ Len(SubSeq(q, 1, k)) = k
           /\ \A i \in 1..k : i \in 1..Len(q) /\ SubSeq(q, 1, k)[i] = q[i]
OBVIOUS
-----------------------------------------------------------------------------
(* Type correctness: the link and the relay.                               *)

LEMMA FrameType ==
    ASSUME NEW T, NEW t \in T, NEW s \in SubId \cup {NoSub},
           NEW i \in Events \cup {AuthId, NoId}, NEW b \in BOOLEAN,
           NEW k \in Nat, NEW c \in Nat
    PROVE  Frame(t, s, i, b, k, c) \in FrameSet(T)
BY DEF Frame, FrameSet

LEMMA DownFrameType ==
    ASSUME NEW t \in DownTypes \cup {"JUNK"}, NEW s \in SubId \cup {NoSub},
           NEW i \in Events \cup {AuthId, NoId}, NEW b \in BOOLEAN,
           NEW k \in Nat, NEW c \in Nat, t = "EVENT" => i # AuthId
    PROVE  Frame(t, s, i, b, k, c) \in DownFrames
<1>1. Frame(t, s, i, b, k, c) \in FrameSet(DownTypes \cup {"JUNK"})
  BY FrameType
<1>2. Frame(t, s, i, b, k, c).typ = t /\ Frame(t, s, i, b, k, c).id = i
  BY DEF Frame
<1> QED  BY <1>1, <1>2 DEF DownFrames

LEMMA UpFrameType ==
    ASSUME NEW t \in UpTypes, NEW s \in SubId \cup {NoSub},
           NEW i \in Events \cup {AuthId, NoId}, NEW b \in BOOLEAN,
           NEW k \in Nat, NEW c \in Nat,
           t = "EVENT" => i \in Events, t \in {"REQ", "CLOSE"} => s \in SubId
    PROVE  Frame(t, s, i, b, k, c) \in UpFrames
<1>1. Frame(t, s, i, b, k, c) \in FrameSet(UpTypes)
  BY FrameType
<1>2. /\ Frame(t, s, i, b, k, c).typ = t /\ Frame(t, s, i, b, k, c).id = i
      /\ Frame(t, s, i, b, k, c).sub = s
  BY DEF Frame
<1> QED  BY <1>1, <1>2 DEF UpFrames

\* What the fields of a frame under way are.
LEMMA UpFields ==
    ASSUME NEW f \in UpFrames
    PROVE  /\ f.typ \in UpTypes /\ f.sub \in SubId \cup {NoSub}
           /\ f.id \in Events \cup {AuthId, NoId} /\ f.ok \in BOOLEAN
           /\ f.n \in Nat /\ f.call \in Nat
           /\ f.typ = "EVENT" => f.id \in Events
           /\ f.typ \in {"REQ", "CLOSE"} => f.sub \in SubId
BY DEF UpFrames, FrameSet

LEMMA DownFields ==
    ASSUME NEW f \in DownFrames
    PROVE  /\ f.typ \in DownTypes \cup {"JUNK"} /\ f.sub \in SubId \cup {NoSub}
           /\ f.id \in Events \cup {AuthId, NoId} /\ f.ok \in BOOLEAN
           /\ f.n \in Nat /\ f.call \in Nat
           /\ f.typ = "EVENT" => f.id # AuthId
BY DEF DownFrames, FrameSet

LEMMA OwingType ==
    ASSUME NEW u \in SubStates, NEW T \in SUBSET Events, NEW b \in BOOLEAN
    PROVE  Owing(u, T, b) \in SubStates
BY DEF Owing, SubStates

LEMMA StoreType ==
    ASSUME LinkTypeOK, NEW e \in Events, Store(e)
    PROVE  stored' \subseteq Events /\ subs' \in [SubId -> SubStates]
<1>1. stored' \subseteq Events
  BY DEF LinkTypeOK, Store
<1>2. \A s \in SubId : subs[s] \in SubStates
  BY DEF LinkTypeOK
<1>3. \A s \in SubId : subs[s].todo \cup {e} \in SUBSET Events /\ subs[s].eosed \in BOOLEAN
  BY <1>2 DEF SubStates
<1>4. \A s \in SubId : Owing(subs[s], subs[s].todo \cup {e}, subs[s].eosed) \in SubStates
  BY <1>2, <1>3, OwingType
<1> QED  BY <1>1, <1>2, <1>4 DEF LinkTypeOK, Store

\* The relay and the network keep the link well typed.
LEMMA RelayStepType ==
    ASSUME LinkTypeOK, RelayStep
    PROVE  LinkTypeOK'
<1> USE DEF LinkTypeOK
<1>0. Closed \in SubStates
  BY DEF Closed, SubStates
<1>1. ASSUME NEW f \in DownFrames, Reply(f)
      PROVE  toClient' \in Seq(DownFrames)
  BY <1>1, AppendElements DEF Reply
<1>2. ASSUME NEW t, Reads(t)
      PROVE  /\ toRelay' \in Seq(UpFrames)
             /\ Head(toRelay) \in UpFrames /\ Head(toRelay).typ = t
  BY <1>2, TailElements DEF Reads
<1>3. CASE RelayEvent
  <2>0. PICK admitted \in Admitted : ReceiveEvent(admitted)
    BY <1>3 DEF RelayEvent
  <2> DEFINE f == Head(toRelay)
             ok == f.id \in stored \/ (admitted /\ f.id \notin Refused)
  <2>1. f \in UpFrames /\ f.typ = "EVENT" /\ toRelay' \in Seq(UpFrames)
    BY <1>2, <2>0 DEF ReceiveEvent
  <2>2. f.id \in Events /\ f.call \in Nat
    BY <2>1, UpFields
  <2>3. ok \in BOOLEAN
    OBVIOUS
  <2>4. Frame("OK", NoSub, f.id, ok, 0, f.call) \in DownFrames
    <3> HIDE DEF ok, f
    <3> QED  BY <2>2, <2>3, DownFrameType DEF DownTypes
  <2>5. toClient' \in Seq(DownFrames)
    BY <1>1, <2>0, <2>4 DEF ReceiveEvent
  <2>6. stored' \subseteq Events /\ subs' \in [SubId -> SubStates]
    BY <2>0, <2>2, StoreType DEF ReceiveEvent
  <2> QED  BY <2>0, <2>1, <2>5, <2>6 DEF ReceiveEvent
<1>4. CASE RelayReq
  <2>0. PICK admitted \in Admitted : ReceiveReq(admitted)
    BY <1>4 DEF RelayReq
  <2> DEFINE f == Head(toRelay)
  <2>1. f \in UpFrames /\ f.typ = "REQ" /\ toRelay' \in Seq(UpFrames)
    BY <1>2, <2>0 DEF ReceiveReq
  <2>2. f.sub \in SubId /\ f.call \in Nat /\ f.n \in Nat
    BY <2>1, UpFields
  <2>3. Frame("CLOSED", f.sub, NoId, FALSE, f.n, f.call) \in DownFrames
    <3> HIDE DEF f
    <3> QED  BY <2>2, DownFrameType DEF DownTypes
  <2>4. toClient' \in Seq(DownFrames)
    BY <1>1, <2>0, <2>3 DEF ReceiveReq
  <2>5. [open |-> TRUE, todo |-> stored, eosed |-> FALSE, call |-> f.call] \in SubStates
    BY <2>2 DEF SubStates
  <2>6. subs' \in [SubId -> SubStates]
    BY <1>0, <2>0, <2>5 DEF ReceiveReq
  <2> QED  BY <2>0, <2>1, <2>4, <2>6 DEF ReceiveReq
<1>5. CASE RelayClose
  BY <1>0, <1>2, <1>5 DEF RelayClose
<1>6. CASE RelayAuth
  <2>1. Head(toRelay).n \in Nat /\ toRelay' \in Seq(UpFrames)
    BY <1>2, <1>6, UpFields DEF RelayAuth
  <2>2. Frame("OK", NoSub, AuthId, TRUE, 0, 0) \in DownFrames
    BY DownFrameType DEF DownTypes
  <2> QED  BY <1>1, <1>6, <2>1, <2>2 DEF RelayAuth
<1>7. CASE RelayServe
  <2>1. PICK s \in SubId :
          \/ \E e \in subs[s].todo :
               /\ Reply(Frame("EVENT", s, e, FALSE, 0, subs[s].call))
               /\ subs' = [subs EXCEPT ![s] = Owing(subs[s], subs[s].todo \ {e}, subs[s].eosed)]
          \/ /\ Reply(Frame("EOSE", s, NoId, FALSE, 0, subs[s].call))
             /\ subs' = [subs EXCEPT ![s] = Owing(subs[s], {}, TRUE)]
    BY <1>7 DEF RelayServe
  <2>2. /\ subs[s] \in SubStates /\ subs[s].call \in Nat
        /\ subs[s].todo \subseteq Events /\ subs[s].eosed \in BOOLEAN
    BY DEF SubStates
  <2>3. ASSUME NEW e \in subs[s].todo,
               Reply(Frame("EVENT", s, e, FALSE, 0, subs[s].call)),
               subs' = [subs EXCEPT ![s] = Owing(subs[s], subs[s].todo \ {e}, subs[s].eosed)]
        PROVE  toClient' \in Seq(DownFrames) /\ subs' \in [SubId -> SubStates]
    <3>1. Frame("EVENT", s, e, FALSE, 0, subs[s].call) \in DownFrames
      BY <2>2, DownFrameType, LinkAssumption DEF DownTypes
    <3>2. Owing(subs[s], subs[s].todo \ {e}, subs[s].eosed) \in SubStates
      BY <2>2, OwingType
    <3> QED  BY <1>1, <2>3, <3>1, <3>2
  <2>4. ASSUME Reply(Frame("EOSE", s, NoId, FALSE, 0, subs[s].call)),
               subs' = [subs EXCEPT ![s] = Owing(subs[s], {}, TRUE)]
        PROVE  toClient' \in Seq(DownFrames) /\ subs' \in [SubId -> SubStates]
    <3>1. Frame("EOSE", s, NoId, FALSE, 0, subs[s].call) \in DownFrames
      BY <2>2, DownFrameType DEF DownTypes
    <3>2. Owing(subs[s], {}, TRUE) \in SubStates
      BY <2>2, OwingType
    <3> QED  BY <1>1, <2>4, <3>1, <3>2
  <2> QED  BY <1>7, <2>1, <2>3, <2>4 DEF RelayServe
<1>8. CASE RelayDropsSub
  <2>1. PICK s \in SubId :
          /\ Reply(Frame("CLOSED", s, NoId, FALSE, 0, subs[s].call))
          /\ subs' = [subs EXCEPT ![s] = Closed]
    BY <1>8 DEF RelayDropsSub
  <2>2. subs[s].call \in Nat
    BY DEF SubStates
  <2>3. Frame("CLOSED", s, NoId, FALSE, 0, subs[s].call) \in DownFrames
    BY <2>2, DownFrameType DEF DownTypes
  <2> QED  BY <1>0, <1>1, <1>8, <2>1, <2>3 DEF RelayDropsSub
<1>9. CASE RelayChallenge
  <2>1. issued' \in Nat
    BY <1>9 DEF RelayChallenge
  <2>2. Frame("AUTH", NoSub, NoId, FALSE, issued', 0) \in DownFrames
    BY <2>1, DownFrameType DEF DownTypes
  <2>3. toClient' \in Seq(DownFrames)
    BY <1>1, <1>9, <2>2 DEF RelayChallenge
  <2> QED  BY <1>0, <1>9, <2>1, <2>3 DEF RelayChallenge
<1>10. CASE RelayStray
  <2>1. \A t \in {"NOTICE", "JUNK", "EVENT", "EOSE", "OK"} :
          Frame(t, NoSub, NoId, FALSE, 0, 0) \in DownFrames
    BY DownFrameType, LinkAssumption DEF DownTypes
  <2>2. \A f \in Strays : f \in DownFrames
    BY <2>1 DEF Strays
  <2> QED  BY <1>1, <1>10, <2>2 DEF RelayStray
<1>11. CASE RelayQuiet
  BY <1>11 DEF RelayQuiet, linkVars
<1>12. CASE OtherPublish
  <2>1. PICK e \in Others : Store(e)
    BY <1>12 DEF OtherPublish
  <2>2. e \in Events
    BY DEF Events
  <2>3. stored' \subseteq Events /\ subs' \in [SubId -> SubStates]
    BY <2>1, <2>2, StoreType
  <2> QED  BY <1>12, <2>3 DEF OtherPublish, linkVars
<1>13. CASE Disconnect
  <2>1. PICK k \in 0..Len(toClient) : toClient' = SubSeq(toClient, 1, k)
    BY <1>13 DEF Disconnect
  <2>2. toClient' \in Seq(DownFrames)
    BY <2>1, PrefixElements
  <2>3. toRelay' \in Seq(UpFrames)
    BY <1>13 DEF Disconnect
  <2> QED  BY <1>13, <2>2, <2>3 DEF Disconnect, relayVars
<1> QED
  BY <1>3, <1>4, <1>5, <1>6, <1>7, <1>8, <1>9, <1>10, <1>11, <1>12, <1>13
     DEF RelayStep
-----------------------------------------------------------------------------
(* Type correctness: the client.                                           *)

LEMMA SendsType ==
    ASSUME LinkTypeOK, NEW f \in UpFrames, Sends(f)
    PROVE  toRelay' \in Seq(UpFrames)
BY AppendElements DEF LinkTypeOK, Sends

LEMMA LinkKept ==
    ASSUME LinkTypeOK, UNCHANGED <<up, relayVars>>,
           toRelay' \in Seq(UpFrames), toClient' \in Seq(DownFrames)
    PROVE  LinkTypeOK'
BY DEF LinkTypeOK, relayVars

\* What the client makes of the next frame.
LEMMA MsgType ==
    ASSUME LinkTypeOK, toClient # <<>>
    PROVE  /\ \/ Msg = Frame("OTHER", NoSub, NoId, FALSE, 0, 0) /\ Msg.typ = "OTHER"
              \/ Msg = Head(toClient) /\ Msg.typ \in DownTypes
           /\ Msg.sub \in SubId \cup {NoSub} /\ Msg.id \in Events \cup {AuthId, NoId}
           /\ Msg.n \in Nat /\ Msg.call \in Nat /\ Msg.ok \in BOOLEAN
           /\ Msg.typ = "EVENT" => Msg.id \in Events
<1> DEFINE w == Head(toClient)
           o == Frame("OTHER", NoSub, NoId, FALSE, 0, 0)
<1>1. w \in DownFrames
  BY TailElements DEF LinkTypeOK
<1>2. /\ w.typ \in DownTypes \cup {"JUNK"} /\ w.sub \in SubId \cup {NoSub}
      /\ w.id \in Events \cup {AuthId, NoId} /\ w.ok \in BOOLEAN
      /\ w.n \in Nat /\ w.call \in Nat
      /\ w.typ = "EVENT" => w.id # AuthId
  BY <1>1, DownFields
<1>3. /\ o.typ = "OTHER" /\ o.sub \in SubId \cup {NoSub}
      /\ o.id \in Events \cup {AuthId, NoId} /\ o.ok \in BOOLEAN
      /\ o.n \in Nat /\ o.call \in Nat
  <2>1. o \in FrameSet({"OTHER"})
    BY FrameType
  <2> QED  BY <2>1 DEF FrameSet
<1>4. CASE w.typ \notin DownTypes \/ (w.typ = "EVENT" /\ w.id = NoId)
  <2>1. Msg = o
    BY <1>4 DEF Msg, parse_relay_message
  <2> QED  BY <2>1, <1>3
<1>5. CASE ~(w.typ \notin DownTypes \/ (w.typ = "EVENT" /\ w.id = NoId))
  <2>1. Msg = w
    BY <1>5 DEF Msg, parse_relay_message
  <2> QED  BY <2>1, <1>2, <1>5
<1> QED  BY <1>4, <1>5

LEMMA RecvSomeType ==
    ASSUME LinkTypeOK, chal \in Nat, RecvSome
    PROVE  /\ toRelay' \in Seq(UpFrames) /\ toClient' \in Seq(DownFrames)
           /\ chal' \in Nat
<1>1. toClient # <<>> /\ toClient' = Tail(toClient)
  BY DEF RecvSome
<1>2. toClient' \in Seq(DownFrames)
  BY <1>1, TailElements DEF LinkTypeOK
<1>3. Msg.n \in Nat
  BY <1>1, MsgType
<1>4. CASE Msg.typ = "AUTH"
  <2>1. chal' = Msg.n /\ Sends(AuthFrame(Msg.n))
    BY <1>4 DEF RecvSome, answer_auth
  <2>2. AuthFrame(Msg.n) \in UpFrames
    BY <1>3, UpFrameType DEF AuthFrame, UpTypes
  <2>3. toRelay' \in Seq(UpFrames)
    BY <2>1, <2>2, SendsType
  <2> QED  BY <1>2, <1>3, <2>1, <2>3
<1>5. CASE Msg.typ # "AUTH"
  BY <1>2, <1>5 DEF RecvSome, LinkTypeOK
<1> QED  BY <1>4, <1>5

LEMMA RecvElseType ==
    ASSUME LinkTypeOK, chal \in Nat, RecvNone \/ RecvErr
    PROVE  /\ toRelay' \in Seq(UpFrames) /\ toClient' \in Seq(DownFrames)
           /\ chal' \in Nat
BY TailElements DEF RecvNone, RecvErr, LinkTypeOK

LEMMA ReturnType ==
    ASSUME TypeOK, NEW o \in Operations, NEW x \in Outcomes,
           NEW i \in Events \cup {AuthId, NoId}, Return(o, x, i)
    PROVE  pc' = "idle" /\ ret' \in Returns /\ notified' \subseteq CallerSubs
BY DEF TypeOK, Return, Result, Returns

\* The part of TypeOK that speaks of publish's own variables, and the rest.
LEMMA PublishStepType ==
    ASSUME TypeOK, PublishStep
    PROVE  TypeOK'
<1>1. LinkTypeOK /\ chal \in Nat /\ id \in Own /\ id \in Events
  BY LinkAssumption DEF TypeOK, PublishStep, PublishOk, PublishAuth, PublishResend,
     PublishSkip, PublishTimeout, PublishError, GiveUp, Iteration, Events
<1>2. PublishFrame
  BY DEF PublishStep, PublishOk, PublishAuth, PublishResend, PublishSkip,
     PublishTimeout, PublishError, GiveUp
<1>3. /\ toRelay' \in Seq(UpFrames) /\ toClient' \in Seq(DownFrames) /\ chal' \in Nat
  <2>1. CASE RecvSome
    BY <1>1, <2>1, RecvSomeType
  <2>2. CASE RecvNone \/ RecvErr
    BY <1>1, <2>2, RecvElseType
  <2>3. CASE PublishResend
    <3>1. calls \in Nat
      BY LinkAssumption DEF TypeOK
    <3>2. EventFrame(id, chal, calls) \in UpFrames
      BY <1>1, <3>1, UpFrameType DEF EventFrame, UpTypes
    <3>3. toRelay' \in Seq(UpFrames)
      BY <1>1, <2>3, <3>2, SendsType DEF PublishResend, SendFails, LinkTypeOK
    <3> QED  BY <1>1, <2>3, <3>3 DEF PublishResend, LinkTypeOK
  <2> QED
    BY <2>1, <2>2, <2>3 DEF PublishStep, PublishOk, PublishAuth, PublishSkip,
       PublishTimeout, PublishError, GiveUp
<1>4. LinkTypeOK'
  BY <1>1, <1>2, <1>3, LinkKept DEF PublishFrame
<1>5. /\ pc' \in {"idle", "publish", "resend"}
      /\ ret' \in Returns /\ notified' \subseteq CallerSubs
  <2>1. \/ UNCHANGED <<ret, notified>> /\ pc' \in {pc, "publish", "resend"}
        \/ \E x \in Outcomes : Return("publish", x, id)
    BY DEF PublishStep, PublishOk, PublishAuth, PublishResend, PublishSkip,
       PublishTimeout, PublishError, GiveUp, Outcomes
  <2>2. pc \in {"publish", "resend"}
    BY DEF PublishStep, PublishOk, PublishAuth, PublishResend, PublishSkip,
       PublishTimeout, PublishError, GiveUp, Iteration
  <2>3. CASE UNCHANGED <<ret, notified>> /\ pc' \in {pc, "publish", "resend"}
    BY <2>2, <2>3 DEF TypeOK
  <2>4. CASE \E x \in Outcomes : Return("publish", x, id)
    BY <1>1, <2>4, ReturnType DEF Operations
  <2> QED  BY <2>1, <2>3, <2>4
<1>6. resent' \in BOOLEAN /\ left' \in 0..RecvLimit
  <2>1. resent \in BOOLEAN /\ left \in 0..RecvLimit /\ RecvLimit \in Nat
    BY ClientAssumption DEF TypeOK
  <2>2. Iteration => left' \in 0..RecvLimit
    BY <2>1 DEF Iteration
  <2>3. Iteration \/ left' = left
    BY DEF PublishStep, PublishOk, PublishAuth, PublishResend, PublishSkip,
       PublishTimeout, PublishError, GiveUp
  <2>4. resent' = resent \/ resent' = TRUE
    BY DEF PublishStep, PublishOk, PublishAuth, PublishResend, PublishSkip,
       PublishTimeout, PublishError, GiveUp
  <2> QED  BY <2>1, <2>2, <2>3, <2>4
<1> QED
  BY <1>1, <1>2, <1>3, <1>4, <1>5, <1>6 DEF TypeOK, PublishFrame

LEMMA PublishType ==
    ASSUME TypeOK, Publish
    PROVE  TypeOK'
<1>1. /\ LinkTypeOK /\ calls \in 0..MaxCalls /\ calls < MaxCalls /\ MaxCalls \in Nat
      /\ calls' = calls + 1 /\ chal' = 0
      /\ UNCHANGED <<up, toClient, relayVars, next_sub, events, snap, listening, abandoned>>
  BY LinkAssumption DEF TypeOK, Publish
<1>2. PICK e \in Own :
        \/ /\ Sends(EventFrame(e, 0, calls'))
           /\ pc' = "publish" /\ id' = e /\ resent' = FALSE /\ left' = RecvLimit
           /\ UNCHANGED <<ret, notified>>
        \/ SendFails /\ Return("publish", "error", e) /\ UNCHANGED <<id, resent, left>>
  BY DEF Publish
<1>3. e \in Events /\ calls' \in Nat /\ EventFrame(e, 0, calls') \in UpFrames
  <2>1. e \in Events /\ calls' \in Nat
    BY <1>1 DEF Events
  <2> QED  BY <2>1, UpFrameType DEF EventFrame, UpTypes
<1>4. LinkTypeOK'
  <2>1. toRelay' \in Seq(UpFrames)
    BY <1>1, <1>2, <1>3, SendsType DEF SendFails, LinkTypeOK
  <2>2. toClient' \in Seq(DownFrames)
    BY <1>1 DEF LinkTypeOK
  <2> QED  BY <1>1, <2>1, <2>2, LinkKept
<1>5. CASE pc' = "publish" /\ id' = e /\ resent' = FALSE /\ left' = RecvLimit
           /\ UNCHANGED <<ret, notified>>
  <2>1. resent' \in BOOLEAN
    BY <1>5, Zenon
  <2>2. left' \in 0..RecvLimit
    BY <1>5, ClientAssumption
  <2> QED  BY <1>1, <1>4, <1>5, <2>1, <2>2 DEF TypeOK
<1>6. CASE Return("publish", "error", e) /\ UNCHANGED <<id, resent, left>>
  <2>1. pc' = "idle" /\ ret' \in Returns /\ notified' \subseteq CallerSubs
    BY <1>3, <1>6, ReturnType DEF Operations, Outcomes
  <2> QED  BY <1>1, <1>4, <1>6, <2>1 DEF TypeOK
<1> QED  BY <1>2, <1>5, <1>6

\* The subscription of the query in progress is one of the numbered ones.
LEMMA SubIdType ==
    ASSUME TypeOK, next_sub > 0
    PROVE  sub_id \in QuerySubs /\ sub_id \in SubId
<1>1. next_sub \in 1..MaxCalls
  BY LinkAssumption DEF TypeOK
<1> QED  BY <1>1 DEF sub_id, QuerySubs, SubId

LEMMA QueryType ==
    ASSUME TypeOK, Query
    PROVE  TypeOK'
<1>1. /\ LinkTypeOK /\ calls \in 0..MaxCalls /\ calls < MaxCalls /\ MaxCalls \in Nat
      /\ next_sub \in Nat /\ next_sub <= calls
      /\ calls' = calls + 1 /\ chal' = 0 /\ next_sub' = next_sub + 1
      /\ UNCHANGED <<up, toClient, relayVars, id, resent, left, listening>>
  BY LinkAssumption DEF TypeOK, Query
<1>2. \/ /\ Sends(ReqFrame(sub_id', 0, calls'))
         /\ pc' = "query" /\ events' = <<>> /\ snap' = stored
         /\ UNCHANGED <<ret, notified, abandoned>>
      \/ /\ SendFails /\ Return("query", "error", NoId)
         /\ abandoned' = abandoned \cup {sub_id'}
         /\ UNCHANGED <<events, snap>>
  BY DEF Query
<1>3. /\ sub_id' \in QuerySubs /\ calls' \in 0..MaxCalls /\ next_sub' \in Nat
      /\ next_sub' <= calls' /\ next_sub' > 0 /\ calls' \in Nat
  <2>1. /\ next_sub' \in 1..MaxCalls /\ calls' \in 0..MaxCalls /\ next_sub' \in Nat
        /\ next_sub' <= calls' /\ next_sub' > 0 /\ calls' \in Nat
    BY <1>1
  <2>2. sub_id' = QuerySub(next_sub')
    BY DEF sub_id
  <2> QED  BY <2>1, <2>2 DEF QuerySubs
<1>4. ReqFrame(sub_id', 0, calls') \in UpFrames
  <2>1. sub_id' \in SubId
    BY <1>3 DEF SubId
  <2> QED  BY <1>3, <2>1, UpFrameType DEF ReqFrame, UpTypes
<1>5. LinkTypeOK'
  <2>1. toRelay' \in Seq(UpFrames)
    BY <1>1, <1>2, <1>4, SendsType DEF SendFails, LinkTypeOK
  <2>2. toClient' \in Seq(DownFrames)
    BY <1>1 DEF LinkTypeOK
  <2> QED  BY <1>1, <2>1, <2>2, LinkKept
<1>6. CASE pc' = "query" /\ events' = <<>> /\ snap' = stored
           /\ UNCHANGED <<ret, notified, abandoned>>
  BY <1>1, <1>3, <1>5, <1>6 DEF TypeOK, LinkTypeOK
<1>7. CASE /\ Return("query", "error", NoId)
           /\ abandoned' = abandoned \cup {sub_id'}
           /\ UNCHANGED <<events, snap>>
  <2>1. pc' = "idle" /\ ret' \in Returns /\ notified' \subseteq CallerSubs
    BY <1>7, ReturnType DEF Operations, Outcomes
  <2> QED  BY <1>1, <1>3, <1>5, <1>7, <2>1 DEF TypeOK
<1> QED  BY <1>2, <1>6, <1>7

LEMMA QueryStepType ==
    ASSUME TypeOK, QueryStep
    PROVE  TypeOK'
<1> USE DEF QueryStep, QueryEvent, QueryDone, QueryIdle, QueryAuth, QueryRearm,
            QuerySkip, QueryError, Finish, QueryFails
<1>1. /\ LinkTypeOK /\ chal \in Nat /\ calls \in Nat /\ pc \in {"query", "rearm"}
      /\ sub_id \in QuerySubs /\ sub_id \in SubId /\ QueryFrame
  BY SubIdType, LinkAssumption DEF TypeOK
<1>2. /\ toRelay' \in Seq(UpFrames) /\ toClient' \in Seq(DownFrames) /\ chal' \in Nat
  <2>1. CASE RecvSome
    BY <1>1, <2>1, RecvSomeType
  <2>2. CASE RecvErr
    BY <1>1, <2>2, RecvElseType
  <2>3. CASE QueryRearm
    <3>1. ReqFrame(sub_id, chal, calls) \in UpFrames
      BY <1>1, UpFrameType DEF ReqFrame, UpTypes
    <3>2. toRelay' \in Seq(UpFrames)
      BY <1>1, <2>3, <3>1, SendsType DEF SendFails, LinkTypeOK
    <3> QED  BY <1>1, <2>3, <3>2 DEF LinkTypeOK
  <2>4. CASE QueryDone \/ QueryIdle
    <3>1. CloseFrame(sub_id) \in UpFrames
      BY <1>1, UpFrameType DEF CloseFrame, UpTypes
    <3>2. toRelay' \in Seq(UpFrames)
      BY <1>1, <2>4, <3>1, SendsType
    <3>3. toClient' \in Seq(DownFrames)
      BY <1>1, <2>4, TailElements DEF LinkTypeOK
    <3> QED  BY <1>1, <2>4, <3>2, <3>3
  <2> QED  BY <2>1, <2>2, <2>3, <2>4
<1>3. LinkTypeOK'
  BY <1>1, <1>2, LinkKept DEF QueryFrame
<1>4. events' \in Seq([id : Events, call : Nat])
  <2>1. events \in Seq([id : Events, call : Nat])
    BY DEF TypeOK
  <2>2. CASE QueryEvent
    <3>1. toClient # <<>> /\ Msg.typ = "EVENT"
      BY <2>2 DEF RecvSome
    <3>2. Msg.id \in Events /\ Msg.call \in Nat
      BY <1>1, <3>1, MsgType
    <3>3. [id |-> Msg.id, call |-> Msg.call] \in [id : Events, call : Nat]
      BY <3>2
    <3>4. Append(events, [id |-> Msg.id, call |-> Msg.call]) \in Seq([id : Events, call : Nat])
      BY <2>1, <3>3, AppendElements
    <3> QED  BY <2>1, <2>2, <3>4
  <2>3. CASE ~QueryEvent
    <3>1. events' = events
      BY <2>3
    <3> QED  BY <2>1, <3>1
  <2> QED  BY <2>2, <2>3
<1>5. /\ pc' \in {"idle", "query", "rearm"}
      /\ ret' \in Returns /\ notified' \subseteq CallerSubs
  <2>1. \/ UNCHANGED <<ret, notified>> /\ pc' \in {"query", "rearm"}
        \/ \E x \in Outcomes : Return("query", x, NoId)
    BY DEF Outcomes
  <2>2. CASE UNCHANGED <<ret, notified>> /\ pc' \in {"query", "rearm"}
    BY <2>2 DEF TypeOK
  <2>3. CASE \E x \in Outcomes : Return("query", x, NoId)
    BY <2>3, ReturnType DEF Operations
  <2> QED  BY <2>1, <2>2, <2>3
<1>6. abandoned' \subseteq QuerySubs
  BY <1>1 DEF TypeOK
<1>7. next_sub > 0
  BY <1>1 DEF TypeOK
<1> QED
  BY <1>1, <1>2, <1>3, <1>4, <1>5, <1>6, <1>7 DEF TypeOK, QueryFrame

\* Subscribe, unsubscribe, poll and poll_event.
LEMMA ListenType ==
    ASSUME TypeOK, NEW s, \/ subscribe(s) /\ s \in CallerSubs
                          \/ unsubscribe(s) /\ s \in CallerSubs
                          \/ poll \/ poll_event
    PROVE  TypeOK'
<1> USE DEF subscribe, unsubscribe, poll, poll_event
<1>1. LinkTypeOK /\ chal \in Nat /\ ListenFrame /\ pc = "idle"
  BY DEF TypeOK, SubId
<1>2. /\ toRelay' \in Seq(UpFrames) /\ toClient' \in Seq(DownFrames) /\ chal' \in Nat
  <2>1. CASE subscribe(s) /\ s \in CallerSubs
    <3>1. ReqFrame(s, 0, 0) \in UpFrames
      BY <2>1, UpFrameType DEF ReqFrame, UpTypes, SubId
    <3> QED  BY <1>1, <2>1, <3>1, SendsType DEF SendFails, LinkTypeOK
  <2>2. CASE unsubscribe(s) /\ s \in CallerSubs
    <3>1. CloseFrame(s) \in UpFrames
      BY <2>2, UpFrameType DEF CloseFrame, UpTypes, SubId
    <3> QED  BY <1>1, <2>2, <3>1, SendsType DEF SendFails, LinkTypeOK
  <2>3. CASE RecvSome
    BY <1>1, <2>3, RecvSomeType
  <2>4. CASE RecvNone \/ RecvErr
    BY <1>1, <2>4, RecvElseType
  <2> QED  BY <2>1, <2>2, <2>3, <2>4
<1>3. LinkTypeOK'
  BY <1>1, <1>2, LinkKept DEF ListenFrame
<1>4. listening' \subseteq CallerSubs
  BY DEF TypeOK
<1>5. pc' = "idle" /\ ret' \in Returns /\ notified' \subseteq CallerSubs
  <2>1. NoId \in Events \cup {AuthId, NoId}
    OBVIOUS
  <2>2. CASE \E o \in Operations, x \in {"error", "none"} : Return(o, x, NoId)
    BY <2>1, <2>2, ReturnType DEF Outcomes
  <2>3. CASE \E o \in {"subscribe", "unsubscribe"} :
                 /\ ret' = Result(o, "ok", NoId) /\ UNCHANGED pc
                 /\ notified' = notified \ {s}
    BY <1>1, <2>3 DEF TypeOK, Result, Returns, Operations, Outcomes
  <2>4. CASE /\ poll /\ RecvSome /\ ret' = Result("poll", "frame", Msg.id)
             /\ notified' = CASE Msg.typ = "AUTH"   -> listening
                              [] Msg.typ = "CLOSED" -> notified \cup ({Msg.sub} \cap listening)
                              [] OTHER              -> notified
             /\ UNCHANGED pc
    <3>1. Msg.id \in Events \cup {AuthId, NoId}
      BY <1>1, <2>4, MsgType DEF RecvSome
    <3>2. ret' \in Returns
      BY <2>4, <3>1 DEF Result, Returns, Operations, Outcomes
    <3>3. listening \subseteq CallerSubs /\ notified \subseteq CallerSubs
      BY DEF TypeOK
    <3> QED  BY <1>1, <2>4, <3>2, <3>3
  <2>5. CASE RecvSome /\ Return("poll_event", "frame", Msg.id)
    <3>1. Msg.id \in Events \cup {AuthId, NoId}
      BY <1>1, <2>5, MsgType DEF RecvSome
    <3> QED  BY <2>5, <3>1, ReturnType DEF Operations, Outcomes
  <2> QED  BY <2>2, <2>3, <2>4, <2>5 DEF Operations
<1> QED
  BY <1>1, <1>2, <1>3, <1>4, <1>5 DEF TypeOK, ListenFrame

\* The client, the relay and the network stay within their types: every frame
\* under way is well formed, a resend names an event that was published, a
\* re-armed query a subscription that was opened, and no counter overruns.
THEOREM TypeCorrect == Spec => []TypeOK
<1>1. Init => TypeOK
  <2> SUFFICES ASSUME Init PROVE TypeOK
    OBVIOUS
  <2>1. LinkTypeOK
    BY DEF Init, LinkInit, LinkTypeOK, SubStates, Closed
  <2>2. ret \in Returns
    BY DEF Init, Result, Returns, Outcomes
  <2>3. resent \in BOOLEAN
    BY Zenon DEF Init
  <2>4. /\ next_sub = 0 /\ calls = 0 /\ left = 0 /\ 0 \in 0..MaxCalls
        /\ 0 \in 0..RecvLimit
    BY LinkAssumption, ClientAssumption DEF Init
  <2> QED  BY <2>1, <2>2, <2>3, <2>4 DEF Init, TypeOK
<1>2. TypeOK /\ [Next]_vars => TypeOK'
  <2> SUFFICES ASSUME TypeOK, [Next]_vars PROVE TypeOK'
    OBVIOUS
  <2>1. CASE Publish
    BY <2>1, PublishType
  <2>2. CASE Query
    BY <2>2, QueryType
  <2>3. CASE \E s \in CallerSubs : subscribe(s) \/ unsubscribe(s)
    BY <2>3, ListenType
  <2>4. CASE poll \/ poll_event
    BY <2>4, ListenType
  <2>5. CASE close
    BY <2>5 DEF close, TypeOK, LinkTypeOK, linkVars, relayVars, historyVars
  <2>6. CASE LoopStep
    BY <2>6, PublishStepType, QueryStepType DEF LoopStep
  <2>7. CASE RelayStep /\ UNCHANGED clientVars
    <3>1. LinkTypeOK'
      BY <2>7, RelayStepType DEF TypeOK
    <3> QED  BY <2>7, <3>1 DEF TypeOK, clientVars, callVars, historyVars
  <2>8. CASE UNCHANGED vars
    BY <2>8 DEF vars, TypeOK, LinkTypeOK, linkVars, relayVars, clientVars,
       callVars, historyVars
  <2> QED
    BY <2>1, <2>2, <2>3, <2>4, <2>5, <2>6, <2>7, <2>8 DEF Next, CallerStep, Done
<1> QED  BY <1>1, <1>2, PTL DEF Spec
-----------------------------------------------------------------------------
(* How the two streams move.                                               *)

\* toClient grows only by what the relay writes.
LEMMA ClientReads ==
    ASSUME TypeOK, CallerStep \/ LoopStep
    PROVE  /\ toClient' = toClient \/ (toClient # <<>> /\ toClient' = Tail(toClient))
           /\ UNCHANGED <<up, relayVars>>
<1>1. RecvSome \/ RecvNone \/ RecvErr =>
        toClient' = toClient \/ (toClient # <<>> /\ toClient' = Tail(toClient))
  BY DEF RecvSome, RecvNone, RecvErr
<1>2. CASE PublishStep
  BY <1>1, <1>2 DEF PublishStep, PublishOk, PublishAuth, PublishResend, PublishSkip,
     PublishTimeout, PublishError, GiveUp, PublishFrame
<1>3. CASE QueryStep
  BY <1>1, <1>3 DEF QueryStep, QueryEvent, QueryDone, QueryIdle, QueryAuth, QueryRearm,
     QuerySkip, QueryError, Finish, QueryFrame
<1>4. CASE CallerStep
  BY <1>1, <1>4 DEF CallerStep, Publish, Query, subscribe, unsubscribe, poll,
     poll_event, close, ListenFrame, linkVars
<1> QED  BY <1>2, <1>3, <1>4 DEF LoopStep

\* Every frame of toClient' is one of toClient or the one the relay replies with.
LEMMA RelayWrites ==
    ASSUME LinkTypeOK, NEW f, Reply(f)
    PROVE  \A i \in 1..Len(toClient') :
             \/ toClient'[i] = f
             \/ i \in 1..Len(toClient) /\ toClient'[i] = toClient[i]
BY AppendIndex DEF Reply, LinkTypeOK

-----------------------------------------------------------------------------
(* publish: an accepted event is stored.                                   *)

\* Every positive OK under way names an event of the store, or the AUTH event.
OkStored ==
    \A i \in 1..Len(toClient) :
        toClient[i].typ = "OK" /\ toClient[i].ok => toClient[i].id \in stored \cup {AuthId}

AcceptedInv == TypeOK /\ OkStored /\ AcceptedIsStored

LEMMA StoredGrows ==
    ASSUME RelayStep
    PROVE  stored \subseteq stored'
BY DEF RelayStep, RelayEvent, ReceiveEvent, RelayReq, ReceiveReq, RelayClose, RelayAuth, RelayServe,
   RelayDropsSub, RelayChallenge, RelayStray, RelayQuiet, OtherPublish,
   Disconnect, Store, relayVars

\* Only a loop iteration that reads its own positive OK reports acceptance.
LEMMA OnlyPublishOkAccepts ==
    ASSUME TypeOK, CallerStep \/ LoopStep, ~PublishOk,
           ret'.op = "publish", ret'.out = "accepted"
    PROVE  ret' = ret
<1>1. ASSUME NEW o, NEW x, NEW i, Return(o, x, i), x # "accepted" PROVE FALSE
  BY <1>1 DEF Return, Result
<1>2. ASSUME NEW o, NEW x, NEW i, ret' = Result(o, x, i), o # "publish" PROVE FALSE
  BY <1>2 DEF Result
<1>3. CASE PublishStep
  BY <1>1, <1>3 DEF PublishStep, PublishAuth, PublishResend, PublishSkip,
     PublishTimeout, PublishError, GiveUp
<1>4. CASE QueryStep
  BY <1>1, <1>4 DEF QueryStep, QueryEvent, QueryDone, QueryIdle, QueryAuth, QueryRearm,
     QuerySkip, QueryError, Finish, QueryFails
<1>5. CASE Publish \/ Query \/ close
  BY <1>1, <1>5 DEF Publish, Query, close
<1>6. CASE poll \/ poll_event \/ \E s \in CallerSubs : subscribe(s) \/ unsubscribe(s)
  BY <1>1, <1>2, <1>6 DEF subscribe, unsubscribe, poll, poll_event, Return
<1> QED  BY <1>3, <1>4, <1>5, <1>6 DEF CallerStep, LoopStep

\* The relay acknowledges an event positively only when it stores it.
LEMMA RelayOks ==
    ASSUME TypeOK, OkStored, RelayStep
    PROVE  OkStored'
<1>0. LinkTypeOK /\ stored \subseteq stored'
  BY StoredGrows DEF TypeOK
<1>1. ASSUME NEW f, Reply(f),
             f.typ = "OK" /\ f.ok => f.id \in stored' \cup {AuthId}
      PROVE  OkStored'
  BY <1>0, <1>1, RelayWrites DEF OkStored
<1>2. CASE toClient' = toClient
  BY <1>0, <1>2 DEF OkStored
<1>3. CASE RelayEvent
  <2>0. PICK admitted \in Admitted : ReceiveEvent(admitted)
    BY <1>3 DEF RelayEvent
  <2> DEFINE f  == Head(toRelay)
             ok == f.id \in stored \/ (admitted /\ f.id \notin Refused)
             r  == Frame("OK", NoSub, f.id, ok, 0, f.call)
  <2>1. Reply(r) /\ (ok => f.id \in stored')
    BY <2>0 DEF ReceiveEvent, Store
  <2>2. r.ok = ok /\ r.id = f.id
    BY Zenon DEF Frame
  <2>3. r.ok => r.id \in stored' \cup {AuthId}
    <3> HIDE DEF r, ok, f
    <3> QED  BY <2>1, <2>2
  <2> HIDE DEF r, ok, f
  <2> QED  BY <1>1, <2>1, <2>3
<1>4. CASE RelayReq \/ RelayServe \/ RelayDropsSub \/ RelayChallenge
  <2>1. \/ toClient' = toClient
        \/ \E t \in DownTypes \ {"OK"} : \E s, i, k, c : Reply(Frame(t, s, i, FALSE, k, c))
    BY <1>4 DEF RelayReq, ReceiveReq, RelayServe, RelayDropsSub, RelayChallenge, DownTypes
  <2>2. \A t \in DownTypes \ {"OK"} : \A s, i, k, c : Frame(t, s, i, FALSE, k, c).typ # "OK"
    BY DEF Frame
  <2> QED  BY <1>1, <1>2, <2>1, <2>2
<1>5. CASE RelayAuth
  <2>1. Reply(Frame("OK", NoSub, AuthId, TRUE, 0, 0))
    BY <1>5 DEF RelayAuth
  <2>2. Frame("OK", NoSub, AuthId, TRUE, 0, 0).id = AuthId
    BY DEF Frame
  <2> QED  BY <1>1, <2>1, <2>2
<1>6. CASE RelayStray
  <2>1. PICK f \in Strays : Reply(f)
    BY <1>6 DEF RelayStray
  <2>2. \E t, s : f = Frame(t, s, NoId, FALSE, 0, 0)
    BY Zenon DEF Strays
  <2>3. \A t, s : Frame(t, s, NoId, FALSE, 0, 0).ok = FALSE
    BY Zenon DEF Frame
  <2>4. ~f.ok
    BY <2>2, <2>3, Zenon
  <2> QED  BY <1>1, <2>1, <2>4
<1>7. CASE RelayClose \/ RelayQuiet \/ OtherPublish
  BY <1>2, <1>7 DEF RelayClose, RelayQuiet, OtherPublish, linkVars
<1>8. CASE Disconnect
  <2>1. PICK k \in 0..Len(toClient) : toClient' = SubSeq(toClient, 1, k)
    BY <1>8 DEF Disconnect
  <2>2. Len(toClient') = k /\ \A i \in 1..k : i \in 1..Len(toClient) /\ toClient'[i] = toClient[i]
    BY <1>0, <2>1, PrefixElements DEF LinkTypeOK
  <2> QED  BY <1>0, <2>2 DEF OkStored
<1> QED  BY <1>3, <1>4, <1>5, <1>6, <1>7, <1>8 DEF RelayStep

\* An event that publish reports as accepted is in the relay's store, however
\* many other OKs (of the AUTH event, of other events, of nothing), challenges
\* and stray frames the call read before, and whatever happens afterwards.
THEOREM AcceptedStored == Spec => []AcceptedIsStored
<1>1. Init => OkStored /\ AcceptedIsStored
  BY DEF Init, LinkInit, OkStored, AcceptedIsStored, Result
<1>2. AcceptedInv /\ TypeOK' /\ [Next]_vars => AcceptedInv'
  <2> SUFFICES ASSUME TypeOK, OkStored, AcceptedIsStored, TypeOK', [Next]_vars
               PROVE  OkStored' /\ AcceptedIsStored'
    BY DEF AcceptedInv
  <2>1. CASE CallerStep \/ LoopStep
    <3>1. stored' = stored
      BY <2>1, ClientReads DEF relayVars
    <3>2. OkStored'
      <4>1. CASE toClient' = toClient
        BY <3>1, <4>1 DEF OkStored
      <4>2. CASE toClient # <<>> /\ toClient' = Tail(toClient)
        <5>1. /\ \A i \in 1..Len(toClient') : toClient'[i] = toClient[i + 1]
              /\ \A i \in 1..Len(toClient') : i + 1 \in 1..Len(toClient)
          BY <4>2, TailElements DEF TypeOK, LinkTypeOK
        <5> QED  BY <3>1, <5>1 DEF OkStored
      <4> QED  BY <2>1, <4>1, <4>2, ClientReads
    <3>3. CASE PublishOk
      <4>1. /\ toClient # <<>> /\ Msg.typ = "OK" /\ Msg.id = id
            /\ ret' = Result("publish", IF Msg.ok THEN "accepted" ELSE "rejected", id)
        BY <3>3 DEF PublishOk, RecvSome, MyOk, Return
      <4>2. id # AuthId
        BY <3>3, LinkAssumption DEF PublishOk, Iteration, TypeOK, Events
      <4>3. Msg = Head(toClient) /\ Head(toClient) = toClient[1] /\ 1 \in 1..Len(toClient)
        BY <4>1, MsgType, TailElements DEF TypeOK, LinkTypeOK
      <4>4. CASE Msg.ok
        <5>1. toClient[1].typ = "OK" /\ toClient[1].ok /\ toClient[1].id = id
          BY <4>1, <4>3, <4>4
        <5>2. id \in stored
          BY <4>2, <4>3, <5>1 DEF OkStored
        <5>3. ret'.id = id
          BY <4>1 DEF Result
        <5> QED  BY <3>1, <3>2, <5>2, <5>3 DEF AcceptedIsStored
      <4>5. CASE ~Msg.ok
        <5>1. ret' = Result("publish", "rejected", id)
          BY <4>1, <4>5
        <5>2. ret'.out = "rejected"
          BY <5>1 DEF Result
        <5> QED  BY <3>2, <5>2 DEF AcceptedIsStored
      <4> QED  BY <4>4, <4>5
    <3>4. CASE ~PublishOk
      BY <2>1, <3>1, <3>2, <3>4, OnlyPublishOkAccepts DEF AcceptedIsStored
    <3> QED  BY <3>3, <3>4
  <2>2. CASE RelayStep /\ UNCHANGED clientVars
    <3>1. OkStored'
      BY <2>2, RelayOks
    <3>2. AcceptedIsStored'
      BY <2>2, StoredGrows DEF AcceptedIsStored, clientVars, callVars
    <3> QED  BY <3>1, <3>2
  <2>3. CASE UNCHANGED vars
    BY <2>3 DEF vars, linkVars, relayVars, clientVars, callVars, OkStored, AcceptedIsStored
  <2> QED  BY <2>1, <2>2, <2>3 DEF Next, Done
<1>3. AcceptedInv => AcceptedIsStored
  BY DEF AcceptedInv
<1> QED  BY <1>1, <1>2, <1>3, TypeCorrect, PTL DEF Spec, AcceptedInv
-----------------------------------------------------------------------------
(* query: what is collected was sent for this query.                       *)

\* Subscription s, if it is a query's, is that of a query already made; if it is
\* that of the query in progress, it was opened by that call.
ServedFor(s, c) ==
    \A n \in 1..MaxCalls :
        s = QuerySub(n) => n <= next_sub /\ (InQuery /\ n = next_sub => c = calls)

ReqsServed ==
    \A i \in 1..Len(toRelay) :
        toRelay[i].typ = "REQ" => ServedFor(toRelay[i].sub, toRelay[i].call)
SubsServed ==
    \A s \in SubId : subs[s].open => ServedFor(s, subs[s].call)
EventsServed ==
    \A i \in 1..Len(toClient) :
        toClient[i].typ = "EVENT" /\ toClient[i].id # NoId =>
            ServedFor(toClient[i].sub, toClient[i].call)

FreshInv == TypeOK /\ ReqsServed /\ SubsServed /\ EventsServed /\ QueryFresh

\* A query is entered only by making one.
LEMMA QueryPc ==
    ASSUME TypeOK, CallerStep \/ LoopStep
    PROVE  \/ Query
           \/ Publish /\ pc' \in {"idle", "publish"} /\ next_sub' = next_sub
           \/ /\ InQuery' => InQuery
              /\ UNCHANGED <<next_sub, calls>>
<1>1. CASE PublishStep
  BY <1>1 DEF PublishStep, PublishOk, PublishAuth, PublishResend, PublishSkip,
     PublishTimeout, PublishError, GiveUp, Return, InQuery, PublishFrame, Iteration
<1>2. CASE QueryStep
  BY <1>2 DEF QueryStep, QueryEvent, QueryDone, QueryIdle, QueryAuth, QueryRearm,
     QuerySkip, QueryError, Finish, QueryFails, Return, InQuery, QueryFrame
<1>3. CASE Publish
  BY <1>3 DEF Publish, Return
<1>4. CASE poll \/ poll_event \/ close \/ \E s \in CallerSubs : subscribe(s) \/ unsubscribe(s)
  BY <1>4 DEF poll, poll_event, close, subscribe, unsubscribe, Return, InQuery,
     ListenFrame, historyVars
<1> QED  BY <1>1, <1>2, <1>3, <1>4 DEF CallerStep, LoopStep

LEMMA ServedForKept ==
    ASSUME TypeOK, CallerStep \/ LoopStep, NEW s, NEW c, ServedFor(s, c)
    PROVE  ServedFor(s, c)'
<1>1. next_sub \in Nat
  BY DEF TypeOK
<1>2. CASE Query
  <2>1. next_sub' = next_sub + 1
    BY <1>2 DEF Query
  <2> QED  BY <1>1, <2>1 DEF ServedFor
<1>3. CASE pc' \in {"idle", "publish"} /\ next_sub' = next_sub
  BY <1>3 DEF ServedFor, InQuery
<1>4. CASE (InQuery' => InQuery) /\ UNCHANGED <<next_sub, calls>>
  BY <1>4 DEF ServedFor
<1> QED  BY <1>2, <1>3, <1>4, QueryPc

\* The REQs a client step sends.
LEMMA ClientSends ==
    ASSUME DistinctIds, TypeOK, CallerStep \/ LoopStep
    PROVE  \/ toRelay' = toRelay
           \/ \E f : Sends(f) /\ (f.typ = "REQ" => ServedFor(f.sub, f.call)')
<1>1. \A m, n : QuerySub(m) = QuerySub(n) => m = n
  BY DEF QuerySub
<1>2. ASSUME NEW s, NEW k, NEW c, Sends(ReqFrame(s, k, c)), ServedFor(s, c)'
      PROVE  \E f : Sends(f) /\ (f.typ = "REQ" => ServedFor(f.sub, f.call)')
  <2>1. ReqFrame(s, k, c).sub = s /\ ReqFrame(s, k, c).call = c
    BY DEF ReqFrame, Frame
  <2> QED  BY <1>2, <2>1
<1>3. ASSUME NEW f, Sends(f), f.typ # "REQ"
      PROVE  \E g : Sends(g) /\ (g.typ = "REQ" => ServedFor(g.sub, g.call)')
  BY <1>3
<1>4. \A e, k, c : EventFrame(e, k, c).typ # "REQ"
  BY DEF EventFrame, Frame
<1>5. \A s : CloseFrame(s).typ # "REQ"
  BY DEF CloseFrame, Frame
<1>6. \A k : AuthFrame(k).typ # "REQ"
  BY DEF AuthFrame, Frame
<1>7. RecvSome \/ RecvNone \/ RecvErr =>
        toRelay' = toRelay \/ Sends(AuthFrame(Msg.n))
  BY DEF RecvSome, RecvNone, RecvErr, answer_auth
<1>8. CASE PublishStep
  <2>1. toRelay' = toRelay \/ Sends(AuthFrame(Msg.n)) \/ Sends(EventFrame(id, chal, calls))
    BY <1>7, <1>8 DEF PublishStep, PublishOk, PublishAuth, PublishResend, PublishSkip,
       PublishTimeout, PublishError, GiveUp, SendFails
  <2> QED  BY <1>3, <1>4, <1>6, <2>1
<1>9. CASE QueryStep
  <2>1. \/ toRelay' = toRelay \/ Sends(AuthFrame(Msg.n)) \/ Sends(CloseFrame(sub_id))
        \/ QueryRearm /\ Sends(ReqFrame(sub_id, chal, calls))
    BY <1>7, <1>9 DEF QueryStep, QueryEvent, QueryDone, QueryIdle, QueryAuth, QueryRearm,
       QuerySkip, QueryError, Finish, SendFails
  <2>2. CASE QueryRearm /\ Sends(ReqFrame(sub_id, chal, calls))
    <3>1. PICK f : /\ f = ReqFrame(sub_id, chal, calls) /\ f.sub = QuerySub(next_sub)
                   /\ f.call = calls /\ Sends(f)
      BY <2>2 DEF ReqFrame, Frame, sub_id
    <3>2. UNCHANGED <<next_sub, calls>> /\ next_sub \in Nat
      BY <2>2 DEF QueryRearm, QueryFrame, TypeOK
    <3>3. ASSUME NEW n \in 1..MaxCalls, f.sub = QuerySub(n)
          PROVE  n <= next_sub' /\ (InQuery' /\ n = next_sub' => f.call = calls')
      <4>1. n = next_sub'
        BY <1>1, <3>1, <3>2, <3>3
      <4> QED  BY <3>1, <3>2, <4>1
    <3>4. ServedFor(f.sub, f.call)'
      BY <3>3 DEF ServedFor
    <3> QED  BY <3>1, <3>4
  <2> QED  BY <1>3, <1>5, <1>6, <2>1, <2>2
<1>10. CASE Publish
  BY <1>3, <1>4, <1>10 DEF Publish, SendFails
<1>11. CASE Query
  <2>1. /\ next_sub' = next_sub + 1 /\ calls' = calls + 1
        /\ toRelay' = toRelay \/ Sends(ReqFrame(sub_id', 0, calls'))
    BY <1>11 DEF Query, SendFails
  <2>2. CASE Sends(ReqFrame(sub_id', 0, calls'))
    <3>1. PICK f : /\ f = ReqFrame(sub_id', 0, calls') /\ f.sub = QuerySub(next_sub')
                   /\ f.call = calls' /\ Sends(f)
      BY <2>2 DEF ReqFrame, Frame, sub_id
    <3>2. next_sub' \in Nat
      BY <2>1 DEF TypeOK
    <3>3. ASSUME NEW n \in 1..MaxCalls, f.sub = QuerySub(n)
          PROVE  n <= next_sub' /\ (InQuery' /\ n = next_sub' => f.call = calls')
      <4>1. n = next_sub'
        BY <1>1, <3>1, <3>2, <3>3
      <4> QED  BY <3>1, <3>2, <4>1
    <3>4. ServedFor(f.sub, f.call)'
      BY <3>3 DEF ServedFor
    <3> QED  BY <3>1, <3>4
  <2> QED  BY <2>1, <2>2
<1>12. CASE poll \/ poll_event \/ close
  BY <1>3, <1>6, <1>7, <1>12 DEF poll, poll_event, close, linkVars
<1>13. CASE \E s \in CallerSubs : subscribe(s) \/ unsubscribe(s)
  <2>1. PICK s \in CallerSubs :
          toRelay' = toRelay \/ Sends(ReqFrame(s, 0, 0)) \/ Sends(CloseFrame(s))
    BY <1>13 DEF subscribe, unsubscribe, SendFails
  <2>2. ServedFor(s, 0)'
    BY DEF ServedFor, DistinctIds, QuerySubs
  <2> QED  BY <1>2, <1>3, <1>5, <2>1, <2>2
<1> QED
  BY <1>8, <1>9, <1>10, <1>11, <1>12, <1>13 DEF CallerStep, LoopStep
\* The subscriptions the relay holds after a step are those it held, or the one
\* the REQ it has read opens.
LEMMA RelaySubs ==
    ASSUME TypeOK, ReqsServed, SubsServed, RelayStep, UNCHANGED clientVars
    PROVE  SubsServed'
<1>0. LinkTypeOK /\ subs \in [SubId -> SubStates]
  BY DEF TypeOK, LinkTypeOK
<1>1. \A s, c : ServedFor(s, c) <=> ServedFor(s, c)'
  BY DEF ServedFor, InQuery, clientVars, callVars, historyVars
<1>2. Closed.open = FALSE
  BY DEF Closed
<1>3. ASSUME \A s \in SubId : subs'[s].open =>
               \/ subs[s].open /\ subs'[s].call = subs[s].call
               \/ ServedFor(s, subs'[s].call)
      PROVE  SubsServed'
  BY <1>1, <1>3 DEF SubsServed
<1>4. \A u, T, b : Owing(u, T, b).open = u.open /\ Owing(u, T, b).call = u.call
  BY DEF Owing
<1>5. ASSUME NEW e, Store(e)
      PROVE  \A s \in SubId : subs'[s].open => subs[s].open /\ subs'[s].call = subs[s].call
  <2>1. subs' = [s \in SubId |-> IF subs[s].open /\ e \notin stored
                   THEN Owing(subs[s], subs[s].todo \cup {e}, subs[s].eosed) ELSE subs[s]]
    BY <1>5 DEF Store
  <2>2. \A s \in SubId : subs'[s] = subs[s] \/ \E T, b : subs'[s] = Owing(subs[s], T, b)
    BY <2>1
  <2> QED  BY <1>4, <2>2
<1>6. CASE RelayReq
  <2> DEFINE f == Head(toRelay)
             u == [open |-> TRUE, todo |-> stored, eosed |-> FALSE, call |-> f.call]
  <2>1. ServedFor(f.sub, f.call)
    BY <1>0, <1>6, TailElements DEF RelayReq, ReceiveReq, Reads, LinkTypeOK, ReqsServed
  <2>2. u.call = f.call
    OBVIOUS
  <2>3. \/ subs' = [subs EXCEPT ![f.sub] = u]
        \/ subs' = [subs EXCEPT ![f.sub] = Closed]
    BY <1>6 DEF RelayReq, ReceiveReq
  <2> HIDE DEF u, f
  <2>4. \A s \in SubId : \/ subs'[s] = subs[s]
                         \/ s = f.sub /\ subs'[s] = u
                         \/ subs'[s] = Closed
    BY <1>0, <2>3
  <2> QED  BY <1>2, <1>3, <2>1, <2>2, <2>4
<1>7. CASE RelayClose \/ RelayDropsSub \/ RelayChallenge
  <2>1. \A s \in SubId : subs'[s] = subs[s] \/ subs'[s] = Closed
    BY <1>0, <1>7 DEF RelayClose, RelayDropsSub, RelayChallenge
  <2> QED  BY <1>2, <1>3, <2>1
<1>8. CASE RelayServe
  <2>1. PICK z, T, b : z \in SubId /\ subs' = [subs EXCEPT ![z] = Owing(subs[z], T, b)]
    BY <1>8 DEF RelayServe
  <2>2. \A s \in SubId : subs'[s] = subs[s] \/ subs'[s] = Owing(subs[s], T, b)
    BY <1>0, <2>1
  <2> QED  BY <1>3, <1>4, <2>2
<1>9. CASE RelayEvent \/ OtherPublish
  <2>1. subs' = subs \/ \E e : Store(e)
    BY <1>9 DEF RelayEvent, ReceiveEvent, OtherPublish
  <2> QED  BY <1>3, <1>5, <2>1
<1>10. CASE subs' = subs
  BY <1>3, <1>10
<1> QED
  BY <1>6, <1>7, <1>8, <1>9, <1>10 DEF RelayStep, RelayAuth, RelayStray, RelayQuiet,
     Disconnect, relayVars

\* The relay sends an event to a subscription it holds open.
LEMMA RelayEvents ==
    ASSUME TypeOK, SubsServed, EventsServed, RelayStep, UNCHANGED clientVars
    PROVE  EventsServed'
<1>0. LinkTypeOK
  BY DEF TypeOK
<1>1. \A s, c : ServedFor(s, c) <=> ServedFor(s, c)'
  BY DEF ServedFor, InQuery, clientVars, callVars, historyVars
<1>2. ASSUME NEW f, Reply(f), f.typ = "EVENT" /\ f.id # NoId => ServedFor(f.sub, f.call)
      PROVE  EventsServed'
  BY <1>0, <1>1, <1>2, RelayWrites DEF EventsServed
<1>3. CASE toClient' = toClient
  BY <1>1, <1>3 DEF EventsServed
<1>4. \A t, s, i, b, k, c : /\ Frame(t, s, i, b, k, c).typ = t /\ Frame(t, s, i, b, k, c).id = i
                            /\ Frame(t, s, i, b, k, c).sub = s /\ Frame(t, s, i, b, k, c).call = c
  BY DEF Frame
<1>5. CASE RelayServe
  <2>1. PICK s, t, i : /\ s \in SubId /\ subs[s].open
                       /\ Reply(Frame(t, s, i, FALSE, 0, subs[s].call))
    BY <1>5 DEF RelayServe
  <2>2. PICK f : f = Frame(t, s, i, FALSE, 0, subs[s].call) /\ Reply(f)
    BY <2>1
  <2>3. f.sub = s /\ f.call = subs[s].call
    BY <2>2 DEF Frame
  <2>4. ServedFor(f.sub, f.call)
    BY <2>1, <2>3 DEF SubsServed
  <2> QED  BY <1>2, <2>2, <2>4
<1>6. CASE RelayEvent \/ RelayReq \/ RelayAuth \/ RelayDropsSub \/ RelayChallenge
  <2>1. \/ toClient' = toClient
        \/ \E t, s, i, b, k, c : t # "EVENT" /\ Reply(Frame(t, s, i, b, k, c))
    BY <1>6
       DEF RelayEvent, ReceiveEvent, RelayReq, ReceiveReq, RelayAuth, RelayDropsSub, RelayChallenge
  <2>2. CASE \E t, s, i, b, k, c : t # "EVENT" /\ Reply(Frame(t, s, i, b, k, c))
    <3>1. PICK f : f.typ # "EVENT" /\ Reply(f)
      BY <1>4, <2>2
    <3> QED  BY <1>2, <3>1
  <2> QED  BY <1>3, <2>1, <2>2
<1>7. CASE RelayStray
  <2>1. PICK f \in Strays : Reply(f)
    BY <1>7 DEF RelayStray
  <2>2. \E t, s : f = Frame(t, s, NoId, FALSE, 0, 0)
    BY Zenon DEF Strays
  <2>3. f.id = NoId
    BY <2>2 DEF Frame
  <2> QED  BY <1>2, <2>1, <2>3
<1>8. CASE Disconnect
  <2>1. PICK k \in 0..Len(toClient) : toClient' = SubSeq(toClient, 1, k)
    BY <1>8 DEF Disconnect
  <2>2. Len(toClient') = k /\ \A i \in 1..k : i \in 1..Len(toClient) /\ toClient'[i] = toClient[i]
    BY <1>0, <2>1, PrefixElements DEF LinkTypeOK
  <2> QED  BY <1>1, <2>2 DEF EventsServed
<1> QED
  BY <1>3, <1>5, <1>6, <1>7, <1>8 DEF RelayStep, RelayClose, RelayQuiet, OtherPublish, linkVars

\* What the relay reads it takes from the front; what breaks is gone.
LEMMA RelayReqs ==
    ASSUME TypeOK, ReqsServed, RelayStep, UNCHANGED clientVars
    PROVE  ReqsServed'
<1>0. LinkTypeOK
  BY DEF TypeOK
<1>1. \A s, c : ServedFor(s, c) <=> ServedFor(s, c)'
  BY DEF ServedFor, InQuery, clientVars, callVars, historyVars
<1>2. CASE toRelay' = toRelay
  BY <1>1, <1>2 DEF ReqsServed
<1>3. CASE toRelay # <<>> /\ toRelay' = Tail(toRelay)
  <2>1. /\ \A i \in 1..Len(toRelay') : toRelay'[i] = toRelay[i + 1]
        /\ \A i \in 1..Len(toRelay') : i + 1 \in 1..Len(toRelay)
    BY <1>0, <1>3, TailElements DEF LinkTypeOK
  <2> QED  BY <1>1, <2>1 DEF ReqsServed
<1>4. CASE Disconnect
  BY <1>4 DEF Disconnect, ReqsServed
<1> QED
  BY <1>2, <1>3, <1>4
     DEF RelayStep, RelayEvent, ReceiveEvent, RelayReq, ReceiveReq, RelayClose, RelayAuth, RelayServe,
     RelayDropsSub, RelayChallenge, RelayStray, RelayQuiet, OtherPublish, Reads, linkVars

\* The client's steps: what is under way stays served for the call it was.
LEMMA ClientServes ==
    ASSUME DistinctIds, TypeOK, ReqsServed, SubsServed, EventsServed, CallerStep \/ LoopStep
    PROVE  ReqsServed' /\ SubsServed' /\ EventsServed'
<1>0. LinkTypeOK /\ UNCHANGED <<up, relayVars>>
  BY ClientReads DEF TypeOK
<1>1. \A s, c : ServedFor(s, c) => ServedFor(s, c)'
  BY ServedForKept
<1>2. SubsServed'
  BY <1>0, <1>1 DEF SubsServed, relayVars
<1>3. EventsServed'
  <2>1. CASE toClient' = toClient
    BY <1>1, <2>1 DEF EventsServed
  <2>2. CASE toClient # <<>> /\ toClient' = Tail(toClient)
    <3>1. /\ \A i \in 1..Len(toClient') : toClient'[i] = toClient[i + 1]
          /\ \A i \in 1..Len(toClient') : i + 1 \in 1..Len(toClient)
      BY <1>0, <2>2, TailElements DEF LinkTypeOK
    <3> QED  BY <1>1, <3>1 DEF EventsServed
  <2> QED  BY <2>1, <2>2, ClientReads
<1>4. ReqsServed'
  <2>1. CASE toRelay' = toRelay
    BY <1>1, <2>1 DEF ReqsServed
  <2>2. CASE \E f : Sends(f) /\ (f.typ = "REQ" => ServedFor(f.sub, f.call)')
    <3>1. PICK f : Sends(f) /\ (f.typ = "REQ" => ServedFor(f.sub, f.call)')
      BY <2>2
    <3>2. \A i \in 1..Len(toRelay') :
            toRelay'[i] = f \/ (i \in 1..Len(toRelay) /\ toRelay'[i] = toRelay[i])
      BY <1>0, <3>1, AppendIndex DEF Sends, LinkTypeOK
    <3> QED  BY <1>1, <3>1, <3>2 DEF ReqsServed
  <2> QED  BY <2>1, <2>2, ClientSends
<1> QED  BY <1>2, <1>3, <1>4

\* Collected events: the loop collects only what was served for this call.
LEMMA QueryCollects ==
    ASSUME TypeOK, EventsServed, QueryFresh, CallerStep \/ LoopStep
    PROVE  QueryFresh'
<1>0. LinkTypeOK /\ events \in Seq([id : Events, call : Nat])
  BY DEF TypeOK
<1>1. CASE QueryEvent
  <2>1. /\ toClient # <<>> /\ Msg.typ = "EVENT" /\ Msg.sub = sub_id /\ pc = "query"
        /\ UNCHANGED <<pc, ret, calls>>
        /\ events' = Append(events, [id |-> Msg.id, call |-> Msg.call]) \/ events' = events
    BY <1>1 DEF QueryEvent, RecvSome, QueryFrame
  <2>2. /\ Msg = Head(toClient) /\ Head(toClient) = toClient[1] /\ 1 \in 1..Len(toClient)
        /\ Msg.id \in Events
    BY <1>0, <2>1, MsgType, TailElements DEF LinkTypeOK
  <2>3. Msg.id # NoId
    BY <2>2, LinkAssumption
  <2>4. ServedFor(Msg.sub, Msg.call)
    BY <2>1, <2>2, <2>3 DEF EventsServed
  <2>5. next_sub \in 1..MaxCalls
    BY <2>1, LinkAssumption DEF TypeOK
  <2>6. Msg.call = calls
    BY <2>1, <2>4, <2>5 DEF ServedFor, sub_id, InQuery
  <2>7. \A i \in DOMAIN events : events[i].call = calls
    BY <2>1 DEF QueryFresh, InQuery
  <2>8. CASE events' = events
    BY <2>1, <2>7, <2>8 DEF QueryFresh
  <2>9. CASE events' = Append(events, [id |-> Msg.id, call |-> Msg.call])
    <3> DEFINE x == [id |-> Msg.id, call |-> Msg.call]
    <3>1. x.call = calls
      BY <2>6
    <3> HIDE DEF x
    <3>2. \A i \in DOMAIN events' :
            events'[i] = x \/ (i \in DOMAIN events /\ events'[i] = events[i])
      BY <1>0, <2>9, AppendIndex DEF x
    <3> QED  BY <2>1, <2>7, <3>1, <3>2 DEF QueryFresh
  <2> QED  BY <2>1, <2>8, <2>9
<1>2. CASE Query
  <2>1. \/ events' = <<>>
        \/ Return("query", "error", NoId)
    BY <1>2 DEF Query
  <2>2. CASE Return("query", "error", NoId)
    BY <2>2 DEF Return, Result, QueryFresh, InQuery, Answered
  <2> QED  BY <2>1, <2>2 DEF QueryFresh
<1>3. CASE Publish \/ PublishStep
  <2>1. \/ pc' \in {"publish", "resend"}
        \/ \E x, i : Return("publish", x, i)
    BY <1>3 DEF Publish, PublishStep, PublishOk, PublishAuth, PublishResend, PublishSkip,
       PublishTimeout, PublishError, GiveUp, Iteration
  <2> QED  BY <2>1 DEF Return, Result, QueryFresh, InQuery, Answered
<1>4. CASE QueryStep /\ ~QueryEvent
  <2>1. UNCHANGED <<events, calls>> /\ InQuery
    BY <1>4 DEF QueryStep, QueryDone, QueryIdle, QueryAuth, QueryRearm, QuerySkip,
       QueryError, Finish, QueryFails, QueryFrame, InQuery
  <2> QED  BY <2>1 DEF QueryFresh
<1>5. CASE poll \/ poll_event \/ close \/ \E s \in CallerSubs : subscribe(s) \/ unsubscribe(s)
  <2>1. /\ pc' \in {"idle", "closed"} /\ UNCHANGED <<events, calls>>
        /\ \/ pc' = "closed"
           \/ \E o \in {"poll", "poll_event", "subscribe", "unsubscribe"} : \E x, i :
                 ret' = Result(o, x, i)
    BY <1>5 DEF poll, poll_event, close, subscribe, unsubscribe, Return, ListenFrame, historyVars
  <2>2. \A o, x, i : Result(o, x, i).op = o
    BY DEF Result
  <2> QED  BY <2>1, <2>2 DEF QueryFresh, InQuery, Answered
<1> QED  BY <1>1, <1>2, <1>3, <1>4, <1>5 DEF CallerStep, LoopStep

LEMMA FreshAlways ==
    ASSUME DistinctIds PROVE Spec => []FreshInv
<1>1. Init => ReqsServed /\ SubsServed /\ EventsServed /\ QueryFresh
  BY DEF Init, LinkInit, Closed, ReqsServed, SubsServed, EventsServed, QueryFresh
<1>2. FreshInv /\ TypeOK' /\ [Next]_vars => FreshInv'
  <2> SUFFICES ASSUME FreshInv, TypeOK', [Next]_vars
               PROVE  ReqsServed' /\ SubsServed' /\ EventsServed' /\ QueryFresh'
    BY DEF FreshInv
  <2>0. TypeOK /\ ReqsServed /\ SubsServed /\ EventsServed /\ QueryFresh
    BY DEF FreshInv
  <2>1. CASE CallerStep \/ LoopStep
    BY <2>0, <2>1, ClientServes, QueryCollects
  <2>2. CASE RelayStep /\ UNCHANGED clientVars
    <3>1. QueryFresh'
      BY <2>0, <2>2 DEF QueryFresh, InQuery, Answered, clientVars, callVars, historyVars
    <3> QED  BY <2>0, <2>2, <3>1, RelayReqs, RelaySubs, RelayEvents
  <2>3. CASE UNCHANGED vars
    BY <2>0, <2>3 DEF vars, linkVars, relayVars, clientVars, callVars, historyVars,
       ReqsServed, SubsServed, EventsServed, ServedFor, QueryFresh, InQuery, Answered
  <2> QED  BY <2>1, <2>2, <2>3 DEF Next, Done
<1> QED  BY <1>1, <1>2, TypeCorrect, PTL DEF Spec, FreshInv

\* A query never takes an event served for an earlier call, still under way
\* when that call had been given up, for an answer to its own REQ, provided the
\* caller keeps the names of the queries' subscriptions to the queries.
THEOREM QueryIsFresh ==
    ASSUME DistinctIds PROVE Spec => []QueryFresh
<1>1. FreshInv => QueryFresh
  BY DEF FreshInv
<1> QED  BY <1>1, FreshAlways, PTL

-----------------------------------------------------------------------------
(* A second send follows the answer that made it possible.                 *)

\* Among the first k frames of q is an answer to challenge n.
Answers(q, k, n) == \E j \in 1..k : q[j].typ = "AUTH" /\ q[j].n = n

\* Every second send under way has the answer it follows before it, unless the
\* relay has read that already; so has one that is about to be made.
AnswersLead ==
    \A i \in 1..Len(toRelay) :
        toRelay[i].typ \in {"EVENT", "REQ"} /\ toRelay[i].n # 0 =>
            toRelay[i].n \in answered \/ Answers(toRelay, i - 1, toRelay[i].n)
AnswerSent ==
    pc \in {"resend", "rearm"} /\ up =>
        chal \in answered \/ Answers(toRelay, Len(toRelay), chal)

ReplayInv == AnswersLead /\ AnswerSent

LEMMA AnswersAppend ==
    ASSUME NEW S, NEW q \in Seq(S), NEW x, NEW n, NEW k \in 0..Len(q), Answers(q, k, n)
    PROVE  Answers(Append(q, x), k, n) /\ Answers(Append(q, x), Len(q) + 1, n)
<1>1. PICK j \in 1..k : q[j].typ = "AUTH" /\ q[j].n = n
  BY DEF Answers
<1>2. j \in 1..Len(q) /\ j \in 1..(Len(q) + 1)
  OBVIOUS
<1>3. Append(q, x)[j] = q[j]
  BY <1>2, AppendIndex
<1> QED  BY <1>1, <1>2, <1>3 DEF Answers

LEMMA AnswersTail ==
    ASSUME NEW S, NEW q \in Seq(S), q # <<>>, NEW n, NEW k \in 0..Len(q), Answers(q, k, n)
    PROVE  Answers(Tail(q), k - 1, n) \/ (Head(q).typ = "AUTH" /\ Head(q).n = n)
<1>1. PICK j \in 1..k : q[j].typ = "AUTH" /\ q[j].n = n
  BY DEF Answers
<1>2. CASE j = 1
  BY <1>1, <1>2, TailElements
<1>3. CASE j # 1
  <2>1. j - 1 \in 1..(k - 1) /\ j - 1 \in 1..Len(Tail(q)) /\ (j - 1) + 1 = j
    BY <1>3
  <2>2. Tail(q)[j - 1] = q[j]
    BY <2>1, TailElements
  <2> QED  BY <1>1, <2>1, <2>2 DEF Answers
<1> QED  BY <1>2, <1>3

\* The relay takes frames from the front, and takes note of the answers.
LEMMA RelayReadsAnswers ==
    ASSUME TypeOK, ReplayInv, RelayStep, UNCHANGED clientVars
    PROVE  ReplayInv'
<1>0. toRelay \in Seq(UpFrames) /\ UNCHANGED <<pc, chal>>
  BY DEF TypeOK, LinkTypeOK, clientVars, callVars, historyVars
<1>1. answered \subseteq answered'
  BY DEF RelayStep, RelayEvent, ReceiveEvent, RelayReq, ReceiveReq, RelayClose, RelayAuth,
     RelayServe, RelayDropsSub, RelayChallenge, RelayStray, RelayQuiet, OtherPublish,
     Disconnect, relayVars
<1>2. CASE toRelay' = toRelay /\ up' = up
  BY <1>0, <1>1, <1>2 DEF ReplayInv, AnswersLead, AnswerSent
<1>3. CASE /\ toRelay # <<>> /\ toRelay' = Tail(toRelay) /\ up' = up
           /\ Head(toRelay).typ = "AUTH" => Head(toRelay).n \in answered'
  <2>1. \A k \in 0..Len(toRelay) : \A n :
          Answers(toRelay, k, n) => n \in answered' \/ Answers(toRelay', k - 1, n)
    BY <1>0, <1>3, AnswersTail
  <2>2. /\ Len(toRelay) \in 0..Len(toRelay) /\ Len(toRelay') = Len(toRelay) - 1
        /\ \A i \in 1..Len(toRelay') : /\ toRelay'[i] = toRelay[i + 1] /\ i + 1 \in 1..Len(toRelay)
                                       /\ i \in 0..Len(toRelay) /\ (i + 1) - 1 = i
    BY <1>0, <1>3, TailElements
  <2>3. AnswerSent'
    BY <1>0, <1>1, <1>3, <2>1, <2>2 DEF ReplayInv, AnswerSent
  <2>4. ASSUME NEW i \in 1..Len(toRelay'), toRelay'[i].typ \in {"EVENT", "REQ"}, toRelay'[i].n # 0
        PROVE  toRelay'[i].n \in answered' \/ Answers(toRelay', i - 1, toRelay'[i].n)
    <3>1. toRelay'[i].n \in answered \/ Answers(toRelay, i, toRelay'[i].n)
      <4>1. \/ toRelay'[i].n \in answered
            \/ Answers(toRelay, (i + 1) - 1, toRelay'[i].n)
        BY <2>2, <2>4 DEF ReplayInv, AnswersLead
      <4> QED  BY <2>2, <4>1
    <3> QED  BY <1>1, <2>1, <2>2, <3>1
  <2> QED  BY <2>3, <2>4 DEF ReplayInv, AnswersLead
<1>4. CASE Disconnect
  BY <1>4 DEF Disconnect, ReplayInv, AnswersLead, AnswerSent
<1> QED
  BY <1>2, <1>3, <1>4
     DEF RelayStep, RelayEvent, ReceiveEvent, RelayReq, ReceiveReq, RelayClose, RelayAuth, RelayServe,
     RelayDropsSub, RelayChallenge, RelayStray, RelayQuiet, OtherPublish, Reads, linkVars

\* The client sends answers, first sends, CLOSEs and, after an answer, the frame
\* that the challenge has made it send again.
LEMMA ClientReplays ==
    ASSUME TypeOK, CallerStep \/ LoopStep
    PROVE  /\ \/ toRelay' = toRelay
              \/ \E f : /\ Sends(f)
                        /\ \/ f.typ \notin {"EVENT", "REQ"} \/ f.n = 0
                           \/ pc \in {"resend", "rearm"} /\ f.n = chal
           /\ pc' \in {"resend", "rearm"} =>
                \E f : Sends(f) /\ f.typ = "AUTH" /\ f.n = chal'
<1>1. \A e, k, c : EventFrame(e, k, c).n = k
  BY DEF EventFrame, Frame
<1>2. \A s, k, c : ReqFrame(s, k, c).n = k
  BY DEF ReqFrame, Frame
<1>3. \A s : CloseFrame(s).typ = "CLOSE"
  BY DEF CloseFrame, Frame
<1>4. \A k : AuthFrame(k).typ = "AUTH" /\ AuthFrame(k).n = k
  BY DEF AuthFrame, Frame
<1>5. RecvSome \/ RecvNone \/ RecvErr =>
        toRelay' = toRelay \/ Sends(AuthFrame(Msg.n))
  BY DEF RecvSome, RecvNone, RecvErr, answer_auth
<1>6. RecvSome /\ Msg.typ = "AUTH" => Sends(AuthFrame(Msg.n)) /\ chal' = Msg.n
  BY DEF RecvSome, answer_auth
<1>7. CASE PublishStep
  <2>1. \/ toRelay' = toRelay \/ Sends(AuthFrame(Msg.n))
        \/ pc = "resend" /\ Sends(EventFrame(id, chal, calls))
    BY <1>5, <1>7 DEF PublishStep, PublishOk, PublishAuth, PublishResend, PublishSkip,
       PublishTimeout, PublishError, GiveUp, SendFails
  <2>2. pc' \in {"resend", "rearm"} => RecvSome /\ Msg.typ = "AUTH"
    BY <1>7 DEF PublishStep, PublishOk, PublishAuth, PublishResend, PublishSkip,
       PublishTimeout, PublishError, GiveUp, Iteration, Return
  <2> QED  BY <1>1, <1>4, <1>6, <2>1, <2>2
<1>8. CASE QueryStep
  <2>1. \/ toRelay' = toRelay \/ Sends(AuthFrame(Msg.n)) \/ Sends(CloseFrame(sub_id))
        \/ pc = "rearm" /\ Sends(ReqFrame(sub_id, chal, calls))
    BY <1>5, <1>8 DEF QueryStep, QueryEvent, QueryDone, QueryIdle, QueryAuth, QueryRearm,
       QuerySkip, QueryError, Finish, SendFails
  <2>2. pc' \in {"resend", "rearm"} => RecvSome /\ Msg.typ = "AUTH"
    BY <1>8 DEF QueryStep, QueryEvent, QueryDone, QueryIdle, QueryAuth, QueryRearm,
       QuerySkip, QueryError, QueryFails, Finish, Return
  <2> QED  BY <1>2, <1>3, <1>4, <1>6, <2>1, <2>2
<1>9. CASE Publish
  <2>1. pc' \notin {"resend", "rearm"} /\ (toRelay' = toRelay \/ \E e, c : Sends(EventFrame(e, 0, c)))
    BY <1>9 DEF Publish, SendFails, Return
  <2> QED  BY <1>1, <2>1
<1>10. CASE Query
  <2>1. pc' \notin {"resend", "rearm"} /\ (toRelay' = toRelay \/ \E s, c : Sends(ReqFrame(s, 0, c)))
    BY <1>10 DEF Query, SendFails, Return
  <2> QED  BY <1>2, <2>1
<1>11. CASE poll \/ poll_event \/ close
  <2>1. pc' \notin {"resend", "rearm"} /\ (toRelay' = toRelay \/ Sends(AuthFrame(Msg.n)))
    BY <1>5, <1>11 DEF poll, poll_event, close, linkVars, Return
  <2> QED  BY <1>4, <2>1
<1>12. CASE \E s \in CallerSubs : subscribe(s) \/ unsubscribe(s)
  <2>1. PICK s \in CallerSubs :
          /\ pc' \notin {"resend", "rearm"}
          /\ toRelay' = toRelay \/ Sends(ReqFrame(s, 0, 0)) \/ Sends(CloseFrame(s))
    BY <1>12 DEF subscribe, unsubscribe, SendFails, Return
  <2> QED  BY <1>2, <1>3, <2>1
<1> QED
  BY <1>7, <1>8, <1>9, <1>10, <1>11, <1>12 DEF CallerStep, LoopStep

LEMMA ClientSendsAnswers ==
    ASSUME TypeOK, ReplayInv, CallerStep \/ LoopStep
    PROVE  ReplayInv'
<1>0. toRelay \in Seq(UpFrames) /\ UNCHANGED <<up, answered>> /\ up \in BOOLEAN
  BY ClientReads DEF relayVars, TypeOK, LinkTypeOK
<1>1. AnswerSent'
  <2> SUFFICES ASSUME pc' \in {"resend", "rearm"}, up PROVE Answers(toRelay', Len(toRelay'), chal')
    BY <1>0 DEF AnswerSent
  <2>1. PICK f : Sends(f) /\ f.typ = "AUTH" /\ f.n = chal'
    BY ClientReplays
  <2>2. toRelay' = Append(toRelay, f)
    BY <2>1 DEF Sends
  <2>3. Len(toRelay') \in 1..Len(toRelay') /\ toRelay'[Len(toRelay')] = f
    BY <1>0, <2>2
  <2> QED  BY <2>1, <2>3 DEF Answers
<1>2. CASE toRelay' = toRelay
  BY <1>0, <1>1, <1>2 DEF ReplayInv, AnswersLead
<1>3. CASE toRelay' # toRelay
  <2>1. PICK f : /\ Sends(f)
                 /\ \/ f.typ \notin {"EVENT", "REQ"} \/ f.n = 0
                    \/ pc \in {"resend", "rearm"} /\ f.n = chal
    BY <1>3, ClientReplays
  <2>2. up /\ toRelay' = Append(toRelay, f)
    BY <1>3, <2>1 DEF Sends
  <2>3. ASSUME NEW i \in 1..Len(toRelay'), toRelay'[i].typ \in {"EVENT", "REQ"}, toRelay'[i].n # 0
        PROVE  toRelay'[i].n \in answered \/ Answers(toRelay', i - 1, toRelay'[i].n)
    <3>1. CASE i \in 1..Len(toRelay)
      <4>1. toRelay'[i] = toRelay[i] /\ i - 1 \in 0..Len(toRelay)
        BY <1>0, <2>2, <3>1, AppendIndex
      <4>2. toRelay[i].n \in answered \/ Answers(toRelay, i - 1, toRelay[i].n)
        BY <2>3, <3>1, <4>1 DEF ReplayInv, AnswersLead
      <4> QED  BY <1>0, <2>2, <4>1, <4>2, AnswersAppend
    <3>2. CASE i \notin 1..Len(toRelay)
      <4>1. toRelay'[i] = f /\ i - 1 = Len(toRelay) /\ Len(toRelay) \in 0..Len(toRelay)
        BY <1>0, <2>2, <3>2, AppendIndex
      <4>2. f.n \in answered \/ Answers(toRelay, Len(toRelay), f.n)
        BY <2>1, <2>2, <2>3, <4>1 DEF ReplayInv, AnswerSent
      <4> QED  BY <1>0, <2>2, <4>1, <4>2, AnswersAppend
    <3> QED  BY <3>1, <3>2
  <2> QED  BY <1>0, <1>1, <2>3 DEF ReplayInv, AnswersLead
<1> QED  BY <1>2, <1>3

\* However challenges, answers and second sends interleave with the relay and the
\* network, the relay never reads a frame that a challenge has made the client
\* send again before it has read the answer to that challenge.
THEOREM ReplaysFollowAuth == Spec => []ReplayAfterAuth
<1>1. Init => ReplayInv
  BY DEF Init, LinkInit, ReplayInv, AnswersLead, AnswerSent
<1>2. TypeOK /\ ReplayInv /\ [Next]_vars => ReplayInv'
  <2> SUFFICES ASSUME TypeOK, ReplayInv, [Next]_vars PROVE ReplayInv'
    OBVIOUS
  <2>1. CASE CallerStep \/ LoopStep
    BY <2>1, ClientSendsAnswers
  <2>2. CASE RelayStep /\ UNCHANGED clientVars
    BY <2>2, RelayReadsAnswers
  <2>3. CASE UNCHANGED vars
    BY <2>3 DEF vars, linkVars, relayVars, clientVars, callVars, historyVars,
       ReplayInv, AnswersLead, AnswerSent
  <2> QED  BY <2>1, <2>2, <2>3 DEF Next, Done
<1>3. TypeOK /\ ReplayInv => ReplayAfterAuth
  <2> SUFFICES ASSUME TypeOK, ReplayInv, toRelay # <<>>, Head(toRelay).typ \in {"EVENT", "REQ"},
                      Head(toRelay).n # 0
               PROVE  Head(toRelay).n \in answered
    BY DEF ReplayAfterAuth
  <2>1. Head(toRelay) = toRelay[1] /\ 1 \in 1..Len(toRelay)
    BY TailElements DEF TypeOK, LinkTypeOK
  <2>2. \A n : ~Answers(toRelay, 1 - 1, n)
    BY DEF Answers
  <2> QED  BY <2>1, <2>2 DEF ReplayInv, AnswersLead
<1> QED  BY <1>1, <1>2, <1>3, TypeCorrect, PTL DEF Spec

-----------------------------------------------------------------------------
(* What the frames under way say last of a subscription.                   *)

Said(q, s, t) ==
    \E i \in 1..Len(q) : /\ q[i].sub = s /\ q[i].typ = t
                         /\ \A j \in 1..Len(q) : q[j].sub = s => j <= i
Unsaid(q, s) == \A i \in 1..Len(q) : q[i].sub # s

\* Subscription s is closed at the relay, or open, or will be.
Shut(s)   == Said(toRelay, s, "CLOSE") \/ (Unsaid(toRelay, s) /\ ~subs[s].open)
Wanted(s) == Said(toRelay, s, "REQ") \/ (Unsaid(toRelay, s) /\ subs[s].open)

LEMMA SaidAppend ==
    ASSUME NEW S, NEW q \in Seq(S), NEW x, NEW s
    PROVE  /\ x.sub = s => Said(Append(q, x), s, x.typ)
           /\ x.sub # s /\ Unsaid(q, s) => Unsaid(Append(q, x), s)
           /\ x.sub # s => \A t : Said(q, s, t) => Said(Append(q, x), s, t)
<1> DEFINE r == Append(q, x)
<1>1. /\ Len(r) = Len(q) + 1 /\ r[Len(q) + 1] = x /\ Len(q) \in Nat
      /\ \A i \in 1..Len(r) : (i \in 1..Len(q) /\ r[i] = q[i]) \/ i = Len(q) + 1
      /\ \A i \in 1..Len(q) : i \in 1..Len(r) /\ r[i] = q[i]
  BY AppendIndex
<1> HIDE DEF r
<1>2. x.sub = s => Said(r, s, x.typ)
  <2>1. Len(q) + 1 \in 1..Len(r) /\ \A j \in 1..Len(r) : j <= Len(q) + 1
    BY <1>1
  <2> QED  BY <1>1, <2>1 DEF Said
<1>3. x.sub # s /\ Unsaid(q, s) => Unsaid(r, s)
  BY <1>1 DEF Unsaid
<1>4. ASSUME x.sub # s, NEW t, Said(q, s, t) PROVE Said(r, s, t)
  <2>1. PICK i \in 1..Len(q) : /\ q[i].sub = s /\ q[i].typ = t
                               /\ \A j \in 1..Len(q) : q[j].sub = s => j <= i
    BY <1>4 DEF Said
  <2>2. \A j \in 1..Len(r) : r[j].sub = s => j <= i
    BY <1>1, <1>4, <2>1
  <2>3. i \in 1..Len(r) /\ r[i].sub = s /\ r[i].typ = t
    BY <1>1, <2>1
  <2> QED  BY <2>2, <2>3 DEF Said
<1> QED  BY <1>2, <1>3, <1>4 DEF r

LEMMA SaidTail ==
    ASSUME NEW S, NEW q \in Seq(S), q # <<>>, NEW s
    PROVE  /\ Unsaid(q, s) => Unsaid(Tail(q), s)
           /\ \A t : Said(q, s, t) =>
                \/ Said(Tail(q), s, t)
                \/ Head(q).sub = s /\ Head(q).typ = t /\ Unsaid(Tail(q), s)
<1> DEFINE r == Tail(q)
<1>1. /\ Len(r) = Len(q) - 1 /\ Len(q) \in Nat /\ Head(q) = q[1]
      /\ \A i \in 1..Len(r) : r[i] = q[i + 1] /\ i + 1 \in 1..Len(q)
  BY TailElements
<1> HIDE DEF r
<1>2. Unsaid(q, s) => Unsaid(r, s)
  BY <1>1 DEF Unsaid
<1>3. ASSUME NEW t, Said(q, s, t)
      PROVE  Said(r, s, t) \/ (Head(q).sub = s /\ Head(q).typ = t /\ Unsaid(r, s))
  <2>1. PICK i \in 1..Len(q) : /\ q[i].sub = s /\ q[i].typ = t
                               /\ \A j \in 1..Len(q) : q[j].sub = s => j <= i
    BY <1>3 DEF Said
  <2>2. CASE i = 1
    <3>1. \A j \in 1..Len(r) : ~(j + 1 <= 1)
      BY <1>1
    <3>2. Unsaid(r, s)
      BY <1>1, <2>1, <2>2, <3>1 DEF Unsaid
    <3> QED  BY <1>1, <2>1, <2>2, <3>2
  <2>3. CASE i # 1
    <3>1. i - 1 \in 1..Len(r) /\ (i - 1) + 1 = i
      BY <1>1, <2>3
    <3>2. \A j \in 1..Len(r) : j + 1 <= i => j <= i - 1
      BY <1>1
    <3>3. \A j \in 1..Len(r) : r[j].sub = s => j <= i - 1
      BY <1>1, <2>1, <3>2
    <3>4. r[i - 1].sub = s /\ r[i - 1].typ = t
      BY <1>1, <2>1, <3>1
    <3> QED  BY <3>1, <3>3, <3>4 DEF Said
  <2> QED  BY <2>2, <2>3
<1> QED  BY <1>2, <1>3 DEF r

\* LastWord is what these say.
LEMMA LastWordIs ==
    ASSUME TypeOK, NEW s
    PROVE  /\ Shut(s) => LastWord(s) = "CLOSE"
           /\ Wanted(s) => LastWord(s) = "REQ"
<1>0. toRelay \in Seq(UpFrames) /\ DOMAIN toRelay = 1..Len(toRelay) /\ Len(toRelay) \in Nat
  BY DEF TypeOK, LinkTypeOK
<1>1. ASSUME Unsaid(toRelay, s) PROVE LastWord(s) = IF subs[s].open THEN "REQ" ELSE "CLOSE"
  <2>1. Pending(s) = {}
    BY <1>0, <1>1 DEF Pending, Unsaid
  <2> QED  BY <2>1 DEF LastWord
<1>2. ASSUME NEW t, Said(toRelay, s, t) PROVE LastWord(s) = t
  <2>1. PICK i \in 1..Len(toRelay) :
          /\ toRelay[i].sub = s /\ toRelay[i].typ = t
          /\ \A j \in 1..Len(toRelay) : toRelay[j].sub = s => j <= i
    BY <1>2 DEF Said
  <2>2. i \in Pending(s) /\ \A j \in Pending(s) : j \in 1..Len(toRelay) /\ j <= i
    BY <1>0, <2>1 DEF Pending
  <2> DEFINE k == CHOOSE i0 \in Pending(s) : \A j \in Pending(s) : j <= i0
  <2>3. k \in Pending(s) /\ \A j \in Pending(s) : j <= k
    BY <2>2
  <2>4. k = i
    <3> HIDE DEF k
    <3> QED  BY <2>2, <2>3
  <2>5. Pending(s) # {}
    BY <2>2
  <2>6. LastWord(s) = toRelay[k].typ
    BY <2>5 DEF LastWord
  <2> HIDE DEF k
  <2> QED  BY <2>1, <2>4, <2>6
<1> QED  BY <1>1, <1>2 DEF Shut, Wanted

\* What tells the client that s may be gone.
Notice(s, f) == f.typ = "AUTH" \/ (f.typ = "CLOSED" /\ f.sub = s)

\* What a step of the relay does to s: it writes, or reads one frame.
LEMMA RelayTurns ==
    ASSUME TypeOK, RelayStep, up', NEW s \in SubId
    PROVE  \/ /\ toRelay' = toRelay
              /\ subs'[s].open => subs[s].open
              /\ subs[s].open => subs'[s].open \/ \E f : Reply(f) /\ Notice(s, f)
           \/ /\ toRelay # <<>> /\ toRelay' = Tail(toRelay)
              /\ Head(toRelay).sub # s => (subs'[s].open <=> subs[s].open)
              /\ Head(toRelay).sub = s /\ Head(toRelay).typ = "CLOSE" => ~subs'[s].open
              /\ Head(toRelay).sub = s /\ Head(toRelay).typ = "REQ" =>
                   subs'[s].open \/ \E f : Reply(f) /\ Notice(s, f)
<1>0. subs \in [SubId -> SubStates]
  BY DEF TypeOK, LinkTypeOK
<1>1. ~Closed.open /\ \A u, T, b : Owing(u, T, b).open <=> u.open
  BY DEF Closed, Owing
<1>2. ASSUME NEW e, Store(e) PROVE subs'[s].open <=> subs[s].open
  <2>1. subs'[s] = subs[s] \/ \E T, b : subs'[s] = Owing(subs[s], T, b)
    BY <1>2 DEF Store
  <2> QED  BY <1>1, <2>1
<1>3. CASE RelayEvent \/ OtherPublish \/ RelayAuth \/ RelayStray \/ RelayQuiet
  <2>1. subs'[s].open <=> subs[s].open
    BY <1>2, <1>3 DEF RelayEvent, ReceiveEvent, OtherPublish, RelayAuth, RelayStray, RelayQuiet
  <2>2. \/ toRelay' = toRelay
        \/ toRelay # <<>> /\ toRelay' = Tail(toRelay) /\ Head(toRelay).typ \in {"EVENT", "AUTH"}
    BY <1>3 DEF RelayEvent, ReceiveEvent, OtherPublish, RelayAuth, RelayStray, RelayQuiet,
       Reads, linkVars
  <2> QED  BY <2>1, <2>2
<1>4. CASE RelayReq
  <2> DEFINE f == Head(toRelay)
             u == [open |-> TRUE, todo |-> stored, eosed |-> FALSE, call |-> f.call]
  <2>1. toRelay # <<>> /\ toRelay' = Tail(toRelay) /\ f.typ = "REQ"
    BY <1>4 DEF RelayReq, ReceiveReq, Reads
  <2>2. \/ subs' = [subs EXCEPT ![f.sub] = u]
        \/ /\ subs' = [subs EXCEPT ![f.sub] = Closed]
           /\ Reply(Frame("CLOSED", f.sub, NoId, FALSE, f.n, f.call))
    BY <1>4 DEF RelayReq, ReceiveReq
  <2>3. u.open
    OBVIOUS
  <2> HIDE DEF f, u
  <2>4. f.sub # s => subs'[s] = subs[s]
    BY <1>0, <2>2
  <2>5. f.sub = s => subs'[s] = u \/ \E g : Reply(g) /\ Notice(s, g)
    <3>1. CASE subs' = [subs EXCEPT ![f.sub] = u]
      BY <1>0, <3>1
    <3>2. CASE Reply(Frame("CLOSED", f.sub, NoId, FALSE, f.n, f.call))
      <4>1. PICK g : g = Frame("CLOSED", f.sub, NoId, FALSE, f.n, f.call)
        OBVIOUS
      <4>2. g.typ = "CLOSED" /\ g.sub = f.sub
        BY <4>1 DEF Frame
      <4> QED  BY <3>2, <4>1, <4>2 DEF Notice
    <3> QED  BY <2>2, <3>1, <3>2
  <2> QED  BY <2>1, <2>3, <2>4, <2>5 DEF f
<1>5. CASE RelayClose
  <2>1. toRelay # <<>> /\ toRelay' = Tail(toRelay) /\ Head(toRelay).typ = "CLOSE"
        /\ subs' = [subs EXCEPT ![Head(toRelay).sub] = Closed]
    BY <1>5 DEF RelayClose, Reads
  <2>2. subs'[s] = IF s = Head(toRelay).sub THEN Closed ELSE subs[s]
    BY <1>0, <2>1
  <2> QED  BY <1>1, <2>1, <2>2
<1>6. CASE RelayServe
  <2>1. PICK z, T, b : z \in SubId /\ subs' = [subs EXCEPT ![z] = Owing(subs[z], T, b)]
    BY <1>6 DEF RelayServe
  <2>2. subs'[s] = subs[s] \/ subs'[s] = Owing(subs[s], T, b)
    BY <1>0, <2>1
  <2>3. toRelay' = toRelay
    BY <1>6 DEF RelayServe
  <2> QED  BY <1>1, <2>2, <2>3
<1>7. CASE RelayDropsSub
  <2>1. PICK z \in SubId : /\ Reply(Frame("CLOSED", z, NoId, FALSE, 0, subs[z].call))
                           /\ subs' = [subs EXCEPT ![z] = Closed]
    BY <1>7 DEF RelayDropsSub
  <2>2. z = s => \E g : Reply(g) /\ Notice(s, g)
    <3>1. PICK g : g = Frame("CLOSED", z, NoId, FALSE, 0, subs[z].call)
      OBVIOUS
    <3>2. g.typ = "CLOSED" /\ g.sub = z
      BY <3>1 DEF Frame
    <3> QED  BY <2>1, <3>1, <3>2 DEF Notice
  <2>3. subs'[s] = IF s = z THEN Closed ELSE subs[s]
    BY <1>0, <2>1
  <2>4. toRelay' = toRelay
    BY <1>7 DEF RelayDropsSub
  <2> QED  BY <1>1, <2>2, <2>3, <2>4
<1>8. CASE RelayChallenge
  <2>1. toRelay' = toRelay /\ (subs'[s] = Closed \/ subs'[s] = subs[s])
        /\ Reply(Frame("AUTH", NoSub, NoId, FALSE, issued', 0))
    BY <1>8 DEF RelayChallenge
  <2>2. \E g : Reply(g) /\ Notice(s, g)
    <3>1. PICK g : g = Frame("AUTH", NoSub, NoId, FALSE, issued', 0)
      OBVIOUS
    <3>2. g.typ = "AUTH"
      BY <3>1 DEF Frame
    <3> QED  BY <2>1, <3>1, <3>2 DEF Notice
  <2> QED  BY <1>1, <2>1, <2>2
<1>9. ~Disconnect
  BY DEF Disconnect
<1> QED
  BY <1>3, <1>4, <1>5, <1>6, <1>7, <1>8, <1>9 DEF RelayStep

LEMMA RelayKeepsWord ==
    ASSUME TypeOK, RelayStep, up', NEW s \in SubId
    PROVE  /\ Shut(s) => Shut(s)'
           /\ Wanted(s) => Wanted(s)' \/ \E f : Reply(f) /\ Notice(s, f)
<1>0. toRelay \in Seq(UpFrames)
  BY DEF TypeOK, LinkTypeOK
<1>1. CASE /\ toRelay' = toRelay
           /\ subs'[s].open => subs[s].open
           /\ subs[s].open => subs'[s].open \/ \E f : Reply(f) /\ Notice(s, f)
  BY <1>1 DEF Shut, Wanted
<1>2. CASE /\ toRelay # <<>> /\ toRelay' = Tail(toRelay)
           /\ Head(toRelay).sub # s => (subs'[s].open <=> subs[s].open)
           /\ Head(toRelay).sub = s /\ Head(toRelay).typ = "CLOSE" => ~subs'[s].open
           /\ Head(toRelay).sub = s /\ Head(toRelay).typ = "REQ" =>
                subs'[s].open \/ \E f : Reply(f) /\ Notice(s, f)
  <2>1. /\ Unsaid(toRelay, s) => Unsaid(toRelay', s) /\ Head(toRelay).sub # s
        /\ \A t : Said(toRelay, s, t) =>
             \/ Said(toRelay', s, t)
             \/ Head(toRelay).sub = s /\ Head(toRelay).typ = t /\ Unsaid(toRelay', s)
    <3>1. Unsaid(toRelay, s) => Head(toRelay).sub # s
      BY <1>0, <1>2, TailElements DEF Unsaid
    <3> QED  BY <1>0, <1>2, <3>1, SaidTail
  <2> QED  BY <1>2, <2>1 DEF Shut, Wanted
<1> QED  BY <1>1, <1>2, RelayTurns

\* A frame about another subscription changes nothing for s.
LEMMA ClientKeepsWord ==
    ASSUME TypeOK, CallerStep \/ LoopStep, NEW s,
           toRelay' = toRelay \/ \E f : Sends(f) /\ f.sub # s
    PROVE  (Shut(s) => Shut(s)') /\ (Wanted(s) => Wanted(s)')
<1>0. toRelay \in Seq(UpFrames) /\ subs' = subs
  BY ClientReads DEF TypeOK, LinkTypeOK, relayVars
<1>1. CASE toRelay' = toRelay
  BY <1>0, <1>1 DEF Shut, Wanted
<1>2. CASE \E f : f.sub # s /\ toRelay' = Append(toRelay, f)
  <2>1. PICK f : f.sub # s /\ toRelay' = Append(toRelay, f)
    BY <1>2
  <2>2. /\ Unsaid(toRelay, s) => Unsaid(toRelay', s)
        /\ \A t : Said(toRelay, s, t) => Said(toRelay', s, t)
    BY <1>0, <2>1, SaidAppend
  <2> QED  BY <1>0, <2>2 DEF Shut, Wanted
<1> QED  BY <1>1, <1>2 DEF Sends

\* The last frame sent is the last word.
LEMMA LastSent ==
    ASSUME TypeOK, NEW f, Sends(f), up PROVE Said(toRelay', f.sub, f.typ)
BY SaidAppend DEF TypeOK, LinkTypeOK, Sends

\* Every query is under way, has failed, or has its subscription shut.
Accounted ==
    up => \A n \in 1..next_sub :
        \/ InQuery /\ n = next_sub
        \/ QuerySub(n) \in abandoned
        \/ Shut(QuerySub(n))

\* What a step of the client does to the subscriptions of its queries.
LEMMA ClientAccounts ==
    ASSUME DistinctIds, TypeOK, TypeOK', CallerStep \/ LoopStep, NEW n \in 1..next_sub'
    PROVE  \/ InQuery' /\ n = next_sub'
           \/ QuerySub(n) \in abandoned'
           \/ \E f : Sends(f) /\ f.sub = QuerySub(n) /\ f.typ = "CLOSE"
           \/ /\ n \in 1..next_sub /\ ~(InQuery /\ n = next_sub) /\ abandoned \subseteq abandoned'
              /\ toRelay' = toRelay \/ \E f : Sends(f) /\ f.sub # QuerySub(n)
<1>0. /\ next_sub \in Nat /\ next_sub' \in Nat
      /\ QuerySub(n) # NoSub /\ QuerySub(n) \notin CallerSubs
  <2>1. next_sub' <= MaxCalls /\ MaxCalls \in Nat /\ next_sub' \in Nat
    BY LinkAssumption DEF TypeOK
  <2>2. QuerySub(n) \in QuerySubs
    BY <2>1 DEF QuerySubs
  <2> QED  BY <2>1, <2>2, LinkAssumption DEF TypeOK, DistinctIds, SubId
<1>1. \A m : QuerySub(m) = QuerySub(n) => m = n
  BY DEF QuerySub
<1>2. /\ \A k : AuthFrame(k).sub = NoSub
      /\ \A e, k, c : EventFrame(e, k, c).sub = NoSub
  BY DEF AuthFrame, EventFrame, Frame
<1>3. /\ \A s, k, c : ReqFrame(s, k, c).sub = s
      /\ \A s : CloseFrame(s).sub = s /\ CloseFrame(s).typ = "CLOSE"
  BY DEF ReqFrame, CloseFrame, Frame
<1>4. RecvSome \/ RecvNone \/ RecvErr =>
        toRelay' = toRelay \/ Sends(AuthFrame(Msg.n))
  BY DEF RecvSome, RecvNone, RecvErr, answer_auth
<1>5. CASE PublishStep \/ Publish
  <2>1. /\ ~InQuery /\ UNCHANGED <<next_sub, abandoned>>
        /\ \/ toRelay' = toRelay \/ Sends(AuthFrame(Msg.n))
           \/ \E e, k, c : Sends(EventFrame(e, k, c))
    BY <1>4, <1>5 DEF Publish, PublishStep, PublishOk, PublishAuth, PublishResend, PublishSkip,
       PublishTimeout, PublishError, GiveUp, SendFails, InQuery, PublishFrame, Iteration
  <2> QED  BY <1>0, <1>2, <2>1
<1>6. CASE poll \/ poll_event \/ close
  <2>1. /\ ~InQuery /\ UNCHANGED <<next_sub, abandoned>>
        /\ toRelay' = toRelay \/ Sends(AuthFrame(Msg.n))
    BY <1>4, <1>6 DEF poll, poll_event, close, ListenFrame, linkVars, historyVars, InQuery
  <2> QED  BY <1>0, <1>2, <2>1
<1>7. CASE \E s \in CallerSubs : subscribe(s) \/ unsubscribe(s)
  <2>1. PICK s \in CallerSubs :
          /\ ~InQuery /\ UNCHANGED <<next_sub, abandoned>>
          /\ toRelay' = toRelay \/ Sends(ReqFrame(s, 0, 0)) \/ Sends(CloseFrame(s))
    BY <1>7 DEF subscribe, unsubscribe, SendFails, ListenFrame, InQuery
  <2> QED  BY <1>0, <1>3, <2>1
<1>8. CASE Query
  <2>1. /\ ~InQuery /\ next_sub' = next_sub + 1 /\ sub_id' = QuerySub(next_sub')
        /\ \/ Sends(ReqFrame(sub_id', 0, calls')) /\ InQuery' /\ UNCHANGED abandoned
           \/ toRelay' = toRelay /\ abandoned' = abandoned \cup {sub_id'}
    BY <1>8 DEF Query, SendFails, InQuery, sub_id
  <2>2. n # next_sub' => n \in 1..next_sub /\ QuerySub(next_sub') # QuerySub(n)
    BY <1>0, <1>1, <2>1
  <2> QED  BY <1>3, <2>1, <2>2
<1>9. CASE QueryStep
  <2>1. /\ sub_id = QuerySub(next_sub) /\ UNCHANGED next_sub /\ n \in 1..next_sub
        /\ n # next_sub => QuerySub(next_sub) # QuerySub(n)
    BY <1>1, <1>9 DEF sub_id, QueryStep, QueryEvent, QueryDone, QueryIdle, QueryAuth,
       QueryRearm, QuerySkip, QueryError, Finish, QueryFrame
  <2>2. \/ InQuery' \/ Sends(CloseFrame(sub_id)) \/ abandoned' = abandoned \cup {sub_id}
    BY <1>9 DEF QueryStep, QueryEvent, QueryDone, QueryIdle, QueryAuth,
       QueryRearm, QuerySkip, QueryError, Finish, QueryFails, InQuery
  <2>3. /\ abandoned \subseteq abandoned'
        /\ \/ toRelay' = toRelay \/ Sends(AuthFrame(Msg.n)) \/ Sends(CloseFrame(sub_id))
           \/ Sends(ReqFrame(sub_id, chal, calls))
    BY <1>4, <1>9 DEF QueryStep, QueryEvent, QueryDone, QueryIdle, QueryAuth,
       QueryRearm, QuerySkip, QueryError, Finish, QueryFails, SendFails
  <2> QED  BY <1>0, <1>2, <1>3, <2>1, <2>2, <2>3
<1> QED  BY <1>5, <1>6, <1>7, <1>8, <1>9 DEF CallerStep, LoopStep

\* No query leaves its subscription open at the relay unless it failed: through
\* challenges, idle timeouts and a relay that closes the subscription first, the
\* CLOSE that ends it is the last thing said of its name.
THEOREM QueriesAccounted ==
    ASSUME DistinctIds PROVE Spec => []SubsAccounted
<1>1. Init => Accounted
  BY DEF Init, LinkInit, Accounted
<1>2. TypeOK /\ TypeOK' /\ Accounted /\ [Next]_vars => Accounted'
  <2> SUFFICES ASSUME TypeOK, TypeOK', Accounted, [Next]_vars, up', NEW n \in 1..next_sub'
               PROVE  \/ InQuery' /\ n = next_sub'
                      \/ QuerySub(n) \in abandoned'
                      \/ Shut(QuerySub(n))'
    BY DEF Accounted
  <2>0. QuerySub(n) \in SubId
    <3>1. next_sub' <= MaxCalls /\ MaxCalls \in Nat /\ next_sub' \in Nat
      BY LinkAssumption DEF TypeOK
    <3> QED  BY <3>1 DEF SubId, QuerySubs
  <2>1. CASE CallerStep \/ LoopStep
    <3>1. up
      BY <2>1, ClientReads
    <3>2. CASE \E f : Sends(f) /\ f.sub = QuerySub(n) /\ f.typ = "CLOSE"
      <4>1. Said(toRelay', QuerySub(n), "CLOSE")
        BY <3>1, <3>2, LastSent
      <4> QED  BY <4>1 DEF Shut
    <3>3. CASE /\ n \in 1..next_sub /\ ~(InQuery /\ n = next_sub) /\ abandoned \subseteq abandoned'
               /\ toRelay' = toRelay \/ \E f : Sends(f) /\ f.sub # QuerySub(n)
      <4>1. QuerySub(n) \in abandoned \/ Shut(QuerySub(n))
        BY <3>1, <3>3 DEF Accounted
      <4> QED  BY <2>1, <3>3, <4>1, ClientKeepsWord
    <3> QED  BY <2>1, <3>2, <3>3, ClientAccounts
  <2>2. CASE RelayStep /\ UNCHANGED clientVars
    <3>1. UNCHANGED <<next_sub, abandoned>> /\ (InQuery' <=> InQuery)
      BY <2>2 DEF clientVars, callVars, historyVars, InQuery
    <3>2. up
      BY <2>2 DEF RelayStep, RelayEvent, ReceiveEvent, RelayReq, ReceiveReq, RelayClose, RelayAuth,
         RelayServe, RelayDropsSub, RelayChallenge, RelayStray, RelayQuiet, OtherPublish,
         Disconnect, linkVars
    <3> QED  BY <2>0, <2>2, <3>1, <3>2, RelayKeepsWord DEF Accounted
  <2>3. CASE UNCHANGED vars
    <3>1. UNCHANGED <<next_sub, abandoned, pc, up, toRelay, subs>>
      BY <2>3 DEF vars, linkVars, relayVars, clientVars, callVars, historyVars
    <3> QED  BY <3>1 DEF Accounted, InQuery, Shut
  <2> QED  BY <2>1, <2>2, <2>3 DEF Next, Done
<1>3. TypeOK /\ Accounted => SubsAccounted
  BY LastWordIs DEF Accounted, SubsAccounted
<1> QED  BY <1>1, <1>2, <1>3, TypeCorrect, PTL DEF Spec

-----------------------------------------------------------------------------
(* Whoever only listens is never deaf unawares.                            *)

\* Nothing but subscribe, unsubscribe and poll receives or sends.
OnlyListens == Ops \subseteq {"subscribe", "unsubscribe", "poll"}

Heard(s) == \E i \in 1..Len(toClient) : Notice(s, toClient[i])
Attended == up => \A s \in listening \ notified : Wanted(s) \/ Heard(s)
Idles    == pc \in {"idle", "closed"}

\* A frame on its way stays there until the client reads it.
LEMMA ClientHears ==
    ASSUME TypeOK, NEW s, Heard(s), toClient # <<>>, toClient' = Tail(toClient)
    PROVE  Heard(s)' \/ Notice(s, Head(toClient))
<1>1. PICK i \in 1..Len(toClient) : Notice(s, toClient[i])
  BY DEF Heard
<1>2. toClient \in Seq(DownFrames)
  BY DEF TypeOK, LinkTypeOK
<1>3. CASE i = 1
  BY <1>1, <1>2, <1>3, TailElements
<1>4. CASE i # 1
  <2>1. /\ i - 1 \in 1..Len(Tail(toClient)) /\ (i - 1) + 1 = i
        /\ \A j \in 1..Len(Tail(toClient)) : Tail(toClient)[j] = toClient[j + 1]
    BY <1>2, <1>4, TailElements
  <2>2. Notice(s, toClient'[i - 1])
    BY <1>1, <2>1
  <2> QED  BY <2>1, <2>2 DEF Heard
<1> QED  BY <1>3, <1>4

LEMMA RelayTells ==
    ASSUME TypeOK, Attended, RelayStep, UNCHANGED clientVars
    PROVE  Attended'
<1> SUFFICES ASSUME up', NEW s \in listening \ notified PROVE Wanted(s)' \/ Heard(s)'
  BY DEF Attended, clientVars, historyVars
<1>0. /\ up /\ toClient \in Seq(DownFrames) /\ s \in SubId
      /\ toClient' = toClient \/ \E f : Reply(f)
  <2>1. up /\ (toClient' = toClient \/ \E f : Reply(f))
    BY DEF RelayStep, RelayEvent, ReceiveEvent, RelayReq, ReceiveReq, RelayClose, RelayAuth,
       RelayServe, RelayDropsSub, RelayChallenge, RelayStray, RelayQuiet, OtherPublish,
       Disconnect, linkVars
  <2> QED  BY <2>1 DEF TypeOK, LinkTypeOK, SubId
<1>1. CASE Heard(s)
  <2>1. PICK i \in 1..Len(toClient) : Notice(s, toClient[i])
    BY <1>1 DEF Heard
  <2>2. i \in 1..Len(toClient') /\ toClient'[i] = toClient[i]
    BY <1>0, AppendIndex DEF Reply
  <2> QED  BY <2>1, <2>2 DEF Heard
<1>2. CASE \E f : Reply(f) /\ Notice(s, f)
  <2>1. PICK f : toClient' = Append(toClient, f) /\ Notice(s, f)
    BY <1>2 DEF Reply
  <2>2. Len(toClient') \in 1..Len(toClient') /\ toClient'[Len(toClient')] = f
    BY <1>0, <2>1, AppendIndex
  <2> QED  BY <2>1, <2>2 DEF Heard
<1>3. CASE Wanted(s)
  BY <1>0, <1>2, <1>3, RelayKeepsWord
<1> QED  BY <1>0, <1>1, <1>3 DEF Attended

\* What poll hands on and gives notice of a subscription marks it for renewal.
LEMMA ClientAttends ==
    ASSUME DistinctIds, OnlyListens, TypeOK, Attended, Idles, CallerStep \/ LoopStep
    PROVE  Attended' /\ Idles'
<1>0. toClient \in Seq(DownFrames) /\ UNCHANGED <<up, subs>>
  BY ClientReads DEF TypeOK, LinkTypeOK, relayVars
<1>1. ~LoopStep /\ ~Publish /\ ~Query /\ ~poll_event
  BY DEF Idles, OnlyListens, LoopStep, PublishStep, PublishOk, PublishAuth, PublishResend,
     PublishSkip, PublishTimeout, PublishError, GiveUp, Iteration, QueryStep, QueryEvent,
     QueryDone, QueryIdle, QueryAuth, QueryRearm, QuerySkip, QueryError, Publish, Query,
     poll_event
<1>2. CASE close
  BY <1>2 DEF close, Attended, Idles, Wanted, Heard, linkVars, relayVars, historyVars
<1>3. ASSUME NEW s, s \in CallerSubs, subscribe(s) PROVE Attended' /\ Idles'
  <2>1. Idles' /\ UNCHANGED toClient
    BY <1>3 DEF subscribe, Return, Idles
  <2>2. CASE SendFails
    BY <1>0, <2>1, <2>2 DEF SendFails, Attended
  <2>3. CASE /\ Sends(ReqFrame(s, 0, 0))
             /\ listening' = listening \cup {s} /\ notified' = notified \ {s}
    <3>1. PICK f : Sends(f) /\ f.sub = s /\ f.typ = "REQ"
      BY <2>3 DEF ReqFrame, Frame
    <3>2. up => Wanted(s)'
      BY <3>1, LastSent DEF Wanted
    <3>3. \A t : t # s /\ Wanted(t) => Wanted(t)'
      BY <1>3, <3>1, ClientKeepsWord DEF CallerStep
    <3> QED  BY <1>0, <2>1, <2>3, <3>2, <3>3 DEF Attended, Heard
  <2> QED  BY <1>3, <2>1, <2>2, <2>3 DEF subscribe
<1>4. ASSUME NEW s, s \in CallerSubs, unsubscribe(s) PROVE Attended' /\ Idles'
  <2>1. Idles' /\ UNCHANGED toClient
    BY <1>4 DEF unsubscribe, Return, Idles
  <2>2. CASE SendFails
    BY <1>0, <2>1, <2>2 DEF SendFails, Attended
  <2>3. CASE /\ Sends(CloseFrame(s))
             /\ listening' = listening \ {s} /\ notified' = notified \ {s}
    <3>1. PICK f : Sends(f) /\ f.sub = s
      BY <2>3 DEF CloseFrame, Frame
    <3>2. \A t : t # s /\ Wanted(t) => Wanted(t)'
      BY <1>4, <3>1, ClientKeepsWord DEF CallerStep
    <3> QED  BY <1>0, <2>1, <2>3, <3>2 DEF Attended, Heard
  <2> QED  BY <1>4, <2>1, <2>2, <2>3 DEF unsubscribe
<1>5. CASE poll
  <2>1. Idles' /\ UNCHANGED listening
    BY <1>5 DEF poll, Return, Idles
  <2>2. \A s \in CallerSubs : Wanted(s) => Wanted(s)'
    <3>1. toRelay' = toRelay \/ Sends(AuthFrame(Msg.n))
      BY <1>5 DEF poll, RecvSome, RecvNone, RecvErr, answer_auth
    <3>2. \A k : AuthFrame(k).sub = NoSub
      BY DEF AuthFrame, Frame
    <3>3. \A s \in CallerSubs : s # NoSub
      BY LinkAssumption DEF SubId
    <3> QED  BY <1>5, <3>1, <3>2, <3>3, ClientKeepsWord DEF CallerStep
  <2>3. listening \subseteq CallerSubs
    BY DEF TypeOK
  <2>4. CASE RecvNone /\ notified' = notified
    BY <1>0, <2>1, <2>2, <2>3, <2>4 DEF RecvNone, Attended, Heard
  <2>5. CASE notified' = listening
    BY <2>1, <2>5 DEF Attended
  <2>6. CASE RecvSome /\ Msg.typ # "AUTH"
    <3>1. /\ toClient # <<>> /\ toClient' = Tail(toClient)
          /\ notified' = IF Msg.typ = "CLOSED" THEN notified \cup ({Msg.sub} \cap listening)
                         ELSE notified
      BY <1>5, <2>6 DEF poll, RecvSome, RecvNone, RecvErr, Return
    <3>2. /\ Head(toClient).typ # "AUTH"
          /\ Head(toClient).typ = "CLOSED" => Msg = Head(toClient)
      BY <2>6 DEF Msg, parse_relay_message, DownTypes, Frame
    <3>3. \A s \in listening \ notified' : ~Notice(s, Head(toClient))
      BY <3>1, <3>2 DEF Notice
    <3>4. notified \subseteq notified'
      BY <3>1
    <3> QED  BY <1>0, <2>1, <2>2, <2>3, <3>1, <3>3, <3>4, ClientHears DEF Attended
  <2> QED
    BY <1>5, <2>4, <2>5, <2>6 DEF poll, Return
<1> QED  BY <1>1, <1>2, <1>3, <1>4, <1>5 DEF CallerStep

\* A caller that only subscribes, unsubscribes and polls is never listening in
\* vain: what it has not been told to renew is open at the relay or about to be,
\* or the news is under way. publish, query and poll_event break this, because
\* they read the CLOSED and AUTH frames of live subscriptions and drop them.
THEOREM ListenersHear ==
    ASSUME DistinctIds, OnlyListens PROVE Spec => []ListenerNotDeaf
<1>1. Init => Attended /\ Idles
  BY DEF Init, Attended, Idles
<1>2. TypeOK /\ Attended /\ Idles /\ [Next]_vars => Attended' /\ Idles'
  <2> SUFFICES ASSUME TypeOK, Attended, Idles, [Next]_vars PROVE Attended' /\ Idles'
    OBVIOUS
  <2>1. CASE CallerStep \/ LoopStep
    BY <2>1, ClientAttends
  <2>2. CASE RelayStep /\ UNCHANGED clientVars
    BY <2>2, RelayTells DEF Idles, clientVars, callVars
  <2>3. CASE UNCHANGED vars
    BY <2>3 DEF vars, linkVars, relayVars, clientVars, callVars, historyVars,
       Attended, Idles, Wanted, Heard
  <2> QED  BY <2>1, <2>2, <2>3 DEF Next, Done
<1>3. TypeOK /\ Attended => ListenerNotDeaf
  <2> SUFFICES ASSUME TypeOK, Attended, up, NEW s \in listening \ notified,
                      LastWord(s) # "REQ"
               PROVE  \E i \in DOMAIN toClient :
                        \/ toClient[i].typ = "AUTH"
                        \/ toClient[i].typ = "CLOSED" /\ toClient[i].sub = s
    BY DEF ListenerNotDeaf
  <2>1. Heard(s) /\ DOMAIN toClient = 1..Len(toClient)
    BY LastWordIs DEF Attended, TypeOK, LinkTypeOK
  <2> QED  BY <2>1 DEF Heard, Notice
<1> QED  BY <1>1, <1>2, <1>3, TypeCorrect, PTL DEF Spec
=============================================================================
