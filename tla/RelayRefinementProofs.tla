----------------------- MODULE RelayRefinementProofs -----------------------
(* What a query of RelayClient returns, and that RelayClient implements    *)
(* RelayService, for every value of the constants.                         *)
EXTENDS RelayRefinement, RelayClientProofs

-----------------------------------------------------------------------------
(* What is under way to the client.                                        *)

\* One of the first k frames of q carries event e for subscription s.
Carries(q, k, s, e) ==
    \E i \in 1..k : q[i].typ = "EVENT" /\ q[i].sub = s /\ q[i].id = e

IsEose(f, s) == f.typ = "EOSE" /\ f.sub = s

\* A frame that neither carries an event nor ends the answer of a subscription.
Mute(f) == f.typ \in {"EVENT", "EOSE"} => f.sub = NoSub /\ f.id = NoId

LEMMA CarriesAppend ==
    ASSUME NEW S, NEW q \in Seq(S), NEW x, NEW s, NEW e, NEW k \in 0..Len(q), Carries(q, k, s, e)
    PROVE  Carries(Append(q, x), k, s, e) /\ Carries(Append(q, x), Len(q) + 1, s, e)
<1>1. PICK i \in 1..k : q[i].typ = "EVENT" /\ q[i].sub = s /\ q[i].id = e
  BY DEF Carries
<1>2. i \in 1..Len(q) /\ i \in 1..(Len(q) + 1)
  OBVIOUS
<1>3. Append(q, x)[i] = q[i]
  BY <1>2, AppendIndex
<1> QED  BY <1>1, <1>2, <1>3 DEF Carries

LEMMA CarriesLast ==
    ASSUME NEW S, NEW q \in Seq(S), NEW x, x.typ = "EVENT"
    PROVE  Carries(Append(q, x), Len(q) + 1, x.sub, x.id)
<1>1. Len(q) + 1 \in 1..(Len(q) + 1) /\ Append(q, x)[Len(q) + 1] = x
  OBVIOUS
<1> QED  BY <1>1 DEF Carries

LEMMA CarriesTail ==
    ASSUME NEW S, NEW q \in Seq(S), q # <<>>, NEW s, NEW e, NEW k \in 0..Len(q), Carries(q, k, s, e)
    PROVE  \/ Carries(Tail(q), k - 1, s, e)
           \/ Head(q).typ = "EVENT" /\ Head(q).sub = s /\ Head(q).id = e
<1>1. PICK i \in 1..k : q[i].typ = "EVENT" /\ q[i].sub = s /\ q[i].id = e
  BY DEF Carries
<1>2. CASE i = 1
  BY <1>1, <1>2, TailElements
<1>3. CASE i # 1
  <2>1. i - 1 \in 1..(k - 1) /\ i - 1 \in 1..Len(Tail(q)) /\ (i - 1) + 1 = i
    BY <1>3
  <2>2. Tail(q)[i - 1] = q[i]
    BY <2>1, TailElements
  <2> QED  BY <1>1, <2>1, <2>2 DEF Carries
<1> QED  BY <1>2, <1>3

LEMMA CarriesPrefix ==
    ASSUME NEW S, NEW q \in Seq(S), NEW k \in 0..Len(q), NEW j \in 0..k, NEW s, NEW e,
           Carries(q, j, s, e)
    PROVE  Carries(SubSeq(q, 1, k), j, s, e)
<1>1. PICK i \in 1..j : q[i].typ = "EVENT" /\ q[i].sub = s /\ q[i].id = e
  BY DEF Carries
<1>2. i \in 1..k
  OBVIOUS
<1>3. SubSeq(q, 1, k)[i] = q[i]
  BY <1>2, PrefixElements
<1> QED  BY <1>1, <1>3 DEF Carries

-----------------------------------------------------------------------------
(* The invariant.                                                          *)

\* What the relay owes or has sent, it holds.
SubsStored == \A s \in SubId : subs[s].todo \subseteq stored
EventsStored ==
    \A i \in 1..Len(toClient) :
        toClient[i].typ = "EVENT" /\ toClient[i].id # NoId => toClient[i].id \in stored

\* The answer of a query not yet made has not ended.
EosesServed ==
    \A i \in 1..Len(toClient) : \A n \in 1..MaxCalls :
        IsEose(toClient[i], QuerySub(n)) => n <= next_sub

\* What is collected and was asked for, the relay holds.
GotStored ==
    /\ InQuery => snap \subseteq stored
    /\ InQuery \/ Answered => Got \subseteq stored \ Forged

\* Event e will have been collected when the query in progress reads its EOSE:
\* while its subscription is open, it is collected, owed or under way; and no EOSE
\* is under way before it.
Due(e) ==
    /\ up /\ subs[sub_id].open =>
         e \in Got \/ e \in subs[sub_id].todo \/ Carries(toClient, Len(toClient), sub_id, e)
    /\ \A j \in 1..Len(toClient) :
         IsEose(toClient[j], sub_id) => e \in Got \/ Carries(toClient, j - 1, sub_id, e)

Complete == InQuery => \A e \in snap \ Forged : Due(e)

AnswerInv == SubsStored /\ EventsStored /\ EosesServed /\ GotStored /\ Complete /\ QueryExact

-----------------------------------------------------------------------------
(* What the relay does, as far as the answer to a query is concerned.      *)

\* No open subscription loses an event it is owed; one that was just opened is
\* owed everything.
SubsKeep ==
    \A s \in SubId : subs'[s].open =>
        \/ subs[s].open /\ subs[s].todo \subseteq subs'[s].todo
        \/ stored \subseteq subs'[s].todo

Aside ==
    /\ up' = up /\ SubsKeep
    /\ toClient' = toClient \/ \E f : Mute(f) /\ Reply(f)

ServesEvent(s, e) ==
    /\ subs[s].open /\ e \in subs[s].todo /\ UNCHANGED <<up, stored>>
    /\ \E f : f.typ = "EVENT" /\ f.sub = s /\ f.id = e /\ Reply(f)
    /\ \A z \in SubId \ {s} : subs'[z] = subs[z]
    /\ subs'[s].open /\ subs'[s].todo = subs[s].todo \ {e}

ServesEose(s) ==
    /\ up /\ subs[s].open /\ subs[s].todo = {} /\ UNCHANGED <<up, stored>>
    /\ \E f : IsEose(f, s) /\ Reply(f)
    /\ \A z \in SubId \ {s} : subs'[z] = subs[z]
    /\ subs'[s].open /\ subs'[s].todo = {}

LEMMA FrameFields ==
    ASSUME NEW t, NEW s, NEW i, NEW b \in BOOLEAN, NEW k, NEW c
    PROVE  /\ Frame(t, s, i, b, k, c).typ = t /\ Frame(t, s, i, b, k, c).sub = s
           /\ Frame(t, s, i, b, k, c).id = i
BY DEF Frame

LEMMA StoreKeeps ==
    ASSUME LinkTypeOK, NEW e \in Events, Store(e)
    PROVE  SubsKeep /\ (SubsStored => SubsStored')
<1>1. \A s \in SubId : subs[s] \in SubStates
  BY DEF LinkTypeOK
<1>2. \A s \in SubId :
        \/ subs'[s] = subs[s]
        \/ \E T, b : T = subs[s].todo \cup {e} /\ subs'[s] = Owing(subs[s], T, b)
  BY DEF Store
<1>3. \A u, T, b : Owing(u, T, b).open = u.open /\ Owing(u, T, b).todo = T
  BY DEF Owing
<1>4. \A s \in SubId : /\ subs'[s].open => subs[s].open
                       /\ subs'[s].todo = subs[s].todo \/ subs'[s].todo = subs[s].todo \cup {e}
  BY <1>2, <1>3
<1>5. stored' = stored \cup {e}
  BY DEF Store
<1> QED  BY <1>4, <1>5 DEF SubsKeep, SubsStored

\* The relay's step is one of these, and what it owes it holds.
LEMMA RelayDoes ==
    ASSUME TypeOK, SubsStored, RelayStep
    PROVE  /\ \/ Aside \/ Disconnect
              \/ \E s \in SubId : \E e \in Events : ServesEvent(s, e)
              \/ \E s \in SubId : ServesEose(s)
           /\ SubsStored'
<1>0. LinkTypeOK /\ subs \in [SubId -> SubStates] /\ stored \subseteq Events
  BY DEF TypeOK, LinkTypeOK
<1>1. Closed.open = FALSE /\ Closed.todo = {}
  BY DEF Closed
<1>2. ASSUME NEW f, Reply(f), f.typ \notin {"EVENT", "EOSE"} PROVE \E g : Mute(g) /\ Reply(g)
  BY <1>2 DEF Mute
<1>3. ASSUME NEW t, NEW s, NEW i, NEW b \in BOOLEAN, NEW k, NEW c, t \notin {"EVENT", "EOSE"},
             Reply(Frame(t, s, i, b, k, c))
      PROVE  \E g : Mute(g) /\ Reply(g)
  BY <1>2, <1>3, FrameFields
<1>4. ASSUME subs' = subs PROVE SubsKeep
  BY <1>4 DEF SubsKeep
<1>5. ASSUME subs' = subs, stored \subseteq stored' PROVE SubsStored'
  BY <1>5 DEF SubsStored
<1>6. ASSUME stored' = stored, \A s \in SubId : subs'[s] = subs[s] \/ subs'[s] = Closed
      PROVE  SubsKeep /\ SubsStored'
  BY <1>1, <1>6 DEF SubsKeep, SubsStored
<1>7. CASE RelayEvent
  <2>0. PICK admitted \in Admitted : ReceiveEvent(admitted)
    BY <1>7 DEF RelayEvent
  <2> DEFINE f == Head(toRelay)
  <2>1. /\ up' = up
        /\ \E b \in BOOLEAN : Reply(Frame("OK", NoSub, f.id, b, 0, f.call))
        /\ Store(f.id) \/ UNCHANGED <<stored, subs>>
    BY <2>0 DEF ReceiveEvent
  <2>2. f.id \in Events
    BY <1>0, <2>0, TailElements, UpFields DEF ReceiveEvent, Reads, LinkTypeOK
  <2>3. SubsKeep /\ SubsStored'
    BY <1>0, <1>4, <1>5, <2>1, <2>2, StoreKeeps
  <2> QED  BY <1>3, <2>1, <2>3 DEF Aside
<1>8. CASE RelayReq
  <2> DEFINE f == Head(toRelay)
             u == [open |-> TRUE, todo |-> stored, eosed |-> FALSE, call |-> f.call]
  <2>1. /\ up' = up /\ stored' = stored
        /\ toClient' = toClient \/ Reply(Frame("CLOSED", f.sub, NoId, FALSE, f.n, f.call))
        /\ subs' = [subs EXCEPT ![f.sub] = u] \/ subs' = [subs EXCEPT ![f.sub] = Closed]
    BY <1>8 DEF RelayReq, ReceiveReq
  <2>2. u.todo = stored
    OBVIOUS
  <2> HIDE DEF u, f
  <2>3. \A s \in SubId : subs'[s] = subs[s] \/ subs'[s] = u \/ subs'[s] = Closed
    BY <1>0, <2>1
  <2>4. SubsKeep /\ SubsStored'
    BY <1>1, <2>1, <2>2, <2>3 DEF SubsKeep, SubsStored
  <2>5. Frame("CLOSED", f.sub, NoId, FALSE, f.n, f.call).typ = "CLOSED"
    BY DEF Frame
  <2> QED  BY <1>2, <2>1, <2>4, <2>5 DEF Aside
<1>9. CASE RelayClose \/ RelayDropsSub \/ RelayChallenge
  <2>1. /\ up' = up /\ stored' = stored
        /\ \A s \in SubId : subs'[s] = subs[s] \/ subs'[s] = Closed
    BY <1>0, <1>9 DEF RelayClose, RelayDropsSub, RelayChallenge
  <2>2. \/ toClient' = toClient
        \/ \E t \in {"CLOSED", "AUTH"} : \E s, k, c : Reply(Frame(t, s, NoId, FALSE, k, c))
    BY <1>9 DEF RelayClose, RelayDropsSub, RelayChallenge
  <2> QED  BY <1>3, <1>6, <2>1, <2>2 DEF Aside
<1>10. CASE RelayAuth
  <2>1. /\ up' = up /\ UNCHANGED <<stored, subs>>
        /\ Reply(Frame("OK", NoSub, AuthId, TRUE, 0, 0))
    BY <1>10 DEF RelayAuth
  <2>2. Frame("OK", NoSub, AuthId, TRUE, 0, 0).typ = "OK"
    BY DEF Frame
  <2> QED  BY <1>2, <1>4, <1>5, <2>1, <2>2 DEF Aside
<1>11. CASE RelayStray
  <2>1. /\ up' = up /\ UNCHANGED <<stored, subs>>
        /\ \E f \in Strays : Reply(f)
    BY <1>11 DEF RelayStray
  <2>2. PICK f : f \in Strays /\ Reply(f)
    BY <2>1
  <2>3. PICK t : f = Frame(t, NoSub, NoId, FALSE, 0, 0)
    BY <2>2, Zenon DEF Strays
  <2>4. Mute(f)
    BY <2>3 DEF Frame, Mute
  <2> QED  BY <1>4, <1>5, <2>1, <2>2, <2>4 DEF Aside
<1>12. CASE RelayQuiet
  <2>1. UNCHANGED <<up, toClient, stored, subs>>
    BY <1>12 DEF RelayQuiet, linkVars
  <2> QED  BY <1>4, <1>5, <2>1 DEF Aside
<1>13. CASE OtherPublish
  <2>1. PICK e \in Others : Store(e)
    BY <1>13 DEF OtherPublish
  <2>2. e \in Events /\ UNCHANGED <<up, toClient>>
    BY <1>13 DEF OtherPublish, linkVars, Events
  <2> QED  BY <1>0, <2>1, <2>2, StoreKeeps DEF Aside
<1>14. CASE RelayServe
  <2>1. /\ up /\ UNCHANGED <<up, stored>>
        /\ \E s \in SubId :
             /\ subs[s].open
             /\ \/ \E e \in subs[s].todo :
                     /\ Reply(Frame("EVENT", s, e, FALSE, 0, subs[s].call))
                     /\ subs' = [subs EXCEPT ![s] = Owing(subs[s], subs[s].todo \ {e}, subs[s].eosed)]
                \/ /\ subs[s].todo = {}
                   /\ Reply(Frame("EOSE", s, NoId, FALSE, 0, subs[s].call))
                   /\ subs' = [subs EXCEPT ![s] = Owing(subs[s], {}, TRUE)]
    BY <1>14 DEF RelayServe
  <2>2. PICK s \in SubId :
          /\ subs[s].open
          /\ \/ \E e \in subs[s].todo :
                  /\ Reply(Frame("EVENT", s, e, FALSE, 0, subs[s].call))
                  /\ subs' = [subs EXCEPT ![s] = Owing(subs[s], subs[s].todo \ {e}, subs[s].eosed)]
             \/ /\ subs[s].todo = {}
                /\ Reply(Frame("EOSE", s, NoId, FALSE, 0, subs[s].call))
                /\ subs' = [subs EXCEPT ![s] = Owing(subs[s], {}, TRUE)]
    BY <2>1
  <2>3. \A u, T, b : Owing(u, T, b).open = u.open /\ Owing(u, T, b).todo = T
    BY DEF Owing
  <2>4. subs[s].todo \subseteq Events
    BY <1>0 DEF SubStates
  <2>5. ASSUME NEW e \in subs[s].todo,
               Reply(Frame("EVENT", s, e, FALSE, 0, subs[s].call)),
               subs' = [subs EXCEPT ![s] = Owing(subs[s], subs[s].todo \ {e}, subs[s].eosed)]
        PROVE  ServesEvent(s, e) /\ e \in Events
    <3>1. /\ \A z \in SubId \ {s} : subs'[z] = subs[z]
          /\ subs'[s] = Owing(subs[s], subs[s].todo \ {e}, subs[s].eosed)
      BY <1>0, <2>5
    <3>2. PICK f : f = Frame("EVENT", s, e, FALSE, 0, subs[s].call) /\ Reply(f)
      BY <2>5
    <3>3. f.typ = "EVENT" /\ f.sub = s /\ f.id = e
      BY <3>2 DEF Frame
    <3>4. PICK T, b : T = subs[s].todo \ {e} /\ subs'[s] = Owing(subs[s], T, b)
      BY <3>1
    <3>5. subs'[s].open /\ subs'[s].todo = subs[s].todo \ {e}
      <4>1. subs[s].open
        BY <2>2
      <4> QED  BY <2>3, <3>4, <4>1
    <3> QED  BY <2>1, <2>2, <2>4, <3>1, <3>2, <3>3, <3>5 DEF ServesEvent
  <2>6. ASSUME subs[s].todo = {},
               Reply(Frame("EOSE", s, NoId, FALSE, 0, subs[s].call)),
               subs' = [subs EXCEPT ![s] = Owing(subs[s], {}, TRUE)]
        PROVE  ServesEose(s)
    <3>1. /\ \A z \in SubId \ {s} : subs'[z] = subs[z]
          /\ subs'[s] = Owing(subs[s], {}, TRUE)
      BY <1>0, <2>6
    <3>2. PICK f : f = Frame("EOSE", s, NoId, FALSE, 0, subs[s].call) /\ Reply(f)
      BY <2>6
    <3>3. IsEose(f, s)
      BY <3>2 DEF Frame, IsEose
    <3>4. PICK T, b : T = {} /\ subs'[s] = Owing(subs[s], T, b)
      BY <3>1
    <3>5. subs'[s].open /\ subs'[s].todo = {}
      <4>1. subs[s].open
        BY <2>2
      <4> QED  BY <2>3, <3>4, <4>1
    <3> QED  BY <2>1, <2>2, <2>6, <3>1, <3>2, <3>3, <3>5 DEF ServesEose
  <2>7. (\E e \in Events : ServesEvent(s, e)) \/ ServesEose(s)
    BY <2>2, <2>5, <2>6
  <2>8. SubsStored'
    BY <2>1, <2>7 DEF SubsStored, ServesEvent, ServesEose
  <2> QED  BY <2>7, <2>8
<1>15. CASE Disconnect
  <2>1. UNCHANGED <<stored, subs>>
    BY <1>15 DEF Disconnect, relayVars
  <2> QED  BY <1>5, <1>15, <2>1
<1> QED
  BY <1>7, <1>8, <1>9, <1>10, <1>11, <1>12, <1>13, <1>14, <1>15 DEF RelayStep
-----------------------------------------------------------------------------
(* The relay's steps keep the invariant.                                   *)

\* What the answer rests on and no step of the relay touches.
LEMMA RelayLeaves ==
    ASSUME UNCHANGED clientVars
    PROVE  /\ sub_id' = sub_id /\ Got' = Got /\ UNCHANGED <<pc, next_sub, snap, ret>>
           /\ InQuery' <=> InQuery
           /\ Answered' <=> Answered
BY DEF clientVars, callVars, historyVars, sub_id, Got, InQuery, Answered

\* The frames the relay writes, all at once.
LEMMA RelayFrames ==
    ASSUME TypeOK, SubsStored, SubsServed, EventsStored, EosesServed, RelayStep, UNCHANGED clientVars
    PROVE  EventsStored' /\ EosesServed'
<1>0. LinkTypeOK /\ stored \subseteq stored' /\ next_sub' = next_sub
  BY StoredGrows, RelayLeaves DEF TypeOK
<1>1. ASSUME NEW f, Reply(f), f.typ = "EVENT" /\ f.id # NoId => f.id \in stored,
             \A n \in 1..MaxCalls : IsEose(f, QuerySub(n)) => n <= next_sub
      PROVE  EventsStored' /\ EosesServed'
  BY <1>0, <1>1, RelayWrites DEF EventsStored, EosesServed
<1>2. CASE toClient' = toClient
  BY <1>0, <1>2 DEF EventsStored, EosesServed
<1>3. \A n \in 1..MaxCalls : QuerySub(n) \in SubId /\ QuerySub(n) # NoSub
  BY LinkAssumption DEF SubId, QuerySubs
<1>4. CASE \E f : Mute(f) /\ Reply(f)
  <2>1. PICK f : Mute(f) /\ Reply(f)
    BY <1>4
  <2> QED  BY <1>1, <1>3, <2>1 DEF Mute, IsEose
<1>5. CASE \E s \in SubId : \E e \in Events : ServesEvent(s, e)
  <2>1. PICK s \in SubId : \E e \in Events : ServesEvent(s, e)
    BY <1>5
  <2>2. PICK e \in Events : ServesEvent(s, e)
    BY <2>1
  <2>3. PICK f : f.typ = "EVENT" /\ f.id = e /\ Reply(f)
    BY <2>2 DEF ServesEvent
  <2>4. e \in stored
    BY <2>2 DEF ServesEvent, SubsStored
  <2> QED  BY <1>1, <2>3, <2>4 DEF IsEose
<1>6. CASE \E s \in SubId : ServesEose(s)
  <2>1. PICK s \in SubId : ServesEose(s)
    BY <1>6
  <2>2. PICK f : IsEose(f, s) /\ Reply(f)
    BY <2>1 DEF ServesEose
  <2>3. \A n \in 1..MaxCalls : s = QuerySub(n) => n <= next_sub
    BY <2>1 DEF ServesEose, SubsServed, ServedFor
  <2> QED  BY <1>1, <2>2, <2>3 DEF IsEose
<1>7. CASE Disconnect
  <2>1. PICK k \in 0..Len(toClient) : toClient' = SubSeq(toClient, 1, k)
    BY <1>7 DEF Disconnect
  <2>2. Len(toClient') = k /\ \A i \in 1..k : i \in 1..Len(toClient) /\ toClient'[i] = toClient[i]
    BY <1>0, <2>1, PrefixElements DEF LinkTypeOK
  <2> QED  BY <1>0, <2>2 DEF EventsStored, EosesServed
<1> QED
  BY <1>2, <1>4, <1>5, <1>6, <1>7, RelayDoes DEF Aside

\* An event that is due stays due.
LEMMA RelayKeepsDue ==
    ASSUME TypeOK, SubsStored, RelayStep, UNCHANGED clientVars, sub_id \in SubId,
           NEW e \in stored, Due(e)
    PROVE  Due(e)'
<1>0. LinkTypeOK /\ sub_id' = sub_id /\ Got' = Got /\ sub_id # NoSub
      /\ toClient \in Seq(DownFrames) /\ Len(toClient) \in 0..Len(toClient)
  BY RelayLeaves, LinkAssumption DEF TypeOK, LinkTypeOK
<1> DEFINE s == sub_id
<1>1. ASSUME NEW f, Reply(f), ~IsEose(f, s)
      PROVE  \A j \in 1..Len(toClient') :
                 IsEose(toClient'[j], s) => e \in Got \/ Carries(toClient', j - 1, s, e)
  <2>1. toClient' = Append(toClient, f)
    BY <1>1 DEF Reply
  <2> TAKE j \in 1..Len(toClient')
  <2> HAVE IsEose(toClient'[j], s)
  <2>2. j \in 1..Len(toClient) /\ toClient'[j] = toClient[j] /\ j - 1 \in 0..Len(toClient)
    BY <1>0, <1>1, <2>1, AppendIndex
  <2>3. e \in Got \/ Carries(toClient, j - 1, s, e)
    BY <2>2 DEF Due
  <2> QED  BY <1>0, <2>1, <2>2, <2>3, CarriesAppend
<1>2. ASSUME NEW f, Reply(f), Carries(toClient, Len(toClient), s, e)
      PROVE  Carries(toClient', Len(toClient'), s, e)
  <2>1. toClient' = Append(toClient, f) /\ Len(toClient') = Len(toClient) + 1
    BY <1>0, <1>2, AppendIndex DEF Reply
  <2> QED  BY <1>0, <1>2, <2>1, CarriesAppend
<1>3. CASE Aside
  <2>1. /\ up' /\ subs'[s].open =>
             e \in Got \/ e \in subs'[s].todo \/ Carries(toClient, Len(toClient), s, e)
        /\ toClient' = toClient \/ \E f : Mute(f) /\ Reply(f)
    BY <1>3 DEF Aside, SubsKeep, Due
  <2>2. CASE toClient' = toClient
    BY <1>0, <2>1, <2>2 DEF Due
  <2>3. CASE \E f : Mute(f) /\ Reply(f)
    <3>1. PICK f : Mute(f) /\ Reply(f)
      BY <2>3
    <3>2. ~IsEose(f, s)
      BY <1>0, <3>1 DEF Mute, IsEose
    <3> QED  BY <1>0, <1>1, <1>2, <2>1, <3>1, <3>2 DEF Due
  <2> QED  BY <2>1, <2>2, <2>3
<1>4. CASE \E z \in SubId : \E e2 \in Events : ServesEvent(z, e2)
  <2>1. PICK z \in SubId : \E e2 \in Events : ServesEvent(z, e2)
    BY <1>4
  <2>2. PICK e2 \in Events : ServesEvent(z, e2)
    BY <2>1
  <2>3. PICK f : f.typ = "EVENT" /\ f.sub = z /\ f.id = e2 /\ Reply(f)
    BY <2>2 DEF ServesEvent
  <2>4. ~IsEose(f, s)
    BY <2>3 DEF IsEose
  <2>5. ASSUME up', subs'[s].open
        PROVE  e \in Got \/ e \in subs'[s].todo \/ Carries(toClient', Len(toClient'), s, e)
    <3>1. up /\ subs[s].open
      BY <2>2, <2>5 DEF ServesEvent
    <3>2. e \in Got \/ e \in subs[s].todo \/ Carries(toClient, Len(toClient), s, e)
      BY <3>1 DEF Due
    <3>3. CASE e \in subs[s].todo /\ e \notin subs'[s].todo
      <4>1. z = s /\ e = e2
        BY <2>2, <3>3 DEF ServesEvent
      <4>2. toClient' = Append(toClient, f) /\ Len(toClient') = Len(toClient) + 1
        BY <1>0, <2>3, AppendIndex DEF Reply
      <4> QED  BY <1>0, <2>3, <4>1, <4>2, CarriesLast
    <3> QED  BY <1>2, <2>3, <3>2, <3>3
  <2> QED  BY <1>0, <1>1, <2>3, <2>4, <2>5 DEF Due
<1>5. CASE \E z \in SubId : ServesEose(z)
  <2>1. PICK z \in SubId : ServesEose(z)
    BY <1>5
  <2>2. PICK f : IsEose(f, z) /\ Reply(f)
    BY <2>1 DEF ServesEose
  <2>3. /\ up' = up /\ subs[z].open /\ subs[z].todo = {} /\ subs'[z].todo = {}
        /\ \A y \in SubId \ {z} : subs'[y] = subs[y]
    BY <2>1 DEF ServesEose
  <2>4. up' /\ subs'[s].open =>
          e \in Got \/ e \in subs'[s].todo \/ Carries(toClient', Len(toClient'), s, e)
    BY <1>2, <2>2, <2>3 DEF Due
  <2>5. ASSUME NEW j \in 1..Len(toClient'), IsEose(toClient'[j], s)
        PROVE  e \in Got \/ Carries(toClient', j - 1, s, e)
    <3>1. toClient' = Append(toClient, f) /\ Len(toClient') = Len(toClient) + 1
      BY <1>0, <2>2, AppendIndex DEF Reply
    <3>2. CASE z # s
      <4>1. ~IsEose(f, s)
        BY <2>2, <3>2 DEF IsEose
      <4> QED  BY <1>1, <2>2, <2>5, <4>1
    <3>3. CASE z = s /\ j = Len(toClient) + 1
      <4>1. e \in Got \/ Carries(toClient, Len(toClient), s, e)
        BY <2>1, <2>3, <3>3 DEF Due, ServesEose
      <4>2. j - 1 = Len(toClient)
        BY <1>0, <3>3
      <4> QED  BY <1>0, <3>1, <4>1, <4>2, CarriesAppend
    <3>4. CASE j # Len(toClient) + 1
      <4>1. j \in 1..Len(toClient) /\ toClient'[j] = toClient[j] /\ j - 1 \in 0..Len(toClient)
        BY <1>0, <3>1, <3>4, AppendIndex
      <4>2. e \in Got \/ Carries(toClient, j - 1, s, e)
        BY <2>5, <4>1 DEF Due
      <4> QED  BY <1>0, <3>1, <4>1, <4>2, CarriesAppend
    <3> QED  BY <3>2, <3>3, <3>4
  <2> QED  BY <1>0, <2>4, <2>5 DEF Due
<1>6. CASE Disconnect
  <2>1. up' = FALSE
    BY <1>6 DEF Disconnect
  <2>2. PICK k \in 0..Len(toClient) : toClient' = SubSeq(toClient, 1, k)
    BY <1>6 DEF Disconnect
  <2>3. Len(toClient') = k /\ \A i \in 1..k : i \in 1..Len(toClient) /\ toClient'[i] = toClient[i]
    BY <1>0, <2>2, PrefixElements
  <2>4. ASSUME NEW j \in 1..Len(toClient'), IsEose(toClient'[j], s)
        PROVE  e \in Got \/ Carries(toClient', j - 1, s, e)
    <3>1. j \in 1..Len(toClient) /\ toClient'[j] = toClient[j] /\ j - 1 \in 0..k
      BY <2>3
    <3>2. e \in Got \/ Carries(toClient, j - 1, s, e)
      BY <2>4, <3>1 DEF Due
    <3> QED  BY <1>0, <2>2, <3>1, <3>2, CarriesPrefix
  <2> QED  BY <1>0, <2>1, <2>4 DEF Due
<1> QED
  BY <1>3, <1>4, <1>5, <1>6, RelayDoes

\* The relay's steps, all together.
LEMMA RelayAnswers ==
    ASSUME TypeOK, SubsServed, AnswerInv, RelayStep, UNCHANGED clientVars
    PROVE  AnswerInv'
<1>1. SubsStored' /\ EventsStored' /\ EosesServed'
  BY RelayDoes, RelayFrames DEF AnswerInv
<1>2. /\ sub_id' = sub_id /\ Got' = Got /\ UNCHANGED <<pc, next_sub, snap, ret>>
      /\ InQuery' <=> InQuery
      /\ Answered' <=> Answered
  BY RelayLeaves
<1>3. stored \subseteq stored'
  BY StoredGrows
<1>4. GotStored' /\ QueryExact'
  BY <1>2, <1>3 DEF AnswerInv, GotStored, QueryExact
<1>5. Complete'
  <2> SUFFICES ASSUME InQuery', NEW e \in snap \ Forged PROVE Due(e)'
    BY <1>2 DEF Complete
  <2>1. sub_id \in SubId
    BY <1>2, SubIdType DEF InQuery, TypeOK
  <2>2. e \in stored /\ Due(e)
    BY <1>2 DEF AnswerInv, GotStored, Complete
  <2> QED  BY <2>1, <2>2, RelayKeepsDue DEF AnswerInv
<1> QED  BY <1>1, <1>4, <1>5 DEF AnswerInv

-----------------------------------------------------------------------------
(* The client's steps keep the invariant.                                  *)

\* What the client has read is gone, the rest is as it was.
LEMMA ClientFrames ==
    ASSUME TypeOK, SubsStored, EventsStored, EosesServed, CallerStep \/ LoopStep
    PROVE  SubsStored' /\ EventsStored' /\ EosesServed'
<1>1. /\ toClient' = toClient \/ (toClient # <<>> /\ toClient' = Tail(toClient))
      /\ stored' = stored /\ subs' = subs /\ toClient \in Seq(DownFrames)
  BY ClientReads DEF relayVars, TypeOK, LinkTypeOK
<1>2. next_sub \in Nat /\ next_sub <= next_sub'
  <2>1. next_sub' = next_sub \/ next_sub' = next_sub + 1
    BY QueryPc DEF Query
  <2> QED  BY <2>1 DEF TypeOK
<1>3. \A n \in 1..MaxCalls : n <= next_sub => n <= next_sub'
  <2>1. next_sub' \in Nat
    BY <1>2, QueryPc DEF Query
  <2> QED  BY <1>2, <2>1
<1>4. CASE toClient' = toClient
  BY <1>1, <1>3, <1>4 DEF SubsStored, EventsStored, EosesServed
<1>5. CASE toClient # <<>> /\ toClient' = Tail(toClient)
  <2>1. /\ \A i \in 1..Len(toClient') : toClient'[i] = toClient[i + 1]
        /\ \A i \in 1..Len(toClient') : i + 1 \in 1..Len(toClient)
    BY <1>1, <1>5, TailElements
  <2> QED  BY <1>1, <1>3, <2>1 DEF SubsStored, EventsStored, EosesServed
<1> QED  BY <1>1, <1>4, <1>5

IdsOf(q) == {q[i].id : i \in DOMAIN q}

\* The events collected, after one more.
LEMMA Collected ==
    ASSUME NEW S, NEW q \in Seq(S), NEW x \in S
    PROVE  IdsOf(Append(q, x)) = IdsOf(q) \cup {x.id}
<1> DEFINE r == Append(q, x)
<1>1. r \in Seq(S) /\ DOMAIN r = 1..(Len(q) + 1) /\ DOMAIN q = 1..Len(q)
  OBVIOUS
<1>2. /\ \A i \in DOMAIN q : i \in DOMAIN r /\ r[i] = q[i]
      /\ r[Len(q) + 1] = x /\ Len(q) + 1 \in DOMAIN r
      /\ \A i \in DOMAIN r : i \in DOMAIN q \/ r[i] = x
  BY <1>1, AppendElements
<1> HIDE DEF r
<1>3. \A y : (\E i \in DOMAIN r : y = r[i].id) <=> (\E i \in DOMAIN q : y = q[i].id) \/ y = x.id
  BY <1>2
<1>4. IdsOf(r) = IdsOf(q) \cup {x.id}
  BY <1>3 DEF IdsOf
<1> QED  BY <1>4 DEF r

\* A step of the query loop keeps what it has collected, and collects the event
\* it reads for its subscription, if that verifies; the event is in the store.
LEMMA QueryTakes ==
    ASSUME TypeOK, EventsStored, QueryStep
    PROVE  /\ InQuery /\ UNCHANGED <<next_sub, snap>> /\ sub_id' = sub_id
           /\ Got \subseteq Got' /\ Got' \subseteq Got \cup (stored \ Forged)
           /\ toClient # <<>> /\ toClient' = Tail(toClient) =>
                \A e \in Events \ Forged :
                    /\ Head(toClient).typ = "EVENT" /\ Head(toClient).sub = sub_id
                    /\ Head(toClient).id = e
                    => e \in Got' \/ ~InQuery'
<1>0. LinkTypeOK /\ toClient \in Seq(DownFrames) /\ events \in Seq([id : Events, call : Nat])
  BY DEF TypeOK, LinkTypeOK
<1>1. InQuery /\ UNCHANGED <<next_sub, snap>> /\ sub_id' = sub_id
  BY DEF QueryStep, QueryEvent, QueryDone, QueryIdle, QueryAuth, QueryRearm, QuerySkip,
     QueryError, Finish, QueryFrame, InQuery, sub_id
<1>2. CASE QueryEvent
  <2>1. /\ toClient # <<>> /\ toClient' = Tail(toClient)
        /\ Msg.typ = "EVENT" /\ Msg.sub = sub_id
        /\ events' = IF verify(Msg.id) THEN Append(events, [id |-> Msg.id, call |-> Msg.call])
                     ELSE events
    BY <1>2 DEF QueryEvent, RecvSome
  <2>2. /\ Msg = Head(toClient) /\ Head(toClient) = toClient[1] /\ 1 \in 1..Len(toClient)
        /\ Msg.id \in Events /\ Msg.call \in Nat
    BY <1>0, <2>1, MsgType, TailElements
  <2>3. Msg.id \in stored
    BY <2>1, <2>2, LinkAssumption DEF EventsStored
  <2>4. CASE verify(Msg.id)
    <3>1. PICK x : /\ x \in [id : Events, call : Nat] /\ x.id = Msg.id
                   /\ events' = Append(events, x)
      BY <2>1, <2>2, <2>4
    <3>2. IdsOf(events') = IdsOf(events) \cup {x.id}
      <4>1. PICK S : events \in Seq(S) /\ x \in S
        BY <1>0, <3>1
      <4> QED  BY <3>1, <4>1, Collected
    <3>3. Got = IdsOf(events) /\ Got' = IdsOf(events')
      BY DEF Got, IdsOf
    <3> QED  BY <1>1, <2>2, <2>3, <2>4, <3>1, <3>2, <3>3 DEF verify
  <2>5. CASE ~verify(Msg.id)
    <3>1. Got' = Got
      BY <2>1, <2>5 DEF Got
    <3> QED  BY <1>1, <2>2, <2>5, <3>1 DEF verify
  <2> QED  BY <2>4, <2>5
<1>3. CASE ~QueryEvent
  <2>1. events' = events
    BY <1>3 DEF QueryStep, QueryDone, QueryIdle, QueryAuth, QueryRearm, QuerySkip,
       QueryError, Finish, QueryFails
  <2>2. Got' = Got
    BY <2>1 DEF Got
  <2>3. ASSUME toClient # <<>>, toClient' = Tail(toClient), InQuery',
               NEW e \in Events, Head(toClient).typ = "EVENT", Head(toClient).sub = sub_id,
               Head(toClient).id = e
        PROVE  FALSE
    <3>1. e # NoId
      BY LinkAssumption
    <3>2. Msg = Head(toClient)
      BY <2>3, <3>1 DEF Msg, parse_relay_message, DownTypes
    <3>3. toClient' # toClient
      BY <1>0, <2>3, TailElements
    <3> QED
      BY <1>3, <2>3, <3>2, <3>3
         DEF QueryStep, QueryDone, QueryIdle, QueryAuth, QueryRearm, QuerySkip, QueryError,
             Finish, QueryFails, Return, InQuery, RecvErr
  <2> QED  BY <1>1, <2>2, <2>3
<1> QED  BY <1>2, <1>3

LEMMA QueryKeepsDue ==
    ASSUME TypeOK, SubsStored, EventsStored, QueryStep, InQuery', NEW e \in Events \ Forged, Due(e)
    PROVE  Due(e)'
<1>0. /\ sub_id' = sub_id /\ Got \subseteq Got' /\ UNCHANGED <<up, subs>>
      /\ toClient \in Seq(DownFrames)
      /\ toClient' = toClient \/ (toClient # <<>> /\ toClient' = Tail(toClient))
  BY QueryTakes, ClientReads DEF relayVars, LoopStep, TypeOK, LinkTypeOK
<1>1. CASE toClient' = toClient
  BY <1>0, <1>1 DEF Due
<1>2. CASE toClient # <<>> /\ toClient' = Tail(toClient)
  <2>1. \A k \in 0..Len(toClient) :
          Carries(toClient, k, sub_id, e) => e \in Got' \/ Carries(toClient', k - 1, sub_id, e)
    BY <1>0, <1>2, CarriesTail, QueryTakes
  <2>2. /\ Len(toClient) \in 0..Len(toClient) /\ Len(toClient') = Len(toClient) - 1
        /\ \A j \in 1..Len(toClient') : /\ toClient'[j] = toClient[j + 1]
                                        /\ j + 1 \in 1..Len(toClient)
                                        /\ j \in 0..Len(toClient) /\ (j + 1) - 1 = j
    BY <1>0, <1>2, TailElements
  <2>3. up' /\ subs'[sub_id].open =>
          \/ e \in Got' \/ e \in subs'[sub_id].todo
          \/ Carries(toClient', Len(toClient'), sub_id, e)
    BY <1>0, <2>1, <2>2 DEF Due
  <2>4. ASSUME NEW j \in 1..Len(toClient'), IsEose(toClient'[j], sub_id)
        PROVE  e \in Got' \/ Carries(toClient', j - 1, sub_id, e)
    <3>1. e \in Got \/ Carries(toClient, j, sub_id, e)
      <4>1. e \in Got \/ Carries(toClient, (j + 1) - 1, sub_id, e)
        BY <2>2, <2>4 DEF Due
      <4> QED  BY <2>2, <4>1
    <3> QED  BY <1>0, <2>1, <2>2, <3>1
  <2> QED  BY <1>0, <2>3, <2>4 DEF Due
<1> QED  BY <1>0, <1>1, <1>2

\* Nothing has been asked for under the name of the next query.
LEMMA FirstDue ==
    ASSUME TypeOK, SubsServed, EosesServed, Query, pc' = "query", NEW e
    PROVE  Due(e)'
<1>1. /\ next_sub + 1 \in 1..MaxCalls /\ next_sub' = next_sub + 1 /\ next_sub \in Nat
      /\ sub_id' = QuerySub(next_sub + 1)
  <2>1. next_sub' = next_sub + 1 /\ sub_id' = QuerySub(next_sub')
    BY DEF Query, sub_id
  <2>2. next_sub \in Nat /\ next_sub <= calls /\ calls \in Nat /\ calls < MaxCalls /\ MaxCalls \in Nat
    BY LinkAssumption DEF TypeOK, Query
  <2> QED  BY <2>1, <2>2
<1>2. QuerySub(next_sub + 1) \in SubId
  BY <1>1 DEF SubId, QuerySubs
<1>3. UNCHANGED <<up, subs, toClient>>
  BY DEF Query, relayVars
<1>4. ~(next_sub + 1 <= next_sub)
  BY <1>1
<1>5. ~subs[QuerySub(next_sub + 1)].open
  BY <1>1, <1>2, <1>4 DEF SubsServed, ServedFor
<1>6. \A j \in 1..Len(toClient) : ~IsEose(toClient[j], QuerySub(next_sub + 1))
  BY <1>1, <1>4 DEF EosesServed
<1> QED  BY <1>1, <1>3, <1>5, <1>6 DEF Due

\* Whoever asks for something else is not told the answer of a query.
LEMMA NoQuery ==
    ASSUME TypeOK, CallerStep \/ LoopStep
    PROVE  \/ Query \/ QueryStep
           \/ ~InQuery' /\ ~Answered'
<1>1. CASE Publish \/ PublishStep
  <2>1. \/ pc' \in {"publish", "resend"}
        \/ \E x, i : Return("publish", x, i)
    BY <1>1 DEF Publish, PublishStep, PublishOk, PublishAuth, PublishResend, PublishSkip,
       PublishTimeout, PublishError, GiveUp, Iteration
  <2> QED  BY <2>1 DEF Return, Result, InQuery, Answered
<1>2. CASE poll \/ poll_event \/ close \/ \E s \in CallerSubs : subscribe(s) \/ unsubscribe(s)
  <2>1. /\ pc' \in {"idle", "closed"}
        /\ \/ pc' = "closed"
           \/ \E o \in {"poll", "poll_event", "subscribe", "unsubscribe"} : \E x, i :
                 ret' = Result(o, x, i)
    BY <1>2 DEF poll, poll_event, close, subscribe, unsubscribe, Return
  <2>2. \A o, x, i : Result(o, x, i).op = o
    BY DEF Result
  <2> QED  BY <2>1, <2>2 DEF InQuery, Answered
<1> QED  BY <1>1, <1>2 DEF CallerStep, LoopStep

\* How a call of query ends.
LEMMA QueryEnds ==
    ASSUME TypeOK, QueryStep, ~InQuery'
    PROVE  /\ pc' = "idle" /\ ret'.op = "query" /\ ret'.id = NoId /\ events' = events
           /\ ret'.out \in {"eose", "closed", "idle", "error"}
           /\ ret'.out = "eose" => toClient # <<>> /\ MyEose
<1>1. \E out \in {"eose", "closed", "idle", "error"} :
        /\ Return("query", out, NoId) /\ events' = events
        /\ out = "eose" => toClient # <<>> /\ MyEose
  BY DEF QueryStep, QueryEvent, QueryDone, QueryIdle, QueryAuth, QueryRearm, QuerySkip,
     QueryError, Finish, QueryFails, InQuery
<1>2. PICK out \in {"eose", "closed", "idle", "error"} :
        /\ Return("query", out, NoId) /\ events' = events
        /\ out = "eose" => toClient # <<>> /\ MyEose
  BY <1>1
<1>3. ret'.op = "query" /\ ret'.out = out /\ ret'.id = NoId
  BY <1>2 DEF Return, Result
<1> QED  BY <1>2, <1>3 DEF Return

LEMMA ClientAnswers ==
    ASSUME TypeOK, SubsServed, AnswerInv, CallerStep \/ LoopStep
    PROVE  AnswerInv'
<1>0. SubsStored' /\ EventsStored' /\ EosesServed' /\ stored' = stored /\ stored \subseteq Events
  BY ClientFrames, ClientReads DEF AnswerInv, relayVars, TypeOK, LinkTypeOK
<1>1. CASE Query
  <2>1. CASE pc' = "query" /\ events' = <<>> /\ snap' = stored
    <3>1. Got' = {}
      BY <2>1 DEF Got
    <3>2. Complete'
      BY <1>1, <2>1, FirstDue DEF AnswerInv, Complete
    <3> QED  BY <1>0, <2>1, <3>1, <3>2 DEF AnswerInv, GotStored, QueryExact, Answered
  <2>2. CASE Return("query", "error", NoId)
    <3>1. ~InQuery' /\ ~Answered'
      BY <2>2 DEF Return, Result, InQuery, Answered
    <3> QED  BY <1>0, <3>1 DEF AnswerInv, GotStored, Complete, QueryExact
  <2> QED  BY <1>1, <2>1, <2>2 DEF Query
<1>2. CASE QueryStep
  <2>1. /\ InQuery /\ UNCHANGED <<next_sub, snap>> /\ sub_id' = sub_id
        /\ Got \subseteq Got' /\ Got' \subseteq Got \cup (stored \ Forged)
    BY <1>2, QueryTakes DEF AnswerInv
  <2>2. GotStored'
    BY <1>0, <2>1 DEF AnswerInv, GotStored
  <2>3. Complete'
    <3> SUFFICES ASSUME InQuery', NEW e \in snap \ Forged PROVE Due(e)'
      BY <2>1 DEF Complete
    <3>1. Due(e) /\ e \in Events \ Forged
      BY <1>0, <2>1 DEF AnswerInv, Complete, GotStored
    <3> QED  BY <1>2, <3>1, QueryKeepsDue DEF AnswerInv
  <2>4. QueryExact'
    <3> SUFFICES ASSUME Answered', ret'.out = "eose"
                 PROVE  snap' \ Forged \subseteq Got' /\ Got' \subseteq stored' \ Forged
      BY DEF QueryExact
    <3>1. toClient # <<>> /\ MyEose
      BY <1>2, QueryEnds DEF Answered, InQuery
    <3>2. IsEose(toClient[1], sub_id) /\ 1 \in 1..Len(toClient)
      BY <3>1, MsgType, TailElements DEF MyEose, IsEose, TypeOK, LinkTypeOK, Frame
    <3>3. \A e : ~Carries(toClient, 1 - 1, sub_id, e)
      BY DEF Carries
    <3>4. \A e \in snap \ Forged : e \in Got
      BY <2>1, <3>2, <3>3 DEF AnswerInv, Complete, Due
    <3> QED  BY <2>1, <2>2, <3>4 DEF GotStored
  <2> QED  BY <1>0, <2>2, <2>3, <2>4 DEF AnswerInv
<1>3. CASE ~InQuery' /\ ~Answered'
  BY <1>0, <1>3 DEF AnswerInv, GotStored, Complete, QueryExact
<1> QED  BY <1>1, <1>2, <1>3, NoQuery

LEMMA InitAnswers == Init => AnswerInv
<1> SUFFICES ASSUME Init PROVE AnswerInv
  OBVIOUS
<1>1. pc = "idle" /\ ret.op = "new" /\ toClient = <<>> /\ \A s \in SubId : subs[s].todo = {}
  BY DEF Init, LinkInit, Result, Closed
<1> QED
  BY <1>1 DEF AnswerInv, SubsStored, EventsStored, EosesServed, GotStored, Complete,
     QueryExact, InQuery, Answered

LEMMA AnswerKept ==
    FreshInv /\ AnswerInv /\ [Next]_vars => AnswerInv'
<1> SUFFICES ASSUME FreshInv, AnswerInv, [Next]_vars PROVE AnswerInv'
  OBVIOUS
<1>1. TypeOK /\ SubsServed
  BY DEF FreshInv
<1>2. CASE CallerStep \/ LoopStep
  BY <1>1, <1>2, ClientAnswers
<1>3. CASE RelayStep /\ UNCHANGED clientVars
  BY <1>1, <1>3, RelayAnswers
<1>4. CASE UNCHANGED vars
  BY <1>4 DEF vars, linkVars, relayVars, clientVars, callVars, historyVars, AnswerInv, SubsStored,
     EventsStored, EosesServed, GotStored, Complete, Due, QueryExact, InQuery, Answered, Got, sub_id
<1> QED  BY <1>2, <1>3, <1>4 DEF Next, Done

\* A query that ended with its EOSE returns every valid event the relay held when
\* it was asked and nothing that the relay never held or that does not verify,
\* whatever challenges, second REQs, stray frames and frames of other
\* subscriptions came between.
THEOREM QueryIsExact ==
    ASSUME DistinctIds PROVE Spec => []QueryExact
<1>1. Init => AnswerInv
  BY InitAnswers
<1>2. FreshInv /\ AnswerInv /\ [Next]_vars => AnswerInv'
  BY AnswerKept
<1>3. AnswerInv => QueryExact
  BY DEF AnswerInv
<1> QED  BY <1>1, <1>2, <1>3, FreshAlways, PTL DEF Spec

-----------------------------------------------------------------------------
(* No event twice.                                                         *)

\* A REQ for subscription s; an event for it.
Asks(f, s)   == f.typ = "REQ" /\ f.sub = s
Brings(f, s) == f.typ = "EVENT" /\ f.sub = s /\ f.id # NoId

\* A challenge is never numbered 0, so chal = 0 says that none was answered.
AuthsNumbered ==
    /\ \A i \in 1..Len(toClient) : toClient[i].typ = "AUTH" => toClient[i].n # 0
    /\ pc = "rearm" => chal # 0

\* One REQ is under way for s at most, and while it is, nothing has come of it.
AskedOnce(s) ==
    /\ \A i, j \in 1..Len(toRelay) : Asks(toRelay[i], s) /\ Asks(toRelay[j], s) => i = j
    /\ (\E i \in 1..Len(toRelay) : Asks(toRelay[i], s)) =>
         /\ ~subs[s].open /\ events = <<>>
         /\ \A i \in 1..Len(toClient) : ~Brings(toClient[i], s)

\* What the relay owes s, what is under way to it and what is collected are
\* disjoint, and no event is under way twice.
SentOnce(s) ==
    /\ \A i, j \in 1..Len(toClient) :
         /\ Brings(toClient[i], s) /\ Brings(toClient[j], s)
         /\ toClient[i].id = toClient[j].id
         => i = j
    /\ \A i \in 1..Len(toClient) : Brings(toClient[i], s) =>
         /\ toClient[i].id \notin Got
         /\ subs[s].open => toClient[i].id \notin subs[s].todo
    /\ subs[s].open => subs[s].todo \cap Got = {}

\* Without a challenge, a query in progress asks once and is sent each event once.
Unrepeated == InQuery /\ chal = 0 => AskedOnce(sub_id) /\ SentOnce(sub_id)

OnceInv == AuthsNumbered /\ Unrepeated /\ NoDuplicates

-----------------------------------------------------------------------------
(* What the relay does to subscription s.                                  *)

\* Every event under way for s was so before.
NoNewEvent(s) ==
    \A i \in 1..Len(toClient') :
        Brings(toClient'[i], s) => i \in 1..Len(toClient) /\ toClient'[i] = toClient[i]

\* It leaves s as it is, but for new events and its end.
Spares(s) ==
    /\ NoNewEvent(s)
    /\ subs'[s].open => subs[s].open /\ subs'[s].todo \subseteq subs[s].todo \cup (Events \ stored)
    /\ \/ toRelay' = toRelay \/ toRelay' = <<>>
       \/ toRelay # <<>> /\ toRelay' = Tail(toRelay)

\* It reads the REQ for s.
Opens(s) ==
    /\ NoNewEvent(s)
    /\ toRelay # <<>> /\ Asks(Head(toRelay), s) /\ toRelay' = Tail(toRelay)

\* It sends s an event it owed it.
Feeds(s) ==
    /\ toRelay' = toRelay /\ subs[s].open
    /\ \E e \in subs[s].todo : /\ \E f : f.typ = "EVENT" /\ f.sub = s /\ f.id = e /\ Reply(f)
                               /\ subs'[s].todo = subs[s].todo \ {e}

LEMMA NotBrought ==
    ASSUME LinkTypeOK, NEW s, NEW f, Reply(f), ~Brings(f, s)
    PROVE  NoNewEvent(s)
BY RelayWrites DEF NoNewEvent

LEMMA FrameNotBrought ==
    ASSUME LinkTypeOK, NEW s, NEW t, NEW z, NEW i, NEW b \in BOOLEAN, NEW k, NEW c,
           Reply(Frame(t, z, i, b, k, c)), t # "EVENT" \/ z # s \/ i = NoId
    PROVE  NoNewEvent(s)
<1>1. PICK f : f = Frame(t, z, i, b, k, c) /\ Reply(f)
  OBVIOUS
<1>2. ~Brings(f, s)
  BY <1>1, FrameFields DEF Brings
<1> QED  BY <1>1, <1>2, NotBrought

LEMMA StoreSpares ==
    ASSUME LinkTypeOK, NEW e \in Events, Store(e), NEW s \in SubId
    PROVE  subs'[s].open => subs[s].open /\ subs'[s].todo \subseteq subs[s].todo \cup (Events \ stored)
<1>1. \/ subs'[s] = subs[s]
      \/ e \notin stored /\ \E T, b : T = subs[s].todo \cup {e} /\ subs'[s] = Owing(subs[s], T, b)
  BY DEF Store
<1>2. \A u, T, b : Owing(u, T, b).open = u.open /\ Owing(u, T, b).todo = T
  BY DEF Owing
<1> QED  BY <1>1, <1>2

LEMMA RelayTo ==
    ASSUME TypeOK, RelayStep, NEW s \in SubId
    PROVE  Spares(s) \/ Opens(s) \/ Feeds(s)
<1>0. LinkTypeOK /\ subs \in [SubId -> SubStates] /\ s # NoSub
  BY LinkAssumption DEF TypeOK, LinkTypeOK
<1>1. Closed.open = FALSE
  BY DEF Closed
<1>2. toClient' = toClient => NoNewEvent(s)
  BY DEF NoNewEvent
<1>3. subs'[s] = subs[s] \/ subs'[s] = Closed =>
        (subs'[s].open => subs[s].open /\ subs'[s].todo \subseteq subs[s].todo \cup (Events \ stored))
  BY <1>1
<1>4. CASE RelayEvent
  <2>0. PICK admitted \in Admitted : ReceiveEvent(admitted)
    BY <1>4 DEF RelayEvent
  <2> DEFINE f == Head(toRelay)
  <2>1. /\ toRelay # <<>> /\ toRelay' = Tail(toRelay)
        /\ \E b \in BOOLEAN : Reply(Frame("OK", NoSub, f.id, b, 0, f.call))
        /\ Store(f.id) \/ UNCHANGED <<stored, subs>>
    BY <2>0 DEF ReceiveEvent, Reads
  <2>2. f.id \in Events
    BY <1>0, <2>0, TailElements, UpFields DEF ReceiveEvent, Reads, LinkTypeOK
  <2>3. NoNewEvent(s)
    BY <1>0, <2>1, FrameNotBrought
  <2>4. subs'[s].open => subs[s].open /\ subs'[s].todo \subseteq subs[s].todo \cup (Events \ stored)
    BY <1>0, <1>3, <2>1, <2>2, StoreSpares
  <2> QED  BY <2>1, <2>3, <2>4 DEF Spares
<1>5. CASE RelayReq
  <2> DEFINE f == Head(toRelay)
             u == [open |-> TRUE, todo |-> stored, eosed |-> FALSE, call |-> f.call]
  <2>1. /\ toRelay # <<>> /\ toRelay' = Tail(toRelay) /\ f.typ = "REQ"
        /\ toClient' = toClient \/ Reply(Frame("CLOSED", f.sub, NoId, FALSE, f.n, f.call))
        /\ subs' = [subs EXCEPT ![f.sub] = u] \/ subs' = [subs EXCEPT ![f.sub] = Closed]
    BY <1>5 DEF RelayReq, ReceiveReq, Reads
  <2>2. NoNewEvent(s)
    BY <1>0, <1>2, <2>1, FrameNotBrought
  <2>3. CASE f.sub = s
    BY <2>1, <2>2, <2>3 DEF Opens, Asks
  <2>4. CASE f.sub # s
    <3> HIDE DEF u, f
    <3>1. subs'[s] = subs[s]
      BY <1>0, <2>1, <2>4
    <3> QED  BY <1>3, <2>1, <2>2, <3>1 DEF Spares
  <2> QED  BY <2>3, <2>4
<1>6. CASE RelayClose \/ RelayDropsSub \/ RelayChallenge
  <2>1. /\ subs'[s] = subs[s] \/ subs'[s] = Closed
        /\ toRelay' = toRelay \/ (toRelay # <<>> /\ toRelay' = Tail(toRelay))
    BY <1>0, <1>6 DEF RelayClose, RelayDropsSub, RelayChallenge, Reads
  <2>2. \/ toClient' = toClient
        \/ \E t \in {"CLOSED", "AUTH"} : \E z, k, c : Reply(Frame(t, z, NoId, FALSE, k, c))
    BY <1>6 DEF RelayClose, RelayDropsSub, RelayChallenge
  <2>3. NoNewEvent(s)
    BY <1>0, <1>2, <2>2, FrameNotBrought
  <2> QED  BY <1>3, <2>1, <2>3 DEF Spares
<1>7. CASE RelayAuth
  <2>1. /\ UNCHANGED subs /\ toRelay # <<>> /\ toRelay' = Tail(toRelay)
        /\ Reply(Frame("OK", NoSub, AuthId, TRUE, 0, 0))
    BY <1>7 DEF RelayAuth, Reads
  <2>2. NoNewEvent(s)
    BY <1>0, <2>1, FrameNotBrought
  <2> QED  BY <1>3, <2>1, <2>2 DEF Spares
<1>8. CASE RelayStray
  <2>1. UNCHANGED <<toRelay, subs>> /\ \E f \in Strays : Reply(f)
    BY <1>8 DEF RelayStray
  <2>2. PICK f : f \in Strays /\ Reply(f)
    BY <2>1
  <2>3. PICK t : f = Frame(t, NoSub, NoId, FALSE, 0, 0)
    BY <2>2, Zenon DEF Strays
  <2>4. f.id = NoId
    BY <2>3 DEF Frame
  <2>5. NoNewEvent(s)
    BY <1>0, <2>2, <2>4, NotBrought DEF Brings
  <2> QED  BY <1>3, <2>1, <2>5 DEF Spares
<1>9. CASE RelayQuiet
  BY <1>2, <1>3, <1>9 DEF RelayQuiet, linkVars, Spares
<1>10. CASE OtherPublish
  <2>1. PICK e \in Others : Store(e)
    BY <1>10 DEF OtherPublish
  <2>2. e \in Events /\ UNCHANGED <<toRelay, toClient>>
    BY <1>10 DEF OtherPublish, linkVars, Events
  <2> QED  BY <1>0, <1>2, <2>1, <2>2, StoreSpares DEF Spares
<1>11. CASE RelayServe
  <2>1. PICK z \in SubId :
          /\ subs[z].open /\ toRelay' = toRelay
          /\ \/ \E e \in subs[z].todo :
                  /\ Reply(Frame("EVENT", z, e, FALSE, 0, subs[z].call))
                  /\ subs' = [subs EXCEPT ![z] = Owing(subs[z], subs[z].todo \ {e}, subs[z].eosed)]
             \/ /\ subs[z].todo = {}
                /\ Reply(Frame("EOSE", z, NoId, FALSE, 0, subs[z].call))
                /\ subs' = [subs EXCEPT ![z] = Owing(subs[z], {}, TRUE)]
    BY <1>11 DEF RelayServe
  <2>2. \A u, T, b : Owing(u, T, b).open = u.open /\ Owing(u, T, b).todo = T
    BY DEF Owing
  <2>3. CASE z # s
    <3>1. subs'[s] = subs[s]
      BY <1>0, <2>1, <2>3
    <3>2. NoNewEvent(s)
      BY <1>0, <2>1, <2>3, FrameNotBrought
    <3> QED  BY <1>3, <2>1, <3>1, <3>2 DEF Spares
  <2>4. ASSUME z = s, NEW e \in subs[z].todo,
               Reply(Frame("EVENT", z, e, FALSE, 0, subs[z].call)),
               subs' = [subs EXCEPT ![z] = Owing(subs[z], subs[z].todo \ {e}, subs[z].eosed)]
        PROVE  Feeds(s)
    <3>1. PICK f : f = Frame("EVENT", z, e, FALSE, 0, subs[z].call) /\ Reply(f)
      BY <2>4
    <3>2. f.typ = "EVENT" /\ f.sub = s /\ f.id = e
      BY <2>4, <3>1 DEF Frame
    <3>3. PICK T, b : T = subs[s].todo \ {e} /\ subs'[s] = Owing(subs[s], T, b)
      BY <1>0, <2>4
    <3>4. subs'[s].todo = subs[s].todo \ {e}
      BY <2>2, <3>3
    <3> QED  BY <2>1, <2>4, <3>1, <3>2, <3>4 DEF Feeds
  <2>5. ASSUME z = s, Reply(Frame("EOSE", z, NoId, FALSE, 0, subs[z].call)),
               subs[z].todo = {}, subs' = [subs EXCEPT ![z] = Owing(subs[z], {}, TRUE)]
        PROVE  Spares(s)
    <3>1. PICK T, b : T = {} /\ subs'[s] = Owing(subs[s], T, b)
      BY <1>0, <2>5
    <3>2. subs'[s].todo = {}
      BY <2>2, <3>1
    <3>3. NoNewEvent(s)
      BY <1>0, <2>5, FrameNotBrought
    <3> QED  BY <2>1, <2>5, <3>2, <3>3 DEF Spares
  <2> QED  BY <2>1, <2>3, <2>4, <2>5
<1>12. CASE Disconnect
  <2>1. toRelay' = <<>> /\ UNCHANGED subs /\ \E k \in 0..Len(toClient) : toClient' = SubSeq(toClient, 1, k)
    BY <1>12 DEF Disconnect, relayVars
  <2>2. PICK k \in 0..Len(toClient) : toClient' = SubSeq(toClient, 1, k)
    BY <2>1
  <2>3. Len(toClient') = k /\ \A i \in 1..k : i \in 1..Len(toClient) /\ toClient'[i] = toClient[i]
    BY <1>0, <2>2, PrefixElements DEF LinkTypeOK
  <2>4. NoNewEvent(s)
    BY <2>3 DEF NoNewEvent
  <2> QED  BY <1>3, <2>1, <2>4 DEF Spares
<1> QED
  BY <1>4, <1>5, <1>6, <1>7, <1>8, <1>9, <1>10, <1>11, <1>12 DEF RelayStep

\* What the relay sends and reads, as far as it matters here.
LEMMA ChallengesNumbered ==
    ASSUME TypeOK, RelayStep, UNCHANGED clientVars, AuthsNumbered
    PROVE  AuthsNumbered'
<1>0. LinkTypeOK /\ pc' = pc /\ chal' = chal /\ issued \in Nat
  BY DEF TypeOK, LinkTypeOK, clientVars, callVars, historyVars
<1>1. ASSUME NEW f, Reply(f), f.typ = "AUTH" => f.n # 0
      PROVE  AuthsNumbered'
  BY <1>0, <1>1, RelayWrites DEF AuthsNumbered
<1>2. CASE toClient' = toClient
  BY <1>0, <1>2 DEF AuthsNumbered
<1>3. CASE RelayChallenge
  <2>1. Reply(Frame("AUTH", NoSub, NoId, FALSE, issued + 1, 0))
    BY <1>3 DEF RelayChallenge
  <2>2. PICK f : f = Frame("AUTH", NoSub, NoId, FALSE, issued + 1, 0) /\ Reply(f)
    BY <2>1
  <2>3. f.n = issued + 1
    BY <2>2 DEF Frame
  <2>4. f.n # 0
    BY <1>0, <2>3
  <2> QED  BY <1>1, <2>2, <2>4
<1>4. CASE RelayEvent \/ RelayReq \/ RelayAuth \/ RelayServe \/ RelayDropsSub
  <2>1. \/ toClient' = toClient
        \/ \E t, s, i, b, k, c : t # "AUTH" /\ Reply(Frame(t, s, i, b, k, c))
    BY <1>4
       DEF RelayEvent, ReceiveEvent, RelayReq, ReceiveReq, RelayAuth, RelayServe, RelayDropsSub
  <2>2. CASE \E t, s, i, b, k, c : t # "AUTH" /\ Reply(Frame(t, s, i, b, k, c))
    <3>1. PICK t, s, i, b, k, c : t # "AUTH" /\ Reply(Frame(t, s, i, b, k, c))
      BY <2>2
    <3>2. PICK f : f = Frame(t, s, i, b, k, c) /\ Reply(f)
      BY <3>1
    <3>3. f.typ # "AUTH"
      BY <3>1, <3>2 DEF Frame
    <3> QED  BY <1>1, <3>2, <3>3
  <2> QED  BY <1>2, <2>1, <2>2
<1>5. CASE RelayStray
  <2>1. PICK f \in Strays : Reply(f)
    BY <1>5 DEF RelayStray
  <2>2. PICK t \in {"NOTICE", "JUNK", "EVENT", "EOSE", "OK"} : f = Frame(t, NoSub, NoId, FALSE, 0, 0)
    BY Zenon DEF Strays
  <2>3. f.typ # "AUTH"
    BY <2>2 DEF Frame
  <2> QED  BY <1>1, <2>1, <2>3
<1>6. CASE Disconnect
  <2>1. PICK k \in 0..Len(toClient) : toClient' = SubSeq(toClient, 1, k)
    BY <1>6 DEF Disconnect
  <2>2. Len(toClient') = k /\ \A i \in 1..k : i \in 1..Len(toClient) /\ toClient'[i] = toClient[i]
    BY <1>0, <2>1, PrefixElements DEF LinkTypeOK
  <2> QED  BY <1>0, <2>2 DEF AuthsNumbered
<1> QED
  BY <1>2, <1>3, <1>4, <1>5, <1>6 DEF RelayStep, RelayClose, RelayQuiet, OtherPublish, linkVars

\* The relay answers one REQ by sending each event once.
LEMMA RelaySendsOnce ==
    ASSUME TypeOK, SubsStored, EventsStored, RelayStep, UNCHANGED <<events>>,
           NEW s \in SubId, Got \subseteq stored, AskedOnce(s), SentOnce(s)
    PROVE  AskedOnce(s)' /\ SentOnce(s)'
<1>0. /\ LinkTypeOK /\ Got' = Got /\ toClient \in Seq(DownFrames) /\ toRelay \in Seq(UpFrames)
      /\ subs[s].todo \subseteq stored /\ NoId \notin Events /\ stored \subseteq Events
  BY LinkAssumption DEF TypeOK, LinkTypeOK, Got, SubsStored
<1>1. \A i \in 1..Len(toClient) : Brings(toClient[i], s) => toClient[i].id \in stored
  BY DEF EventsStored, Brings
<1>2. ASSUME toRelay # <<>>, toRelay' = Tail(toRelay)
      PROVE  \A i \in 1..Len(toRelay') : i + 1 \in 1..Len(toRelay) /\ toRelay'[i] = toRelay[i + 1]
  BY <1>0, <1>2, TailElements
<1>3. CASE Spares(s)
  <2>1. /\ NoNewEvent(s)
        /\ subs'[s].open =>
             subs[s].open /\ subs'[s].todo \subseteq subs[s].todo \cup (Events \ stored)
    BY <1>3 DEF Spares
  <2>2. PICK d \in 0..1 :
          \A i \in 1..Len(toRelay') : i + d \in 1..Len(toRelay) /\ toRelay'[i] = toRelay[i + d]
    <3>1. CASE toRelay' = toRelay
      <4>1. \A i \in 1..Len(toRelay') : i + 0 \in 1..Len(toRelay) /\ toRelay'[i] = toRelay[i + 0]
        BY <3>1
      <4> QED  BY <4>1
    <3>2. CASE toRelay' = <<>>
      BY <3>2
    <3>3. CASE toRelay # <<>> /\ toRelay' = Tail(toRelay)
      BY <1>2, <3>3
    <3> QED  BY <1>3, <3>1, <3>2, <3>3 DEF Spares
  <2>3. \A i, j \in 1..Len(toRelay') : Asks(toRelay'[i], s) /\ Asks(toRelay'[j], s) => i = j
    <3> SUFFICES ASSUME NEW i \in 1..Len(toRelay'), NEW j \in 1..Len(toRelay'),
                        Asks(toRelay'[i], s), Asks(toRelay'[j], s)
                 PROVE  i = j
      OBVIOUS
    <3>1. i + d = j + d
      BY <2>2 DEF AskedOnce
    <3> QED  BY <3>1
  <2>4. (\E i \in 1..Len(toRelay') : Asks(toRelay'[i], s)) =>
          \E i \in 1..Len(toRelay) : Asks(toRelay[i], s)
    BY <2>2
  <2>5. AskedOnce(s)'
    BY <2>1, <2>3, <2>4 DEF AskedOnce, NoNewEvent
  <2>6. SentOnce(s)'
    BY <1>0, <1>1, <2>1 DEF SentOnce, NoNewEvent
  <2> QED  BY <2>5, <2>6
<1>4. CASE Opens(s)
  <2>1. Head(toRelay) = toRelay[1] /\ 1 \in 1..Len(toRelay)
    BY <1>0, <1>4, TailElements DEF Opens
  <2>2. \A i \in 1..Len(toRelay') : ~Asks(toRelay'[i], s)
    <3> SUFFICES ASSUME NEW i \in 1..Len(toRelay'), Asks(toRelay'[i], s) PROVE FALSE
      OBVIOUS
    <3>1. i + 1 = 1
      BY <1>2, <1>4, <2>1 DEF AskedOnce, Opens
    <3> QED  BY <3>1
  <2>3. events = <<>> /\ \A i \in 1..Len(toClient) : ~Brings(toClient[i], s)
    BY <1>4, <2>1 DEF AskedOnce, Opens
  <2>4. Got = {} /\ \A i \in 1..Len(toClient') : ~Brings(toClient'[i], s)
    BY <1>4, <2>3 DEF Got, Opens, NoNewEvent
  <2> QED  BY <1>0, <2>2, <2>4 DEF AskedOnce, SentOnce
<1>5. CASE Feeds(s)
  <2>1. toRelay' = toRelay /\ subs[s].open
    BY <1>5 DEF Feeds
  <2>2. PICK e \in subs[s].todo : /\ \E f : f.typ = "EVENT" /\ f.sub = s /\ f.id = e /\ Reply(f)
                                  /\ subs'[s].todo = subs[s].todo \ {e}
    BY <1>5 DEF Feeds
  <2>3. PICK f : f.typ = "EVENT" /\ f.sub = s /\ f.id = e /\ Reply(f)
    BY <2>2
  <2>4. AskedOnce(s)'
    BY <2>1 DEF AskedOnce
  <2>5. /\ e \notin Got
        /\ \A i \in 1..Len(toClient) : Brings(toClient[i], s) => toClient[i].id # e
    BY <2>1 DEF SentOnce
  <2>6. /\ Len(toClient') = Len(toClient) + 1 /\ Len(toClient) \in Nat
        /\ \A i \in 1..Len(toClient') :
             \/ i \in 1..Len(toClient) /\ toClient'[i] = toClient[i]
             \/ i = Len(toClient) + 1 /\ toClient'[i] = f
    BY <1>0, <2>3, AppendIndex DEF Reply
  <2>7. /\ \A i \in 1..Len(toClient') : Brings(toClient'[i], s) =>
             /\ toClient'[i].id \notin Got
             /\ toClient'[i].id \notin subs'[s].todo
        /\ subs'[s].todo \cap Got = {}
    BY <2>1, <2>2, <2>3, <2>5, <2>6 DEF SentOnce
  <2>8. \A i, j \in 1..Len(toClient') :
          /\ Brings(toClient'[i], s) /\ Brings(toClient'[j], s)
          /\ toClient'[i].id = toClient'[j].id
          => i = j
    BY <2>3, <2>5, <2>6 DEF SentOnce
  <2> QED  BY <1>0, <2>4, <2>7, <2>8 DEF SentOnce
<1> QED  BY <1>3, <1>4, <1>5, RelayTo

-----------------------------------------------------------------------------
(* What the client does.                                                   *)

\* A challenge read is remembered by its number.
LEMMA ClientNumbers ==
    ASSUME TypeOK, AuthsNumbered, CallerStep \/ LoopStep
    PROVE  AuthsNumbered'
<1>0. LinkTypeOK /\ toClient \in Seq(DownFrames)
  BY DEF TypeOK, LinkTypeOK
<1>1. \A i \in 1..Len(toClient') : toClient'[i].typ = "AUTH" => toClient'[i].n # 0
  <2>1. CASE toClient' = toClient
    BY <2>1 DEF AuthsNumbered
  <2>2. CASE toClient # <<>> /\ toClient' = Tail(toClient)
    BY <1>0, <2>2, TailElements DEF AuthsNumbered
  <2> QED  BY <2>1, <2>2, ClientReads
<1>2. ASSUME pc' = "rearm" PROVE QueryAuth
  <2>1. CASE QueryStep
    BY <1>2, <2>1 DEF QueryStep, QueryEvent, QueryDone, QueryIdle, QueryAuth, QueryRearm, QuerySkip,
       QueryError, Finish, QueryFails, Return
  <2>2. CASE ~QueryStep
    BY <1>2, <2>2 DEF CallerStep, LoopStep, Publish, Query, poll, poll_event, close, subscribe,
       unsubscribe, Return, PublishStep, PublishOk, PublishAuth, PublishResend, PublishSkip,
       PublishTimeout, PublishError, GiveUp, Iteration
  <2> QED  BY <2>1, <2>2
<1>3. ASSUME QueryAuth PROVE chal' # 0
  <2>1. toClient # <<>> /\ Msg.typ = "AUTH" /\ chal' = Msg.n
    BY <1>3 DEF QueryAuth, RecvSome
  <2>2. Msg = toClient[1] /\ 1 \in 1..Len(toClient)
    BY <1>0, <2>1, MsgType, TailElements
  <2> QED  BY <2>1, <2>2 DEF AuthsNumbered
<1> QED  BY <1>1, <1>2, <1>3 DEF AuthsNumbered

\* A query begins under a name that nothing is under way for.
LEMMA FirstAsked ==
    ASSUME TypeOK, ReqsServed, SubsServed, EventsServed, Query, pc' = "query"
    PROVE  AskedOnce(sub_id)' /\ SentOnce(sub_id)' /\ events' = <<>>
<1> DEFINE s == QuerySub(next_sub + 1)
<1>1. /\ next_sub + 1 \in 1..MaxCalls /\ next_sub \in Nat /\ sub_id' = s
  <2>1. next_sub' = next_sub + 1 /\ sub_id' = QuerySub(next_sub')
    BY DEF Query, sub_id
  <2>2. next_sub \in Nat /\ next_sub <= calls /\ calls \in Nat /\ calls < MaxCalls /\ MaxCalls \in Nat
    BY LinkAssumption DEF TypeOK, Query
  <2> QED  BY <2>1, <2>2
<1>2. s \in SubId /\ ~(next_sub + 1 <= next_sub)
  BY <1>1 DEF SubId, QuerySubs
<1>3. UNCHANGED <<subs, toClient>> /\ events' = <<>> /\ toRelay \in Seq(UpFrames)
  BY DEF Query, relayVars, Return, TypeOK, LinkTypeOK
<1>4. toRelay' = toRelay \/ \E f : toRelay' = Append(toRelay, f)
  BY DEF Query, Sends, SendFails
<1> HIDE DEF s
<1>5. \A c : ~ServedFor(s, c)
  BY <1>1, <1>2 DEF ServedFor, s
<1>6. /\ ~subs[s].open
      /\ \A i \in 1..Len(toRelay) : ~Asks(toRelay[i], s)
      /\ \A i \in 1..Len(toClient) : ~Brings(toClient[i], s)
  BY <1>2, <1>5 DEF ReqsServed, SubsServed, EventsServed, Asks, Brings
<1>7. \A i, j \in 1..Len(toRelay') : Asks(toRelay'[i], s) /\ Asks(toRelay'[j], s) => i = j
  <2>1. \A i \in 1..Len(toRelay') : Asks(toRelay'[i], s) => i = Len(toRelay) + 1
    BY <1>3, <1>4, <1>6, AppendIndex
  <2> QED  BY <2>1
<1> QED  BY <1>1, <1>3, <1>6, <1>7 DEF AskedOnce, SentOnce

\* An iteration of the loop takes an event that is under way, once.
LEMMA QueryTakesOnce ==
    ASSUME TypeOK, AuthsNumbered, QueryStep, chal' = 0, InQuery => Unrepeated /\ NoDuplicates
    PROVE  /\ chal = 0 /\ InQuery /\ sub_id' = sub_id
           /\ InQuery' => AskedOnce(sub_id)' /\ SentOnce(sub_id)'
           /\ \A i, j \in DOMAIN events' : events'[i].id = events'[j].id => i = j
<1>0. /\ LinkTypeOK /\ toClient \in Seq(DownFrames) /\ events \in Seq([id : Events, call : Nat])
      /\ InQuery /\ sub_id' = sub_id /\ UNCHANGED subs
  <2>1. InQuery /\ sub_id' = sub_id
    BY DEF QueryStep, QueryEvent, QueryDone, QueryIdle, QueryAuth, QueryRearm, QuerySkip,
       QueryError, Finish, QueryFrame, InQuery, sub_id
  <2> QED  BY <2>1, ClientReads DEF TypeOK, LinkTypeOK, relayVars, LoopStep
<1>1. ~QueryAuth
  <2> SUFFICES ASSUME QueryAuth PROVE FALSE
    OBVIOUS
  <2>1. toClient # <<>> /\ Msg.typ = "AUTH" /\ chal' = Msg.n
    BY DEF QueryAuth, RecvSome
  <2>2. Msg = toClient[1] /\ 1 \in 1..Len(toClient)
    BY <1>0, <2>1, MsgType, TailElements
  <2> QED  BY <2>1, <2>2 DEF AuthsNumbered
<1>2. chal = 0 /\ pc = "query"
  <2>1. chal' = chal
    BY <1>1 DEF QueryStep, QueryEvent, QueryDone, QueryIdle, QueryRearm, QuerySkip,
       QueryError, Finish, RecvSome, RecvErr
  <2> QED  BY <1>0, <2>1 DEF AuthsNumbered, InQuery
<1>3. AskedOnce(sub_id) /\ SentOnce(sub_id) /\ \A i, j \in DOMAIN events : events[i].id = events[j].id => i = j
  BY <1>0, <1>2 DEF Unrepeated, NoDuplicates
<1>4. CASE QueryEvent
  <2>1. /\ toClient # <<>> /\ toClient' = Tail(toClient) /\ toRelay' = toRelay
        /\ Msg.typ = "EVENT" /\ Msg.sub = sub_id
        /\ events' = Append(events, [id |-> Msg.id, call |-> Msg.call]) \/ events' = events
    BY <1>4 DEF QueryEvent, RecvSome
  <2>2. /\ Msg = toClient[1] /\ 1 \in 1..Len(toClient) /\ Msg.id \in Events /\ Msg.id # NoId
        /\ Msg.call \in Nat
    BY <1>0, <2>1, MsgType, TailElements, LinkAssumption
  <2>3. Brings(toClient[1], sub_id)
    BY <2>1, <2>2 DEF Brings
  <2>4. /\ \A i \in 1..Len(toClient') : /\ i + 1 \in 1..Len(toClient) /\ i + 1 # 1
                                        /\ toClient'[i] = toClient[i + 1]
    BY <1>0, <2>1, TailElements
  <2>5. Got' \subseteq Got \cup {Msg.id}
    <3>1. CASE events' = events
      BY <3>1 DEF Got
    <3>2. CASE events' = Append(events, [id |-> Msg.id, call |-> Msg.call])
      <4>1. PICK x : /\ x \in [id : Events, call : Nat] /\ x.id = Msg.id
                     /\ events' = Append(events, x)
        BY <2>2, <3>2
      <4>2. IdsOf(events') = IdsOf(events) \cup {x.id}
        <5>1. PICK S : events \in Seq(S) /\ x \in S
          BY <1>0, <4>1
        <5> QED  BY <4>1, <5>1, Collected
      <4> QED  BY <4>1, <4>2 DEF Got, IdsOf
    <3> QED  BY <2>1, <3>1, <3>2
  <2>6. Msg.id \notin Got /\ (subs[sub_id].open => Msg.id \notin subs[sub_id].todo)
    BY <1>3, <2>2, <2>3 DEF SentOnce
  <2>7. \A i \in 1..Len(toClient') : Brings(toClient'[i], sub_id) => toClient'[i].id # Msg.id
    BY <1>3, <2>2, <2>3, <2>4 DEF SentOnce
  <2>8. SentOnce(sub_id)'
    <3>1. \A i, j \in 1..Len(toClient') :
            /\ Brings(toClient'[i], sub_id) /\ Brings(toClient'[j], sub_id)
            /\ toClient'[i].id = toClient'[j].id
            => i = j
      <4> SUFFICES ASSUME NEW i \in 1..Len(toClient'), NEW j \in 1..Len(toClient'),
                          Brings(toClient'[i], sub_id), Brings(toClient'[j], sub_id),
                          toClient'[i].id = toClient'[j].id
                   PROVE  i = j
        OBVIOUS
      <4>1. i + 1 = j + 1
        BY <1>3, <2>4 DEF SentOnce
      <4> QED  BY <4>1
    <3>2. \A i \in 1..Len(toClient') : Brings(toClient'[i], sub_id) =>
            /\ toClient'[i].id \notin Got'
            /\ subs[sub_id].open => toClient'[i].id \notin subs[sub_id].todo
      BY <1>3, <2>4, <2>5, <2>7 DEF SentOnce
    <3>3. subs[sub_id].open => subs[sub_id].todo \cap Got' = {}
      BY <1>3, <2>5, <2>6 DEF SentOnce
    <3> QED  BY <1>0, <3>1, <3>2, <3>3 DEF SentOnce
  <2>9. AskedOnce(sub_id)'
    <3>1. \A i \in 1..Len(toRelay) : ~Asks(toRelay[i], sub_id)
      BY <1>3, <2>2, <2>3 DEF AskedOnce
    <3> QED  BY <1>0, <2>1, <3>1 DEF AskedOnce
  <2>10. \A i, j \in DOMAIN events' : events'[i].id = events'[j].id => i = j
    <3>1. CASE events' = events
      BY <1>3, <3>1
    <3>2. CASE events' = Append(events, [id |-> Msg.id, call |-> Msg.call])
      <4>1. PICK x : x.id = Msg.id /\ events' = Append(events, x)
        BY <3>2
      <4>2. \A i \in DOMAIN events' : \/ i \in DOMAIN events /\ events'[i] = events[i]
                                      \/ i = Len(events) + 1 /\ events'[i] = x
        BY <1>0, <4>1, AppendIndex
      <4>3. \A i \in DOMAIN events : events[i].id # x.id
        BY <2>6, <4>1 DEF Got
      <4> QED  BY <1>3, <4>2, <4>3
    <3> QED  BY <2>1, <3>1, <3>2
  <2> QED  BY <1>0, <1>2, <2>8, <2>9, <2>10
<1>5. CASE ~QueryEvent
  <2>1. events' = events /\ Got' = Got
    BY <1>5 DEF QueryStep, QueryDone, QueryIdle, QueryAuth, QueryRearm, QuerySkip,
       QueryError, Finish, QueryFails, Got
  <2>2. ASSUME InQuery' PROVE QuerySkip
    BY <1>1, <1>2, <1>5, <2>2 DEF QueryStep, QueryDone, QueryIdle, QueryRearm, QueryError,
       Finish, QueryFails, Return, InQuery
  <2>3. ASSUME QuerySkip PROVE AskedOnce(sub_id)' /\ SentOnce(sub_id)'
    <3>1. toRelay' = toRelay /\ toClient # <<>> /\ toClient' = Tail(toClient)
      BY <2>3 DEF QuerySkip, RecvSome
    <3>2. \A i \in 1..Len(toClient') : i + 1 \in 1..Len(toClient) /\ toClient'[i] = toClient[i + 1]
      BY <1>0, <3>1, TailElements
    <3>3. AskedOnce(sub_id)'
      BY <1>0, <1>3, <2>1, <3>1, <3>2 DEF AskedOnce
    <3>4. \A i, j \in 1..Len(toClient') :
            /\ Brings(toClient'[i], sub_id) /\ Brings(toClient'[j], sub_id)
            /\ toClient'[i].id = toClient'[j].id
            => i = j
      <4> SUFFICES ASSUME NEW i \in 1..Len(toClient'), NEW j \in 1..Len(toClient'),
                          Brings(toClient'[i], sub_id), Brings(toClient'[j], sub_id),
                          toClient'[i].id = toClient'[j].id
                   PROVE  i = j
        OBVIOUS
      <4>1. i + 1 = j + 1
        BY <1>3, <3>2 DEF SentOnce
      <4> QED  BY <4>1
    <3>5. SentOnce(sub_id)'
      BY <1>0, <1>3, <2>1, <3>2, <3>4 DEF SentOnce
    <3> QED  BY <3>3, <3>5
  <2> QED  BY <1>0, <1>2, <1>3, <2>1, <2>2, <2>3
<1> QED  BY <1>4, <1>5

LEMMA OnceKept ==
    FreshInv /\ AnswerInv /\ OnceInv /\ [Next]_vars => OnceInv'
<1> SUFFICES ASSUME FreshInv, AnswerInv, OnceInv, [Next]_vars PROVE OnceInv'
  OBVIOUS
<1>0. /\ TypeOK /\ ReqsServed /\ SubsServed /\ EventsServed /\ SubsStored /\ EventsStored /\ GotStored
      /\ AuthsNumbered /\ Unrepeated /\ NoDuplicates
  BY DEF FreshInv, AnswerInv, OnceInv
<1>1. CASE CallerStep \/ LoopStep
  <2>1. AuthsNumbered'
    BY <1>0, <1>1, ClientNumbers
  <2>2. CASE Query
    <3>1. CASE pc' = "query"
      <4>1. AskedOnce(sub_id)' /\ SentOnce(sub_id)' /\ events' = <<>>
        BY <1>0, <2>2, <3>1, FirstAsked
      <4> QED  BY <2>1, <4>1 DEF OnceInv, Unrepeated, NoDuplicates
    <3>2. CASE Return("query", "error", NoId)
      <4>1. ~InQuery' /\ ~Answered'
        BY <3>2 DEF Return, Result, InQuery, Answered
      <4> QED  BY <2>1, <4>1 DEF OnceInv, Unrepeated, NoDuplicates
    <3> QED  BY <2>2, <3>1, <3>2 DEF Query
  <2>3. CASE QueryStep
    <3>1. CASE chal' = 0
      BY <1>0, <2>1, <2>3, <3>1, QueryTakesOnce DEF OnceInv, Unrepeated, NoDuplicates
    <3>2. CASE chal' # 0
      BY <2>1, <3>2 DEF OnceInv, Unrepeated, NoDuplicates
    <3> QED  BY <3>1, <3>2
  <2>4. CASE ~InQuery' /\ ~Answered'
    BY <2>1, <2>4 DEF OnceInv, Unrepeated, NoDuplicates
  <2> QED  BY <1>0, <1>1, <2>2, <2>3, <2>4, NoQuery
<1>2. CASE RelayStep /\ UNCHANGED clientVars
  <2>1. AuthsNumbered'
    BY <1>0, <1>2, ChallengesNumbered
  <2>2. /\ sub_id' = sub_id /\ UNCHANGED <<events, chal>>
        /\ InQuery' <=> InQuery
        /\ Answered' <=> Answered
    BY <1>2, RelayLeaves DEF clientVars, callVars, historyVars
  <2>3. NoDuplicates'
    BY <1>0, <2>2 DEF NoDuplicates
  <2>4. Unrepeated'
    <3> SUFFICES ASSUME InQuery, chal = 0 PROVE AskedOnce(sub_id)' /\ SentOnce(sub_id)'
      BY <2>2 DEF Unrepeated
    <3>1. sub_id \in SubId
      BY <1>0, SubIdType DEF InQuery, TypeOK
    <3>2. Got \subseteq stored /\ AskedOnce(sub_id) /\ SentOnce(sub_id)
      BY <1>0 DEF GotStored, Unrepeated
    <3>3. PICK s \in SubId : s = sub_id /\ s = sub_id'
      BY <2>2, <3>1
    <3>4. AskedOnce(s)' /\ SentOnce(s)'
      BY <1>0, <1>2, <2>2, <3>2, <3>3, RelaySendsOnce
    <3> QED  BY <3>3, <3>4 DEF AskedOnce, SentOnce
  <2> QED  BY <2>1, <2>3, <2>4 DEF OnceInv
<1>3. CASE UNCHANGED vars
  BY <1>3 DEF vars, linkVars, relayVars, clientVars, callVars, historyVars, OnceInv, AuthsNumbered,
     Unrepeated, NoDuplicates, AskedOnce, SentOnce, InQuery, Answered, Got, sub_id
<1> QED  BY <1>1, <1>2, <1>3 DEF Next, Done

\* A query that met no challenge returns no event twice: under the name that it
\* alone uses the relay is asked once, owes each event once, and sends what it
\* comes to store meanwhile only if it did not hold it before.
THEOREM QueryIsOnce ==
    ASSUME DistinctIds PROVE Spec => []NoDuplicates
<1>1. Init => AnswerInv
  BY InitAnswers
<1>2. Init => OnceInv
  <2> SUFFICES ASSUME Init PROVE OnceInv
    OBVIOUS
  <2>1. toClient = <<>> /\ pc = "idle" /\ ret.op = "new"
    BY DEF Init, LinkInit, Result
  <2> QED  BY <2>1 DEF OnceInv, AuthsNumbered, Unrepeated, NoDuplicates, InQuery, Answered
<1>3. FreshInv /\ AnswerInv /\ [Next]_vars => AnswerInv'
  BY AnswerKept
<1>4. FreshInv /\ AnswerInv /\ OnceInv /\ [Next]_vars => OnceInv'
  BY OnceKept
<1>5. OnceInv => NoDuplicates
  BY DEF OnceInv
<1> QED  BY <1>1, <1>2, <1>3, <1>4, <1>5, FreshAlways, PTL DEF Spec

-----------------------------------------------------------------------------
(* The steps of the client are steps of the service.                       *)

\* What the caller sees of the results.
LEMMA Results ==
    /\ CallInProgress # "none" => LastResult = Service!Nothing
    /\ ret.op \notin {"publish", "query"} => LastResult = Service!Nothing
    /\ CallInProgress = "none" /\ ret.op = "publish" =>
         LastResult = Service!Result("publish", ret.out, ret.id, {})
    /\ CallInProgress = "none" /\ ret.op = "query" /\ ret.out = "error" =>
         LastResult = Service!Result("query", "error", ret.id, {})
    /\ CallInProgress = "none" /\ ret.op = "query" /\ ret.out # "error" =>
         LastResult = Service!Result("query", ret.out, ret.id, Got)
BY DEF LastResult, Service!Nothing, Service!Result

LEMMA ResultsNext ==
    /\ CallInProgress' # "none" => LastResult' = Service!Nothing
    /\ ret'.op \notin {"publish", "query"} => LastResult' = Service!Nothing
    /\ CallInProgress' = "none" /\ ret'.op = "publish" =>
         LastResult' = Service!Result("publish", ret'.out, ret'.id, {})
    /\ CallInProgress' = "none" /\ ret'.op = "query" /\ ret'.out = "error" =>
         LastResult' = Service!Result("query", "error", ret'.id, {})
    /\ CallInProgress' = "none" /\ ret'.op = "query" /\ ret'.out # "error" =>
         LastResult' = Service!Result("query", ret'.out, ret'.id, Got')
BY DEF LastResult, Service!Nothing, Service!Result

\* publish begins, or fails to.
LEMMA PublishMaps ==
    ASSUME TypeOK, Publish
    PROVE  Service!Publish \/ Service!CallFails
<1>0. stored' = stored /\ snap' = snap /\ CallInProgress = "none"
  BY DEF Publish, relayVars, CallInProgress, InQuery
<1>1. PICK e \in Own :
        \/ pc' = "publish" /\ id' = e
        \/ Return("publish", "error", e) /\ id' = id
  BY DEF Publish
<1>2. e \in Events
  BY DEF Events
<1>3. CASE pc' = "publish" /\ id' = e
  <2>1. CallInProgress' = "publish" /\ LastResult' = Service!Nothing
    BY <1>3, ResultsNext DEF CallInProgress
  <2> QED  BY <1>0, <1>2, <1>3, <2>1 DEF Service!Publish
<1>4. CASE Return("publish", "error", e) /\ id' = id
  <2>1. CallInProgress' = "none" /\ ret'.op = "publish" /\ ret'.out = "error" /\ ret'.id = e
    BY <1>4 DEF Return, Result, CallInProgress, InQuery
  <2>2. LastResult' = Service!Result("publish", "error", e, {})
    BY <2>1, ResultsNext
  <2> QED  BY <1>0, <1>2, <1>4, <2>1, <2>2 DEF Service!CallFails
<1> QED  BY <1>1, <1>3, <1>4

\* An iteration of publish is not seen, or is its return.
LEMMA PublishStepMaps ==
    ASSUME TypeOK, AcceptedIsStored', PublishStep
    PROVE  Service!PublishReturns \/ UNCHANGED Service!vars
<1>0. /\ stored' = stored /\ snap' = snap /\ id' = id /\ CallInProgress = "publish"
      /\ LastResult = Service!Nothing
  <2>1. stored' = stored /\ snap' = snap /\ id' = id
    BY DEF PublishStep, PublishOk, PublishAuth, PublishResend, PublishSkip,
       PublishTimeout, PublishError, GiveUp, PublishFrame, relayVars
  <2>2. CallInProgress = "publish"
    BY DEF PublishStep, PublishOk, PublishAuth, PublishResend, PublishSkip,
       PublishTimeout, PublishError, GiveUp, Iteration, CallInProgress
  <2> QED  BY <2>1, <2>2, Results
<1>1. \/ pc' \in {"publish", "resend"}
      \/ \E out \in Service!Verdicts : Return("publish", out, id)
  BY DEF PublishStep, PublishOk, PublishAuth, PublishResend, PublishSkip,
     PublishTimeout, PublishError, GiveUp, Iteration, Service!Verdicts
<1>2. CASE pc' \in {"publish", "resend"}
  <2>1. CallInProgress' = "publish" /\ LastResult' = Service!Nothing
    BY <1>2, ResultsNext DEF CallInProgress
  <2> QED  BY <1>0, <2>1 DEF Service!vars
<1>3. CASE \E out \in Service!Verdicts : Return("publish", out, id)
  <2>1. PICK out \in Service!Verdicts : Return("publish", out, id)
    BY <1>3
  <2>2. CallInProgress' = "none" /\ ret'.op = "publish" /\ ret'.out = out /\ ret'.id = id
    BY <2>1 DEF Return, Result, CallInProgress, InQuery
  <2>3. LastResult' = Service!Result("publish", out, id, {})
    BY <2>2, ResultsNext
  <2>4. Service!MayReport(out, id, stored)
    BY <1>0, <2>2 DEF AcceptedIsStored, Service!MayReport
  <2> QED  BY <1>0, <2>2, <2>3, <2>4 DEF Service!PublishReturns
<1> QED  BY <1>1, <1>2, <1>3

\* query begins, or fails to.
LEMMA QueryMaps ==
    ASSUME TypeOK, Query
    PROVE  Service!Query \/ Service!CallFails
<1>0. stored' = stored /\ id' = id /\ CallInProgress = "none"
  BY DEF Query, relayVars, CallInProgress, InQuery
<1>1. \/ pc' = "query" /\ snap' = stored
      \/ Return("query", "error", NoId) /\ snap' = snap
  BY DEF Query
<1>2. CASE pc' = "query" /\ snap' = stored
  <2>1. CallInProgress' = "query" /\ LastResult' = Service!Nothing
    BY <1>2, ResultsNext DEF CallInProgress, InQuery
  <2> QED  BY <1>0, <1>2, <2>1 DEF Service!Query
<1>3. CASE Return("query", "error", NoId) /\ snap' = snap
  <2>1. CallInProgress' = "none" /\ ret'.op = "query" /\ ret'.out = "error" /\ ret'.id = NoId
    BY <1>3 DEF Return, Result, CallInProgress, InQuery
  <2>2. LastResult' = Service!Result("query", "error", NoId, {})
    BY <2>1, ResultsNext
  <2> QED  BY <1>0, <1>3, <2>1, <2>2 DEF Service!CallFails
<1> QED  BY <1>1, <1>2, <1>3

\* An iteration of query is not seen, or is its return.
LEMMA QueryStepMaps ==
    ASSUME TypeOK, GotStored', QueryExact', EventsStored, QueryStep
    PROVE  Service!QueryReturns \/ Service!CallFails \/ UNCHANGED Service!vars
<1>0. /\ stored' = stored /\ snap' = snap /\ id' = id /\ CallInProgress = "query"
      /\ LastResult = Service!Nothing
  <2>1. InQuery /\ stored' = stored /\ snap' = snap /\ id' = id
    BY DEF QueryStep, QueryEvent, QueryDone, QueryIdle, QueryAuth, QueryRearm, QuerySkip,
       QueryError, Finish, QueryFrame, relayVars, InQuery
  <2>2. CallInProgress = "query"
    BY <2>1 DEF CallInProgress, InQuery
  <2> QED  BY <2>1, <2>2, Results
<1>1. CASE InQuery'
  <2>1. CallInProgress' = "query" /\ LastResult' = Service!Nothing
    BY <1>1, ResultsNext DEF CallInProgress, InQuery
  <2> QED  BY <1>0, <2>1 DEF Service!vars
<1>2. CASE ~InQuery'
  <2>1. /\ pc' = "idle" /\ ret'.op = "query" /\ ret'.id = NoId
        /\ ret'.out \in {"eose", "closed", "idle", "error"}
    BY <1>2, QueryEnds
  <2>2. CallInProgress' = "none"
    BY <2>1 DEF CallInProgress, InQuery
  <2>3. CASE ret'.out = "error"
    <3>1. LastResult' = Service!Result("query", "error", NoId, {})
      BY <2>1, <2>2, <2>3, ResultsNext
    <3> QED  BY <1>0, <2>2, <3>1 DEF Service!CallFails
  <2>4. CASE ret'.out # "error"
    <3>1. LastResult' = Service!Result("query", ret'.out, NoId, Got')
      BY <2>1, <2>2, <2>4, ResultsNext
    <3>2. Answered'
      BY <2>1, <2>4 DEF Answered
    <3>3. Got' \subseteq stored \ Forged
      BY <1>0, <3>2 DEF GotStored
    <3>4. Service!MayAnswer(ret'.out = "eose", Got', snap \ Forged, stored \ Forged)
      BY <1>0, <3>2, <3>3 DEF QueryExact, Service!MayAnswer
    <3>5. ret'.out \in Service!Endings /\ Got' \in SUBSET stored
      BY <2>1, <2>4, <3>3 DEF Service!Endings
    <3> QED  BY <1>0, <2>2, <3>1, <3>4, <3>5 DEF Service!QueryReturns
  <2> QED  BY <2>3, <2>4
<1> QED  BY <1>1, <1>2

\* The other operations.
LEMMA OthersMap ==
    ASSUME TypeOK,
           poll \/ poll_event \/ close \/ \E s \in CallerSubs : subscribe(s) \/ unsubscribe(s)
    PROVE  Service!OtherCall \/ UNCHANGED Service!vars
<1>0. stored' = stored /\ snap' = snap /\ id' = id /\ events' = events /\ CallInProgress = "none"
  BY DEF poll, poll_event, close, subscribe, unsubscribe, ListenFrame, relayVars, historyVars,
     CallInProgress, InQuery
<1>1. \/ pc' = "closed" /\ ret' = ret
      \/ pc' = "idle" /\ \E o \in {"poll", "poll_event", "subscribe", "unsubscribe"} : \E x, i :
            ret' = Result(o, x, i)
  BY DEF poll, poll_event, close, subscribe, unsubscribe, Return
<1>2. CASE pc' = "closed" /\ ret' = ret
  <2>1. CallInProgress' = "none" /\ Got' = Got
    BY <1>0, <1>2 DEF CallInProgress, InQuery, Got
  <2>2. LastResult' = LastResult
    BY <1>0, <1>2, <2>1 DEF LastResult
  <2> QED  BY <1>0, <2>1, <2>2 DEF Service!vars
<1>3. CASE pc' = "idle" /\ \E o \in {"poll", "poll_event", "subscribe", "unsubscribe"} : \E x, i :
              ret' = Result(o, x, i)
  <2>1. \A o, x, i : Result(o, x, i).op = o
    BY DEF Result
  <2>2. CallInProgress' = "none" /\ LastResult' = Service!Nothing
    BY <1>3, <2>1, ResultsNext DEF CallInProgress, InQuery
  <2> QED  BY <1>0, <2>2 DEF Service!OtherCall
<1> QED  BY <1>1, <1>2, <1>3

\* The relay's steps are not seen, or the store grows.
LEMMA RelayMaps ==
    ASSUME TypeOK, TypeOK', RelayStep, UNCHANGED clientVars
    PROVE  Service!Grow \/ UNCHANGED Service!vars
<1>1. UNCHANGED <<CallInProgress, id, snap, LastResult>>
  BY DEF clientVars, callVars, historyVars, CallInProgress, InQuery, LastResult, Got
<1>2. stored \subseteq stored' /\ stored' \subseteq Events
  BY StoredGrows DEF TypeOK, LinkTypeOK
<1> QED  BY <1>1, <1>2 DEF Service!Grow, Service!vars

\* RelayClient implements RelayService: to its caller the client is a service
\* that returns from each call once, with a verdict on the event of that call or
\* an answer to that query, and says only what is so at that moment.  The frames,
\* challenges, second sends, subscriptions and the breaking connection are steps
\* that the caller does not see.
THEOREM ClientIsService ==
    ASSUME DistinctIds PROVE Spec => ServiceSpec
<1>1. Init => Service!Init
  <2> SUFFICES ASSUME Init PROVE Service!Init
    OBVIOUS
  <2>1. stored = {} /\ pc = "idle" /\ id = NoId /\ snap = {} /\ ret.op = "new"
    BY DEF Init, LinkInit, Result
  <2>2. CallInProgress = "none" /\ LastResult = Service!Nothing
    BY <2>1, Results DEF CallInProgress, InQuery
  <2> QED  BY <2>1, <2>2 DEF Service!Init
<1>2. Init => AnswerInv
  BY InitAnswers
<1>3. FreshInv /\ AnswerInv /\ [Next]_vars => AnswerInv'
  BY AnswerKept
<1>4. /\ FreshInv /\ AnswerInv /\ FreshInv' /\ AnswerInv' /\ AcceptedIsStored' /\ [Next]_vars
      => [Service!Next]_(Service!vars)
  <2> SUFFICES ASSUME FreshInv, AnswerInv, FreshInv', AnswerInv', AcceptedIsStored', [Next]_vars
               PROVE  [Service!Next]_(Service!vars)
    OBVIOUS
  <2>0. /\ TypeOK /\ TypeOK' /\ EventsStored /\ GotStored' /\ QueryExact'
    BY DEF FreshInv, AnswerInv
  <2>1. CASE Publish
    BY <2>0, <2>1, PublishMaps DEF Service!Next
  <2>2. CASE PublishStep
    BY <2>0, <2>2, PublishStepMaps DEF Service!Next
  <2>3. CASE Query
    BY <2>0, <2>3, QueryMaps DEF Service!Next
  <2>4. CASE QueryStep
    BY <2>0, <2>4, QueryStepMaps DEF Service!Next
  <2>5. CASE poll \/ poll_event \/ close \/ \E s \in CallerSubs : subscribe(s) \/ unsubscribe(s)
    BY <2>0, <2>5, OthersMap DEF Service!Next
  <2>6. CASE RelayStep /\ UNCHANGED clientVars
    BY <2>0, <2>6, RelayMaps DEF Service!Next
  <2>7. CASE UNCHANGED vars
    BY <2>7 DEF vars, linkVars, relayVars, clientVars, callVars, historyVars,
       Service!vars, CallInProgress, InQuery, LastResult, Got
  <2> QED
    BY <2>1, <2>2, <2>3, <2>4, <2>5, <2>6, <2>7 DEF Next, CallerStep, LoopStep, Done
<1> QED
  BY <1>1, <1>2, <1>3, <1>4, FreshAlways, AcceptedStored, PTL DEF Spec, ServiceSpec, Service!Spec
=============================================================================
