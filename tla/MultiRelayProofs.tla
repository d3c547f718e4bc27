-------------------------- MODULE MultiRelayProofs --------------------------
(* Theorems about MultiRelay: what a call over several relays reports and  *)
(* returns, for any number of relays, URLs, events and calls.              *)
EXTENDS MultiRelay, FiniteSetTheorems, TLAPS

-----------------------------------------------------------------------------
(* Sequences.                                                              *)

LEMMA Appended ==
    ASSUME NEW S, NEW q \in Seq(S), NEW x \in S
    PROVE  /\ Append(q, x) \in Seq(S) /\ Len(q) \in Nat
           /\ Len(Append(q, x)) = Len(q) + 1
           /\ DOMAIN q = 1..Len(q) /\ DOMAIN Append(q, x) = 1..(Len(q) + 1)
           /\ \A j \in 1..Len(q) : Append(q, x)[j] = q[j]
           /\ Append(q, x)[Len(q) + 1] = x
OBVIOUS

LEMMA Rested ==
    ASSUME NEW S, NEW q \in Seq(S), q # <<>>
    PROVE  /\ Tail(q) \in Seq(S) /\ Head(q) \in S
           /\ Given(q) = {Head(q)} \cup Given(Tail(q))
<1>1. /\ Tail(q) \in Seq(S) /\ Head(q) \in S /\ Head(q) = q[1] /\ 1 \in 1..Len(q)
      /\ DOMAIN q = 1..Len(q) /\ DOMAIN Tail(q) = 1..(Len(q) - 1) /\ Len(q) \in Nat
      /\ \A j \in 1..(Len(q) - 1) : Tail(q)[j] = q[j + 1] /\ j + 1 \in 1..Len(q)
  OBVIOUS
<1>2. ASSUME NEW j \in 1..Len(q) PROVE q[j] \in {Head(q)} \cup Given(Tail(q))
  <2>1. CASE j = 1
    BY <1>1, <2>1
  <2>2. CASE j # 1
    <3>1. j - 1 \in 1..(Len(q) - 1) /\ (j - 1) + 1 = j
      BY <1>1, <2>2
    <3>2. q[j] = Tail(q)[j - 1]
      BY <1>1, <3>1
    <3> QED  BY <1>1, <3>1, <3>2 DEF Given
  <2> QED  BY <2>1, <2>2
<1>3. Given(q) \subseteq {Head(q)} \cup Given(Tail(q))
  BY <1>1, <1>2 DEF Given
<1>4. {Head(q)} \cup Given(Tail(q)) \subseteq Given(q)
  BY <1>1 DEF Given
<1> QED  BY <1>1, <1>3, <1>4

-----------------------------------------------------------------------------
(* Types.                                                                  *)

\* connect has dealt with as many URLs as it has clients and errors, and an
\* answer waits to be merged only while a query runs.
SetupInv ==
    /\ pc = "connect" => at = Len(clients) + Len(errors) + 1 /\ outcomes = <<>> /\ ret = "none"
    /\ Len(clients) + Len(errors) <= Len(urls)
    /\ pc # "connect" => Len(clients) + Len(errors) = Len(urls)
    /\ rest # <<>> => pc = "query" /\ at > 1
    /\ pc = "broadcast" => event \in Events

\* The parts of TypeOK.
Lists ==
    /\ urls \in Seq(Relays) /\ clients \in Seq(Relays) /\ errors \in Seq(Relays)
    /\ up \in [DOMAIN clients -> BOOLEAN] /\ opened \subseteq DOMAIN clients
    /\ out \in Seq([id : Events, from : DOMAIN clients])
Place ==
    /\ pc \in {"connect", "idle", "broadcast", "query", "subscribe", "closed"}
    /\ at \in 1..(Len(urls) + 1)
    /\ pc \in {"broadcast", "query", "subscribe"} => at <= Len(clients) + 1
Data ==
    /\ event \in Events \cup {NoEvent}
    /\ outcomes \in Seq([url : Relays, result : Results])
    /\ seen \subseteq Events /\ rest \in Seq(Events)
    /\ ret \in {"none", "broadcast", "query", "subscribe", "subscribe_failed"}
    /\ ops \in 0..MaxOps
    /\ answers \in Seq([ok : BOOLEAN, complete : BOOLEAN, ids : Seq(Events)])
Stores == stored \in [Relays -> SUBSET Events]

LEMMA TypeParts ==
    /\ TypeOK <=> Lists /\ Place /\ Data /\ Stores
    /\ TypeOK' <=> Lists' /\ Place' /\ Data' /\ Stores'
BY DEF TypeOK, Lists, Place, Data, Stores

LEMMA GrowsType ==
    ASSUME stored \in [Relays -> SUBSET Events], NEW r \in Relays, NEW new \in SUBSET Events,
           Grows(r, new)
    PROVE  /\ stored' \in [Relays -> SUBSET Events]
           /\ \A s \in Relays : stored[s] \subseteq stored'[s]
BY DEF Grows

\* Stores only grow.
LEMMA StoresGrow ==
    ASSUME TypeOK, SetupInv, [Next]_vars
    PROVE  /\ stored' \in [Relays -> SUBSET Events]
           /\ \A s \in Relays : stored[s] \subseteq stored'[s]
<1>0. stored \in [Relays -> SUBSET Events]
  BY DEF TypeOK
<1>1. CASE BroadcastOne
  <2>1. PICK sent : sent \subseteq {event} /\ Grows(clients[at], sent)
    BY <1>1 DEF BroadcastOne, publish
  <2>2. clients[at] \in Relays
    BY <1>1 DEF TypeOK, BroadcastOne, Turn
  <2>3. event \in Events
    BY <1>1 DEF SetupInv, BroadcastOne, Turn
  <2> QED  BY <1>0, <2>1, <2>2, <2>3, GrowsType
<1>2. CASE QueryOne
  <2>1. PICK others \in SUBSET Events : Grows(clients[at], others)
    BY <1>2 DEF QueryOne, query
  <2>2. clients[at] \in Relays
    BY <1>2 DEF TypeOK, QueryOne, Turn
  <2> QED  BY <1>0, <2>1, <2>2, GrowsType
<1>3. CASE OtherPublish
  <2>1. PICK r \in Relays, e \in Events : Grows(r, {e})
    BY <1>3 DEF OtherPublish
  <2> QED  BY <1>0, <2>1, GrowsType
<1>4. CASE UNCHANGED stored
  BY <1>0, <1>4
<1> QED
  BY <1>1, <1>2, <1>3, <1>4 DEF Next, ConnectFails, ConnectOk, Connected, Broadcast,
     BroadcastEnds, Query, Merge, QueryEnds, Subscribe, SubscribeOne, SubscribeFails,
     SubscribeEnds, close, LinkBreaks, Done, vars

LEMMA AnswerType ==
    ASSUME NEW a \in Answers
    PROVE  a \in [ok : BOOLEAN, complete : BOOLEAN, ids : Seq(Events)]
<1> DEFINE S == UNION {[1..n -> Events] : n \in 0..MaxAnswer}
<1>1. a = [ok |-> FALSE, complete |-> FALSE, ids |-> <<>>]
      \/ a \in {[ok |-> TRUE, complete |-> k, ids |-> s] : k \in BOOLEAN, s \in S}
  BY DEF Answers, Answer
<1>2. \A s \in S : s \in Seq(Events)
  BY MultiAssumption
<1> HIDE DEF S
<1>3. CASE a = [ok |-> FALSE, complete |-> FALSE, ids |-> <<>>]
  BY <1>3
<1>4. CASE a \in {[ok |-> TRUE, complete |-> k, ids |-> s] : k \in BOOLEAN, s \in S}
  <2>1. PICK k \in BOOLEAN, s \in S : a = [ok |-> TRUE, complete |-> k, ids |-> s]
    BY <1>4
  <2>2. s \in Seq(Events)
    BY <1>2
  <2> QED  BY <2>1, <2>2
<1> QED  BY <1>1, <1>3, <1>4

LEMMA UpIsSeq ==
    ASSUME NEW n \in Nat, NEW f \in [1..n -> BOOLEAN]
    PROVE  f \in Seq(BOOLEAN) /\ Len(f) = n
OBVIOUS

\* An answer is still well-formed when there are more clients.
LEMMA OutWidens ==
    ASSUME NEW S, NEW T, S \subseteq T, NEW q \in Seq([id : Events, from : S])
    PROVE  q \in Seq([id : Events, from : T])
<1>1. \A x \in [id : Events, from : S] : x \in [id : Events, from : T]
  OBVIOUS
<1> DEFINE A == [id : Events, from : S]
           B == [id : Events, from : T]
<1>2. q \in Seq(A) /\ A \subseteq B
  BY <1>1
<1> HIDE DEF A, B
<1>3. q \in Seq(B)
  BY <1>2
<1> QED  BY <1>3 DEF B

\* Whatever fails, the client list, the turn and the answers stay well-formed.
LEMMA SetupAlways == Spec => [](TypeOK /\ SetupInv)
<1>1. Init => TypeOK /\ SetupInv
  <2> SUFFICES ASSUME Init PROVE TypeOK /\ SetupInv
    OBVIOUS
  <2>1. urls \in Seq(Relays) /\ Len(urls) \in Nat
    BY MultiAssumption DEF Init
  <2>2. up \in [DOMAIN clients -> BOOLEAN]
    BY DEF Init
  <2> QED  BY <2>1, <2>2, MultiAssumption DEF Init, TypeOK, SetupInv
<1>2. TypeOK /\ SetupInv /\ [Next]_vars => TypeOK' /\ SetupInv'
  <2> SUFFICES ASSUME TypeOK, SetupInv, [Next]_vars
               PROVE  Lists' /\ Place' /\ Data' /\ SetupInv'
    BY StoresGrow, TypeParts DEF Stores
  <2>0. /\ Lists /\ Place /\ Data
        /\ Len(clients) \in Nat /\ Len(urls) \in Nat /\ Len(errors) \in Nat
        /\ DOMAIN clients = 1..Len(clients) /\ at \in Nat \ {0}
    BY TypeParts DEF Lists, Place
  <2>1. CASE ConnectFails
    <3>1. urls[at] \in Relays /\ at \in 1..Len(urls)
      BY <2>0, <2>1 DEF ConnectFails, Lists
    <3>2. errors' \in Seq(Relays) /\ Len(errors') = Len(errors) + 1
      BY <2>0, <2>1, <3>1, Appended DEF ConnectFails, Lists
    <3>3. Lists'
      BY <2>0, <2>1, <3>2 DEF ConnectFails, callVars, Lists
    <3>4. Place' /\ SetupInv'
      BY <2>0, <2>1, <3>1, <3>2 DEF ConnectFails, callVars, Place, SetupInv
    <3>5. Data'
      BY <2>0, <2>1 DEF ConnectFails, callVars, Data
    <3> QED  BY <3>3, <3>4, <3>5
  <2>2. CASE ConnectOk
    <3>1. urls[at] \in Relays /\ at \in 1..Len(urls)
      BY <2>0, <2>2 DEF ConnectOk, Lists
    <3>2. /\ clients' \in Seq(Relays) /\ Len(clients') = Len(clients) + 1
          /\ DOMAIN clients' = 1..(Len(clients) + 1)
      BY <2>0, <2>2, <3>1, Appended DEF ConnectOk, Lists
    <3>3. up' \in [DOMAIN clients' -> BOOLEAN]
      <4>1. up \in Seq(BOOLEAN) /\ Len(up) = Len(clients)
        BY <2>0, UpIsSeq DEF Lists
      <4>2. TRUE \in BOOLEAN /\ up' = Append(up, TRUE)
        BY <2>2 DEF ConnectOk
      <4>3. up' \in Seq(BOOLEAN) /\ DOMAIN up' = DOMAIN clients'
        BY <3>2, <4>1, <4>2, Appended
      <4> QED  BY <4>3
    <3>4. out' \in Seq([id : Events, from : DOMAIN clients'])
      <4>1. DOMAIN clients \subseteq DOMAIN clients'
        BY <2>0, <3>2
      <4>2. out' = out
        BY <2>2 DEF ConnectOk, callVars
      <4>3. out \in Seq([id : Events, from : DOMAIN clients])
        BY <2>0 DEF Lists
      <4> QED  BY <4>1, <4>2, <4>3, OutWidens
    <3>5. opened' \subseteq DOMAIN clients'
      BY <2>0, <2>2, <3>2 DEF Lists, ConnectOk, callVars
    <3>6. Lists'
      BY <2>0, <2>2, <3>2, <3>3, <3>4, <3>5 DEF ConnectOk, callVars, Lists
    <3>7. Place' /\ SetupInv'
      BY <2>0, <2>2, <3>1, <3>2 DEF ConnectOk, callVars, Place, SetupInv
    <3>8. Data'
      BY <2>0, <2>2 DEF ConnectOk, callVars, Data
    <3> QED  BY <3>6, <3>7, <3>8
  <2>3. ASSUME UNCHANGED setup, opened' \subseteq DOMAIN clients,
               out' \in Seq([id : Events, from : DOMAIN clients])
        PROVE  Lists'
    BY <2>0, <2>3 DEF Lists, setup
  <2>4. CASE Connected
    <3>1. Lists' /\ Data'
      BY <2>0, <2>3, <2>4 DEF Connected, setup, callVars, Data, Lists
    <3>2. Place' /\ SetupInv'
      BY <2>0, <2>4 DEF Connected, callVars, Place, SetupInv
    <3> QED  BY <3>1, <3>2
  <2>5. CASE Broadcast \/ Query \/ Subscribe
    <3>1. UNCHANGED setup /\ out' \in {out, <<>>} /\ opened' \in {opened, {}}
      BY <2>5 DEF Broadcast, Query, Subscribe
    <3>2. Lists'
      <4>1. <<>> \in Seq([id : Events, from : DOMAIN clients])
        OBVIOUS
      <4>2. out' \in Seq([id : Events, from : DOMAIN clients])
        BY <2>0, <3>1, <4>1 DEF Lists
      <4>3. opened' \subseteq DOMAIN clients
        BY <2>0, <3>1 DEF Lists
      <4> QED  BY <2>3, <3>1, <4>2, <4>3
    <3>3. Data'
      <4>1. ops' \in 0..MaxOps
        BY <2>0, <2>5, MultiAssumption DEF Broadcast, Query, Subscribe, Begin, Data
      <4>2. CASE Broadcast
        BY <2>0, <4>1, <4>2 DEF Broadcast, Data
      <4>3. CASE Query
        BY <2>0, <4>1, <4>3 DEF Query, Data
      <4>4. CASE Subscribe
        BY <2>0, <4>1, <4>4 DEF Subscribe, Data
      <4> QED  BY <2>5, <4>2, <4>3, <4>4
    <3>4. Place' /\ SetupInv'
      BY <2>0, <2>5 DEF Broadcast, Query, Subscribe, Begin, setup, Place, SetupInv
    <3> QED  BY <3>2, <3>3, <3>4
  <2>6. CASE BroadcastOne
    <3>1. PICK result \in Results : outcomes' = Append(outcomes, [url |-> clients[at], result |-> result])
      BY <2>6 DEF BroadcastOne
    <3>2. clients[at] \in Relays /\ at \in 1..Len(clients)
      BY <2>0, <2>6 DEF BroadcastOne, Turn, Lists
    <3>3. outcomes' \in Seq([url : Relays, result : Results])
      <4> DEFINE x == [url |-> clients[at], result |-> result]
      <4>1. x \in [url : Relays, result : Results] /\ outcomes' = Append(outcomes, x)
        BY <3>1, <3>2
      <4> HIDE DEF x
      <4> QED  BY <2>0, <4>1, Appended DEF Data
    <3>4. Lists'
      BY <2>0, <2>3, <2>6 DEF BroadcastOne, Lists
    <3>5. Data'
      BY <2>0, <2>6, <3>3 DEF BroadcastOne, Data
    <3>6. Place' /\ SetupInv'
      BY <2>0, <2>6, <3>2 DEF BroadcastOne, Turn, setup, Place, SetupInv
    <3> QED  BY <3>4, <3>5, <3>6
  <2>7. CASE BroadcastEnds \/ QueryEnds \/ SubscribeEnds
    <3>1. Lists'
      BY <2>0, <2>3, <2>7 DEF BroadcastEnds, QueryEnds, SubscribeEnds, Lists
    <3>2. Data'
      BY <2>0, <2>7 DEF BroadcastEnds, QueryEnds, SubscribeEnds, Ends, Data
    <3>3. Place' /\ SetupInv'
      BY <2>0, <2>7 DEF BroadcastEnds, QueryEnds, SubscribeEnds, Ends, setup, Place, SetupInv
    <3> QED  BY <3>1, <3>2, <3>3
  <2>8. CASE QueryOne
    <3>1. PICK a \in Answers : answers' = Append(answers, a) /\ rest' = a.ids
      BY <2>8 DEF QueryOne
    <3>2. a \in [ok : BOOLEAN, complete : BOOLEAN, ids : Seq(Events)]
      BY AnswerType
    <3>3. answers' \in Seq([ok : BOOLEAN, complete : BOOLEAN, ids : Seq(Events)])
      BY <2>0, <3>1, <3>2, Appended DEF Data
    <3>4. rest' \in Seq(Events)
      BY <3>1, <3>2
    <3>5. Lists'
      BY <2>0, <2>3, <2>8 DEF QueryOne, Lists
    <3>6. Data'
      BY <2>0, <2>8, <3>3, <3>4 DEF QueryOne, Data
    <3>7. Place' /\ SetupInv'
      BY <2>0, <2>8 DEF QueryOne, Turn, setup, Place, SetupInv
    <3> QED  BY <3>5, <3>6, <3>7
  <2>9. CASE Merge
    <3>1. /\ Head(rest) \in Events /\ rest' \in Seq(Events) /\ pc = "query" /\ at > 1
          /\ at - 1 \in DOMAIN clients
      <4>1. rest \in Seq(Events) /\ rest # <<>> /\ rest' = Tail(rest)
        BY <2>0, <2>9 DEF Merge, Data
      <4>2. pc = "query" /\ at > 1 /\ at - 1 \in 1..Len(clients)
        BY <2>0, <2>9 DEF Merge, Place, SetupInv
      <4> QED  BY <2>0, <4>1, <4>2, Rested
    <3>2. seen' \subseteq Events
      BY <2>0, <2>9, <3>1 DEF Merge, Insert, Data
    <3>3. out' \in Seq([id : Events, from : DOMAIN clients])
      <4> DEFINE A == [id : Events, from : DOMAIN clients]
                 x == [id |-> Head(rest), from |-> at - 1]
      <4>1. x \in A
        BY <3>1
      <4>2. out \in Seq(A) /\ (out' = out \/ out' = Append(out, x))
        BY <2>0, <2>9 DEF Merge, Lists
      <4> HIDE DEF A, x
      <4>3. out' \in Seq(A)
        BY <4>1, <4>2, Appended
      <4> QED  BY <4>3 DEF A
    <3>4. Lists'
      BY <2>0, <2>3, <2>9, <3>3 DEF Merge, Lists
    <3>5. Data'
      BY <2>0, <2>9, <3>1, <3>2 DEF Merge, Data
    <3>6. Place' /\ SetupInv'
      BY <2>0, <2>9, <3>1 DEF Merge, setup, Place, SetupInv
    <3> QED  BY <3>4, <3>5, <3>6
  <2>10. CASE SubscribeOne \/ SubscribeFails
    <3>1. UNCHANGED setup /\ out' = out /\ opened' \in {opened, opened \cup {at}} /\ at \in DOMAIN clients
      BY <2>0, <2>10 DEF SubscribeOne, SubscribeFails, Turn
    <3>2. Lists'
      BY <2>0, <2>3, <3>1 DEF Lists
    <3>3. Data'
      BY <2>0, <2>10 DEF SubscribeOne, SubscribeFails, Data
    <3>4. Place' /\ SetupInv'
      BY <2>0, <2>10 DEF SubscribeOne, SubscribeFails, Turn, setup, Place, SetupInv
    <3> QED  BY <3>2, <3>3, <3>4
  <2>11. CASE close \/ LinkBreaks \/ OtherPublish
    <3>1. /\ UNCHANGED <<urls, clients, errors, callVars, at>>
          /\ pc' = pc \/ (pc = "idle" /\ pc' = "closed")
      BY <2>11 DEF close, LinkBreaks, OtherPublish, setup
    <3>2. up' \in [DOMAIN clients' -> BOOLEAN]
      BY <2>0, <2>11, <3>1 DEF close, LinkBreaks, OtherPublish, setup, Lists
    <3>3. Lists' /\ Data'
      BY <2>0, <3>1, <3>2 DEF Lists, Data, callVars
    <3>4. Place' /\ SetupInv'
      BY <2>0, <3>1 DEF callVars, Place, SetupInv
    <3> QED  BY <3>3, <3>4
  <2>12. CASE UNCHANGED vars
    BY <2>0, <2>12 DEF vars, callVars, Lists, Place, Data, SetupInv
  <2> QED
    BY <2>1, <2>2, <2>4, <2>5, <2>6, <2>7, <2>8, <2>9, <2>10, <2>11, <2>12 DEF Next, Done
<1> QED  BY <1>1, <1>2, PTL DEF Spec

\* Every variable keeps to its type; in particular no turn is past the last
\* client and no event of a merged answer comes from a client there is not.
THEOREM TypeCorrect == Spec => []TypeOK
BY SetupAlways, PTL

-----------------------------------------------------------------------------
(* connect: what has become of the URLs so far.                            *)

\* Places of r among the first n URLs.
Upto(r, n) == {j \in 1..n : urls[j] = r}

LEMMA PlacesAreFinite ==
    ASSUME NEW n \in Nat, NEW P, P \subseteq 1..n
    PROVE  IsFiniteSet(P) /\ Cardinality(P) \in Nat
<1>1. IsFiniteSet(1..n)
  BY FS_Interval
<1>2. IsFiniteSet(P)
  BY <1>1, FS_Subset
<1> QED  BY <1>2, FS_CardinalityType

LEMMA OneMorePlace ==
    ASSUME NEW n \in Nat, NEW P, P \subseteq 1..n
    PROVE  Cardinality(P \cup {n + 1}) = Cardinality(P) + 1
<1>1. n + 1 \notin P
  OBVIOUS
<1> QED  BY <1>1, PlacesAreFinite, FS_AddElement

LEMMA TimesAppended ==
    ASSUME NEW q \in Seq(Relays), NEW x \in Relays, NEW r \in Relays
    PROVE  /\ Cardinality(Times(r, q)) \in Nat
           /\ Cardinality(Times(r, Append(q, x)))
              = IF x = r THEN Cardinality(Times(r, q)) + 1 ELSE Cardinality(Times(r, q))
<1>1. Len(q) \in Nat /\ Times(r, q) \subseteq 1..Len(q)
  BY DEF Times
<1>2. Times(r, Append(q, x)) = IF x = r THEN Times(r, q) \cup {Len(q) + 1} ELSE Times(r, q)
  BY Appended DEF Times
<1> QED  BY <1>1, <1>2, PlacesAreFinite, OneMorePlace

\* While connect runs its clients and errors account for the URLs before its turn.
Balanced(r) ==
    Cardinality(Times(r, clients)) + Cardinality(Times(r, errors))
    = Cardinality(Upto(r, IF pc = "connect" THEN at - 1 ELSE Len(urls)))
ConnectInv == \A r \in Relays : Balanced(r)

LEMMA ConnectAlways == Spec => []ConnectInv
<1>1. Init => ConnectInv
  <2> SUFFICES ASSUME Init, NEW r \in Relays PROVE Balanced(r)
    BY DEF ConnectInv
  <2>1. pc = "connect" /\ at - 1 = 0
    BY DEF Init
  <2>2. Times(r, clients) = {} /\ Times(r, errors) = {} /\ Upto(r, 0) = {}
    BY DEF Init, Times, Upto
  <2> QED  BY <2>1, <2>2, FS_EmptySet DEF Balanced
<1>2. TypeOK /\ SetupInv /\ ConnectInv /\ [Next]_vars => ConnectInv'
  <2> SUFFICES ASSUME TypeOK, SetupInv, ConnectInv, [Next]_vars, NEW r \in Relays
               PROVE  Balanced(r)'
    BY DEF ConnectInv
  <2>0. /\ clients \in Seq(Relays) /\ errors \in Seq(Relays) /\ urls \in Seq(Relays)
        /\ at \in Nat \ {0} /\ Len(urls) \in Nat
        /\ at <= Len(urls) => urls[at] \in Relays
        /\ at <= Len(urls) + 1
    BY DEF TypeOK
  <2>5. /\ Cardinality(Times(r, clients)) \in Nat
        /\ Cardinality(Times(r, errors)) \in Nat
        /\ Balanced(r)
    <3>1. ASSUME NEW q \in Seq(Relays) PROVE Cardinality(Times(r, q)) \in Nat
      BY TimesAppended
    <3> QED  BY <2>0, <3>1 DEF ConnectInv
  <2>1. CASE ConnectFails \/ ConnectOk
    <3>1. /\ pc = "connect" /\ pc' = "connect" /\ at' = at + 1 /\ UNCHANGED urls
          /\ urls[at] \in Relays
      BY <2>0, <2>1 DEF ConnectFails, ConnectOk
    <3>2. Cardinality(Upto(r, at))
          = IF urls[at] = r THEN Cardinality(Upto(r, at - 1)) + 1 ELSE Cardinality(Upto(r, at - 1))
      <4>1. at - 1 \in Nat /\ Upto(r, at - 1) \subseteq 1..(at - 1) /\ (at - 1) + 1 = at
        BY <2>0 DEF Upto
      <4>2. Upto(r, at) = IF urls[at] = r THEN Upto(r, at - 1) \cup {at} ELSE Upto(r, at - 1)
        BY <2>0 DEF Upto
      <4> QED  BY <4>1, <4>2, OneMorePlace
    <3>3. Cardinality(Times(r, clients)) + Cardinality(Times(r, errors))
          = Cardinality(Upto(r, at - 1))
      BY <2>5, <3>1 DEF Balanced
    <3>6. Balanced(r)' <=> Cardinality(Times(r, clients')) + Cardinality(Times(r, errors'))
                           = Cardinality(Upto(r, at))
      <4>1. at' - 1 = at
        BY <2>0, <3>1
      <4> QED  BY <3>1, <4>1 DEF Balanced, Upto
    <3>4. CASE ConnectFails
      <4>1. clients' = clients /\ errors' = Append(errors, urls[at])
        BY <3>4 DEF ConnectFails
      <4>2. Cardinality(Times(r, clients')) + Cardinality(Times(r, errors'))
            = Cardinality(Upto(r, at))
        BY <2>0, <2>5, <3>1, <3>2, <3>3, <4>1, TimesAppended
      <4> QED  BY <3>6, <4>2
    <3>5. CASE ConnectOk
      <4>1. errors' = errors /\ clients' = Append(clients, urls[at])
        BY <3>5 DEF ConnectOk
      <4>2. Cardinality(Times(r, clients')) + Cardinality(Times(r, errors'))
            = Cardinality(Upto(r, at))
        BY <2>0, <2>5, <3>1, <3>2, <3>3, <4>1, TimesAppended
      <4> QED  BY <3>6, <4>2
    <3> QED  BY <2>1, <3>4, <3>5
  <2>2. CASE Connected
    <3>1. /\ pc = "connect" /\ pc' # "connect" /\ at - 1 = Len(urls)
          /\ UNCHANGED <<clients, errors, urls>>
      BY <2>0, <2>2 DEF Connected
    <3>2. Cardinality(Times(r, clients)) + Cardinality(Times(r, errors))
          = Cardinality(Upto(r, Len(urls)))
      BY <2>5, <3>1 DEF Balanced
    <3> QED  BY <3>1, <3>2 DEF Balanced, Upto
  <2>3. CASE \/ UNCHANGED <<clients, errors, urls, pc, at>>
             \/ pc # "connect" /\ pc' # "connect" /\ UNCHANGED setup
    <3>1. /\ UNCHANGED <<clients, errors, urls>>
          /\ \/ UNCHANGED <<pc, at>>
             \/ pc # "connect" /\ pc' # "connect"
      BY <2>3 DEF setup
    <3> QED  BY <2>5, <3>1 DEF Balanced, Upto
  <2>4. CASE close
    BY <2>4, <2>5 DEF close, Balanced, Upto
  <2> QED
    BY <2>1, <2>2, <2>3, <2>4 DEF Next, Broadcast, BroadcastOne, BroadcastEnds, Query, QueryOne,
       Merge, QueryEnds, Subscribe, SubscribeOne, SubscribeFails, SubscribeEnds, LinkBreaks,
       OtherPublish, Done, Begin, Turn, Ends, setup, vars
<1> QED  BY <1>1, <1>2, SetupAlways, PTL DEF Spec

\* No URL given to connect is dropped or counted twice: each is, as often as it was
\* given, a client or a reported error.
THEOREM ConnectIsAccountedFor == Spec => []ConnectAccountsForAll
<1>1. TypeOK /\ ConnectInv => ConnectAccountsForAll
  <2> SUFFICES ASSUME TypeOK, ConnectInv, pc # "connect", NEW r \in Relays
               PROVE  Cardinality(Times(r, urls))
                      = Cardinality(Times(r, clients)) + Cardinality(Times(r, errors))
    BY DEF ConnectAccountsForAll
  <2>1. urls \in Seq(Relays) /\ Times(r, urls) = Upto(r, Len(urls))
    BY DEF TypeOK, Times, Upto
  <2> QED  BY <2>1 DEF ConnectInv, Balanced
<1> QED  BY <1>1, SetupAlways, ConnectAlways, PTL

-----------------------------------------------------------------------------
(* broadcast: the reports so far are those of the first clients.           *)

BroadcastInv ==
    /\ pc = "broadcast" => Len(outcomes) = at - 1
    /\ pc # "broadcast" /\ ret = "broadcast" => Len(outcomes) = Len(clients)
    /\ \A c \in DOMAIN outcomes :
         /\ c \in DOMAIN clients /\ outcomes[c].url = clients[c]
         /\ outcomes[c].result = "accepted" => event \in stored[clients[c]]

LEMMA BroadcastAlways == Spec => []BroadcastInv
<1>1. Init => BroadcastInv
  BY DEF Init, BroadcastInv
<1>2. TypeOK /\ SetupInv /\ BroadcastInv /\ [Next]_vars => BroadcastInv'
  <2> SUFFICES ASSUME TypeOK, SetupInv, BroadcastInv, [Next]_vars
               PROVE  BroadcastInv'
    OBVIOUS
  <2>0. /\ clients \in Seq(Relays) /\ outcomes \in Seq([url : Relays, result : Results])
        /\ Len(clients) \in Nat /\ DOMAIN clients = 1..Len(clients)
        /\ Len(outcomes) \in Nat /\ DOMAIN outcomes = 1..Len(outcomes)
        /\ at \in Nat \ {0}
        /\ \A c \in DOMAIN clients : clients[c] \in Relays
    BY DEF TypeOK
  <2>1. \A r \in Relays : stored[r] \subseteq stored'[r]
    BY StoresGrow
  <2>2. CASE ConnectFails \/ ConnectOk \/ Connected
    <3>1. outcomes' = <<>> /\ ret' = "none" /\ pc' # "broadcast"
      BY <2>2 DEF ConnectFails, ConnectOk, Connected, callVars, SetupInv
    <3> QED  BY <3>1 DEF BroadcastInv
  <2>3. CASE Broadcast
    BY <2>3 DEF Broadcast, Begin, setup, BroadcastInv
  <2>4. CASE BroadcastOne
    <3>1. PICK result \in Results :
            /\ publish(at, event, result)
            /\ outcomes' = Append(outcomes, [url |-> clients[at], result |-> result])
      BY <2>4 DEF BroadcastOne
    <3>2. at \in DOMAIN clients /\ Len(outcomes) = at - 1
      BY <2>0, <2>4 DEF BroadcastOne, Turn, BroadcastInv
    <3> DEFINE x == [url |-> clients[at], result |-> result]
    <3>3. x \in [url : Relays, result : Results] /\ x.url = clients[at] /\ x.result = result
      BY <2>0, <3>2
    <3>4. outcomes' = Append(outcomes, x)
      BY <3>1
    <3> HIDE DEF x
    <3>5. /\ Len(outcomes') = at /\ DOMAIN outcomes' = 1..at /\ outcomes'[at] = x
          /\ \A c \in 1..(at - 1) : outcomes'[c] = outcomes[c]
      BY <2>0, <3>2, <3>3, <3>4, Appended
    <3>6. result = "accepted" => event \in stored'[clients[at]]
      BY <3>1 DEF publish, MayReport
    <3>7. ASSUME NEW c \in DOMAIN outcomes'
          PROVE  /\ c \in DOMAIN clients /\ outcomes'[c].url = clients[c]
                 /\ outcomes'[c].result = "accepted" => event \in stored'[clients[c]]
      <4>1. CASE c = at
        BY <3>2, <3>3, <3>5, <3>6, <4>1
      <4>2. CASE c # at
        <5>1. c \in DOMAIN outcomes /\ outcomes'[c] = outcomes[c]
          BY <2>0, <3>2, <3>5, <4>2
        <5>2. clients[c] \in Relays
          BY <2>0, <5>1 DEF BroadcastInv
        <5> QED  BY <2>1, <5>1, <5>2 DEF BroadcastInv
      <4> QED  BY <4>1, <4>2
    <3>8. /\ pc' = "broadcast" /\ Len(outcomes') = at' - 1
          /\ clients' = clients /\ event' = event
      BY <2>0, <2>4, <3>5 DEF BroadcastOne, Turn, setup
    <3> QED  BY <3>7, <3>8 DEF BroadcastInv
  <2>5. ASSUME UNCHANGED <<clients, outcomes, event>>
        PROVE  \A c \in DOMAIN outcomes' :
                 /\ c \in DOMAIN clients' /\ outcomes'[c].url = clients'[c]
                 /\ outcomes'[c].result = "accepted" => event' \in stored'[clients'[c]]
    BY <2>0, <2>1, <2>5 DEF BroadcastInv
  <2>6. CASE BroadcastEnds
    <3>1. /\ UNCHANGED <<clients, outcomes, event>> /\ pc' = "idle"
          /\ pc = "broadcast" /\ at > Len(clients) /\ at <= Len(clients) + 1
      BY <2>6 DEF BroadcastEnds, Ends, setup, TypeOK
    <3>2. Len(outcomes') = Len(clients')
      <4>1. Len(outcomes) = at - 1
        BY <3>1 DEF BroadcastInv
      <4>2. at = Len(clients) + 1
        BY <2>0, <3>1
      <4>3. Len(outcomes) = Len(clients)
        BY <2>0, <4>1, <4>2
      <4> QED  BY <3>1, <4>3
    <3> QED  BY <2>5, <3>1, <3>2 DEF BroadcastInv
  <2>7. CASE Query \/ QueryOne \/ Merge \/ QueryEnds \/ Subscribe \/ SubscribeOne
             \/ SubscribeFails \/ SubscribeEnds \/ close \/ LinkBreaks \/ OtherPublish
    <3>1. /\ UNCHANGED <<clients, outcomes, event>>
          /\ pc' = "broadcast" <=> pc = "broadcast"
          /\ ret' = "broadcast" => ret = "broadcast"
          /\ UNCHANGED at \/ pc # "broadcast"
      BY <2>7 DEF Query, QueryOne, Merge, QueryEnds, Subscribe, SubscribeOne, SubscribeFails,
         SubscribeEnds, close, LinkBreaks, OtherPublish, Begin, Turn, Ends, setup, callVars
    <3> QED  BY <2>5, <3>1 DEF BroadcastInv
  <2>8. CASE UNCHANGED vars
    BY <2>8 DEF vars, callVars, BroadcastInv
  <2> QED
    BY <2>2, <2>3, <2>4, <2>6, <2>7, <2>8 DEF Next, Done
<1> QED  BY <1>1, <1>2, SetupAlways, PTL DEF Spec

\* What broadcast returns names every client once, in order, and a relay named as
\* having accepted the event has it, whatever fails meanwhile.
THEOREM BroadcastIsReported == Spec => []BroadcastReport
<1>1. BroadcastInv => BroadcastReport
  <2> SUFFICES ASSUME BroadcastInv PROVE BroadcastReport
    OBVIOUS
  <2> QED  BY DEF BroadcastInv, BroadcastReport
<1> QED  BY <1>1, BroadcastAlways, PTL

-----------------------------------------------------------------------------
(* subscribe: while it runs, its REQ has gone to the clients before.        *)

SubscribeInv ==
    /\ pc = "subscribe" => opened = 1..(at - 1)
    /\ pc # "subscribe" /\ ret = "subscribe" => opened = DOMAIN clients
    /\ pc # "subscribe" /\ ret = "subscribe_failed" =>
         \E c \in DOMAIN clients : ~Up(c) /\ opened = 1..(c - 1)

LEMMA SubscribeAlways == Spec => []SubscribeInv
<1>1. Init => SubscribeInv
  BY DEF Init, SubscribeInv
<1>2. TypeOK /\ SetupInv /\ SubscribeInv /\ [Next]_vars => SubscribeInv'
  <2> SUFFICES ASSUME TypeOK, SetupInv, SubscribeInv, [Next]_vars
               PROVE  SubscribeInv'
    OBVIOUS
  <2>0. /\ Len(clients) \in Nat /\ DOMAIN clients = 1..Len(clients) /\ at \in Nat \ {0}
        /\ up \in [DOMAIN clients -> BOOLEAN]
        /\ pc = "subscribe" => at <= Len(clients) + 1
    BY DEF TypeOK
  <2>1. CASE ConnectFails \/ ConnectOk \/ Connected
    BY <2>1 DEF ConnectFails, ConnectOk, Connected, callVars, SubscribeInv, SetupInv
  <2>2. CASE Subscribe
    <3>1. opened' = 1..(at' - 1)
      BY <2>2 DEF Subscribe, Begin
    <3> QED  BY <2>2, <3>1 DEF Subscribe, Begin, SubscribeInv
  <2>3. CASE SubscribeOne
    <3>1. opened' = 1..(at' - 1)
      BY <2>0, <2>3 DEF SubscribeOne, Turn, SubscribeInv
    <3> QED  BY <2>3, <3>1 DEF SubscribeOne, Turn, SubscribeInv
  <2>4. CASE SubscribeFails
    <3>1. at \in DOMAIN clients /\ ~Up(at) /\ opened = 1..(at - 1)
      BY <2>0, <2>4 DEF SubscribeFails, Turn, SubscribeInv
    <3> QED  BY <2>4, <3>1 DEF SubscribeFails, setup, SubscribeInv, Up
  <2>5. CASE SubscribeEnds
    <3>1. opened = DOMAIN clients
      BY <2>0, <2>5 DEF SubscribeEnds, Ends, SubscribeInv
    <3> QED  BY <2>5, <3>1 DEF SubscribeEnds, Ends, setup, SubscribeInv
  <2>6. CASE LinkBreaks \/ close
    <3>1. \A c \in DOMAIN clients : ~Up(c) => ~Up(c)'
      BY <2>0, <2>6 DEF LinkBreaks, close, Up
    <3> QED  BY <2>6, <3>1 DEF LinkBreaks, close, callVars, SubscribeInv
  <2>7. CASE Broadcast \/ BroadcastOne \/ BroadcastEnds \/ Query \/ QueryOne \/ Merge
             \/ QueryEnds \/ OtherPublish
    <3>1. /\ UNCHANGED <<clients, up, opened>>
          /\ \/ pc # "subscribe" /\ pc' # "subscribe"
             \/ UNCHANGED <<pc, at, ret>>
          /\ ret' \in {"broadcast", "query", ret}
      BY <2>7 DEF Broadcast, BroadcastOne, BroadcastEnds, Query, QueryOne, Merge, QueryEnds,
         OtherPublish, Begin, Turn, Ends, setup, callVars
    <3> QED  BY <3>1 DEF SubscribeInv, Up
  <2>8. CASE UNCHANGED vars
    BY <2>8 DEF vars, callVars, SubscribeInv, Up
  <2> QED
    BY <2>1, <2>2, <2>3, <2>4, <2>5, <2>6, <2>7, <2>8 DEF Next, Done
<1> QED  BY <1>1, <1>2, SetupAlways, PTL DEF Spec

\* When subscribe fails, the REQ is with exactly the clients before one that is
\* down; when it succeeds, with all of them, in whatever order links break.
THEOREM SubscribeIsAllOrPrefix == Spec => []SubscribeAllOrPrefix
<1>1. SubscribeInv => SubscribeAllOrPrefix
  <2> SUFFICES ASSUME SubscribeInv PROVE SubscribeAllOrPrefix
    OBVIOUS
  <2> QED  BY DEF SubscribeInv, SubscribeAllOrPrefix
<1> QED  BY <1>1, SubscribeAlways, PTL

-----------------------------------------------------------------------------
(* query: what has been merged of what has arrived.                        *)

Asked == pc = "query" \/ (pc = "idle" /\ ret = "query")

\* One answer per client asked.
Counted ==
    /\ pc = "query" => Len(answers) = at - 1
    /\ pc = "idle" => Len(answers) = Len(clients) /\ rest = <<>>

\* seen is what out holds, each id once.
Once ==
    /\ seen = {out[j].id : j \in DOMAIN out}
    /\ \A j, k \in DOMAIN out : out[j].id = out[k].id => j = k

\* Earlier answers are merged, the last but for what rest holds of it; nothing
\* else is.
Merged ==
    /\ \A c \in DOMAIN answers : c < Len(answers) => Given(answers[c].ids) \subseteq seen
    /\ \A c \in DOMAIN answers : Given(answers[c].ids) \subseteq seen \cup Given(rest)
    /\ rest # <<>> => Given(rest) \subseteq Given(answers[Len(answers)].ids)
    /\ \A e \in seen : \E c \in DOMAIN answers : e \in Given(answers[c].ids)

\* An id in out is attributed to the first client that returned it.
FirstNamed ==
    /\ \A j \in DOMAIN out : out[j].from <= Len(answers)
    /\ \A j \in DOMAIN out : \A c \in DOMAIN answers :
         out[j].id \in Given(answers[c].ids) => out[j].from <= c

\* A complete answer has what its relay had accepted before.
Reads ==
    \A c \in DOMAIN outcomes :
        /\ outcomes[c].result = "accepted" /\ c \in DOMAIN answers /\ answers[c].complete
        => event \in Given(answers[c].ids)

QueryInv == Asked => Counted /\ Once /\ Merged /\ FirstNamed /\ Reads

LEMMA QueryAlways == Spec => []QueryInv
<1>1. Init => QueryInv
  BY DEF Init, QueryInv, Asked
<1>2. TypeOK /\ SetupInv /\ BroadcastInv /\ QueryInv /\ [Next]_vars => QueryInv'
  <2> SUFFICES ASSUME TypeOK, SetupInv, BroadcastInv, QueryInv, [Next]_vars
               PROVE  QueryInv'
    OBVIOUS
  <2> DEFINE A == [ok : BOOLEAN, complete : BOOLEAN, ids : Seq(Events)]
             O == [id : Events, from : DOMAIN clients]
  <2>0. /\ Len(clients) \in Nat /\ DOMAIN clients = 1..Len(clients) /\ at \in Nat \ {0}
        /\ answers \in Seq(A) /\ Len(answers) \in Nat /\ DOMAIN answers = 1..Len(answers)
        /\ out \in Seq(O) /\ Len(out) \in Nat /\ DOMAIN out = 1..Len(out)
        /\ rest \in Seq(Events)
        /\ pc = "query" => at <= Len(clients) + 1
        /\ \A c \in DOMAIN clients : clients[c] \in Relays
    BY DEF TypeOK
  <2> HIDE DEF A, O
  <2>7. \A j \in DOMAIN out : out[j].from \in Nat
    <3>1. ASSUME NEW j \in DOMAIN out PROVE out[j].from \in DOMAIN clients
      <4>1. out[j] \in O
        BY <2>0
      <4> QED  BY <4>1 DEF O
    <3> QED  BY <2>0, <3>1
  <2>1. CASE Query
    <3>1. /\ seen' = {} /\ rest' = <<>> /\ out' = <<>> /\ answers' = <<>>
          /\ pc' = "query" /\ at' = 1
      BY <2>1 DEF Query, Begin
    <3> QED  BY <3>1 DEF QueryInv, Counted, Once, Merged, FirstNamed, Reads
  <2>2. CASE QueryOne
    <3>1. PICK a \in Answers : /\ query(at, a) /\ answers' = Append(answers, a)
                               /\ rest' = a.ids
      BY <2>2 DEF QueryOne
    <3>2. /\ at \in DOMAIN clients /\ Len(answers) = at - 1 /\ rest = <<>> /\ at' = at + 1
          /\ UNCHANGED <<clients, pc, event, outcomes, seen, out>> /\ pc = "query"
          /\ Counted /\ Once /\ Merged /\ FirstNamed /\ Reads
      BY <2>0, <2>2 DEF QueryOne, Turn, setup, QueryInv, Asked, Counted
    <3>3. a \in A
      BY AnswerType DEF A
    <3>4. /\ Len(answers') = at /\ DOMAIN answers' = 1..at /\ answers'[at] = a
          /\ \A c \in DOMAIN answers : c \in 1..(at - 1) /\ answers'[c] = answers[c]
          /\ \A c \in DOMAIN answers' : c # at => c \in DOMAIN answers
      BY <2>0, <3>1, <3>2, <3>3, Appended
    <3>5. Given(rest) = {}
      BY <3>2 DEF Given
    <3>6. Counted' /\ Once'
      BY <3>2, <3>4 DEF Counted, Once
    <3>7. Merged'
      <4>1. \A c \in DOMAIN answers' : c < Len(answers') => Given(answers'[c].ids) \subseteq seen'
        BY <3>2, <3>4, <3>5 DEF Merged
      <4>2. \A c \in DOMAIN answers' : Given(answers'[c].ids) \subseteq seen' \cup Given(rest')
        BY <3>1, <3>2, <3>4, <3>5 DEF Merged
      <4>3. Given(rest') \subseteq Given(answers'[Len(answers')].ids)
        BY <3>1, <3>4
      <4>4. \A e \in seen' : \E c \in DOMAIN answers' : e \in Given(answers'[c].ids)
        BY <2>0, <3>2, <3>4 DEF Merged
      <4> QED  BY <4>1, <4>2, <4>3, <4>4 DEF Merged, Given
    <3>8. FirstNamed'
      <4>1. \A j \in DOMAIN out : out[j].from <= at
        BY <2>0, <2>7, <3>2 DEF FirstNamed
      <4>2. ASSUME NEW j \in DOMAIN out', NEW c \in DOMAIN answers',
                   out'[j].id \in Given(answers'[c].ids)
            PROVE  out'[j].from <= c
        BY <2>0, <3>2, <3>4, <4>1, <4>2 DEF FirstNamed
      <4> QED  BY <3>2, <3>4, <4>1, <4>2 DEF FirstNamed
    <3>9. Reads'
      <4>1. ASSUME NEW c \in DOMAIN outcomes, outcomes[c].result = "accepted",
                   c \in DOMAIN answers', answers'[c].complete
            PROVE  event \in Given(answers'[c].ids)
        <5>1. CASE c = at
          <6>1. a.complete /\ event \in stored[clients[at]]
            BY <3>4, <4>1, <5>1 DEF BroadcastInv
          <6> QED  BY <3>1, <3>4, <5>1, <6>1 DEF query, MayAnswer
        <5>2. CASE c # at
          BY <3>2, <3>4, <4>1, <5>2 DEF Reads
        <5> QED  BY <5>1, <5>2
      <4> QED  BY <3>2, <4>1 DEF Reads
    <3> QED  BY <3>6, <3>7, <3>8, <3>9 DEF QueryInv
  <2>3. CASE Merge
    <3> DEFINE e == Head(rest)
               x == [id |-> e, from |-> at - 1]
    <3> HIDE DEF x
    <3>1. /\ pc = "query" /\ rest # <<>> /\ rest' = Tail(rest)
          /\ UNCHANGED <<clients, pc, at, event, outcomes, answers>>
          /\ Counted /\ Once /\ Merged /\ FirstNamed /\ Reads
      BY <2>3 DEF Merge, setup, QueryInv, Asked
    <3>2. e \in Events /\ Given(rest) = {e} \cup Given(rest')
      BY <2>0, <3>1, Rested
    <3>3. /\ at - 1 = Len(answers) /\ at > 1 /\ at - 1 \in DOMAIN clients
          /\ Len(answers) \in DOMAIN answers
      BY <2>0, <3>1 DEF Counted, SetupInv
    <3>4. Counted' /\ Reads'
      BY <3>1 DEF Counted, Reads
    <3>5. /\ seen' = seen \cup {e}
          /\ Given(rest') \subseteq Given(answers[Len(answers)].ids)
          /\ e \in Given(answers[Len(answers)].ids)
      BY <2>3, <3>1, <3>2 DEF Merge, Insert, Merged
    <3> HIDE DEF e
    <3>6. Merged'
      <4>1. \A c \in DOMAIN answers : Given(answers[c].ids) \subseteq seen' \cup Given(rest')
        BY <3>1, <3>2, <3>5 DEF Merged
      <4>2. \A d \in seen' : \E c \in DOMAIN answers : d \in Given(answers[c].ids)
        BY <3>1, <3>3, <3>5 DEF Merged
      <4>3. \A c \in DOMAIN answers : c < Len(answers) => Given(answers[c].ids) \subseteq seen'
        BY <3>1, <3>5 DEF Merged
      <4> QED  BY <3>1, <3>5, <4>1, <4>2, <4>3 DEF Merged
    <3>7. CASE e \in seen
      <4>1. UNCHANGED <<seen, out>>
        BY <2>3, <3>7 DEF Merge, e
      <4>2. Once' /\ FirstNamed'
        BY <3>1, <4>1 DEF Once, FirstNamed
      <4> QED  BY <3>4, <3>6, <4>2 DEF QueryInv
    <3>8. CASE e \notin seen
      <4>1. out' = Append(out, x)
        BY <2>3, <3>8 DEF Merge, e, x
      <4>2. x \in O /\ x.id = e /\ x.from = Len(answers)
        BY <3>2, <3>3 DEF O, x
      <4>3. /\ DOMAIN out' = 1..(Len(out) + 1) /\ out'[Len(out) + 1] = x
            /\ \A j \in DOMAIN out : out'[j] = out[j] /\ j \in DOMAIN out'
            /\ \A j \in DOMAIN out' : j # Len(out) + 1 => j \in DOMAIN out
        BY <2>0, <4>1, <4>2, Appended
      <4>4. Once'
        <5>1. seen' = {out'[j].id : j \in DOMAIN out'}
          <6>1. ASSUME NEW d \in seen' PROVE \E j \in DOMAIN out' : d = out'[j].id
            <7>1. CASE d = e
              BY <2>0, <4>2, <4>3, <7>1
            <7>2. CASE d # e
              BY <3>1, <3>5, <4>3, <6>1, <7>2 DEF Once
            <7> QED  BY <7>1, <7>2
          <6>2. ASSUME NEW j \in DOMAIN out' PROVE out'[j].id \in seen'
            BY <3>1, <3>5, <4>2, <4>3 DEF Once
          <6> QED  BY <6>1, <6>2
        <5>2. \A j \in DOMAIN out : out[j].id # e
          BY <3>1, <3>8 DEF Once
        <5>3. \A j, k \in DOMAIN out' : out'[j].id = out'[k].id => j = k
          BY <3>1, <4>2, <4>3, <5>2 DEF Once
        <5> QED  BY <5>1, <5>3 DEF Once
      <4>5. FirstNamed'
        <5>1. \A c \in DOMAIN answers : e \in Given(answers[c].ids) => Len(answers) <= c
          BY <2>0, <3>1, <3>8 DEF Merged
        <5>2. ASSUME NEW j \in DOMAIN out'
              PROVE  /\ out'[j].from <= Len(answers)
                     /\ \A c \in DOMAIN answers :
                          out'[j].id \in Given(answers[c].ids) => out'[j].from <= c
          BY <2>0, <2>7, <3>1, <4>2, <4>3, <5>1, <5>2 DEF FirstNamed
        <5> QED  BY <3>1, <5>2 DEF FirstNamed
      <4> QED  BY <3>4, <3>6, <4>4, <4>5 DEF QueryInv
    <3> QED  BY <3>7, <3>8
  <2>4. CASE QueryEnds
    <3>1. /\ UNCHANGED <<clients, event, outcomes, seen, rest, out, answers>>
          /\ pc = "query" /\ at > Len(clients) /\ pc' = "idle" /\ rest = <<>>
      BY <2>4 DEF QueryEnds, Ends, setup
    <3>5. Counted /\ Once /\ Merged /\ FirstNamed /\ Reads
      BY <3>1 DEF QueryInv, Asked
    <3>6. Len(answers) = Len(clients)
      <4>1. Len(answers) = at - 1
        BY <3>1, <3>5 DEF Counted
      <4>2. at = Len(clients) + 1
        BY <2>0, <3>1
      <4> QED  BY <2>0, <4>1, <4>2
    <3>2. Counted'
      BY <3>1, <3>6 DEF Counted
    <3>3. Once' /\ FirstNamed' /\ Reads'
      BY <3>1, <3>5 DEF Once, FirstNamed, Reads
    <3>4. Merged'
      BY <3>1, <3>5 DEF Merged
    <3> QED  BY <3>2, <3>3, <3>4 DEF QueryInv
  <2>5. CASE ConnectFails \/ ConnectOk \/ Connected \/ Broadcast \/ BroadcastOne
             \/ BroadcastEnds \/ Subscribe \/ SubscribeOne \/ SubscribeFails
             \/ SubscribeEnds \/ close
    <3>1. pc' # "query" /\ (pc' = "idle" => ret' # "query")
      BY <2>5 DEF ConnectFails, ConnectOk, Connected, Broadcast, BroadcastOne, BroadcastEnds,
         Subscribe, SubscribeOne, SubscribeFails, SubscribeEnds, close, Begin, Turn, Ends,
         setup, callVars, SetupInv
    <3> QED  BY <3>1 DEF QueryInv, Asked
  <2>6. CASE LinkBreaks \/ OtherPublish \/ UNCHANGED vars
    <3>1. UNCHANGED <<clients, pc, at, event, outcomes, seen, rest, out, ret, answers>>
      BY <2>6 DEF LinkBreaks, OtherPublish, setup, callVars, vars
    <3> QED  BY <3>1 DEF QueryInv, Asked, Counted, Once, Merged, FirstNamed, Reads, Given
  <2> QED
    BY <2>1, <2>2, <2>3, <2>4, <2>5, <2>6 DEF Next, Done
<1> QED  BY <1>1, <1>2, SetupAlways, BroadcastAlways, PTL DEF Spec

\* query asks every client and returns the union of what arrived, each event once
\* and as its first sender gave it, however many clients fail or repeat events.
THEOREM QueryIsUnion == Spec => []QueryUnion
<1>1. TypeOK /\ QueryInv => QueryUnion
  <2> SUFFICES ASSUME TypeOK, QueryInv, pc = "idle", ret = "query" PROVE QueryUnion
    BY DEF QueryUnion
  <2>1. Counted /\ Once /\ Merged /\ FirstNamed
    BY DEF QueryInv, Asked
  <2>2. Given(rest) = {}
    BY <2>1 DEF Counted, Given
  <2>3. seen = UNION {Given(answers[c].ids) : c \in DOMAIN answers}
    BY <2>1, <2>2 DEF Merged
  <2> QED  BY <2>1, <2>3 DEF QueryUnion, Counted, Once, FirstNamed
<1> QED  BY <1>1, SetupAlways, QueryAlways, PTL

\* An event that one relay accepted in a broadcast is in the next merged answer if
\* that relay's answer is complete, whatever the other relays do.
THEOREM WritesAreRead == Spec => []ReadYourWrites
<1>1. TypeOK /\ QueryInv => ReadYourWrites
  <2> SUFFICES ASSUME TypeOK, QueryInv, pc = "idle", ret = "query",
                      NEW c \in DOMAIN outcomes, outcomes[c].result = "accepted",
                      c \in DOMAIN answers, answers[c].complete
               PROVE  \E j \in DOMAIN out : out[j].id = event
    BY DEF ReadYourWrites
  <2>1. Counted /\ Once /\ Merged /\ Reads
    BY DEF QueryInv, Asked
  <2>2. Given(rest) = {}
    BY <2>1 DEF Counted, Given
  <2>3. event \in seen
    BY <2>1, <2>2 DEF Merged, Reads
  <2> QED  BY <2>1, <2>3 DEF Once
<1> QED  BY <1>1, SetupAlways, QueryAlways, PTL
=============================================================================
