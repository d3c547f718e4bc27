---------------------------- MODULE RelayClient ----------------------------
(***************************************************************************)
(* RelayClient of src/src/client/mod.rs: one connection, one signer, and   *)
(* the blocking operations publish, query, subscribe, unsubscribe, poll,   *)
(* poll_event and close that a single owner (&mut self) calls in turn.     *)
(*                                                                         *)
(* A call sends its first frame and then loops over recv_msg.  One step is *)
(* one iteration of the loop, with the AUTH answer recv_msg sends on the   *)
(* way; the frame sent again after a challenge is a step of its own, so    *)
(* the relay and the network may act between the two sends.  Time is left  *)
(* out: a receive may time out whether or not a frame is under way.        *)
(***************************************************************************)
EXTENDS RelayLink

CONSTANTS
    Ops,         \* the operations the caller of this instance uses
    RecvLimit    \* receives of one publish call (64 in the code)

Operations ==
    {"publish", "query", "subscribe", "unsubscribe", "poll", "poll_event"}

ASSUME ClientAssumption ==
    /\ Ops \subseteq Operations
    /\ RecvLimit \in Nat \ {0}

VARIABLES
    pc,         \* where the current call is; "idle" between calls
    next_sub,   \* number of queries made so far
    id,         \* publish: the event being published
    resent,     \* publish: has the event been sent a second time?
    left,       \* publish: receives left
    events,     \* query: the events collected, in order
    ret         \* what the last call returned

VARIABLES       \* history, read by no guard
    calls,      \* publish and query calls made (bounded by MaxCalls)
    chal,       \* last challenge answered during the current call, or 0
    snap,       \* relay store when the current query was made
    listening,  \* caller subscriptions that subscribe opened
    notified,   \* those of them the caller was told to renew
    abandoned   \* query subscriptions left behind by a failed query

callVars    == <<pc, next_sub, id, resent, left, events, ret>>
historyVars == <<calls, chal, snap, listening, notified, abandoned>>
clientVars  == <<callVars, historyVars>>
vars        == <<linkVars, relayVars, clientVars>>

Outcomes == {"accepted", "rejected", "timeout", "no_ok", "error",
             "eose", "closed", "idle", "none", "frame", "ok"}
Returns  == [op : Operations \cup {"new"}, out : Outcomes, id : Events \cup {AuthId, NoId}]
Result(o, out, i) == [op |-> o, out |-> out, id |-> i]

TypeOK ==
    /\ LinkTypeOK
    /\ pc \in {"idle", "publish", "resend", "query", "rearm", "closed"}
    /\ next_sub \in Nat /\ next_sub <= calls /\ calls \in 0..MaxCalls
    /\ pc \in {"query", "rearm"} => next_sub > 0
    /\ id \in Own \cup {NoId}
    /\ pc \in {"publish", "resend"} => id \in Own
    /\ resent \in BOOLEAN /\ left \in 0..RecvLimit
    /\ events \in Seq([id : Events, call : Nat])
    /\ ret \in Returns
    /\ chal \in Nat /\ snap \subseteq Events
    /\ listening \subseteq CallerSubs /\ notified \subseteq CallerSubs
    /\ abandoned \subseteq QuerySubs

Init ==
    /\ LinkInit
    /\ pc = "idle" /\ next_sub = 0 /\ id = NoId /\ resent = FALSE /\ left = 0
    /\ events = <<>> /\ ret = Result("new", "ok", NoId)
    /\ calls = 0 /\ chal = 0 /\ snap = {}
    /\ listening = {} /\ notified = {} /\ abandoned = {}

-----------------------------------------------------------------------------
(* Frames.                                                                 *)

\* Slip: AUTH is not among the message types the parser knows.
NoAuth_parse(w) ==
    IF w.typ \notin DownTypes \ {"AUTH"} \/ (w.typ = "EVENT" /\ w.id = NoId)
    THEN Frame("OTHER", NoSub, NoId, FALSE, 0, 0) ELSE w

\* Anything that is no NIP-01 relay message, an EVENT whose event does not
\* decode included, becomes Other; it is never an error.
parse_relay_message(w) ==
    IF w.typ \notin DownTypes \/ (w.typ = "EVENT" /\ w.id = NoId)
    THEN Frame("OTHER", NoSub, NoId, FALSE, 0, 0) ELSE w

Msg == parse_relay_message(Head(toClient))

\* Slip: id and signature are taken on trust.
Trusting_verify(e) == TRUE

\* Event::verify of a received event.
verify(e) == e \notin Forged

sub_id == QuerySub(next_sub)

\* send_frame: on a broken connection it fails, or the bytes are lost unseen.
Sends(f)  == toRelay' = IF up THEN Append(toRelay, f) ELSE toRelay
SendFails == ~up /\ UNCHANGED toRelay
Room      == Len(toRelay) < ChanCap

EventFrame(e, k, c) == Frame("EVENT", NoSub, e, FALSE, k, c)
ReqFrame(s, k, c)   == Frame("REQ", s, NoId, FALSE, k, c)
CloseFrame(s)       == Frame("CLOSE", s, NoId, FALSE, 0, 0)
AuthFrame(k)        == Frame("AUTH", NoSub, AuthId, FALSE, k, 0)

-----------------------------------------------------------------------------
(* recv_msg: a message, no message in time, or an error.                   *)

\* Slip: the challenge is taken note of and not answered.
Silent_answer_auth(k) == UNCHANGED toRelay

answer_auth(k) == Sends(AuthFrame(k))

RecvSome ==
    /\ toClient # <<>> /\ toClient' = Tail(toClient)
    /\ IF Msg.typ = "AUTH"
       THEN answer_auth(Msg.n) /\ chal' = Msg.n
       ELSE UNCHANGED <<toRelay, chal>>

RecvNone == UNCHANGED <<toRelay, toClient, chal>>

\* The stream has ended, or the challenge read cannot be signed or answered.
RecvErr ==
    /\ \/ ~up /\ toClient = <<>> /\ UNCHANGED toClient
       \/ toClient # <<>> /\ Msg.typ = "AUTH" /\ toClient' = Tail(toClient)
    /\ UNCHANGED <<toRelay, chal>>

\* The call returns.  An Err other than publish's own timeouts tells the
\* caller that the connection, and so every subscription on it, is in doubt.
Return(o, out, i) ==
    /\ pc' = "idle" /\ ret' = Result(o, out, i)
    /\ notified' = IF out = "error" THEN listening ELSE notified

-----------------------------------------------------------------------------
(* publish                                                                 *)

Publish ==
    /\ pc = "idle" /\ "publish" \in Ops /\ calls < MaxCalls /\ Room
    /\ calls' = calls + 1 /\ chal' = 0
    /\ \E e \in Own :
         \/ /\ Sends(EventFrame(e, 0, calls'))
            /\ pc' = "publish" /\ id' = e /\ resent' = FALSE /\ left' = RecvLimit
            /\ UNCHANGED <<ret, notified>>
         \/ SendFails /\ Return("publish", "error", e) /\ UNCHANGED <<id, resent, left>>
    /\ UNCHANGED <<up, toClient, relayVars, next_sub, events, snap, listening, abandoned>>

\* What no iteration of the publish loop touches.
PublishFrame ==
    UNCHANGED <<up, relayVars, next_sub, id, events, calls, snap, listening, abandoned>>

\* Slip: the limit on receives is one short of being enforced.
OffByOne_Iteration == pc = "publish" /\ left' = left - 1

\* Slip: the limit on receives is not counted down.
Endless_Iteration == pc = "publish" /\ left > 0 /\ left' = left

Iteration == pc = "publish" /\ left > 0 /\ left' = left - 1

\* Slip: the first OK that comes by is taken for the answer.
AnyOk == Msg.typ = "OK"

MyOk == Msg.typ = "OK" /\ Msg.id = id

PublishOk ==
    /\ Iteration /\ RecvSome /\ MyOk
    /\ Return("publish", IF Msg.ok THEN "accepted" ELSE "rejected", id)
    /\ UNCHANGED resent /\ PublishFrame

PublishAuth ==
    /\ Iteration /\ RecvSome /\ Msg.typ = "AUTH" /\ ~resent
    /\ pc' = "resend" /\ resent' = TRUE
    /\ UNCHANGED <<ret, notified>> /\ PublishFrame

PublishResend ==
    /\ pc = "resend"
    /\ \/ /\ Sends(EventFrame(id, chal, calls))
          /\ pc' = "publish" /\ UNCHANGED <<ret, notified>>
       \/ SendFails /\ Return("publish", "error", id)
    /\ UNCHANGED <<toClient, chal, resent, left>> /\ PublishFrame

PublishSkip ==
    /\ Iteration /\ RecvSome /\ ~MyOk /\ ~(Msg.typ = "AUTH" /\ ~resent)
    /\ UNCHANGED <<pc, ret, notified, resent>> /\ PublishFrame

PublishTimeout ==
    /\ Iteration /\ RecvNone /\ Return("publish", "timeout", id)
    /\ UNCHANGED resent /\ PublishFrame

PublishError ==
    /\ Iteration /\ RecvErr /\ Return("publish", "error", id)
    /\ UNCHANGED resent /\ PublishFrame

GiveUp ==
    /\ pc = "publish" /\ left = 0 /\ RecvNone /\ Return("publish", "no_ok", id)
    /\ UNCHANGED <<resent, left>> /\ PublishFrame

PublishStep ==
    \/ PublishOk \/ PublishAuth \/ PublishResend \/ PublishSkip
    \/ PublishTimeout \/ PublishError \/ GiveUp

-----------------------------------------------------------------------------
(* query: with the filter that selects every event.                        *)

Query ==
    /\ pc = "idle" /\ "query" \in Ops /\ calls < MaxCalls /\ Room
    /\ calls' = calls + 1 /\ chal' = 0 /\ next_sub' = next_sub + 1
    /\ \/ /\ Sends(ReqFrame(sub_id', 0, calls'))
          /\ pc' = "query" /\ events' = <<>> /\ snap' = stored
          /\ UNCHANGED <<ret, notified, abandoned>>
       \/ /\ SendFails /\ Return("query", "error", NoId)
          /\ abandoned' = abandoned \cup {sub_id'}
          /\ UNCHANGED <<events, snap>>
    /\ UNCHANGED <<up, toClient, relayVars, id, resent, left, listening>>

\* What no iteration of the query loop touches.
QueryFrame ==
    UNCHANGED <<up, relayVars, next_sub, id, resent, left, calls, snap, listening>>

QueryEvent ==
    /\ pc = "query" /\ RecvSome /\ Msg.typ = "EVENT" /\ Msg.sub = sub_id
    /\ events' = IF verify(Msg.id)
                 THEN Append(events, [id |-> Msg.id, call |-> Msg.call])
                 ELSE events
    /\ UNCHANGED <<pc, ret, notified, abandoned>> /\ QueryFrame

\* Slip: the subscription is left open at the relay.
NoClose_Finish(out) ==
    /\ UNCHANGED toRelay /\ Return("query", out, NoId)
    /\ UNCHANGED <<events, chal, abandoned>> /\ QueryFrame

\* The loop is left: CLOSE is sent, whether that fails or not.
Finish(out) ==
    /\ Sends(CloseFrame(sub_id)) /\ Return("query", out, NoId)
    /\ UNCHANGED <<events, chal, abandoned>> /\ QueryFrame

\* Slip: the EOSE of any subscription ends the query.
AnyEose == Msg.typ = "EOSE"

MyEose == Msg.typ = "EOSE" /\ Msg.sub = sub_id

MyClosed == Msg.typ = "CLOSED" /\ Msg.sub = sub_id

QueryDone ==
    /\ pc = "query" /\ toClient # <<>> /\ toClient' = Tail(toClient)
    /\ \/ MyEose /\ Finish("eose")
       \/ MyClosed /\ Finish("closed")

\* Slip: an idle timeout goes back to waiting.
Waiting_QueryIdle == pc = "query" /\ UNCHANGED vars

QueryIdle == pc = "query" /\ UNCHANGED toClient /\ Finish("idle")

QueryAuth ==
    /\ pc = "query" /\ RecvSome /\ Msg.typ = "AUTH"
    /\ pc' = "rearm"
    /\ UNCHANGED <<events, ret, notified, abandoned>> /\ QueryFrame

\* An Err leaves the loop by `?`: no CLOSE is sent.
QueryFails ==
    /\ Return("query", "error", NoId)
    /\ abandoned' = abandoned \cup {sub_id}
    /\ UNCHANGED events

QueryRearm ==
    /\ pc = "rearm"
    /\ \/ /\ Sends(ReqFrame(sub_id, chal, calls))
          /\ pc' = "query" /\ UNCHANGED <<events, ret, notified, abandoned>>
       \/ SendFails /\ QueryFails
    /\ UNCHANGED <<toClient, chal>> /\ QueryFrame

QuerySkip ==
    /\ pc = "query" /\ RecvSome /\ Msg.typ # "AUTH"
    /\ ~MyEose /\ ~MyClosed /\ ~(Msg.typ = "EVENT" /\ Msg.sub = sub_id)
    /\ UNCHANGED <<pc, events, ret, notified, abandoned>> /\ QueryFrame

QueryError == pc = "query" /\ RecvErr /\ QueryFails /\ QueryFrame

QueryStep ==
    \/ QueryEvent \/ QueryDone \/ QueryIdle \/ QueryAuth \/ QueryRearm
    \/ QuerySkip \/ QueryError

-----------------------------------------------------------------------------
(* Long-lived subscriptions: subscribe, unsubscribe, poll, poll_event.     *)

ListenFrame ==
    UNCHANGED <<up, relayVars, next_sub, id, resent, left, events, calls, snap, abandoned>>

subscribe(s) ==
    /\ pc = "idle" /\ "subscribe" \in Ops /\ Room
    /\ \/ /\ Sends(ReqFrame(s, 0, 0))
          /\ listening' = listening \cup {s} /\ notified' = notified \ {s}
          /\ ret' = Result("subscribe", "ok", NoId) /\ UNCHANGED pc
       \/ SendFails /\ Return("subscribe", "error", NoId) /\ UNCHANGED listening
    /\ UNCHANGED <<toClient, chal>> /\ ListenFrame

unsubscribe(s) ==
    /\ pc = "idle" /\ "unsubscribe" \in Ops /\ s \in listening /\ Room
    /\ \/ /\ Sends(CloseFrame(s))
          /\ listening' = listening \ {s} /\ notified' = notified \ {s}
          /\ ret' = Result("unsubscribe", "ok", NoId) /\ UNCHANGED pc
       \/ SendFails /\ Return("unsubscribe", "error", NoId) /\ UNCHANGED listening
    /\ UNCHANGED <<toClient, chal>> /\ ListenFrame

\* Receives one message, with room kept for the answer to a challenge.
poll ==
    /\ pc = "idle" /\ "poll" \in Ops /\ Room
    /\ \/ /\ RecvSome /\ ret' = Result("poll", "frame", Msg.id)
          /\ notified' = CASE Msg.typ = "AUTH"   -> listening
                           [] Msg.typ = "CLOSED" -> notified \cup ({Msg.sub} \cap listening)
                           [] OTHER              -> notified
          /\ UNCHANGED pc
       \/ RecvNone /\ Return("poll", "none", NoId)
       \/ RecvErr  /\ Return("poll", "error", NoId)
    /\ UNCHANGED listening /\ ListenFrame

\* None stands for a timeout and for every frame but a verified EVENT.
poll_event ==
    /\ pc = "idle" /\ "poll_event" \in Ops /\ Room
    /\ \/ /\ RecvSome
          /\ IF Msg.typ = "EVENT" /\ verify(Msg.id)
             THEN Return("poll_event", "frame", Msg.id)
             ELSE Return("poll_event", "none", NoId)
       \/ RecvNone /\ Return("poll_event", "none", NoId)
       \/ RecvErr  /\ Return("poll_event", "error", NoId)
    /\ UNCHANGED listening /\ ListenFrame

\* close consumes the client; the connection goes down some time later.
close ==
    /\ pc = "idle" /\ pc' = "closed"
    /\ UNCHANGED <<linkVars, relayVars, next_sub, id, resent, left, events, ret, historyVars>>

-----------------------------------------------------------------------------

CallerStep ==
    \/ Publish \/ Query \/ poll \/ poll_event \/ close
    \/ \E s \in CallerSubs : subscribe(s) \/ unsubscribe(s)

\* One step of a call in progress: the code keeps running.
LoopStep == PublishStep \/ QueryStep

Done == pc = "closed" /\ UNCHANGED vars

Next ==
    \/ CallerStep
    \/ LoopStep
    \/ RelayStep /\ UNCHANGED clientVars
    \/ Done

Spec == Init /\ [][Next]_vars

\* A call in progress is a thread that keeps running; neither the caller, the
\* relay nor the network is obliged to do anything.
FairSpec == Spec /\ WF_vars(LoopStep)

-----------------------------------------------------------------------------
(* What a query returns.                                                   *)

InQuery  == pc \in {"query", "rearm"}
Answered == pc = "idle" /\ ret.op = "query" /\ ret.out # "error"
Got      == {events[i].id : i \in DOMAIN events}

\* What the caller must see to: no subscription of its own named like a query's.
DistinctIds == CallerSubs \cap QuerySubs = {}

\* Every event a query collects was sent by the relay for that very query:
\* frames of an earlier one, still under way when it had been given up, are
\* never taken for its answer (the fresh id "q<n>" per query).
QueryFresh ==
    InQuery \/ Answered => \A i \in DOMAIN events : events[i].call = calls

\* A query that ended with its EOSE returns every valid event the relay held
\* when the query was made and nothing the relay never held or that does not
\* verify, whatever challenges, stray frames and re-subscriptions came between.
QueryExact ==
    Answered /\ ret.out = "eose" => /\ snap \ Forged \subseteq Got
                                    /\ Got \subseteq stored \ Forged

\* Without a challenge in the middle, no event is returned twice.
NoDuplicates ==
    (InQuery \/ Answered) /\ chal = 0 =>
        \A i, j \in DOMAIN events : events[i].id = events[j].id => i = j

-----------------------------------------------------------------------------
(* What publish returns, and what follows an answered challenge.           *)

\* An event publish reports as accepted is in the relay's store, although
\* OKs for AUTH events, for other events and for nothing arrive meanwhile.
AcceptedIsStored ==
    ret.op = "publish" /\ ret.out = "accepted" => ret.id \in stored

\* When the relay comes to read a frame that was sent again because of a
\* challenge, it has already read the answer to that challenge.
ReplayAfterAuth ==
    toRelay # <<>> => LET f == Head(toRelay) IN
        f.typ \in {"EVENT", "REQ"} /\ f.n # 0 => f.n \in answered

\* publish answers a challenge and re-sends once "if the relay demands auth
\* first": an event whose publication it reports as rejected stays rejected.
RejectedNotStored ==
    ret.op = "publish" /\ ret.out = "rejected" => ret.id \notin stored

-----------------------------------------------------------------------------
(* Subscriptions at the relay and what the client knows of them.           *)

\* What the frames under way will leave subscription s as, else what it is.
Pending(s)  == {i \in DOMAIN toRelay : toRelay[i].sub = s}
LastWord(s) ==
    IF Pending(s) = {} THEN IF subs[s].open THEN "REQ" ELSE "CLOSE"
    ELSE toRelay[CHOOSE i \in Pending(s) : \A j \in Pending(s) : j <= i].typ

\* No query leaves its subscription open at the relay, except one that failed.
SubsAccounted ==
    up => \A n \in 1..next_sub :
        \/ InQuery /\ n = next_sub
        \/ QuerySub(n) \in abandoned
        \/ LastWord(QuerySub(n)) = "CLOSE"

\* A caller is never listening in vain: a subscription it opened is open at
\* the relay or will be, unless the caller was told to renew it, or is about
\* to be told by a frame under way, or the connection is gone.
ListenerNotDeaf ==
    up => \A s \in listening \ notified :
        \/ LastWord(s) = "REQ"
        \/ \E i \in DOMAIN toClient :
             \/ toClient[i].typ = "AUTH"
             \/ toClient[i].typ = "CLOSED" /\ toClient[i].sub = s

-----------------------------------------------------------------------------
(* Calls return.                                                           *)

\* publish returns even if the relay never stops sending other frames.
PublishReturns == pc \in {"publish", "resend"} ~> pc \in {"idle", "closed"}

\* query returns once the relay sends only what it owes.
QueryReturns == InQuery /\ ~chatty ~> pc \in {"idle", "closed"}
=============================================================================
