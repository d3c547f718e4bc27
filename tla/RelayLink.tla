----------------------------- MODULE RelayLink -----------------------------
(***************************************************************************)
(* One relay connection as the client of src/src/client/mod.rs meets it:   *)
(* two ordered streams of text frames that may break, and a NIP-01/NIP-42  *)
(* relay at the far end.  The relay is not in this repository; it is       *)
(* modelled from what the client sends it and expects back.                *)
(*                                                                         *)
(* A frame is a record.  sub and id are the subscription id and the event  *)
(* id it names; ok is the acceptance flag of an OK; n is the number of a   *)
(* NIP-42 challenge.  A field the wire frame lacks holds the default the   *)
(* parser gives it: NoSub and NoId for "", FALSE for a missing flag.       *)
(* In EVENT and REQ frames that the client sends a second time, n is the   *)
(* challenge that made it do so; call is a history field: the number of    *)
(* the publish or query call the frame belongs to (0 for a subscription    *)
(* opened by subscribe).  Neither the client nor the relay reads call.     *)
(***************************************************************************)
EXTENDS Naturals, Sequences

CONSTANTS
    Own,            \* ids of the events this client publishes
    Others,         \* ids of the events that reach the relay otherwise
    Forged,         \* those whose id or signature does not verify
    Refused,        \* events the relay's policy rejects
    AuthId,         \* id of the kind-22242 event that answers a challenge
    NoId,           \* the empty id, and the "id" of an undecodable event
    NoSub,          \* the empty subscription id
    CallerSubs,     \* subscription ids the caller passes to subscribe
    AuthRequired,   \* may the relay refuse clients that are not authenticated?
    MaxCalls,       \* bound: publish and query calls of a behaviour
    MaxChallenges,  \* bound: AUTH challenges of a behaviour
    ChanCap         \* bound: frames in transit in one direction

Events == Own \cup Others

\* Slip: every query names its subscription alike.
Reused_QuerySub(n) == <<"q", 1>>

\* The id format!("q{}", n) that query gives its n-th subscription.
QuerySub(n) == <<"q", n>>

QuerySubs == {QuerySub(n) : n \in 1..MaxCalls}
SubId     == QuerySubs \cup CallerSubs

ASSUME LinkAssumption ==
    /\ Own \cap Others = {} /\ Forged \subseteq Others /\ Refused \subseteq Own
    /\ NoId \notin Events \cup {AuthId} /\ AuthId \notin Events
    /\ NoSub \notin SubId
    /\ AuthRequired \in BOOLEAN
    /\ MaxCalls \in Nat /\ MaxChallenges \in Nat /\ ChanCap \in Nat

VARIABLES
    up,        \* is the connection alive?
    toRelay,   \* frames on their way to the relay
    toClient,  \* frames on their way to the client
    stored,    \* relay: events in its store
    subs,      \* relay: state of every subscription id
    issued,    \* relay: challenges sent so far
    answered,  \* relay: challenges answered with a valid AUTH event
    chatty     \* relay: does it (still) send frames nobody asked for?

linkVars  == <<up, toRelay, toClient>>
relayVars == <<stored, subs, issued, answered, chatty>>

UpTypes   == {"EVENT", "REQ", "CLOSE", "AUTH"}
DownTypes == {"EVENT", "EOSE", "OK", "CLOSED", "NOTICE", "AUTH"}

Frame(t, s, i, b, k, c) ==
    [typ |-> t, sub |-> s, id |-> i, ok |-> b, n |-> k, call |-> c]

FrameSet(types) ==
    [typ : types, sub : SubId \cup {NoSub}, id : Events \cup {AuthId, NoId},
     ok : BOOLEAN, n : Nat, call : Nat]

\* What each side may write: an EVENT upwards names an event, a REQ or CLOSE a
\* subscription; an EVENT downwards never carries an AUTH event.
UpFrames ==
    {f \in FrameSet(UpTypes) : /\ f.typ = "EVENT" => f.id \in Events
                               /\ f.typ \in {"REQ", "CLOSE"} => f.sub \in SubId}
DownFrames ==
    {f \in FrameSet(DownTypes \cup {"JUNK"}) : f.typ = "EVENT" => f.id # AuthId}

Closed == [open |-> FALSE, todo |-> {}, eosed |-> FALSE, call |-> 0]
SubStates ==
    [open : BOOLEAN, todo : SUBSET Events, eosed : BOOLEAN, call : Nat]

\* Subscription state u when the events in T are still to be sent.
Owing(u, T, b) == [open |-> u.open, todo |-> T, eosed |-> b, call |-> u.call]

LinkTypeOK ==
    /\ up \in BOOLEAN
    /\ toRelay \in Seq(UpFrames)
    /\ toClient \in Seq(DownFrames)
    /\ stored \subseteq Events
    /\ subs \in [SubId -> SubStates]
    /\ issued \in Nat /\ answered \subseteq Nat
    /\ chatty \in BOOLEAN

LinkInit ==
    /\ up = TRUE /\ toRelay = <<>> /\ toClient = <<>>
    /\ stored = {} /\ subs = [s \in SubId |-> Closed]
    /\ issued = 0 /\ answered = {} /\ chatty = TRUE

-----------------------------------------------------------------------------
(* The relay.  It reads the frames in order and writes one frame at a      *)
(* time; a stored event is owed to every open subscription.                *)

Reply(f) == Len(toClient) < ChanCap /\ toClient' = Append(toClient, f)

Reads(t) ==
    /\ up /\ toRelay # <<>> /\ Head(toRelay).typ = t
    /\ toRelay' = Tail(toRelay)

Store(e) ==
    /\ stored' = stored \cup {e}
    /\ subs' = [s \in SubId |->
                  IF subs[s].open /\ e \notin stored
                  THEN Owing(subs[s], subs[s].todo \cup {e}, subs[s].eosed)
                  ELSE subs[s]]

\* Is the client admitted?  Before it has authenticated, that is the policy of
\* the relay for each event and filter.
Admitted == IF AuthRequired /\ answered = {} THEN BOOLEAN ELSE {TRUE}

\* EVENT: stored and acknowledged, or refused; a duplicate is acknowledged.
ReceiveEvent(admitted) ==
    /\ Reads("EVENT")
    /\ LET f  == Head(toRelay)
           ok == f.id \in stored \/ (admitted /\ f.id \notin Refused)
       IN  /\ Reply(Frame("OK", NoSub, f.id, ok, 0, f.call))
           /\ IF ok THEN Store(f.id) ELSE UNCHANGED <<stored, subs>>
    /\ UNCHANGED <<up, issued, answered, chatty>>

\* REQ: opens or replaces the subscription, or is refused with CLOSED.
ReceiveReq(admitted) ==
    /\ Reads("REQ")
    /\ LET f == Head(toRelay) IN
         IF admitted
         THEN /\ subs' = [subs EXCEPT ![f.sub] =
                   [open |-> TRUE, todo |-> stored, eosed |-> FALSE, call |-> f.call]]
              /\ UNCHANGED toClient
         ELSE /\ subs' = [subs EXCEPT ![f.sub] = Closed]
              /\ Reply(Frame("CLOSED", f.sub, NoId, FALSE, f.n, f.call))
    /\ UNCHANGED <<up, stored, issued, answered, chatty>>

RelayEvent == \E admitted \in Admitted : ReceiveEvent(admitted)
RelayReq   == \E admitted \in Admitted : ReceiveReq(admitted)

RelayClose ==
    /\ Reads("CLOSE")
    /\ subs' = [subs EXCEPT ![Head(toRelay).sub] = Closed]
    /\ UNCHANGED <<up, toClient, stored, issued, answered, chatty>>

\* AUTH: a signed answer to a challenge of this connection is acknowledged.
RelayAuth ==
    /\ Reads("AUTH")
    /\ answered' = answered \cup {Head(toRelay).n}
    /\ Reply(Frame("OK", NoSub, AuthId, TRUE, 0, 0))
    /\ UNCHANGED <<up, stored, subs, issued, chatty>>

\* The next event owed to an open subscription, then EOSE.
RelayServe ==
    /\ up
    /\ \E s \in SubId :
         /\ subs[s].open
         /\ \/ \E e \in subs[s].todo :
                 /\ Reply(Frame("EVENT", s, e, FALSE, 0, subs[s].call))
                 /\ subs' = [subs EXCEPT ![s] = Owing(@, @.todo \ {e}, @.eosed)]
            \/ /\ subs[s].todo = {} /\ ~subs[s].eosed
               /\ Reply(Frame("EOSE", s, NoId, FALSE, 0, subs[s].call))
               /\ subs' = [subs EXCEPT ![s] = Owing(@, {}, TRUE)]
    /\ UNCHANGED <<up, toRelay, stored, issued, answered, chatty>>

\* The relay ends a subscription of its own accord.
RelayDropsSub ==
    /\ up
    /\ \E s \in SubId :
         /\ subs[s].open
         /\ Reply(Frame("CLOSED", s, NoId, FALSE, 0, subs[s].call))
         /\ subs' = [subs EXCEPT ![s] = Closed]
    /\ UNCHANGED <<up, toRelay, stored, issued, answered, chatty>>

\* A NIP-42 challenge; it may silently drop the subscriptions made before.
RelayChallenge ==
    /\ up /\ issued < MaxChallenges
    /\ issued' = issued + 1
    /\ Reply(Frame("AUTH", NoSub, NoId, FALSE, issued', 0))
    /\ \/ subs' = [s \in SubId |-> Closed]
       \/ UNCHANGED subs
    /\ UNCHANGED <<up, toRelay, stored, answered, chatty>>

\* Frames nobody asked for: a notice, text that is no relay message, an event
\* that does not decode, an EOSE without a subscription, an OK without an id.
Strays == {Frame(t, NoSub, NoId, FALSE, 0, 0) : t \in {"NOTICE", "JUNK", "EVENT", "EOSE", "OK"}}

RelayStray ==
    /\ up /\ chatty
    /\ \E f \in Strays : Reply(f)
    /\ UNCHANGED <<up, toRelay, stored, subs, issued, answered, chatty>>

RelayQuiet ==
    /\ chatty /\ chatty' = FALSE
    /\ UNCHANGED <<linkVars, stored, subs, issued, answered>>

\* Another client of the relay publishes.
OtherPublish ==
    /\ \E e \in Others \ stored : Store(e)
    /\ UNCHANGED <<linkVars, issued, answered, chatty>>

\* The connection breaks: what has not arrived is lost.
Disconnect ==
    /\ up /\ up' = FALSE
    /\ toRelay' = <<>>
    /\ \E k \in 0..Len(toClient) : toClient' = SubSeq(toClient, 1, k)
    /\ UNCHANGED relayVars

RelayStep ==
    \/ RelayEvent \/ RelayReq \/ RelayClose \/ RelayAuth \/ RelayServe
    \/ RelayDropsSub \/ RelayChallenge \/ RelayStray \/ RelayQuiet
    \/ OtherPublish \/ Disconnect
=============================================================================
