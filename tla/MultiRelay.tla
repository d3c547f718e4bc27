----------------------------- MODULE MultiRelay -----------------------------
(***************************************************************************)
(* MultiRelayClient of src/src/client/multi.rs: the same publish, query or *)
(* subscribe on several relays, one after another.                         *)
(*                                                                         *)
(* Each relay is reached through a RelayClient, seen here as its caller    *)
(* sees it: publish and query are one step that returns what RelayPromises *)
(* allows, and RelayClient is shown to keep those promises.  During and    *)
(* between the steps of one call links break and other clients publish.    *)
(***************************************************************************)
EXTENDS Naturals, Sequences, FiniteSets, RelayPromises

CONSTANTS
    Relays,      \* relay URLs
    Events,      \* event ids (valid events only)
    MaxUrls,     \* bound: URLs given to connect
    MaxAnswer,   \* bound: events in one relay's answer
    MaxOps       \* bound: broadcast, query and subscribe calls

ASSUME MultiAssumption == MaxUrls \in Nat /\ MaxAnswer \in Nat /\ MaxOps \in Nat

VARIABLES
    urls,       \* what connect was given
    clients,    \* URL of every client, in order
    errors,     \* URLs that connect reports as failed
    up,         \* is the client's link alive?
    stored,     \* relay -> events in its store
    pc,         \* "connect", "idle", "broadcast", "query", "subscribe", "closed"
    at,         \* index of the URL or client whose turn it is
    event,      \* broadcast: the event, or NoEvent
    outcomes,   \* broadcast: one PublishOutcome per client so far
    seen,       \* query: ids already in out
    rest,       \* query: events of the current client's answer not yet merged
    out,        \* query: the merged answer
    ret         \* what the last call returned

VARIABLES       \* history
    ops,        \* calls made (bounded by MaxOps)
    answers,    \* query: what each client answered
    opened      \* clients that the last subscribe sent its REQ to

callVars == <<event, outcomes, seen, rest, out, ret, ops, answers, opened>>
vars     == <<urls, clients, errors, up, stored, pc, at, callVars>>

NoEvent == "none"

Results    == {"accepted", "rejected", "error"}
Answer(o, c, s) == [ok |-> o, complete |-> c, ids |-> s]
Given(s)   == {s[j] : j \in DOMAIN s}
Up(c)      == up[c]
Grows(r, new) == stored' = [stored EXCEPT ![r] = @ \cup new]

TypeOK ==
    /\ urls \in Seq(Relays) /\ clients \in Seq(Relays) /\ errors \in Seq(Relays)
    /\ up \in [DOMAIN clients -> BOOLEAN]
    /\ stored \in [Relays -> SUBSET Events]
    /\ pc \in {"connect", "idle", "broadcast", "query", "subscribe", "closed"}
    /\ at \in 1..(Len(urls) + 1)
    /\ pc \in {"broadcast", "query", "subscribe"} => at <= Len(clients) + 1
    /\ event \in Events \cup {NoEvent}
    /\ outcomes \in Seq([url : Relays, result : Results])
    /\ seen \subseteq Events /\ rest \in Seq(Events)
    /\ out \in Seq([id : Events, from : DOMAIN clients])
    /\ ret \in {"none", "broadcast", "query", "subscribe", "subscribe_failed"}
    /\ ops \in 0..MaxOps
    /\ answers \in Seq([ok : BOOLEAN, complete : BOOLEAN, ids : Seq(Events)])
    /\ opened \subseteq DOMAIN clients

Init ==
    /\ urls \in UNION {[1..n -> Relays] : n \in 0..MaxUrls}
    /\ clients = <<>> /\ errors = <<>> /\ up = <<>>
    /\ stored = [r \in Relays |-> {}]
    /\ pc = "connect" /\ at = 1
    /\ event = NoEvent /\ outcomes = <<>> /\ seen = {} /\ rest = <<>> /\ out = <<>>
    /\ ret = "none" /\ ops = 0 /\ answers = <<>> /\ opened = {}

-----------------------------------------------------------------------------
(* connect: a relay that fails is skipped and reported.                    *)

\* Slip: the failed relay is skipped and not reported.
Unreported_ConnectFails ==
    /\ pc = "connect" /\ at <= Len(urls) /\ at' = at + 1
    /\ UNCHANGED <<urls, clients, errors, up, stored, pc, callVars>>

ConnectFails ==
    /\ pc = "connect" /\ at <= Len(urls) /\ at' = at + 1
    /\ errors' = Append(errors, urls[at])
    /\ UNCHANGED <<urls, clients, up, stored, pc, callVars>>

ConnectOk ==
    /\ pc = "connect" /\ at <= Len(urls) /\ at' = at + 1
    /\ clients' = Append(clients, urls[at]) /\ up' = Append(up, TRUE)
    /\ UNCHANGED <<urls, errors, stored, pc, callVars>>

Connected ==
    /\ pc = "connect" /\ at > Len(urls) /\ pc' = "idle" /\ at' = 1
    /\ UNCHANGED <<urls, clients, errors, up, stored, callVars>>

setup == <<urls, clients, errors, up>>

\* Slip: the loop starts before the first client.
FromZero_Begin(op) == pc = "idle" /\ ops < MaxOps /\ ops' = ops + 1 /\ pc' = op /\ at' = 0

Begin(op) == pc = "idle" /\ ops < MaxOps /\ ops' = ops + 1 /\ pc' = op /\ at' = 1
Turn(op)  == pc = op /\ at <= Len(clients)
Ends(op)  == pc = op /\ at > Len(clients) /\ pc' = "idle" /\ ret' = op

-----------------------------------------------------------------------------
(* broadcast: one outcome per client.                                      *)

Broadcast ==
    /\ Begin("broadcast") /\ event' \in Events /\ outcomes' = <<>>
    /\ UNCHANGED <<setup, stored, seen, rest, out, ret, answers, opened>>

\* RelayClient::publish on a link that may break: stored or not, and a verdict.
publish(c, e, result) ==
    /\ \E sent \in IF Up(c) THEN SUBSET {e} ELSE {{}} : Grows(clients[c], sent)
    /\ MayReport(result, e, stored'[clients[c]])

\* Slip: the first relay that fails ends the broadcast.
Stops_BroadcastOne ==
    /\ Turn("broadcast")
    /\ \E result \in Results :
         /\ publish(at, event, result)
         /\ outcomes' = Append(outcomes, [url |-> clients[at], result |-> result])
         /\ at' = IF result = "error" THEN Len(clients) + 1 ELSE at + 1
    /\ UNCHANGED <<setup, pc, event, seen, rest, out, ret, ops, answers, opened>>

BroadcastOne ==
    /\ Turn("broadcast") /\ at' = at + 1
    /\ \E result \in Results :
         /\ publish(at, event, result)
         /\ outcomes' = Append(outcomes, [url |-> clients[at], result |-> result])
    /\ UNCHANGED <<setup, pc, event, seen, rest, out, ret, ops, answers, opened>>

BroadcastEnds ==
    /\ Ends("broadcast")
    /\ UNCHANGED <<setup, stored, at, event, outcomes, seen, rest, out, ops, answers, opened>>

-----------------------------------------------------------------------------
(* query: the union of what the clients return.                            *)

Query ==
    /\ Begin("query") /\ seen' = {} /\ rest' = <<>> /\ out' = <<>> /\ answers' = <<>>
    /\ UNCHANGED <<setup, stored, event, outcomes, ret, opened>>

\* RelayClient::query: an Err, or events of the relay's store, perhaps some of
\* them twice; nothing, on a link that is down.  Others may publish meanwhile.
Answers ==
    {Answer(FALSE, FALSE, <<>>)} \cup
    {Answer(TRUE, k, s) : k \in BOOLEAN, s \in UNION {[1..n -> Events] : n \in 0..MaxAnswer}}

query(c, a) ==
    /\ ~Up(c) => ~a.complete /\ a.ids = <<>>
    /\ \E others \in SUBSET Events : Grows(clients[c], others)
    /\ MayAnswer(a.complete, Given(a.ids), stored[clients[c]], stored'[clients[c]])

QueryOne ==
    /\ Turn("query") /\ rest = <<>> /\ at' = at + 1
    /\ \E a \in Answers :
         query(at, a) /\ answers' = Append(answers, a) /\ rest' = a.ids
    /\ UNCHANGED <<setup, pc, event, outcomes, seen, out, ret, ops, opened>>

\* Slip: the whole answer is marked as seen at its first event.
Hasty_Insert(e) == seen' = seen \cup Given(rest)

\* Slip: what another relay has sent is not remembered.
Forgetful_Insert(e) == seen' = {e}

Insert(e) == seen' = seen \cup {e}

\* The next event of the answer just received, unless its id is in out.
Merge ==
    /\ pc = "query" /\ rest # <<>>
    /\ LET e == Head(rest) IN
         IF e \in seen
         THEN UNCHANGED <<seen, out>>
         ELSE Insert(e) /\ out' = Append(out, [id |-> e, from |-> at - 1])
    /\ rest' = Tail(rest)
    /\ UNCHANGED <<setup, stored, pc, at, event, outcomes, ret, ops, answers, opened>>

QueryEnds ==
    /\ Ends("query") /\ rest = <<>>
    /\ UNCHANGED <<setup, stored, at, event, outcomes, seen, rest, out, ops, answers, opened>>

-----------------------------------------------------------------------------
(* subscribe: stops at the first client whose send fails.                  *)

Subscribe ==
    /\ Begin("subscribe") /\ opened' = {}
    /\ UNCHANGED <<setup, stored, event, outcomes, seen, rest, out, ret, answers>>

SubscribeOne ==
    /\ Turn("subscribe") /\ at' = at + 1 /\ opened' = opened \cup {at}
    /\ UNCHANGED <<setup, stored, pc, event, outcomes, seen, rest, out, ret, ops, answers>>

\* Slip: a client whose send fails is passed over.
Skips_SubscribeFails ==
    /\ Turn("subscribe") /\ ~Up(at) /\ at' = at + 1
    /\ UNCHANGED <<setup, stored, pc, event, outcomes, seen, rest, out, ret, ops, answers, opened>>

SubscribeFails ==
    /\ Turn("subscribe") /\ ~Up(at)
    /\ pc' = "idle" /\ ret' = "subscribe_failed"
    /\ UNCHANGED <<setup, stored, at, event, outcomes, seen, rest, out, ops, answers, opened>>

SubscribeEnds ==
    /\ Ends("subscribe")
    /\ UNCHANGED <<setup, stored, at, event, outcomes, seen, rest, out, ops, answers, opened>>

close ==
    /\ pc = "idle" /\ pc' = "closed"
    /\ up' = [c \in DOMAIN clients |-> FALSE]
    /\ UNCHANGED <<urls, clients, errors, stored, at, callVars>>

-----------------------------------------------------------------------------
(* The surroundings.                                                       *)

LinkBreaks ==
    /\ \E c \in DOMAIN clients : Up(c) /\ up' = [up EXCEPT ![c] = FALSE]
    /\ UNCHANGED <<urls, clients, errors, stored, pc, at, callVars>>

OtherPublish ==
    /\ \E r \in Relays, e \in Events :
         e \notin stored[r] /\ Grows(r, {e})
    /\ UNCHANGED <<setup, pc, at, callVars>>

Done == pc = "closed" /\ UNCHANGED vars

Next ==
    \/ ConnectFails \/ ConnectOk \/ Connected
    \/ Broadcast \/ BroadcastOne \/ BroadcastEnds
    \/ Query \/ QueryOne \/ Merge \/ QueryEnds
    \/ Subscribe \/ SubscribeOne \/ SubscribeFails \/ SubscribeEnds
    \/ close \/ LinkBreaks \/ OtherPublish \/ Done

Spec == Init /\ [][Next]_vars

-----------------------------------------------------------------------------

\* Every URL given to connect, however often it was given, has become a client
\* or is reported as an error.
Times(r, s) == {j \in DOMAIN s : s[j] = r}
ConnectAccountsForAll ==
    pc # "connect" => \A r \in Relays :
        Cardinality(Times(r, urls)) = Cardinality(Times(r, clients)) + Cardinality(Times(r, errors))

\* A broadcast reports an outcome for every client, in their order, whichever of
\* them failed; a relay reported as having accepted the event has it.
BroadcastReport ==
    /\ pc = "idle" /\ ret = "broadcast" =>
        Len(outcomes) = Len(clients) /\ \A c \in DOMAIN outcomes : outcomes[c].url = clients[c]
    /\ \A c \in DOMAIN outcomes :
        outcomes[c].result = "accepted" => event \in stored[outcomes[c].url]

\* Every client is asked, whichever of them fails; the merged answer is the union
\* of the answers that arrived, each event once, as the first client that
\* returned it sent it.
QueryUnion ==
    pc = "idle" /\ ret = "query" =>
        /\ Len(answers) = Len(clients)
        /\ {out[j].id : j \in DOMAIN out} = UNION {Given(answers[c].ids) : c \in DOMAIN answers}
        /\ \A j, k \in DOMAIN out : out[j].id = out[k].id => j = k
        /\ \A j \in DOMAIN out : \A c \in DOMAIN answers :
              out[j].id \in Given(answers[c].ids) => out[j].from <= c

\* An event that a relay accepted is found by the next query to which that relay
\* gives its full answer, whatever becomes of the other relays.
ReadYourWrites ==
    pc = "idle" /\ ret = "query" =>
        \A c \in DOMAIN outcomes :
            /\ outcomes[c].result = "accepted"
            /\ c \in DOMAIN answers /\ answers[c].complete
            => \E j \in DOMAIN out : out[j].id = event

\* Ok means that the REQ went to every client; a failure leaves it with the
\* clients before the one that failed, and with no other.
SubscribeAllOrPrefix ==
    /\ pc = "idle" /\ ret = "subscribe" => opened = DOMAIN clients
    /\ pc = "idle" /\ ret = "subscribe_failed" =>
         \E c \in DOMAIN clients : ~Up(c) /\ opened = 1..(c - 1)
=============================================================================
