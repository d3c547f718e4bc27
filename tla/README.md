# A verification project for nostr-sdk-rust

TLA+ models, TLC runs and TLAPS proofs for the Nostr SDK in `src/`: a blocking
relay client with NIP-42 authentication, a client over several relays, a native
WebSocket transport, NIP-01 filters, UNIP-01 nametag bindings and their
resolution, and the message encryption around them.

Paths like `mod.rs:221` are below `src/src/` (`client/mod.rs`,
`client/multi.rs`, `client/native.rs`, `binding.rs`, `filter.rs`, ...).

## 1. Inventory

### The parts and how they interact

```
 caller ──► MultiRelayClient ──► RelayClient × n ──► RelayConnection ──► relay
              multi.rs             mod.rs              native.rs         (external)
                                     │  ▲
              Filter (REQ) ──────────┘  └── Event::verify, Signer (AUTH)
              filter.rs                     event.rs, signer.rs

 caller ──► create_binding_event ──► publish ... query ──► resolve_nametag_owner
              binding.rs                                    binding.rs
 caller ──► create_gift_wrap ──────► publish ... poll  ──► unwrap
              nip17.rs over nip44.rs                        nip17.rs
```

Everything is synchronous. A `RelayClient` is owned by one thread (`&mut self`),
so its calls never overlap; what interleaves is the call in progress, the relay
with its other clients, and the network. The connection is shared by all calls:
frames caused by one call (late events, a late OK, a challenge) are read by the
next.

| part | state | operations | what is hard |
|---|---|---|---|
| relay client, `client/mod.rs` | counter of query subscriptions; locals of the call in progress | `publish`, `query`, `subscribe`, `unsubscribe`, `poll`, `poll_event`, `close`; inside them `recv_msg`, `answer_auth`, `parse_relay_message` | late frames of an earlier call, challenges in the middle of an exchange, two copies of an event, idle timeouts, broken links, bounded and unbounded loops |
| multi-relay client, `client/multi.rs` | the list of clients | `connect`, `broadcast`, `query`, `subscribe`, `close` | some relays fail, others do not; merging answers; duplicate URLs |
| native transport, `client/native.rs` | socket, its read timeout, tungstenite's queue | `connect`, `send`, `recv`, `close` | a deadline kept across several blocking reads, control frames, frames in pieces, malformed frames and interrupted reads on a stream that lives on, zero timeouts |
| filters, `filter.rs` | the fields set so far | setters, `build`, `to_json`, `matches` | absent against empty, the local test against the test the relay makes |
| bindings and resolution, `binding.rs` | at the relay: the newest event of each author and `d` tag; the loop's map from author to latest event | `create_*_binding_event`, binding filters, `parse_binding_info`, `is_valid_binding_event`, `resolve_*` | an untrusted relay chooses the events, their order and repetitions; self-asserted clocks |
| nametags, `nametag.rs` | none | normalization, validation, hashing, encryption, the marker | normalization is not the same in validation and hashing |
| events, `event.rs` | none | `create`, `verify`, `calculate_id`, tags | |
| gift wraps, `nip17.rs` | none | `create_gift_wrap`, `unwrap` | two layers of encryption, whose identity is trusted where, size limits met twice |
| NIP-44, NIP-04, bech32, `crypto/` | none | padding, framing, compression, bit regrouping | boundaries: 0, 32, powers of two, 65535, left-over bits |
| keys, signer, curve | secret keys | calls into libraries | no control flow of their own |
| kinds, errors, crate root | none | constants and enumerations | - |

What makes each part correct:

* relay client: an accepted event is stored; a query's answer is its own and,
  after EOSE, complete; what is sent again after a challenge is read after the
  answer to it; no query leaves a subscription behind; a listener learns when its
  subscription is gone; calls return;
* multi-relay client: every URL, every client and every answer is accounted for;
  one relay's failure hides nothing of another's;
* native transport: "no frame" means a timeout, and comes no later than it; no text
  is lost or returned twice, whatever comes between; pings are answered;
* filters: the JSON form asks for what `matches` tests; a further field never
  widens a filter;
* bindings: a name is found under every spelling of it and under no other, an
  address wherever it was published, and only what is current is found; other data
  of an author is no binding of anything;
* envelopes (gift wraps, NIP-44, NIP-04, recoverable nametags, bech32): whom they
  are meant for reads what was written; nobody reads anything else; what fits is
  made, and what is made tells little of the length;
* resolution: the single pass finds the owner that UNIP-01's rule defines on the
  answer as a whole; clocks, order and events that do not belong change nothing.

`PROJECT.json` lists the hazards of the code at their lines, with the properties
that would catch each, and every part with its status.

## 2. The modules

| module | what it is | source |
|---|---|---|
| `RelayLink` | two streams of frames that may break, and a NIP-01/NIP-42 relay | external, from what the client sends and expects |
| `RelayClient` | EXTENDS `RelayLink`; all operations of the client | `client/mod.rs` |
| `RelayClientProofs` | theorems about it | |
| `RelayPromises` | what publish and query may return, as conditions on the result | `client/mod.rs` |
| `RelayService` | EXTENDS `RelayPromises`; the client as its caller sees it: whole calls, no frames | abstract specification |
| `RelayRefinement` | EXTENDS `RelayClient`; the refinement mapping to `RelayService` | |
| `RelayRefinementProofs` | that the mapping is one, and exact answers | |
| `MultiRelay` | EXTENDS `RelayPromises`; one call over several relays, a relay per step | `client/multi.rs` |
| `MultiRelayProofs` | theorems about it | |
| `NativeConnection` | `recv` with its deadline over a blocking socket | `client/native.rs` |
| `NativeConnectionProofs` | theorems about it | |
| `Filter` | the builder, the JSON form, `matches` | `filter.rs` |
| `Nametag` | normal form, validity and hash of a name | `nametag.rs` |
| `BindingLookup` | EXTENDS `Filter`, `Nametag`; bindings made, kept by a relay, and looked up | `binding.rs` |
| `BindingLookupProofs` | theorems about it and about `Filter` | |
| `OwnerResolution` | the binding events a relay may answer with, and the pass over them | `binding.rs`, `nametag.rs:76-82` |
| `OwnerResolutionProofs` | theorems about it | |
| `Secp` | keys, key agreement and signatures in a small group | `crypto/secp.rs`, `crypto/schnorr.rs`, `keys.rs`, `signer.rs` |
| `Nip44` | EXTENDS `Secp`; padding, framing, conversation keys | `crypto/nip44.rs` |
| `GiftWrap` | EXTENDS `Nip44`; rumor, seal and wrap | `nip17.rs` |
| `Nip04` | EXTENDS `Secp`; framing, compression, a cipher without a tag | `crypto/nip04.rs` |
| `NametagCipher` | the recoverable nametag of a binding | `nametag.rs` |
| `Bech32` | bit regrouping, checksum, strings of keys | `crypto/bech32.rs` |
| `Envelopes` | EXTENDS `GiftWrap`, INSTANCEs the others: written, damaged, read | all of these |
| `EnvelopesProofs` | theorems about them | |
| `KeyStringProofs` | EXTENDS `EnvelopesProofs`; what the loops of `Bech32` compute, and the strings of keys | |
| `MC...` | instances for TLC | |

In every module the definitions named `<What>_<definition>` and commented `Slip:`
are plausible mistakes in the definition of that name. No specification uses
them; each shows that a property would notice the mistake.

How they compose: `RelayClient` implements `RelayService`, and `MultiRelay` sees
each of its clients through the same `RelayPromises` that `RelayService` is built
from; `BindingLookup` sends the filters of `Filter` with the hashes of `Nametag`;
`GiftWrap` encrypts with `Nip44` over `Secp`, and `Envelopes` runs every codec from
the writer to the reader.

### RelayLink and RelayClient

A frame is a record of what the code distinguishes: its type, the subscription
and the event it names, the acceptance flag of an OK, and the number of a
challenge. `call` is a history field that says which call of the client a frame
belongs to; neither side reads it.

*State.* `toRelay` and `toClient` are the two directions of the WebSocket;
`up` tells whether it lives. The relay keeps `stored`, the subscriptions
`subs` (what it still owes each, whether EOSE was sent) and which challenges it
`issued` and saw `answered`. The client keeps `pc` (which call is in progress and
where), `next_sub`, and the locals of `publish` (`id`, `resent`, `left`) and of
`query` (`events`); `ret` is what the last call returned. The remaining variables
are history.

*Steps.* A call's first step sends its first frame. Then one step is one
iteration of the loop in the code: `RecvSome`, `RecvNone` and `RecvErr` are the
three ways `recv_msg` ends, with the AUTH answer it sends as part of the step, and
each arm of the `match` is an action: `PublishOk`, `PublishAuth`, `PublishSkip`,
`PublishTimeout`, `PublishError`, `GiveUp`; `QueryEvent`, `QueryDone`,
`QueryIdle`, `QueryAuth`, `QuerySkip`, `QueryError`. The frame that is sent again
after a challenge (`PublishResend`, `QueryRearm`) is a step of its own, so the
relay may act and the connection may break between the two sends. A send on a
broken connection fails or is lost unseen. A receive may time out at any time,
whether or not a frame is under way; the client has no clock.

*The relay* is permissive: it may demand authentication or not, refuse events,
challenge at any time and drop subscriptions silently when it does, close a
subscription, send frames nobody asked for (for as long as it is `chatty`), and
other clients publish through it, also events that do not verify. It answers
every frame it reads in the order of the frames. It does not invent a positive OK
for an event it does not store, and does not send an event to a subscription it
does not have.

*Simplifications.* A query's filter selects every event (`Filter` models
filters). Texts of messages are left out. A relay that demands
authentication decides for each EVENT and REQ of an unauthenticated client whether
to admit it; what it refuses it answers with a negative OK or with CLOSED.

### RelayService and RelayRefinement

`RelayService` is what a caller may rely on: one call at a time; `publish` returns
one verdict, and an acceptance means that the store has the event (`MayReport`);
`query` returns what the relay has or had, and if EOSE ended it, everything valid
it had when it was asked (`MayAnswer`); the store only grows. It has no frames,
challenges, subscriptions or connections. `RelayRefinement` maps the client to it:
the call in progress is read off `pc`, the question off `snap`, and the result is
visible only between calls, so that the events collected so far, the second sends
and the frames of others are stutters.

### MultiRelay

One step is one relay's turn of a loop of `multi.rs`. A `RelayClient` is seen
as one step per call that returns what `RelayPromises` allows, which is what the
refinement shows of `RelayClient`: an
accepted event is stored, a failure says nothing, an answer holds only stored
events, perhaps several times, and all of them if EOSE ended it. Links break and
stores grow between the turns. The `BTreeSet` of ids of `query` is `seen`; the
merge of an answer is one step per event, so that what is remembered when is
visible.

### NativeConnection

Time is a counter that passes only while `read()` blocks. `recv` sets what
remains of its budget as the socket's timeout before each read; `wait` is what is
left of it for the read of the socket in progress, which a piece of a frame
restarts, because tungstenite reads the socket again. Control frames end a
`read()` without ending `recv`. Pongs are queued by tungstenite (`owed`) and
flushed in the ping arm, and by `send`.

An error of `read()` need not be the end of the stream. `ReadMalformed` is one for
the message that is next: text that is not UTF-8, a violation of the protocol, or a
message over the size limit, which may stay in front of the stream and fail the
next read too. `ReadFails` is one of the socket: the stream is broken, or a signal
interrupted the wait, or a pong that had failed before fails again. The caller gets
the same `Err` for all of them, and may call `recv` again. `stream` records the
frames that arrived whole, `given` those that `recv` returned.

### Filter

A filter maps every field to an `Option`; a list is the set of its members. Ids
and keys are short sequences of digits, so that prefixes are modelled. `Probes`
are events that differ in everything a filter reads, with tags that lack a value
or a name. `Selected(g)` is what `matches` lets through.

### Nametag and BindingLookup

A text is a sequence of tokens (white space, `@`, `unicity`, words in lower and
upper case), so that trimming, folding the case and stripping one suffix are what
they are in the code, in its order; `CharCount` gives the length that validity
tests. A hash is the salted text. Only the
validation strips a leading `@`: so a valid `@name` is bound under another hash than
`name`, and the valid `@unicity` under that of the empty text. The model has both,
and takes such names for different ones.

In `BindingLookup` authors make bindings of names and of identities, with all
tags and the content that `create_binding_event` and
`create_identity_binding_event` sign; a relay keeps the newest event of each author
and `d` tag (kind 30078 is addressable), and either of two of the same second; strangers
leave events with the same tags and unreadable contents. Kind 30078 is
application data of all sorts, so an author's own events of it need not be
bindings: `AppEvent` is another application of an author that keeps its data at the
same relay. A lookup sends a
filter through its JSON form, receives what it selects, up to its limit, and reads
it with `parse_binding_info`. `SameName`, `SameThing` and `Current` say what should
be found from the callers' requests alone: without hashes, tags, filters or the
order of normalization. `SameName` takes the text between the blanks of both names
(`Core`) and compares it letter by letter, but for the case and one "@unicity" at
the end of either (`Alike`). `IdentitySets` are the sets of identity fields that
callers give.

The lookup by author has no tag to select by, so it returns the author's other
application data as well, as a `BindingInfo` without any field, and this data
takes places of its limit of ten. `FoundByAuthor` says just that: what is found is a
current binding or such an empty entry, and a current binding is missing only where
both together are more than the limit, and older than all that is found. The data
of another application is taken to have no field that a binding has too.

### OwnerResolution

`Answers` are the events a relay can answer with: bindings this SDK makes (also
with the empty address that `create_binding_event` accepts), identity bindings,
bindings of older clients without the marker, and events that carry the marker
but are of another kind, forged or without a `d` tag. The relay's answer is any
sequence of them. `Scan` is one iteration of the loop of `resolve_filtered`, with
`latest` as its `BTreeMap`; `Choose` is the rest. `InForce`, `Claims` and `Owner`
define the rule on the whole answer at once, without a loop, and are the abstract
specification that the loop is compared with. `Remainders` are the ways to leave
events out of the answer: `InjectionHarmless` says that the owner stays whichever
of the events that do not match the query are left out.

### Secp, Nip44, GiftWrap, Nip04, NametagCipher, Bech32 and Envelopes

`Secp` writes the group additively, as the integers modulo an odd prime `Order`: a
secret is its own point, a point and its opposite share an x coordinate, and
exactly one of the two is even. That is all the code relies on when it knows a peer
by its x coordinate and takes the point with an even y, and it makes the two
secrets of one identity, and the agreement of both sides, things that can be wrong.

A `Result` is the set of its value, or the empty set for `Err`, so that `?` is a
union over it. Lengths are numbers and every computation on them is the code's:
padding to 32 bytes or an eighth of the next power of two, the two-byte prefix,
`unpad`'s test of the padded length, base64's growth, the block of the CBC cipher,
the threshold of compression. Ciphers are boxes that open under their key and
nonce; NIP-04's cipher has no tag, so a changed ciphertext or a wrong key may also
yield garbage, which is text or not. A recoverable nametag may be another program's
encryption of bytes that are no text (`utf8`); NIP-44 payloads are encrypted texts
here. The JSON of rumors and seals is its length, in
which the frames around the content are constants measured on the code's format.

`Bech32` is translated bit by bit, with its 30-bit checksum as six symbols and the
accumulator that `convert_bits` shifts past its width. `Envelopes` has a job
written (by the code, or by another program, with another kind, tags, a false
signature or a text that is no JSON in either layer), perhaps damaged in one place
(frame, ciphertext, nonce, or any one character of a string), and read by anybody:
one action per public operation. A string may come in capitals (`Capitals`) or in
mixed case (`MixedCase`): `decode` puts it into small letters before it reads it.
`CanonicalKeys` leaves open whether a string in mixed case is read, as the key or not
at all; `MixedCaseRefused` is what the standard says of it, and finding 5.

## 3. What TLC checks

| run | question | result |
|---|---|---|
| `calls` | two calls of `publish` or `query` in a row, with authentication, late and stray frames and a link that may break: is an accepted event stored; is what is sent again read after the answer to the challenge; is a query's answer its own, complete, duplicate-free; is no subscription left behind? Is the client a `RelayService` (`ServiceSpec`)? And, of a caller that has two subscriptions and uses only `subscribe`, `unsubscribe`, `poll`: does it hear of every subscription it loses? | holds |
| `returns` | one call, `poll` and `poll_event` before and after it, one event of others that is forged: does the call return, and is a query that EOSE ended complete and free of forgeries? | holds |
| `multi` | two calls on up to two URLs, twice the same one included | holds |
| `recv` | frames whole and in pieces, malformed ones and interrupted reads: is the deadline kept, is "no frame" a timeout and a timeout no error, is every text returned once, are pings answered? | holds |
| `filter` | every filter of two setter calls against all probes; and every two bindings, strangers' events or other application data of the authors, looked up by each name, address and author: is exactly what is current found, up to the limit? | holds |
| `resolve` | every answer of up to three events of three authors | holds |
| `envelopes` | every NIP-44 length from 0 to 65537, the edges of all codecs between all keys, each damage: is it read by whom it is meant for, as it was written, and by nobody as anything else; is it made exactly when it fits; do lengths stay hidden; is a key's string read as that key, in small letters and in capitals, and not at all after a slip; is a string that decodes, in small letters, the one encoding of its bytes? | holds |
| `publish_verdict` | does a rejected event stay out of the store? | violated, finding 1 |
| `deaf_after_publish` | does a listener that also publishes hear of lost subscriptions? | violated, finding 2 |
| `slow_frame` | is the deadline kept for frames in pieces? | violated, finding 3 |
| `empty_list` | does an empty list impose no constraint? | violated, finding 4 |
| `mixed_case` | is a key's string in mixed case refused? | violated, finding 5 |

### Findings

1. `publish` sends an event again after a challenge and returns the first OK for
   it. If the relay refused the first copy, that refusal is returned although the
   second copy is stored (`mod.rs:203-231`; the comment promises to re-send "if
   the relay demands auth first").
2. A challenge read inside `publish` or `query` is consumed there, so a listener
   on the same client never sees the `Auth` message on which, as `mod.rs:278`
   says, it would re-subscribe.
3. The socket's timeout restarts with every piece of a frame, so a slow frame
   keeps `recv` beyond its timeout (`native.rs:70`; `mod.rs:114` says "`None` if
   `timeout` elapses first").
4. `kinds: Some([])` matches nothing locally and is left out of the JSON form
   (`filter.rs:82`; `filter.rs:18` says that empty fields impose no constraint).
5. `decode` puts the whole string into small letters first (`bech32.rs:101`), so
   "Npub1..." is read as the key; `bech32.rs:2-3` says "Standard BIP-173 bech32", and
   BIP-173 has decoders refuse strings in mixed case.

One thing that is no disagreement but a caller must know: `query`'s ids `q1`,
`q2`, ... share their name space with the ids given to `subscribe`. `DistinctIds`
is the condition under which `QueryFresh` holds, and the theorem assumes it.

### Bounds, and why they are enough

* *Relay client.* In `calls` a caller either makes calls or listens, for good
  (`role` of `MCListener`). Two calls (`MaxCalls`), because what goes wrong between calls
  goes wrong between two in a row: the second reads what the first left behind. One
  challenge, two where a call must return: the second finds `resent` already set.
  Two frames in transit in a direction (one in
  `returns`): one frame of an earlier exchange in front of one of the current
  one is what a mistaken match needs. `RecvLimit` is 2 or 3
  instead of 64: enough for a challenge and an answer, or a stray frame and an
  answer, and to be exhausted. One own event, which the relay may refuse before the
  authentication and accepts after it, one foreign event, and in `returns` one
  forged one.
* *Multi-relay client.* Two relays and two URLs, two events, answers of at most
  two events and two calls: a failing and a working relay in both orders, the same
  relay twice, an answer with the same event twice, a query after a broadcast.
* *Native transport.* Timeouts 0, 2 and 3 and three frames: a budget used up by
  control frames before, at and after its last unit; a text behind a ping behind a
  malformed frame, over two and more calls. `MaxElapsed` lies above the
  largest timeout, so that a missed deadline can be seen.
* *Filters.* Two setter calls: a field that is set after another one, or twice.
  Two values of every kind, ids of two digits with prefixes of length 0, 1 and 2,
  lists of up to two members.
* *Bindings.* Two bindings by two authors, of five names (one plain, the same with
  blanks, capitals and the suffix, one with `@` in front, one too short to be
  valid, and `@unicity@unicity`, of which one suffix remains), to addresses that read like names, with and without identities, at two
  times; `AskLimit` 1 instead of 10, so that the limit is exceeded, and `MaxInt`
  between the two times in milliseconds, so that one saturates. Times before 1970
  saturate downwards; only the theorem covers these. One other application (`Apps`) is
  enough: with a binding it exceeds the limit, newer, older or of the same second. In this run a
  caller either builds a filter (`Spec` of `Filter`) or uses bindings (`LookupSpec` of
  `BindingLookup`, of which the theorems speak): the two share no state.
* *Envelopes.* All lengths 0 to 65537 between one pair of keys; `EdgeLengths` (0, 1,
  both sides of 32, 256, 1024, 65535 and of the two limits of a gift wrap) between
  all keys, valid and invalid, with every damage. `Order` 11 with secrets 0 (invalid),
  3 and its opposite 8, and 4. Keys of two bytes (32 in the code) are enough
  for left-over bits, and `AccRange` 2^20 (2^32 in the code) makes the accumulator
  overflow as it does for 32 bytes; a vector of `tests/vectors` is checked at full
  length as `VectorAssumption`.
* *Resolution.* Three authors (ambiguity among more than two), three events, two
  times (older, newer, equal), two names.

No symmetry is declared: the runs are small enough without it, and few of the
model values are interchangeable (one event is forged, one name is asked for).

Deadlock is checked in every run: `Done` lets a client, resolution or filter
that is finished stutter, so a deadlock would be a call that can neither go on nor
return.

### Fairness

Only `FairSpec` of `RelayClient` states any: weak fairness of `LoopStep`, the
steps of a call in progress. A call is a thread that keeps running, and a blocked
receive ends at its timeout (the theorems on `NativeConnection` say what `recv`
does meanwhile). Nothing is assumed of the caller, the relay or the network. So
`publish` is shown to return against a relay that never stops talking, and `query`
once the relay no longer sends frames nobody asked for; without that condition it
need not return, since each frame starts a new idle wait and the loop has no limit
of its own.

## 4. What is proved

TLAPS checks the following for every value of the constants that satisfies the
named assumptions of the modules (`LinkAssumption`, `ClientAssumption`,
`MultiAssumption`, `NativeAssumption`, `FilterAssumption`, `NametagAssumption`,
`LookupAssumption`, `ResolutionAssumption`, `SecpAssumption`,
`EnvelopesAssumption`). These say that the kinds of ids do not overlap, that bounds
are naturals, of the client that a publish receives at least once, of texts that
folding the case twice does no more than once and leaves blanks and `@` alone, of
the authors of bindings that they are not the strangers (they have other
applications all the same), of the group that its
order is an odd prime, and of bech32 that a key's string has no more than the 90
characters that `decode` takes (`KeyLen` up to 49; it is 32 in the code) and that the
range of the accumulator is a multiple of 2^15 (it is 2^32).

| theorem | statement |
|---|---|
| `RelayClientProofs!TypeCorrect` | `Spec => []TypeOK` |
| `RelayClientProofs!AcceptedStored` | `Spec => []AcceptedIsStored` |
| `RelayClientProofs!QueryIsFresh` | if `DistinctIds`, `Spec => []QueryFresh` |
| `RelayClientProofs!ReplaysFollowAuth` | `Spec => []ReplayAfterAuth` |
| `RelayClientProofs!QueriesAccounted` | if `DistinctIds`, `Spec => []SubsAccounted` |
| `RelayClientProofs!ListenersHear` | if `DistinctIds` and `OnlyListens`, `Spec => []ListenerNotDeaf` |
| `RelayRefinementProofs!QueryIsExact` | if `DistinctIds`, `Spec => []QueryExact` |
| `RelayRefinementProofs!QueryIsOnce` | if `DistinctIds`, `Spec => []NoDuplicates` |
| `RelayRefinementProofs!ClientIsService` | if `DistinctIds`, `Spec => ServiceSpec` |
| `MultiRelayProofs!TypeCorrect` | `Spec => []TypeOK` |
| `MultiRelayProofs!ConnectIsAccountedFor` | `Spec => []ConnectAccountsForAll` |
| `MultiRelayProofs!BroadcastIsReported` | `Spec => []BroadcastReport` |
| `MultiRelayProofs!SubscribeIsAllOrPrefix` | `Spec => []SubscribeAllOrPrefix` |
| `MultiRelayProofs!QueryIsUnion` | `Spec => []QueryUnion` |
| `MultiRelayProofs!WritesAreRead` | `Spec => []ReadYourWrites` |
| `OwnerResolutionProofs!TypeCorrect` | `Spec => []TypeOK` |
| `OwnerResolutionProofs!ResolutionIsCorrect` | `Spec => []OwnerCorrect` |
| `OwnerResolutionProofs!ClaimantWins` | `Spec => []SoleClaimantWins` |
| `OwnerResolutionProofs!ClockIsIdle` | `Spec => []ClockNeverChooses` |
| `OwnerResolutionProofs!OrderDoesNotMatter` | `Spec => []OrderIrrelevant` |
| `OwnerResolutionProofs!InjectionIsHarmless` | `Spec => []InjectionHarmless` |
| `NativeConnectionProofs!TypeCorrect` | `Spec => []TypeOK` |
| `NativeConnectionProofs!NoneIsTimeout` | `Spec => []NoneMeansTimeout` |
| `NativeConnectionProofs!NoTextIsLost` | `Spec => []TextsKept` |
| `NativeConnectionProofs!PongsAreFlushed` | `Spec => []PongsFlushed` |
| `NativeConnectionProofs!DeadlineIsKept` | `Spec => []WholeFramesInTime` |
| `BindingLookupProofs!FiltersTyped` | `Spec => []TypeOK` |
| `BindingLookupProofs!SettersNarrow` | `Spec => Narrows` |
| `BindingLookupProofs!WireIsFaithful` | `Spec => []WireMatches` |
| `BindingLookupProofs!NameIsFound` | `LookupSpec => []FoundByName` |
| `BindingLookupProofs!AddressIsFound` | `LookupSpec => []FoundByAddress` |
| `BindingLookupProofs!AuthorIsFound` | `LookupSpec => []FoundByAuthor` |
| `EnvelopesProofs!EnvelopesTyped` | `Spec => []TypeOK` |
| `EnvelopesProofs!WhatIsWrittenIsRead` | `Spec => []ReadBack` |
| `EnvelopesProofs!NothingIsMisread` | `Spec => []NeverMisread` |
| `EnvelopesProofs!RecipientReads` | what one side encrypts with NIP-44, either secret of the other decrypts |
| `EnvelopesProofs!LengthsHidden` | `Spec => []PaddingHides` |
| `EnvelopesProofs!LimitsHold` | `Spec => []SizeLimits` |
| `KeyStringProofs!KeysAreCanonical` | `Spec => []CanonicalKeys` |

How the arguments run:

* *AcceptedStored.* `AcceptedIsStored` speaks of what was returned; it is
  preserved by `PublishOk` only because of the OK it reads. `OkStored` says of
  every positive OK under way that it names a stored event or the AUTH event; the
  relay establishes it, cutting the stream keeps it, the store only grows, and the
  AUTH event is none of the client's own.
* *QueryIsFresh.* An event read by the query in progress carries its subscription
  id. `ReqsServed`, `SubsServed` and `EventsServed` follow that id through the REQ
  under way, the relay's subscription and the EVENT under way: if it is the id of
  the query in progress, it was opened by that call, and no REQ bears the id of a
  query not yet made. Making a query takes the next number, for which none of the
  three exists; that is where `DistinctIds` is needed.
* *ReplaysFollowAuth.* The property looks at the head of the stream to the relay;
  the invariant at all of it. `AnswersLead`: every second send under way has the
  answer it follows in front of it, unless the relay has read that. `AnswerSent`:
  the same of a second send about to be made, which is what the step between the
  two sends needs, while the connection may be cut in front of either.
* *QueriesAccounted.* `Accounted` turns "the last frame under way about this
  subscription, or if there is none its state at the relay" into two facts that a
  step changes locally: `Said` and `Unsaid`. Reading the head of the stream moves
  what was said into the relay's state.
* *ListenersHear.* `Attended`: a subscription the caller listens to is wanted by
  the last word about it, or the caller will hear of its loss from a frame under
  way. Only a step that reads such a frame can break it, and `poll` reports it.
  `publish` and `query` read it too and do not, which is finding 2; `OnlyListens`
  excludes them.
* *QueryIsExact.* `AnswerInv`: whatever the relay owes a subscription, sends or has
  sent is stored (`SubsStored`, `EventsStored`, `GotStored`), an EOSE under way
  stands behind everything it promises (`EosesServed`), and each valid event of
  the question is collected, under way, owed, or to be owed by a REQ under way
  (`Complete`, `Due`). A second REQ makes the relay start over, which only adds.
* *QueryIsOnce.* Until a query sends its REQ again, each event it asked for is owed,
  under way or collected, and only one of the three, and once: `Unrepeated`. A
  challenge is what makes a query send again, and a challenge counts once
  (`AuthsNumbered`); from then on the relay may send everything a second time, which
  `NoDuplicates` allows.
* *ClientIsService.* One lemma for each operation says which step of the service it
  maps to, or that the caller sees nothing. `AcceptedStored` and `QueryIsExact`
  supply `MayReport` and `MayAnswer` at the step that returns.
* *MultiRelay.* Each loop has an invariant about the part done: `ConnectInv` counts
  each URL's places among the first `at - 1` URLs against clients and errors;
  `BroadcastInv` has the first `at - 1` outcomes; `SubscribeInv` the clients
  `1..(at - 1)`. `QueryInv` says that earlier answers are in `seen` and the last
  but for `rest` (`Merged`), that `seen` is what `out` holds once (`Once`), and that an
  id in `out` names the first client that gave it (`FirstNamed`); `Reads` adds that a
  complete answer has what its relay accepted. `LEMMA StoresGrow` carries acceptances
  over the turns of others.
* *ResolutionIsCorrect.* `LoopInv` says of the map `latest` that it holds each
  author's event in force among those already seen, the first one of several
  equally new (`Keeps`). At the end of the loop that is `InForce` of the whole
  answer, and `Choose` compares as the rule does.
* *ClaimantWins, ClockIsIdle, OrderDoesNotMatter.* By `OwnerIsResult` the loop may
  be forgotten, and these are facts about `Owner`. Redating one author's events
  keeps every comparison, because all of them are between events of one author
  (`RedatingIsIdle`, for any amount). For a rearranged answer, the event in force is
  the first of the author's newest, which exists because indices are well-founded
  (`Least`); without `NoTies` it may be another one with another marker.
* *InjectionIsHarmless.* What is left of an answer has the matching events of every
  author in the same order, so the event in force is the same one (`RemainderIsIdle`).
* *NameIsFound, AddressIsFound, AuthorIsFound.* `BookInv` says that every event of an
  author at the relay is that of a request, that for each request an event of the same
  author and `d` tag is there that is not older, and that there is one only of each
  author and `d` tag. So the relay holds exactly the events of the current requests, up
  to requests of the same second (`HeldIsCurrent`, `CurrentIsHeld`), and beside them other
  data of the authors, whose `d` tags no binding has. Only the lookup by author returns
  that; each of its events takes one place (`EventsAreApps`), and what the limit leaves
  out is older in milliseconds as it is in seconds (`MillisMonotone`). That `d` tags agree exactly if requests are about
  the same thing is `SameNameIsSameNormal`: trimming, folding and stripping map two
  texts of any length to one normal form exactly if they are `SameName`. `ReplyInv`
  says that the last reply is read off an answer to the filter of its question.
* *NativeConnection.* `WaitsLong`: what has elapsed plus what the read still waits
  is at least the timeout; hence a read that times out has reached it. Pieces only
  add to `wait`. `WaitsShort`: the same sum is at most the timeout, until a
  piece breaks it, which `split` remembers. `Kept`: what has arrived and not been taken is
  the rest of `stream` (`Waiting`), and of what was taken the texts are what `recv`
  returned. Each way a `read()` may end takes one frame or none, and only `ReadText`
  takes a text. `NothingOwed`: no pong is owed on a live stream.
* *Filter.* Each conjunct of `matches` reads one field and is satisfied by `None`
  (`UnsetSelectsMore`); the JSON form keeps every field, except that an empty list
  becomes `None` (`FieldsSurvive`), which makes a difference for `kinds` alone.
* *Envelopes.* `SameKey`: an even point and a product in the group modulo sign
  are the same from both sides, for either secret. The padded length is computed
  from the next power of two by cases over the seventeen there are (`LengthsHidden`).
  `LimitsHold` follows a message's length through both layers and base64: 40960
  bytes of rumor are the most whose seal still fits 65535.
* *WhatIsWrittenIsRead, NothingIsMisread, EnvelopesTyped.* `WireInv` says of every
  envelope on its way that, undamaged, it is what was written and for whom: a `Sealed`
  NIP-44 payload, a wrap that opens for a secret of the recipient alone and then
  gives the message (`ReadAs`), a NIP-04 payload with the text. A damaged one is
  `Unopenable`, except a NIP-04 payload, whose cipher has no tag: of that it says that
  the text is still in it. `SealedReads` has that nobody else opens a sealed payload:
  its key is derived from the product of a secret and a point, and the salt names both,
  so two pairs of keys agree on it only if they are the same pair. `GiftWrapReads`
  applies that to both layers, `ForeignReads` to each flaw of another program's wrap.
  `TypeOK` says that at most one thing is on the wire and read; of a bech32 string
  that rests on `OneDecoding`: the last "1" of a string is unique.

* *KeysAreCanonical.* `StringInv` says that the string of a key on its way is the
  key's encoding, or that with one slip in it or with capitals in some places, and that another
  program's string is some symbols with the checksum that belongs to them. What
  reading them gives rests on what the loops compute for sequences of any length,
  which `KeyStringProofs` proves in these steps:
  - `Induction` and `SeqInduction` take the set of numbers or sequences for which a
    fact holds, a set and not an operator, and follow from the well-foundedness of
    strict inclusion among finite sets. `FoldedAppend` follows: folding one entry more
    is one step more.
  - `convert_bits` regroups the digits of a number (`Num`). `TakeOne` has the invariant of
    its loop: the output and the bits that are left are the number read so far.
    The accumulator overflows, but always in multiples of 2^15, and no group is taken from
    bits that high (`SameLowBits`). At the end `EncodedBytes` has that bytes become
    symbols that `Encodes` them, `DecodedValues` that symbols become the bytes they
    encode or are refused, and `OneCode` that each determines the other: zero bits at the
    end and fewer than five of them leave no choice.
  - A step of the checksum is injective in its state (`StepTellsState`, since no
    sum of the lowest symbols of the five generators is zero), in its symbol, and
    in the order of two (`StepsTellOrder`). So `PolymodTells`: one replaced symbol,
    or two neighbours exchanged, always change the result. The symbols are a group
    under exclusive or, through which six steps carry a state unchanged (`StepCarries`),
    so that the checksum made for a sequence is accepted with it (`ChecksumFits`).
  - A string has its last "1" where its prefix ends (`SplitWire`), and its characters tell
    its symbols. A character left out or put in changes the number of symbols by one, and
    then no key's number of bytes is left (`SpoiltIsNotRead`): the checksum alone would not
    notice each of these.

### What is only model-checked

`PublishReturns` and `QueryReturns`: liveness under fairness is out of the
prover's reach, as are `ENABLED` and `RECURSIVE` operators; the models do without the
latter two. Of `StringInv`, which speaks of all sequences, TLC cannot check the
second part; it checks `CanonicalKeys`, which it implies at every reading.

## 5. What is not modelled

* Hashes, signatures and ciphers are libraries. A hash is taken as injective; the
  serialization that event ids are computed from is not modelled, so neither is
  whether two events could have the same serialization.
* Times in gift wraps, which are copied from the clock or randomized and read by
  nothing in the crate.
* The fields `verified` and `encrypted_nametag` in a binding's content: nothing in
  the crate reads them (the cipher that makes the latter is modelled).
* `Keypair`'s accessors and hex forms, the three range tests of `kinds.rs` that
  nothing calls, the variants of `error.rs`, which the models take as one, and
  `lib.rs`.
* Texts of messages, JSON syntax beyond its length, and prose for users.
* The relay's side of a subscription's filter, limits and policies beyond what
  section 2 says.
* A client over wasm or another transport: `RelayConnection` is a trait, and only
  `native.rs` implements it here.

## 6. Plan

Done: everything in section 2, with the proofs of section 4. Worth doing next:

1. The serialization of events (`event.rs`), if a reference definition of JSON
   strings can be stated that is not the code again.
2. What a client that only polls gets to see: that each event its relay sends for a
   subscription is handed to the caller exactly once, in the order of the stream.
