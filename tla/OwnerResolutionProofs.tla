----------------------- MODULE OwnerResolutionProofs -----------------------
(* Theorems about OwnerResolution: the one-pass selection computes the     *)
(* UNIP-01 owner of every answer, of any length and from any authors.      *)
EXTENDS OwnerResolution, FiniteSetTheorems, TLAPS

-----------------------------------------------------------------------------
(* Types.                                                                  *)

LEMMA EvType ==
    ASSUME NEW a \in Authors, NEW t \in Times, NEW k \in {"app_data", "other"},
           NEW d \in Names \cup {"identity", "none"}, NEW m \in BOOLEAN,
           NEW c \in {"binding", "incomplete"}, NEW s \in BOOLEAN
    PROVE  Ev(a, t, k, d, m, c, s) \in Event
BY DEF Ev, Event

\* Every event a relay answers with is of the shape the code parses.
LEMMA AnswersAreEvents == \A e \in Answers : e \in Event
<1>1. ASSUME NEW e \in Created PROVE e \in Event
  <2>1. PICK a \in Authors, n \in Names, x \in Addresses, t \in Times : e = create_binding_event(a, n, x, t)
    BY DEF Created
  <2> QED  BY <2>1, EvType DEF create_binding_event
<1>2. ASSUME NEW e \in Identity PROVE e \in Event
  <2>1. PICK a \in Authors, t \in Times : e = create_identity_binding_event(a, t)
    BY DEF Identity
  <2> QED  BY <2>1, EvType DEF create_identity_binding_event
<1>3. ASSUME NEW e \in Legacy PROVE e \in Event
  <2>1. PICK a \in Authors, n \in Names, t \in Times : e = legacy(a, n, t)
    BY DEF Legacy
  <2> QED  BY <2>1, EvType DEF legacy
<1>4. ASSUME NEW e \in Notes PROVE e \in Event
  <2>1. PICK a \in Authors, t \in Times : e = note(a, t)
    BY DEF Notes
  <2> QED  BY <2>1, EvType, ResolutionAssumption DEF note
<1>5. ASSUME NEW e \in Forgery PROVE e \in Event
  <2>1. PICK a \in Authors, t \in Times : e = forgery(a, t)
    BY DEF Forgery
  <2> QED  BY <2>1, EvType, ResolutionAssumption DEF forgery
<1>6. ASSUME NEW e \in Untagged PROVE e \in Event
  <2>1. PICK a \in Authors, t \in Times : e = untagged(a, t)
    BY DEF Untagged
  <2> QED  BY <2>1, EvType DEF untagged
<1> QED  BY <1>1, <1>2, <1>3, <1>4, <1>5, <1>6 DEF Answers

LEMMA EventFields ==
    ASSUME TypeOK, NEW j \in 1..Len(events)
    PROVE  events[j].pubkey \in Authors /\ events[j].created_at \in Int
<1>1. events[j] \in Event
  BY DEF TypeOK
<1>2. events[j].pubkey \in Authors /\ events[j].created_at \in Times
  BY <1>1 DEF Event
<1> QED  BY <1>2, ResolutionAssumption

LEMMA AppendEvent ==
    ASSUME NEW S, NEW q \in Seq(S), NEW x \in S
    PROVE  Append(q, x) \in Seq(S) /\ Len(Append(q, x)) = Len(q) + 1
OBVIOUS

\* The indices the loop keeps always name events of the answer.
THEOREM TypeCorrect == Spec => []TypeOK
<1>1. Init => TypeOK
  BY DEF Init, TypeOK
<1>2. TypeOK /\ [Next]_vars => TypeOK'
  <2> SUFFICES ASSUME TypeOK, [Next]_vars PROVE TypeOK'
    OBVIOUS
  <2> USE DEF TypeOK
  <2>1. CASE Deliver
    <3>1. PICK e \in Event : events' = Append(events, e)
      BY <2>1, AnswersAreEvents DEF Deliver
    <3>2. events' \in Seq(Event) /\ Len(events') = Len(events) + 1 /\ Len(events) \in Nat
      BY <3>1, AppendEvent
    <3> QED  BY <2>1, <3>2 DEF Deliver
  <2>2. CASE Resolve
    BY <2>2 DEF Resolve
  <2>3. CASE Scan
    <3>1. i \in 1..Len(events) /\ events[i].pubkey \in Authors
      BY <2>3, EventFields DEF Scan
    <3>2. latest' \in [Authors -> 0..Len(events)]
      BY <2>3, <3>1 DEF Scan
    <3>3. i' \in 1..(Len(events) + 1)
      BY <2>3 DEF Scan
    <3> QED  BY <2>3, <3>2, <3>3 DEF Scan
  <2>4. CASE ScanEnds
    BY <2>4 DEF ScanEnds
  <2>5. CASE Choose
    <3>1. \A k \in Owners : k \in 0..Len(events)
      BY DEF Owners, Kept
    <3>2. result' \in 0..Len(events)
      BY <2>5, <3>1 DEF Choose
    <3> QED  BY <2>5, <3>2 DEF Choose
  <2>6. CASE UNCHANGED vars
    BY <2>6 DEF vars
  <2> QED
    BY <2>1, <2>2, <2>3, <2>4, <2>5, <2>6 DEF Next, Done
<1> QED  BY <1>1, <1>2, PTL DEF Spec

-----------------------------------------------------------------------------
(* The loop invariant: latest[a] is the event in force for a among those   *)
(* the loop has seen, 0 if it has seen none.                               *)

\* Event j is one of the first n - 1, counts, and is by author a.
Seen(n, a, j) == j \in 1..(n - 1) /\ include(events[j]) /\ events[j].pubkey = a

Keeps(n, l) ==
    \A a \in Authors :
        /\ l[a] = 0 => \A j \in 1..Len(events) : ~Seen(n, a, j)
        /\ l[a] # 0 =>
             /\ Seen(n, a, l[a])
             /\ \A j \in 1..Len(events) : Seen(n, a, j) =>
                  \/ events[j].created_at < events[l[a]].created_at
                  \/ events[j].created_at = events[l[a]].created_at /\ l[a] <= j

LoopInv ==
    /\ TypeOK
    /\ pc = "answer" => i = 1
    /\ pc \in {"choose", "done"} => i = Len(events) + 1
    /\ Keeps(i, latest)
    /\ pc = "done" =>
         result = IF \E k \in Owners : Owners = {k} THEN CHOOSE k \in Owners : TRUE ELSE 0

LEMMA LoopInvariance == Spec => []LoopInv
<1>1. Init => LoopInv
  <2> SUFFICES ASSUME Init PROVE LoopInv
    OBVIOUS
  <2>1. TypeOK
    BY DEF Init, TypeOK
  <2> QED  BY <2>1 DEF Init, LoopInv, Keeps, Seen
<1>2. LoopInv /\ TypeOK' /\ [Next]_vars => LoopInv'
  <2> SUFFICES ASSUME LoopInv, TypeOK', [Next]_vars PROVE LoopInv'
    OBVIOUS
  <2>0. TypeOK /\ Keeps(i, latest) /\ i \in Nat
    BY DEF LoopInv, TypeOK
  <2>1. CASE Deliver \/ Resolve
    <3>1. i = 1 /\ i' = 1 /\ latest' = latest /\ pc' \in {"answer", "scan"}
      BY <2>1 DEF Deliver, Resolve, LoopInv
    <3>2. \A a \in Authors : latest[a] = 0
      BY <2>0, <3>1 DEF Keeps, Seen
    <3>3. Keeps(i, latest)'
      BY <3>1, <3>2 DEF Keeps, Seen
    <3> QED  BY <3>1, <3>3 DEF LoopInv
  <2>2. ASSUME UNCHANGED <<events, mode>>, Keeps(i', latest')
        PROVE  Keeps(i, latest)'
    BY <2>2 DEF Keeps, Seen, include
  <2>3. CASE Scan
    <3> DEFINE a == events[i].pubkey
               l == latest'
    <3>1. /\ i \in 1..Len(events) /\ i' = i + 1 /\ pc' = "scan"
          /\ UNCHANGED <<events, mode>>
          /\ l = IF include(events[i]) /\ Newer(a) THEN [latest EXCEPT ![a] = i] ELSE latest
          /\ latest \in [Authors -> 0..Len(events)]
      BY <2>0, <2>3 DEF Scan, TypeOK
    <3>2. a \in Authors /\ \A j \in 1..Len(events) : events[j].created_at \in Int
      BY <2>0, <3>1, EventFields
    <3>3. \A b, j : Seen(i + 1, b, j) <=>
             Seen(i, b, j) \/ (j = i /\ include(events[i]) /\ b = a)
      BY <3>1 DEF Seen
    <3> HIDE DEF l
    <3>4. ASSUME NEW b \in Authors
          PROVE  /\ l[b] = 0 => \A j \in 1..Len(events) : ~Seen(i + 1, b, j)
                 /\ l[b] # 0 =>
                     /\ Seen(i + 1, b, l[b])
                     /\ \A j \in 1..Len(events) : Seen(i + 1, b, j) =>
                          \/ events[j].created_at < events[l[b]].created_at
                          \/ events[j].created_at = events[l[b]].created_at /\ l[b] <= j
      <4>0. l[b] # 0 /\ l[b] = latest[b] => l[b] \in 1..Len(events)
        BY <3>1
      <4>1. CASE b # a \/ ~include(events[i])
        <5>1. l[b] = latest[b] /\ \A j : Seen(i + 1, b, j) <=> Seen(i, b, j)
          BY <3>1, <3>2, <3>3, <4>1
        <5> QED  BY <2>0, <5>1 DEF Keeps
      <4>2. CASE b = a /\ include(events[i]) /\ Newer(a)
        <5>1. l[b] = i /\ i # 0 /\ Seen(i + 1, b, i)
          BY <3>1, <3>2, <3>3, <4>2
        <5>2. ASSUME NEW j \in 1..Len(events), Seen(i + 1, b, j)
              PROVE  \/ events[j].created_at < events[i].created_at
                     \/ events[j].created_at = events[i].created_at /\ i <= j
          <6>1. CASE j = i
            BY <3>1, <6>1
          <6>2. CASE Seen(i, b, j)
            <7>1. latest[b] # 0 /\ latest[b] \in 1..Len(events)
              BY <2>0, <3>1, <6>2 DEF Keeps
            <7>2. events[i].created_at > events[latest[b]].created_at
              BY <4>2, <7>1 DEF Newer
            <7>3. \/ events[j].created_at < events[latest[b]].created_at
                  \/ events[j].created_at = events[latest[b]].created_at
              BY <2>0, <6>2, <7>1 DEF Keeps
            <7> QED  BY <3>1, <3>2, <7>1, <7>2, <7>3
          <6> QED  BY <3>3, <5>2, <6>1, <6>2
        <5> QED  BY <5>1, <5>2
      <4>3. CASE b = a /\ include(events[i]) /\ ~Newer(a)
        <5>1. l[b] = latest[b] /\ latest[b] # 0 /\ latest[b] \in 1..Len(events)
          BY <3>1, <4>3 DEF Newer
        <5>2. events[i].created_at <= events[latest[b]].created_at
          BY <3>1, <3>2, <4>3, <5>1 DEF Newer
        <5>3. Seen(i, b, latest[b])
          BY <2>0, <5>1 DEF Keeps
        <5>4. Seen(i + 1, b, latest[b]) /\ latest[b] <= i
          BY <3>1, <3>3, <5>1, <5>3 DEF Seen
        <5>5. ASSUME NEW j \in 1..Len(events), Seen(i + 1, b, j)
              PROVE  \/ events[j].created_at < events[latest[b]].created_at
                     \/ events[j].created_at = events[latest[b]].created_at /\ latest[b] <= j
          <6>1. CASE j = i
            BY <3>1, <3>2, <5>1, <5>2, <5>4, <6>1
          <6>2. CASE Seen(i, b, j)
            BY <2>0, <5>1, <6>2 DEF Keeps
          <6> QED  BY <3>3, <5>5, <6>1, <6>2
        <5> QED  BY <5>1, <5>4, <5>5
      <4> QED  BY <4>1, <4>2, <4>3
    <3>5. Keeps(i', l)
      BY <3>1, <3>4 DEF Keeps
    <3>6. Keeps(i, latest)'
      BY <2>2, <3>1, <3>5 DEF l
    <3> QED  BY <3>1, <3>6 DEF LoopInv
  <2>4. CASE ScanEnds
    <3>1. Keeps(i, latest)'
      BY <2>0, <2>2, <2>4 DEF ScanEnds
    <3> QED  BY <2>4, <3>1 DEF ScanEnds, LoopInv
  <2>5. CASE Choose
    <3>1. Keeps(i, latest)' /\ i' = Len(events') + 1
      BY <2>0, <2>2, <2>5 DEF Choose, LoopInv
    <3>2. Owners' = Owners
      BY <2>5 DEF Choose, Owners, Kept
    <3> QED  BY <2>5, <3>1, <3>2 DEF Choose, LoopInv
  <2>6. CASE UNCHANGED vars
    <3>1. Keeps(i, latest)'
      BY <2>0, <2>2, <2>6 DEF vars
    <3>2. Owners' = Owners
      BY <2>6 DEF vars, Owners, Kept
    <3> QED  BY <2>6, <3>1, <3>2 DEF vars, LoopInv
  <2> QED
    BY <2>1, <2>3, <2>4, <2>5, <2>6 DEF Next, Done
<1> QED  BY <1>1, <1>2, TypeCorrect, PTL DEF Spec

\* The pass over the answer finds exactly the claim UNIP-01 asks for: the one
\* event in force that claims the nametag, None if several do or none does.
THEOREM ResolutionIsCorrect == Spec => []OwnerCorrect
<1>1. LoopInv => OwnerCorrect
  <2> SUFFICES ASSUME LoopInv, pc = "done"
               PROVE  IF \E j \in Claims(events) : Claims(events) = {j}
                      THEN Claims(events) = {result} ELSE result = 0
    BY DEF OwnerCorrect
  <2>0. /\ TypeOK /\ Keeps(i, latest) /\ i = Len(events) + 1 /\ Len(events) \in Nat
        /\ DOMAIN events = 1..Len(events)
    BY DEF LoopInv, TypeOK
  <2>1. \A a \in Authors, j \in 1..Len(events) :
          Seen(i, a, j) <=> j \in Counted(events) /\ events[j].pubkey = a
    BY <2>0 DEF Seen, Counted
  <2>2. \A j \in 1..Len(events) : events[j].pubkey \in Authors /\ events[j].created_at \in Int
    BY <2>0, EventFields
  <2>3. Kept \subseteq InForce(events)
    <3> SUFFICES ASSUME NEW a \in Authors, latest[a] # 0 PROVE latest[a] \in InForce(events)
      BY DEF Kept
    <3>1. latest[a] \in 1..Len(events) /\ Seen(i, a, latest[a])
      BY <2>0 DEF TypeOK, Keeps
    <3>2. latest[a] \in Counted(events) /\ events[latest[a]].pubkey = a
      BY <2>1, <3>1
    <3>3. ASSUME NEW k \in Counted(events), events[k].pubkey = a
          PROVE  \/ events[k].created_at < events[latest[a]].created_at
                 \/ events[k].created_at = events[latest[a]].created_at /\ latest[a] <= k
      <4>1. k \in 1..Len(events)
        BY <2>0 DEF Counted
      <4>2. Seen(i, a, k)
        BY <2>1, <3>3, <4>1
      <4> QED  BY <2>0, <4>1, <4>2 DEF Keeps
    <3> QED  BY <3>2, <3>3 DEF InForce
  <2>4. InForce(events) \subseteq Kept
    <3> SUFFICES ASSUME NEW j \in InForce(events) PROVE j \in Kept
      OBVIOUS
    <3> DEFINE a == events[j].pubkey
    <3>1. j \in Counted(events) /\ j \in 1..Len(events) /\ a \in Authors /\ Seen(i, a, j)
      BY <2>0, <2>1, <2>2 DEF InForce, Counted
    <3>2. latest[a] # 0 /\ Seen(i, a, latest[a])
      BY <2>0, <3>1 DEF Keeps
    <3>3. latest[a] \in 1..Len(events)
      BY <2>0, <3>1, <3>2 DEF TypeOK
    <3>4. latest[a] \in Counted(events) /\ events[latest[a]].pubkey = a
      BY <2>1, <3>1, <3>2, <3>3
    <3>5. \/ events[latest[a]].created_at < events[j].created_at
          \/ events[latest[a]].created_at = events[j].created_at /\ j <= latest[a]
      BY <3>4 DEF InForce
    <3>6. \/ events[j].created_at < events[latest[a]].created_at
          \/ events[j].created_at = events[latest[a]].created_at /\ latest[a] <= j
      BY <2>0, <3>1, <3>2 DEF Keeps
    <3>7. latest[a] = j
      BY <2>2, <3>1, <3>3, <3>5, <3>6
    <3> QED  BY <3>1, <3>2, <3>7 DEF Kept
  <2>5. Owners = Claims(events)
    BY <2>3, <2>4 DEF Owners, Claims
  <2>6. result = IF \E k \in Owners : Owners = {k} THEN CHOOSE k \in Owners : TRUE ELSE 0
    BY DEF LoopInv
  <2>7. ASSUME NEW k \in Owners, Owners = {k} PROVE result = k
    BY <2>6, <2>7
  <2> QED  BY <2>5, <2>6, <2>7
<1> QED  BY <1>1, LoopInvariance, PTL

-----------------------------------------------------------------------------
(* The owner the pass finds is the one the rule names.                     *)

\* Each author has at most one event in force.
LEMMA OneInForce ==
    ASSUME NEW q \in Seq(Event), NEW j \in InForce(q), NEW k \in InForce(q),
           q[j].pubkey = q[k].pubkey
    PROVE  j = k
<1>1. j \in 1..Len(q) /\ k \in 1..Len(q) /\ j \in Counted(q) /\ k \in Counted(q)
  BY DEF InForce, Counted
<1>2. q[j] \in Event /\ q[k] \in Event
  BY <1>1
<1>3. q[j].created_at \in Int /\ q[k].created_at \in Int
  BY <1>2, ResolutionAssumption DEF Event
<1>4. /\ \/ q[k].created_at < q[j].created_at
         \/ q[k].created_at = q[j].created_at /\ j <= k
      /\ \/ q[j].created_at < q[k].created_at
         \/ q[j].created_at = q[k].created_at /\ k <= j
  BY <1>1 DEF InForce
<1> QED  BY <1>1, <1>3, <1>4

LEMMA OwnerIsResult ==
    ASSUME LoopInv, OwnerCorrect, pc = "done" PROVE ResultOwner = Owner(events)
<1>0. events \in Seq(Event) /\ result \in 0..Len(events)
  BY DEF LoopInv, TypeOK
<1>1. CASE \E j \in Claims(events) : Claims(events) = {j}
  <2>1. Claims(events) = {result}
    BY <1>1 DEF OwnerCorrect
  <2>2. result \in 1..Len(events)
    <3>1. result \in Claims(events)
      BY <2>1
    <3>2. result \in Counted(events)
      BY <3>1 DEF Claims, InForce
    <3> QED  BY <1>0, <3>2 DEF Counted
  <2>3. Claimants(events) = {events[result].pubkey} /\ events[result].pubkey \in Authors
    BY <1>0, <2>1, <2>2, EventFields DEF Claimants, LoopInv
  <2> QED  BY <2>2, <2>3 DEF ResultOwner, Owner
<1>2. CASE ~\E j \in Claims(events) : Claims(events) = {j}
  <2>1. result = 0
    BY <1>2 DEF OwnerCorrect
  <2>2. ASSUME NEW a \in Authors, Claimants(events) = {a} PROVE FALSE
    <3>1. PICK j \in Claims(events) : events[j].pubkey = a
      BY <2>2 DEF Claimants
    <3>2. \A k \in Claims(events) : events[k].pubkey = a
      BY <2>2 DEF Claimants
    <3>3. Claims(events) \subseteq InForce(events)
      BY DEF Claims
    <3>4. \A k \in Claims(events) : k = j
      BY <1>0, <3>1, <3>2, <3>3, OneInForce
    <3> QED  BY <1>2, <3>1, <3>4
  <2> QED  BY <2>1, <2>2 DEF ResultOwner, Owner
<1> QED  BY <1>1, <1>2

LEMMA ResultInv == Spec => [](LoopInv /\ OwnerCorrect)
BY LoopInvariance, ResolutionIsCorrect, PTL

\* However many bindings without the marker there are, and by whom, a key that
\* alone made marked bindings of the nametag owns it, if its latest is marked.
THEOREM ClaimantWins == Spec => []SoleClaimantWins
<1>1. LoopInv /\ OwnerCorrect => SoleClaimantWins
  <2> SUFFICES ASSUME LoopInv, OwnerCorrect, pc = "done", NEW a \in Authors,
                      NEW j \in InForce(events), events[j].pubkey = a, events[j].marked,
                      \A k \in Counted(events) : events[k].marked => events[k].pubkey = a
               PROVE  ResultOwner = {a}
    BY DEF SoleClaimantWins
  <2>0. events \in Seq(Event)
    BY DEF LoopInv, TypeOK
  <2>1. j \in Claims(events) /\ \A k \in Claims(events) : k \in InForce(events) /\ events[k].marked
    BY DEF Claims, has_ownership_marker
  <2>2. \A k \in Claims(events) : k = j
    BY <2>0, <2>1, OneInForce DEF InForce
  <2>3. Claims(events) = {result} /\ result = j
    BY <2>1, <2>2 DEF OwnerCorrect
  <2>4. result # 0
    BY <2>0, <2>3 DEF InForce, Counted
  <2> QED  BY <2>3, <2>4 DEF ResultOwner
<1> QED  BY <1>1, ResultInv, PTL

\* The answer with every event of author a dated s later.
Redated(a, s) ==
    [j \in DOMAIN events |->
        IF events[j].pubkey = a THEN [events[j] EXCEPT !.created_at = @ + s] ELSE events[j]]

LEMMA RedatedFields ==
    ASSUME TypeOK, NEW a, NEW s \in Int, NEW j \in 1..Len(events)
    PROVE  /\ Redated(a, s)[j].created_at =
                IF events[j].pubkey = a THEN events[j].created_at + s ELSE events[j].created_at
           /\ Redated(a, s)[j].pubkey = events[j].pubkey
           /\ Redated(a, s)[j].marked = events[j].marked
           /\ include(Redated(a, s)[j]) <=> include(events[j])
<1>1. events[j] \in Event /\ DOMAIN events = 1..Len(events) /\ mode \in {"nametag", "owner"}
  BY DEF TypeOK
<1> DEFINE e == events[j]
           f == [e EXCEPT !.created_at = @ + s]
<1>2. /\ f.created_at = e.created_at + s /\ f.pubkey = e.pubkey /\ f.marked = e.marked
      /\ f.kind = e.kind /\ f.d = e.d /\ f.content = e.content /\ f.sig = e.sig
  BY <1>1 DEF Event
<1>3. Redated(a, s)[j] = IF e.pubkey = a THEN f ELSE e
  BY <1>1 DEF Redated
<1> HIDE DEF e, f
<1>4. include(f) <=> include(e)
  BY <1>1, <1>2 DEF include, is_valid_binding_event, verify
<1> QED  BY <1>2, <1>3, <1>4 DEF e

\* Redating one author's events by any amount, forwards or backwards, changes
\* neither the owner nor whether there is one.
LEMMA RedatingIsIdle ==
    ASSUME TypeOK, NEW a, NEW s \in Int
    PROVE  Owner(Redated(a, s)) = Owner(events)
<1> DEFINE q == events
           r == Redated(a, s)
<1>0. DOMAIN r = DOMAIN q /\ DOMAIN q = 1..Len(q) /\ \A j \in 1..Len(q) : q[j].created_at \in Int
  BY EventFields DEF TypeOK, Redated
<1>1. \A j \in 1..Len(q) :
        /\ r[j].created_at = IF q[j].pubkey = a THEN q[j].created_at + s ELSE q[j].created_at
        /\ r[j].pubkey = q[j].pubkey /\ r[j].marked = q[j].marked
        /\ include(r[j]) <=> include(q[j])
  BY RedatedFields
<1> HIDE DEF q, r
<1>2. Counted(r) = Counted(q)
  BY <1>0, <1>1 DEF Counted
<1>3. InForce(r) = InForce(q)
  <2>1. \A j, k \in 1..Len(q) : q[k].pubkey = q[j].pubkey =>
          /\ r[k].created_at < r[j].created_at <=> q[k].created_at < q[j].created_at
          /\ r[k].created_at = r[j].created_at <=> q[k].created_at = q[j].created_at
    BY <1>0, <1>1
  <2>2. Counted(q) \subseteq 1..Len(q)
    BY <1>0 DEF Counted
  <2> QED  BY <1>1, <1>2, <2>1, <2>2 DEF InForce
<1>4. InForce(q) \subseteq 1..Len(q)
  BY <1>0 DEF InForce, Counted
<1>5. Claims(r) = Claims(q)
  BY <1>1, <1>3, <1>4 DEF Claims, has_ownership_marker
<1>6. Claims(q) \subseteq 1..Len(q)
  BY <1>4 DEF Claims
<1>7. Claimants(r) = Claimants(q)
  BY <1>1, <1>5, <1>6 DEF Claimants
<1>8. Owner(r) = Owner(q)
  BY <1>7 DEF Owner
<1> QED  BY <1>8 DEF q, r

\* created_at decides among one author's events and never between authors.
THEOREM ClockIsIdle == Spec => []ClockNeverChooses
<1>1. LoopInv /\ OwnerCorrect => ClockNeverChooses
  <2> SUFFICES ASSUME LoopInv, OwnerCorrect, pc = "done", NEW a \in Authors, NEW s \in {-2, 2}
               PROVE  ResultOwner = Owner(Redated(a, s))
    BY DEF ClockNeverChooses, Redated
  <2>1. TypeOK /\ s \in Int
    BY DEF LoopInv
  <2> QED  BY <2>1, OwnerIsResult, RedatingIsIdle
<1> QED  BY <1>1, ResultInv, PTL

-----------------------------------------------------------------------------
(* The order in which the relay delivers the events.                       *)

\* Of finitely many indices, one is the least.
LEMMA Least ==
    ASSUME NEW n \in Nat, NEW T, T \subseteq 1..n, T # {}
    PROVE  \E j \in T : \A k \in T : j <= k
<1> DEFINE Prefixes == {1..j : j \in T}
<1>1. IsWellFoundedOn(StrictSubsetOrdering(1..n), FiniteSubsetsOf(1..n))
  BY FS_StrictSubsetOrderingWellFounded
<1>2. FiniteSubsetsOf(1..n) = SUBSET (1..n)
  <2>1. IsFiniteSet(1..n)
    BY FS_Interval
  <2> QED  BY <2>1, FS_FiniteSubsetsOfFinite
<1>3. Prefixes \subseteq SUBSET (1..n) /\ Prefixes # {}
  <2>1. \A j \in T : 1..j \subseteq 1..n
    OBVIOUS
  <2> QED  BY <2>1, Zenon
<1> HIDE DEF Prefixes
<1>4. PICK x \in Prefixes : \A y \in Prefixes : <<y, x>> \notin StrictSubsetOrdering(1..n)
  BY <1>1, <1>2, <1>3, WFMin
<1>5. \A y \in Prefixes : y \subseteq x => y = x
  BY <1>3, <1>4 DEF StrictSubsetOrdering
<1>6. PICK j \in T : x = 1..j
  BY <1>4 DEF Prefixes
<1>7. ASSUME NEW k \in T, k < j PROVE FALSE
  <2>1. 1..k \in Prefixes
    BY DEF Prefixes
  <2>2. j \in 1..j /\ j \notin 1..k /\ 1..k \subseteq 1..j
    BY <1>7
  <2> QED  BY <1>5, <1>6, <2>1, <2>2
<1> QED  BY <1>7

LEMMA Antisymmetric ==
    ASSUME NEW x \in Int, NEW y \in Int, x < y \/ x = y, y < x \/ y = x
    PROVE  x = y
OBVIOUS

\* One step round a circle of n places, and its inverse.
LEMMA TurnIs ==
    ASSUME NEW n \in Nat, NEW j \in 1..n
    PROVE  1 + (j % n) = (IF j = n THEN 1 ELSE j + 1) /\ 1 + (j % n) \in 1..n
<1>1. j # n => j % n = j
  OBVIOUS
<1>2. n # 0 => n % n = 0
  OBVIOUS
<1> QED  BY <1>1, <1>2

LEMMA TurnOnto ==
    ASSUME NEW n \in Nat, NEW k \in 1..n
    PROVE  \E j \in 1..n : (IF j = n THEN 1 ELSE j + 1) = k
<1>1. CASE k = 1
  <2>1. n \in 1..n
    OBVIOUS
  <2> QED  BY <1>1, <2>1
<1>2. CASE k # 1
  <2>1. k - 1 \in 1..n /\ k - 1 # n /\ (k - 1) + 1 = k
    BY <1>2
  <2> QED  BY <2>1
<1> QED  BY <1>1, <1>2

\* Answer r holds the events of the given answer, from index p(j) on index j;
\* unless an author has two equally new ones of which one is marked, it has the
\* same owner.
LEMMA OrderIsIdle ==
    ASSUME LoopInv, pc = "done", NoTies, NEW p, NEW r \in Seq(Event), Len(r) = Len(events),
           \A j \in 1..Len(events) : p[j] \in 1..Len(events) /\ r[j] = events[p[j]],
           \A k \in 1..Len(events) : \E j \in 1..Len(events) : p[j] = k
    PROVE  Owner(r) = Owner(events)
<1> DEFINE n == Len(events)
<1>0. /\ n \in Nat /\ DOMAIN events = 1..n /\ DOMAIN r = 1..n
      /\ \A j \in 1..n : events[j].pubkey \in Authors /\ events[j].created_at \in Int
      /\ TypeOK /\ Keeps(n + 1, latest) /\ events \in Seq(Event)
  BY EventFields DEF LoopInv, TypeOK
<1>1. \A j \in 1..n : j \in Counted(r) <=> p[j] \in Counted(events)
  BY <1>0 DEF Counted
<1>2. Counted(events) \subseteq 1..n /\ Counted(r) \subseteq 1..n
  BY <1>0 DEF Counted
\* Both answers have an event of a in force if either counts one, with one time.
<1>3. ASSUME NEW j \in InForce(events)
      PROVE  \E k \in InForce(r) : r[k].pubkey = events[j].pubkey /\ (r[k].marked <=> events[j].marked)
  <2> DEFINE a == events[j].pubkey
             t == events[j].created_at
             T == {k \in Counted(r) : r[k].pubkey = a /\ r[k].created_at = t}
  <2>1. j \in Counted(events) /\ j \in 1..n
    BY <1>2 DEF InForce
  <2>2. \A k \in Counted(events) : events[k].pubkey = a =>
          events[k].created_at < t \/ (events[k].created_at = t /\ j <= k)
    BY DEF InForce
  <2>3. T \subseteq 1..n /\ T # {}
    <3>1. PICK k \in 1..n : p[k] = j
      BY <2>1
    <3>2. k \in T
      BY <1>1, <2>1, <3>1
    <3> QED  BY <1>2, <3>2
  <2> HIDE DEF T
  <2>4. PICK k \in T : \A l \in T : k <= l
    BY <1>0, <2>3, Least
  <2>5. k \in Counted(r) /\ k \in 1..n /\ r[k].pubkey = a /\ r[k].created_at = t
    BY <2>3, <2>4 DEF T
  <2>6. ASSUME NEW l \in Counted(r), r[l].pubkey = a
        PROVE  r[l].created_at < t \/ (r[l].created_at = t /\ k <= l)
    <3>1. l \in 1..n /\ p[l] \in Counted(events) /\ r[l] = events[p[l]]
      BY <1>1, <1>2
    <3>2. r[l].created_at < t \/ r[l].created_at = t
      BY <2>2, <2>6, <3>1
    <3>3. r[l].created_at = t => l \in T
      BY <2>6 DEF T
    <3> QED  BY <2>4, <3>2, <3>3
  <2>7. k \in InForce(r)
    BY <2>5, <2>6 DEF InForce
  <2>8. r[k].marked <=> events[j].marked
    <3>1. p[k] \in Counted(events) /\ r[k] = events[p[k]]
      BY <1>1, <2>5
    <3>2. events[p[k]].marked = events[j].marked
      BY <2>1, <2>5, <3>1 DEF NoTies
    <3> QED  BY <3>1, <3>2
  <2> QED  BY <2>5, <2>7, <2>8
<1>4. ASSUME NEW k \in InForce(r)
      PROVE  \E j \in InForce(events) : events[j].pubkey = r[k].pubkey /\ (events[j].marked <=> r[k].marked)
  <2> DEFINE a == r[k].pubkey
             l == latest[a]
  <2>1. k \in Counted(r) /\ k \in 1..n /\ p[k] \in Counted(events) /\ p[k] \in 1..n /\ r[k] = events[p[k]]
    BY <1>1, <1>2 DEF InForce
  <2>2. a \in Authors /\ Seen(n + 1, a, p[k])
    <3>1. a = events[p[k]].pubkey /\ a \in Authors
      BY <1>0, <2>1
    <3>2. include(events[p[k]])
      BY <2>1 DEF Counted
    <3>3. p[k] \in 1..(n + 1) - 1
      BY <1>0, <2>1
    <3> QED  BY <3>1, <3>2, <3>3 DEF Seen
  <2>3. /\ l # 0 /\ Seen(n + 1, a, l)
        /\ \A j \in 1..n : Seen(n + 1, a, j) =>
             \/ events[j].created_at < events[l].created_at
             \/ events[j].created_at = events[l].created_at /\ l <= j
    BY <1>0, <2>1, <2>2 DEF Keeps
  <2>4. l \in 1..n /\ l \in Counted(events) /\ events[l].pubkey = a
    BY <1>0, <2>3 DEF Seen, Counted
  <2>5. l \in InForce(events)
    <3>1. \A j \in Counted(events) : events[j].pubkey = a => j \in 1..n /\ Seen(n + 1, a, j)
      BY <1>0, <1>2 DEF Seen, Counted
    <3> QED  BY <2>3, <2>4, <3>1 DEF InForce
  <2> HIDE DEF l
  <2>6. events[l].created_at = r[k].created_at
    <3>1. PICK j \in 1..n : p[j] = l
      BY <2>4
    <3>2. j \in Counted(r) /\ r[j] = events[l]
      BY <1>1, <2>4, <3>1
    <3>3. r[j].created_at < r[k].created_at \/ r[j].created_at = r[k].created_at
      BY <2>4, <3>2 DEF InForce
    <3>4. events[p[k]].created_at < events[l].created_at \/ events[p[k]].created_at = events[l].created_at
      BY <2>1, <2>2, <2>3
    <3>5. events[l].created_at \in Int /\ r[k].created_at \in Int
      BY <1>0, <2>1, <2>4
    <3>6. events[l].created_at < r[k].created_at \/ events[l].created_at = r[k].created_at
      BY <3>2, <3>3
    <3>7. r[k].created_at < events[l].created_at \/ r[k].created_at = events[l].created_at
      BY <2>1, <3>4
    <3> QED  BY <3>5, <3>6, <3>7, Antisymmetric
  <2>7. events[p[k]].marked = events[l].marked
    <3>1. /\ events[p[k]].pubkey = events[l].pubkey
          /\ events[p[k]].created_at = events[l].created_at
      BY <2>1, <2>4, <2>6
    <3> QED  BY <2>1, <2>4, <3>1 DEF NoTies
  <2> QED  BY <2>1, <2>4, <2>5, <2>7
<1>5. \A u, a : a \in Claimants(u) <=>
        \E j \in InForce(u) : /\ u[j].pubkey = a
                              /\ u[j].marked \/ \A k \in InForce(u) : ~u[k].marked
  BY DEF Claimants, Claims, has_ownership_marker
<1>6. Claimants(r) = Claimants(events)
  <2>1. (\A j \in InForce(r) : ~r[j].marked) <=> (\A j \in InForce(events) : ~events[j].marked)
    BY <1>3, <1>4
  <2>2. ASSUME NEW a PROVE a \in Claimants(r) <=> a \in Claimants(events)
    <3>1. ASSUME a \in Claimants(r) PROVE a \in Claimants(events)
      <4>1. PICK k \in InForce(r) : /\ r[k].pubkey = a
                                    /\ r[k].marked \/ \A j \in InForce(r) : ~r[j].marked
        BY <1>5, <3>1
      <4> QED  BY <1>4, <1>5, <2>1, <4>1
    <3>2. ASSUME a \in Claimants(events) PROVE a \in Claimants(r)
      <4>1. PICK j \in InForce(events) :
              /\ events[j].pubkey = a
              /\ events[j].marked \/ \A k \in InForce(events) : ~events[k].marked
        BY <1>5, <3>2
      <4> QED  BY <1>3, <1>5, <2>1, <4>1
    <3> QED  BY <3>1, <3>2
  <2> QED  BY <2>2 DEF Claimants
<1> QED  BY <1>6 DEF Owner

\* Reversing or rotating the answer changes nothing unless one author has two
\* equally new events, one marked, one not (OrderIsIdle: nor does any other
\* rearrangement).
THEOREM OrderDoesNotMatter == Spec => []OrderIrrelevant
<1>1. LoopInv /\ OwnerCorrect => OrderIrrelevant
  <2> SUFFICES ASSUME LoopInv, OwnerCorrect, pc = "done", NoTies
               PROVE  ResultOwner = Owner(Reversed) /\ ResultOwner = Owner(Rotated)
    BY DEF OrderIrrelevant
  <2> DEFINE n == Len(events)
             back == [j \in 1..n |-> n + 1 - j]
             turn == [j \in 1..n |-> IF j = n THEN 1 ELSE j + 1]
  <2>0. events \in Seq(Event) /\ n \in Nat /\ DOMAIN events = 1..n
        /\ \A j \in 1..n : events[j] \in Event
    BY DEF LoopInv, TypeOK
  <2>1. Owner(Reversed) = Owner(events)
    <3>1. Reversed = [j \in 1..n |-> events[back[j]]] /\ \A j \in 1..n : back[j] \in 1..n
      BY <2>0 DEF Reversed
    <3>2. \A k \in 1..n : back[k] \in 1..n /\ back[back[k]] = k
      BY <2>0
    <3> HIDE DEF back
    <3>3. /\ Reversed \in Seq(Event) /\ Len(Reversed) = n
          /\ \A j \in 1..n : back[j] \in 1..n /\ Reversed[j] = events[back[j]]
      BY <2>0, <3>1
    <3> QED  BY <3>2, <3>3, OrderIsIdle
  <2>2. Owner(Rotated) = Owner(events)
    <3>1. \A j \in 1..n : 1 + (j % n) = turn[j] /\ turn[j] \in 1..n
      <4>1. ASSUME NEW j \in 1..n
            PROVE  1 + (j % n) = (IF j = n THEN 1 ELSE j + 1) /\ 1 + (j % n) \in 1..n
        <5> HIDE DEF n
        <5> QED  BY <2>0, TurnIs
      <4> QED  BY <4>1
    <3>2. \A k \in 1..n : \E j \in 1..n : turn[j] = k
      BY <2>0, TurnOnto
    <3> HIDE DEF turn
    <3>3. Rotated = [j \in 1..n |-> events[turn[j]]]
      BY <2>0, <3>1 DEF Rotated
    <3>4. /\ Rotated \in Seq(Event) /\ Len(Rotated) = n
          /\ \A j \in 1..n : turn[j] \in 1..n /\ Rotated[j] = events[turn[j]]
      BY <2>0, <3>1, <3>3
    <3> QED  BY <3>2, <3>4, OrderIsIdle
  <2> QED  BY <2>1, <2>2, OwnerIsResult
<1> QED  BY <1>1, ResultInv, PTL

-----------------------------------------------------------------------------
(* What does not match the query.                                          *)

\* Of a nametag's query, the events that match are the ones that count.
LEMMA MatchingCounts ==
    ASSUME mode = "nametag", NEW e PROVE Matches(e) <=> include(e)
<1>1. Want # "none"
  BY ResolutionAssumption
<1> QED  BY <1>1 DEF Matches, include, is_valid_binding_event, verify

\* Answer r holds, in their order, the events of the given answer at the indices
\* p, among them all that count: it has the same owner.
LEMMA RemainderIsIdle ==
    ASSUME TypeOK, NEW p \in Remainders,
           \A k \in DOMAIN events : include(events[k]) => \E j \in DOMAIN p : p[j] = k
    PROVE  Owner([j \in DOMAIN p |-> events[p[j]]]) = Owner(events)
<1> DEFINE n == Len(events)
           r == [j \in DOMAIN p |-> events[p[j]]]
<1>0. DOMAIN events = 1..n /\ n \in Nat
  BY DEF TypeOK
<1>1. PICK m \in 0..n : p \in [1..m -> 1..n] /\ \A j, k \in 1..m : j < k => p[j] < p[k]
  BY <1>0 DEF Remainders
<1>2. /\ DOMAIN p = 1..m /\ DOMAIN r = 1..m /\ m \in Nat
      /\ \A j \in 1..m : p[j] \in 1..n /\ r[j] = events[p[j]]
  BY <1>0, <1>1
<1>3. \A j, k \in 1..m : j <= k <=> p[j] <= p[k]
  <2> SUFFICES ASSUME NEW j \in 1..m, NEW k \in 1..m PROVE j <= k <=> p[j] <= p[k]
    OBVIOUS
  <2>1. p[j] \in Int /\ p[k] \in Int /\ j \in Int /\ k \in Int
    BY <1>2
  <2>2. j < k => p[j] < p[k]
    BY <1>1
  <2>3. k < j => p[k] < p[j]
    BY <1>1
  <2>4. j = k => p[j] = p[k]
    OBVIOUS
  <2> QED  BY <2>1, <2>2, <2>3, <2>4
<1> HIDE DEF r
<1>4. /\ \A j \in 1..m : j \in Counted(r) <=> p[j] \in Counted(events)
      /\ \A k \in Counted(events) : \E j \in Counted(r) : p[j] = k
      /\ Counted(r) \subseteq 1..m /\ Counted(events) \subseteq 1..n
  BY <1>0, <1>2 DEF Counted
<1>5. /\ \A j \in 1..m : j \in InForce(r) <=> p[j] \in InForce(events)
      /\ \A k \in InForce(events) : \E j \in InForce(r) : p[j] = k
      /\ InForce(r) \subseteq 1..m
  <2>1. ASSUME NEW j \in Counted(r)
        PROVE  j \in InForce(r) <=> p[j] \in InForce(events)
    <3>1. j \in 1..m /\ p[j] \in Counted(events)
      BY <1>4
    <3>2. ASSUME j \in InForce(r), NEW k \in Counted(events), events[k].pubkey = events[p[j]].pubkey
          PROVE  \/ events[k].created_at < events[p[j]].created_at
                 \/ events[k].created_at = events[p[j]].created_at /\ p[j] <= k
      <4>1. PICK l \in Counted(r) : p[l] = k
        BY <1>4
      <4>2. l \in 1..m /\ r[l] = events[k] /\ r[j] = events[p[j]]
        BY <1>2, <1>4, <3>1, <4>1
      <4>3. \/ r[l].created_at < r[j].created_at
            \/ r[l].created_at = r[j].created_at /\ j <= l
        BY <3>2, <4>2 DEF InForce
      <4>4. j <= l => p[j] <= k
        BY <1>3, <3>1, <4>1, <4>2
      <4> QED  BY <4>2, <4>3, <4>4
    <3>3. ASSUME p[j] \in InForce(events), NEW l \in Counted(r), r[l].pubkey = r[j].pubkey
          PROVE  \/ r[l].created_at < r[j].created_at
                 \/ r[l].created_at = r[j].created_at /\ j <= l
      <4>1. /\ l \in 1..m /\ p[l] \in Counted(events)
            /\ r[l] = events[p[l]] /\ r[j] = events[p[j]]
        BY <1>2, <1>4, <3>1
      <4>2. \/ r[l].created_at < r[j].created_at
            \/ r[l].created_at = r[j].created_at /\ p[j] <= p[l]
        BY <3>3, <4>1 DEF InForce
      <4>3. p[j] <= p[l] => j <= l
        BY <1>3, <3>1, <4>1
      <4> QED  BY <4>2, <4>3
    <3>4. r[j] = events[p[j]]
      BY <1>2, <3>1
    <3> QED  BY <3>1, <3>2, <3>3 DEF InForce
  <2>2. InForce(r) \subseteq Counted(r) /\ InForce(events) \subseteq Counted(events)
    BY DEF InForce
  <2> QED  BY <1>4, <2>1, <2>2
<1>6. /\ \A j \in 1..m : j \in Claims(r) <=> p[j] \in Claims(events)
      /\ \A k \in Claims(events) : \E j \in Claims(r) : p[j] = k
      /\ Claims(r) \subseteq 1..m
  <2>1. \A j \in 1..m : has_ownership_marker(r[j]) <=> has_ownership_marker(events[p[j]])
    BY <1>2
  <2>2. (\E j \in InForce(r) : has_ownership_marker(r[j]))
          <=> \E k \in InForce(events) : has_ownership_marker(events[k])
    BY <1>5, <2>1
  <2> QED  BY <1>5, <2>1, <2>2 DEF Claims
<1>7. Claimants(r) = Claimants(events)
  <2>1. \A j \in Claims(r) : p[j] \in Claims(events) /\ r[j] = events[p[j]]
    BY <1>2, <1>6
  <2> QED  BY <1>6, <2>1 DEF Claimants
<1> QED  BY <1>7 DEF Owner, r

\* Whatever a relay adds to an answer that does not match the query, and wherever,
\* the owner of the nametag stays the same.
THEOREM InjectionIsHarmless == Spec => []InjectionHarmless
<1>1. LoopInv /\ OwnerCorrect => InjectionHarmless
  <2> SUFFICES ASSUME LoopInv, OwnerCorrect, pc = "done", mode = "nametag", NEW p \in Remainders,
                      \A k \in DOMAIN events : Matches(events[k]) => \E j \in DOMAIN p : p[j] = k
               PROVE  ResultOwner = Owner([j \in DOMAIN p |-> events[p[j]]])
    BY DEF InjectionHarmless
  <2>1. TypeOK
    BY DEF LoopInv
  <2>2. \A k \in DOMAIN events : include(events[k]) => \E j \in DOMAIN p : p[j] = k
    BY MatchingCounts
  <2> QED  BY <2>1, <2>2, OwnerIsResult, RemainderIsIdle
<1> QED  BY <1>1, ResultInv, PTL
=============================================================================
