-------------------------- MODULE RelayRefinement --------------------------
(***************************************************************************)
(* RelayClient implements RelayService: the frames, the challenges, the    *)
(* second sends, the subscriptions and the breaking connection of the      *)
(* former are steps that the caller of the latter does not see.            *)
(***************************************************************************)
EXTENDS RelayClient

\* The call in progress, as the caller sees it.
CallInProgress ==
    IF pc \in {"publish", "resend"} THEN "publish" ELSE IF InQuery THEN "query" ELSE "none"

\* What the last call returned, if it was publish or query.
LastResult ==
    LET done(ids) == [op |-> ret.op, out |-> ret.out, id |-> ret.id, ids |-> ids]
    IN  IF CallInProgress # "none" \/ ret.op \notin {"publish", "query"}
        THEN [op |-> "none", out |-> "none", id |-> NoId, ids |-> {}]
        ELSE done(IF ret.op = "query" /\ ret.out # "error" THEN Got ELSE {})

Service ==
    INSTANCE RelayService WITH
        store  <- stored,
        call   <- CallInProgress,
        event  <- id,
        asked  <- snap,
        result <- LastResult

\* To its caller the client is the service: every step of it is a step of the
\* service or none.  So a call returns once, with a verdict on its own event or an
\* answer to its own question, and what it returns is so at that moment.
ServiceSpec == Service!Spec
=============================================================================
