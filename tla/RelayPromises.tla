--------------------------- MODULE RelayPromises ---------------------------
(***************************************************************************)
(* What the publish and query of RelayClient (src/src/client/mod.rs)       *)
(* promise to their caller, as conditions on what they return: used where  *)
(* a call takes many steps (RelayService) and where it is seen as one      *)
(* (MultiRelay).                                                           *)
(***************************************************************************)

\* publish may report out for event e when the relay's store is store: only an
\* acceptance says anything.  A publish that is rejected, times out or fails may
\* have stored the event.
MayReport(out, e, store) == out = "accepted" => e \in store

\* query may return the events ids, when the valid events in the store were asked
\* at the call and are store at the return: nothing the relay never held, and if
\* the answer is complete, everything it held when it was asked.
MayAnswer(complete, ids, asked, store) ==
    ids \subseteq store /\ (complete => asked \subseteq ids)
=============================================================================
