-------------------------- MODULE NativeConnection --------------------------
(***************************************************************************)
(* NativeConnection of src/src/client/native.rs: recv with a timeout over  *)
(* a blocking WebSocket, whose stream carries text frames, control frames, *)
(* frames of other kinds and malformed ones, and may deliver a frame in    *)
(* pieces.                                                                 *)
(*                                                                         *)
(* Time is discrete and passes only while the thread is blocked in a read; *)
(* the code itself takes none.  tungstenite and the socket are external:   *)
(* read() returns one message, or an error: for a malformed message, for a *)
(* read of the socket that is interrupted or fails, and for one that has   *)
(* waited for the timeout set on it.                                       *)
(***************************************************************************)
EXTENDS Integers, Sequences

CONSTANTS
    Timeouts,      \* what callers pass to recv, zero included
    MaxFrames,     \* bound: frames the relay sends
    MaxElapsed     \* bound: time that one recv takes

ASSUME NativeAssumption ==
    /\ Timeouts \subseteq Nat
    /\ MaxFrames \in Nat /\ MaxElapsed \in Nat

VARIABLES
    pc,        \* "idle" (no recv in progress), "loop", "read", "closed"
    timeout,   \* of the current or last recv
    elapsed,   \* time since it was called
    limit,     \* read timeout set on the socket
    wait,      \* what is left of it for the read in progress
    inbox,     \* types of the frames that have arrived whole
    half,      \* the type of the frame of which a part has arrived
    alive,     \* does the stream deliver anything still?
    owed,      \* pongs queued and not flushed
    ret,       \* what recv returned last
    sent,      \* history: frames the relay has sent (bounded by MaxFrames)
    stream,    \* history: types of the frames that arrived whole and were not lost
    given,     \* history: which of them recv has returned
    split      \* history: did a frame arrive in pieces since recv was called?

history == <<sent, stream, given, split>>
vars == <<pc, timeout, elapsed, limit, wait, inbox, half, alive, owed, ret, history>>

\* A malformed frame: text that is not UTF-8, a violation of the protocol, a message
\* over the size limit.
FrameTypes == {"text", "ping", "close", "other", "malformed"}

\* What the errors of recv come from.
Errors == {"ws_read", "ws_flush", "closed", "set_read_timeout"}

TypeOK ==
    /\ pc \in {"idle", "loop", "read", "closed"}
    /\ timeout \in Timeouts \cup {0} /\ elapsed \in 0..MaxElapsed
    /\ limit \in 0..timeout /\ wait \in 0..limit
    /\ pc = "read" => limit > 0
    /\ inbox \in Seq(FrameTypes) /\ half \in FrameTypes \cup {"nothing"}
    /\ alive \in BOOLEAN /\ owed \in Nat
    /\ ret \in {"unset", "text", "none"} \cup Errors
    /\ sent \in 0..MaxFrames /\ split \in BOOLEAN
    /\ stream \in Seq(FrameTypes) /\ given \in SUBSET Int

Init ==
    /\ pc = "idle" /\ timeout = 0 /\ elapsed = 0 /\ limit = 0 /\ wait = 0
    /\ inbox = <<>> /\ half = "nothing" /\ alive = TRUE
    /\ owed = 0 /\ ret = "unset"
    /\ sent = 0 /\ stream = <<>> /\ given = {} /\ split = FALSE

-----------------------------------------------------------------------------
(* The stream.                                                             *)

callVars == <<pc, timeout, elapsed, limit, owed, ret, given>>
Sending  == alive /\ sent < MaxFrames /\ sent' = sent + 1
Whole(t) == inbox' = Append(inbox, t) /\ stream' = Append(stream, t)

\* Frames that have been read off the stream.
Taken == Len(stream) - Len(inbox)

Arrive ==
    /\ half = "nothing" /\ Sending
    /\ \E t \in FrameTypes : Whole(t)
    /\ UNCHANGED <<callVars, wait, half, alive, split>>

\* Bytes that do not complete a frame: the next read of the socket starts.
ArrivePart ==
    /\ half = "nothing" /\ Sending /\ half' \in FrameTypes
    /\ wait' = limit /\ split' = TRUE
    /\ UNCHANGED <<callVars, inbox, alive, stream>>

ArriveMore ==
    /\ half # "nothing" /\ alive /\ wait' = limit /\ split' = TRUE
    /\ UNCHANGED <<callVars, inbox, half, alive, sent, stream>>

ArriveRest ==
    /\ half # "nothing" /\ alive /\ Whole(half) /\ half' = "nothing"
    /\ UNCHANGED <<callVars, wait, alive, sent, split>>

\* All but the first k of the frames that wait to be read are lost.
Cut(k) == inbox' = SubSeq(inbox, 1, k) /\ stream' = SubSeq(stream, 1, Taken + k)

\* The stream ends, seen or unseen; what had arrived may be lost.
Break ==
    /\ alive /\ alive' = FALSE /\ half' = "nothing"
    /\ \E k \in 0..Len(inbox) : Cut(k)
    /\ UNCHANGED <<callVars, wait, sent, split>>

-----------------------------------------------------------------------------
(* recv.                                                                   *)

Return(out) == pc' = "idle" /\ ret' = out

Recv ==
    /\ pc = "idle" /\ pc' = "loop" /\ timeout' \in Timeouts
    /\ elapsed' = 0 /\ limit' = 0 /\ wait' = 0 /\ split' = FALSE
    /\ UNCHANGED <<inbox, half, alive, owed, ret, sent, stream, given>>

\* Slip: a plain subtraction.
Plain_remaining == timeout - elapsed

\* Slip: every read is given the whole timeout.
Whole_remaining == timeout

\* deadline.saturating_duration_since(now)
remaining == IF elapsed >= timeout THEN 0 ELSE timeout - elapsed

\* The socket rejects a timeout of zero.
set_read_timeout(d) ==
    IF d = 0 THEN Return("set_read_timeout") /\ UNCHANGED <<limit, wait>>
             ELSE pc' = "read" /\ limit' = d /\ wait' = d /\ UNCHANGED ret

\* Slip: a budget that is used up is not noticed.
Never_Exhausted == FALSE

Exhausted == remaining = 0

\* The head of the loop.
Iterate ==
    /\ pc = "loop"
    /\ IF Exhausted THEN Return("none") /\ UNCHANGED <<limit, wait>>
                    ELSE set_read_timeout(remaining)
    /\ UNCHANGED <<timeout, elapsed, inbox, half, alive, owed, history>>

\* read() blocks: no frame is complete.
Tick ==
    /\ pc = "read" /\ inbox = <<>> /\ wait > 0 /\ elapsed < MaxElapsed
    /\ elapsed' = elapsed + 1 /\ wait' = wait - 1
    /\ UNCHANGED <<pc, timeout, limit, inbox, half, alive, owed, ret, history>>

Upcoming(t) == pc = "read" /\ inbox # <<>> /\ Head(inbox) = t

Read(t) ==
    /\ Upcoming(t) /\ inbox' = Tail(inbox)
    /\ UNCHANGED <<timeout, elapsed, limit, wait, half, alive, sent, stream, split>>

\* Slip: the deadline is looked at once more, behind the read.
Late_ReadText ==
    /\ Read("text") /\ UNCHANGED owed
    /\ IF remaining = 0 THEN Return("none") /\ UNCHANGED given
                         ELSE Return("text") /\ given' = given \cup {Taken + 1}

ReadText == Read("text") /\ Return("text") /\ given' = given \cup {Taken + 1} /\ UNCHANGED owed

\* Slip: the pong stays in the queue.
NoFlush_ReadPing == Read("ping") /\ pc' = "loop" /\ owed' = owed + 1 /\ UNCHANGED <<ret, given>>

\* tungstenite queues the pong; flushing it may fail on a broken stream.
ReadPing ==
    /\ Read("ping") /\ UNCHANGED given
    /\ \/ pc' = "loop" /\ owed' = 0 /\ UNCHANGED ret
       \/ ~alive /\ Return("ws_flush") /\ owed' = owed + 1

\* Slip: a frame that is not text is reported as a timeout.
AsTimeout_ReadOther == Read("other") /\ Return("none") /\ UNCHANGED <<owed, given>>

\* Pong, Binary, raw Frame: ignored.
ReadOther == Read("other") /\ pc' = "loop" /\ UNCHANGED <<owed, ret, given>>

\* After a Close frame nothing more is read from the stream.
ReadClose ==
    /\ Upcoming("close") /\ Return("closed")
    /\ alive' = FALSE /\ half' = "nothing"
    /\ inbox' = <<>> /\ stream' = SubSeq(stream, 1, Taken + 1)
    /\ UNCHANGED <<timeout, elapsed, limit, wait, owed, sent, given, split>>

\* The stream goes on; a frame over the size limit stays where it is and fails the
\* next read as well.
ReadMalformed ==
    /\ Upcoming("malformed") /\ Return("ws_read") /\ inbox' \in {inbox, Tail(inbox)}
    /\ UNCHANGED <<timeout, elapsed, limit, wait, half, alive, owed, history>>

ReadTimesOut ==
    /\ pc = "read" /\ inbox = <<>> /\ wait = 0 /\ Return("none")
    /\ UNCHANGED <<timeout, elapsed, limit, wait, inbox, half, alive, owed, history>>

\* The stream is broken, or a signal interrupts the wait on one that is not; a pong
\* that could not be flushed is tried, and fails, ahead of the frames that are there.
ReadFails ==
    /\ pc = "read" /\ (inbox = <<>> \/ owed > 0) /\ Return("ws_read")
    /\ UNCHANGED <<timeout, elapsed, limit, wait, inbox, half, alive, owed, history>>

\* send: a write and a flush, which takes the queued pongs along.
Send ==
    /\ pc = "idle"
    /\ \/ owed' = 0
       \/ ~alive /\ UNCHANGED owed
    /\ UNCHANGED <<pc, timeout, elapsed, limit, wait, inbox, half, alive, ret, history>>

close ==
    /\ pc = "idle" /\ pc' = "closed" /\ alive' = FALSE /\ half' = "nothing"
    /\ UNCHANGED <<timeout, elapsed, limit, wait, inbox, owed, ret, history>>

Done == pc = "closed" /\ UNCHANGED vars

Next ==
    \/ Arrive \/ ArrivePart \/ ArriveMore \/ ArriveRest \/ Break
    \/ Recv \/ Iterate \/ Tick
    \/ ReadText \/ ReadPing \/ ReadOther \/ ReadClose \/ ReadMalformed
    \/ ReadTimesOut \/ ReadFails
    \/ Send \/ close \/ Done

Spec == Init /\ [][Next]_vars

-----------------------------------------------------------------------------

\* "No frame" and a timeout are the same thing.  recv says "no frame" only when its
\* timeout has elapsed, never because of a ping, a pong or a binary frame: publish
\* would give up, query be cut short.  And a budget that is used up, at the call or
\* by control frames on the way, never comes out as an error: recv sets no timeout
\* of zero, which the socket would reject.
NoneMeansTimeout ==
    /\ pc = "idle" /\ ret = "none" => elapsed >= timeout
    /\ ret # "set_read_timeout"

\* No text frame is lost by recv, or returned ahead of an earlier one: of the frames
\* that came whole, the texts that no longer wait have all been returned.  This holds
\* over timeouts in the middle of a frame, for a frame that is complete just as the
\* timeout elapses, among control frames, and over the errors that leave the stream
\* alive, a malformed frame and an interrupted read.
TextsKept == given = {i \in 1..Taken : stream[i] = "text"}

\* A ping is answered before recv returns.
PongsFlushed == pc = "idle" /\ alive => owed = 0

\* recv takes no longer than its timeout, however many control and binary frames
\* it reads on the way, unless a frame arrives in pieces.
WholeFramesInTime == ~split => elapsed <= timeout

\* "None if timeout elapses first": recv never takes longer than its timeout.
DeadlineKept == elapsed <= timeout
=============================================================================
