---------------------------- MODULE RelaySession ----------------------------
(***************************************************************************)
(* One websocket session of the relay (internal/wsrelay) and the requests  *)
(* it carries: the goroutine that reads the connection (run, dispatch),    *)
(* the callers of NonStream and Stream, the goroutine each request leaves  *)
(* behind to watch its context, and cleanup, which a failed read, a failed *)
(* heartbeat or Manager.Stop runs once.  They share the map of pending     *)
(* requests and the channel of each, which has room for Buffer messages.   *)
(*                                                                         *)
(* The service names every session by a random string of its own, so that  *)
(* none replaces another; identifiers of requests are unique as well.  The *)
(* model starts when the session is registered and runs.  Pings of the     *)
(* client and the deadlines of the connection are part of its failures.    *)
(***************************************************************************)
EXTENDS Naturals, Sequences, FiniteSets

CONSTANTS
    Requests,
    Buffer,       \* capacity of a request's channel: 8 in the code
    MaxChunks,    \* chunks the client sends for a request (a bound)
    NoRequest

ASSUME RelayAssumption ==
    NoRequest \notin Requests /\ Buffer \in Nat \ {0} /\ MaxChunks \in Nat

VARIABLES
    listed,    \* the manager's map has the session
    closed,    \* s.closed
    conn,      \* the connection is open
    pending,   \* s.pending: requests whose channel can be found
    chan,      \* of each request, the messages in its channel and its end
    reader,    \* run and dispatch, with the message in hand
    cleaner,   \* cleanup
    caller,    \* NonStream, which collects a stream, or Stream: where it is
               \* and what it has got so far
    watch,     \* the goroutine that waits for the context of a request
    canceled,  \* requests whose context is done
    client,    \* what the client has sent for each request
    lost,      \* history: requests of which a message was dropped
    panic      \* what has brought the process down, or the caller's goroutine

session == <<listed, closed, conn>>
vars == <<session, pending, chan, reader, cleaner, caller, watch, canceled, client,
          lost, panic>>

MessageTypes == {"http_response", "error", "stream_start", "stream_chunk", "stream_end"}
Terminal == {"http_response", "error", "stream_end"}

Goto(r, pc) == caller' = [caller EXCEPT ![r].pc = pc]
Return(r, outcome) ==
    caller' = [caller EXCEPT ![r].pc = "done", ![r].outcome = outcome]

\* pendingRequest.close: closeOnce lets only the first close the channel.
Close(r) == chan' = [chan EXCEPT ![r].closed = TRUE]

\* LoadAndDelete, and close what was there.
CloseIfPending(r) ==
    IF r \in pending THEN Close(r) /\ pending' = pending \ {r}
    ELSE UNCHANGED <<chan, pending>>

-----------------------------------------------------------------------------
(* A request is sent: Manager.Send and session.request.                    *)

Send(r) ==
    /\ caller[r].pc = "idle"
    /\ IF listed THEN Goto(r, "store") ELSE Return(r, "failed")
    /\ UNCHANGED <<session, pending, chan, reader, cleaner, watch, canceled, client, lost, panic>>

Store(r) ==
    /\ caller[r].pc = "store"
    /\ pending' = pending \cup {r}
    /\ Goto(r, "load")
    /\ UNCHANGED <<session, chan, reader, cleaner, watch, canceled, client, lost, panic>>

\* The type assertion fails when the map was replaced meanwhile.
Load(r) ==
    /\ caller[r].pc = "load"
    /\ IF r \in pending THEN Goto(r, "check") /\ UNCHANGED panic
       ELSE panic' = "missing" /\ UNCHANGED caller
    /\ UNCHANGED <<session, pending, chan, reader, cleaner, watch, canceled, client, lost>>

\* Mutant of CheckClosed: send goes straight to the connection.
CheckNothing(r) ==
    /\ caller[r].pc = "check"
    /\ Goto(r, "write")
    /\ UNCHANGED <<session, pending, chan, reader, cleaner, watch, canceled, client, lost, panic>>

CheckClosed(r) ==
    /\ caller[r].pc = "check"
    /\ Goto(r, IF closed THEN "undo" ELSE "write")
    /\ UNCHANGED <<session, pending, chan, reader, cleaner, watch, canceled, client, lost, panic>>

Write(r) ==
    /\ caller[r].pc = "write"
    /\ \/ /\ conn
          /\ client' = [client EXCEPT ![r].phase = "asked"]
          /\ watch' = [watch EXCEPT ![r] = "on"]
          /\ Goto(r, "wait")
       \/ Goto(r, "undo") /\ UNCHANGED <<client, watch>>
    /\ UNCHANGED <<session, pending, chan, reader, cleaner, canceled, lost, panic>>

Undo(r) ==
    /\ caller[r].pc = "undo"
    /\ CloseIfPending(r)
    /\ Return(r, "failed")
    /\ UNCHANGED <<session, reader, cleaner, watch, canceled, client, lost, panic>>

\* The goroutine that request leaves behind.
Watch(r) ==
    /\ watch[r] = "on"
    /\ \/ r \in canceled /\ CloseIfPending(r)
       \/ closed /\ UNCHANGED <<chan, pending>>
    /\ watch' = [watch EXCEPT ![r] = "off"]
    /\ UNCHANGED <<session, reader, cleaner, caller, canceled, client, lost, panic>>

-----------------------------------------------------------------------------
(* The loops of NonStream and Stream.                                      *)

\* A response that has begun to stream is complete for NonStream when its
\* channel ends; Stream reports an error.
AtEnd(r) == IF caller[r].collects /\ caller[r].streams THEN "ok" ELSE "failed"

Receive(r) ==
    /\ caller[r].pc = "wait" /\ chan[r].queue # <<>>
    /\ LET msg == Head(chan[r].queue)
       IN CASE msg \in {"http_response", "stream_end"} -> Return(r, "ok")
            [] msg = "error"                           -> Return(r, "failed")
            [] msg = "stream_start" ->
                  caller' = [caller EXCEPT ![r].streams = TRUE, ![r].got = 0]
            [] msg = "stream_chunk" ->
                  caller' = [caller EXCEPT ![r].streams = TRUE, ![r].got = @ + 1]
    /\ chan' = [chan EXCEPT ![r].queue = Tail(@)]
    /\ UNCHANGED <<session, pending, reader, cleaner, watch, canceled, client, lost, panic>>

ReceiveEnd(r) ==
    /\ caller[r].pc = "wait"
    /\ \/ chan[r].queue = <<>> /\ chan[r].closed /\ Return(r, AtEnd(r))
       \/ r \in canceled /\ Return(r, "ctx")
    /\ UNCHANGED <<session, pending, chan, reader, cleaner, watch, canceled, client, lost, panic>>

\* The client goes away, or the handler of the request returns.
Cancel(r) ==
    /\ caller[r].pc # "idle" /\ r \notin canceled
    /\ canceled' = canceled \cup {r}
    /\ UNCHANGED <<session, pending, chan, reader, cleaner, caller, watch, client, lost, panic>>

-----------------------------------------------------------------------------
(* The connection is read.                                                 *)

Reading == [pc |-> "read", id |-> NoRequest, msg |-> "none"]

\* What the client may send next for r, a chunk only after the start.
Messages(r) ==
    CASE client[r].phase = "asked"   -> {"http_response", "error", "stream_start"}
      [] client[r].phase = "streams" ->
            {"error", "stream_end"}
                \cup IF client[r].sent < MaxChunks THEN {"stream_chunk"} ELSE {}
      [] OTHER                       -> {}

\* run reads a message, and dispatch looks for its request.
ReadMessage(r) ==
    /\ reader.pc = "read" /\ conn
    /\ \E msg \in Messages(r) :
          /\ client' = [client EXCEPT ![r] =
                [phase |-> IF msg \in Terminal THEN "ended" ELSE "streams",
                 sent |-> IF msg = "stream_chunk" THEN @.sent + 1 ELSE @.sent]]
          /\ reader' = IF r \in pending THEN [pc |-> "send", id |-> r, msg |-> msg]
                       ELSE Reading
    /\ UNCHANGED <<session, pending, chan, cleaner, caller, watch, canceled, lost, panic>>

\* Mutant of Offer: the length of the channel is not looked at.
OfferAlways(r, msg) ==
    IF chan[r].closed THEN panic' = "send" /\ UNCHANGED <<chan, lost>>
    ELSE chan' = [chan EXCEPT ![r].queue = Append(@, msg)] /\ UNCHANGED <<lost, panic>>

\* select { case req.ch <- msg: default: }
Offer(r, msg) ==
    CASE chan[r].closed -> panic' = "send" /\ UNCHANGED <<chan, lost>>
      [] ~chan[r].closed /\ Len(chan[r].queue) < Buffer ->
            chan' = [chan EXCEPT ![r].queue = Append(@, msg)] /\ UNCHANGED <<lost, panic>>
      [] OTHER -> lost' = lost \cup {r} /\ UNCHANGED <<chan, panic>>

DispatchSend ==
    /\ reader.pc = "send"
    /\ Offer(reader.id, reader.msg)
    /\ reader' = IF reader.msg \in Terminal THEN [reader EXCEPT !.pc = "delete"] ELSE Reading
    /\ UNCHANGED <<session, pending, cleaner, caller, watch, canceled, client>>

\* Mutant of DispatchDelete: the request is forgotten, its channel stays open.
DispatchForgets ==
    /\ reader.pc = "delete"
    /\ pending' = pending \ {reader.id}
    /\ reader' = Reading
    /\ UNCHANGED <<session, chan, cleaner, caller, watch, canceled, client, lost, panic>>

DispatchDelete ==
    /\ reader.pc = "delete"
    /\ CloseIfPending(reader.id)
    /\ reader' = Reading
    /\ UNCHANGED <<session, cleaner, caller, watch, canceled, client, lost, panic>>

-----------------------------------------------------------------------------
(* cleanup.                                                                *)

StartCleanup ==
    closed' = TRUE /\ cleaner' = [cleaner EXCEPT !.pc = "range", !.keys = pending]

ReadFails ==
    /\ reader.pc = "read"
    /\ reader' = [reader EXCEPT !.pc = "off"]
    /\ IF cleaner.pc = "idle" THEN StartCleanup ELSE UNCHANGED <<closed, cleaner>>
    /\ UNCHANGED <<listed, conn, pending, chan, caller, watch, canceled, client, lost, panic>>

HeartbeatFails ==
    /\ cleaner.pc = "idle" /\ StartCleanup
    /\ UNCHANGED <<listed, conn, pending, chan, reader, caller, watch, canceled, client, lost, panic>>

\* Manager.Stop takes the session out of its map first.
Stop ==
    /\ cleaner.pc = "idle" /\ StartCleanup
    /\ listed' = FALSE
    /\ UNCHANGED <<conn, pending, chan, reader, caller, watch, canceled, client, lost, panic>>

\* Range meets every request that was there when it began and is still there;
\* of those stored meanwhile it may meet some.
RangeNext ==
    /\ cleaner.pc = "range"
    /\ \E r \in pending \ cleaner.seen :
          cleaner' = [cleaner EXCEPT !.pc = "visit", !.id = r, !.seen = @ \cup {r}]
    /\ UNCHANGED <<session, pending, chan, reader, caller, watch, canceled, client, lost, panic>>

\* Mutant of Visit: the channel ends without the error.
VisitSilently ==
    /\ cleaner.pc = "visit"
    /\ Close(cleaner.id)
    /\ cleaner' = [cleaner EXCEPT !.pc = "range"]
    /\ UNCHANGED <<session, pending, reader, caller, watch, canceled, client, lost, panic>>

Visit ==
    /\ cleaner.pc = "visit"
    /\ Offer(cleaner.id, "error")
    /\ cleaner' = [cleaner EXCEPT !.pc = "close"]
    /\ UNCHANGED <<session, pending, reader, caller, watch, canceled, client>>

VisitClose ==
    /\ cleaner.pc = "close"
    /\ Close(cleaner.id)
    /\ cleaner' = [cleaner EXCEPT !.pc = "range"]
    /\ UNCHANGED <<session, pending, reader, caller, watch, canceled, client, lost, panic>>

\* s.pending = sync.Map{}
Reset ==
    /\ cleaner.pc = "range" /\ cleaner.keys \cap pending \subseteq cleaner.seen
    /\ pending' = {}
    /\ cleaner' = [cleaner EXCEPT !.pc = "hangup"]
    /\ UNCHANGED <<session, chan, reader, caller, watch, canceled, client, lost, panic>>

\* The connection is closed and handleSessionClosed takes the session out.
HangUp ==
    /\ cleaner.pc = "hangup"
    /\ conn' = FALSE /\ listed' = FALSE
    /\ cleaner' = [cleaner EXCEPT !.pc = "done"]
    /\ UNCHANGED <<closed, pending, chan, reader, caller, watch, canceled, client, lost, panic>>

-----------------------------------------------------------------------------
Init ==
    /\ listed = TRUE /\ closed = FALSE /\ conn = TRUE
    /\ pending = {}
    /\ chan = [r \in Requests |-> [queue |-> <<>>, closed |-> FALSE]]
    /\ reader = Reading
    /\ cleaner = [pc |-> "idle", id |-> NoRequest, keys |-> {}, seen |-> {}]
    /\ caller \in [Requests -> {[pc |-> "idle", collects |-> c, streams |-> FALSE, got |-> 0,
                                outcome |-> "none"] : c \in BOOLEAN}]
    /\ watch = [r \in Requests |-> "off"]
    /\ canceled = {}
    /\ client = [r \in Requests |-> [phase |-> "none", sent |-> 0]]
    /\ lost = {}
    /\ panic = "none"

Caller(r) ==
    panic = "none" /\ (Send(r) \/ Store(r) \/ Load(r) \/ CheckClosed(r) \/ Write(r) \/ Undo(r)
                       \/ Receive(r) \/ ReceiveEnd(r))
Watcher(r) == panic = "none" /\ Watch(r)
Client(r) == panic = "none" /\ (Cancel(r) \/ ReadMessage(r))
Reader == panic = "none" /\ (DispatchSend \/ DispatchDelete)
Cleaner == panic = "none" /\ (RangeNext \/ Visit \/ VisitClose \/ Reset \/ HangUp)
Failure == panic = "none" /\ (ReadFails \/ HeartbeatFails \/ Stop)

Next ==
    \/ \E r \in Requests : Caller(r) \/ Watcher(r) \/ Client(r)
    \/ Reader \/ Cleaner \/ Failure

\* Goroutines that can run do; clients and connections may do nothing.
Spec ==
    /\ Init /\ [][Next]_vars
    /\ \A r \in Requests : WF_vars(Caller(r)) /\ WF_vars(Watcher(r))
    /\ WF_vars(Reader) /\ WF_vars(Cleaner)

-----------------------------------------------------------------------------
(* Properties.                                                             *)

TypeOK ==
    /\ {listed, closed, conn} \subseteq BOOLEAN
    /\ pending \subseteq Requests /\ canceled \subseteq Requests /\ lost \subseteq Requests
    /\ chan \in [Requests -> [queue : Seq(MessageTypes), closed : BOOLEAN]]
    /\ \A r \in Requests : Len(chan[r].queue) <= Buffer
    /\ \/ reader = Reading
       \/ reader \in [pc : {"send", "delete", "off"}, id : Requests \cup {NoRequest},
                      msg : MessageTypes \cup {"none"}]
    /\ reader.pc \in {"send", "delete"} => reader.id \in Requests /\ reader.msg \in MessageTypes
    /\ cleaner \in [pc : {"idle", "range", "visit", "close", "hangup", "done"},
                    id : Requests \cup {NoRequest}, keys : SUBSET Requests,
                    seen : SUBSET Requests]
    /\ cleaner.pc \in {"visit", "close"} => cleaner.id \in Requests
    /\ caller \in [Requests ->
          [pc : {"idle", "store", "load", "check", "write", "undo", "wait", "done"},
           collects : BOOLEAN, streams : BOOLEAN, got : Nat,
           outcome : {"none", "ok", "failed", "ctx"}]]
    /\ watch \in [Requests -> {"on", "off"}]
    /\ client \in [Requests -> [phase : {"none", "asked", "streams", "ended"}, sent : Nat]]
    /\ panic \in {"none", "send", "missing"}

\* Whoever waits for an answer waits on a channel that can still be found by
\* those who must end it, however dispatch, cleanup, the watcher and request
\* itself interleave: cleanup cannot throw the map away with an open channel
\* in it, because request looks at s.closed after it has stored its own.
OpenIsPending ==
    \A r \in Requests :
        caller[r].pc \in {"write", "wait"} /\ ~chan[r].closed => r \in pending

\* NonStream and Stream report success only for an answer the client has sent
\* to its end and that arrived whole, also when the session closes half-way;
\* unless the context was done or a message found the channel full.
SuccessIsWhole ==
    \A r \in Requests :
        caller[r].outcome = "ok" =>
            \/ r \in canceled \cup lost
            \/ client[r].phase = "ended" /\ caller[r].got = client[r].sent

\* A caller comes back once its answer has come, its context is done or the
\* session has closed.
CallersReturn ==
    \A r \in Requests :
        (caller[r].pc # "idle" /\ (r \in canceled \/ closed \/ client[r].phase = "ended"))
            ~> (caller[r].pc = "done" \/ panic # "none")
=============================================================================
