----------------------------- MODULE SseServer -----------------------------
(***************************************************************************)
(* The SSE transport (internal/sse/sse.go) and its graceful shutdown       *)
(* (gracefulShutdown of cmd/jig-mcp/main.go): long-lived GET /sse handlers *)
(* that own a session and its channel of messages, POST /message handlers  *)
(* that process a request and send the answer into the channel of the      *)
(* session they looked up, and the main goroutine.  Each POST runs inside  *)
(* http.TimeoutHandler, which answers 503 after 30 seconds (or when the    *)
(* client is gone) while the handler it wraps runs on.                     *)
(*                                                                         *)
(* A client may stop reading: the server sets no WriteTimeout, because the *)
(* streams are long-lived, so that a write to such a client blocks until   *)
(* it leaves.                                                              *)
(*                                                                         *)
(* net/http is external: a handler is started for every connection while   *)
(* the server listens (and, on connections that were accepted before,      *)
(* while Shutdown waits), and Shutdown waits for the handlers.             *)
(***************************************************************************)
EXTENDS ToolCall, Sequences, Functions

CONSTANTS
  Sessions,     \* identities of the SSE streams clients open
  BufferSize    \* sseSessionBufferSize: capacity of a channel of messages

ASSUME BufferSizeAssumption == BufferSize \in Nat \ {0}

ShutdownNotice == "notifications/shutdown"

NoMessage == "no message"

ASSUME NoMessageAssumption == NoMessage \notin Requests

VARIABLES
  stream,       \* where the /sse handler of a session is
  registered,   \* the keys of the map sessions
  done,         \* whether the channel done of a session is closed
  messages,     \* what is in the channel messages of a session
  gone,         \* whether the client of a stream has disconnected
  stalled,      \* whether a write to the client blocks its /sse handler
  writing,      \* the message of its channel that the handler is writing
  delivered,    \* what was written and flushed to a client that was there
  post,         \* where the /message handler of a request is
  to,           \* the session it looked up
  status,       \* the HTTP status its client got
  main,         \* the main goroutine
  expired,      \* the grace period has run out
  atClose       \* history: messages of a session when done was closed

sessionVars == <<stream, registered, done, messages, gone, stalled, writing,
                 delivered, atClose>>
postVars == <<post, to, status>>
mainVars == <<main, expired>>
allVars == <<callVars, sessionVars, postVars, mainVars>>

NoSession == "no session"

\* "accepted" is 202, "timedOut" the 503 of TimeoutHandler, and "refused" any
\* other: 400, 404, 405, 500, or the 503 of handleMessage.
Statuses == {"none", "accepted", "refused", "timedOut"}

SseInit ==
  /\ CallInit
  /\ stream = [s \in Sessions |-> "unopened"]
  /\ registered = {}
  /\ done = [s \in Sessions |-> FALSE]
  /\ messages = [s \in Sessions |-> <<>>]
  /\ gone = [s \in Sessions |-> FALSE]
  /\ stalled = [s \in Sessions |-> FALSE]
  /\ writing = [s \in Sessions |-> NoMessage]
  /\ delivered = [s \in Sessions |-> <<>>]
  /\ atClose = [s \in Sessions |-> <<>>]
  /\ post = [r \in Requests |-> "none"]
  /\ to = [r \in Requests |-> NoSession]
  /\ status = [r \in Requests |-> "none"]
  /\ main = "serving"
  /\ expired = FALSE

Alive == main # "exited"

\* A request on some connection can still reach its handler.
Accepting == main \in {"serving", "closing", "shutdown"}

\* CloseAllSessions holds sessionsMu for as long as it runs.
SessionsUnlocked == main # "closing"

-----------------------------------------------------------------------------
(* GET /sse: handleSSE, after authenticate has let the client in.          *)

OpenStream(s) ==
  /\ Accepting /\ SessionsUnlocked
  /\ stream[s] = "unopened"
  /\ stream' = [stream EXCEPT ![s] = "open"]
  /\ registered' = registered \cup {s}
  /\ UNCHANGED <<callVars, done, messages, gone, stalled, writing, delivered,
                 atClose, postVars, mainVars>>

Connected(s) == stream[s] \in {"open", "draining"} /\ ~gone[s]

\* The client of a stream goes away: the context of its request is cancelled,
\* and a write to it fails at once.
Disconnect(s) ==
  /\ Alive
  /\ Connected(s)
  /\ gone' = [gone EXCEPT ![s] = TRUE]
  /\ stalled' = [stalled EXCEPT ![s] = FALSE]
  /\ UNCHANGED <<callVars, stream, registered, done, messages, writing, delivered,
                 atClose, postVars, mainVars>>

\* The client stays and reads no more, so that a write of the handler blocks
\* until it leaves.  While the handler serves that may be any write: of a
\* message, of the endpoint event it begins with, or of a keep-alive comment.
\* A client that pauses makes a write slow.
StopReading(s) ==
  /\ Alive
  /\ Connected(s)
  /\ stream[s] = "open" \/ writing[s] # NoMessage
  /\ stalled' = [stalled EXCEPT ![s] = TRUE]
  /\ UNCHANGED <<callVars, stream, registered, done, messages, gone, writing,
                 delivered, atClose, postVars, mainVars>>

\* The handler is neither in a write nor blocked: it is at its select.
Selects(s) == writing[s] = NoMessage /\ ~stalled[s]

\* The handler takes the next message of its channel and begins to write it.
Take(s) ==
  /\ Selects(s)
  /\ messages[s] # <<>>
  /\ messages' = [messages EXCEPT ![s] = Tail(@)]
  /\ writing' = [writing EXCEPT ![s] = Head(messages[s])]
  /\ UNCHANGED <<callVars, stream, registered, done, gone, stalled, delivered,
                 atClose, postVars, mainVars>>

\* case msg := <-session.messages
WriteMessage(s) ==
  /\ Alive
  /\ stream[s] = "open"
  /\ Take(s)

\* Variant that leaves the message in the writer's buffer: no Flush.
WriteEndsUnflushed(s) ==
  /\ Alive
  /\ writing[s] # NoMessage
  /\ ~stalled[s]
  /\ writing' = [writing EXCEPT ![s] = NoMessage]
  /\ UNCHANGED <<callVars, stream, registered, done, messages, gone, stalled,
                 delivered, atClose, postVars, mainVars>>

\* What the client has once the message at hand is written.
Flushed(s) ==
  IF writing[s] = NoMessage THEN delivered[s]
                            ELSE Append(delivered[s], writing[s])

\* Fprintf and Flush return.  Their errors are ignored.
WriteEnds(s) ==
  /\ Alive
  /\ writing[s] # NoMessage
  /\ ~stalled[s]
  /\ writing' = [writing EXCEPT ![s] = NoMessage]
  /\ delivered' = [delivered EXCEPT ![s] = IF gone[s] THEN @ ELSE Flushed(s)]
  /\ UNCHANGED <<callVars, stream, registered, done, messages, gone, stalled,
                 atClose, postVars, mainVars>>

\* Variant that returns without draining.
SeeDoneAndLeave(s) ==
  /\ Alive
  /\ stream[s] = "open" /\ Selects(s)
  /\ done[s]
  /\ stream' = [stream EXCEPT ![s] = "leaving"]
  /\ UNCHANGED <<callVars, registered, done, messages, gone, stalled, writing,
                 delivered, atClose, postVars, mainVars>>

\* case <-session.done
SeeDone(s) ==
  /\ Alive
  /\ stream[s] = "open" /\ Selects(s)
  /\ done[s]
  /\ stream' = [stream EXCEPT ![s] = "draining"]
  /\ UNCHANGED <<callVars, registered, done, messages, gone, stalled, writing,
                 delivered, atClose, postVars, mainVars>>

DrainMessage(s) ==
  /\ Alive
  /\ stream[s] = "draining"
  /\ Take(s)

\* Variant whose inner loop is left by break: the outer loop goes on.
DrainEndsLoop(s) ==
  /\ Alive
  /\ stream[s] = "draining" /\ Selects(s)
  /\ messages[s] = <<>>
  /\ stream' = [stream EXCEPT ![s] = "open"]
  /\ UNCHANGED <<callVars, registered, done, messages, gone, stalled, writing,
                 delivered, atClose, postVars, mainVars>>

\* default: return
DrainEnds(s) ==
  /\ Alive
  /\ stream[s] = "draining" /\ Selects(s)
  /\ messages[s] = <<>>
  /\ stream' = [stream EXCEPT ![s] = "leaving"]
  /\ UNCHANGED <<callVars, registered, done, messages, gone, stalled, writing,
                 delivered, atClose, postVars, mainVars>>

\* case <-r.Context().Done()
SeeClientGone(s) ==
  /\ Alive
  /\ stream[s] = "open" /\ Selects(s)
  /\ gone[s]
  /\ stream' = [stream EXCEPT ![s] = "leaving"]
  /\ UNCHANGED <<callVars, registered, done, messages, gone, stalled, writing,
                 delivered, atClose, postVars, mainVars>>

\* The deferred delete, a no-op after CloseAllSessions.
Unregister(s) ==
  /\ Alive /\ SessionsUnlocked
  /\ stream[s] = "leaving"
  /\ stream' = [stream EXCEPT ![s] = "ended"]
  /\ registered' = registered \ {s}
  /\ UNCHANGED <<callVars, done, messages, gone, stalled, writing, delivered,
                 atClose, postVars, mainVars>>

-----------------------------------------------------------------------------
(* POST /message: handleMessage inside http.TimeoutHandler.                *)

\* TimeoutHandler passes on a status only if it has not answered itself.
Answer(r, st) == status' = [status EXCEPT ![r] = IF @ = "none" THEN st ELSE @]

\* Wrong method, no session_id, or an id that is not in the map.
RefusePost(r) ==
  /\ Accepting /\ SessionsUnlocked
  /\ post[r] = "none"
  /\ post' = [post EXCEPT ![r] = "ended"]
  /\ Answer(r, "refused")
  /\ UNCHANGED <<callVars, sessionVars, to, mainVars>>

\* session, ok := sessions[sessionID].  The pointer is kept from here on.
LookUp(r, s) ==
  /\ Accepting /\ SessionsUnlocked
  /\ post[r] = "none"
  /\ s \in registered
  /\ post' = [post EXCEPT ![r] = "reading"]
  /\ to' = [to EXCEPT ![r] = s]
  /\ UNCHANGED <<callVars, sessionVars, status, mainVars>>

\* The body cannot be read or parsed, or is a notification.
EndEarly(r) ==
  /\ Alive
  /\ post[r] = "reading"
  /\ post' = [post EXCEPT ![r] = "ended"]
  /\ \E st \in {"refused", "accepted"} : Answer(r, st)
  /\ UNCHANGED <<callVars, sessionVars, to, mainVars>>

BeginProcess(r) ==
  /\ Alive
  /\ post[r] = "reading"
  /\ post' = [post EXCEPT ![r] = "processing"]
  /\ UNCHANGED <<callVars, sessionVars, to, status, mainVars>>

\* srv.ProcessRequest
Process(r) ==
  /\ Alive
  /\ post[r] = "processing"
  /\ ProcessRequest(r) \/ ToolEnds(r) \/ ServerStep(r)
  /\ UNCHANGED <<sessionVars, postVars, mainVars>>

MarshalFails(r) ==
  /\ Alive
  /\ post[r] = "processing"
  /\ pc[r] = "answered"
  /\ post' = [post EXCEPT ![r] = "ended"]
  /\ Answer(r, "refused")
  /\ UNCHANGED <<callVars, sessionVars, to, mainVars>>

\* Variant that grows the channel.
SendUnbounded(r) ==
  /\ Alive
  /\ post[r] = "processing"
  /\ pc[r] = "answered"
  /\ messages' = [messages EXCEPT ![to[r]] = Append(@, r)]
  /\ post' = [post EXCEPT ![r] = "ended"]
  /\ Answer(r, "accepted")
  /\ UNCHANGED <<callVars, stream, registered, done, gone, stalled, writing,
                 delivered, atClose, to, mainVars>>

\* case session.messages <- respBytes
Send(r) ==
  /\ Alive
  /\ post[r] = "processing"
  /\ pc[r] = "answered"
  /\ Len(messages[to[r]]) < BufferSize
  /\ messages' = [messages EXCEPT ![to[r]] = Append(@, r)]
  /\ post' = [post EXCEPT ![r] = "ended"]
  /\ Answer(r, "accepted")
  /\ UNCHANGED <<callVars, stream, registered, done, gone, stalled, writing,
                 delivered, atClose, to, mainVars>>

\* Variant that answers 202 before it knows whether the send succeeds.
SendTimesOutAccepted(r) ==
  /\ Alive
  /\ post[r] = "processing"
  /\ pc[r] = "answered"
  /\ Len(messages[to[r]]) = BufferSize
  /\ post' = [post EXCEPT ![r] = "ended"]
  /\ Answer(r, "accepted")
  /\ UNCHANGED <<callVars, sessionVars, to, mainVars>>

\* case <-time.After(sseMsgSendTimeout): the answer is dropped.
SendTimesOut(r) ==
  /\ Alive
  /\ post[r] = "processing"
  /\ pc[r] = "answered"
  /\ Len(messages[to[r]]) = BufferSize
  /\ post' = [post EXCEPT ![r] = "ended"]
  /\ Answer(r, "refused")
  /\ UNCHANGED <<callVars, sessionVars, to, mainVars>>

\* TimeoutHandler gives up on the handler, which runs on.
HandlerTimesOut(r) ==
  /\ Alive
  /\ post[r] \in {"reading", "processing"}
  /\ status[r] = "none"
  /\ status' = [status EXCEPT ![r] = "timedOut"]
  /\ UNCHANGED <<callVars, sessionVars, post, to, mainVars>>

-----------------------------------------------------------------------------
(* gracefulShutdown.                                                       *)

\* A signal, or the failure of the listener.
BeginShutdown ==
  /\ main = "serving"
  /\ main' = "closing"
  /\ UNCHANGED <<callVars, sessionVars, postVars, expired>>

\* The notice is dropped when the buffer is full.
Notify(s) ==
  IF Len(messages[s]) < BufferSize THEN Append(messages[s], ShutdownNotice)
                                   ELSE messages[s]

\* Variant that leaves the session in the map.
CloseSessionKeeping(s) ==
  /\ main = "closing"
  /\ s \in registered
  /\ messages' = [messages EXCEPT ![s] = Notify(s)]
  /\ atClose' = [atClose EXCEPT ![s] = Notify(s)]
  /\ done' = [done EXCEPT ![s] = TRUE]
  /\ UNCHANGED <<callVars, stream, registered, gone, stalled, writing, delivered,
                 postVars, mainVars>>

\* One iteration of CloseAllSessions.
CloseSession(s) ==
  /\ main = "closing"
  /\ s \in registered
  /\ messages' = [messages EXCEPT ![s] = Notify(s)]
  /\ atClose' = [atClose EXCEPT ![s] = Notify(s)]
  /\ done' = [done EXCEPT ![s] = TRUE]
  /\ registered' = registered \ {s}
  /\ UNCHANGED <<callVars, stream, gone, stalled, writing, delivered, postVars,
                 mainVars>>

\* CloseAllSessions returns, srv.Shutdown closes the listener.
BeginHttpShutdown ==
  /\ main = "closing"
  /\ registered = {}
  /\ main' = "shutdown"
  /\ UNCHANGED <<callVars, sessionVars, postVars, expired>>

\* Variant without TimeoutHandler: a response waits for the end of its handler.
IdleOnceHandlersEnd ==
  /\ \A s \in Sessions : stream[s] \in {"unopened", "ended"}
  /\ \A r \in Requests : post[r] \in {"none", "ended"}

\* No connection is active: each has its response.
Idle ==
  /\ \A s \in Sessions : stream[s] \in {"unopened", "ended"}
  /\ \A r \in Requests : post[r] # "none" => status[r] # "none"

\* Variant that closes the connections instead: http.Server.Close.
HttpShutdownAtOnce ==
  /\ main = "shutdown"
  /\ main' = "exited"
  /\ UNCHANGED <<callVars, sessionVars, postVars, expired>>

\* srv.Shutdown returns, and inflightTools.Wait at once, since only the stdio
\* transport counts its calls; after audit.Close main returns.
HttpShutdownDone ==
  /\ main = "shutdown"
  /\ Idle
  /\ main' = "exited"
  /\ UNCHANGED <<callVars, sessionVars, postVars, expired>>

\* The grace period ends: of Shutdown, and of the wait after it.
HttpShutdownExpires ==
  /\ main = "shutdown"
  /\ main' = "exited"
  /\ expired' = TRUE
  /\ UNCHANGED <<callVars, sessionVars, postVars>>

-----------------------------------------------------------------------------

StreamHandler(s) ==
  \/ WriteMessage(s) \/ WriteEnds(s)
  \/ SeeDone(s) \/ DrainMessage(s) \/ DrainEnds(s)
  \/ SeeClientGone(s)
  \/ Unregister(s)

PostHandler(r) ==
  \/ EndEarly(r) \/ BeginProcess(r)
  \/ Process(r)
  \/ MarshalFails(r) \/ Send(r) \/ SendTimesOut(r)

MainProceeds ==
  \/ \E s \in Sessions : CloseSession(s)
  \/ BeginHttpShutdown
  \/ HttpShutdownDone

Terminated == ~Alive /\ UNCHANGED allVars

SseNext ==
  \/ \E s \in Sessions :
       \/ OpenStream(s)
       \/ Disconnect(s) \/ StopReading(s)
       \/ StreamHandler(s)
  \/ \E r \in Requests :
       \/ RefusePost(r)
       \/ \E s \in Sessions : LookUp(r, s)
       \/ PostHandler(r)
       \/ HandlerTimesOut(r)
  \/ BeginShutdown
  \/ MainProceeds \/ HttpShutdownExpires
  \/ Terminated

SseSafetySpec == SseInit /\ [][SseNext]_allVars

(***************************************************************************)
(* The goroutines of the streams and the main goroutine are scheduled; the *)
(* grace period is not assumed to run out while they make progress.        *)
(* Nothing is assumed of the clients, not even that they read what the     *)
(* handlers of their streams write, nor of the POST handlers: their tools  *)
(* may hang.                                                               *)
(***************************************************************************)
SseSpec ==
  /\ SseSafetySpec
  /\ \A s \in Sessions : WF_allVars(StreamHandler(s))
  /\ WF_allVars(MainProceeds)

-----------------------------------------------------------------------------

SseTypeOK ==
  /\ stream \in [Sessions -> {"unopened", "open", "draining", "leaving", "ended"}]
  /\ registered \in SUBSET Sessions
  /\ done \in [Sessions -> BOOLEAN]
  /\ gone \in [Sessions -> BOOLEAN]
  /\ stalled \in [Sessions -> BOOLEAN]
  /\ writing \in [Sessions -> Requests \cup {ShutdownNotice, NoMessage}]
  /\ \A s \in Sessions :
       /\ Len(messages[s]) <= BufferSize
       /\ Range(messages[s]) \cup Range(delivered[s]) \cup Range(atClose[s])
            \subseteq Requests \cup {ShutdownNotice}
  /\ post \in [Requests -> {"none", "reading", "processing", "ended"}]
  /\ to \in [Requests -> Sessions \cup {NoSession}]
  /\ status \in [Requests -> Statuses]
  /\ main \in {"serving", "closing", "shutdown", "exited"}
  /\ expired \in BOOLEAN

(***************************************************************************)
(* The map holds the sessions that have a running handler and were not     *)
(* closed by CloseAllSessions, and no others.  So done is never closed a   *)
(* second time (that would be a panic), no handler runs on unreachable and *)
(* untold, and nothing stays in the map when a handler has ended.          *)
(***************************************************************************)
SessionsMapExact ==
  \A s \in Sessions :
    s \in registered <=> stream[s] \in {"open", "leaving"} /\ ~done[s]

(***************************************************************************)
(* 202 to a request is a promise about the stream: its answer has reached  *)
(* the client, or is being written, or is in the channel of a handler that *)
(* still reads it, unless that client left or the shutdown closed the      *)
(* session.                                                                *)
(***************************************************************************)
AcceptedNotLost ==
  \A r \in Requests :
    status[r] = "accepted" /\ pc[r] = "answered" =>
      \/ gone[to[r]]
      \/ done[to[r]]
      \/ r \in Range(delivered[to[r]])
      \/ /\ r \in Range(messages[to[r]]) \cup {writing[to[r]]}
         /\ stream[to[r]] = "open"

(***************************************************************************)
(* Everything that was in the channel when the shutdown closed the session *)
(* (the notice included) has been delivered, in that order, when its       *)
(* handler ends, unless the client left.                                   *)
(***************************************************************************)
ShutdownDrainsStreams ==
  \A s \in Sessions :
    stream[s] \in {"leaving", "ended"} /\ done[s] /\ ~gone[s] =>
      \E i \in 0..Len(delivered[s]) :
        /\ i + Len(atClose[s]) <= Len(delivered[s])
        /\ SubSeq(delivered[s], i + 1, i + Len(atClose[s])) = atClose[s]

(***************************************************************************)
(* Unless the grace period ran out, the only handlers that the exit cuts   *)
(* off are those whose clients already got the 503 of TimeoutHandler.      *)
(***************************************************************************)
ExitCutsOffOnlyTimedOut ==
  main = "exited" /\ ~expired =>
    \A r \in Requests :
      post[r] \in {"reading", "processing"} => status[r] = "timedOut"

(***************************************************************************)
(* What is in the channel of a session, or in the hand of its handler,     *)
(* reaches its client, unless the client stops reading or leaves, or the   *)
(* session is closed by a shutdown.                                        *)
(***************************************************************************)
BufferedIsDelivered ==
  \A s \in Sessions, r \in Requests :
    r \in Range(messages[s]) \cup {writing[s]}
      ~> r \in Range(delivered[s]) \/ stalled[s] \/ gone[s] \/ done[s] \/ ~Alive

(***************************************************************************)
(* Once CloseAllSessions is over, the handlers of all the sessions it has  *)
(* closed come to their end, even if clients stay connected and tools      *)
(* hang, so that Shutdown need not wait for them until the grace period is *)
(* over.  Only a client that stays and reads no more keeps its own.        *)
(***************************************************************************)
ClosedStreamsEnd ==
  main = "shutdown"
    ~> \/ \A s \in Sessions : done[s] => stream[s] = "ended" \/ stalled[s]
       \/ ~Alive

(***************************************************************************)
(* CloseAllSessions runs before the listener is closed, so that a stream   *)
(* can still register after it and is then never told.  Only such a late   *)
(* stream whose client stays, a stream whose client does not read, or a    *)
(* POST without any response yet, can hold up gracefulShutdown: from any   *)
(* moment of Shutdown on it ends, or clients hold it again later, so that  *)
(* it ends when they are gone for good, be it that tools still hang.       *)
(***************************************************************************)
HeldByClients ==
  \/ \E s \in Sessions :
       stream[s] \in {"open", "draining"} /\ ~gone[s] /\ (stalled[s] \/ ~done[s])
  \/ \E r \in Requests : post[r] # "none" /\ status[r] = "none"

ShutdownHeldOnlyByClients == main = "shutdown" ~> ~Alive \/ HeldByClients

=============================================================================
