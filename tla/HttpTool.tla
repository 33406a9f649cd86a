------------------------------ MODULE HttpTool ------------------------------
(***************************************************************************)
(* HTTPTool.Handle of internal/tools/http.go inside the request processor: *)
(* for some of the requests of ToolCall the tool is one HTTP request to a  *)
(* remote server, which may refuse, answer, send a body without end, stall *)
(* at any point, or never say anything.  A context with a deadline covers  *)
(* the exchange from the connection to the last byte of the body.          *)
(***************************************************************************)
EXTENDS ToolCall

CONSTANTS
  HttpCalls,   \* the requests that call an HTTP tool
  MaxRespBody  \* the limit on the body, in reads

ASSUME HttpAssumption == HttpCalls \subseteq Requests /\ MaxRespBody \in Nat \ {0}

VARIABLES
  exchange,    \* how far the HTTP request of a call has come
  status,      \* the class of the status the remote server sent
  body         \* how much of the body has been read, or that it ended

httpVars == <<exchange, status, body>>
httpCallVars == <<callVars, httpVars>>

Whole == MaxRespBody + 1

HttpInit ==
  /\ CallInit
  /\ exchange = [r \in HttpCalls |-> "none"]
  /\ status = [r \in HttpCalls |-> "none"]
  /\ body = [r \in HttpCalls |-> 0]

Exchanging(r, stage) == pc[r] = "running" /\ exchange[r] = stage

\* Handle returns the given result.
Returns(r, res) ==
  /\ HandleReturns(r)
  /\ result'[r] = res
  /\ exchange' = [exchange EXCEPT ![r] = "over"]

\* No URL, one outside the allowed prefixes, or one that cannot be parsed; or
\* http.NewRequestWithContext refuses the method.
RefuseUrl(r) ==
  /\ Exchanging(r, "none")
  /\ Returns(r, "isError")
  /\ UNCHANGED <<status, body>>

\* Parameters, body, context and headers are put together; client.Do begins.
SendRequest(r) ==
  /\ Exchanging(r, "none")
  /\ exchange' = [exchange EXCEPT ![r] = "sent"]
  /\ UNCHANGED <<callVars, status, body>>

\* client.Do returns a response.  A redirect is one like any other: it is not
\* followed.
GetResponse(r) ==
  /\ Exchanging(r, "sent")
  /\ exchange' = [exchange EXCEPT ![r] = "reading"]
  /\ \E class \in {"success", "redirect", "failure"} :
       status' = [status EXCEPT ![r] = class]
  /\ UNCHANGED <<callVars, body>>

\* io.ReadAll goes on as long as something comes, up to the limit.
ReadBody(r) ==
  /\ Exchanging(r, "reading")
  /\ body[r] < MaxRespBody
  /\ \E read \in {body[r] + 1, Whole} : body' = [body EXCEPT ![r] = read]
  /\ UNCHANGED <<callVars, exchange, status>>

\* Variant that takes what has come so far for the whole body.
BodyReadIgnoringErrors(r) ==
  /\ Exchanging(r, "reading")
  /\ body[r] > 0
  /\ Returns(r, IF status[r] = "failure" THEN "isError" ELSE "ok")
  /\ UNCHANGED <<status, body>>

\* The end of the body, or of the LimitReader: what follows is dropped silently.
BodyRead(r) ==
  /\ Exchanging(r, "reading")
  /\ body[r] >= MaxRespBody
  /\ Returns(r, IF status[r] = "failure" THEN "isError" ELSE "ok")
  /\ UNCHANGED <<status, body>>

\* client.Do or io.ReadAll still waits for the remote server.
Waiting(r) ==
  Exchanging(r, "sent") \/ (Exchanging(r, "reading") /\ body[r] < MaxRespBody)

\* The connection is refused, or breaks.
ConnectionFails(r) ==
  /\ Waiting(r)
  /\ Returns(r, "isError")
  /\ UNCHANGED <<status, body>>

\* Variant whose deadline ends with the response header (http.Client has no
\* timeout of its own).
DeadlineUntilResponse(r) ==
  /\ Exchanging(r, "sent")
  /\ Returns(r, "isError")
  /\ UNCHANGED <<status, body>>

\* The context is done: client.Do or the read of the body fails.
DeadlineEnds(r) ==
  /\ Waiting(r)
  /\ Returns(r, "isError")
  /\ UNCHANGED <<status, body>>

HttpHandler(r) == RefuseUrl(r) \/ SendRequest(r) \/ BodyRead(r) \/ DeadlineEnds(r)

Remote(r) == GetResponse(r) \/ ReadBody(r) \/ ConnectionFails(r)

HttpNext ==
  \/ \E r \in Requests :
       (ProcessRequest(r) \/ ServerStep(r)) /\ UNCHANGED httpVars
  \/ \E r \in Requests \ HttpCalls : ToolEnds(r) /\ UNCHANGED httpVars
  \/ \E r \in HttpCalls : HttpHandler(r) \/ Remote(r)
  \/ AllAnswered /\ UNCHANGED httpVars

\* The handler is scheduled and the timer of its context fires.  Nothing is
\* assumed of the remote server.
HttpSpec ==
  /\ HttpInit /\ [][HttpNext]_httpCallVars
  /\ \A r \in Requests : WF_httpCallVars(ServerStep(r) /\ UNCHANGED httpVars)
  /\ \A r \in HttpCalls : WF_httpCallVars(HttpHandler(r))

-----------------------------------------------------------------------------

(***************************************************************************)
(* An HTTP call succeeds exactly if the remote server sent a status below  *)
(* 400 and its body was read to the end or to the limit: a body cut off by *)
(* the deadline or by the connection is never passed on as an answer,      *)
(* however the exchange and the deadline interleave.                       *)
(***************************************************************************)
HttpAnswerComplete ==
  \A r \in HttpCalls :
    exchange[r] = "over" =>
      (result[r] = "ok" <=> status[r] \in {"success", "redirect"}
                            /\ body[r] \in {MaxRespBody, Whole})

(***************************************************************************)
(* A request for a tool is answered although the tools in the other slots  *)
(* hang: always if its own tool is an HTTP tool, whatever the remote       *)
(* server does, and otherwise provided its own Handle does not run for     *)
(* ever.                                                                   *)
(***************************************************************************)
AnsweredWhateverRemotesDo ==
  CallsAnswered /\ \A r \in HttpCalls : pc[r] = "queued" ~> pc[r] = "answered"

=============================================================================
