--------------------------- MODULE HttpToolProofs ---------------------------
(***************************************************************************)
(* An HTTP tool is one of the tools the request processor was proved for:  *)
(* HttpSpec implements ToolCall's specification, so that the theorems of   *)
(* ToolCallProofs hold with HTTP calls among the requests.  And what such  *)
(* a call answers is what the remote server sent.                          *)
(***************************************************************************)
EXTENDS HttpTool, ToolCallProofs

\* A step of the exchange is a step of the tool, or none of the processor's.
LEMMA HttpStepOfCall ==
  ASSUME [HttpNext]_httpCallVars
  PROVE  [CallNext]_callVars
<1>1. ASSUME NEW r \in Requests, ProcessRequest(r) \/ ServerStep(r)
      PROVE  CallNext
  BY <1>1 DEF CallNext
<1>2. ASSUME NEW r \in Requests, ToolEnds(r)
      PROVE  CallNext
  BY <1>2 DEF CallNext
<1>3. ASSUME NEW r \in HttpCalls, HttpHandler(r) \/ Remote(r)
      PROVE  [CallNext]_callVars
  <2>1. HandleReturns(r) => CallNext
    BY <1>2, HttpAssumption DEF ToolEnds
  <2>2. HandleReturns(r) \/ UNCHANGED callVars
    BY <1>3 DEF HttpHandler, Remote, RefuseUrl, SendRequest, BodyRead, DeadlineEnds,
                GetResponse, ReadBody, ConnectionFails, Returns
  <2> QED
    BY <2>1, <2>2
<1>4. CASE AllAnswered
  BY <1>4 DEF AllAnswered
<1>5. CASE UNCHANGED httpCallVars
  BY <1>5 DEF httpCallVars
<1> QED
  BY <1>1, <1>2, <1>3, <1>4, <1>5 DEF HttpNext

(***************************************************************************)
(* HTTPTool.Handle is a tool as the request processor expects it.          *)
(***************************************************************************)
THEOREM HttpCallsAreCalls == HttpSpec => CallSafetySpec
<1>1. HttpInit => CallInit
  BY DEF HttpInit
<1>2. [HttpNext]_httpCallVars => [CallNext]_callVars
  BY HttpStepOfCall
<1> QED
  BY <1>1, <1>2, PTL DEF HttpSpec, CallSafetySpec

(***************************************************************************)
(* With HTTP calls among the requests, too, slots are conserved, the audit *)
(* log agrees with the answers, and the processor is the abstract pool.    *)
(***************************************************************************)
THEOREM HttpCallsKeepBooks ==
  HttpSpec => /\ []SlotsConserved /\ []AuditAgreesWithAnswer /\ []MetricsMatchAudit
              /\ ImplementsPool
BY HttpCallsAreCalls, SlotsSafe, AuditAgrees, MetricsAgree, PoolRefined

-----------------------------------------------------------------------------

AfterHandle == {"record", "metric", "return", "answered"}

\* What Handle returns is kept until the request is answered; up to the header
\* of the response nothing of its body has been read.
ExchangeInv ==
  /\ exchange \in [HttpCalls -> {"none", "sent", "reading", "over"}]
  /\ status \in [HttpCalls -> {"none", "success", "redirect", "failure"}]
  /\ body \in [HttpCalls -> 0..Whole]
  /\ \A r \in HttpCalls :
       /\ exchange[r] = "over" => pc[r] \in AfterHandle
       /\ exchange[r] \in {"none", "sent"} => body[r] = 0
       /\ exchange[r] = "reading" => status[r] # "none"

AnswerInv == ExchangeInv /\ HttpAnswerComplete

LEMMA ProcessorKeepsAnswer ==
  ASSUME CallTypeOK, AnswerInv, UNCHANGED httpVars, NEW q \in Requests,
         \/ ProcessRequest(q) \/ ServerStep(q)
         \/ q \notin HttpCalls /\ ToolEnds(q)
  PROVE  AnswerInv'
<1>1. ASSUME NEW r \in HttpCalls, pc[r] \in AfterHandle
      PROVE  pc'[r] \in AfterHandle /\ result'[r] = result[r]
  <2>1. r \in Requests
    BY HttpAssumption
  <2> QED
    BY <1>1, <2>1
    DEF CallTypeOK, AfterHandle, ProcessRequest, ServerStep, ToolEnds, AnswerAtOnce,
        CallTool, Acquire, RejectBusy, Record, OnToolCall, ReturnResult,
        HandleReturns, HandlePanics
<1> QED
  BY <1>1 DEF AnswerInv, ExchangeInv, HttpAnswerComplete, httpVars

LEMMA ReturnKeepsAnswer ==
  ASSUME CallTypeOK, AnswerInv, NEW q \in HttpCalls, NEW res, Returns(q, res),
         UNCHANGED <<status, body>>,
         res = "ok" <=> status[q] \in {"success", "redirect"}
                        /\ body[q] \in {MaxRespBody, Whole}
  PROVE  AnswerInv'
<1>1. /\ q \in Requests
      /\ pc' = [pc EXCEPT ![q] = "record"]
      /\ \E v \in ToolResults : result' = [result EXCEPT ![q] = v]
      /\ result'[q] = res
      /\ exchange' = [exchange EXCEPT ![q] = "over"]
  BY HttpAssumption DEF Returns, HandleReturns
<1>2. ExchangeInv'
  BY <1>1, HttpAssumption DEF AnswerInv, ExchangeInv, AfterHandle, CallTypeOK
<1>3. HttpAnswerComplete'
  BY <1>1, HttpAssumption DEF AnswerInv, ExchangeInv, HttpAnswerComplete, CallTypeOK
<1> QED
  BY <1>2, <1>3 DEF AnswerInv

LEMMA ExchangeKeepsAnswer ==
  ASSUME CallTypeOK, AnswerInv, NEW q \in HttpCalls, HttpHandler(q) \/ Remote(q)
  PROVE  AnswerInv'
<1> USE HttpAssumption
<1>1. CASE RefuseUrl(q)
  <2>1. body[q] = 0 /\ Returns(q, "isError")
    BY <1>1 DEF RefuseUrl, Exchanging, AnswerInv, ExchangeInv
  <2> QED
    BY <1>1, <2>1, ReturnKeepsAnswer DEF RefuseUrl, Whole
<1>2. CASE ConnectionFails(q) \/ DeadlineEnds(q)
  <2>1. Returns(q, "isError") /\ Waiting(q) /\ UNCHANGED <<status, body>>
    BY <1>2 DEF ConnectionFails, DeadlineEnds
  <2>2. body[q] \notin {MaxRespBody, Whole}
    BY <2>1 DEF Waiting, Exchanging, AnswerInv, ExchangeInv, Whole
  <2> QED
    BY <2>1, <2>2, ReturnKeepsAnswer
<1>3. CASE BodyRead(q)
  <2> DEFINE res == IF status[q] = "failure" THEN "isError" ELSE "ok"
  <2>1. Returns(q, res) /\ UNCHANGED <<status, body>>
    BY <1>3 DEF BodyRead
  <2>2. body[q] \in {MaxRespBody, Whole} /\ status[q] \in {"success", "redirect", "failure"}
    BY <1>3 DEF BodyRead, Exchanging, AnswerInv, ExchangeInv, Whole
  <2>3. res = "ok" <=> status[q] \in {"success", "redirect"}
    BY <2>2
  <2> HIDE DEF res
  <2> QED
    BY <2>1, <2>2, <2>3, ReturnKeepsAnswer
<1>4. CASE SendRequest(q) \/ GetResponse(q)
  <2>1. UNCHANGED <<pc, result>> /\ exchange[q] # "over" /\ exchange'[q] # "over"
    BY <1>4 DEF SendRequest, GetResponse, Exchanging, callVars, AnswerInv, ExchangeInv
  <2>2. ExchangeInv'
    BY <1>4, <2>1 DEF SendRequest, GetResponse, Exchanging, AnswerInv, ExchangeInv
  <2>3. HttpAnswerComplete'
    BY <1>4, <2>1
    DEF SendRequest, GetResponse, AnswerInv, ExchangeInv, HttpAnswerComplete
  <2> QED
    BY <2>2, <2>3 DEF AnswerInv
<1>5. CASE ReadBody(q)
  <2>1. UNCHANGED <<pc, result>> /\ exchange[q] = "reading"
    BY <1>5 DEF ReadBody, Exchanging, callVars
  <2>2. ExchangeInv'
    BY <1>5, <2>1 DEF ReadBody, AnswerInv, ExchangeInv, Whole
  <2>3. HttpAnswerComplete'
    BY <1>5, <2>1 DEF ReadBody, AnswerInv, ExchangeInv, HttpAnswerComplete
  <2> QED
    BY <2>2, <2>3 DEF AnswerInv
<1> QED
  BY <1>1, <1>2, <1>3, <1>4, <1>5 DEF HttpHandler, Remote

(***************************************************************************)
(* An HTTP call succeeds exactly if the status was below 400 and the body  *)
(* was read to its end or to the limit, for every limit, any number of     *)
(* calls and any number of slots.                                          *)
(***************************************************************************)
THEOREM HttpAnswersComplete == HttpSpec => []HttpAnswerComplete
<1>1. HttpInit => AnswerInv
  BY HttpAssumption DEF HttpInit, AnswerInv, ExchangeInv, HttpAnswerComplete, Whole
<1>2. ASSUME CallTypeOK, AnswerInv, [HttpNext]_httpCallVars
      PROVE  AnswerInv'
  <2>1. CASE (AllAnswered /\ UNCHANGED httpVars) \/ UNCHANGED httpCallVars
    BY <1>2, <2>1
    DEF AllAnswered, callVars, httpVars, httpCallVars, AnswerInv, ExchangeInv,
        HttpAnswerComplete
  <2> QED
    BY <1>2, <2>1, ProcessorKeepsAnswer, ExchangeKeepsAnswer, HttpAssumption DEF HttpNext
<1>3. AnswerInv => HttpAnswerComplete
  BY DEF AnswerInv
<1> QED
  BY <1>1, <1>2, <1>3, HttpCallsAreCalls, TypeCorrect, PTL DEF HttpSpec

=============================================================================
