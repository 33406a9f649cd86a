--------------------------- MODULE SseServerProofs ---------------------------
(***************************************************************************)
(* Proofs about SseServer, for every set of requests and of sessions, and  *)
(* every capacity of the semaphore and of a session's channel.             *)
(*                                                                         *)
(* The inductive invariant is SseInv.  Its parts follow the POST handlers  *)
(* (PostsOrdered), the streams and the map of sessions (StreamsOrdered),   *)
(* the answers in the channels (AcceptedNotLost itself), and what a closed *)
(* session still has to deliver (StreamsDrained).                          *)
(***************************************************************************)
EXTENDS SseServer, ToolCallProofs, SequenceTheorems

-----------------------------------------------------------------------------
(* The transport and the request processor.                                *)

LEMMA SseStepOfCall ==
  ASSUME [SseNext]_allVars
  PROVE  [CallNext]_callVars
<1>1. ASSUME NEW r \in Requests, Process(r)
      PROVE  CallNext
  BY <1>1 DEF Process, CallNext
<1>2. ASSUME NEW s \in Sessions,
             OpenStream(s) \/ Disconnect(s) \/ StopReading(s) \/ StreamHandler(s)
      PROVE  UNCHANGED callVars
  BY <1>2 DEF OpenStream, Disconnect, StopReading, StreamHandler, WriteMessage, Take,
              WriteEnds, SeeDone, DrainMessage, DrainEnds, SeeClientGone, Unregister
<1>3. ASSUME NEW r \in Requests,
             \/ RefusePost(r) \/ HandlerTimesOut(r)
             \/ \E s \in Sessions : LookUp(r, s)
             \/ PostHandler(r) /\ ~Process(r)
      PROVE  UNCHANGED callVars
  BY <1>3 DEF RefusePost, HandlerTimesOut, LookUp, PostHandler, EndEarly, BeginProcess,
              MarshalFails, Send, SendTimesOut
<1>4. ASSUME BeginShutdown \/ MainProceeds \/ HttpShutdownExpires
      PROVE  UNCHANGED callVars
  BY <1>4 DEF BeginShutdown, MainProceeds, HttpShutdownExpires, CloseSession,
              BeginHttpShutdown, HttpShutdownDone
<1>5. ASSUME Terminated \/ UNCHANGED allVars
      PROVE  UNCHANGED callVars
  BY <1>5 DEF Terminated, allVars
<1> QED
  BY <1>1, <1>2, <1>3, <1>4, <1>5 DEF SseNext

(***************************************************************************)
(* Requests that come by POST are processed as ToolCall says, also those   *)
(* whose client has been answered 503, and during the shutdown.            *)
(***************************************************************************)
THEOREM SseCallsAreCalls == SseSafetySpec => CallSafetySpec
<1>1. SseInit => CallInit
  BY DEF SseInit
<1>2. [SseNext]_allVars => [CallNext]_callVars
  BY SseStepOfCall
<1> QED
  BY <1>1, <1>2, PTL DEF SseSafetySpec, CallSafetySpec

(***************************************************************************)
(* So slots are conserved, the audit log and the metrics agree with the    *)
(* answers, and the processor is the abstract pool, up to the exit.        *)
(***************************************************************************)
THEOREM SseKeepsBooks ==
  SseSafetySpec => /\ []SlotsConserved /\ []AuditAgreesWithAnswer /\ []MetricsMatchAudit
                   /\ ImplementsPool
BY SseCallsAreCalls, SlotsSafe, AuditAgrees, MetricsAgree, PoolRefined

-----------------------------------------------------------------------------
(* The invariant.                                                          *)

Payloads == Requests \cup {ShutdownNotice}

\* SseTypeOK says what the channels hold; here, that they are sequences.
SseTypes ==
  /\ SseTypeOK
  /\ messages \in [Sessions -> Seq(Payloads)]
  /\ delivered \in [Sessions -> Seq(Payloads)]
  /\ atClose \in [Sessions -> Seq(Payloads)]

\* A handler that processes a request has a session whose stream was opened,
\* and nothing but TimeoutHandler has answered for it; once Shutdown has found
\* all connections idle, TimeoutHandler has answered for all that still run.
PostsOrdered ==
  \A r \in Requests :
    /\ post[r] \in {"none", "reading"} => pc[r] = "idle"
    /\ post[r] = "none" => status[r] = "none"
    /\ status[r] = "accepted" => to[r] \in Sessions
    /\ post[r] \in {"reading", "processing"} =>
         /\ to[r] \in Sessions /\ stream[to[r]] # "unopened"
         /\ status[r] \in {"none", "timedOut"}
         /\ main = "exited" /\ ~expired => status[r] = "timedOut"

\* A stream is left because its session was closed or its client is gone, and
\* not in the middle of a write.
StreamsOrdered ==
  /\ SessionsMapExact
  /\ \A s \in Sessions :
       /\ stream[s] = "unopened" => ~done[s]
       /\ stream[s] = "draining" => done[s]
       /\ stream[s] \in {"leaving", "ended"} => done[s] \/ gone[s]
       /\ stream[s] \notin {"open", "draining"} => writing[s] = NoMessage

\* part is a contiguous part of whole.
Within(part, whole) ==
  \E i \in 0..Len(whole) :
    /\ i + Len(part) <= Len(whole)
    /\ \A k \in 1..Len(part) : whole[i + k] = part[k]

\* What was in the channel when done was closed is in what is delivered once the
\* write at hand ends, followed by what is still in the channel; at the end, in
\* what was delivered alone.
StreamsDrained ==
  \A s \in Sessions :
    done[s] /\ ~gone[s] =>
      /\ Within(atClose[s], Flushed(s) \o messages[s])
      /\ stream[s] \in {"leaving", "ended"} => Within(atClose[s], delivered[s])

SseInv ==
  SseTypes /\ PostsOrdered /\ StreamsOrdered /\ AcceptedNotLost /\ StreamsDrained

-----------------------------------------------------------------------------
(* Sequences.                                                              *)

LEMMA WriteKeepsWhole ==
  ASSUME NEW S, NEW d \in Seq(S), NEW m \in Seq(S), m # <<>>
  PROVE  Append(d, Head(m)) \o Tail(m) = d \o m
<1> DEFINE t == Tail(m)
<1> DEFINE a == Append(d, Head(m))
<1> DEFINE u == a \o t
<1> DEFINE v == d \o m
<1>1. /\ Head(m) \in S /\ Head(m) = m[1] /\ t \in Seq(S)
      /\ Len(t) = Len(m) - 1 /\ Len(m) \in Nat \ {0}
      /\ \A i \in 1..Len(t) : t[i] = m[i + 1]
  BY HeadTailProperties, EmptySeq
<1>2. /\ a \in Seq(S) /\ Len(a) = Len(d) + 1 /\ Len(d) \in Nat
      /\ \A i \in 1..Len(d) : a[i] = d[i]
      /\ a[Len(d) + 1] = m[1]
  BY <1>1, AppendProperties, LenProperties
<1>3. /\ v \in Seq(S) /\ Len(v) = Len(d) + Len(m)
      /\ \A i \in 1..Len(d) + Len(m) : v[i] = IF i <= Len(d) THEN d[i] ELSE m[i - Len(d)]
  BY ConcatProperties
<1> HIDE DEF t, a, v
<1>4. /\ u \in Seq(S) /\ Len(u) = Len(a) + Len(t)
      /\ \A i \in 1..Len(a) + Len(t) : u[i] = IF i <= Len(a) THEN a[i] ELSE t[i - Len(a)]
  BY <1>1, <1>2, ConcatProperties
<1> HIDE DEF u
<1>5. ASSUME NEW i \in 1..Len(u)
      PROVE  u[i] = v[i]
  <2>1. CASE i <= Len(d)
    <3>1. i \in 1..Len(d) /\ i <= Len(a)
      BY <1>1, <1>2, <1>4, <2>1
    <3>2. u[i] = a[i]
      BY <1>1, <1>2, <1>4, <3>1
    <3>3. v[i] = d[i]
      BY <1>1, <1>2, <1>3, <3>1
    <3> QED
      BY <1>2, <3>1, <3>2, <3>3
  <2>2. CASE i = Len(d) + 1
    <3>1. u[i] = a[i]
      BY <1>1, <1>2, <1>4, <2>2
    <3>2. v[i] = m[1]
      BY <1>1, <1>2, <1>3, <2>2
    <3> QED
      BY <1>2, <2>2, <3>1, <3>2
  <2>3. CASE i > Len(d) + 1
    <3> DEFINE j == i - (Len(d) + 1)
    <3>1. j \in 1..Len(t) /\ j + 1 = i - Len(d)
      BY <1>1, <1>2, <1>4, <2>3
    <3>2. u[i] = t[j] /\ v[i] = m[i - Len(d)]
      BY <1>1, <1>2, <1>3, <1>4, <2>3
    <3> HIDE DEF j
    <3> QED
      BY <1>1, <3>1, <3>2
  <2> QED
    BY <1>2, <1>4, <2>1, <2>2, <2>3
<1>6. u = v
  <2>1. Len(u) = Len(v)
    BY <1>1, <1>2, <1>3, <1>4
  <2> QED
    BY <1>3, <1>4, <1>5, <2>1, SeqEqual
<1> QED
  BY <1>6 DEF u, v, a, t

LEMMA AppendRange ==
  ASSUME NEW S, NEW m \in Seq(S), NEW e \in S
  PROVE  Range(Append(m, e)) = Range(m) \cup {e}
<1> DEFINE a == Append(m, e)
<1>1. /\ a \in Seq(S) /\ Len(a) = Len(m) + 1 /\ Len(m) \in Nat
      /\ \A i \in 1..Len(m) : a[i] = m[i]
      /\ a[Len(m) + 1] = e
  BY AppendProperties, LenProperties
<1>2. Range(m) = {m[i] : i \in 1..Len(m)}
  BY RangeEquality
<1> HIDE DEF a
<1>3. Range(a) = {a[i] : i \in 1..Len(m) + 1}
  BY <1>1, RangeEquality
<1>4. \A i \in 1..Len(m) + 1 : i \in 1..Len(m) \/ i = Len(m) + 1
  BY <1>1
<1>5. 1..Len(m) \subseteq 1..Len(m) + 1 /\ Len(m) + 1 \in 1..Len(m) + 1
  BY <1>1
<1>6. Range(a) = Range(m) \cup {e}
  BY <1>1, <1>2, <1>3, <1>4, <1>5
<1> QED
  BY <1>6 DEF a

LEMMA HeadTailRange ==
  ASSUME NEW S, NEW m \in Seq(S), m # <<>>
  PROVE  Range(m) = {Head(m)} \cup Range(Tail(m))
<1> DEFINE t == Tail(m)
<1>1. /\ Head(m) = m[1] /\ t \in Seq(S) /\ Len(m) \in Nat \ {0} /\ Len(t) = Len(m) - 1
      /\ \A i \in 1..Len(t) : t[i] = m[i + 1]
  BY HeadTailProperties, EmptySeq
<1>2. Range(m) = {m[i] : i \in 1..Len(m)}
  BY RangeEquality
<1> HIDE DEF t
<1>3. Range(t) = {t[i] : i \in 1..Len(t)}
  BY <1>1, RangeEquality
<1>4. \A i \in 1..Len(m) : i = 1 \/ (i - 1 \in 1..Len(t) /\ i - 1 + 1 = i)
  BY <1>1
<1>5. 1 \in 1..Len(m) /\ \A i \in 1..Len(t) : i + 1 \in 1..Len(m)
  BY <1>1
<1>6. Range(m) \subseteq {m[1]} \cup Range(t)
  <2>1. ASSUME NEW i \in 1..Len(m), i # 1
        PROVE  m[i] \in Range(t)
    <3>1. i - 1 \in 1..Len(t) /\ t[i - 1] = m[i - 1 + 1] /\ i - 1 + 1 = i
      BY <1>1, <1>4, <2>1
    <3> QED
      BY <1>3, <3>1
  <2> QED
    BY <1>2, <2>1
<1>7. {m[1]} \cup Range(t) \subseteq Range(m)
  BY <1>1, <1>2, <1>3, <1>5
<1> QED
  BY <1>1, <1>6, <1>7 DEF t

LEMMA WithinExtended ==
  ASSUME NEW S, NEW part \in Seq(S), NEW d \in Seq(S), NEW m \in Seq(S), NEW e \in S,
         Within(part, d \o m)
  PROVE  Within(part, d \o Append(m, e))
<1> DEFINE v == d \o m
<1> DEFINE a == Append(m, e)
<1> DEFINE w == d \o a
<1>1. /\ a \in Seq(S) /\ Len(a) = Len(m) + 1
      /\ \A i \in 1..Len(m) : a[i] = m[i]
      /\ Len(m) \in Nat /\ Len(d) \in Nat /\ Len(part) \in Nat
  BY AppendProperties, LenProperties
<1>2. /\ Len(v) = Len(d) + Len(m)
      /\ \A i \in 1..Len(d) + Len(m) : v[i] = IF i <= Len(d) THEN d[i] ELSE m[i - Len(d)]
  BY ConcatProperties
<1>3. PICK i \in 0..Len(v) : /\ i + Len(part) <= Len(v)
                             /\ \A k \in 1..Len(part) : v[i + k] = part[k]
  BY DEF Within
<1> HIDE DEF v, a
<1>4. /\ Len(w) = Len(d) + Len(a)
      /\ \A j \in 1..Len(d) + Len(a) : w[j] = IF j <= Len(d) THEN d[j] ELSE a[j - Len(d)]
  BY <1>1, ConcatProperties
<1> HIDE DEF w
<1>5. ASSUME NEW j \in 1..Len(v)
      PROVE  w[j] = v[j]
  <2>1. CASE j <= Len(d)
    BY <1>1, <1>2, <1>4, <2>1
  <2>2. CASE j > Len(d)
    <3>1. j - Len(d) \in 1..Len(m)
      BY <1>1, <1>2, <2>2
    <3>2. a[j - Len(d)] = m[j - Len(d)]
      BY <1>1, <3>1
    <3> QED
      BY <1>1, <1>2, <1>4, <2>2, <3>2
  <2> QED
    BY <1>1, <1>2, <2>1, <2>2
<1>6. ASSUME NEW k \in 1..Len(part)
      PROVE  w[i + k] = part[k]
  <2>1. i + k \in 1..Len(v)
    BY <1>1, <1>2, <1>3
  <2> QED
    BY <1>3, <1>5, <2>1
<1>7. i \in 0..Len(w) /\ i + Len(part) <= Len(w)
  BY <1>1, <1>2, <1>3, <1>4
<1>8. Within(part, w)
  BY <1>6, <1>7 DEF Within
<1> QED
  BY <1>8 DEF w, a

LEMMA WithinSelf ==
  ASSUME NEW S, NEW d \in Seq(S), NEW m \in Seq(S)
  PROVE  Within(m, d \o m)
<1> DEFINE w == d \o m
<1>1. /\ Len(w) = Len(d) + Len(m) /\ Len(d) \in Nat /\ Len(m) \in Nat
      /\ \A i \in 1..Len(d) + Len(m) : w[i] = IF i <= Len(d) THEN d[i] ELSE m[i - Len(d)]
  BY ConcatProperties, LenProperties
<1> HIDE DEF w
<1>2. \A k \in 1..Len(m) : w[Len(d) + k] = m[k]
  BY <1>1
<1>3. Len(d) \in 0..Len(w) /\ Len(d) + Len(m) <= Len(w)
  BY <1>1
<1>4. Within(m, w)
  BY <1>2, <1>3 DEF Within
<1> QED
  BY <1>4 DEF w

-----------------------------------------------------------------------------
(* The steps of the streams.                                               *)

\* OpenStream, and the steps that move a stream's handler.
LEMMA HandlerMoves ==
  ASSUME SseInv, NEW s \in Sessions, OpenStream(s) \/ StreamHandler(s),
         ~WriteMessage(s), ~DrainMessage(s), ~WriteEnds(s)
  PROVE  SseInv'
<1>1. /\ UNCHANGED <<callVars, done, messages, gone, stalled, writing, delivered, atClose,
                     postVars, mainVars>>
      /\ \/ stream[s] = "unopened" /\ stream' = [stream EXCEPT ![s] = "open"]
            /\ registered' = registered \cup {s}
         \/ stream[s] = "open" /\ done[s] /\ writing[s] = NoMessage
            /\ stream' = [stream EXCEPT ![s] = "draining"] /\ UNCHANGED registered
         \/ stream[s] = "draining" /\ messages[s] = <<>> /\ writing[s] = NoMessage
            /\ stream' = [stream EXCEPT ![s] = "leaving"] /\ UNCHANGED registered
         \/ stream[s] = "open" /\ gone[s] /\ writing[s] = NoMessage
            /\ stream' = [stream EXCEPT ![s] = "leaving"] /\ UNCHANGED registered
         \/ stream[s] = "leaving" /\ stream' = [stream EXCEPT ![s] = "ended"]
            /\ registered' = registered \ {s}
  BY DEF OpenStream, StreamHandler, Selects, SeeDone, DrainEnds, SeeClientGone, Unregister
<1>2. SseTypes'
  BY <1>1 DEF SseInv, SseTypes, SseTypeOK, postVars, mainVars
<1>3. PostsOrdered'
  <2>1. \A q \in Sessions : stream[q] # "unopened" => stream'[q] # "unopened"
    BY <1>1 DEF SseInv, SseTypes, SseTypeOK
  <2> QED
    BY <1>1, <2>1 DEF SseInv, PostsOrdered, callVars, postVars, mainVars
<1>4. StreamsOrdered'
  <2>1. \A q \in Sessions \ {s} :
          stream'[q] = stream[q] /\ (q \in registered' <=> q \in registered)
    BY <1>1 DEF SseInv, SseTypes, SseTypeOK
  <2>2. \/ stream[s] = "unopened" /\ stream'[s] = "open" /\ s \in registered'
        \/ /\ stream[s] = "open" /\ done[s] /\ stream'[s] = "draining"
           /\ writing[s] = NoMessage
           /\ s \in registered' <=> s \in registered
        \/ /\ stream[s] = "draining" /\ stream'[s] = "leaving"
           /\ writing[s] = NoMessage
           /\ s \in registered' <=> s \in registered
        \/ /\ stream[s] = "open" /\ gone[s] /\ stream'[s] = "leaving"
           /\ writing[s] = NoMessage
           /\ s \in registered' <=> s \in registered
        \/ stream[s] = "leaving" /\ stream'[s] = "ended" /\ s \notin registered'
    BY <1>1 DEF SseInv, SseTypes, SseTypeOK
  <2>3. ASSUME NEW q \in Sessions
        PROVE  /\ q \in registered' <=> stream'[q] \in {"open", "leaving"} /\ ~done[q]
               /\ stream'[q] = "unopened" => ~done[q]
               /\ stream'[q] = "draining" => done[q]
               /\ stream'[q] \in {"leaving", "ended"} => done[q] \/ gone[q]
               /\ stream'[q] \notin {"open", "draining"} => writing[q] = NoMessage
    <3>1. /\ q \in registered <=> stream[q] \in {"open", "leaving"} /\ ~done[q]
          /\ stream[q] = "unopened" => ~done[q]
          /\ stream[q] = "draining" => done[q]
          /\ stream[q] \in {"leaving", "ended"} => done[q] \/ gone[q]
          /\ stream[q] \notin {"open", "draining"} => writing[q] = NoMessage
      BY DEF SseInv, StreamsOrdered, SessionsMapExact
    <3>2. CASE q = s
      BY <2>2, <3>1, <3>2
    <3>3. CASE q # s
      BY <2>1, <3>1, <3>3
    <3> QED
      BY <3>2, <3>3
  <2> QED
    BY <1>1, <2>3 DEF StreamsOrdered, SessionsMapExact
<1>5. AcceptedNotLost'
  <2>1. \A q \in Sessions : stream[q] = "open" /\ stream'[q] # "open" => done[q] \/ gone[q]
    BY <1>1 DEF SseInv, SseTypes, SseTypeOK
  <2> QED
    BY <1>1, <2>1
    DEF SseInv, SseTypes, SseTypeOK, PostsOrdered, AcceptedNotLost, callVars, postVars
<1>6. StreamsDrained'
  <2> SUFFICES ASSUME NEW q \in Sessions, done[q], ~gone[q]
               PROVE  /\ Within(atClose[q], Flushed(q) \o messages[q])
                      /\ stream'[q] \in {"leaving", "ended"} => Within(atClose[q], delivered[q])
    BY <1>1 DEF StreamsDrained, Flushed
  <2>1. /\ Within(atClose[q], Flushed(q) \o messages[q])
        /\ stream[q] \in {"leaving", "ended"} => Within(atClose[q], delivered[q])
    BY DEF SseInv, StreamsDrained
  <2>2. CASE messages[q] = <<>> /\ writing[q] = NoMessage
    <3>1. Flushed(q) = delivered[q]
      BY <2>2 DEF Flushed
    <3>2. delivered[q] \o messages[q] = delivered[q]
      BY <2>2, ConcatEmptySeq DEF SseInv, SseTypes
    <3> QED
      BY <2>1, <3>1, <3>2
  <2>3. CASE ~(messages[q] = <<>> /\ writing[q] = NoMessage)
    <3>1. stream'[q] \in {"leaving", "ended"} => stream[q] \in {"leaving", "ended"}
      BY <1>1, <2>3 DEF SseInv, SseTypes, SseTypeOK
    <3> QED
      BY <2>1, <3>1
  <2> QED
    BY <2>2, <2>3
<1> QED
  BY <1>2, <1>3, <1>4, <1>5, <1>6 DEF SseInv

LEMMA ClientMoves ==
  ASSUME SseInv, NEW s \in Sessions, Disconnect(s) \/ StopReading(s)
  PROVE  SseInv'
<1>1. /\ \/ gone' = [gone EXCEPT ![s] = TRUE]
         \/ UNCHANGED gone
      /\ \/ stalled' = [stalled EXCEPT ![s] = TRUE]
         \/ stalled' = [stalled EXCEPT ![s] = FALSE]
      /\ UNCHANGED <<callVars, stream, registered, done, messages, writing, delivered,
                     atClose, postVars, mainVars>>
  BY DEF Disconnect, StopReading
<1>2. SseTypes'
  BY <1>1 DEF SseInv, SseTypes, SseTypeOK, postVars, mainVars
<1>3. \A q \in Sessions : gone[q] => gone'[q]
  BY <1>1 DEF SseInv, SseTypes, SseTypeOK
<1>4. PostsOrdered'
  BY <1>1 DEF SseInv, PostsOrdered, callVars, postVars, mainVars
<1>5. StreamsOrdered'
  BY <1>1, <1>3 DEF SseInv, StreamsOrdered, SessionsMapExact
<1>6. AcceptedNotLost'
  BY <1>1, <1>3 DEF SseInv, AcceptedNotLost, PostsOrdered, callVars, postVars
<1>7. StreamsDrained'
  BY <1>1, <1>3 DEF SseInv, StreamsDrained, Flushed
<1> QED
  BY <1>2, <1>4, <1>5, <1>6, <1>7 DEF SseInv

LEMMA MessageTaken ==
  ASSUME SseInv, NEW s \in Sessions, WriteMessage(s) \/ DrainMessage(s)
  PROVE  SseInv'
<1> DEFINE h == Head(messages[s])
<1> DEFINE t == Tail(messages[s])
<1>1. /\ messages[s] # <<>> /\ writing[s] = NoMessage /\ stream[s] \in {"open", "draining"}
      /\ messages' = [messages EXCEPT ![s] = t]
      /\ writing' = [writing EXCEPT ![s] = h]
      /\ UNCHANGED <<callVars, stream, registered, done, gone, stalled, delivered, atClose,
                     postVars, mainVars>>
  BY DEF WriteMessage, DrainMessage, Take, Selects
<1>2. /\ messages \in [Sessions -> Seq(Payloads)] /\ delivered \in [Sessions -> Seq(Payloads)]
      /\ messages[s] \in Seq(Payloads) /\ delivered[s] \in Seq(Payloads)
      /\ writing \in [Sessions -> Payloads \cup {NoMessage}]
      /\ Len(messages[s]) <= BufferSize /\ BufferSize \in Nat
      /\ Range(messages[s]) \subseteq Payloads
  BY BufferSizeAssumption DEF SseInv, SseTypes, SseTypeOK, Payloads
<1>3. /\ h \in Payloads /\ t \in Seq(Payloads)
      /\ Len(t) = Len(messages[s]) - 1 /\ Len(messages[s]) \in Nat
      /\ Range(messages[s]) = {h} \cup Range(t)
      /\ Append(delivered[s], h) \o t = delivered[s] \o messages[s]
  BY <1>1, <1>2, HeadTailProperties, LenProperties, HeadTailRange, WriteKeepsWhole
<1>4. h # NoMessage
  BY <1>3, NoMessageAssumption DEF Payloads, ShutdownNotice, NoMessage
<1> HIDE DEF h, t
<1>5. /\ messages'[s] = t /\ writing'[s] = h
      /\ \A q \in Sessions \ {s} : messages'[q] = messages[q] /\ writing'[q] = writing[q]
  BY <1>1, <1>2
<1>6. SseTypes'
  <2>1. /\ messages' \in [Sessions -> Seq(Payloads)]
        /\ writing' \in [Sessions -> Payloads \cup {NoMessage}]
    BY <1>1, <1>2, <1>3
  <2>2. Len(messages'[s]) <= BufferSize
    BY <1>2, <1>3, <1>5
  <2>3. Range(messages'[s]) \subseteq Payloads
    BY <1>2, <1>3, <1>5
  <2>4. \A q \in Sessions :
          /\ Len(messages'[q]) <= BufferSize
          /\ Range(messages'[q]) \cup Range(delivered[q]) \cup Range(atClose[q]) \subseteq Payloads
    BY <1>5, <2>2, <2>3 DEF SseInv, SseTypes, SseTypeOK, Payloads
  <2>5. writing' \in [Sessions -> Requests \cup {ShutdownNotice, NoMessage}]
    BY <2>1 DEF Payloads
  <2> QED
    BY <1>1, <2>1, <2>4, <2>5 DEF SseInv, SseTypes, SseTypeOK, Payloads, postVars, mainVars
<1>7. PostsOrdered'
  BY <1>1 DEF SseInv, PostsOrdered, callVars, postVars, mainVars
<1>8. StreamsOrdered'
  BY <1>1, <1>5 DEF SseInv, StreamsOrdered, SessionsMapExact
<1>9. AcceptedNotLost'
  <2>1. ASSUME NEW q \in Sessions, NEW r \in Requests,
               r \in Range(messages[q]) \cup {writing[q]}
        PROVE  r \in Range(messages'[q]) \cup {writing'[q]}
    BY <1>1, <1>3, <1>5, <2>1, NoMessageAssumption
  <2> SUFFICES ASSUME NEW r \in Requests, status[r] = "accepted", pc[r] = "answered",
                      ~gone[to[r]], ~done[to[r]]
               PROVE  \/ r \in Range(delivered[to[r]])
                      \/ /\ r \in Range(messages'[to[r]]) \cup {writing'[to[r]]}
                         /\ stream[to[r]] = "open"
    BY <1>1 DEF AcceptedNotLost, callVars, postVars
  <2>2. /\ to[r] \in Sessions
        /\ \/ r \in Range(delivered[to[r]])
           \/ /\ r \in Range(messages[to[r]]) \cup {writing[to[r]]}
              /\ stream[to[r]] = "open"
    BY DEF SseInv, AcceptedNotLost, PostsOrdered
  <2> QED
    BY <2>1, <2>2
<1>10. StreamsDrained'
  <2>1. ASSUME NEW q \in Sessions, done[q], ~gone[q]
        PROVE  /\ Within(atClose[q], Flushed(q)' \o messages'[q])
               /\ stream[q] \in {"leaving", "ended"} => Within(atClose[q], delivered[q])
    <3>1. /\ Within(atClose[q], Flushed(q) \o messages[q])
          /\ stream[q] \in {"leaving", "ended"} => Within(atClose[q], delivered[q])
      BY <2>1 DEF SseInv, StreamsDrained
    <3>2. CASE q = s
      <4>1. Flushed(s) = delivered[s] /\ Flushed(s)' = Append(delivered[s], h)
        BY <1>1, <1>4, <1>5 DEF Flushed
      <4> QED
        BY <1>3, <1>5, <3>1, <3>2, <4>1
    <3>3. CASE q # s
      <4>1. Flushed(q)' = Flushed(q)
        BY <1>1, <1>5, <3>3 DEF Flushed
      <4> QED
        BY <1>5, <3>1, <3>3, <4>1
    <3> QED
      BY <3>2, <3>3
  <2> QED
    BY <1>1, <2>1 DEF StreamsDrained
<1> QED
  BY <1>6, <1>7, <1>8, <1>9, <1>10 DEF SseInv

LEMMA MessageWritten ==
  ASSUME SseInv, NEW s \in Sessions, WriteEnds(s)
  PROVE  SseInv'
<1> DEFINE f == Flushed(s)
<1>1. /\ writing[s] # NoMessage
      /\ writing' = [writing EXCEPT ![s] = NoMessage]
      /\ delivered' = [delivered EXCEPT ![s] = IF gone[s] THEN @ ELSE f]
      /\ UNCHANGED <<callVars, stream, registered, done, messages, gone, stalled, atClose,
                     postVars, mainVars>>
  BY DEF WriteEnds
<1>2. /\ delivered \in [Sessions -> Seq(Payloads)] /\ delivered[s] \in Seq(Payloads)
      /\ writing \in [Sessions -> Payloads \cup {NoMessage}] /\ writing[s] \in Payloads
      /\ Range(delivered[s]) \subseteq Payloads
  BY <1>1 DEF SseInv, SseTypes, SseTypeOK, Payloads
<1>3. f \in Seq(Payloads) /\ Range(f) = Range(delivered[s]) \cup {writing[s]}
  BY <1>1, <1>2, AppendProperties, AppendRange DEF Flushed
<1> HIDE DEF f
<1>4. /\ writing'[s] = NoMessage
      /\ delivered'[s] = IF gone[s] THEN delivered[s] ELSE f
      /\ \A q \in Sessions \ {s} : writing'[q] = writing[q] /\ delivered'[q] = delivered[q]
  BY <1>1, <1>2
<1>5. SseTypes'
  <2>1. /\ delivered' \in [Sessions -> Seq(Payloads)]
        /\ writing' \in [Sessions -> Payloads \cup {NoMessage}]
    BY <1>1, <1>2, <1>3
  <2>2. Range(delivered'[s]) \subseteq Payloads
    BY <1>2, <1>3, <1>4
  <2>3. \A q \in Sessions :
          /\ Len(messages[q]) <= BufferSize
          /\ Range(messages[q]) \cup Range(delivered'[q]) \cup Range(atClose[q]) \subseteq Payloads
    BY <1>4, <2>2 DEF SseInv, SseTypes, SseTypeOK, Payloads
  <2> QED
    BY <1>1, <2>1, <2>3 DEF SseInv, SseTypes, SseTypeOK, Payloads, postVars, mainVars
<1>6. PostsOrdered'
  BY <1>1 DEF SseInv, PostsOrdered, callVars, postVars, mainVars
<1>7. StreamsOrdered'
  BY <1>1, <1>4 DEF SseInv, StreamsOrdered, SessionsMapExact
<1>8. AcceptedNotLost'
  <2>1. ASSUME NEW q \in Sessions, ~gone[q]
        PROVE  Range(delivered[q]) \cup {writing[q]} \subseteq Range(delivered'[q]) \cup {writing'[q]}
    BY <1>3, <1>4, <2>1
  <2> SUFFICES ASSUME NEW r \in Requests, status[r] = "accepted", pc[r] = "answered",
                      ~gone[to[r]], ~done[to[r]]
               PROVE  \/ r \in Range(delivered'[to[r]])
                      \/ /\ r \in Range(messages[to[r]]) \cup {writing'[to[r]]}
                         /\ stream[to[r]] = "open"
    BY <1>1 DEF AcceptedNotLost, callVars, postVars
  <2>2. /\ to[r] \in Sessions
        /\ \/ r \in Range(delivered[to[r]])
           \/ /\ r \in Range(messages[to[r]]) \cup {writing[to[r]]}
              /\ stream[to[r]] = "open"
    BY DEF SseInv, AcceptedNotLost, PostsOrdered
  <2>3. CASE to[r] = s
    <3>1. Range(delivered'[s]) = Range(delivered[s]) \cup {writing[s]}
      BY <1>3, <1>4, <2>3
    <3> QED
      BY <2>2, <2>3, <3>1
  <2>4. CASE to[r] # s
    BY <1>4, <2>2, <2>4
  <2> QED
    BY <2>3, <2>4
<1>9. StreamsDrained'
  <2>1. ASSUME NEW q \in Sessions, done[q], ~gone[q]
        PROVE  /\ Within(atClose[q], Flushed(q)' \o messages[q])
               /\ stream[q] \in {"leaving", "ended"} => Within(atClose[q], delivered'[q])
    <3>1. /\ Within(atClose[q], Flushed(q) \o messages[q])
          /\ stream[q] \in {"leaving", "ended"} => Within(atClose[q], delivered[q])
      BY <2>1 DEF SseInv, StreamsDrained
    <3>2. CASE q = s
      <4>1. Flushed(s)' = delivered'[s]
        BY <1>4 DEF Flushed
      <4>2. delivered'[s] = Flushed(s)
        BY <1>4, <2>1, <3>2 DEF f
      <4>3. stream[s] \notin {"leaving", "ended"}
        BY <1>1 DEF SseInv, StreamsOrdered
      <4> QED
        BY <3>1, <3>2, <4>1, <4>2, <4>3
    <3>3. CASE q # s
      <4>1. Flushed(q)' = Flushed(q)
        BY <1>4, <3>3 DEF Flushed
      <4> QED
        BY <1>4, <3>1, <3>3, <4>1
    <3> QED
      BY <3>2, <3>3
  <2> QED
    BY <1>1, <2>1 DEF StreamsDrained
<1> QED
  BY <1>5, <1>6, <1>7, <1>8, <1>9 DEF SseInv

\* What is delivered once the write at hand ends is a sequence of payloads.
LEMMA FlushedTyped ==
  ASSUME SseInv, NEW s \in Sessions
  PROVE  Flushed(s) \in Seq(Payloads)
<1>1. delivered[s] \in Seq(Payloads) /\ writing[s] \in Payloads \cup {NoMessage}
  BY DEF SseInv, SseTypes, SseTypeOK, Payloads
<1> QED
  BY <1>1, AppendProperties DEF Flushed

-----------------------------------------------------------------------------
(* The steps of the POST handlers.                                         *)

\* Every step of a handler (or of TimeoutHandler) but ProcessRequest and Send.
LEMMA PostMoves ==
  ASSUME SseInv, NEW r \in Requests,
         \/ RefusePost(r) \/ HandlerTimesOut(r)
         \/ \E s \in Sessions : LookUp(r, s)
         \/ EndEarly(r) \/ BeginProcess(r) \/ MarshalFails(r) \/ SendTimesOut(r)
  PROVE  SseInv'
<1>0. /\ post \in [Requests -> {"none", "reading", "processing", "ended"}]
      /\ to \in [Requests -> Sessions \cup {NoSession}]
      /\ status \in [Requests -> Statuses]
      /\ \A s \in Sessions : s \in registered => stream[s] # "unopened"
      /\ PostsOrdered
  BY DEF SseInv, SseTypes, SseTypeOK, StreamsOrdered, SessionsMapExact
<1>1. UNCHANGED <<callVars, sessionVars, mainVars>>
  BY DEF RefusePost, HandlerTimesOut, LookUp, EndEarly, BeginProcess, MarshalFails, SendTimesOut
<1>2. \A q \in Requests \ {r} : post'[q] = post[q] /\ to'[q] = to[q] /\ status'[q] = status[q]
  BY <1>0 DEF RefusePost, HandlerTimesOut, LookUp, EndEarly, BeginProcess, MarshalFails,
              SendTimesOut, Answer
\* Which ways there are for the handler of r.
<1>3. \/ /\ post[r] = "none" /\ post'[r] = "ended" /\ to'[r] = to[r]
         /\ status'[r] = "refused"
      \/ /\ post[r] = "none" /\ post'[r] = "reading" /\ status'[r] = "none"
         /\ to'[r] \in registered /\ to'[r] \in Sessions /\ Accepting
      \/ /\ post[r] = "reading" /\ post'[r] = "ended" /\ to'[r] = to[r]
         /\ status'[r] \in {"refused", "accepted", "timedOut"}
      \/ /\ post[r] = "reading" /\ post'[r] = "processing" /\ to'[r] = to[r]
         /\ status'[r] = status[r]
      \/ /\ post[r] = "processing" /\ post'[r] = "ended" /\ to'[r] = to[r]
         /\ status'[r] \in {"refused", "timedOut"}
      \/ /\ post[r] \in {"reading", "processing"} /\ post'[r] = post[r] /\ to'[r] = to[r]
         /\ status'[r] = "timedOut"
  <2>1. CASE RefusePost(r)
    BY <1>0, <2>1 DEF RefusePost, Answer, PostsOrdered
  <2>2. CASE \E s \in Sessions : LookUp(r, s)
    BY <1>0, <2>2 DEF LookUp, PostsOrdered
  <2>3. CASE EndEarly(r)
    BY <1>0, <2>3 DEF EndEarly, Answer, PostsOrdered
  <2>4. CASE BeginProcess(r)
    BY <1>0, <2>4 DEF BeginProcess
  <2>5. CASE MarshalFails(r) \/ SendTimesOut(r)
    BY <1>0, <2>5 DEF MarshalFails, SendTimesOut, Answer, PostsOrdered
  <2>6. CASE HandlerTimesOut(r)
    BY <1>0, <2>6 DEF HandlerTimesOut
  <2> QED
    BY <2>1, <2>2, <2>3, <2>4, <2>5, <2>6
<1>4. SseTypes'
  <2>1. /\ post' \in [Requests -> {"none", "reading", "processing", "ended"}]
        /\ to' \in [Requests -> Sessions \cup {NoSession}]
        /\ status' \in [Requests -> Statuses]
    BY <1>0 DEF RefusePost, HandlerTimesOut, LookUp, EndEarly, BeginProcess, MarshalFails,
                SendTimesOut, Answer, Statuses
  <2> QED
    BY <1>1, <2>1 DEF SseInv, SseTypes, SseTypeOK, sessionVars, mainVars
<1>5. PostsOrdered'
  <2>1. ASSUME NEW q \in Requests \ {r}
        PROVE  /\ post'[q] \in {"none", "reading"} => pc'[q] = "idle"
               /\ post'[q] = "none" => status'[q] = "none"
               /\ status'[q] = "accepted" => to'[q] \in Sessions
               /\ post'[q] \in {"reading", "processing"} =>
                    /\ to'[q] \in Sessions /\ stream'[to'[q]] # "unopened"
                    /\ status'[q] \in {"none", "timedOut"}
                    /\ main' = "exited" /\ ~expired' => status'[q] = "timedOut"
    BY <1>0, <1>1, <1>2 DEF PostsOrdered, callVars, sessionVars, mainVars
  <2>2. /\ post'[r] \in {"none", "reading"} => pc'[r] = "idle"
        /\ post'[r] = "none" => status'[r] = "none"
        /\ status'[r] = "accepted" => to'[r] \in Sessions
    BY <1>0, <1>1, <1>3 DEF PostsOrdered, callVars
  <2>3. post'[r] \in {"reading", "processing"} =>
          /\ to'[r] \in Sessions /\ stream'[to'[r]] # "unopened"
          /\ status'[r] \in {"none", "timedOut"}
          /\ main' = "exited" /\ ~expired' => status'[r] = "timedOut"
    BY <1>0, <1>1, <1>3 DEF PostsOrdered, Accepting, sessionVars, mainVars
  <2> QED
    BY <2>1, <2>2, <2>3 DEF PostsOrdered
<1>6. StreamsOrdered'
  BY <1>1 DEF SseInv, StreamsOrdered, SessionsMapExact, sessionVars
<1>7. AcceptedNotLost'
  <2>1. ~(status'[r] = "accepted" /\ pc'[r] = "answered")
    BY <1>0, <1>1, <1>3 DEF PostsOrdered, callVars
  <2> QED
    BY <1>1, <1>2, <2>1 DEF SseInv, AcceptedNotLost, callVars, sessionVars
<1>8. StreamsDrained'
  BY <1>1 DEF SseInv, StreamsDrained, Flushed, sessionVars
<1> QED
  BY <1>4, <1>5, <1>6, <1>7, <1>8 DEF SseInv

LEMMA RequestProcessed ==
  ASSUME SseInv, CallTypeOK, NEW r \in Requests, Process(r)
  PROVE  SseInv'
<1>1. post[r] = "processing" /\ UNCHANGED <<sessionVars, postVars, mainVars>>
  BY DEF Process
<1>2. \A q \in Requests \ {r} : pc'[q] = pc[q]
  BY DEF CallTypeOK, Process, ProcessRequest, AnswerAtOnce, CallTool, ToolEnds, HandleReturns,
         HandlePanics, ServerStep, Acquire, RejectBusy, Record, OnToolCall, ReturnResult
<1>3. SseTypes'
  BY <1>1 DEF SseInv, SseTypes, SseTypeOK, sessionVars, postVars, mainVars
<1>4. PostsOrdered'
  BY <1>1, <1>2 DEF SseInv, PostsOrdered, sessionVars, postVars, mainVars
<1>5. StreamsOrdered'
  BY <1>1 DEF SseInv, StreamsOrdered, SessionsMapExact, sessionVars
<1>6. AcceptedNotLost'
  <2>1. status[r] # "accepted"
    BY <1>1 DEF SseInv, PostsOrdered
  <2> QED
    BY <1>1, <1>2, <2>1 DEF SseInv, AcceptedNotLost, sessionVars, postVars
<1>7. StreamsDrained'
  BY <1>1 DEF SseInv, StreamsDrained, Flushed, sessionVars
<1> QED
  BY <1>3, <1>4, <1>5, <1>6, <1>7 DEF SseInv

LEMMA AnswerSent ==
  ASSUME SseInv, NEW r \in Requests, Send(r)
  PROVE  SseInv'
<1> DEFINE s == to[r]
<1>1. /\ post[r] = "processing" /\ pc[r] = "answered"
      /\ Len(messages[s]) < BufferSize
      /\ messages' = [messages EXCEPT ![s] = Append(@, r)]
      /\ post' = [post EXCEPT ![r] = "ended"]
      /\ status' = [status EXCEPT ![r] = IF @ = "none" THEN "accepted" ELSE @]
      /\ UNCHANGED <<callVars, stream, registered, done, gone, stalled, writing, delivered,
                     atClose, to, mainVars>>
  BY DEF Send, Answer
<1>2. /\ s \in Sessions /\ stream[s] # "unopened" /\ status[r] \in {"none", "timedOut"}
      /\ messages \in [Sessions -> Seq(Payloads)] /\ delivered \in [Sessions -> Seq(Payloads)]
      /\ atClose \in [Sessions -> Seq(Payloads)]
      /\ r \in Payloads
  BY <1>1 DEF SseInv, SseTypes, PostsOrdered, Payloads
<1>3. /\ post \in [Requests -> {"none", "reading", "processing", "ended"}]
      /\ status \in [Requests -> Statuses]
      /\ stream \in [Sessions -> {"unopened", "open", "draining", "leaving", "ended"}]
  BY DEF SseInv, SseTypes, SseTypeOK
<1> HIDE DEF s
<1>4. /\ messages'[s] = Append(messages[s], r) /\ messages[s] \in Seq(Payloads)
      /\ \A q \in Sessions \ {s} : messages'[q] = messages[q]
  BY <1>1, <1>2
<1>5. /\ Append(messages[s], r) \in Seq(Payloads)
      /\ Len(Append(messages[s], r)) = Len(messages[s]) + 1 /\ Len(messages[s]) \in Nat
      /\ Range(Append(messages[s], r)) = Range(messages[s]) \cup {r}
  BY <1>2, <1>4, AppendProperties, AppendRange, LenProperties
<1>6. SseTypes'
  <2>1. messages' \in [Sessions -> Seq(Payloads)]
    BY <1>1, <1>2, <1>5
  <2>2. Len(messages'[s]) <= BufferSize
    BY <1>1, <1>4, <1>5, BufferSizeAssumption
  <2>3. Range(messages'[s]) \subseteq Payloads
    BY <1>2, <1>4, <1>5 DEF SseInv, SseTypes, SseTypeOK, Payloads
  <2>4. \A q \in Sessions :
          /\ Len(messages'[q]) <= BufferSize
          /\ Range(messages'[q]) \cup Range(delivered[q]) \cup Range(atClose[q])
               \subseteq Payloads
    BY <1>4, <2>2, <2>3 DEF SseInv, SseTypes, SseTypeOK, Payloads
  <2>5. /\ post' \in [Requests -> {"none", "reading", "processing", "ended"}]
        /\ status' \in [Requests -> Statuses]
    BY <1>1, <1>3 DEF Statuses
  <2> QED
    BY <1>1, <2>1, <2>4, <2>5 DEF SseInv, SseTypes, SseTypeOK, Payloads, mainVars
<1>7. PostsOrdered'
  BY <1>1, <1>2, <1>3 DEF SseInv, PostsOrdered, callVars, mainVars, s
<1>8. StreamsOrdered'
  BY <1>1 DEF SseInv, StreamsOrdered, SessionsMapExact
<1>9. AcceptedNotLost'
  <2>1. \A q \in Sessions : Range(messages[q]) \subseteq Range(messages'[q])
    BY <1>4, <1>5
  <2>2. gone[s] \/ done[s] \/ (r \in Range(messages'[s]) /\ stream[s] = "open")
    <3>1. stream[s] = "open" \/ done[s] \/ gone[s]
      BY <1>2, <1>3 DEF SseInv, StreamsOrdered
    <3> QED
      BY <1>4, <1>5, <3>1
  <2>3. ASSUME NEW q \in Requests \ {r}, status'[q] = "accepted", pc'[q] = "answered"
        PROVE  \/ gone[to[q]]
               \/ done[to[q]]
               \/ q \in Range(delivered[to[q]])
               \/ /\ q \in Range(messages'[to[q]]) \cup {writing[to[q]]}
                  /\ stream[to[q]] = "open"
    <3>1. status[q] = "accepted" /\ pc[q] = "answered"
      BY <1>1, <1>3, <2>3 DEF callVars
    <3>2. to[q] \in Sessions
      BY <3>1 DEF SseInv, PostsOrdered
    <3> QED
      BY <2>1, <3>1, <3>2 DEF SseInv, AcceptedNotLost
  <2> QED
    BY <1>1, <2>2, <2>3 DEF AcceptedNotLost, s
<1>10. StreamsDrained'
  <2> SUFFICES ASSUME NEW q \in Sessions, done[q], ~gone[q]
               PROVE  /\ Within(atClose[q], Flushed(q) \o messages'[q])
                      /\ stream[q] \in {"leaving", "ended"} => Within(atClose[q], delivered[q])
    BY <1>1 DEF StreamsDrained, Flushed
  <2>1. /\ Within(atClose[q], Flushed(q) \o messages[q])
        /\ stream[q] \in {"leaving", "ended"} => Within(atClose[q], delivered[q])
    BY DEF SseInv, StreamsDrained
  <2>2. CASE q = s
    <3>1. /\ atClose[s] \in Seq(Payloads) /\ Flushed(s) \in Seq(Payloads)
          /\ Within(atClose[s], Flushed(s) \o messages[s])
      BY <1>2, <2>1, <2>2, FlushedTyped
    <3>2. Within(atClose[s], Flushed(s) \o Append(messages[s], r))
      BY <1>2, <1>4, <3>1, WithinExtended
    <3> QED
      BY <1>4, <2>1, <2>2, <3>2
  <2>3. CASE q # s
    BY <1>4, <2>1, <2>3
  <2> QED
    BY <2>2, <2>3
<1> QED
  BY <1>6, <1>7, <1>8, <1>9, <1>10 DEF SseInv

-----------------------------------------------------------------------------
(* The steps of gracefulShutdown.                                          *)

LEMMA MainMoves ==
  ASSUME SseInv,
         BeginShutdown \/ BeginHttpShutdown \/ HttpShutdownDone \/ HttpShutdownExpires
  PROVE  SseInv'
<1>1. /\ UNCHANGED <<callVars, sessionVars, postVars>>
      /\ main' \in {"serving", "closing", "shutdown", "exited"}
      /\ expired' \in BOOLEAN
  BY DEF BeginShutdown, BeginHttpShutdown, HttpShutdownDone, HttpShutdownExpires, SseInv, SseTypes, SseTypeOK
<1>2. \/ main' # "exited"
      \/ main = "exited" /\ expired' = expired
      \/ expired'
      \/ \A r \in Requests : post[r] # "none" => status[r] # "none"
  BY DEF BeginShutdown, BeginHttpShutdown, HttpShutdownDone, HttpShutdownExpires, Idle
<1>3. SseTypes'
  BY <1>1 DEF SseInv, SseTypes, SseTypeOK, sessionVars, postVars
<1>4. PostsOrdered'
  BY <1>1, <1>2 DEF SseInv, PostsOrdered, callVars, sessionVars, postVars
<1>5. StreamsOrdered'
  BY <1>1 DEF SseInv, StreamsOrdered, SessionsMapExact, sessionVars
<1>6. AcceptedNotLost'
  BY <1>1 DEF SseInv, AcceptedNotLost, callVars, sessionVars, postVars
<1>7. StreamsDrained'
  BY <1>1 DEF SseInv, StreamsDrained, Flushed, sessionVars
<1> QED
  BY <1>3, <1>4, <1>5, <1>6, <1>7 DEF SseInv

LEMMA SessionClosed ==
  ASSUME SseInv, NEW s \in Sessions, CloseSession(s)
  PROVE  SseInv'
<1> DEFINE left == Notify(s)
<1>1. /\ s \in registered
      /\ messages' = [messages EXCEPT ![s] = left]
      /\ atClose' = [atClose EXCEPT ![s] = left]
      /\ done' = [done EXCEPT ![s] = TRUE]
      /\ registered' = registered \ {s}
      /\ UNCHANGED <<callVars, stream, gone, stalled, writing, delivered, postVars, mainVars>>
  BY DEF CloseSession
<1>2. /\ messages \in [Sessions -> Seq(Payloads)] /\ delivered \in [Sessions -> Seq(Payloads)]
      /\ atClose \in [Sessions -> Seq(Payloads)] /\ messages[s] \in Seq(Payloads)
      /\ done \in [Sessions -> BOOLEAN] /\ registered \subseteq Sessions
      /\ Len(messages[s]) <= BufferSize /\ Range(messages[s]) \subseteq Payloads
  BY DEF SseInv, SseTypes, SseTypeOK, Payloads
<1>3. /\ left \in Seq(Payloads) /\ Len(left) <= BufferSize /\ Range(left) \subseteq Payloads
      /\ Range(messages[s]) \subseteq Range(left)
  <2>1. CASE Len(messages[s]) < BufferSize
    <3>1. left = Append(messages[s], ShutdownNotice) /\ ShutdownNotice \in Payloads
      BY <2>1 DEF Notify, Payloads
    <3>2. /\ Append(messages[s], ShutdownNotice) \in Seq(Payloads)
          /\ Len(Append(messages[s], ShutdownNotice)) = Len(messages[s]) + 1
          /\ Len(messages[s]) \in Nat
          /\ Range(Append(messages[s], ShutdownNotice))
               = Range(messages[s]) \cup {ShutdownNotice}
      BY <1>2, <3>1, AppendProperties, AppendRange, LenProperties
    <3>3. Len(messages[s]) + 1 <= BufferSize
      BY <2>1, <3>2, BufferSizeAssumption
    <3> QED
      BY <1>2, <3>1, <3>2, <3>3
  <2>2. CASE ~(Len(messages[s]) < BufferSize)
    BY <1>2, <2>2 DEF Notify
  <2> QED
    BY <2>1, <2>2
<1> HIDE DEF left
<1>4. /\ messages'[s] = left /\ atClose'[s] = left /\ done'[s]
      /\ \A q \in Sessions \ {s} :
           messages'[q] = messages[q] /\ atClose'[q] = atClose[q] /\ done'[q] = done[q]
  BY <1>1, <1>2
<1>5. SseTypes'
  <2>1. messages' \in [Sessions -> Seq(Payloads)] /\ atClose' \in [Sessions -> Seq(Payloads)]
    BY <1>1, <1>2, <1>3
  <2>2. Range(delivered[s]) \subseteq Payloads
    BY DEF SseInv, SseTypes, SseTypeOK, Payloads
  <2>3. \A q \in Sessions :
          /\ Len(messages'[q]) <= BufferSize
          /\ Range(messages'[q]) \cup Range(delivered[q]) \cup Range(atClose'[q])
               \subseteq Payloads
    BY <1>3, <1>4, <2>2 DEF SseInv, SseTypes, SseTypeOK, Payloads
  <2>4. done' \in [Sessions -> BOOLEAN] /\ registered' \subseteq Sessions
    BY <1>1, <1>2
  <2> QED
    BY <1>1, <2>1, <2>3, <2>4 DEF SseInv, SseTypes, SseTypeOK, Payloads, postVars, mainVars
<1>6. PostsOrdered'
  BY <1>1 DEF SseInv, PostsOrdered, callVars, postVars, mainVars
<1>7. stream[s] \in {"open", "leaving"} /\ ~done[s] /\ (stream[s] = "leaving" => gone[s])
  BY <1>1 DEF SseInv, StreamsOrdered, SessionsMapExact
<1>8. StreamsOrdered'
  <2>1. ASSUME NEW q \in Sessions
        PROVE  /\ q \in registered' <=> stream[q] \in {"open", "leaving"} /\ ~done'[q]
               /\ stream[q] = "unopened" => ~done'[q]
               /\ stream[q] = "draining" => done'[q]
               /\ stream[q] \in {"leaving", "ended"} => done'[q] \/ gone[q]
               /\ stream[q] \notin {"open", "draining"} => writing[q] = NoMessage
    <3>1. CASE q = s
      BY <1>1, <1>4, <1>7, <3>1 DEF SseInv, StreamsOrdered
    <3>2. CASE q # s
      BY <1>1, <1>4, <3>2 DEF SseInv, StreamsOrdered, SessionsMapExact
    <3> QED
      BY <3>1, <3>2
  <2> QED
    BY <1>1, <2>1 DEF StreamsOrdered, SessionsMapExact
<1>9. AcceptedNotLost'
  <2> SUFFICES ASSUME NEW r \in Requests, status[r] = "accepted", pc[r] = "answered",
                      ~gone[to[r]], ~done'[to[r]]
               PROVE  \/ r \in Range(delivered[to[r]])
                      \/ /\ r \in Range(messages'[to[r]]) \cup {writing[to[r]]}
                         /\ stream[to[r]] = "open"
    BY <1>1 DEF AcceptedNotLost, callVars, postVars
  <2>1. to[r] \in Sessions
    BY DEF SseInv, PostsOrdered
  <2>2. to[r] # s
    BY <1>4
  <2>3. done'[to[r]] = done[to[r]] /\ messages'[to[r]] = messages[to[r]]
    BY <1>4, <2>1, <2>2
  <2> QED
    BY <2>3 DEF SseInv, AcceptedNotLost
<1>10. StreamsDrained'
  <2> SUFFICES ASSUME NEW q \in Sessions, done'[q], ~gone[q]
               PROVE  /\ Within(atClose'[q], Flushed(q) \o messages'[q])
                      /\ stream[q] \in {"leaving", "ended"} => Within(atClose'[q], delivered[q])
    BY <1>1 DEF StreamsDrained, Flushed
  <2>1. CASE q = s
    <3>1. Within(left, Flushed(s) \o left)
      BY <1>3, WithinSelf, FlushedTyped
    <3>2. stream[s] \notin {"leaving", "ended"}
      BY <1>7, <2>1
    <3> QED
      BY <1>4, <2>1, <3>1, <3>2
  <2>2. CASE q # s
    BY <1>4, <2>2 DEF SseInv, StreamsDrained
  <2> QED
    BY <2>1, <2>2
<1> QED
  BY <1>5, <1>6, <1>8, <1>9, <1>10 DEF SseInv

-----------------------------------------------------------------------------
(* The invariant is inductive.                                             *)

LEMMA SseStep ==
  ASSUME SseInv, CallTypeOK, [SseNext]_allVars
  PROVE  SseInv'
<1>1. ASSUME NEW s \in Sessions,
             OpenStream(s) \/ Disconnect(s) \/ StopReading(s) \/ StreamHandler(s)
      PROVE  SseInv'
  BY <1>1, HandlerMoves, ClientMoves, MessageTaken, MessageWritten
<1>2. ASSUME NEW r \in Requests,
             \/ RefusePost(r)
             \/ \E s \in Sessions : LookUp(r, s)
             \/ PostHandler(r)
             \/ HandlerTimesOut(r)
      PROVE  SseInv'
  BY <1>2, PostMoves, RequestProcessed, AnswerSent DEF PostHandler
<1>3. ASSUME BeginShutdown \/ MainProceeds \/ HttpShutdownExpires
      PROVE  SseInv'
  BY <1>3, MainMoves, SessionClosed DEF MainProceeds
<1>4. ASSUME Terminated \/ UNCHANGED allVars
      PROVE  SseInv'
  <2>1. UNCHANGED <<callVars, sessionVars, postVars, mainVars>>
    BY <1>4 DEF Terminated, allVars
  <2>2. SseTypes'
    BY <2>1 DEF SseInv, SseTypes, SseTypeOK, sessionVars, postVars, mainVars
  <2>3. PostsOrdered'
    BY <2>1 DEF SseInv, PostsOrdered, callVars, sessionVars, postVars, mainVars
  <2>4. StreamsOrdered'
    BY <2>1 DEF SseInv, StreamsOrdered, SessionsMapExact, sessionVars
  <2>5. AcceptedNotLost'
    BY <2>1 DEF SseInv, AcceptedNotLost, callVars, sessionVars, postVars
  <2>6. StreamsDrained'
    BY <2>1 DEF SseInv, StreamsDrained, Flushed, sessionVars
  <2> QED
    BY <2>2, <2>3, <2>4, <2>5, <2>6 DEF SseInv
<1> QED
  BY <1>1, <1>2, <1>3, <1>4 DEF SseNext

LEMMA SseInitially ==
  ASSUME SseInit
  PROVE  SseInv
<1>1. <<>> \in Seq(Payloads) /\ Len(<<>>) = 0 /\ Range(<<>>) = {}
  BY EmptySeq, RangeEquality DEF Range
<1> DEFINE e == <<>>
<1>2. SseTypes
  <2>1. /\ messages = [s \in Sessions |-> e] /\ delivered = [s \in Sessions |-> e]
        /\ atClose = [s \in Sessions |-> e]
        /\ e \in Seq(Payloads) /\ Len(e) = 0 /\ Range(e) = {}
    BY <1>1 DEF SseInit
  <2> HIDE DEF e
  <2>2. /\ messages \in [Sessions -> Seq(Payloads)] /\ delivered \in [Sessions -> Seq(Payloads)]
        /\ atClose \in [Sessions -> Seq(Payloads)]
    BY <2>1
  <2>3. \A s \in Sessions :
          /\ Len(messages[s]) <= BufferSize
          /\ Range(messages[s]) \cup Range(delivered[s]) \cup Range(atClose[s])
               \subseteq Requests \cup {ShutdownNotice}
    BY <2>1, BufferSizeAssumption
  <2> QED
    BY <2>2, <2>3 DEF SseInit, SseTypes, SseTypeOK, Statuses
<1>3. PostsOrdered /\ StreamsOrdered /\ AcceptedNotLost /\ StreamsDrained
  BY DEF SseInit, CallInit, PostsOrdered, StreamsOrdered, SessionsMapExact, AcceptedNotLost,
         StreamsDrained
<1> QED
  BY <1>2, <1>3 DEF SseInv

LEMMA SseAlways == SseSafetySpec => []SseInv
<1>1. SseInit => SseInv
  BY SseInitially
<1>2. SseInv /\ CallTypeOK /\ [SseNext]_allVars => SseInv'
  BY SseStep
<1> QED
  BY <1>1, <1>2, SseCallsAreCalls, TypeCorrect, PTL DEF SseSafetySpec

-----------------------------------------------------------------------------
(* What follows from it.                                                   *)

(***************************************************************************)
(* The variables keep their types: no send ever finds more in a session's  *)
(* channel than it can hold.                                               *)
(***************************************************************************)
THEOREM SseTypeCorrect == SseSafetySpec => []SseTypeOK
<1>1. SseInv => SseTypeOK
  BY DEF SseInv, SseTypes
<1> QED
  BY <1>1, SseAlways, PTL

(***************************************************************************)
(* The map of sessions holds the running, unclosed streams and no others:  *)
(* done is closed at most once for each, whatever the handlers and         *)
(* CloseAllSessions do at the same time.                                   *)
(***************************************************************************)
THEOREM SessionsExact == SseSafetySpec => []SessionsMapExact
<1>1. SseInv => SessionsMapExact
  BY DEF SseInv, StreamsOrdered
<1> QED
  BY <1>1, SseAlways, PTL

(***************************************************************************)
(* What was answered 202 was delivered, or is being written, or is in the  *)
(* channel of a stream that is read, or the client or the shutdown ended   *)
(* that stream.                                                            *)
(***************************************************************************)
THEOREM AcceptedKept == SseSafetySpec => []AcceptedNotLost
<1>1. SseInv => AcceptedNotLost
  BY DEF SseInv
<1> QED
  BY <1>1, SseAlways, PTL

(***************************************************************************)
(* An exit before the end of the grace period cuts off no handler but      *)
(* those for which TimeoutHandler has already answered 503.                *)
(***************************************************************************)
THEOREM ExitCutsOff == SseSafetySpec => []ExitCutsOffOnlyTimedOut
<1>1. SseInv => ExitCutsOffOnlyTimedOut
  BY DEF SseInv, PostsOrdered, ExitCutsOffOnlyTimedOut
<1> QED
  BY <1>1, SseAlways, PTL

LEMMA WithinIsSubSeq ==
  ASSUME NEW S, NEW part \in Seq(S), NEW d \in Seq(S), Within(part, d)
  PROVE  \E i \in 0..Len(d) :
           /\ i + Len(part) <= Len(d)
           /\ SubSeq(d, i + 1, i + Len(part)) = part
<1>1. PICK i \in 0..Len(d) : /\ i + Len(part) <= Len(d)
                             /\ \A k \in 1..Len(part) : d[i + k] = part[k]
  BY DEF Within
<1>2. /\ Len(part) \in Nat /\ Len(d) \in Nat /\ i \in Nat
      /\ \A k \in 1..Len(d) : d[k] \in S
  BY LenProperties, ElementOfSeq
<1> DEFINE m == i + 1
<1> DEFINE n == i + Len(part)
<1> DEFINE u == SubSeq(d, m, n)
<1>3. m \in Int /\ n \in Int /\ \A k \in m..n : d[k] \in S
  BY <1>1, <1>2
<1>4. n - m + 1 = Len(part) /\ (~(m <= n) => Len(part) = 0)
  BY <1>2
<1>5. \A k \in 1..Len(part) : m + k - 1 = i + k
  BY <1>2
<1> HIDE DEF m, n
<1>6. /\ u \in Seq(S) /\ Len(u) = IF m <= n THEN n - m + 1 ELSE 0
      /\ \A k \in 1..n - m + 1 : u[k] = d[m + k - 1]
  BY <1>3, SubSeqProperties
<1> HIDE DEF u
<1>7. Len(u) = Len(part) /\ \A k \in 1..Len(part) : u[k] = part[k]
  BY <1>1, <1>2, <1>4, <1>5, <1>6
<1>8. u = part
  BY <1>6, <1>7, SeqEqual
<1> QED
  BY <1>1, <1>8 DEF u, m, n

(***************************************************************************)
(* A stream that a shutdown closed ends only when everything that was then *)
(* in its channel has been delivered, in that order, or the client left.   *)
(***************************************************************************)
THEOREM StreamsDrainedAtEnd == SseSafetySpec => []ShutdownDrainsStreams
<1>1. SseInv => ShutdownDrainsStreams
  <2> SUFFICES ASSUME SseInv, NEW s \in Sessions,
                      stream[s] \in {"leaving", "ended"}, done[s], ~gone[s]
               PROVE  \E i \in 0..Len(delivered[s]) :
                        /\ i + Len(atClose[s]) <= Len(delivered[s])
                        /\ SubSeq(delivered[s], i + 1, i + Len(atClose[s])) = atClose[s]
    BY DEF ShutdownDrainsStreams
  <2>1. /\ delivered[s] \in Seq(Payloads) /\ atClose[s] \in Seq(Payloads)
        /\ Within(atClose[s], delivered[s])
    BY DEF SseInv, SseTypes, StreamsDrained
  <2> QED
    BY <2>1, WithinIsSubSeq
<1> QED
  BY <1>1, SseAlways, PTL

=============================================================================
