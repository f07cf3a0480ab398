----------------------------- MODULE RequestProofs ------------------------------
(***************************************************************************)
(* Proofs about the components that one request passes through outside the *)
(* engine: the batches of its task keep every request, the stream of its   *)
(* answer is complete, speculation decodes what greedy decoding would, the *)
(* text of a chain is that of its tokens, the caches of a distributed      *)
(* driver have one row for each token, a repaired text is whole, and every *)
(* word comes out on the side of the thinking block that it came in on.    *)
(***************************************************************************)
EXTENDS ApiFrontend, SpeculativeDecode, ChainContext, DistributedDriver, ComputeBatcher,
        JsonRepair, ReasoningFilter, ListLemmas

-----------------------------------------------------------------------------
(* ApiFrontend.                                                            *)

ApiEvents == {"message_start", "content_block_start", "delta", "content_block_stop",
              "message_delta", "message_stop", "done", "finish", "[DONE]"}

(* What the events of a stream are, by their place.                        *)
EventAt(i) ==
  IF i <= Len(Preamble) THEN Preamble[i]
  ELSE IF i <= Len(Preamble) + taken THEN "delta"
  ELSE Closing[i - Len(Preamble) - taken]

(* How far the events of each state of a call have got.                    *)
BodyReaches ==
  /\ call \in {"none", "new"} => Len(body) <= Len(Preamble)
  /\ call = "open" /\ streamed => SentClosing = 0
  /\ call = "closing" => SentClosing \in 0 .. Len(Closing) - 1
  /\ call = "done" /\ streamed => SentClosing = Len(Closing)
  /\ call = "broken" => SentClosing < Len(Closing) /\ (taken = 0 \/ SentClosing >= 0)

ApiInv ==
  /\ route \in Routes /\ taken \in Nat
  /\ call \in {"none", "new", "open", "closing", "done", "broken"}
  /\ call \in {"none", "new"} => reader = "none" /\ taken = 0
  /\ call = "open" => reader = "reading"
  /\ call \in {"closing", "done"} => reader = "ended" /\ taken = full
  /\ call = "closing" => streamed
  /\ call \in {"open", "closing"} /\ streamed => httpStatus = 200
  /\ call = "done" => httpStatus = 200
  /\ reader = "rejected" => call = "broken" /\ taken = 0 /\ (streamed \/ httpStatus = 500)
  /\ body \in Seq(ApiEvents) /\ (~streamed => body = << >>)
  /\ \A i \in 1 .. Len(body) : body[i] = EventAt(i)
  /\ BodyReaches
  /\ call = "done" /\ ~streamed => usage = taken
  /\ call \in {"closing", "done"} /\ streamed =>
       \A j \in 1 .. SentClosing : Closing[j] \in Reports => usage = taken

(* No event before the tokens or behind them is one, and a stream has its  *)
(* terminator as its last event.                                           *)
LEMMA EventsAround ==
  ASSUME route \in Routes
  PROVE  /\ Preamble \in Seq(ApiEvents) /\ Closing \in Seq(ApiEvents)
         /\ Len(Preamble) \in Nat /\ Len(Closing) \in Nat \ {0}
         /\ \A i \in 1 .. Len(Preamble) : Preamble[i] \notin Terminators \cup {"delta"}
         /\ \A j \in 1 .. Len(Closing) : /\ Closing[j] # "delta"
                                         /\ Closing[j] \in Terminators <=> j = Len(Closing)
         /\ route \notin OpenAI => \E j \in 1 .. Len(Closing) : Closing[j] \in Reports
<1>1. CASE route = "messages"
  <2>1. Preamble = <<"message_start", "content_block_start">>
    BY <1>1 DEF Preamble
  <2>2. Closing = <<"content_block_stop", "message_delta", "message_stop">>
    BY <1>1 DEF Closing, Ollama
  <2>3. Len(Preamble) = 2 /\ Preamble[1] = "message_start" /\ Preamble[2] = "content_block_start"
    BY <2>1
  <2>4. /\ Len(Closing) = 3 /\ Closing[1] = "content_block_stop" /\ Closing[2] = "message_delta"
        /\ Closing[3] = "message_stop"
    BY <2>2
  <2>6. Preamble \in Seq(ApiEvents) /\ Closing \in Seq(ApiEvents)
    BY <2>1, <2>2 DEF ApiEvents
  <2>7. /\ \A i \in 1 .. 2 : i = 1 \/ i = 2
        /\ \A i \in 1 .. 3 : i = 1 \/ i = 2 \/ i = 3
        /\ 2 \in 1 .. 3
    OBVIOUS
  <2>8. \A i \in 1 .. Len(Preamble) : Preamble[i] \notin Terminators \cup {"delta"}
    BY <2>3, <2>7 DEF Terminators
  <2>9. \A j \in 1 .. Len(Closing) : /\ Closing[j] # "delta"
                                     /\ Closing[j] \in Terminators <=> j = Len(Closing)
    BY <2>4, <2>7 DEF Terminators
  <2> QED
    BY <2>3, <2>4, <2>6, <2>7, <2>8, <2>9 DEF Reports
<1>2. CASE route \in Ollama
  <2>1. Preamble = << >>
    BY <1>2 DEF Preamble, Ollama
  <2>2. Closing = <<"done">>
    BY <1>2 DEF Closing, Ollama
  <2>3. Len(Preamble) = 0 /\ Preamble \in Seq(ApiEvents)
    BY <2>1
  <2>4. Len(Closing) = 1 /\ Closing[1] = "done"
    BY <2>2
  <2>6. Closing \in Seq(ApiEvents)
    BY <2>2 DEF ApiEvents
  <2>5. 1 .. 0 = {} /\ 1 .. 1 = {1}
    OBVIOUS
  <2> QED
    BY <2>3, <2>4, <2>5, <2>6 DEF Terminators, Reports
<1>3. CASE route \in OpenAI
  <2>1. Preamble = << >>
    BY <1>3 DEF Preamble, OpenAI
  <2>2. Closing = <<"finish", "[DONE]">>
    BY <1>3 DEF Closing, Ollama, OpenAI
  <2>3. Len(Preamble) = 0 /\ Preamble \in Seq(ApiEvents)
    BY <2>1
  <2>4. Len(Closing) = 2 /\ Closing[1] = "finish" /\ Closing[2] = "[DONE]"
    BY <2>2
  <2>5. 1 .. 0 = {} /\ \A i \in 1 .. 2 : i = 1 \/ i = 2
    OBVIOUS
  <2>6. Closing \in Seq(ApiEvents)
    BY <2>2 DEF ApiEvents
  <2>7. \A j \in 1 .. Len(Closing) : /\ Closing[j] # "delta"
                                     /\ Closing[j] \in Terminators <=> j = Len(Closing)
    BY <2>4, <2>5 DEF Terminators
  <2> QED
    BY <1>3, <2>3, <2>4, <2>5, <2>6, <2>7
<1> QED
  BY <1>1, <1>2, <1>3 DEF Routes

LEMMA ApiInitInv ==
  ASSUME ApiInit
  PROVE  ApiInv
<1>1. /\ route \in Routes /\ call = "none" /\ body = << >> /\ reader = "none" /\ taken = 0
  BY DEF ApiInit, StreamInit
<1>2. body \in Seq(ApiEvents) /\ Len(body) = 0
  BY <1>1
<1>3. Len(Preamble) \in Nat
  BY <1>1, EventsAround
<1> QED
  BY <1>1, <1>2, <1>3 DEF ApiInv, BodyReaches

(* The events stay where they are when none is sent.                       *)
LEMMA BodyStays ==
  ASSUME ApiInv, UNCHANGED <<route, body, taken>>
  PROVE  /\ \A i \in 1 .. Len(body') : body'[i] = EventAt(i)'
         /\ Preamble' = Preamble /\ Closing' = Closing /\ SentClosing' = SentClosing
BY DEF ApiInv, EventAt, Preamble, Closing, SentClosing

LEMMA ApiNextInv ==
  ASSUME ApiInv, [ApiNext]_apiVars
  PROVE  ApiInv'
<1>1. /\ Preamble \in Seq(ApiEvents) /\ Closing \in Seq(ApiEvents)
      /\ Len(Preamble) \in Nat /\ Len(Closing) \in Nat \ {0}
  BY EventsAround DEF ApiInv
<1>2. body \in Seq(ApiEvents) /\ Len(body) \in Nat /\ taken \in Nat
  BY DEF ApiInv
<1>3. CASE CallArrives
  BY <1>1, <1>2, <1>3, BodyStays DEF CallArrives, request, streamState, ApiInv, BodyReaches
<1>4. CASE StartStreaming
  BY <1>1, <1>2, <1>4, BodyStays DEF StartStreaming, request, streamState, ApiInv, BodyReaches
<1>5. CASE SendPreamble
  <2>1. /\ call = "new" /\ streamed /\ Len(body) < Len(Preamble)
        /\ body' = Append(body, Preamble[Len(body) + 1])
        /\ UNCHANGED <<streamState, request, httpStatus, usage, call>>
    BY <1>5 DEF SendPreamble
  <2>2. Preamble' = Preamble /\ Closing' = Closing /\ taken' = taken
    BY <2>1 DEF request, streamState, Preamble, Closing
  <2>3. Len(body) + 1 \in 1 .. Len(Preamble) /\ Preamble[Len(body) + 1] \in ApiEvents
    BY <1>1, <1>2, <2>1
  <2>4. /\ body' \in Seq(ApiEvents) /\ Len(body') = Len(body) + 1
        /\ \A i \in 1 .. Len(body) : body'[i] = body[i]
        /\ body'[Len(body) + 1] = Preamble[Len(body) + 1]
    BY <1>2, <2>1, <2>3
  <2>5. \A i \in 1 .. Len(body') : body'[i] = EventAt(i)'
    <3>1. \A i \in 1 .. Len(body') : i <= Len(Preamble) /\ (i \in 1 .. Len(body) \/ i = Len(body) + 1)
      BY <1>1, <1>2, <2>3, <2>4
    <3>2. \A i \in 1 .. Len(body) : body[i] = EventAt(i)
      BY DEF ApiInv
    <3> QED
      BY <2>2, <2>4, <3>1, <3>2 DEF EventAt
  <2>6. Len(body') <= Len(Preamble')
    BY <1>1, <1>2, <2>1, <2>2, <2>4
  <2> QED
    BY <2>1, <2>2, <2>4, <2>5, <2>6 DEF ApiInv, BodyReaches, request, streamState
<1>6. CASE Submitted
  <2>1. /\ call = "new" /\ call' = "open" /\ reader' = "reading" /\ taken' = taken /\ taken = 0
        /\ UNCHANGED <<request, httpStatus, body, usage>>
        /\ streamed => httpStatus = 200 /\ Len(body) = Len(Preamble)
    BY <1>6 DEF Submitted, MaySubmit, Open, ApiInv
  <2>2. streamed' => SentClosing' = 0
    BY <1>1, <1>2, <2>1, BodyStays DEF SentClosing, request
  <2> QED
    BY <1>1, <1>2, <2>1, <2>2, BodyStays DEF request, ApiInv, BodyReaches
<1>7. CASE Shed
  <2>1. /\ call = "new" /\ call' = "broken" /\ reader' = "rejected" /\ taken' = taken /\ taken = 0
        /\ UNCHANGED <<request, body, usage>>
        /\ httpStatus' = IF streamed THEN httpStatus ELSE 500
        /\ Len(body) <= Len(Preamble)
    BY <1>7 DEF Shed, MaySubmit, Refuse, ApiInv, BodyReaches
  <2>2. SentClosing < Len(Closing)
    BY <1>1, <1>2, <2>1 DEF SentClosing
  <2> QED
    BY <1>1, <1>2, <2>1, <2>2, BodyStays DEF request, ApiInv, BodyReaches
<1>8. CASE EngineProduces
  <2>1. UNCHANGED <<full, taken, reader, request, httpStatus, body, usage, call>>
    BY <1>8 DEF EngineProduces, Produce
  <2> QED
    BY <1>1, <1>2, <2>1, BodyStays DEF request, ApiInv, BodyReaches
<1>9. CASE PassToken
  <2>1. /\ call = "open" /\ taken' = taken + 1 /\ reader = "reading"
        /\ body' = IF streamed THEN Append(body, "delta") ELSE body
        /\ UNCHANGED <<full, reader, request, httpStatus, usage, call>>
    BY <1>9 DEF PassToken, TakeToken
  <2>2. Preamble' = Preamble /\ Closing' = Closing
    BY <2>1 DEF request, Preamble, Closing
  <2>3. CASE streamed
    <3>1. Len(body) = Len(Preamble) + taken
      BY <1>1, <1>2, <2>1, <2>3 DEF ApiInv, BodyReaches, SentClosing
    <3>2. /\ body' \in Seq(ApiEvents) /\ Len(body') = Len(body) + 1
          /\ \A i \in 1 .. Len(body) : body'[i] = body[i]
          /\ body'[Len(body) + 1] = "delta"
      <4>1. "delta" \in ApiEvents
        BY DEF ApiEvents
      <4> QED
        BY <1>2, <2>1, <2>3, <4>1
    <3>3. \A i \in 1 .. Len(body) : body[i] = EventAt(i)
      BY DEF ApiInv
    <3>4. \A i \in 1 .. Len(body) : EventAt(i)' = EventAt(i)
      BY <1>1, <1>2, <2>1, <2>2, <3>1 DEF EventAt
    <3>6. \A i \in 1 .. Len(body') : i \in 1 .. Len(body) \/ i = Len(body) + 1
      BY <1>2, <3>2
    <3>7. \A i \in 1 .. Len(body') : body'[i] = EventAt(i)'
      <4> SUFFICES ASSUME NEW i \in 1 .. Len(body') PROVE body'[i] = EventAt(i)'
        OBVIOUS
      <4>1. CASE i \in 1 .. Len(body)
        BY <3>2, <3>3, <3>4, <4>1
      <4>2. CASE i = Len(body) + 1
        <5>1. EventAt(i)' = "delta"
          BY <1>1, <1>2, <2>1, <2>2, <3>1, <4>2 DEF EventAt
        <5> QED
          BY <3>2, <4>2, <5>1
      <4> QED
        BY <3>6, <4>1, <4>2
    <3>8. SentClosing' = 0
      BY <1>1, <1>2, <2>1, <2>2, <3>1, <3>2 DEF SentClosing
    <3> QED
      BY <1>2, <2>1, <2>2, <2>3, <3>2, <3>7, <3>8 DEF ApiInv, BodyReaches, request
  <2>4. CASE ~ streamed
    <3>1. body = << >> /\ body' = << >> /\ Len(body) = 0 /\ body' \in Seq(ApiEvents)
      BY <1>2, <2>1, <2>4 DEF ApiInv
    <3>2. 1 .. Len(body') = {}
      BY <3>1
    <3>3. taken' \in Nat
      BY <1>2, <2>1
    <3> QED
      BY <2>1, <2>4, <3>1, <3>2, <3>3 DEF ApiInv, BodyReaches, request
  <2> QED
    BY <2>3, <2>4
<1>10. CASE StreamEnds
  <2>1. /\ call = "open" /\ reader' = "ended" /\ taken = full
        /\ UNCHANGED <<full, taken, request, body>>
        /\ streamed => call' = "closing" /\ UNCHANGED <<httpStatus, usage>>
        /\ ~streamed => call' = "done" /\ httpStatus' = 200 /\ usage' = taken
    BY <1>10 DEF StreamEnds, TakeEnd
  <2>2. streamed => SentClosing = 0 /\ httpStatus = 200
    BY <2>1 DEF ApiInv, BodyReaches
  <2>3. SentClosing' = SentClosing /\ Closing' = Closing /\ Preamble' = Preamble
        /\ \A i \in 1 .. Len(body') : body'[i] = EventAt(i)'
    BY <2>1, BodyStays DEF request
  <2>4. 0 \in 0 .. Len(Closing) - 1 /\ 1 .. 0 = {}
    BY <1>1
  <2> QED
    BY <1>1, <1>2, <2>1, <2>2, <2>3, <2>4 DEF request, ApiInv, BodyReaches
<1>11. CASE SendClosing
  <2> DEFINE k == SentClosing + 1
  <2>1. /\ call = "closing" /\ streamed
        /\ body' = Append(body, Closing[k])
        /\ usage' = IF Closing[k] \in Reports THEN taken ELSE usage
        /\ call' = IF k = Len(Closing) THEN "done" ELSE call
        /\ UNCHANGED <<streamState, request, httpStatus>>
    BY <1>11 DEF SendClosing, ApiInv
  <2>2. Preamble' = Preamble /\ Closing' = Closing /\ taken' = taken /\ reader' = reader /\ full' = full
        /\ streamed' = streamed /\ route' = route
    BY <2>1 DEF request, streamState, Preamble, Closing
  <2>3. SentClosing \in 0 .. Len(Closing) - 1
    BY <2>1 DEF ApiInv, BodyReaches
  <2>4. k \in 1 .. Len(Closing) /\ Len(body) + 1 = Len(Preamble) + taken + k /\ Closing[k] \in ApiEvents
    BY <1>1, <1>2, <2>3 DEF SentClosing
  <2>5. /\ body' \in Seq(ApiEvents) /\ Len(body') = Len(body) + 1
        /\ \A i \in 1 .. Len(body) : body'[i] = body[i]
        /\ body'[Len(body) + 1] = Closing[k]
    BY <1>2, <2>1, <2>4
  <2>6. SentClosing' = k
    BY <1>1, <1>2, <2>2, <2>5 DEF SentClosing
  <2>7. \A i : EventAt(i)' = EventAt(i)
    BY <2>2 DEF EventAt
  <2>8. EventAt(Len(body) + 1) = Closing[k]
    <3> DEFINE i == Len(body) + 1
    <3>1. i \in Nat /\ k \in Nat \ {0} /\ i = Len(Preamble) + taken + k
      BY <1>1, <1>2, <2>4
    <3> HIDE DEF i, k
    <3>3. i - Len(Preamble) - taken = k /\ ~ (i <= Len(Preamble) + taken) /\ ~ (i <= Len(Preamble))
      BY <1>1, <1>2, <3>1
    <3>4. EventAt(i) = Closing[k]
      BY <3>3 DEF EventAt
    <3> QED
      BY <3>4 DEF i
  <2>9. \A i \in 1 .. Len(body) : body[i] = EventAt(i)
    BY DEF ApiInv
  <2>10. \A i \in 1 .. Len(body') : body'[i] = EventAt(i)'
    <3>1. \A i \in 1 .. Len(body') : i \in 1 .. Len(body) \/ i = Len(body) + 1
      BY <1>2, <2>5
    <3> QED
      BY <2>5, <2>7, <2>8, <2>9, <3>1
  <2>11. \A j \in 1 .. SentClosing : Closing[j] \in Reports => usage = taken
    BY <2>1 DEF ApiInv
  <2>12. \A j \in 1 .. SentClosing' : Closing'[j] \in Reports => usage' = taken'
    <3>1. \A j \in 1 .. k : j \in 1 .. SentClosing \/ j = k
      BY <2>3
    <3> QED
      BY <2>1, <2>2, <2>6, <2>11, <3>1
  <2>13. k # Len(Closing) => k \in 0 .. Len(Closing) - 1
    BY <1>1, <2>4
  <2> HIDE DEF k
  <2>14. BodyReaches'
    BY <2>1, <2>2, <2>6, <2>13 DEF BodyReaches
  <2> QED
    BY <2>1, <2>2, <2>5, <2>10, <2>12, <2>14 DEF ApiInv
<1>12. CASE Disconnect
  <2>1. /\ streamed /\ call \in {"new", "open", "closing"} /\ call' = "broken"
        /\ UNCHANGED <<full, taken, request, httpStatus, body, usage>>
        /\ reader' = (IF call = "open" THEN "gone" ELSE reader)
    BY <1>12 DEF Disconnect, LeaveStream, streamState
  <2>2. SentClosing < Len(Closing) /\ (taken = 0 \/ SentClosing >= 0)
    BY <1>1, <1>2, <2>1 DEF ApiInv, BodyReaches, SentClosing
  <2> QED
    BY <1>1, <1>2, <2>1, <2>2, BodyStays DEF request, ApiInv, BodyReaches
<1>13. CASE UNCHANGED apiVars
  BY <1>1, <1>2, <1>13, BodyStays DEF apiVars, streamState, ApiInv, BodyReaches
<1> QED
  BY <1>3, <1>4, <1>5, <1>6, <1>7, <1>8, <1>9, <1>10, <1>11, <1>12, <1>13 DEF ApiNext, Handler

LEMMA ApiInvImplies ==
  ASSUME ApiInv
  PROVE  ResponseComplete
<1> DEFINE n == Len(body) pre == Len(Preamble) last == Len(Closing)
<1>1. /\ pre \in Nat /\ last \in Nat \ {0}
      /\ \A i \in 1 .. pre : Preamble[i] \notin Terminators \cup {"delta"}
      /\ \A j \in 1 .. last : /\ Closing[j] # "delta"
                              /\ Closing[j] \in Terminators <=> j = last
      /\ route \notin OpenAI => \E j \in 1 .. last : Closing[j] \in Reports
  BY EventsAround DEF ApiInv
<1>2. n \in Nat /\ taken \in Nat /\ DOMAIN body = 1 .. n
      /\ (\A i \in 1 .. n : body[i] = EventAt(i))
      /\ (~ streamed => n = 0)
  BY DEF ApiInv
<1>10. SentClosing = n - pre - taken
  BY DEF SentClosing
<1>11. \A i : EventAt(i) = IF i <= pre THEN Preamble[i]
                           ELSE IF i <= pre + taken THEN "delta" ELSE Closing[i - pre - taken]
  BY DEF EventAt
<1>12. /\ call \in {"none", "new"} => n <= pre /\ taken = 0
       /\ call = "open" /\ streamed => SentClosing = 0
       /\ call = "closing" => SentClosing \in 0 .. last - 1
       /\ call = "done" /\ streamed => SentClosing = last
       /\ call = "broken" => SentClosing < last /\ (taken = 0 \/ SentClosing >= 0)
       /\ call \in {"none", "new", "open", "closing", "done", "broken"}
  BY DEF ApiInv, BodyReaches
<1> HIDE DEF n, pre, last
<1>3. /\ n <= pre + taken + last
      /\ n = pre + taken + last /\ streamed => call = "done"
      /\ streamed => n >= pre + taken \/ taken = 0
  <2>1. CASE ~ streamed
    BY <1>1, <1>2, <2>1
  <2>2. CASE streamed /\ call \in {"none", "new"}
    BY <1>1, <1>2, <1>12, <2>2
  <2>3. CASE streamed /\ call \in {"open", "closing", "done", "broken"}
    BY <1>1, <1>2, <1>10, <1>12, <2>3
  <2> QED
    BY <1>12, <2>1, <2>2, <2>3
<1>4. ASSUME NEW i \in 1 .. n
      PROVE  /\ body[i] = "delta" <=> i \in pre + 1 .. pre + taken
             /\ body[i] \in Terminators => i = pre + taken + last
  <2>1. CASE i <= pre
    <3>1. body[i] = Preamble[i]
      BY <1>2, <1>11, <2>1
    <3>2. i \in 1 .. pre /\ i \notin pre + 1 .. pre + taken
      BY <1>1, <1>2, <2>1
    <3> QED
      BY <1>1, <3>1, <3>2
  <2>2. CASE i > pre /\ i <= pre + taken
    <3>1. body[i] = "delta"
      <4>1. ~ (i <= pre)
        BY <1>1, <2>2
      <4> QED
        BY <1>2, <1>11, <2>2, <4>1
    <3>2. i \in pre + 1 .. pre + taken
      BY <1>1, <1>2, <2>2
    <3> QED
      BY <3>1, <3>2 DEF Terminators
  <2>3. CASE i > pre + taken
    <3> DEFINE j == i - pre - taken
    <3>1. j \in 1 .. last /\ i = pre + taken + j /\ i \notin pre + 1 .. pre + taken
          /\ ~ (i <= pre) /\ ~ (i <= pre + taken)
      BY <1>1, <1>2, <1>3, <2>3
    <3>2. body[i] = Closing[j]
      BY <1>2, <1>11, <3>1
    <3> HIDE DEF j
    <3>3. Closing[j] # "delta" /\ (Closing[j] \in Terminators => j = last)
      BY <1>1, <3>1
    <3> QED
      BY <3>1, <3>2, <3>3
  <2>4. (i <= pre) \/ (i > pre /\ i <= pre + taken) \/ (i > pre + taken)
    BY <1>1, <1>2
  <2> QED
    BY <2>1, <2>2, <2>3, <2>4
<1>5. Deltas = IF streamed THEN taken ELSE 0
  <2> DEFINE D == {i \in DOMAIN body : body[i] = "delta"}
  <2>1. CASE streamed
    <3>1. D = pre + 1 .. pre + taken
      <4>1. \A i \in pre + 1 .. pre + taken : i \in 1 .. n
        BY <1>1, <1>2, <1>3, <2>1
      <4> QED
        BY <1>2, <1>4, <4>1
    <3>2. pre + 1 \in Int /\ pre + taken \in Int
      BY <1>1, <1>2
    <3>3. Cardinality(pre + 1 .. pre + taken)
            = IF pre + 1 > pre + taken THEN 0 ELSE (pre + taken) - (pre + 1) + 1
      BY <3>2, FS_Interval
    <3>4. (IF pre + 1 > pre + taken THEN 0 ELSE (pre + taken) - (pre + 1) + 1) = taken
      BY <1>1, <1>2
    <3>5. Deltas = Cardinality(D)
      BY DEF Deltas
    <3> HIDE DEF D
    <3> QED
      BY <2>1, <3>1, <3>3, <3>4, <3>5
  <2>2. CASE ~ streamed
    <3>1. n = 0
      BY <1>2, <2>2
    <3>2. D = {}
      BY <1>2, <3>1
    <3> QED
      BY <2>2, <3>2, FS_EmptySet DEF Deltas
  <2> QED
    BY <2>1, <2>2
<1>6. ASSUME NEW i \in DOMAIN body, body[i] \in Terminators PROVE i = n /\ call = "done"
  <2>1. i \in 1 .. n /\ i = pre + taken + last
    BY <1>2, <1>4, <1>6
  <2>2. i = n
    BY <1>1, <1>2, <1>3, <2>1
  <2>3. streamed
    BY <1>2, <2>1
  <2> QED
    BY <1>3, <2>1, <2>2, <2>3
<1>7. ASSUME call = "done", streamed
      PROVE  /\ body[n] \in Terminators
             /\ route \notin OpenAI => usage = full
  <2>1. SentClosing = last
    BY <1>7, <1>12
  <2>2. n = pre + taken + last
    BY <1>1, <1>2, <1>10, <2>1
  <2>3. n \in 1 .. n /\ n - pre - taken = last /\ ~ (n <= pre) /\ ~ (n <= pre + taken)
    BY <1>1, <1>2, <2>2
  <2>4. body[n] = Closing[last]
    BY <1>2, <1>11, <2>3
  <2>5. last \in 1 .. last
    BY <1>1
  <2>6. \A j \in 1 .. last : Closing[j] \in Reports => usage = taken
    BY <1>7, <2>1 DEF ApiInv
  <2>7. taken = full
    BY <1>7 DEF ApiInv
  <2> QED
    BY <1>1, <2>4, <2>5, <2>6, <2>7
<1>8. call = "done" => httpStatus = 200 /\ taken = full /\ reader = "ended"
      /\ (~streamed => usage = full)
  BY DEF ApiInv
<1>9. reader = "rejected" => Deltas = 0 /\ call = "broken" /\ (streamed \/ httpStatus # 200)
  <2>1. reader = "rejected" => taken = 0 /\ call = "broken" /\ (streamed \/ httpStatus # 200)
    BY DEF ApiInv
  <2> QED
    BY <1>5, <2>1
<1> QED
  BY <1>5, <1>6, <1>7, <1>8, <1>9 DEF ResponseComplete, n

(* A client can tell a whole answer from one that is cut.                  *)
THEOREM ApiResponseComplete ==
  ApiSpec => []ResponseComplete
<1>1. ApiInit => ApiInv
  BY ApiInitInv
<1>2. ApiInv /\ [ApiNext]_apiVars => ApiInv'
  BY ApiNextInv
<1>3. ApiInv => ResponseComplete
  BY ApiInvImplies
<1> QED
  BY <1>1, <1>2, <1>3, PTL DEF ApiSpec

-----------------------------------------------------------------------------
(* SpeculativeDecode.                                                      *)

(* Every token of s follows the one before it, the first one a given one.  *)
Follows(s, last) ==
  \A i \in 1 .. Len(s) : s[i] = target[IF i = 1 THEN last ELSE s[i - 1]]

SpecInv ==
  /\ target \in [SpecTokens -> SpecTokens]
  /\ decoded \in Seq(SpecTokens) /\ Len(decoded) > 0
  /\ \A i \in 1 .. Len(decoded) : i # 1 => decoded[i] = target[decoded[i - 1]]
  /\ total_drafted \in Nat /\ total_accepted \in Nat
  /\ total_accepted <= total_drafted

LEMMA LeastOf ==
  ASSUME NEW S \in SUBSET Nat, S # {}
  PROVE  Min(S) \in S /\ \A y \in S : Min(S) <= y
BY LeastNatural DEF Min

(* The drafts of a round and the rows that it predicts.                    *)
Round(drafts, rows) ==
  /\ drafts \in Seq(SpecTokens)
  /\ rows \in 1 .. Len(drafts) + 1

LEMMA PredictedRows ==
  ASSUME SpecInv, NEW drafts, NEW rows, Round(drafts, rows)
  PROVE  /\ Predicted(drafts, rows) \in Seq(SpecTokens)
         /\ Len(Predicted(drafts, rows)) = rows
         /\ DOMAIN Predicted(drafts, rows) = 1 .. rows
         /\ Last(decoded) \in SpecTokens
         /\ \A i \in 1 .. rows : Predicted(drafts, rows)[i]
                                   = target[IF i = 1 THEN Last(decoded) ELSE drafts[i - 1]]
<1>1. Last(decoded) \in SpecTokens
  BY DEF Last, SpecInv
<1>2. \A i \in 1 .. rows : i # 1 => i - 1 \in 1 .. Len(drafts)
  BY DEF Round
<1>3. \A i \in 1 .. rows : (IF i = 1 THEN Last(decoded) ELSE drafts[i - 1]) \in SpecTokens
  BY <1>1, <1>2 DEF Round
<1>4. \A i \in 1 .. rows : target[IF i = 1 THEN Last(decoded) ELSE drafts[i - 1]] \in SpecTokens
  BY <1>3 DEF SpecInv
<1>5. rows \in Nat
  BY DEF Round
<1> QED
  BY <1>1, <1>4, <1>5 DEF Predicted

(* What a verifier may return: tokens that follow what is decoded, no more *)
(* than were drafted.                                                      *)
MayAccept(drafts, accepted) ==
  /\ accepted \in Seq(SpecTokens)
  /\ Len(accepted) <= Len(drafts)
  /\ Follows(accepted, Last(decoded))

(* Drafts that agree with the predictions follow, and so does one more     *)
(* prediction behind them.                                                 *)
LEMMA AgreeingFollow ==
  ASSUME SpecInv, NEW drafts, NEW rows, Round(drafts, rows),
         NEW m \in 0 .. Len(drafts), m <= rows,
         \A i \in 1 .. m : drafts[i] = Predicted(drafts, rows)[i]
  PROVE  MayAccept(drafts, SubSeq(drafts, 1, m))
<1> DEFINE s == SubSeq(drafts, 1, m)
           p == Predicted(drafts, rows)
<1>1. s \in Seq(SpecTokens) /\ Len(s) = m /\ \A i \in 1 .. m : s[i] = drafts[i]
  BY DEF Round
<1>2. \A i \in 1 .. m : i \in 1 .. rows /\ (i # 1 => i - 1 \in 1 .. m)
  BY DEF Round
<1>3. \A i \in 1 .. rows : p[i] = target[IF i = 1 THEN Last(decoded) ELSE drafts[i - 1]]
  BY PredictedRows
<1> HIDE DEF s, p
<1>4. \A i \in 1 .. m : drafts[i] = p[i]
  BY DEF p
<1>5. Follows(s, Last(decoded))
  <2>1. ASSUME NEW i \in 1 .. m
        PROVE  s[i] = target[IF i = 1 THEN Last(decoded) ELSE s[i - 1]]
    <3>1. s[i] = target[IF i = 1 THEN Last(decoded) ELSE drafts[i - 1]]
      BY <1>1, <1>2, <1>3, <1>4
    <3>2. i # 1 => s[i - 1] = drafts[i - 1]
      BY <1>1, <1>2
    <3> QED
      BY <3>1, <3>2
  <2> QED
    BY <1>1, <2>1 DEF Follows
<1>6. Len(s) <= Len(drafts)
  BY <1>1 DEF Round
<1>7. MayAccept(drafts, s)
  BY <1>1, <1>5, <1>6 DEF MayAccept
<1> QED
  BY <1>7 DEF s

LEMMA CorrectionFollows ==
  ASSUME SpecInv, NEW drafts, NEW rows, Round(drafts, rows),
         NEW m \in 1 .. Len(drafts), m <= rows,
         \A i \in 1 .. m - 1 : drafts[i] = Predicted(drafts, rows)[i]
  PROVE  MayAccept(drafts, Append(SubSeq(drafts, 1, m - 1), Predicted(drafts, rows)[m]))
<1> DEFINE s == SubSeq(drafts, 1, m - 1)
           p == Predicted(drafts, rows)
           a == Append(s, p[m])
<1>1. s \in Seq(SpecTokens) /\ Len(s) = m - 1 /\ \A i \in 1 .. m - 1 : s[i] = drafts[i]
  BY DEF Round
<1>2. \A i \in 1 .. m : i \in 1 .. rows /\ (i # 1 => i - 1 \in 1 .. m - 1)
  BY DEF Round
<1>3. /\ \A i \in 1 .. rows : p[i] = target[IF i = 1 THEN Last(decoded) ELSE drafts[i - 1]]
      /\ p \in Seq(SpecTokens) /\ Len(p) = rows
  BY PredictedRows
<1>4. \A i \in 1 .. m - 1 : drafts[i] = p[i]
  OBVIOUS
<1> HIDE DEF s, p
<1>5. m \in 1 .. Len(p) /\ p[m] \in SpecTokens
  BY <1>2, <1>3
<1>6. /\ a \in Seq(SpecTokens) /\ Len(a) = m /\ a[m] = p[m]
      /\ \A i \in 1 .. m - 1 : a[i] = s[i]
  BY <1>1, <1>5
<1> HIDE DEF a
<1>7. \A i \in 1 .. m : a[i] = p[i]
  <2>1. \A i \in 1 .. m : i = m \/ i \in 1 .. m - 1
    OBVIOUS
  <2> QED
    BY <1>1, <1>4, <1>6, <2>1
<1>8. \A i \in 1 .. m : i # 1 => a[i - 1] = drafts[i - 1]
  BY <1>1, <1>2, <1>6
<1>9. Follows(a, Last(decoded))
  BY <1>2, <1>3, <1>6, <1>7, <1>8 DEF Follows
<1>10. Len(a) <= Len(drafts)
  BY <1>6 DEF Round
<1> QED
  BY <1>6, <1>9, <1>10 DEF MayAccept, a, s, p

LEMMA FusedMayAccept ==
  ASSUME SpecInv, NEW drafts, NEW rows, Round(drafts, rows)
  PROVE  MayAccept(drafts, FusedVerify(drafts, Predicted(drafts, rows)))
<1> DEFINE p == Predicted(drafts, rows)
           both == DOMAIN drafts \cap DOMAIN p
           wrong == Mismatches(drafts, p)
           n == IF Len(drafts) <= rows THEN Len(drafts) ELSE rows
<1>1. DOMAIN p = 1 .. rows /\ DOMAIN drafts = 1 .. Len(drafts) /\ Len(drafts) \in Nat
      /\ rows \in Nat
  BY PredictedRows DEF Round
<1>2. n \in 0 .. Len(drafts) /\ n <= rows /\ both = 1 .. n
  BY <1>1
<1>3. Cardinality(both) = n
  <2>1. 1 \in Int /\ n \in Int /\ (IF 1 > n THEN 0 ELSE n - 1 + 1) = n
    BY <1>2
  <2> HIDE DEF n
  <2>2. Cardinality(1 .. n) = IF 1 > n THEN 0 ELSE n - 1 + 1
    BY <2>1, FS_Interval
  <2> QED
    BY <1>2, <2>1, <2>2
<1>4. wrong = {i \in 1 .. n : drafts[i] # p[i]}
  BY <1>2 DEF Mismatches
<1> HIDE DEF n, wrong, p, both
<1>5. CASE wrong = {}
  <2>1. FusedVerify(drafts, p) = SubSeq(drafts, 1, n)
    BY <1>3, <1>5 DEF FusedVerify, wrong, both
  <2>2. \A i \in 1 .. n : drafts[i] = p[i]
    BY <1>4, <1>5
  <2> QED
    BY <1>2, <2>1, <2>2, AgreeingFollow DEF p
<1>6. CASE wrong # {}
  <2> DEFINE m == Min(wrong)
  <2>1. m \in wrong /\ \A y \in wrong : m <= y
    <3>1. wrong \in SUBSET Nat
      BY <1>2, <1>4
    <3> QED
      BY <1>6, <3>1, LeastOf
  <2> HIDE DEF m
  <2>2. m \in 1 .. n
    BY <1>4, <2>1
  <2>3. m \in 1 .. Len(drafts) /\ m <= rows /\ \A i \in 1 .. m - 1 : i \in 1 .. n /\ ~ (m <= i)
    BY <1>1, <1>2, <2>2
  <2>4. \A i \in 1 .. m - 1 : drafts[i] = p[i]
    BY <1>4, <2>1, <2>3
  <2>5. FusedVerify(drafts, p) = Append(SubSeq(drafts, 1, m - 1), p[m])
    BY <1>6 DEF FusedVerify, wrong, m
  <2> QED
    BY <2>3, <2>4, <2>5, CorrectionFollows DEF p
<1> QED
  BY <1>5, <1>6 DEF p

(* How far the loop is after i drafts.                                     *)
Looked(drafts, rows, i, state) ==
  /\ MayAccept(drafts, state.accepted)
  /\ Len(state.accepted) <= i
  /\ ~state.stopped => /\ state.accepted = SubSeq(drafts, 1, Len(state.accepted))
                       /\ Len(state.accepted) = IF i <= rows THEN i ELSE rows
                       /\ \A j \in 1 .. Len(state.accepted) : drafts[j] = Predicted(drafts, rows)[j]

LEMMA LoopMayAccept ==
  ASSUME SpecInv, NEW drafts, NEW rows, Round(drafts, rows)
  PROVE  MayAccept(drafts, LoopVerify(drafts, Predicted(drafts, rows)))
<1> DEFINE p == Predicted(drafts, rows)
           n == Len(drafts)
           V == [accepted : Seq(SpecTokens), stopped : BOOLEAN]
           base == [accepted |-> << >>, stopped |-> FALSE]
           Next1(i, v) == IF v.stopped \/ i > Len(p) THEN v
                          ELSE [accepted |-> Append(v.accepted, p[i]),
                                stopped |-> drafts[i] # p[i]]
           step == [pair \in (1 .. n) \X V |-> Next1(pair[1], pair[2])]
           IsAfter(f) == f = [i \in 0 .. n |-> IF i = 0 THEN base ELSE Next1(i, f[i - 1])]
           after == CHOOSE f : IsAfter(f)
<1>1. /\ n \in Nat /\ drafts \in Seq(SpecTokens) /\ rows \in Nat /\ rows <= n + 1
      /\ p \in Seq(SpecTokens) /\ Len(p) = rows
  BY PredictedRows DEF Round
<1>2. base \in V
  OBVIOUS
<1>3. ASSUME NEW i \in 1 .. n, NEW v \in V PROVE Next1(i, v) \in V
  <2>1. CASE v.stopped \/ i > Len(p)
    BY <2>1
  <2>2. CASE ~ (v.stopped \/ i > Len(p))
    <3>1. p[i] \in SpecTokens
      BY <1>1, <2>2
    <3>2. Append(v.accepted, p[i]) \in Seq(SpecTokens)
      BY <3>1
    <3> QED
      BY <2>2, <3>2
  <2> QED
    BY <2>1, <2>2
<1>4. step \in [(1 .. n) \X V -> V] /\ \A i \in 1 .. n, v \in V : step[<<i, v>>] = Next1(i, v)
  BY <1>3
<1> HIDE DEF step, V, base, n, p
<1>5. PICK f \in [0 .. n -> V] : Steps(f, n, base, step)
  BY <1>1, <1>2, <1>4, StepwiseFunction
<1>6. f[0] = base /\ \A i \in 1 .. n : f[i] = Next1(i, f[i - 1])
  <2>1. \A i \in 1 .. n : f[i - 1] \in V
    BY <1>1
  <2> HIDE DEF Next1
  <2> QED
    BY <1>4, <1>5, <2>1 DEF Steps
<1>7. IsAfter(f)
  <2> HIDE DEF Next1
  <2>1. \A i \in 0 .. n : f[i] = IF i = 0 THEN base ELSE Next1(i, f[i - 1])
    BY <1>1, <1>6
  <2> QED
    BY <1>1, <2>1
<1>8. IsAfter(after)
  <2> HIDE DEF IsAfter
  <2> QED
    BY <1>7
<1>9. LoopVerify(drafts, p) = after[n].accepted
  BY DEF LoopVerify, base, n
<1>10. after[0] = base /\ \A i \in 1 .. n : after[i] = Next1(i, after[i - 1])
  <2>0. after = [i \in 0 .. n |-> IF i = 0 THEN base ELSE Next1(i, after[i - 1])]
    BY <1>8
  <2> HIDE DEF after, Next1
  <2> QED
    BY <1>1, <2>0
<1> HIDE DEF IsAfter, after
<1> DEFINE S == {i \in 0 .. n : Looked(drafts, rows, i, after[i])}
<1>11. 0 \in S
  <2>1. after[0].accepted = << >> /\ after[0].stopped = FALSE
    BY <1>10 DEF base
  <2>2. /\ << >> \in Seq(SpecTokens) /\ Len(<< >>) = 0 /\ 1 .. 0 = {}
        /\ << >> = SubSeq(drafts, 1, 0)
    BY <1>1
  <2>3. MayAccept(drafts, << >>)
    BY <1>1, <2>2 DEF MayAccept, Follows, n
  <2> DEFINE v == after[0]
             a == v.accepted
             z == 0
  <2>4. z \in 0 .. n /\ z <= rows /\ z <= z
    BY <1>1
  <2>5. Len(a) = z /\ a = SubSeq(drafts, 1, z) /\ 1 .. z = {} /\ MayAccept(drafts, a)
    BY <2>1, <2>2, <2>3
  <2> HIDE DEF z, v
  <2>6. Looked(drafts, rows, z, v)
    BY <2>4, <2>5 DEF Looked
  <2> QED
    BY <2>4, <2>6 DEF z, v
<1>12. ASSUME NEW i \in 0 .. n - 1, i \in S PROVE i + 1 \in S
  <2> DEFINE v == after[i]
             w == after[i + 1]
             m == Len(v.accepted)
  <2>1. Looked(drafts, rows, i, v)
    BY <1>12
  <2>2. i \in Nat /\ i + 1 \in 1 .. n /\ i + 1 \in 0 .. n /\ w = Next1(i + 1, v)
    <3>1. i + 1 \in 1 .. n /\ i + 1 \in 0 .. n /\ (i + 1) - 1 = i /\ i \in Nat
      BY <1>1
    <3> HIDE DEF Next1
    <3> QED
      BY <1>10, <3>1
  <2> HIDE DEF v, w
  <2>3. CASE v.stopped \/ i + 1 > rows
    <3>1. w = v
      BY <1>1, <2>2, <2>3
    <3>2. m \in Nat /\ m <= i
      BY <2>1 DEF Looked, MayAccept
    <3>3. ~v.stopped => m = rows
      BY <1>1, <2>1, <2>2, <2>3 DEF Looked
    <3>4. m <= i + 1 /\ (~v.stopped => m = IF i + 1 <= rows THEN i + 1 ELSE rows)
      BY <1>1, <2>2, <2>3, <3>2, <3>3
    <3>5. Looked(drafts, rows, i + 1, v)
      BY <2>1, <3>4 DEF Looked
    <3> QED
      BY <2>2, <3>1, <3>5 DEF w
  <2>4. CASE ~ (v.stopped \/ i + 1 > rows)
    <3>1. w.accepted = Append(v.accepted, p[i + 1]) /\ w.stopped = (drafts[i + 1] # p[i + 1])
      BY <1>1, <2>2, <2>4
    <3>2. m = i /\ v.accepted = SubSeq(drafts, 1, i)
          /\ \A j \in 1 .. i : drafts[j] = p[j]
      BY <1>1, <2>1, <2>2, <2>4 DEF Looked, p
    <3>3. i + 1 \in 1 .. Len(drafts) /\ i + 1 <= rows /\ (i + 1) - 1 = i
      BY <1>1, <2>2, <2>4 DEF n
    <3>4. MayAccept(drafts, w.accepted)
      BY <3>1, <3>2, <3>3, CorrectionFollows DEF p
    <3>5. SubSeq(drafts, 1, i) \in Seq(SpecTokens) /\ Len(SubSeq(drafts, 1, i)) = i
          /\ \A j \in 1 .. i : SubSeq(drafts, 1, i)[j] = drafts[j]
      BY <1>1, <2>2, <3>3
    <3>6. /\ Len(w.accepted) = i + 1 /\ w.accepted[i + 1] = p[i + 1]
          /\ \A j \in 1 .. i : w.accepted[j] = drafts[j]
          /\ w.accepted \in Seq(SpecTokens)
      <4>1. p[i + 1] \in SpecTokens
        BY <1>1, <2>2, <3>3
      <4> QED
        BY <2>2, <3>1, <3>2, <3>5, <4>1
    <3>7. ASSUME ~w.stopped
          PROVE  /\ w.accepted = SubSeq(drafts, 1, i + 1)
                 /\ \A j \in 1 .. i + 1 : drafts[j] = p[j]
      <4>1. drafts[i + 1] = p[i + 1]
        BY <3>1, <3>7
      <4>2. \A j \in 1 .. i + 1 : j \in 1 .. i \/ j = i + 1
        BY <2>2
      <4>3. \A j \in 1 .. i + 1 : w.accepted[j] = drafts[j]
        BY <3>6, <4>1, <4>2
      <4>4. SubSeq(drafts, 1, i + 1) \in Seq(SpecTokens) /\ Len(SubSeq(drafts, 1, i + 1)) = i + 1
            /\ \A j \in 1 .. i + 1 : SubSeq(drafts, 1, i + 1)[j] = drafts[j]
        BY <1>1, <2>2, <3>3
      <4>5. w.accepted = SubSeq(drafts, 1, i + 1)
        <5> HIDE DEF v, w
        <5> DEFINE x == w.accepted y == SubSeq(drafts, 1, i + 1)
        <5>1. /\ x \in Seq(SpecTokens) /\ y \in Seq(SpecTokens) /\ Len(x) = Len(y)
              /\ \A j \in 1 .. Len(x) : x[j] = y[j]
          BY <3>6, <4>3, <4>4
        <5> HIDE DEF x, y
        <5>2. x = y
          BY <5>1, SeqEqual
        <5> QED
          BY <5>2 DEF x, y
      <4> QED
        BY <3>2, <4>1, <4>2, <4>5
    <3>8. Looked(drafts, rows, i + 1, w)
      BY <2>2, <3>3, <3>4, <3>6, <3>7 DEF Looked, p
    <3> QED
      BY <2>2, <3>8 DEF w
  <2> QED
    BY <2>3, <2>4
<1> HIDE DEF S
<1>13. n \in S
  <2>1. 0 .. n \subseteq S
    BY <1>1, <1>11, <1>12, InductionOnSets
  <2> QED
    BY <1>1, <2>1
<1> QED
  BY <1>9, <1>13 DEF S, Looked, p


(* What a verifier may return keeps the invariant.                         *)
LEMMA AcceptKeepsInv ==
  ASSUME SpecInv, NEW drafts \in Seq(SpecTokens), NEW accepted, MayAccept(drafts, accepted),
         NEW drafted \in Nat, Len(accepted) <= drafted,
         decoded' = decoded \o accepted, target' = target,
         total_drafted' = total_drafted + drafted,
         total_accepted' = total_accepted + Len(accepted)
  PROVE  SpecInv'
<1> DEFINE d == Len(decoded) a == Len(accepted)
<1>1. d \in Nat /\ d > 0 /\ a \in Nat /\ accepted \in Seq(SpecTokens) /\ decoded \in Seq(SpecTokens)
  BY DEF SpecInv, MayAccept
<1>2. /\ decoded' \in Seq(SpecTokens) /\ Len(decoded') = d + a
      /\ \A i \in 1 .. d : decoded'[i] = decoded[i]
      /\ \A i \in 1 .. a : decoded'[d + i] = accepted[i]
  BY <1>1
<1>3. \A i \in 1 .. d : i # 1 => decoded[i] = target[decoded[i - 1]]
  BY DEF SpecInv
<1>4. \A i \in 1 .. a : accepted[i] = target[IF i = 1 THEN decoded[d] ELSE accepted[i - 1]]
  BY DEF MayAccept, Follows, Last
<1> HIDE DEF d, a
<1>5. ASSUME NEW i \in 1 .. Len(decoded'), i # 1 PROVE decoded'[i] = target'[decoded'[i - 1]]
  <2>0. i \in 1 .. d + a
    BY <1>2
  <2>1. CASE i <= d
    <3>1. i \in 1 .. d /\ i - 1 \in 1 .. d
      BY <1>1, <1>5, <2>1
    <3>2. decoded'[i] = decoded[i] /\ decoded'[i - 1] = decoded[i - 1]
      BY <1>2, <3>1
    <3> QED
      BY <1>3, <1>5, <3>1, <3>2
  <2>2. CASE i = d + 1
    <3>1. 1 \in 1 .. a /\ d \in 1 .. d /\ i - 1 = d
      BY <1>1, <2>0, <2>2
    <3>2. decoded'[i] = accepted[1] /\ decoded'[i - 1] = decoded[d]
      BY <1>2, <2>2, <3>1
    <3> QED
      BY <1>4, <3>1, <3>2
  <2>3. CASE i > d + 1
    <3> DEFINE j == i - d
    <3>1. j \in 1 .. a /\ j - 1 \in 1 .. a /\ i = d + j /\ i - 1 = d + (j - 1) /\ j # 1
      BY <1>1, <1>2, <2>3
    <3> HIDE DEF j
    <3>2. decoded'[i] = accepted[j] /\ decoded'[i - 1] = accepted[j - 1]
      BY <1>2, <3>1
    <3> QED
      BY <1>4, <3>1, <3>2
  <2>4. i <= d \/ i = d + 1 \/ i > d + 1
    BY <1>1, <1>2
  <2> QED
    BY <2>1, <2>2, <2>3, <2>4
<1>6. /\ total_drafted' \in Nat /\ total_accepted' \in Nat /\ total_accepted' <= total_drafted'
  BY <1>1 DEF SpecInv, a
<1>7. Len(decoded') > 0
  BY <1>1, <1>2
<1> QED
  BY <1>2, <1>5, <1>6, <1>7 DEF SpecInv

LEMMA SpecInvInductive ==
  /\ SpecInit => SpecInv
  /\ SpecInv /\ [SpecNext]_specVars => SpecInv'
<1>1. ASSUME SpecInit PROVE SpecInv
  <2>1. decoded \in Seq(SpecTokens) /\ Len(decoded) = 1
    <3>1. decoded \in [1 .. 1 -> SpecTokens]
      BY <1>1 DEF SpecInit
    <3> DEFINE n == 1
    <3>2. n \in Nat /\ decoded \in [1 .. n -> SpecTokens]
      BY <3>1
    <3> HIDE DEF n
    <3>3. decoded \in Seq(SpecTokens) /\ Len(decoded) = n
      BY <3>2
    <3> QED
      BY <3>3 DEF n
  <2>2. \A i \in 1 .. Len(decoded) : i = 1
    BY <2>1
  <2> QED
    BY <1>1, <2>1, <2>2 DEF SpecInit, SpecInv
<1>2. ASSUME SpecInv, SpecNext PROVE SpecInv'
  <2>0. PICK k \in 1 .. MaxDrafted, rows \in 1 .. MaxDrafted :
          /\ rows <= k + 1 /\ target' = target
          /\ \E drafts \in [1 .. k -> SpecTokens] : VerifyRound(drafts, rows)
    BY <1>2 DEF SpecNext
  <2>1. PICK drafts \in [1 .. k -> SpecTokens] : VerifyRound(drafts, rows)
    BY <2>0
  <2>2. drafts \in Seq(SpecTokens) /\ Len(drafts) = k
    BY <2>1
  <2>3. Round(drafts, rows)
    BY <2>0, <2>2 DEF Round
  <2> DEFINE fused == FusedVerify(drafts, Predicted(drafts, rows))
             loop == LoopVerify(drafts, Predicted(drafts, rows))
  <2>4. MayAccept(drafts, fused) /\ MayAccept(drafts, loop)
    BY <1>2, <2>3, FusedMayAccept, LoopMayAccept
  <2>5. \/ /\ decoded' = decoded \o fused
           /\ total_drafted' = total_drafted + Len(drafts)
           /\ total_accepted' = total_accepted + Len(fused)
        \/ /\ decoded' = decoded \o loop
           /\ total_drafted' = total_drafted + Len(loop)
           /\ total_accepted' = total_accepted + Len(loop)
    BY <2>1 DEF VerifyRound
  <2> HIDE DEF fused, loop
  <2>6. /\ Len(drafts) \in Nat /\ Len(fused) <= Len(drafts)
        /\ Len(loop) \in Nat /\ Len(loop) <= Len(loop)
    BY <2>2, <2>4 DEF MayAccept
  <2> QED
    BY <1>2, <2>0, <2>2, <2>4, <2>5, <2>6, AcceptKeepsInv
<1>3. ASSUME SpecInv, UNCHANGED specVars PROVE SpecInv'
  BY <1>3 DEF SpecInv, specVars
<1> QED
  BY <1>1, <1>2, <1>3

(* Plain decoding makes the same tokens.                                   *)
LEMMA PlainIsDecoded ==
  ASSUME SpecInv
  PROVE  PlainTokens(Len(decoded)) = decoded
<1> DEFINE n == Len(decoded)
           IsPlain(f) == f = [i \in 1 .. n |-> IF i = 1 THEN decoded[1] ELSE target[f[i - 1]]]
           plain == CHOOSE f : IsPlain(f)
<1>1. n \in Nat \ {0} /\ decoded = [i \in 1 .. n |-> decoded[i]]
      /\ \A i \in 1 .. n : i # 1 => decoded[i] = target[decoded[i - 1]]
  BY DEF SpecInv
<1>2. PlainTokens(n) = plain
  BY DEF PlainTokens
<1> HIDE DEF n
<1>3. IsPlain(decoded)
  BY <1>1
<1>4. IsPlain(plain)
  <2> HIDE DEF IsPlain
  <2> QED
    BY <1>3
<1>5. plain = [i \in 1 .. n |-> IF i = 1 THEN decoded[1] ELSE target[plain[i - 1]]]
  BY <1>4
<1> HIDE DEF plain
<1> DEFINE S == {i \in 0 .. n : i = 0 \/ plain[i] = decoded[i]}
<1>6. 0 \in S
  BY <1>1
<1>7. ASSUME NEW i \in 0 .. n - 1, i \in S PROVE i + 1 \in S
  <2>1. i + 1 \in 1 .. n /\ i + 1 \in 0 .. n /\ (i + 1) - 1 = i /\ (i + 1 = 1 <=> i = 0)
    BY <1>1
  <2>2. plain[i + 1] = IF i + 1 = 1 THEN decoded[1] ELSE target[plain[i]]
    BY <1>5, <2>1
  <2> QED
    BY <1>1, <1>7, <2>1, <2>2
<1> HIDE DEF S
<1>8. 0 .. n \subseteq S
  BY <1>1, <1>6, <1>7, InductionOnSets
<1>9. \A i \in 1 .. n : plain[i] = decoded[i]
  BY <1>1, <1>8 DEF S
<1>10. plain = [i \in 1 .. n |-> plain[i]]
  BY <1>5
<1>11. plain = decoded
  BY <1>1, <1>9, <1>10
<1> QED
  BY <1>2, <1>11 DEF n

LEMMA Blocks ==
  ASSUME NEW m \in Int, NEW w \in Nat \ {0}
  PROVE  m \div w \in Int /\ (m \div w) * w <= m /\ m < (m \div w) * w + w
OBVIOUS

LEMMA BlockOrder ==
  ASSUME NEW i \in Int, NEW j \in Int, i <= j, NEW w \in Nat
  PROVE  i * w <= j * w /\ i * w \in Int /\ j * w \in Int
OBVIOUS

(* The comparison by blocks finds a difference exactly if there is one.    *)
LEMMA DivergenceFound ==
  ASSUME NEW spec, NEW plain, NEW count \in Nat
  PROVE  FirstDivergence(spec, plain, count) = -1
           <=> \A i \in 1 .. count : spec[i] = plain[i]
<1> DEFINE w == CompareWidth
           blocks == count \div w
           Differs(i) == spec[i] # plain[i]
           BlockOf(b) == {i \in (b - 1) * w + 1 .. b * w : Differs(i)}
           bad == {b \in 1 .. blocks : BlockOf(b) # {}}
           rest == {i \in blocks * w + 1 .. count : Differs(i)}
<1>1. w \in Nat \ {0} /\ blocks \in Int /\ blocks * w <= count /\ count < blocks * w + w
  BY SpecAssumption, Blocks
<1>2. FirstDivergence(spec, plain, count)
        = IF bad # {} THEN Min(BlockOf(Min(bad))) - 1
          ELSE IF rest # {} THEN Min(rest) - 1
          ELSE -1
  BY DEF FirstDivergence
<1> HIDE DEF w, Differs
<1>3. ASSUME NEW b \in 1 .. blocks
      PROVE  /\ BlockOf(b) \subseteq 1 .. count
             /\ BlockOf(b) \in SUBSET Nat
  <2>1. /\ 0 * w <= (b - 1) * w /\ (b - 1) * w \in Int
        /\ b * w <= blocks * w /\ b * w \in Int
    <3>1. b \in Int /\ b - 1 \in Int /\ 0 <= b - 1 /\ b <= blocks /\ 0 \in Int
      BY <1>1
    <3> HIDE DEF blocks
    <3> QED
      BY <1>1, <3>1, BlockOrder
  <2>2. 0 * w = 0
    BY <1>1
  <2> DEFINE low == (b - 1) * w high == b * w top == blocks * w
  <2>3. low \in Int /\ high \in Int /\ 0 <= low /\ high <= top /\ top <= count /\ top \in Int
    BY <1>1, <2>1, <2>2
  <2> HIDE DEF low, high, top
  <2>4. low + 1 .. high \subseteq 1 .. count
    BY <2>3
  <2> QED
    BY <2>4 DEF low, high
<1>4. blocks >= 0
  <2> SUFFICES ASSUME blocks <= -1 PROVE FALSE
    BY <1>1
  <2> DEFINE one == -1
  <2>1. one \in Int /\ one * w = 0 - w
    BY <1>1
  <2> HIDE DEF one, blocks
  <2>2. blocks * w <= one * w /\ blocks * w \in Int
    BY <1>1, <2>1, BlockOrder DEF one
  <2> QED
    BY <1>1, <2>1, <2>2
<1>5. rest \subseteq 1 .. count /\ rest \in SUBSET Nat
  <2> DEFINE top == blocks * w
  <2>1. 0 <= top /\ top \in Int
    <3>1. 0 \in Int /\ 0 * w = 0
      BY <1>1
    <3> HIDE DEF blocks
    <3> QED
      BY <1>1, <1>4, <3>1, BlockOrder
  <2> HIDE DEF top
  <2>2. top + 1 .. count \subseteq 1 .. count
    BY <2>1
  <2> QED
    BY <2>2 DEF top
<1>6. ASSUME NEW i \in 1 .. count, Differs(i) PROVE bad # {} \/ rest # {}
  <2> DEFINE top == blocks * w
             b == ((i - 1) \div w) + 1
  <2>1. CASE i > top
    <3>1. i \in top + 1 .. count
      BY <1>1, <2>1
    <3> QED
      BY <1>6, <3>1
  <2>2. CASE i <= top
    <3> DEFINE c == (i - 1) \div w
    <3>1. c \in Int /\ c * w <= i - 1 /\ i - 1 < c * w + w
      <4>1. i - 1 \in Int
        OBVIOUS
      <4> QED
        BY <1>1, <4>1, Blocks
    <3>2. b = c + 1 /\ b - 1 = c
      BY <3>1
    <3> HIDE DEF c, b, blocks
    <3>3. c * w \in Int /\ b * w = c * w + w /\ top \in Int
      BY <1>1, <3>1, <3>2
    <3>4. i \in (b - 1) * w + 1 .. b * w
      <4> DEFINE low == c * w high == b * w
      <4>1. low \in Int /\ high = low + w /\ low <= i - 1 /\ i - 1 < low + w
        BY <3>1, <3>3
      <4>2. (b - 1) * w = low
        BY <3>2
      <4> HIDE DEF low, high
      <4>3. i \in low + 1 .. high
        BY <1>1, <4>1
      <4> QED
        BY <4>2, <4>3 DEF high
    <3>5. b <= blocks
      <4> SUFFICES ASSUME blocks <= c PROVE FALSE
        BY <1>1, <3>1, <3>2
      <4>1. top <= c * w
        BY <1>1, <3>1, BlockOrder
      <4> QED
        BY <2>2, <3>1, <3>3, <4>1
    <3>6. 1 <= b
      <4> SUFFICES ASSUME c <= -1 PROVE FALSE
        BY <3>1, <3>2
      <4> DEFINE one == -1
      <4>1. one \in Int /\ one * w = 0 - w
        BY <1>1
      <4> HIDE DEF one
      <4>2. c * w <= one * w
        BY <1>1, <3>1, <4>1, BlockOrder DEF one
      <4> QED
        BY <1>1, <3>1, <3>3, <4>1, <4>2
    <3>7. b \in 1 .. blocks /\ i \in BlockOf(b)
      BY <1>1, <1>6, <3>1, <3>2, <3>4, <3>5, <3>6
    <3> QED
      BY <3>7
  <2> QED
    BY <1>1, <2>1, <2>2
<1> HIDE DEF BlockOf, rest, blocks
<1>7. \A b \in 1 .. blocks : \A i \in BlockOf(b) : Differs(i)
  BY DEF BlockOf
<1>8. \A i \in rest : Differs(i)
  BY DEF rest
<1>9. CASE bad # {}
  <2> DEFINE b == Min(bad)
  <2>1. bad \in SUBSET Nat
    BY <1>1
  <2>2. b \in bad
    BY <1>9, <2>1, LeastOf
  <2>3. b \in 1 .. blocks /\ BlockOf(b) # {}
    BY <2>2
  <2> DEFINE i == Min(BlockOf(b))
  <2> HIDE DEF b
  <2>4. i \in BlockOf(b)
    BY <1>3, <2>3, LeastOf
  <2>5. i \in 1 .. count /\ Differs(i)
    BY <1>3, <1>7, <2>3, <2>4
  <2>6. FirstDivergence(spec, plain, count) = i - 1
    BY <1>2, <1>9 DEF b
  <2> HIDE DEF i, bad
  <2>7. i - 1 # -1
    BY <2>5
  <2> QED
    BY <2>5, <2>6, <2>7 DEF Differs
<1>10. CASE bad = {} /\ rest # {}
  <2> DEFINE i == Min(rest)
  <2>1. i \in rest
    BY <1>5, <1>10, LeastOf
  <2>2. i \in 1 .. count /\ Differs(i)
    BY <1>5, <1>8, <2>1
  <2>3. FirstDivergence(spec, plain, count) = i - 1
    BY <1>2, <1>10
  <2> HIDE DEF i, bad
  <2>4. i - 1 # -1
    BY <2>2
  <2> QED
    BY <2>2, <2>3, <2>4 DEF Differs
<1>11. CASE bad = {} /\ rest = {}
  <2> HIDE DEF bad
  <2> QED
    BY <1>2, <1>6, <1>11 DEF Differs
<1> QED
  BY <1>9, <1>10, <1>11

(* The parity check passes exactly for the same tokens.                    *)
LEMMA ParityIsEquality ==
  ASSUME NEW spec \in Seq(SpecTokens), NEW plain \in Seq(SpecTokens)
  PROVE  GreedyParity(spec, plain) <=> spec = plain
<1> DEFINE count == IF Len(spec) < Len(plain) THEN Len(spec) ELSE Len(plain)
<1>1. count \in Nat
  OBVIOUS
<1>2. GreedyParity(spec, plain)
        <=> FirstDivergence(spec, plain, count) = -1 /\ Len(spec) = Len(plain)
  BY DEF GreedyParity
<1>3. Len(spec) = Len(plain) => count = Len(spec)
  OBVIOUS
<1> HIDE DEF count
<1>4. GreedyParity(spec, plain)
        <=> Len(spec) = Len(plain) /\ \A i \in 1 .. Len(spec) : spec[i] = plain[i]
  BY <1>1, <1>2, <1>3, DivergenceFound
<1>5. Len(spec) = Len(plain) /\ (\A i \in 1 .. Len(spec) : spec[i] = plain[i]) => spec = plain
  BY SeqEqual
<1> QED
  BY <1>4, <1>5

LEMMA SpecInvImplies ==
  ASSUME SpecInv
  PROVE  SpecIsGreedy
<1> DEFINE plain == PlainTokens(Len(decoded))
<1>1. plain = decoded /\ decoded \in Seq(SpecTokens) /\ Len(decoded) > 0
  BY PlainIsDecoded DEF SpecInv
<1> HIDE DEF plain
<1>2. ASSUME NEW i \in DOMAIN plain, NEW t \in SpecTokens, t # plain[i]
      PROVE  ~GreedyParity(decoded, [plain EXCEPT ![i] = t])
  <2> DEFINE other == [decoded EXCEPT ![i] = t]
  <2>1. i \in 1 .. Len(decoded)
    BY <1>1
  <2>2. other \in Seq(SpecTokens) /\ other[i] = t
    BY <1>1, <2>1
  <2> HIDE DEF other
  <2>3. other # decoded
    BY <1>1, <1>2, <2>2
  <2> QED
    BY <1>1, <2>2, <2>3, ParityIsEquality DEF other
<1>3. ~GreedyParity(decoded, Append(plain, decoded[1]))
  <2> DEFINE other == Append(decoded, decoded[1])
  <2>1. decoded[1] \in SpecTokens
    BY <1>1
  <2>2. other \in Seq(SpecTokens) /\ Len(other) = Len(decoded) + 1
    BY <1>1, <2>1
  <2>3. Len(decoded) \in Nat
    BY <1>1
  <2> HIDE DEF other
  <2>4. other # decoded
    BY <2>2, <2>3
  <2> QED
    BY <1>1, <2>2, <2>4, ParityIsEquality DEF other
<1>4. GreedyParity(decoded, plain)
  BY <1>1, ParityIsEquality
<1>5. total_accepted <= total_drafted
  BY DEF SpecInv
<1> QED
  BY <1>1, <1>2, <1>3, <1>4, <1>5 DEF SpecIsGreedy, plain

(* Rounds of drafts decode what plain decoding does.                       *)
THEOREM SpeculationIsGreedy ==
  SpecDecodeSpec => []SpecIsGreedy
<1>1. SpecInit => SpecInv
  BY SpecInvInductive
<1>2. SpecInv /\ [SpecNext]_specVars => SpecInv'
  BY SpecInvInductive
<1>3. SpecInv => SpecIsGreedy
  BY SpecInvImplies
<1> QED
  BY <1>1, <1>2, <1>3, PTL DEF SpecDecodeSpec

-----------------------------------------------------------------------------
(* ChainContext.                                                           *)

Pieces == Prompts \cup Drafts \cup {Whole, JoinedText}

ChainInv ==
  /\ historyText \in Seq(Pieces) /\ historyTokens \in Seq(Pieces)
  /\ branchText \in [Branches -> Seq(Pieces)]
  /\ branchTokens \in [Branches -> Seq(Pieces)]
  /\ forkedAt \in Seq(Pieces)
  /\ IsPrefix(forkedAt, historyTokens)
  /\ ~loose => historyText = historyTokens /\ branchText = branchTokens

LEMMA PrefixGrows ==
  ASSUME NEW S, NEW s \in Seq(S), NEW t \in Seq(S), NEW u \in Seq(S), IsPrefix(s, t)
  PROVE  IsPrefix(s, t \o u)
<1> DEFINE v == t \o u
           n == Len(s)
           front == SubSeq(t, 1, n)
           front1 == SubSeq(v, 1, n)
<1>1. /\ v \in Seq(S) /\ Len(v) = Len(t) + Len(u) /\ \A i \in 1 .. Len(t) : v[i] = t[i]
      /\ n \in Nat /\ n <= Len(t) /\ n <= Len(v) /\ SubSeq(s, 1, n) = front
  BY DEF IsPrefix
<1> HIDE DEF v, n
<1>2. /\ front \in Seq(S) /\ Len(front) = n /\ \A i \in 1 .. n : front[i] = t[i]
      /\ front1 \in Seq(S) /\ Len(front1) = n /\ \A i \in 1 .. n : front1[i] = v[i]
  BY <1>1
<1> HIDE DEF front, front1
<1>3. \A i \in 1 .. n : i \in 1 .. Len(t)
  BY <1>1
<1>4. front = front1
  <2>1. \A i \in 1 .. n : front[i] = front1[i]
    BY <1>1, <1>2, <1>3
  <2> QED
    BY <1>2, <2>1, SeqEqual
<1> QED
  BY <1>1, <1>4 DEF IsPrefix, n, v, front1

LEMMA ChainInitInv == ChainInit => ChainInv
<1> SUFFICES ASSUME ChainInit PROVE ChainInv
  OBVIOUS
<1> DEFINE none == << >>
<1>1. none \in Seq(Pieces) /\ IsPrefix(none, none)
  BY DEF IsPrefix
<1> HIDE DEF none
<1>2. NoBranches = [b \in Branches |-> none]
  BY DEF NoBranches, none
<1>3. NoBranches \in [Branches -> Seq(Pieces)]
  BY <1>1, <1>2
<1>4. /\ historyText = none /\ historyTokens = none /\ forkedAt = none
      /\ branchText = NoBranches /\ branchTokens = NoBranches
  BY DEF ChainInit, none
<1> QED
  BY <1>1, <1>3, <1>4 DEF ChainInv

(* What is appended to both the text and the tokens, for the chain and for *)
(* a branch; alike says that they are the same.                            *)
LEMMA AppendToChainKeepsInv ==
  ASSUME ChainInv, NEW text \in Seq(Pieces), NEW tokens \in Seq(Pieces),
         AppendToChain(text, tokens), ~loose' => ~loose /\ text = tokens,
         UNCHANGED chainBranches
  PROVE  ChainInv'
<1>1. /\ historyText' = historyText \o text /\ historyTokens' = historyTokens \o tokens
      /\ forkedAt' = forkedAt /\ branchText' = branchText /\ branchTokens' = branchTokens
  BY DEF AppendToChain, chainBranches
<1>2. historyText' \in Seq(Pieces) /\ historyTokens' \in Seq(Pieces)
  BY <1>1 DEF ChainInv
<1>3. IsPrefix(forkedAt, historyTokens \o tokens)
  BY PrefixGrows DEF ChainInv
<1>4. IsPrefix(forkedAt, historyTokens)'
  BY <1>1, <1>3 DEF IsPrefix
<1> QED
  BY <1>1, <1>2, <1>4 DEF ChainInv

LEMMA AppendToBranchKeepsInv ==
  ASSUME ChainInv, NEW b \in Branches, NEW text \in Seq(Pieces), NEW tokens \in Seq(Pieces),
         AppendToBranch(b, text, tokens), ~loose' => ~loose /\ text = tokens,
         UNCHANGED <<historyText, historyTokens, forkedAt>>
  PROVE  ChainInv'
<1>1. /\ branchText' = [branchText EXCEPT ![b] = @ \o text]
      /\ branchTokens' = [branchTokens EXCEPT ![b] = @ \o tokens]
  BY DEF AppendToBranch
<1>2. branchText[b] \o text \in Seq(Pieces) /\ branchTokens[b] \o tokens \in Seq(Pieces)
  BY DEF ChainInv
<1>3. branchText' \in [Branches -> Seq(Pieces)] /\ branchTokens' \in [Branches -> Seq(Pieces)]
  BY <1>1, <1>2 DEF ChainInv
<1>4. ~loose' => branchText' = branchTokens'
  BY <1>1 DEF ChainInv
<1>5. IsPrefix(forkedAt, historyTokens)'
  BY DEF ChainInv, IsPrefix
<1> QED
  BY <1>3, <1>4, <1>5 DEF ChainInv

(* The texts and tokens of a prompt, and of a draft or an option behind it.*)
LEMMA PiecesOf ==
  ASSUME NEW prompt \in OptionalPrompt
  PROVE  /\ prompt \in Seq(Pieces)
         /\ \A d \in Drafts : /\ prompt \o <<d>> \in Seq(Pieces)
                              /\ prompt \o <<Repaired(d)>> \in Seq(Pieces)
         /\ \A option \in Prompts : prompt \o <<option>> \in Seq(Pieces)
<1>1. prompt \in Seq(Pieces)
  <2>1. CASE prompt = << >>
    BY <2>1
  <2>2. ASSUME NEW p \in Prompts, prompt = <<p>> PROVE prompt \in Seq(Pieces)
    <3>1. p \in Pieces
      BY DEF Pieces
    <3> QED
      BY <2>2, <3>1
  <2> QED
    BY <2>1, <2>2 DEF OptionalPrompt
<1>2. ASSUME NEW p \in Pieces PROVE prompt \o <<p>> \in Seq(Pieces)
  <2>1. <<p>> \in Seq(Pieces)
    OBVIOUS
  <2> QED
    BY <1>1, <2>1
<1>3. \A d \in Drafts : d \in Pieces /\ Repaired(d) \in Pieces
  BY DEF Pieces, Repaired
<1>4. \A option \in Prompts : option \in Pieces
  BY DEF Pieces
<1> QED
  BY <1>1, <1>2, <1>3, <1>4

LEMMA ChainNextInv ==
  ASSUME ChainInv, [ChainNext]_chainVars
  PROVE  ChainInv'
<1>1. CASE Constrain
  BY <1>1 DEF Constrain, chainBranches, ChainInv, IsPrefix
<1>2. CASE Fork
  <2> DEFINE none == << >>
  <2>1. none \in Seq(Pieces)
    OBVIOUS
  <2> HIDE DEF none
  <2>2. NoBranches = [b \in Branches |-> none]
    BY DEF NoBranches, none
  <2>3. NoBranches \in [Branches -> Seq(Pieces)]
    BY <2>1, <2>2
  <2>4. /\ branchText' = NoBranches /\ branchTokens' = NoBranches /\ forkedAt' = historyTokens
        /\ UNCHANGED <<historyText, historyTokens, loose>>
    BY <1>2 DEF Fork
  <2>5. IsPrefix(historyTokens, historyTokens)
    BY DEF ChainInv, IsPrefix
  <2>6. IsPrefix(forkedAt, historyTokens)'
    BY <2>4, <2>5 DEF IsPrefix
  <2> QED
    BY <2>3, <2>4, <2>6 DEF ChainInv
<1>3. CASE JoinBest \/ JoinVote
  <2>1. PICK b \in Branches : AppendToChain(branchText[b], branchTokens[b])
    BY <1>3 DEF JoinBest, JoinVote
  <2>2. UNCHANGED <<chainBranches, loose>>
    BY <1>3 DEF JoinBest, JoinVote
  <2>3. branchText[b] \in Seq(Pieces) /\ branchTokens[b] \in Seq(Pieces)
    BY DEF ChainInv
  <2>4. ~loose' => ~loose /\ branchText[b] = branchTokens[b]
    BY <2>2 DEF ChainInv
  <2> QED
    BY <2>1, <2>2, <2>3, <2>4, AppendToChainKeepsInv
<1>4. CASE JoinConcat
  <2>1. <<JoinedText>> \in Seq(Pieces) /\ << >> \in Seq(Pieces)
    BY DEF Pieces
  <2>2. AppendToChain(<<JoinedText>>, << >>) /\ loose' = TRUE /\ UNCHANGED chainBranches
    BY <1>4 DEF JoinConcat
  <2> QED
    BY <2>1, <2>2, AppendToChainKeepsInv
<1>5. ASSUME NEW prompt \in OptionalPrompt, GenChain(prompt) PROVE ChainInv'
  <2>1. UNCHANGED chainBranches
    BY <1>5 DEF GenChain
  <2>2. CASE AppendToChain(prompt, prompt) /\ UNCHANGED loose
    BY <2>1, <2>2, PiecesOf, AppendToChainKeepsInv
  <2>3. ASSUME NEW d \in Drafts,
               AppendToChain(prompt \o <<Repaired(d)>>, prompt \o <<d>>),
               loose' = (loose \/ Repaired(d) # d)
        PROVE  ChainInv'
    <3>1. ~loose' => ~loose /\ prompt \o <<Repaired(d)>> = prompt \o <<d>>
      BY <2>3
    <3> QED
      BY <2>1, <2>3, <3>1, PiecesOf, AppendToChainKeepsInv
  <2> QED
    BY <1>5, <2>2, <2>3 DEF GenChain
<1>6. ASSUME NEW prompt \in OptionalPrompt, NEW option \in Prompts, SelectChain(prompt, option)
      PROVE  ChainInv'
  BY <1>6, PiecesOf, AppendToChainKeepsInv DEF SelectChain
<1>7. ASSUME NEW prompt \in OptionalPrompt, NEW b \in Branches, GenBranch(b, prompt)
      PROVE  ChainInv'
  <2>1. UNCHANGED <<historyText, historyTokens, forkedAt>>
    BY <1>7 DEF GenBranch
  <2>2. CASE AppendToBranch(b, prompt, prompt) /\ UNCHANGED loose
    BY <2>1, <2>2, PiecesOf, AppendToBranchKeepsInv
  <2>3. ASSUME NEW d \in Drafts,
               AppendToBranch(b, prompt \o <<Repaired(d)>>, prompt \o <<d>>),
               loose' = (loose \/ Repaired(d) # d)
        PROVE  ChainInv'
    <3>1. ~loose' => ~loose /\ prompt \o <<Repaired(d)>> = prompt \o <<d>>
      BY <2>3
    <3> QED
      BY <2>1, <2>3, <3>1, PiecesOf, AppendToBranchKeepsInv
  <2> QED
    BY <1>7, <2>2, <2>3 DEF GenBranch
<1>8. ASSUME NEW prompt \in OptionalPrompt, NEW option \in Prompts, NEW b \in Branches,
             SelectBranch(b, prompt, option)
      PROVE  ChainInv'
  BY <1>8, PiecesOf, AppendToBranchKeepsInv DEF SelectBranch
<1>9. CASE UNCHANGED chainVars
  BY <1>9 DEF chainVars, chainBranches, ChainInv, IsPrefix
<1> QED
  BY <1>1, <1>2, <1>3, <1>4, <1>5, <1>6, <1>7, <1>8, <1>9 DEF ChainNext

LEMMA ChainInvImplies == ChainInv => TextIsTokens
<1> SUFFICES ASSUME ChainInv, NEW b \in Branches
             PROVE  IsPrefix(forkedAt, historyTokens \o branchTokens[b])
  BY DEF TextIsTokens, FullTokens, ChainInv
<1>1. branchTokens[b] \in Seq(Pieces)
  BY DEF ChainInv
<1> QED
  BY <1>1, PrefixGrows DEF ChainInv

(* The tokens that a chain feeds are those of the text it shows.           *)
THEOREM ChainTextIsTokens ==
  ChainSpec => []TextIsTokens
<1>1. ChainInit => ChainInv
  BY ChainInitInv
<1>2. ChainInv /\ [ChainNext]_chainVars => ChainInv'
  BY ChainNextInv
<1>3. ChainInv => TextIsTokens
  BY ChainInvImplies
<1> QED
  BY <1>1, <1>2, <1>3, PTL DEF ChainSpec

-----------------------------------------------------------------------------
(* DistributedDriver.                                                      *)

CacheRow == [layer : Nat, position : Nat, token : Nat]

(* The caches with a row for each of n tokens, in order.                   *)
Caches(n) == {c \in Seq(CacheRow) : Len(c) = n /\ \A j \in 1 .. n : c[j].token = j}

DriverInv ==
  /\ fed \in Nat /\ pp_size \in Nat /\ Partitions(pp_size)
  /\ fed = 0 => past_kv = << >>
  /\ fed > 0 => past_kv \in Seq(Caches(fed)) /\ Len(past_kv) = NumLayers
  /\ pp_size <= 1 => OwnRows
  /\ pp_size = 0 => Consecutive

LEMMA DriverInitInv == DriverInit => DriverInv
<1> SUFFICES ASSUME DriverInit PROVE DriverInv
  OBVIOUS
<1>1. fed = 0 /\ past_kv = << >> /\ pp_size \in Nat /\ Partitions(pp_size)
  BY DriverAssumption DEF DriverInit
<1>2. DOMAIN past_kv = {}
  BY <1>1
<1> QED
  BY <1>1, <1>2 DEF DriverInv, OwnRows, Consecutive

LEMMA PastIsCache ==
  ASSUME DriverInv, NEW i \in 1 .. NumLayers
  PROVE  /\ PastOf(i) \in Caches(fed)
         /\ pp_size <= 1 => \A j \in 1 .. fed : PastOf(i)[j].layer = i
         /\ pp_size = 0 => \A j \in 1 .. fed : PastOf(i)[j].position = j - 1
<1>1. CASE fed = 0
  <2>1. past_kv = << >> /\ 1 .. fed = {}
    BY <1>1 DEF DriverInv
  <2>2. PastOf(i) = << >>
    BY <2>1 DEF PastOf
  <2>3. PastOf(i) \in Seq(CacheRow) /\ Len(PastOf(i)) = fed
    BY <1>1, <2>2
  <2> QED
    BY <2>1, <2>3 DEF Caches
<1>2. CASE fed > 0
  <2>1. past_kv \in Seq(Caches(fed)) /\ Len(past_kv) = NumLayers
    BY <1>2 DEF DriverInv
  <2>2. i \in DOMAIN past_kv /\ past_kv[i] \in Caches(fed)
    BY <2>1
  <2>3. PastOf(i) = past_kv[i]
    BY <2>2 DEF PastOf
  <2> QED
    BY <2>2, <2>3 DEF DriverInv, OwnRows, Consecutive
<1> QED
  BY <1>1, <1>2 DEF DriverInv

Grown(c, more, layer, start, k) ==
  /\ more \in Caches(fed + k)
  /\ \A j \in 1 .. fed : more[j] = c[j]
  /\ \A j \in 1 .. k : /\ more[fed + j].layer = layer
                       /\ more[fed + j].position = start + j - 1

LEMMA CacheGrows ==
  ASSUME fed \in Nat, NEW c \in Caches(fed), NEW layer \in Nat, NEW start \in Nat, NEW k \in Nat
  PROVE  Grown(c, c \o Rows(layer, start, k), layer, start, k)
<1> DEFINE rows == Rows(layer, start, k)
           more == c \o rows
           row(j) == [layer |-> layer, position |-> start + j - 1, token |-> fed + j]
<1>1. c \in Seq(CacheRow) /\ Len(c) = fed /\ \A j \in 1 .. fed : c[j].token = j
  BY DEF Caches
<1>2. \A j \in 1 .. k : row(j) \in CacheRow
  BY DEF CacheRow
<1>3. rows = [j \in 1 .. k |-> row(j)]
  BY DEF Rows
<1>4. /\ \A j \in 1 .. k : /\ row(j).layer = layer /\ row(j).position = start + j - 1
                           /\ row(j).token = fed + j
  OBVIOUS
<1> HIDE DEF rows, row
<1>5. rows \in Seq(CacheRow) /\ Len(rows) = k /\ \A j \in 1 .. k : rows[j] = row(j)
  BY <1>2, <1>3
<1>6. /\ more \in Seq(CacheRow) /\ Len(more) = Len(c) + Len(rows)
      /\ \A j \in 1 .. Len(c) : more[j] = c[j]
      /\ \A j \in 1 .. Len(rows) : more[Len(c) + j] = rows[j]
  <2>1. c \in Seq(CacheRow) /\ rows \in Seq(CacheRow)
    BY <1>1, <1>5
  <2> QED
    BY <2>1, JoinedElements
<1> HIDE DEF more
<1>7. /\ Len(more) = fed + k
      /\ \A j \in 1 .. fed : more[j] = c[j]
      /\ \A j \in 1 .. k : more[fed + j] = row(j)
  BY <1>1, <1>5, <1>6
<1>8. \A j \in 1 .. fed + k : more[j].token = j
  <2> SUFFICES ASSUME NEW j \in 1 .. fed + k PROVE more[j].token = j
    OBVIOUS
  <2>1. CASE j \in 1 .. fed
    BY <1>1, <1>7, <2>1
  <2>2. CASE j \notin 1 .. fed
    <3>1. j - fed \in 1 .. k /\ fed + (j - fed) = j
      BY <2>2
    <3> QED
      BY <1>4, <1>7, <3>1
  <2> QED
    BY <2>1, <2>2
<1> QED
  BY <1>4, <1>6, <1>7, <1>8 DEF Caches, Grown, more, rows

(* The next state: every cache has grown by the same rows.                 *)
LEMMA GrownKeepsInv ==
  ASSUME DriverInv, NEW k \in Nat \ {0}, fed' = fed + k, pp_size' = pp_size,
         past_kv' \in Seq(Caches(fed + k)), Len(past_kv') = NumLayers,
         pp_size <= 1 => \A i \in 1 .. NumLayers : \A j \in 1 .. fed + k : past_kv'[i][j].layer = i,
         pp_size = 0 => \A i \in 1 .. NumLayers : \A j \in 1 .. fed + k :
                          past_kv'[i][j].position = j - 1
  PROVE  DriverInv'
<1>1. fed' \in Nat /\ fed' > 0
  BY DEF DriverInv
<1>2. DOMAIN past_kv' = 1 .. NumLayers
  OBVIOUS
<1>3. pp_size' \in Nat /\ Partitions(pp_size)'
  BY DEF DriverInv, Partitions, StageLayers, LayersPerStage
<1> QED
  BY <1>1, <1>2, <1>3 DEF DriverInv, OwnRows, Consecutive

LEMMA ModelKeepsInv ==
  ASSUME DriverInv, NEW k \in Nat \ {0}, ModelForward(k), fed' = fed + k, UNCHANGED pp_size
  PROVE  DriverInv'
<1> DEFINE cache(i) == PastOf(i) \o Rows(i, fed, k)
<1>1. NumLayers \in Nat \ {0} /\ fed \in Nat /\ 1 \in 1 .. NumLayers
  BY DriverAssumption DEF DriverInv
<1>2. ModelStart = fed
  BY <1>1, PastIsCache DEF ModelStart, Caches
<1>3. past_kv' = [i \in 1 .. NumLayers |-> cache(i)] /\ pp_size = 0
  BY <1>2 DEF ModelForward
<1>4. ASSUME NEW i \in 1 .. NumLayers
      PROVE  /\ cache(i) \in Caches(fed + k)
             /\ \A j \in 1 .. fed + k : cache(i)[j].layer = i /\ cache(i)[j].position = j - 1
  <2>1. i \in Nat /\ k \in Nat /\ PastOf(i) \in Caches(fed)
        /\ \A j \in 1 .. fed : PastOf(i)[j].layer = i /\ PastOf(i)[j].position = j - 1
    BY <1>1, <1>3, PastIsCache
  <2>2. /\ cache(i) \in Caches(fed + k)
        /\ \A j \in 1 .. fed : cache(i)[j] = PastOf(i)[j]
        /\ \A j \in 1 .. k : cache(i)[fed + j].layer = i /\ cache(i)[fed + j].position = fed + j - 1
    <3>1. Grown(PastOf(i), cache(i), i, fed, k)
      BY <1>1, <2>1, CacheGrows
    <3> QED
      BY <3>1 DEF Grown
  <2> HIDE DEF cache
  <2>3. ASSUME NEW j \in 1 .. fed + k
        PROVE  cache(i)[j].layer = i /\ cache(i)[j].position = j - 1
    <3>1. CASE j \in 1 .. fed
      BY <2>1, <2>2, <3>1
    <3>2. CASE j \notin 1 .. fed
      <4> DEFINE m == j - fed
      <4>1. m \in 1 .. k /\ fed + m = j /\ fed + m - 1 = j - 1
        BY <1>1, <3>2
      <4> HIDE DEF m
      <4> QED
        BY <2>2, <4>1
    <3> QED
      BY <3>1, <3>2
  <2> QED
    BY <2>2, <2>3
<1> HIDE DEF cache
<1>5. past_kv' \in Seq(Caches(fed + k)) /\ Len(past_kv') = NumLayers
      /\ \A i \in 1 .. NumLayers : past_kv'[i] = cache(i)
  BY <1>1, <1>3, <1>4
<1>6. \A i \in 1 .. NumLayers : \A j \in 1 .. fed + k :
        past_kv'[i][j].layer = i /\ past_kv'[i][j].position = j - 1
  BY <1>4, <1>5
<1>7. fed' = fed + k /\ pp_size' = pp_size
  OBVIOUS
<1> QED
  BY <1>5, <1>6, <1>7, GrownKeepsInv

LEMMA WholeStages ==
  ASSUME NEW m \in Int, NEW n \in Nat \ {0}
  PROVE  m \div n \in Int /\ (m \div n) * n <= m /\ m < (m \div n) * n + n
OBVIOUS

LEMMA StageOrder ==
  ASSUME NEW i \in Int, NEW j \in Int, i <= j, NEW n \in Nat
  PROVE  i * n <= j * n /\ i * n \in Int /\ j * n \in Int
OBVIOUS

LEMMA SomeLayers ==
  ASSUME NEW n \in Nat \ {0}
  PROVE  LayersPerStage(n) \in Nat \ {0}
<1>1. CASE NumLayers < n
  BY <1>1 DEF LayersPerStage
<1>2. CASE ~ (NumLayers < n)
  <2> DEFINE q == NumLayers \div n
  <2>1. NumLayers \in Nat /\ n <= NumLayers /\ q \in Int /\ NumLayers < q * n + n
    BY <1>2, DriverAssumption, WholeStages
  <2>2. LayersPerStage(n) = q
    BY <1>2 DEF LayersPerStage
  <2> HIDE DEF q
  <2>3. ASSUME q <= 0 PROVE FALSE
    <3> DEFINE z == 0
    <3>1. z \in Int /\ q <= z /\ z * n = 0
      BY <2>3
    <3> HIDE DEF z
    <3>2. q * n <= z * n /\ q * n \in Int
      BY <2>1, <3>1, StageOrder
    <3> QED
      BY <2>1, <3>1, <3>2
  <2> QED
    BY <2>1, <2>2, <2>3
<1> QED
  BY <1>1, <1>2

(* Where the layers of each stage start.                                   *)
StageStart(n) == [i \in 0 .. n |-> IF i < n THEN i * LayersPerStage(n) ELSE NumLayers]

LEMMA StagesCoverLayers ==
  ASSUME NEW n \in Nat \ {0}, Partitions(n)
  PROVE  /\ StageStart(n) \in [0 .. n -> Nat]
         /\ StageStart(n)[0] = 0 /\ StageStart(n)[n] = NumLayers
         /\ \A i \in 1 .. n :
              /\ StageLayers(n, i) \in Seq(Nat)
              /\ StageStart(n)[i] = StageStart(n)[i - 1] + Len(StageLayers(n, i))
              /\ DOMAIN StageLayers(n, i) \subseteq 1 .. NumLayers
              /\ \A j \in DOMAIN StageLayers(n, i) :
                   StageLayers(n, i)[j] = StageStart(n)[i - 1] + j
<1> DEFINE l == LayersPerStage(n)
           start == StageStart(n)
           size(i) == IF i < n THEN l
                      ELSE IF (i - 1) * l < NumLayers THEN NumLayers - (i - 1) * l ELSE 0
<1>1. l \in Nat \ {0} /\ NumLayers \in Nat \ {0}
  BY SomeLayers, DriverAssumption
<1> HIDE DEF l
<1>2. \A i \in Nat : i * l \in Nat
  BY <1>1
<1>3. start = [i \in 0 .. n |-> IF i < n THEN i * l ELSE NumLayers]
  BY DEF StageStart, l
<1> HIDE DEF start
<1>4. start \in [0 .. n -> Nat] /\ start[n] = NumLayers /\ start[0] = 0
  <2>1. start \in [0 .. n -> Nat]
    BY <1>1, <1>2, <1>3
  <2>2. start[n] = NumLayers
    BY <1>3
  <2>3. start[0] = 0 * l /\ 0 * l = 0
    BY <1>1, <1>3
  <2> QED
    BY <2>1, <2>2, <2>3
<1>5. ASSUME NEW i \in 1 .. n
      PROVE  /\ StageLayers(n, i) = [j \in 1 .. size(i) |-> (i - 1) * l + j]
             /\ start[i - 1] = (i - 1) * l /\ start[i - 1] \in Nat
  <2>1. i - 1 \in 0 .. n /\ i - 1 < n /\ i - 1 \in Nat
    OBVIOUS
  <2>2. StageLayers(n, i) = [j \in 1 .. size(i) |-> (i - 1) * l + j]
    BY DEF StageLayers, l
  <2> HIDE DEF size
  <2> QED
    BY <1>2, <1>3, <2>1, <2>2
<1>6. ASSUME NEW i \in 1 .. n, i < n
      PROVE  /\ size(i) = l /\ start[i] = start[i - 1] + l
             /\ start[i] <= NumLayers
  <2>1. size(i) = l
    BY <1>6
  <2>2. start[i] = i * l
    BY <1>3, <1>6
  <2>3. i * l = (i - 1) * l + l
    BY <1>1
  <2> DEFINE from == (i - 1) * l
             layers == StageLayers(n, i)
  <2>4. start[i - 1] = from /\ from \in Nat
    BY <1>5
  <2>5. layers = [j \in 1 .. l |-> from + j]
    BY <1>5, <2>1
  <2>6. \A j \in DOMAIN layers : layers[j] <= NumLayers
    BY DEF Partitions
  <2> HIDE DEF from, layers
  <2>7. l \in 1 .. l
    BY <1>1
  <2>8. from + l <= NumLayers
    BY <2>5, <2>6, <2>7
  <2> QED
    BY <2>1, <2>2, <2>3, <2>4, <2>8 DEF from
<1>7. start[n - 1] <= NumLayers
  <2>1. CASE n = 1
    <3>1. n - 1 = 0
      BY <2>1
    <3> QED
      BY <1>1, <1>4, <3>1
  <2>2. CASE n # 1
    <3> DEFINE i == n - 1
    <3>1. i \in 1 .. n /\ i < n
      BY <2>2
    <3> HIDE DEF i
    <3>2. start[i] <= NumLayers
      BY <1>6, <3>1
    <3> QED
      BY <3>2 DEF i
  <2> QED
    BY <2>1, <2>2
<1>8. size(n) \in Nat /\ start[n] = start[n - 1] + size(n)
  <2> DEFINE from == (n - 1) * l
  <2>1. from = start[n - 1] /\ from \in Nat
    <3>1. n \in 1 .. n
      OBVIOUS
    <3> QED
      BY <1>5, <3>1
  <2>2. size(n) = IF from < NumLayers THEN NumLayers - from ELSE 0
    OBVIOUS
  <2> HIDE DEF from, size
  <2> QED
    BY <1>1, <1>4, <1>7, <2>1, <2>2
<1>9. ASSUME NEW i \in 1 .. n
      PROVE  size(i) \in Nat /\ start[i] = start[i - 1] + size(i) /\ start[i] <= NumLayers
  <2>1. CASE i < n
    BY <1>1, <1>6, <2>1
  <2>2. CASE ~ (i < n)
    <3>1. i = n
      BY <2>2
    <3> HIDE DEF size
    <3> QED
      BY <1>1, <1>4, <1>8, <3>1
  <2> QED
    BY <2>1, <2>2
<1> HIDE DEF size
<1>10. ASSUME NEW i \in 1 .. n
       PROVE  /\ StageLayers(n, i) \in Seq(Nat)
              /\ start[i] = start[i - 1] + Len(StageLayers(n, i))
              /\ DOMAIN StageLayers(n, i) \subseteq 1 .. NumLayers
              /\ \A j \in DOMAIN StageLayers(n, i) : StageLayers(n, i)[j] = start[i - 1] + j
  <2> DEFINE from == start[i - 1]
             m == size(i)
  <2>1. StageLayers(n, i) = [j \in 1 .. m |-> from + j] /\ from \in Nat
    BY <1>5
  <2>2. m \in Nat /\ start[i] = from + m /\ from + m <= NumLayers
    BY <1>9
  <2> HIDE DEF from, m
  <2>3. \A j \in 1 .. m : from + j \in Nat /\ j \in 1 .. NumLayers
    BY <1>1, <2>1, <2>2
  <2>4. StageLayers(n, i) \in Seq(Nat) /\ Len(StageLayers(n, i)) = m
    BY <2>1, <2>2, <2>3
  <2> QED
    BY <2>1, <2>2, <2>3, <2>4 DEF from
<1> QED
  BY <1>4, <1>10 DEF start

LEMMA StagesKeepInv ==
  ASSUME DriverInv, NEW k \in Nat \ {0}, ForwardDistributed(k), fed' = fed + k, UNCHANGED pp_size
  PROVE  DriverInv'
<1> DEFINE n == pp_size
           S == Caches(fed + k)
           stages == [i \in 1 .. n |-> StageForward(i, 0, k)]
           start == StageStart(n)
<1>1. n \in Nat \ {0} /\ Partitions(n) /\ fed \in Nat /\ NumLayers \in Nat \ {0} /\ 0 \in Nat /\ k \in Nat
  BY DriverAssumption DEF ForwardDistributed, DriverInv
<1>2. past_kv' = FlattenSeq(stages)
  BY DEF ForwardDistributed
<1>3. /\ start \in [0 .. n -> Nat] /\ start[0] = 0 /\ start[n] = NumLayers
      /\ \A i \in 1 .. n :
           /\ StageLayers(n, i) \in Seq(Nat)
           /\ start[i] = start[i - 1] + Len(StageLayers(n, i))
           /\ DOMAIN StageLayers(n, i) \subseteq 1 .. NumLayers
           /\ \A j \in DOMAIN StageLayers(n, i) : StageLayers(n, i)[j] = start[i - 1] + j
  BY <1>1, StagesCoverLayers
<1>4. ASSUME NEW i \in 1 .. n
      PROVE  /\ StageForward(i, 0, k) \in Seq(S)
             /\ Len(StageForward(i, 0, k)) = Len(StageLayers(n, i))
  <2> DEFINE layers == StageLayers(n, i)
             cache(idx) == PastOf(idx) \o Rows(layers[idx], 0, k)
  <2>1. StageForward(i, 0, k) = [idx \in DOMAIN layers |-> cache(idx)]
    BY DEF StageForward
  <2>2. layers \in Seq(Nat) /\ DOMAIN layers \subseteq 1 .. NumLayers
    BY <1>3
  <2> HIDE DEF layers
  <2>3. ASSUME NEW idx \in DOMAIN layers PROVE cache(idx) \in S
    <3>1. layers[idx] \in Nat /\ idx \in 1 .. NumLayers
      BY <2>2
    <3>2. Grown(PastOf(idx), cache(idx), layers[idx], 0, k)
      BY <1>1, <3>1, PastIsCache, CacheGrows
    <3> QED
      BY <3>2 DEF Grown
  <2> HIDE DEF cache, S
  <2>4. DOMAIN layers = 1 .. Len(layers) /\ Len(layers) \in Nat
    BY <2>2
  <2>5. StageForward(i, 0, k) \in Seq(S) /\ Len(StageForward(i, 0, k)) = Len(layers)
    BY <2>1, <2>3, <2>4
  <2> QED
    BY <2>5 DEF layers
<1>5. stages \in Seq(Seq(S)) /\ Len(stages) = n /\ \A i \in 1 .. n : stages[i] = StageForward(i, 0, k)
  <2> HIDE DEF S, n
  <2> QED
    BY <1>1, <1>4
<1> HIDE DEF stages, S, start
<1>6. Starts(start, stages)
  BY <1>3, <1>4, <1>5 DEF Starts
<1>7. /\ past_kv' \in Seq(S) /\ Len(past_kv') = NumLayers
      /\ \A i \in 1 .. n : \A j \in 1 .. Len(stages[i]) : past_kv'[start[i - 1] + j] = stages[i][j]
  <2>1. past_kv' \in Seq(S) /\ PlacedUpTo(Len(stages), past_kv', start, stages)
    BY <1>2, <1>5, <1>6, FlatteningPlaces
  <2> QED
    BY <1>3, <1>5, <2>1 DEF PlacedUpTo
<1>8. ASSUME n = 1, NEW i \in 1 .. NumLayers, NEW j \in 1 .. fed + k
      PROVE  past_kv'[i][j].layer = i
  <2> DEFINE layers == StageLayers(n, 1)
             cache == PastOf(i) \o Rows(layers[i], 0, k)
             z == 0
  <2>1. 1 \in 1 .. n /\ start[1 - 1] = 0 /\ start[1] = NumLayers
    BY <1>3, <1>8
  <2>2. layers \in Seq(Nat) /\ Len(layers) = NumLayers /\ \A m \in DOMAIN layers : layers[m] = 0 + m
    BY <1>1, <1>3, <2>1
  <2>3. i \in DOMAIN layers /\ layers[i] = i
    BY <2>2
  <2>4. stages[1] = [idx \in DOMAIN layers |-> PastOf(idx) \o Rows(layers[idx], 0, k)]
        /\ Len(stages[1]) = NumLayers
    BY <1>4, <1>5, <2>1, <2>2 DEF StageForward
  <2>5. past_kv'[i] = stages[1][i]
    <3>1. past_kv'[start[1 - 1] + i] = stages[1][i]
      BY <1>7, <2>1, <2>4
    <3> QED
      BY <2>1, <3>1
  <2>6. past_kv'[i] = cache
    BY <2>3, <2>4, <2>5
  <2>7. PastOf(i) \in Caches(fed) /\ \A m \in 1 .. fed : PastOf(i)[m].layer = i
    BY <1>1, <1>8, PastIsCache
  <2>8. /\ \A m \in 1 .. fed : cache[m] = PastOf(i)[m]
        /\ \A m \in 1 .. k : cache[fed + m].layer = i
    <3>1. i \in Nat /\ layers[i] = i
      BY <1>1, <2>3
    <3>2. z \in Nat
      OBVIOUS
    <3>3. cache = PastOf(i) \o Rows(i, z, k)
      BY <3>1
    <3> HIDE DEF layers, z
    <3>4. Grown(PastOf(i), PastOf(i) \o Rows(i, z, k), i, z, k)
      BY <1>1, <2>7, <3>1, <3>2, CacheGrows
    <3> QED
      BY <3>3, <3>4 DEF Grown
  <2> HIDE DEF cache, layers
  <2>9. CASE j \in 1 .. fed
    BY <2>6, <2>7, <2>8, <2>9
  <2>10. CASE j \notin 1 .. fed
    <3>1. j - fed \in 1 .. k /\ fed + (j - fed) = j
      BY <1>1, <2>10
    <3> QED
      BY <2>6, <2>8, <3>1
  <2> QED
    BY <2>9, <2>10
<1>9. pp_size <= 1 => pp_size = 1
  BY <1>1
<1> QED
  BY <1>1, <1>7, <1>8, <1>9, GrownKeepsInv DEF S

LEMMA DriverNextInv ==
  ASSUME DriverInv, [DriverNext]_driverVars
  PROVE  DriverInv'
<1>1. ASSUME NEW k \in 1 .. MaxPass, ModelForward(k) \/ ForwardDistributed(k),
             fed' = fed + k, UNCHANGED pp_size
      PROVE  DriverInv'
  <2>1. k \in Nat \ {0}
    BY DriverAssumption
  <2> QED
    BY <1>1, <2>1, ModelKeepsInv, StagesKeepInv
<1>2. CASE UNCHANGED driverVars
  BY <1>2 DEF driverVars, DriverInv, Partitions, StageLayers, LayersPerStage, OwnRows, Consecutive
<1> QED
  BY <1>1, <1>2 DEF DriverNext

LEMMA DriverInvImplies == DriverInv => CachesExact
<1> SUFFICES ASSUME DriverInv PROVE CachesExact
  OBVIOUS
<1>1. \A i \in DOMAIN past_kv : past_kv[i] \in Caches(fed)
  <2>1. CASE fed = 0
    BY <2>1 DEF DriverInv
  <2>2. CASE fed > 0
    BY <2>2 DEF DriverInv
  <2> QED
    BY <2>1, <2>2 DEF DriverInv
<1> QED
  BY <1>1 DEF DriverInv, CachesExact, Caches, TokensInOrder

(* Whatever the number of stages, each layer's cache has a row per token.  *)
THEOREM DriverCachesExact ==
  DriverSpec => []CachesExact
<1>1. DriverInit => DriverInv
  BY DriverInitInv
<1>2. DriverInv /\ [DriverNext]_driverVars => DriverInv'
  BY DriverNextInv
<1>3. DriverInv => CachesExact
  BY DriverInvImplies
<1> QED
  BY <1>1, <1>2, <1>3, PTL DEF DriverSpec

-----------------------------------------------------------------------------
(* ComputeBatcher.                                                         *)

LEMMA CostsArePositive ==
  ASSUME NEW r \in TaskRequests
  PROVE  EstimateCost(r) \in Nat \ {0}
<1> DEFINE l == r.len c == r.candidates w == r.new h == HiddenDim
<1>1. l \in Nat /\ c \in Nat /\ w \in Nat /\ h \in Nat
  BY BatcherAssumption
<1>2. EstimateCost(r) = CASE r.task = "rerank" -> AtLeastOne(l * l * AtLeastOne(c))
                          [] r.task = "generate" -> AtLeastOne(l + w)
                          [] OTHER -> AtLeastOne(l * h)
  BY DEF EstimateCost
<1> HIDE DEF l, c, w, h
<1>3. \A n \in Nat : AtLeastOne(n) \in Nat \ {0}
  BY DEF AtLeastOne
<1>4. l * l \in Nat /\ l + w \in Nat /\ l * h \in Nat /\ AtLeastOne(c) \in Nat
  BY <1>1, <1>3
<1> DEFINE ll == l * l cc == AtLeastOne(c)
<1>5. ll * cc \in Nat
  <2> HIDE DEF ll, cc
  <2>1. ll \in Nat /\ cc \in Nat
    BY <1>4 DEF ll, cc
  <2> QED
    BY <2>1
<1>6. /\ AtLeastOne(l * l * AtLeastOne(c)) \in Nat \ {0}
      /\ AtLeastOne(l + w) \in Nat \ {0} /\ AtLeastOne(l * h) \in Nat \ {0}
  BY <1>3, <1>4, <1>5
<1> HIDE DEF ll, cc
<1> QED
  BY <1>2, <1>6

(* The running sums of a batch.                                            *)
Summing(f, batch) ==
  /\ f[0] = 0
  /\ \A i \in 1 .. Len(batch) : f[i] = f[i - 1] + EstimateCost(batch[i])

LEMMA CostSums ==
  ASSUME NEW batch \in Seq(TaskRequests)
  PROVE  \E f \in [0 .. Len(batch) -> Nat] : Summing(f, batch) /\ CostOf(batch) = f[Len(batch)]
<1> DEFINE n == Len(batch)
           zero == 0
           cost(i) == EstimateCost(batch[i])
           step == [pair \in (1 .. n) \X Nat |-> pair[2] + cost(pair[1])]
           IsSum(f) == f = [i \in 0 .. n |-> IF i = 0 THEN 0 ELSE f[i - 1] + cost(i)]
           upto == CHOOSE f : IsSum(f)
<1>1. n \in Nat /\ zero \in Nat /\ \A i \in 1 .. n : cost(i) \in Nat
  BY CostsArePositive
<1>2. CostOf(batch) = upto[n]
  BY DEF CostOf
<1> HIDE DEF n, zero, cost
<1>3. step \in [(1 .. n) \X Nat -> Nat] /\ \A i \in 1 .. n, v \in Nat : step[<<i, v>>] = v + cost(i)
  BY <1>1
<1> HIDE DEF step
<1>4. PICK f \in [0 .. n -> Nat] : Steps(f, n, zero, step)
  BY <1>1, <1>3, StepwiseFunction
<1>5. f[0] = 0 /\ \A i \in 1 .. n : f[i] = f[i - 1] + cost(i)
  <2>1. \A i \in 1 .. n : f[i - 1] \in Nat
    BY <1>1
  <2> QED
    BY <1>3, <1>4, <2>1 DEF Steps, zero
<1>6. IsSum(f)
  <2>1. \A i \in 0 .. n : f[i] = IF i = 0 THEN 0 ELSE f[i - 1] + cost(i)
    BY <1>1, <1>5
  <2> QED
    BY <2>1
<1>7. IsSum(upto)
  <2> HIDE DEF IsSum
  <2> QED
    BY <1>6
<1>8. upto = [i \in 0 .. n |-> IF i = 0 THEN 0 ELSE upto[i - 1] + cost(i)]
  BY <1>7
<1> HIDE DEF upto, IsSum
<1> DEFINE P == {i \in 0 .. n : upto[i] = f[i]}
<1>9. 0 \in P
  BY <1>1, <1>5, <1>8
<1>10. ASSUME NEW i \in 0 .. n - 1, i \in P PROVE i + 1 \in P
  <2>1. i + 1 \in 1 .. n /\ (i + 1) - 1 = i /\ i + 1 \in 0 .. n /\ i + 1 # 0
    BY <1>1
  <2>2. upto[i + 1] = upto[i] + cost(i + 1) /\ f[i + 1] = f[i] + cost(i + 1)
    BY <1>5, <1>8, <2>1
  <2> QED
    BY <1>10, <2>1, <2>2
<1> HIDE DEF P
<1>11. 0 .. n \subseteq P
  BY <1>1, <1>9, <1>10, InductionOnSets
<1>12. upto[n] = f[n]
  BY <1>1, <1>11 DEF P
<1>13. Summing(f, batch)
  BY <1>5 DEF Summing, n, cost
<1> QED
  BY <1>2, <1>12, <1>13 DEF n

LEMMA CostOfOneMore ==
  ASSUME NEW batch \in Seq(TaskRequests), NEW r \in TaskRequests
  PROVE  /\ CostOf(batch) \in Nat
         /\ CostOf(Append(batch, r)) = CostOf(batch) + EstimateCost(r)
<1> DEFINE more == Append(batch, r)
           n == Len(batch)
<1>1. /\ more \in Seq(TaskRequests) /\ Len(more) = n + 1 /\ n \in Nat
      /\ more[n + 1] = r /\ \A i \in 1 .. n : more[i] = batch[i]
  OBVIOUS
<1> HIDE DEF more
<1>2. PICK f \in [0 .. Len(more) -> Nat] : Summing(f, more) /\ CostOf(more) = f[Len(more)]
  BY <1>1, CostSums
<1>3. PICK g \in [0 .. n -> Nat] : Summing(g, batch) /\ CostOf(batch) = g[n]
  BY CostSums
<1>4. f[0] = 0 /\ \A i \in 1 .. n + 1 : f[i] = f[i - 1] + EstimateCost(more[i])
  BY <1>1, <1>2 DEF Summing
<1>5. g[0] = 0 /\ \A i \in 1 .. n : g[i] = g[i - 1] + EstimateCost(batch[i])
  BY <1>3 DEF Summing
<1> HIDE DEF n
<1> DEFINE P == {i \in 0 .. n : f[i] = g[i]}
<1>6. 0 \in P
  BY <1>1, <1>4, <1>5
<1>7. ASSUME NEW i \in 0 .. n - 1, i \in P PROVE i + 1 \in P
  <2>1. i + 1 \in 1 .. n /\ i + 1 \in 1 .. n + 1 /\ (i + 1) - 1 = i /\ i + 1 \in 0 .. n
    BY <1>1
  <2> QED
    BY <1>1, <1>4, <1>5, <1>7, <2>1
<1> HIDE DEF P
<1>8. 0 .. n \subseteq P
  BY <1>1, <1>6, <1>7, InductionOnSets
<1>9. f[n] = g[n] /\ g[n] \in Nat
  BY <1>1, <1>8 DEF P
<1>10. f[n + 1] = f[n] + EstimateCost(r)
  <2>1. n + 1 \in 1 .. n + 1 /\ (n + 1) - 1 = n
    BY <1>1
  <2> QED
    BY <1>1, <1>4, <2>1
<1> QED
  BY <1>1, <1>2, <1>3, <1>9, <1>10 DEF more

(* pack_varlen_tokens() keeps each token list between its boundaries.      *)
LEMMA PackingCutsBack ==
  ASSUME NEW batch \in Seq(TaskRequests), NEW i \in DOMAIN batch
  PROVE  SubSeq(FlatTokens(batch), CuSeqlens(batch)[i - 1] + 1, CuSeqlens(batch)[i])
           = TokenList(batch, i)
<1> DEFINE n == Len(batch)
           S == (1 .. n) \X Nat
           lists == [k \in DOMAIN batch |-> TokenList(batch, k)]
           IsCu(f) == f = [k \in 0 .. n |-> IF k = 0 THEN 0 ELSE f[k - 1] + batch[k].len]
           cu == CHOOSE f : IsCu(f)
<1>1. n \in Nat /\ DOMAIN batch = 1 .. n /\ \A k \in 1 .. n : batch[k].len \in Nat
  BY BatcherAssumption
<1>2. \A k \in 1 .. n : TokenList(batch, k) = [j \in 1 .. batch[k].len |-> <<k, j>>]
  BY DEF TokenList
<1>3. CuSeqlens(batch) = cu /\ FlatTokens(batch) = FlattenSeq(lists)
  BY DEF CuSeqlens, FlatTokens
<1> HIDE DEF n
<1>4. \A k \in 1 .. n : TokenList(batch, k) \in Seq(S) /\ Len(TokenList(batch, k)) = batch[k].len
  <2> SUFFICES ASSUME NEW k \in 1 .. n
               PROVE  TokenList(batch, k) \in Seq(S) /\ Len(TokenList(batch, k)) = batch[k].len
    OBVIOUS
  <2> DEFINE m == batch[k].len
  <2>1. m \in Nat /\ \A j \in 1 .. m : <<k, j>> \in S
    BY <1>1
  <2>2. TokenList(batch, k) = [j \in 1 .. m |-> <<k, j>>]
    BY <1>2
  <2> HIDE DEF m, S
  <2>3. TokenList(batch, k) \in Seq(S) /\ Len(TokenList(batch, k)) = m
    BY <2>1, <2>2
  <2> QED
    BY <2>3 DEF m
<1> HIDE DEF S
<1>5. lists \in Seq(Seq(S)) /\ Len(lists) = n /\ \A k \in 1 .. n : lists[k] = TokenList(batch, k)
  BY <1>1, <1>4
<1> HIDE DEF lists
<1>6. PICK start : Starts(start, lists)
  BY <1>5, StartsExist
<1>7. /\ start \in [0 .. n -> Nat] /\ start[0] = 0
      /\ \A k \in 1 .. n : start[k] = start[k - 1] + batch[k].len
  BY <1>4, <1>5, <1>6 DEF Starts
<1>8. IsCu(start)
  <2>1. \A k \in 0 .. n : start[k] = IF k = 0 THEN 0 ELSE start[k - 1] + batch[k].len
    BY <1>1, <1>7
  <2> QED
    BY <1>7, <2>1
<1>9. IsCu(cu)
  <2> HIDE DEF IsCu
  <2> QED
    BY <1>8
<1>10. cu = [k \in 0 .. n |-> IF k = 0 THEN 0 ELSE cu[k - 1] + batch[k].len]
  BY <1>9
<1> HIDE DEF cu, IsCu
<1> DEFINE P == {k \in 0 .. n : cu[k] = start[k]}
<1>11. 0 \in P
  BY <1>1, <1>7, <1>10
<1>12. ASSUME NEW k \in 0 .. n - 1, k \in P PROVE k + 1 \in P
  <2>1. k + 1 \in 1 .. n /\ (k + 1) - 1 = k /\ k + 1 \in 0 .. n /\ k + 1 # 0
    BY <1>1
  <2> QED
    BY <1>7, <1>10, <1>12, <2>1
<1> HIDE DEF P
<1>13. 0 .. n \subseteq P
  BY <1>1, <1>11, <1>12, InductionOnSets
<1> DEFINE flat == FlattenSeq(lists)
           list == TokenList(batch, i)
           from == start[i - 1]
           to == start[i]
           part == SubSeq(flat, from + 1, to)
<1>14. cu[i] = to /\ cu[i - 1] = from
  <2>1. i \in 0 .. n /\ i - 1 \in 0 .. n
    BY <1>1
  <2> QED
    BY <1>13, <2>1 DEF P
<1>15. /\ flat \in Seq(S) /\ PlacedUpTo(Len(lists), flat, start, lists)
  BY <1>5, <1>6, FlatteningPlaces
<1>16. /\ Len(flat) = start[n] /\ to <= start[n]
       /\ \A j \in 1 .. Len(list) : flat[from + j] = list[j]
  BY <1>1, <1>5, <1>15 DEF PlacedUpTo
<1>17. from \in Nat /\ to \in Nat /\ to = from + Len(list) /\ list \in Seq(S) /\ Len(list) \in Nat
  <2>1. i \in 1 .. n /\ i \in 0 .. n /\ i - 1 \in 0 .. n
    BY <1>1
  <2> QED
    BY <1>1, <1>4, <1>7, <2>1
<1>18. start[n] \in Nat
  BY <1>1, <1>7
<1> HIDE DEF flat, list, from, to
<1>19. part \in Seq(S) /\ Len(part) = Len(list) /\ \A j \in 1 .. Len(list) : part[j] = list[j]
  <2> DEFINE m == Len(list)
  <2>1. m \in Nat /\ from + 1 \in Int /\ to = from + m /\ to \in Int
    BY <1>17
  <2>2. \A k \in from + 1 .. to : k \in 1 .. Len(flat)
    BY <1>16, <1>17, <1>18
  <2>3. \A k \in from + 1 .. to : flat[k] \in S
    BY <1>15, <2>2
  <2>4. /\ part \in Seq(S)
        /\ Len(part) = IF from + 1 <= to THEN to - (from + 1) + 1 ELSE 0
        /\ \A j \in 1 .. to - (from + 1) + 1 : part[j] = flat[from + 1 + j - 1]
    BY <2>1, <2>3, SubSeqProperties
  <2> HIDE DEF m, part
  <2>5. Len(part) = m /\ to - (from + 1) + 1 = m
    BY <1>17, <2>1, <2>4
  <2>6. \A j \in 1 .. m : from + 1 + j - 1 = from + j
    BY <1>17, <2>1
  <2>7. \A j \in 1 .. m : part[j] = flat[from + j]
    BY <2>4, <2>5, <2>6
  <2> QED
    BY <1>16, <2>4, <2>5, <2>7 DEF m
<1>20. part = list
  <2> HIDE DEF part
  <2> QED
    BY <1>17, <1>19, SeqEqual
<1> QED
  BY <1>3, <1>14, <1>20 DEF flat, list

(* The closed batches and the current one, and what is said of them.       *)
ClosedSound ==
  \A k \in DOMAIN Closed :
    /\ BatchSound(Closed[k])
    /\ k > 1 => ~BatchSound(Append(Closed[k - 1], Closed[k][1]))

BatcherInv ==
  /\ decorated \in Seq(TaskRequests) /\ current_batch \in Seq(TaskRequests)
  /\ batches \in Seq(Seq(TaskRequests))
  /\ FlattenSeq(Closed) \o decorated = arrived
  /\ ClosedSound
  /\ current_batch = << >> /\ batches # << >> => decorated = << >>

LEMMA ClosedIsList ==
  ASSUME batches \in Seq(Seq(TaskRequests)), current_batch \in Seq(TaskRequests)
  PROVE  Closed \in Seq(Seq(TaskRequests))
BY DEF Closed

LEMMA BatcherInitInv == BatcherInit => BatcherInv
<1> SUFFICES ASSUME BatcherInit PROVE BatcherInv
  OBVIOUS
<1> DEFINE none == << >>
<1>1. PICK n \in 1 .. MaxArrived : arrived \in [1 .. n -> TaskRequests]
  BY DEF BatcherInit
<1>2. arrived \in Seq(TaskRequests)
  <2>1. n \in Nat
    BY BatcherAssumption
  <2> QED
    BY <1>1, <2>1
<1>3. decorated = arrived /\ batches = none /\ current_batch = none
  BY DEF BatcherInit
<1>4. none \in Seq(TaskRequests) /\ none \in Seq(Seq(TaskRequests)) /\ DOMAIN none = {}
      /\ Len(none) = 0
  OBVIOUS
<1>5. Closed = none
  BY <1>3 DEF Closed
<1>6. FlattenSeq(none) = none
  BY <1>4 DEF FlattenSeq
<1>7. none \o arrived = arrived
  BY <1>2
<1> HIDE DEF none
<1>8. ClosedSound
  BY <1>4, <1>5 DEF ClosedSound
<1> QED
  BY <1>2, <1>3, <1>4, <1>5, <1>6, <1>7, <1>8 DEF BatcherInv, none

(* A batch of one request is within the limits.                            *)
LEMMA OneIsSound ==
  ASSUME NEW r \in TaskRequests
  PROVE  BatchSound(<<r>>)
<1> DEFINE p == EstimateCost(r)
           b == <<r>>
<1>1. Len(b) = 1 /\ b[1] = r /\ \A i \in DOMAIN b : b[i] = r
  OBVIOUS
<1>2. p \in Nat /\ TolerancePct \in Nat /\ MaxBatchSize \in Nat \ {0}
  BY CostsArePositive, BatcherAssumption
<1> HIDE DEF b, p
<1>3. TolerancePct * p \in Nat /\ (p - p) * 100 = 0
  BY <1>2
<1>4. (p - p) * 100 <= TolerancePct * p /\ 1 \in 1 .. MaxBatchSize /\ ~ (1 > 1)
  BY <1>2, <1>3
<1>5. BatchSound(b)
  BY <1>1, <1>4 DEF BatchSound, p
<1> QED
  BY <1>5 DEF b

(* A request that joins keeps the batch within the limits; one that does   *)
(* not would break one.                                                    *)
LEMMA JoiningIsSound ==
  ASSUME NEW batch \in Seq(TaskRequests), BatchSound(batch), NEW r \in TaskRequests
  PROVE  BatchSound(Append(batch, r)) <=> Joins(batch, r)
<1> DEFINE more == Append(batch, r)
           n == Len(batch)
           p == EstimateCost(batch[1])
           Near(x) == (EstimateCost(x) - p) * 100 <= TolerancePct * p
<1>1. n \in 1 .. MaxBatchSize /\ MaxBatchSize \in Nat
  BY BatcherAssumption DEF BatchSound
<1>2. /\ more \in Seq(TaskRequests) /\ Len(more) = n + 1 /\ DOMAIN more = 1 .. n + 1
      /\ more[n + 1] = r /\ (\A i \in 1 .. n : more[i] = batch[i]) /\ DOMAIN batch = 1 .. n
      /\ more[1] = batch[1]
  BY <1>1
<1>3. CostOf(more) = CostOf(batch) + EstimateCost(r)
  BY CostOfOneMore
<1>4. Joins(batch, r) <=> /\ CostOf(batch) + EstimateCost(r) <= MaxBatchCost
                          /\ n < MaxBatchSize
                          /\ Near(r)
  BY DEF Joins
<1>5. \A i \in 1 .. n : Near(batch[i])
  BY <1>2 DEF BatchSound
<1> HIDE DEF more
<1>6. BatchSound(more) <=> /\ n + 1 \in 1 .. MaxBatchSize
                           /\ n + 1 > 1 => CostOf(more) <= MaxBatchCost
                           /\ \A i \in 1 .. n + 1 : Near(more[i])
  BY <1>2 DEF BatchSound
<1> HIDE DEF n, Near
<1>7. n + 1 > 1 /\ (n + 1 \in 1 .. MaxBatchSize <=> n < MaxBatchSize)
  BY <1>1
<1>8. (\A i \in 1 .. n + 1 : Near(more[i])) <=> Near(r)
  <2>1. \A i \in 1 .. n + 1 : i \in 1 .. n \/ i = n + 1
    BY <1>1
  <2>2. n + 1 \in 1 .. n + 1
    BY <1>1
  <2> QED
    BY <1>2, <1>5, <2>1, <2>2
<1> QED
  BY <1>3, <1>4, <1>6, <1>7, <1>8 DEF more

(* A batch that is opened behind the others.                               *)
LEMMA OpeningIsSound ==
  ASSUME NEW closed \in Seq(Seq(TaskRequests)), NEW r \in TaskRequests,
         Closed = closed, ClosedSound, Closed' = Append(closed, <<r>>),
         closed # << >> => ~BatchSound(Append(closed[Len(closed)], r))
  PROVE  ClosedSound'
<1> DEFINE n == Len(closed)
           one == <<r>>
           more == Append(closed, one)
<1>1. n \in Nat /\ DOMAIN closed = 1 .. n /\ one[1] = r /\ one \in Seq(TaskRequests)
      /\ (closed # << >> => n # 0)
  OBVIOUS
<1>2. /\ DOMAIN more = 1 .. n + 1 /\ more[n + 1] = one /\ \A i \in 1 .. n : more[i] = closed[i]
  BY <1>1
<1>3. BatchSound(one)
  BY OneIsSound
<1> HIDE DEF more, one
<1>4. ASSUME NEW k \in 1 .. n + 1
      PROVE  /\ BatchSound(more[k])
             /\ k > 1 => ~BatchSound(Append(more[k - 1], more[k][1]))
  <2>1. CASE k \in 1 .. n
    <3>1. k > 1 => k - 1 \in 1 .. n
      BY <1>1, <2>1
    <3> QED
      BY <1>1, <1>2, <2>1, <3>1 DEF ClosedSound
  <2>2. CASE k = n + 1
    <3>1. k > 1 => k - 1 = n /\ n \in 1 .. n /\ closed # << >>
      BY <1>1, <2>2
    <3> QED
      BY <1>1, <1>2, <1>3, <2>2, <3>1
  <2>3. k \in 1 .. n \/ k = n + 1
    BY <1>1
  <2> QED
    BY <2>1, <2>2, <2>3
<1>5. Closed' = more
  BY DEF more, one
<1> QED
  BY <1>2, <1>4, <1>5 DEF ClosedSound, BatchSound

(* The last batch grows.                                                   *)
LEMMA GrowingIsSound ==
  ASSUME NEW done \in Seq(Seq(TaskRequests)), NEW batch \in Seq(TaskRequests),
         NEW r \in TaskRequests, Closed = Append(done, batch), ClosedSound,
         Closed' = Append(done, Append(batch, r)), Joins(batch, r)
  PROVE  ClosedSound'
<1> DEFINE n == Len(done)
           old == Append(done, batch)
           more == Append(batch, r)
           new == Append(done, more)
<1>1. /\ n \in Nat /\ DOMAIN old = 1 .. n + 1 /\ old[n + 1] = batch
      /\ \A i \in 1 .. n : old[i] = done[i]
  OBVIOUS
<1>2. more \in Seq(TaskRequests)
  OBVIOUS
<1>3. DOMAIN new = 1 .. n + 1 /\ new[n + 1] = more /\ \A i \in 1 .. n : new[i] = done[i]
  BY <1>1, <1>2
<1>4. n + 1 \in 1 .. n + 1
  BY <1>1
<1>5. BatchSound(batch)
  BY <1>1, <1>4 DEF ClosedSound
<1>6. BatchSound(more)
  BY <1>5, JoiningIsSound
<1>7. more[1] = batch[1]
  BY <1>5, BatcherAssumption DEF BatchSound
<1> HIDE DEF new, more
<1>8. ASSUME NEW k \in 1 .. n + 1
      PROVE  /\ BatchSound(new[k])
             /\ k > 1 => ~BatchSound(Append(new[k - 1], new[k][1]))
  <2>1. BatchSound(old[k]) /\ (k > 1 => ~BatchSound(Append(old[k - 1], old[k][1])))
    BY <1>1 DEF ClosedSound
  <2> HIDE DEF old
  <2>2. CASE k \in 1 .. n
    <3>1. k > 1 => k - 1 \in 1 .. n
      BY <1>1, <2>2
    <3> QED
      BY <1>1, <1>3, <2>1, <2>2, <3>1
  <2>3. CASE k = n + 1
    <3>1. k > 1 => k - 1 = n /\ n \in 1 .. n
      BY <1>1, <2>3
    <3> QED
      BY <1>1, <1>3, <1>6, <1>7, <2>1, <2>3, <3>1
  <2>4. k \in 1 .. n \/ k = n + 1
    BY <1>1
  <2> QED
    BY <2>2, <2>3, <2>4
<1>9. Closed' = new
  BY DEF new, more
<1> QED
  BY <1>3, <1>8, <1>9 DEF ClosedSound, BatchSound

(* One request is taken off the front of the line.                         *)
LEMMA TakeOne ==
  ASSUME NEW line \in Seq(TaskRequests), line # << >>
  PROVE  /\ Head(line) \in TaskRequests /\ Tail(line) \in Seq(TaskRequests)
         /\ \A s \in Seq(TaskRequests) : s \o line = Append(s, Head(line)) \o Tail(line)
<1> DEFINE h == Head(line) t == Tail(line)
<1>1. h \in TaskRequests /\ t \in Seq(TaskRequests) /\ Len(t) = Len(line) - 1
      /\ \A i \in 1 .. Len(t) : t[i] = line[i + 1]
  OBVIOUS
<1>2. h = line[1] /\ Len(line) \in Nat \ {0}
  OBVIOUS
<1> HIDE DEF h, t
<1>3. ASSUME NEW s \in Seq(TaskRequests) PROVE s \o line = Append(s, h) \o t
  <2> DEFINE a == s \o line
             g == Append(s, h)
             b == g \o t
             n == Len(s)
             l == Len(line)
  <2>1. a \in Seq(TaskRequests) /\ Len(a) = n + l
        /\ (\A i \in 1 .. n : a[i] = s[i]) /\ \A i \in 1 .. l : a[n + i] = line[i]
    BY JoinedElements
  <2>2. g \in Seq(TaskRequests) /\ Len(g) = n + 1 /\ g[n + 1] = h /\ \A i \in 1 .. n : g[i] = s[i]
    BY <1>1
  <2> HIDE DEF g
  <2>3. b \in Seq(TaskRequests) /\ Len(b) = Len(g) + Len(t)
        /\ (\A i \in 1 .. Len(g) : b[i] = g[i]) /\ \A i \in 1 .. Len(t) : b[Len(g) + i] = t[i]
    <3>1. g \in Seq(TaskRequests) /\ t \in Seq(TaskRequests)
      BY <1>1, <2>2
    <3> QED
      BY <3>1, JoinedElements
  <2>4. n \in Nat /\ l \in Nat \ {0} /\ Len(t) = l - 1 /\ h = line[1]
    BY <1>1, <1>2
  <2> HIDE DEF a, b, n, l
  <2>5. Len(a) = Len(b) /\ Len(a) = n + l
    BY <2>1, <2>2, <2>3, <2>4
  <2>6. ASSUME NEW i \in 1 .. n + l PROVE a[i] = b[i]
    <3>1. CASE i \in 1 .. n
      <4>1. i \in 1 .. Len(g)
        BY <2>2, <2>4, <3>1
      <4> QED
        BY <2>1, <2>2, <2>3, <3>1, <4>1
    <3>2. CASE i = n + 1
      <4>1. 1 \in 1 .. l /\ n + 1 \in 1 .. Len(g)
        BY <2>2, <2>4
      <4> QED
        BY <2>1, <2>2, <2>3, <2>4, <3>2, <4>1
    <3>3. CASE i > n + 1
      <4> DEFINE j == i - n - 1
      <4>1. j \in 1 .. l - 1 /\ j + 1 \in 1 .. l /\ i = n + (j + 1) /\ i = n + 1 + j
        BY <2>4, <3>3
      <4> HIDE DEF j
      <4>2. a[i] = line[j + 1] /\ b[i] = t[j] /\ t[j] = line[j + 1]
        BY <1>1, <2>1, <2>2, <2>3, <2>4, <4>1
      <4> QED
        BY <4>2
    <3>4. i \in 1 .. n \/ i = n + 1 \/ i > n + 1
      BY <2>4
    <3> QED
      BY <3>1, <3>2, <3>3, <3>4
  <2>7. a = b
    BY <2>1, <2>3, <2>5, <2>6, SeqEqual
  <2> QED
    BY <2>7 DEF a, b, g
<1> QED
  BY <1>1, <1>3 DEF h, t

LEMMA ConsiderKeepsInv ==
  ASSUME BatcherInv, Consider
  PROVE  BatcherInv'
<1> DEFINE R == TaskRequests
           h == Head(decorated)
           t == Tail(decorated)
           one == <<h>>
<1>1. /\ decorated \in Seq(R) /\ decorated # << >> /\ current_batch \in Seq(R)
      /\ batches \in Seq(Seq(R)) /\ Closed \in Seq(Seq(R))
  BY ClosedIsList DEF BatcherInv, Consider
<1>2. h \in R /\ t \in Seq(R) /\ \A s \in Seq(R) : s \o decorated = Append(s, h) \o t
  BY <1>1, TakeOne
<1>3. decorated' = t /\ arrived' = arrived
  BY DEF Consider
<1>4. one \in Seq(R) /\ one # << >>
  BY <1>2
<1>5. \A s \in Seq(R) : s \o one = Append(s, h) /\ Append(s, h) \in Seq(R)
  BY <1>2
<1>6. FlattenSeq(Closed) \in Seq(R)
  <2>1. PICK start : Starts(start, Closed)
    BY <1>1, StartsExist
  <2> QED
    BY <1>1, <2>1, FlatteningPlaces
<1>7. FlattenSeq(Closed) \o decorated = arrived /\ ClosedSound
  BY DEF BatcherInv
<1>8. Append(FlattenSeq(Closed), h) \o t = arrived
  BY <1>2, <1>6, <1>7
<1> HIDE DEF t
<1>9. CASE current_batch = << >> \/ ~ Joins(current_batch, h)
  <2>1. /\ current_batch' = one
        /\ batches' = Closed
    <3>1. CASE current_batch = << >>
      <4>1. current_batch' = Append(current_batch, h) /\ batches' = batches
        BY <3>1 DEF Consider
      <4> QED
        BY <1>2, <3>1, <4>1 DEF Closed
    <3>2. CASE current_batch # << >>
      BY <1>9, <3>2 DEF Consider, Closed
    <3> QED
      BY <3>1, <3>2
  <2> HIDE DEF h
  <2>2. Closed' = Append(Closed, one)
    BY <1>4, <2>1 DEF Closed
  <2>3. Closed # << >> => ~BatchSound(Append(Closed[Len(Closed)], h))
    <3>1. CASE current_batch = << >>
      BY <1>1, <3>1 DEF Closed, BatcherInv
    <3>2. CASE current_batch # << >>
      <4>1. Closed = Append(batches, current_batch)
        BY <3>2 DEF Closed
      <4>2. Len(Closed) \in DOMAIN Closed /\ Closed[Len(Closed)] = current_batch
        BY <1>1, <4>1
      <4>3. BatchSound(current_batch)
        BY <1>7, <4>2 DEF ClosedSound
      <4> QED
        BY <1>1, <1>2, <1>9, <3>2, <4>2, <4>3, JoiningIsSound
    <3> QED
      BY <3>1, <3>2
  <2>4. ClosedSound'
    BY <1>1, <1>2, <1>7, <2>2, <2>3, OpeningIsSound
  <2>5. FlattenSeq(Closed') = FlattenSeq(Closed) \o one
    BY <1>1, <1>4, <2>2, FlattenOneMore
  <2>6. FlattenSeq(Closed') \o t = arrived
    BY <1>5, <1>6, <1>8, <2>5
  <2>7. current_batch' # << >> /\ current_batch' \in Seq(R) /\ batches' \in Seq(Seq(R))
    BY <1>1, <1>4, <2>1
  <2> QED
    BY <1>2, <1>3, <2>4, <2>6, <2>7 DEF BatcherInv
<1>10. CASE current_batch # << >> /\ Joins(current_batch, h)
  <2> DEFINE more == Append(current_batch, h)
  <2>1. current_batch' = more /\ batches' = batches
    BY <1>10 DEF Consider
  <2> HIDE DEF h
  <2>2. more \in Seq(R) /\ more # << >>
    BY <1>1, <1>2
  <2>3. Closed = Append(batches, current_batch)
    BY <1>10 DEF Closed
  <2>4. Closed' = Append(batches, more)
    BY <2>1, <2>2 DEF Closed
  <2>5. ClosedSound'
    BY <1>1, <1>2, <1>7, <1>10, <2>3, <2>4, GrowingIsSound
  <2> DEFINE f == FlattenSeq(batches)
  <2>6. f \in Seq(R)
    <3>1. PICK start : Starts(start, batches)
      BY <1>1, StartsExist
    <3> QED
      BY <1>1, <3>1, FlatteningPlaces
  <2>7. FlattenSeq(Closed) = f \o current_batch /\ FlattenSeq(Closed') = f \o more
    BY <1>1, <2>2, <2>3, <2>4, FlattenOneMore
  <2>8. f \o more = Append(f \o current_batch, h)
    <3> HIDE DEF f
    <3>1. more = current_batch \o one
      BY <1>1, <1>2
    <3>2. (f \o current_batch) \o one = f \o (current_batch \o one)
      <4> HIDE DEF one, R
      <4>1. \A u, v, w \in Seq(R) : (u \o v) \o w = u \o (v \o w)
        BY ConcatAssociative
      <4>2. f \in Seq(R) /\ current_batch \in Seq(R) /\ one \in Seq(R)
        BY <1>1, <1>4, <2>6
      <4> QED
        BY <4>1, <4>2
    <3>3. f \o current_batch \in Seq(R)
      BY <1>1, <2>6
    <3>4. (f \o current_batch) \o one = Append(f \o current_batch, h)
      <4> HIDE DEF one
      <4> QED
        BY <1>5, <3>3
    <3> QED
      BY <3>1, <3>2, <3>4
  <2> HIDE DEF f, more
  <2>9. FlattenSeq(Closed') \o t = arrived
    BY <1>8, <2>7, <2>8
  <2> QED
    BY <1>1, <1>2, <1>3, <2>1, <2>2, <2>5, <2>9 DEF BatcherInv
<1> QED
  BY <1>9, <1>10

LEMMA BatcherNextInv ==
  ASSUME BatcherInv, [BatcherNext]_batcherVars
  PROVE  BatcherInv'
<1>1. CASE CloseLast
  <2>1. /\ decorated = << >> /\ current_batch # << >> /\ batches' = Append(batches, current_batch)
        /\ current_batch' = << >> /\ UNCHANGED <<decorated, arrived>>
    BY <1>1 DEF CloseLast
  <2>2. Closed' = Closed
    BY <2>1 DEF Closed
  <2>3. batches' \in Seq(Seq(TaskRequests)) /\ current_batch' \in Seq(TaskRequests)
    BY <2>1 DEF BatcherInv
  <2>4. ClosedSound'
    BY <2>2 DEF BatcherInv, ClosedSound, BatchSound
  <2> QED
    BY <2>1, <2>2, <2>3, <2>4 DEF BatcherInv
<1>2. CASE UNCHANGED batcherVars
  <2>1. UNCHANGED <<arrived, decorated, current_batch, batches>>
    BY <1>2 DEF batcherVars
  <2>2. Closed' = Closed
    BY <2>1 DEF Closed
  <2>3. ClosedSound'
    BY <2>2 DEF BatcherInv, ClosedSound, BatchSound
  <2> QED
    BY <2>1, <2>2, <2>3 DEF BatcherInv
<1> QED
  BY <1>1, <1>2, ConsiderKeepsInv DEF BatcherNext

(* The batches keep every request and respect the limits.                  *)
THEOREM BatchingIsSound ==
  BatcherSpec => []BatchesSound
<1>1. BatcherInit => BatcherInv
  BY BatcherInitInv
<1>2. BatcherInv /\ [BatcherNext]_batcherVars => BatcherInv'
  BY BatcherNextInv
<1>3. ASSUME BatcherInv PROVE BatchesSound
  <2>1. Closed \in Seq(Seq(TaskRequests))
    BY <1>3, ClosedIsList DEF BatcherInv
  <2>2. \A k \in DOMAIN Closed : Closed[k] \in Seq(TaskRequests)
    BY <2>1
  <2> QED
    BY <1>3, <2>2, PackingCutsBack DEF BatcherInv, ClosedSound, BatchesSound
<1> QED
  BY <1>1, <1>2, <1>3, PTL DEF BatcherSpec

-----------------------------------------------------------------------------
(* JsonRepair.                                                             *)

ScanStates == [escaped : BOOLEAN, string : BOOLEAN, stack : Seq(Opening)]

(* What one symbol does to the state of the scanner.                       *)
LEMMA ScannedIs ==
  ASSUME NEW s \in ScanStates, NEW c
  PROVE  /\ Scanned(s, c) \in ScanStates
         /\ c # "escape" => ~ Scanned(s, c).escaped
         /\ ~ s.escaped /\ c \notin Syntax => Scanned(s, c) = s
         /\ ~ s.escaped /\ c = "quote" => Scanned(s, c) = [s EXCEPT !.string = ~ s.string]
         /\ ~ s.escaped /\ ~ s.string /\ s.stack # << >> /\ c = Closer[Last(s.stack)]
              => Scanned(s, c) = [s EXCEPT !.stack = Front(s.stack)]
<1> DEFINE matched == s.stack # << >> /\ Closer[Last(s.stack)] = c
<1>1. s.stack \in Seq(Opening) /\ s.escaped \in BOOLEAN /\ s.string \in BOOLEAN
  BY DEF ScanStates
<1>2. s.stack # << >> => Last(s.stack) \in Opening /\ Front(s.stack) \in Seq(Opening)
  <2> SUFFICES ASSUME s.stack # << >>
               PROVE  Last(s.stack) \in Opening /\ Front(s.stack) \in Seq(Opening)
    OBVIOUS
  <2> DEFINE st == s.stack
  <2>1. st \in Seq(Opening) /\ Len(st) \in Nat /\ Len(st) > 0
    BY <1>1
  <2> HIDE DEF st
  <2>2. st[Len(st)] \in Opening /\ SubSeq(st, 1, Len(st) - 1) \in Seq(Opening)
    BY <2>1
  <2> QED
    BY <2>2 DEF st, Last, Front
<1>3. matched => c \in {"}", "]"}
  BY <1>2 DEF Closer, Opening
<1>4. Scanned(s, c) = IF s.escaped THEN [s EXCEPT !.escaped = FALSE]
                      ELSE IF c = "escape" THEN [s EXCEPT !.escaped = TRUE]
                      ELSE IF c = "quote" THEN [s EXCEPT !.string = ~ s.string]
                      ELSE IF s.string THEN s
                      ELSE IF c \in Opening THEN [s EXCEPT !.stack = Append(s.stack, c)]
                      ELSE IF matched THEN [s EXCEPT !.stack = Front(s.stack)] ELSE s
  BY DEF Scanned
<1>5. c \in Opening => Append(s.stack, c) \in Seq(Opening)
  BY <1>1
<1>6. Scanned(s, c) \in ScanStates
  <2> HIDE DEF matched
  <2>1. matched => Front(s.stack) \in Seq(Opening)
    BY <1>2 DEF matched
  <2>2. ASSUME NEW st \in Seq(Opening) PROVE [s EXCEPT !.stack = st] \in ScanStates
    BY DEF ScanStates
  <2>3. ASSUME NEW b \in BOOLEAN
        PROVE  [s EXCEPT !.escaped = b] \in ScanStates /\ [s EXCEPT !.string = b] \in ScanStates
    BY DEF ScanStates
  <2> QED
    BY <1>1, <1>4, <1>5, <2>1, <2>2, <2>3
<1>7. c # "escape" => ~ Scanned(s, c).escaped
  <2> HIDE DEF matched
  <2>1. ASSUME NEW x PROVE /\ [s EXCEPT !.stack = x].escaped = s.escaped
                           /\ [s EXCEPT !.string = x].escaped = s.escaped
                           /\ [s EXCEPT !.escaped = x].escaped = x
    BY DEF ScanStates
  <2> QED
    BY <1>1, <1>4, <2>1
<1>8. ~ s.escaped /\ c \notin Syntax => Scanned(s, c) = s
  BY <1>3, <1>4 DEF Syntax
<1>9. c = "quote" => ~ matched /\ c \notin Opening /\ c # "escape"
  BY <1>3 DEF Opening
<1>10. ~ s.escaped /\ c = "quote" => Scanned(s, c) = [s EXCEPT !.string = ~ s.string]
  BY <1>4, <1>9
<1>11. matched => c # "quote" /\ c # "escape" /\ c \notin Opening
  BY <1>3 DEF Opening
<1> QED
  BY <1>4, <1>6, <1>7, <1>8, <1>10, <1>11

(* The states of the scanner, one symbol after the other.                  *)
Scanning(f, text, skipped) ==
  /\ f[0] = Unscanned
  /\ \A i \in 1 .. Len(text) :
       f[i] = IF i \in skipped THEN f[i - 1] ELSE Scanned(f[i - 1], text[i])

(* ScanPast goes through the text symbol by symbol.                        *)
LEMMA ScanStepsBySymbols ==
  ASSUME NEW S, NEW text \in Seq(S), NEW skipped
  PROVE  \E f \in [0 .. Len(text) -> ScanStates] :
           Scanning(f, text, skipped) /\ ScanPast(text, skipped) = f[Len(text)]
<1> DEFINE n == Len(text)
           base == Unscanned
           next(i, s) == IF i \in skipped THEN s ELSE Scanned(s, text[i])
           step == [pair \in (1 .. n) \X ScanStates |-> next(pair[1], pair[2])]
           IsScan(f) == f = [i \in 0 .. n |-> IF i = 0 THEN base ELSE next(i, f[i - 1])]
           upto == CHOOSE f : IsScan(f)
<1>1. n \in Nat /\ base \in ScanStates
  BY DEF ScanStates, Unscanned
<1>2. ScanPast(text, skipped) = upto[n]
  BY DEF ScanPast
<1>3. \A i \in 1 .. n, s \in ScanStates : next(i, s) \in ScanStates
  BY ScannedIs
<1> HIDE DEF n, base, next
<1>4. step \in [(1 .. n) \X ScanStates -> ScanStates]
      /\ \A i \in 1 .. n, s \in ScanStates : step[<<i, s>>] = next(i, s)
  BY <1>3
<1> HIDE DEF step
<1>5. PICK f \in [0 .. n -> ScanStates] : Steps(f, n, base, step)
  BY <1>1, <1>4, StepwiseFunction
<1>6. f[0] = base /\ \A i \in 1 .. n : f[i] = next(i, f[i - 1])
  <2>1. \A i \in 1 .. n : f[i - 1] \in ScanStates
    BY <1>1
  <2> QED
    BY <1>4, <1>5, <2>1 DEF Steps
<1>7. IsScan(f)
  <2>1. \A i \in 0 .. n : f[i] = IF i = 0 THEN base ELSE next(i, f[i - 1])
    BY <1>1, <1>6
  <2> QED
    BY <2>1
<1>8. IsScan(upto)
  <2> HIDE DEF IsScan
  <2> QED
    BY <1>7
<1>9. upto = [i \in 0 .. n |-> IF i = 0 THEN base ELSE next(i, upto[i - 1])]
  BY <1>8
<1> HIDE DEF upto, IsScan
<1> DEFINE P == {i \in 0 .. n : upto[i] = f[i]}
<1>10. ASSUME NEW i \in 0 .. n - 1, i \in P PROVE i + 1 \in P
  <2>1. i + 1 \in 1 .. n /\ (i + 1) - 1 = i /\ i + 1 \in 0 .. n /\ i + 1 # 0
    BY <1>1
  <2>2. upto[i + 1] = next(i + 1, upto[i]) /\ f[i + 1] = next(i + 1, f[i])
    BY <1>6, <1>9, <2>1
  <2> QED
    BY <1>10, <2>1, <2>2
<1>11. upto[n] = f[n]
  <2>1. 0 \in P
    BY <1>1, <1>6, <1>9
  <2> HIDE DEF P
  <2>2. 0 .. n \subseteq P
    BY <1>1, <1>10, <2>1, InductionOnSets
  <2> QED
    BY <1>1, <2>2 DEF P
<1>12. Scanning(f, text, skipped)
  BY <1>6 DEF Scanning, n, base, next
<1> QED
  BY <1>2, <1>11, <1>12 DEF n

(* Two ways to scan the same symbols end alike.                            *)
LEMMA ScanningIsUnique ==
  ASSUME NEW S, NEW text \in Seq(S), NEW skipped, NEW f, NEW g,
         Scanning(f, text, skipped), NEW m \in 0 .. Len(text),
         g[0] = Unscanned,
         \A i \in 1 .. m : g[i] = IF i \in skipped THEN g[i - 1] ELSE Scanned(g[i - 1], text[i])
  PROVE  \A i \in 0 .. m : f[i] = g[i]
<1> DEFINE P == {i \in 0 .. m : f[i] = g[i]}
<1>1. m \in Nat /\ \A i \in 1 .. m : i \in 1 .. Len(text)
  OBVIOUS
<1>2. 0 \in P
  BY <1>1 DEF Scanning
<1>3. ASSUME NEW i \in 0 .. m - 1, i \in P PROVE i + 1 \in P
  <2>1. i + 1 \in 1 .. m /\ (i + 1) - 1 = i /\ i + 1 \in 0 .. m
    BY <1>1
  <2>2. f[i + 1] = IF i + 1 \in skipped THEN f[i] ELSE Scanned(f[i], text[i + 1])
    BY <1>1, <2>1 DEF Scanning
  <2>3. g[i + 1] = IF i + 1 \in skipped THEN g[i] ELSE Scanned(g[i], text[i + 1])
    BY <2>1
  <2> QED
    BY <1>3, <2>1, <2>2, <2>3
<1> HIDE DEF P
<1>4. 0 .. m \subseteq P
  BY <1>1, <1>2, <1>3, InductionOnSets
<1> QED
  BY <1>4 DEF P

(* The state behind the first symbols of a text is that of a scan of them. *)
LEMMA ScanOfPart ==
  ASSUME NEW S, NEW text \in Seq(S), NEW f, Scanning(f, text, {}), NEW m \in 0 .. Len(text),
         NEW part \in Seq(S), Len(part) = m, \A i \in 1 .. m : part[i] = text[i]
  PROVE  Scan(part) = f[m]
<1>1. PICK g \in [0 .. m -> ScanStates] : Scanning(g, part, {}) /\ ScanPast(part, {}) = g[m]
  BY ScanStepsBySymbols
<1> DEFINE none == {}
<1>2. /\ g[0] = Unscanned /\ Scanning(f, text, none)
      /\ \A i \in 1 .. m : g[i] = IF i \in none THEN g[i - 1] ELSE Scanned(g[i - 1], text[i])
  BY <1>1 DEF Scanning
<1> HIDE DEF none
<1>3. \A i \in 0 .. m : f[i] = g[i]
  BY <1>2, ScanningIsUnique
<1>4. m \in 0 .. m
  OBVIOUS
<1> QED
  BY <1>1, <1>3, <1>4 DEF Scan

(* One symbol more.                                                        *)
LEMMA ScanOneMore ==
  ASSUME NEW S, NEW text \in Seq(S), NEW c \in S
  PROVE  /\ Scan(text) \in ScanStates
         /\ Scan(Append(text, c)) = Scanned(Scan(text), c)
         /\ Scan(<< >>) = Unscanned
<1> DEFINE more == Append(text, c)
           n == Len(text)
<1>1. /\ more \in Seq(S) /\ Len(more) = n + 1 /\ n \in Nat /\ more[n + 1] = c
      /\ \A i \in 1 .. n : more[i] = text[i]
  OBVIOUS
<1> HIDE DEF more
<1>2. PICK f \in [0 .. Len(more) -> ScanStates] :
        Scanning(f, more, {}) /\ ScanPast(more, {}) = f[Len(more)]
  BY <1>1, ScanStepsBySymbols
<1>3. Scan(text) = f[n]
  BY <1>1, <1>2, ScanOfPart
<1>4. n + 1 \in 1 .. Len(more) /\ (n + 1) - 1 = n /\ n \in 0 .. Len(more)
  BY <1>1
<1>5. f[n + 1] = Scanned(f[n], c)
  BY <1>1, <1>2, <1>4 DEF Scanning
<1>6. Scan(<< >>) = f[0]
  <2>1. << >> \in Seq(S) /\ Len(<< >>) = 0 /\ 0 \in 0 .. Len(more)
    BY <1>1
  <2> QED
    BY <1>1, <1>2, <2>1, ScanOfPart
<1>7. f[0] = Unscanned
  BY <1>2 DEF Scanning
<1> QED
  BY <1>1, <1>2, <1>3, <1>4, <1>5, <1>6, <1>7 DEF Scan, more

(* A text that is not empty ends in its last symbol.                       *)
LEMMA FrontAndLast ==
  ASSUME NEW S, NEW text \in Seq(S), text # << >>
  PROVE  Front(text) \in Seq(S) /\ Last(text) \in S /\ text = Append(Front(text), Last(text))
<1>1. Len(text) \in Nat /\ Len(text) > 0
  OBVIOUS
<1> QED
  BY <1>1 DEF Front, Last

(* The commas and colons that are tidied say nothing to the scanner.       *)
LEMMA TidyingKeepsScan ==
  ASSUME NEW S, "x" \in S, NEW text \in Seq(S), ~ Scan(text).escaped,
         text # << >> => ~ Scan(Front(text)).escaped
  PROVE  Tidied(text) \in Seq(S) /\ Scan(Tidied(text)) = Scan(text)
<1> DEFINE short == IF EndsIn(text, "comma") THEN Front(text) ELSE text
<1>1. "comma" \notin Syntax /\ "x" \notin Syntax
  BY DEF Syntax, Opening
<1>2. short \in Seq(S) /\ Scan(short) = Scan(text)
  <2>1. CASE EndsIn(text, "comma")
    <3>1. Front(text) \in Seq(S) /\ text = Append(Front(text), "comma") /\ "comma" \in S
          /\ short = Front(text) /\ text # << >>
      BY <2>1, FrontAndLast DEF EndsIn
    <3>2. Scan(Front(text)) \in ScanStates /\ ~ Scan(Front(text)).escaped
      BY <3>1, ScanOneMore
    <3>3. Scan(text) = Scanned(Scan(Front(text)), "comma")
      BY <3>1, ScanOneMore
    <3>4. Scanned(Scan(Front(text)), "comma") = Scan(Front(text))
      BY <1>1, <3>2, ScannedIs
    <3> QED
      BY <3>1, <3>3, <3>4
  <2> QED
    BY <2>1
<1>3. Scan(Append(short, "x")) = Scan(short)
  <2> HIDE DEF short
  <2>1. Scan(short) \in ScanStates /\ Scan(Append(short, "x")) = Scanned(Scan(short), "x")
    BY <1>2, ScanOneMore
  <2> QED
    BY <1>1, <1>2, <2>1, ScannedIs
<1>4. Append(short, "x") \in Seq(S)
  BY <1>2
<1>5. Tidied(text) = IF EndsIn(short, "colon") THEN Append(short, "x") ELSE short
  BY DEF Tidied
<1> HIDE DEF short
<1> QED
  BY <1>2, <1>3, <1>4, <1>5

(* The first symbols of a sequence.                                        *)
LEMMA FirstOnes ==
  ASSUME NEW S, NEW st \in Seq(S), NEW m \in 1 .. Len(st)
  PROVE  /\ SubSeq(st, 1, m) \in Seq(S) /\ SubSeq(st, 1, m) # << >>
         /\ Last(SubSeq(st, 1, m)) = st[m]
         /\ Front(SubSeq(st, 1, m)) = SubSeq(st, 1, m - 1)
<1> DEFINE now == SubSeq(st, 1, m)
<1>1. now \in Seq(S) /\ Len(now) = m /\ now[m] = st[m] /\ \A i \in 1 .. m : now[i] = st[i]
  OBVIOUS
<1>2. SubSeq(now, 1, m - 1) = SubSeq(st, 1, m - 1)
  <2>1. m - 1 \in 0 .. Len(st) /\ \A i \in 1 .. m - 1 : i \in 1 .. m
    OBVIOUS
  <2>2. SubSeq(now, 1, m - 1) = [i \in 1 .. m - 1 |-> now[i]]
    BY <1>1
  <2>3. SubSeq(st, 1, m - 1) = [i \in 1 .. m - 1 |-> st[i]]
    BY <2>1
  <2> QED
    BY <1>1, <2>1, <2>2, <2>3
<1> HIDE DEF now
<1>3. now # << >>
  BY <1>1
<1> QED
  BY <1>1, <1>2, <1>3 DEF Last, Front, now

(* What closes the open containers, one after the other.                   *)
LEMMA ClosersClose ==
  ASSUME NEW S, \A o \in Opening : Closer[o] \in S,
         NEW text \in Seq(S), ~ Scan(text).escaped, ~ Scan(text).string
  PROVE  /\ Closers(Scan(text).stack) \in Seq(S)
         /\ IsWholeText(text \o Closers(Scan(text).stack))
<1> DEFINE s == Scan(text)
           st == s.stack
           n == Len(st)
           cl == Closers(st)
           upto(j) == text \o SubSeq(cl, 1, j)
<1>1. s \in ScanStates /\ ~ s.escaped /\ ~ s.string
  BY ScanOneMore
<1>2. st \in Seq(Opening) /\ n \in Nat
  BY <1>1 DEF ScanStates
<1>3. cl \in Seq(S) /\ Len(cl) = n /\ \A j \in 1 .. n : cl[j] = Closer[st[n - j + 1]]
  <2> DEFINE map == [i \in DOMAIN st |-> Closer[st[i]]]
  <2> HIDE DEF s
  <2> HIDE DEF st
  <2>1. \A i \in 1 .. n : Closer[st[i]] \in S
    BY <1>2
  <2>2. map \in Seq(S) /\ Len(map) = n /\ \A i \in 1 .. n : map[i] = Closer[st[i]]
    BY <1>2, <2>1
  <2>3. cl = [i \in 1 .. Len(map) |-> map[(Len(map) - i) + 1]]
    BY DEF Closers, Reverse
  <2> HIDE DEF map, cl
  <2>4. \A j \in 1 .. n : n - j + 1 \in 1 .. n
    BY <1>2
  <2>5. cl = [i \in 1 .. n |-> Closer[st[n - i + 1]]]
    BY <2>2, <2>3, <2>4
  <2> QED
    BY <1>2, <2>1, <2>4, <2>5
<1> HIDE DEF cl, n
<1>4. \A j \in 0 .. n : SubSeq(cl, 1, j) \in Seq(S) /\ Len(SubSeq(cl, 1, j)) = j
  BY <1>2, <1>3
<1> DEFINE left(j) == [s EXCEPT !.stack = SubSeq(st, 1, n - j)]
           P == {j \in 0 .. n : Scan(upto(j)) = left(j)}
<1>5. 0 \in P
  <2>1. upto(0) = text
    BY <1>3
  <2>2. SubSeq(st, 1, n - 0) = st
    BY <1>2 DEF n
  <2>3. left(0) = s
    BY <1>1, <2>2 DEF ScanStates
  <2>4. 0 \in 0 .. n
    BY <1>2
  <2> HIDE DEF left
  <2> QED
    BY <2>1, <2>3, <2>4
<1>6. ASSUME NEW j \in 0 .. n - 1, j \in P PROVE j + 1 \in P
  <2> DEFINE now == SubSeq(st, 1, n - j)
             c == Closer[st[n - j]]
  <2>1. j \in 0 .. n /\ j + 1 \in 1 .. n /\ n - (j + 1) + 1 = n - j /\ n - j \in 1 .. n
        /\ (n - j) - 1 = n - (j + 1)
    BY <1>2
  <2>2. now \in Seq(Opening) /\ now # << >>
        /\ Last(now) = st[n - j] /\ Front(now) = SubSeq(st, 1, (n - j) - 1)
    <3>1. st \in Seq(Opening) /\ n - j \in 1 .. Len(st)
      BY <1>2, <2>1 DEF n
    <3> HIDE DEF st
    <3> QED
      BY <3>1, FirstOnes
  <2>3. Front(now) = SubSeq(st, 1, n - (j + 1))
    BY <2>1, <2>2
  <2>4. c \in S /\ upto(j) \in Seq(S) /\ upto(j + 1) = Append(upto(j), c)
    <3>1. cl[j + 1] = c /\ cl[j + 1] \in S
      BY <1>3, <2>1
    <3>2. SubSeq(cl, 1, j + 1) = Append(SubSeq(cl, 1, j), c)
      BY <1>3, <2>1, <3>1
    <3> DEFINE a == SubSeq(cl, 1, j)
    <3>3. a \in Seq(S)
      BY <1>4, <2>1
    <3> HIDE DEF a, c
    <3>4. text \o Append(a, c) = Append(text \o a, c) /\ text \o a \in Seq(S)
      BY <3>3
    <3> QED
      BY <3>1, <3>2, <3>4 DEF a
  <2>5. Scan(upto(j)) = left(j) /\ left(j) \in ScanStates
    BY <1>1, <1>6, <2>2 DEF ScanStates
  <2>6. /\ ~ left(j).escaped /\ ~ left(j).string /\ left(j).stack = now
        /\ [left(j) EXCEPT !.stack = Front(now)] = left(j + 1)
    BY <1>1, <2>2, <2>3 DEF ScanStates
  <2>7. Scanned(left(j), c) = left(j + 1)
    <3> HIDE DEF left, now
    <3> QED
      BY <2>2, <2>3, <2>5, <2>6, ScannedIs
  <2>8. Scan(upto(j + 1)) = Scanned(Scan(upto(j)), c)
    <3> HIDE DEF upto, c
    <3> QED
      BY <2>4, ScanOneMore
  <2> QED
    BY <2>1, <2>5, <2>7, <2>8
<1>7. n \in P
  <2> HIDE DEF P
  <2>1. 0 .. n \subseteq P
    BY <1>2, <1>5, <1>6, InductionOnSets
  <2> QED
    BY <1>2, <2>1
<1>8. upto(n) = text \o cl
  <2>1. SubSeq(cl, 1, n) = cl
    BY <1>2, <1>3
  <2> QED
    BY <2>1
<1>9. left(n) = Unscanned
  <2>1. SubSeq(st, 1, n - n) = << >>
    BY <1>2
  <2>2. s = [escaped |-> FALSE, string |-> FALSE, stack |-> st]
    BY <1>1 DEF ScanStates
  <2>3. left(n) = [s EXCEPT !.stack = << >>]
    BY <2>1
  <2> HIDE DEF s, left
  <2> HIDE DEF st
  <2> QED
    BY <2>2, <2>3 DEF Unscanned
<1> QED
  BY <1>3, <1>7, <1>8, <1>9 DEF IsWholeText, cl

(* What closes a string that is open.                                      *)
LEMMA QuoteCloses ==
  ASSUME NEW S, "quote" \in S, NEW text \in Seq(S), ~ Scan(text).escaped
  PROVE  LET q == text \o ClosingQuote(Scan(text))
         IN /\ ClosingQuote(Scan(text)) \in Seq(S) /\ q \in Seq(S)
            /\ ~ Scan(q).escaped /\ ~ Scan(q).string /\ Scan(q).stack = Scan(text).stack
            /\ q # text => Front(q) = text
<1> DEFINE s == Scan(text) q == text \o ClosingQuote(s)
<1>1. s \in ScanStates /\ ~ s.escaped
  BY ScanOneMore
<1>2. CASE s.string
  <2>1. ClosingQuote(s) = <<"quote">> /\ q = Append(text, "quote")
    BY <1>2 DEF ClosingQuote
  <2>2. Scan(Append(text, "quote")) = Scanned(s, "quote")
    BY ScanOneMore
  <2>3. Scanned(s, "quote") = [s EXCEPT !.string = ~ s.string]
    BY <1>1, ScannedIs
  <2>4. LET t == Scanned(s, "quote") IN ~ t.escaped /\ ~ t.string /\ t.stack = s.stack
    BY <1>1, <1>2, <2>3 DEF ScanStates
  <2>5. <<"quote">> \in Seq(S) /\ Append(text, "quote") \in Seq(S)
        /\ Front(Append(text, "quote")) = text
    BY DEF Front
  <2> HIDE DEF s, q
  <2>6. Scan(q) = Scanned(s, "quote")
    BY <2>1, <2>2
  <2> QED
    BY <2>1, <2>4, <2>5, <2>6 DEF s, q
<1>3. CASE ~ s.string
  <2>1. ClosingQuote(s) = << >> /\ q = text
    BY <1>3 DEF ClosingQuote
  <2>2. << >> \in Seq(S)
    OBVIOUS
  <2> HIDE DEF q
  <2> QED
    BY <1>1, <1>3, <2>1, <2>2 DEF q
<1> QED
  BY <1>2, <1>3

(* A symbol that is skipped is none that the scanner reads.                *)
LEMMA SkippedIsPlain ==
  ASSUME NEW S, NEW text \in Seq(S), NEW i \in Skipped(text)
  PROVE  i \in 1 .. Len(text) /\ text[i] \notin Syntax
<1> DEFINE w == BlockWidth k == (i - 1) \div w first == k * w + 1
<1>1. w \in Nat \ {0} /\ i \in 1 .. Len(text)
  BY JsonAssumption DEF Skipped
<1>2. \A j \in first .. first + w - 1 : text[j] \notin Syntax
  BY DEF Skipped
<1> HIDE DEF w
<1>3. k \in Int /\ k * w <= i - 1 /\ i - 1 < k * w + w
  BY <1>1
<1>4. k * w \in Int
  BY <1>1, <1>3
<1> HIDE DEF k
<1>5. i \in first .. first + w - 1
  BY <1>1, <1>3, <1>4
<1> QED
  BY <1>1, <1>2, <1>5

(* Skipping blocks changes nothing, unless an escape is left pending.      *)
LEMMA SkippingKeepsScan ==
  ASSUME NEW S, NEW text \in Seq(S),
         \A i \in Skipped(text) : ~ Scan(SubSeq(text, 1, i - 1)).escaped
  PROVE  BlockScan(text) = Scan(text)
<1> DEFINE n == Len(text) none == {} skipped == Skipped(text)
<1>1. n \in Nat
  OBVIOUS
<1>2. PICK f \in [0 .. n -> ScanStates] : Scanning(f, text, none) /\ ScanPast(text, none) = f[n]
  BY ScanStepsBySymbols
<1>3. PICK g \in [0 .. n -> ScanStates] :
        Scanning(g, text, skipped) /\ ScanPast(text, skipped) = g[n]
  BY ScanStepsBySymbols
<1>4. f[0] = Unscanned /\ \A i \in 1 .. n : f[i] = Scanned(f[i - 1], text[i])
  BY <1>2 DEF Scanning
<1>5. ASSUME NEW i \in 1 .. n, i \in skipped PROVE f[i] = f[i - 1]
  <2> DEFINE part == SubSeq(text, 1, i - 1)
  <2>1. part \in Seq(S) /\ Len(part) = i - 1 /\ i - 1 \in 0 .. n
        /\ \A j \in 1 .. i - 1 : part[j] = text[j]
    OBVIOUS
  <2>2. ~ Scan(part).escaped
    BY <1>5
  <2> HIDE DEF part
  <2>3. Scan(part) = f[i - 1]
    BY <1>2, <2>1, ScanOfPart
  <2>4. text[i] \notin Syntax
    BY <1>5, SkippedIsPlain
  <2>5. f[i - 1] \in ScanStates
    BY <2>1
  <2> QED
    BY <1>4, <2>2, <2>3, <2>4, <2>5, ScannedIs
<1>6. \A i \in 1 .. n : f[i] = IF i \in skipped THEN f[i - 1] ELSE Scanned(f[i - 1], text[i])
  BY <1>4, <1>5
<1>7. n \in 0 .. n
  BY <1>1
<1>8. \A i \in 0 .. n : g[i] = f[i]
  <2>1. Scanning(g, text, skipped) /\ n \in 0 .. Len(text) /\ f[0] = Unscanned
    BY <1>3, <1>4, <1>7
  <2>2. \A i \in 1 .. n : f[i] = IF i \in skipped THEN f[i - 1] ELSE Scanned(f[i - 1], text[i])
    BY <1>6
  <2> HIDE DEF skipped, n
  <2> QED
    BY <2>1, <2>2, ScanningIsUnique
<1> QED
  BY <1>2, <1>3, <1>7, <1>8 DEF Scan, BlockScan

(* A pair is two lists of one element joined.                              *)
LEMMA PairJoins ==
  ASSUME NEW a, NEW b
  PROVE  <<a>> \o <<b>> = <<a, b>>
<1> DEFINE S == {a, b} s == <<a>> t == <<b>> u == <<a, b>> st == s \o t
<1>1. s \in Seq(S) /\ Len(s) = 1 /\ s[1] = a /\ t \in Seq(S) /\ Len(t) = 1 /\ t[1] = b
  OBVIOUS
<1>2. u \in Seq(S) /\ Len(u) = 2 /\ u[1] = a /\ u[2] = b
  OBVIOUS
<1> HIDE DEF S, s, t, u
<1>3. /\ st \in Seq(S) /\ Len(st) = Len(s) + Len(t)
      /\ (\A i \in 1 .. Len(s) : st[i] = s[i]) /\ \A j \in 1 .. Len(t) : st[Len(s) + j] = t[j]
  <2>1. s \in Seq(S) /\ t \in Seq(S)
    BY <1>1
  <2> QED
    BY <2>1, JoinedElements
<1> HIDE DEF st
<1>4. Len(st) = 2 /\ st[1] = a /\ st[1 + 1] = b
  BY <1>1, <1>3
<1>5. \A i \in 1 .. 2 : st[i] = u[i]
  BY <1>2, <1>4
<1>6. st = u
  BY <1>2, <1>3, <1>4, <1>5
<1> QED
  BY <1>6 DEF st, s, t, u

(* The symbols of texts and of what is put behind them.                    *)
TextSymbols == JsonSymbols \cup {Closer[o] : o \in Opening} \cup Opening \cup {"quote", "x"}

(* Neither repair leaves a text open that does not end in the middle of an *)
(* escape.                                                                 *)
LEMMA BothRepairsClose ==
  ASSUME NEW text \in Seq(JsonSymbols), ~ Scan(text).escaped,
         text # << >> => ~ Scan(Front(text)).escaped
  PROVE  /\ IsWholeText(RepairedInPython(text))
         /\ BlockScan(text) = Scan(text) => IsWholeText(RepairedNatively(text))
<1> DEFINE S == TextSymbols
           s == Scan(text)
           quote == ClosingQuote(s)
           closers == Closers(s.stack)
           q == text \o quote
<1>1. text \in Seq(S) /\ "quote" \in S /\ "x" \in S /\ \A o \in Opening : Closer[o] \in S /\ o \in S
  <2>1. JsonSymbols \subseteq S
    BY DEF TextSymbols
  <2>2. text \in Seq(S)
    BY <2>1
  <2> QED
    BY <2>2 DEF TextSymbols
<1> HIDE DEF S
<1>2. /\ quote \in Seq(S) /\ q \in Seq(S) /\ ~ Scan(q).escaped /\ ~ Scan(q).string
      /\ Scan(q).stack = s.stack /\ (q # text => Front(q) = text)
  BY <1>1, QuoteCloses
<1>3. ASSUME text # << >> PROVE IsWholeText(RepairedInPython(text))
  <2>1. q # << >> => ~ Scan(Front(q)).escaped
    BY <1>2
  <2>2. Tidied(q) \in Seq(S) /\ Scan(Tidied(q)) = Scan(q)
    <3> HIDE DEF q
    <3> QED
      BY <1>1, <1>2, <2>1, TidyingKeepsScan
  <2>3. IsWholeText(Tidied(q) \o Closers(Scan(Tidied(q)).stack))
    BY <1>1, <1>2, <2>2, ClosersClose
  <2> QED
    BY <1>2, <1>3, <2>2, <2>3 DEF RepairedInPython
<1>4. ASSUME text = << >> PROVE IsWholeText(RepairedInPython(text))
  <2> DEFINE o == "{" c == "}" one == Append(<< >>, o)
  <2>1. o \in Opening /\ c = Closer[o] /\ o \notin {"quote", "escape"}
    BY DEF Opening, Closer
  <2>2. RepairedInPython(text) = <<o, c>>
    BY <1>4 DEF RepairedInPython
  <2> HIDE DEF o, c
  <2>3. Scan(<< >>) = Unscanned /\ Scan(one) = Scanned(Unscanned, o)
    <3>1. << >> \in Seq(S) /\ o \in S
      BY <1>1, <2>1
    <3> QED
      BY <3>1, ScanOneMore
  <2>4. LET t == Scanned(Unscanned, o) IN ~ t.escaped /\ ~ t.string /\ t.stack = <<o>>
    <3>0. Append(<< >>, o) = <<o>>
      OBVIOUS
    <3>1. /\ ~ Unscanned.escaped /\ ~ Unscanned.string /\ Unscanned.stack = << >>
      BY DEF Unscanned
    <3> DEFINE new == Append(<< >>, o)
    <3> HIDE DEF new
    <3>4. ASSUME NEW u \in ScanStates
          PROVE  LET t == [u EXCEPT !.stack = new]
                 IN t.escaped = u.escaped /\ t.string = u.string /\ t.stack = new
      BY DEF ScanStates
    <3>5. Unscanned \in ScanStates
      BY DEF ScanStates, Unscanned
    <3>2. o # "escape" /\ o # "quote" /\ o \in Opening
      BY <2>1
    <3>3. Scanned(Unscanned, o) = [Unscanned EXCEPT !.stack = Append(Unscanned.stack, o)]
      BY <3>1, <3>2 DEF Scanned
    <3> QED
      BY <3>0, <3>1, <3>3, <3>4, <3>5 DEF new
  <2>5. one \in Seq(S)
    BY <1>1, <2>1
  <2>6. ~ Scan(one).escaped /\ ~ Scan(one).string /\ Scan(one).stack = <<o>>
    BY <2>3, <2>4
  <2>7. IsWholeText(one \o Closers(<<o>>))
    BY <1>1, <2>5, <2>6, ClosersClose
  <2>8. Closers(<<o>>) = <<c>>
    <3> DEFINE map == [i \in DOMAIN <<o>> |-> Closer[(<<o>>)[i]]]
    <3>1. map = <<c>>
      BY <2>1
    <3> HIDE DEF map
    <3> QED
      BY <3>1 DEF Closers, Reverse, map
  <2>9. one \o <<c>> = <<o, c>>
    <3>1. one = <<o>>
      OBVIOUS
    <3>2. <<o>> \o <<c>> = <<o, c>>
      BY PairJoins
    <3> QED
      BY <3>1, <3>2
  <2> QED
    BY <2>2, <2>7, <2>8, <2>9
<1>5. ASSUME BlockScan(text) = s, quote \o closers # << >>
      PROVE  IsWholeText(RepairedNatively(text))
  <2>1. Tidied(text) \in Seq(S) /\ Scan(Tidied(text)) = s
    BY <1>1, TidyingKeepsScan
  <2> DEFINE t == Tidied(text) r == t \o quote
  <2>2. r \in Seq(S) /\ ~ Scan(r).escaped /\ ~ Scan(r).string /\ Scan(r).stack = s.stack
    <3> HIDE DEF t
    <3> QED
      BY <1>1, <2>1, QuoteCloses DEF t
  <2>3. closers \in Seq(S) /\ IsWholeText(r \o closers)
    BY <1>1, <2>2, ClosersClose
  <2>4. r \o closers = t \o (quote \o closers)
    <3> HIDE DEF t, closers, quote
    <3> QED
      BY <1>2, <2>1, <2>3, ConcatAssociative DEF t
  <2>5. RepairedNatively(text) = t \o (quote \o closers)
    BY <1>5 DEF RepairedNatively
  <2> QED
    BY <2>3, <2>4, <2>5
<1>6. ASSUME BlockScan(text) = s, quote \o closers = << >>
      PROVE  RepairedNatively(text) = RepairedInPython(text)
  BY <1>6 DEF RepairedNatively
<1> QED
  BY <1>3, <1>4, <1>5, <1>6

(* A cut JSON text is closed in both builds.                               *)
THEOREM RepairsClose ==
  JsonSpec => []RepairCloses
<1> DEFINE Inv == jsonText \in Seq(JsonSymbols)
<1>1. JsonInit => Inv
  BY DEF JsonInit
<1>2. Inv /\ [JsonNext]_jsonText => Inv'
  BY DEF JsonNext, EmitSymbol
<1>3. Inv => RepairCloses
  <2> SUFFICES ASSUME Inv, ~ EndsEscaped
               PROVE  /\ IsWholeText(RepairedInPython(jsonText))
                      /\ ~ SkipsEscaped => IsWholeText(RepairedNatively(jsonText))
    BY DEF RepairCloses
  <2>1. /\ ~ Scan(jsonText).escaped
        /\ jsonText # << >> => ~ Scan(Front(jsonText)).escaped
    <3>1. CASE jsonText = << >>
      <4>1. Scan(<< >>) = Unscanned
        <5> DEFINE S == {0}
        <5>1. << >> \in Seq(S) /\ 0 \in S
          OBVIOUS
        <5> HIDE DEF S
        <5> QED
          BY <5>1, ScanOneMore
      <4> QED
        BY <3>1, <4>1 DEF Unscanned
    <3> QED
      BY <3>1 DEF EndsEscaped
  <2>2. ~ SkipsEscaped => BlockScan(jsonText) = Scan(jsonText)
    BY SkippingKeepsScan DEF SkipsEscaped
  <2> QED
    BY <2>1, <2>2, BothRepairsClose
<1> QED
  BY <1>1, <1>2, <1>3, PTL DEF JsonSpec

-----------------------------------------------------------------------------
(* ReasoningFilter.                                                        *)

(* Two lists with the same elements are one.                               *)
LEMMA SameElements ==
  ASSUME NEW S, NEW a \in Seq(S), NEW b \in Seq(S), Len(a) = Len(b),
         \A i \in 1 .. Len(a) : a[i] = b[i]
  PROVE  a = b
OBVIOUS

(* It does not matter in which order three texts are joined.               *)
LEMMA JoiningIsAssociative ==
  ASSUME NEW a \in Seq(Int), NEW b \in Seq(Int), NEW c \in Seq(Int)
  PROVE  (a \o b) \o c = a \o (b \o c)
OBVIOUS

(* The words of two texts are those of the first and those of the second.  *)
LEMMA JoinedWords ==
  ASSUME NEW a \in Seq(Int), NEW b \in Seq(Int)
  PROVE  Words(a \o b) = Words(a) \cup Words(b)
<1>1. \A s \in Seq(Int) : Words(s) = {x \in Items(s) : x > 0}
  BY DEF Words, Items
<1>2. a \o b \in Seq(Int) /\ Items(a \o b) = Items(a) \cup Items(b)
  BY JoinItems
<1> QED
  BY <1>1, <1>2

(* Two texts in order, every word of the one before those of the other,    *)
(* are in order.                                                           *)
LEMMA JoinedInOrder ==
  ASSUME NEW a \in Seq(Int), NEW b \in Seq(Int), InOrder(a), InOrder(b),
         \A x \in Words(a), y \in Words(b) : x < y
  PROVE  InOrder(a \o b)
<1> DEFINE both == a \o b
<1>1. /\ both \in Seq(Int)
      /\ Len(both) = Len(a) + Len(b) /\ Len(a) \in Nat /\ Len(b) \in Nat
      /\ \A i \in 1 .. Len(a) : both[i] = a[i]
      /\ \A j \in 1 .. Len(b) : both[Len(a) + j] = b[j]
  BY JoinedElements
<1> HIDE DEF both
<1>2. ASSUME NEW i \in DOMAIN both, NEW j \in DOMAIN both, i < j, both[i] > 0, both[j] > 0
      PROVE  both[i] < both[j]
  <2>1. i \in 1 .. Len(both) /\ j \in 1 .. Len(both)
    BY <1>1
  <2>0. Len(a) \in Nat /\ Len(b) \in Nat /\ Len(both) = Len(a) + Len(b)
    BY <1>1
  <2>2. CASE j \in 1 .. Len(a)
    <3>0. i \in 1 .. Len(a)
      BY <1>2, <2>0, <2>1, <2>2
    <3>1. i \in DOMAIN a /\ j \in DOMAIN a /\ both[i] = a[i] /\ both[j] = a[j]
      BY <1>1, <2>2, <3>0
    <3> QED
      BY <1>2, <3>1 DEF InOrder
  <2>3. CASE i \notin 1 .. Len(a)
    <3>1. /\ i - Len(a) \in 1 .. Len(b) /\ j - Len(a) \in 1 .. Len(b)
          /\ Len(a) + (i - Len(a)) = i /\ Len(a) + (j - Len(a)) = j
          /\ i - Len(a) < j - Len(a)
      BY <1>1, <1>2, <2>1, <2>3
    <3>2. both[i] = b[i - Len(a)] /\ both[j] = b[j - Len(a)]
      BY <1>1, <3>1
    <3> QED
      BY <1>2, <3>1, <3>2 DEF InOrder
  <2>4. CASE i \in 1 .. Len(a) /\ j \notin 1 .. Len(a)
    <3>1. j - Len(a) \in 1 .. Len(b) /\ Len(a) + (j - Len(a)) = j
      BY <2>0, <2>1, <2>4
    <3>2. both[i] = a[i] /\ both[j] = b[j - Len(a)]
      BY <1>1, <2>4, <3>1
    <3>3. a[i] \in Words(a)
      BY <1>2, <2>4, <3>2 DEF Words
    <3>4. b[j - Len(a)] \in Words(b)
      BY <1>2, <3>1, <3>2 DEF Words
    <3> QED
      BY <3>2, <3>3, <3>4
  <2> QED
    BY <2>2, <2>3, <2>4
<1> QED
  BY <1>2 DEF InOrder, both

-----------------------------------------------------------------------------
(* A tag and what stands before and behind it.                             *)

(* At is the first place of a tag.                                         *)
LEMMA FirstTag ==
  ASSUME NEW text \in Seq(Int), NEW tag, Has(text, tag)
  PROVE  /\ At(text, tag) \in 1 .. Len(text) /\ text[At(text, tag)] = tag
         /\ \A j \in 1 .. At(text, tag) - 1 : text[j] # tag
<1> DEFINE T == {i \in DOMAIN text : text[i] = tag}
<1>1. T \in SUBSET Nat /\ T # {}
  BY DEF Has
<1>2. PICK p \in T : \A y \in T : p <= y
  BY <1>1, LeastNatural
<1>3. \A j \in 1 .. p - 1 : text[j] # tag
  <2> SUFFICES ASSUME NEW j \in 1 .. p - 1, text[j] = tag PROVE FALSE
    OBVIOUS
  <2>1. p \in 1 .. Len(text) /\ Len(text) \in Nat
    OBVIOUS
  <2>2. j \in T
    BY <2>1
  <2> QED
    BY <1>2, <2>1, <2>2
<1>4. \E i \in DOMAIN text : text[i] = tag /\ \A j \in 1 .. i - 1 : text[j] # tag
  BY <1>3
<1>5. /\ At(text, tag) \in DOMAIN text /\ text[At(text, tag)] = tag
      /\ \A j \in 1 .. At(text, tag) - 1 : text[j] # tag
  BY <1>4 DEF At
<1> QED
  BY <1>5

(* There is only one first tag.                                            *)
LEMMA OneFirstTag ==
  ASSUME NEW text \in Seq(Int), NEW tag, NEW p \in 1 .. Len(text), text[p] = tag,
         \A j \in 1 .. p - 1 : text[j] # tag
  PROVE  Has(text, tag) /\ At(text, tag) = p
<1>1. Has(text, tag)
  BY DEF Has
<1> DEFINE q == At(text, tag)
<1>2. q \in 1 .. Len(text) /\ text[q] = tag /\ \A j \in 1 .. q - 1 : text[j] # tag
  BY <1>1, FirstTag
<1> HIDE DEF q
<1>3. ~(q < p) /\ ~(p < q)
  <2>1. q < p => q \in 1 .. p - 1
    BY <1>2
  <2>2. p < q => p \in 1 .. q - 1
    BY <1>2
  <2> QED
    BY <1>2, <2>1, <2>2
<1>4. p = q
  BY <1>2, <1>3
<1> QED
  BY <1>1, <1>4 DEF q

(* What stands before a tag and what stands behind it.                     *)
LEMMA AroundTag ==
  ASSUME NEW text \in Seq(Int), NEW tag, Has(text, tag), NEW p, p = At(text, tag)
  PROVE  /\ UpTo(text, tag) \in Seq(Int) /\ Len(UpTo(text, tag)) = p - 1
         /\ \A i \in 1 .. p - 1 : UpTo(text, tag)[i] = text[i]
         /\ Beyond(text, tag) \in Seq(Int) /\ Len(Beyond(text, tag)) = Len(text) - p
         /\ \A i \in 1 .. Len(text) - p : Beyond(text, tag)[i] = text[p + i]
<1>1. p \in 1 .. Len(text) /\ Len(text) \in Nat
  BY FirstTag
<1>2. UpTo(text, tag) = SubSeq(text, 1, p - 1) /\ Beyond(text, tag) = SubSeq(text, p + 1, Len(text))
  BY DEF UpTo, Beyond
<1>3. /\ SubSeq(text, 1, p - 1) \in Seq(Int) /\ Len(SubSeq(text, 1, p - 1)) = p - 1
      /\ \A i \in 1 .. p - 1 : SubSeq(text, 1, p - 1)[i] = text[i]
  BY <1>1
<1>4. /\ SubSeq(text, p + 1, Len(text)) \in Seq(Int)
      /\ Len(SubSeq(text, p + 1, Len(text))) = Len(text) - p
  BY <1>1
<1>5. ASSUME NEW i \in 1 .. Len(text) - p
      PROVE  SubSeq(text, p + 1, Len(text))[i] = text[p + i]
  BY <1>1
<1> QED
  BY <1>2, <1>3, <1>4, <1>5

(* The n-th word of a stream is n: what a token holds behind n pieces.     *)
Spells(token, n) ==
  /\ token \in Seq(Int)
  /\ \A i \in DOMAIN token : token[i] > 0 => token[i] = n + i

(* A new token has its words in order, and all of them are new.            *)
LEMMA SpelledWords ==
  ASSUME NEW token, NEW n \in Nat, Spells(token, n)
  PROVE  InOrder(token) /\ \A x \in Words(token) : x > n
BY DEF Spells, InOrder, Words

(* What stands before and behind a tag of such a token.                    *)
LEMMA SpelledAroundTag ==
  ASSUME NEW token, NEW n \in Nat, Spells(token, n), NEW tag, Has(token, tag),
         NEW p, p = At(token, tag)
  PROVE  /\ InOrder(UpTo(token, tag)) /\ InOrder(Beyond(token, tag))
         /\ Words(UpTo(token, tag)) = {token[i] : i \in {j \in DOMAIN token : token[j] > 0 /\ j < p}}
         /\ Words(Beyond(token, tag)) = {token[i] : i \in {j \in DOMAIN token : token[j] > 0 /\ p < j}}
<1> DEFINE before == UpTo(token, tag) behind == Beyond(token, tag)
<1>1. token \in Seq(Int) /\ \A i \in 1 .. Len(token) : token[i] > 0 => token[i] = n + i
  BY DEF Spells
<1>2. p \in 1 .. Len(token) /\ Len(token) \in Nat
  BY <1>1, FirstTag
<1>3. /\ before \in Seq(Int) /\ Len(before) = p - 1
      /\ \A i \in 1 .. p - 1 : before[i] = token[i]
      /\ behind \in Seq(Int) /\ Len(behind) = Len(token) - p
      /\ \A i \in 1 .. Len(token) - p : behind[i] = token[p + i]
  BY <1>1, AroundTag
<1> HIDE DEF before, behind
<1>4. DOMAIN before = 1 .. p - 1 /\ DOMAIN behind = 1 .. Len(token) - p
  BY <1>2, <1>3
<1>5. InOrder(before)
  <2> SUFFICES ASSUME NEW i \in DOMAIN before, NEW j \in DOMAIN before,
                      i < j, before[i] > 0, before[j] > 0
               PROVE  before[i] < before[j]
    BY DEF InOrder
  <2>1. i \in 1 .. Len(token) /\ j \in 1 .. Len(token)
    BY <1>2, <1>4
  <2>2. before[i] = token[i] /\ before[j] = token[j]
    BY <1>3, <1>4
  <2>3. before[i] = n + i /\ before[j] = n + j
    BY <1>1, <2>1, <2>2
  <2> QED
    BY <1>4, <2>3
<1>6. InOrder(behind)
  <2> SUFFICES ASSUME NEW i \in DOMAIN behind, NEW j \in DOMAIN behind,
                      i < j, behind[i] > 0, behind[j] > 0
               PROVE  behind[i] < behind[j]
    BY DEF InOrder
  <2>1. p + i \in 1 .. Len(token) /\ p + j \in 1 .. Len(token)
    BY <1>2, <1>4
  <2>2. behind[i] = token[p + i] /\ behind[j] = token[p + j]
    BY <1>3, <1>4
  <2>3. behind[i] = n + (p + i) /\ behind[j] = n + (p + j)
    BY <1>1, <2>1, <2>2
  <2> QED
    BY <1>2, <1>4, <2>3
<1>7. Words(before) = {token[i] : i \in {j \in DOMAIN token : token[j] > 0 /\ j < p}}
  <2>1. \A j : j \in 1 .. p - 1 <=> j \in DOMAIN token /\ j < p
    BY <1>1, <1>2
  <2> QED
    BY <1>3, <1>4, <2>1 DEF Words
<1>8. Words(behind) = {token[i] : i \in {j \in DOMAIN token : token[j] > 0 /\ p < j}}
  <2>1. \A i \in 1 .. Len(token) - p : p + i \in DOMAIN token /\ p < p + i
    BY <1>1, <1>2
  <2>2. \A j \in DOMAIN token : p < j => j - p \in 1 .. Len(token) - p /\ p + (j - p) = j
    BY <1>1, <1>2
  <2>3. Words(behind) \subseteq {token[i] : i \in {j \in DOMAIN token : token[j] > 0 /\ p < j}}
    BY <1>3, <1>4, <2>1 DEF Words
  <2>4. ASSUME NEW j \in DOMAIN token, token[j] > 0, p < j PROVE token[j] \in Words(behind)
    <3>1. j - p \in DOMAIN behind /\ behind[j - p] = token[j]
      BY <1>3, <1>4, <2>2, <2>4
    <3> QED
      BY <2>4, <3>1 DEF Words
  <2> QED
    BY <2>3, <2>4
<1> QED
  BY <1>5, <1>6, <1>7, <1>8 DEF before, behind

-----------------------------------------------------------------------------
(* The invariant: a block is entered exactly where the text has opened one *)
(* and has not closed it, and what is held back is the start of that block.*)
ReasoningInv ==
  /\ fedText \in Seq(Int) /\ heldText \in Seq(Int)
  /\ reasoningOut \in Seq(Int) /\ contentOut \in Seq(Int) /\ inThinking \in BOOLEAN
  /\ \A i \in DOMAIN fedText : fedText[i] > 0 => fedText[i] = i
  /\ inThinking <=> Within(fedText, Len(fedText) + 1)
  /\ ~inThinking => heldText = <<>>
  /\ ~Has(heldText, CloseTag)
  /\ WordsKeepTheirSide

(* Being within a block, before and behind the start of a token.           *)
LEMMA WithinJoined ==
  ASSUME NEW a \in Seq(Int), NEW b \in Seq(Int)
  PROVE  /\ \A i \in 1 .. Len(a) + 1 : Within(a \o b, i) <=> Within(a, i)
         /\ \A k \in 1 .. Len(b) + 1 :
              Within(a \o b, Len(a) + k) <=>
                \/ Within(a, Len(a) + 1) /\ \A c \in 1 .. k - 1 : b[c] # CloseTag
                \/ Within(b, k)
<1> DEFINE both == a \o b
           n == Len(a)
<1>1. /\ \A i \in 1 .. n : both[i] = a[i]
      /\ \A j \in 1 .. Len(b) : both[n + j] = b[j]
      /\ n \in Nat /\ Len(b) \in Nat
  BY JoinedElements
<1> HIDE DEF both, n
<1>0. n \in Nat /\ Len(b) \in Nat
  BY <1>1
<1>2. ASSUME NEW i \in 1 .. n + 1 PROVE Within(both, i) <=> Within(a, i)
  <2>0. \A c \in 1 .. i - 1 : c \in 1 .. n
    BY <1>0
  <2>1. \A c \in 1 .. i - 1 : both[c] = a[c]
    BY <1>1, <2>0
  <2>2. \A o \in 1 .. i - 1 : \A c \in o .. i - 1 : both[c] = a[c]
    BY <1>1, <2>1
  <2> QED
    BY <2>1, <2>2 DEF Within
<1>3. ASSUME NEW k \in 1 .. Len(b) + 1, Within(both, n + k),
             ~Within(b, k)
      PROVE  Within(a, n + 1) /\ \A c \in 1 .. k - 1 : b[c] # CloseTag
  <2>1. PICK o \in 1 .. (n + k) - 1 : /\ both[o] = OpenTag
                                      /\ \A c \in o .. (n + k) - 1 : both[c] # CloseTag
    <3> DEFINE m == n + k
    <3>1. Within(both, m)
      BY <1>3
    <3> HIDE DEF m
    <3>2. \E o \in 1 .. m - 1 : both[o] = OpenTag /\ \A c \in o .. m - 1 : both[c] # CloseTag
      BY <3>1 DEF Within
    <3> QED
      BY <3>2 DEF m
  <2>2. CASE o \in 1 .. n
    <3>0. \A c \in o .. n : c \in 1 .. n /\ c \in o .. (n + k) - 1
      BY <1>0, <2>2
    <3>1. both[o] = a[o] /\ \A c \in o .. n : both[c] = a[c] /\ c \in o .. (n + k) - 1
      BY <1>1, <2>2, <3>0
    <3>2. \A c \in 1 .. k - 1 : n + c \in o .. (n + k) - 1 /\ both[n + c] = b[c]
      <4>1. \A c \in 1 .. k - 1 : n + c \in o .. (n + k) - 1 /\ c \in 1 .. Len(b)
        BY <1>0, <2>2
      <4> QED
        BY <1>1, <4>1
    <3>3. n = (n + 1) - 1
      BY <1>1
    <3>4. a[o] = OpenTag /\ \A c \in o .. n : a[c] # CloseTag
      BY <2>1, <3>1
    <3>5. Within(a, n + 1)
      BY <2>2, <3>3, <3>4 DEF Within
    <3> QED
      BY <2>1, <3>2, <3>5
  <2>3. CASE o \notin 1 .. n
    <3>1. o - n \in 1 .. k - 1 /\ n + (o - n) = o /\ o - n \in 1 .. Len(b)
      BY <1>1, <2>1, <2>3
    <3>2. b[o - n] = OpenTag
      BY <1>1, <2>1, <3>1
    <3>3. \A c \in o - n .. k - 1 : n + c \in o .. (n + k) - 1 /\ c \in 1 .. Len(b)
      BY <1>1, <3>1
    <3>4. \A c \in o - n .. k - 1 : b[c] # CloseTag
      BY <1>1, <2>1, <3>3
    <3>5. Within(b, k)
      BY <3>1, <3>2, <3>4 DEF Within
    <3> QED
      BY <1>3, <3>5
  <2> QED
    BY <2>2, <2>3
<1>4. ASSUME NEW k \in 1 .. Len(b) + 1, Within(a, n + 1), \A c \in 1 .. k - 1 : b[c] # CloseTag
      PROVE  Within(both, n + k)
  <2>1. n = (n + 1) - 1
    BY <1>1
  <2>2. PICK o \in 1 .. n : a[o] = OpenTag /\ \A c \in o .. n : a[c] # CloseTag
    BY <1>4, <2>1 DEF Within
  <2>3. both[o] = OpenTag /\ o \in 1 .. (n + k) - 1
    BY <1>1, <2>2
  <2>4. ASSUME NEW c \in o .. (n + k) - 1 PROVE both[c] # CloseTag
    <3>1. CASE c \in o .. n
      <4>1. c \in 1 .. n
        BY <1>1, <3>1
      <4> QED
        BY <1>1, <2>2, <3>1, <4>1
    <3>2. CASE c \notin o .. n
      <4>1. c - n \in 1 .. k - 1 /\ n + (c - n) = c /\ c - n \in 1 .. Len(b)
        BY <1>1, <3>2
      <4>2. both[c] = b[c - n]
        BY <1>1, <4>1
      <4> QED
        BY <1>4, <4>1, <4>2
    <3> QED
      BY <3>1, <3>2
  <2> QED
    <3> DEFINE m == n + k
    <3>1. o \in 1 .. m - 1 /\ both[o] = OpenTag /\ \A c \in o .. m - 1 : both[c] # CloseTag
      BY <2>3, <2>4
    <3> HIDE DEF m
    <3>2. Within(both, m)
      BY <3>1 DEF Within
    <3> QED
      BY <3>2 DEF m
<1>5. ASSUME NEW k \in 1 .. Len(b) + 1, Within(b, k) PROVE Within(both, n + k)
  <2>1. PICK o \in 1 .. k - 1 : b[o] = OpenTag /\ \A c \in o .. k - 1 : b[c] # CloseTag
    BY <1>5 DEF Within
  <2>2. n + o \in 1 .. (n + k) - 1 /\ o \in 1 .. Len(b)
    BY <1>1
  <2>3. both[n + o] = OpenTag
    BY <1>1, <2>1, <2>2
  <2>4. ASSUME NEW c \in n + o .. (n + k) - 1 PROVE both[c] # CloseTag
    <3>1. c - n \in o .. k - 1 /\ n + (c - n) = c /\ c - n \in 1 .. Len(b)
      BY <1>1
    <3> QED
      BY <1>1, <2>1, <3>1
  <2> QED
    <3> DEFINE m == n + k
    <3>1. n + o \in 1 .. m - 1 /\ both[n + o] = OpenTag /\ \A c \in n + o .. m - 1 : both[c] # CloseTag
      BY <2>2, <2>3, <2>4
    <3> HIDE DEF m
    <3>2. Within(both, m)
      BY <3>1 DEF Within
    <3> QED
      BY <3>2 DEF m
<1> QED
  BY <1>2, <1>3, <1>4, <1>5 DEF both, n

(* The words of a token that belong to the reasoning.                      *)
Opened(token, k) ==
  \/ inThinking /\ \A c \in 1 .. k - 1 : token[c] # CloseTag
  \/ Within(token, k)

NewThought(token) == {token[i] : i \in {j \in DOMAIN token : token[j] > 0 /\ Opened(token, j)}}

(* The thoughts of a longer text are those of the text and the new ones.   *)
LEMMA ThoughtGrows ==
  ASSUME ReasoningInv, NEW token \in Seq(Int)
  PROVE  Thought(fedText \o token) = Thought(fedText) \cup NewThought(token)
<1> DEFINE both == fedText \o token
           n == Len(fedText)
<1>1. fedText \in Seq(Int) /\ (inThinking <=> Within(fedText, n + 1))
  BY DEF ReasoningInv
<1>2. /\ both \in Seq(Int) /\ Len(both) = n + Len(token)
      /\ \A i \in 1 .. n : both[i] = fedText[i]
      /\ \A j \in 1 .. Len(token) : both[n + j] = token[j]
      /\ n \in Nat /\ Len(token) \in Nat
  BY <1>1, JoinedElements
<1>3. /\ \A i \in 1 .. n + 1 : Within(both, i) <=> Within(fedText, i)
      /\ \A k \in 1 .. Len(token) + 1 : Within(both, n + k) <=>
           \/ Within(fedText, n + 1) /\ \A c \in 1 .. k - 1 : token[c] # CloseTag
           \/ Within(token, k)
  BY <1>1, WithinJoined
<1>4. DOMAIN both = 1 .. n + Len(token) /\ DOMAIN fedText = 1 .. n /\ DOMAIN token = 1 .. Len(token)
  BY <1>1, <1>2
<1> HIDE DEF both, n
<1>5. \A k \in DOMAIN token : Within(both, n + k) <=> Opened(token, k)
  <2>1. \A k \in DOMAIN token : k \in 1 .. Len(token) + 1
    BY <1>2, <1>4
  <2> QED
    BY <1>1, <1>3, <2>1 DEF Opened
<1>6. \A i \in DOMAIN fedText : i \in DOMAIN both /\ both[i] = fedText[i]
        /\ (Within(both, i) <=> Within(fedText, i))
  <2>1. \A i \in 1 .. n : i \in 1 .. n + 1 /\ i \in 1 .. n + Len(token)
    BY <1>2
  <2> QED
    BY <1>2, <1>3, <1>4, <2>1
<1>7. \A k \in DOMAIN token : n + k \in DOMAIN both /\ both[n + k] = token[k]
  <2>1. \A k \in 1 .. Len(token) : n + k \in 1 .. n + Len(token)
    BY <1>2
  <2> QED
    BY <1>2, <1>4, <2>1
<1>8. \A i \in DOMAIN both : i \in DOMAIN fedText \/ \E k \in DOMAIN token : i = n + k
  <2>1. \A i \in 1 .. n + Len(token) : i \in 1 .. n \/ (i - n \in 1 .. Len(token) /\ i = n + (i - n))
    BY <1>2
  <2> QED
    BY <1>4, <2>1
<1>9. Thought(both) \subseteq Thought(fedText) \cup NewThought(token)
  <2> SUFFICES ASSUME NEW i \in DOMAIN both, both[i] > 0, Within(both, i)
               PROVE  both[i] \in Thought(fedText) \cup NewThought(token)
    BY DEF Thought
  <2>1. CASE i \in DOMAIN fedText
    BY <1>6, <2>1 DEF Thought
  <2>2. CASE i \notin DOMAIN fedText
    BY <1>5, <1>7, <1>8, <2>2 DEF NewThought
  <2> QED
    BY <2>1, <2>2
<1>10. Thought(fedText) \subseteq Thought(both)
  BY <1>6 DEF Thought
<1>11. NewThought(token) \subseteq Thought(both)
  <2> SUFFICES ASSUME NEW k \in DOMAIN token, token[k] > 0, Opened(token, k)
               PROVE  token[k] \in Thought(both)
    BY DEF NewThought
  <2>1. n + k \in DOMAIN both /\ both[n + k] = token[k] /\ Within(both, n + k)
    BY <1>5, <1>7
  <2>2. both[n + k] > 0
    BY <2>1
  <2>3. both[n + k] \in Thought(both)
    BY <2>1, <2>2 DEF Thought
  <2> QED
    BY <2>1, <2>3
<1> QED
  BY <1>9, <1>10, <1>11 DEF both

(* A token that adds x to the reasoning and y to the content, each in the  *)
(* order of the token and each with the words that belong there.           *)
LEMMA Delivered ==
  ASSUME ReasoningInv, NEW token, Spells(token, Len(fedText)),
         NEW x \in Seq(Int), NEW y \in Seq(Int), InOrder(x), InOrder(y),
         Words(x) = NewThought(token), Words(y) = Words(token) \ NewThought(token),
         fedText' = fedText \o token, contentOut' = contentOut \o y,
         reasoningOut' \o heldText' = (reasoningOut \o heldText) \o x
  PROVE  WordsKeepTheirSide'
<1> DEFINE n == Len(fedText)
           thoughts == reasoningOut \o heldText
<1>1. /\ fedText \in Seq(Int) /\ contentOut \in Seq(Int) /\ thoughts \in Seq(Int)
      /\ \A i \in DOMAIN fedText : fedText[i] > 0 => fedText[i] = i
      /\ Words(thoughts) = Thought(fedText)
      /\ Words(contentOut) = Words(fedText) \ Thought(fedText)
      /\ InOrder(thoughts) /\ InOrder(contentOut)
  BY DEF ReasoningInv, WordsKeepTheirSide
<1>2. token \in Seq(Int) /\ n \in Nat
  BY <1>1 DEF Spells
<1>3. \A w \in Words(fedText) : w \in 1 .. n
  <2>1. DOMAIN fedText = 1 .. n
    BY <1>1
  <2> QED
    BY <1>1, <2>1 DEF Words
<1>4. \A w \in Words(token) : w \in Int /\ w > n
  <2>1. \A w \in Words(token) : w > n
    BY <1>2, SpelledWords
  <2>2. Words(token) \subseteq Int
    BY <1>2 DEF Words
  <2> QED
    BY <2>1, <2>2
<1>5. Thought(fedText) \subseteq Words(fedText) /\ NewThought(token) \subseteq Words(token)
  BY DEF Thought, NewThought, Words
<1> HIDE DEF n, thoughts
<1>6. \A v \in Words(fedText), w \in Words(token) : v < w
  BY <1>2, <1>3, <1>4
<1>7. InOrder(thoughts \o x) /\ InOrder(contentOut \o y)
  <2>1. \A v \in Words(thoughts), w \in Words(x) : v < w
    BY <1>1, <1>5, <1>6
  <2>2. \A v \in Words(contentOut), w \in Words(y) : v < w
    BY <1>1, <1>6
  <2> QED
    BY <1>1, <2>1, <2>2, JoinedInOrder
<1>8. /\ Words(thoughts \o x) = Words(thoughts) \cup Words(x)
      /\ Words(contentOut \o y) = Words(contentOut) \cup Words(y)
      /\ Words(fedText \o token) = Words(fedText) \cup Words(token)
  BY <1>1, <1>2, JoinedWords
<1>9. Thought(fedText \o token) = Thought(fedText) \cup NewThought(token)
  BY <1>2, ThoughtGrows
<1>10. Words(fedText) \cap Words(token) = {}
  BY <1>2, <1>3, <1>4
<1>11. Words(thoughts \o x) = Thought(fedText \o token)
  BY <1>1, <1>8, <1>9
<1>12. Words(contentOut \o y) = Words(fedText \o token) \ Thought(fedText \o token)
  BY <1>1, <1>5, <1>8, <1>9, <1>10
<1> QED
  BY <1>7, <1>11, <1>12 DEF WordsKeepTheirSide, thoughts

-----------------------------------------------------------------------------
(* The invariant holds before any token.                                   *)
LEMMA ReasoningInitInv == ReasoningInit => ReasoningInv
<1> SUFFICES ASSUME ReasoningInit PROVE ReasoningInv
  OBVIOUS
<1>1. fedText = <<>> /\ inThinking = FALSE /\ heldText = <<>>
      /\ reasoningOut = <<>> /\ contentOut = <<>>
  BY DEF ReasoningInit
<1>2. <<>> \in Seq(Int) /\ DOMAIN <<>> = {} /\ Len(<<>>) = 0 /\ <<>> \o <<>> = <<>>
  OBVIOUS
<1>3. ~Within(<<>>, 0 + 1)
  BY DEF Within
<1>4. ~Has(<<>>, CloseTag) /\ InOrder(<<>>) /\ Words(<<>>) = {} /\ Thought(<<>>) = {}
  BY <1>2 DEF Has, InOrder, Words, Thought
<1>5. WordsKeepTheirSide
  BY <1>1, <1>2, <1>4 DEF WordsKeepTheirSide
<1>6. ~Within(fedText, Len(fedText) + 1)
  BY <1>1, <1>2, <1>3
<1> QED
  BY <1>1, <1>2, <1>4, <1>5, <1>6 DEF ReasoningInv

(* A token has one tag at most.                                            *)
TagsOnce(token) ==
  \A i, j \in DOMAIN token :
    {token[i], token[j]} \subseteq {OpenTag, CloseTag} => i = j

(* Every shape spells new words and at most one tag.                       *)
LEMMA SpelledToken ==
  ASSUME NEW shape \in TokenShapes, NEW n \in Nat
  PROVE  Spells(Spelled(shape, n), n) /\ TagsOnce(Spelled(shape, n))
<1> DEFINE token == Spelled(shape, n)
<1>1. shape \in Seq({"word", "open", "close", "half"})
  BY ReasoningAssumption
<1>2. \A i, j \in DOMAIN shape : {shape[i], shape[j]} \subseteq {"open", "close"} => i = j
  BY ReasoningAssumption
<1>3. DOMAIN token = DOMAIN shape /\ DOMAIN shape = 1 .. Len(shape) /\ Len(shape) \in Nat
  BY <1>1 DEF Spelled
<1>4. ASSUME NEW i \in DOMAIN shape
      PROVE  /\ token[i] \in Int
             /\ token[i] > 0 => token[i] = n + i
             /\ token[i] \in {OpenTag, CloseTag} => shape[i] \in {"open", "close"}
  <2>1. shape[i] \in {"word", "open", "close", "half"} /\ i \in Nat
    BY <1>1, <1>3
  <2>2. token[i] = IF shape[i] = "word" THEN n + i
                   ELSE IF shape[i] = "open" THEN -1
                   ELSE IF shape[i] = "close" THEN -2 ELSE -3
    BY DEF Spelled, OpenTag, CloseTag, HalfTag
  <2>3. OpenTag = -1 /\ CloseTag = -2
    BY DEF OpenTag, CloseTag
  <2> HIDE DEF token
  <2>4. CASE shape[i] = "word"
    <3>1. token[i] = n + i /\ n + i \in Nat
      BY <2>1, <2>2, <2>4
    <3> QED
      BY <2>3, <3>1
  <2>5. CASE shape[i] # "word"
    BY <2>1, <2>2, <2>3, <2>5
  <2> QED
    BY <2>4, <2>5
<1>5. token \in Seq(Int)
  <2>1. token = [i \in 1 .. Len(shape) |-> token[i]]
    BY <1>3 DEF Spelled
  <2>2. \A i \in 1 .. Len(shape) : token[i] \in Int
    BY <1>3, <1>4
  <2> HIDE DEF token
  <2> QED
    BY <1>3, <2>1, <2>2
<1>6. TagsOnce(token)
  <2> HIDE DEF token
  <2> SUFFICES ASSUME NEW i \in DOMAIN token, NEW j \in DOMAIN token,
                      {token[i], token[j]} \subseteq {OpenTag, CloseTag}
               PROVE  i = j
    BY DEF TagsOnce
  <2>1. {shape[i], shape[j]} \subseteq {"open", "close"}
    BY <1>3, <1>4
  <2> QED
    BY <1>2, <1>3, <2>1
<1> QED
  BY <1>3, <1>4, <1>5, <1>6 DEF Spells

(* What a token without, or with one, tag opens.                           *)
LEMMA NothingOpened ==
  ASSUME NEW token \in Seq(Int), ~inThinking, ~Has(token, OpenTag)
  PROVE  \A k \in 1 .. Len(token) + 1 : ~Opened(token, k)
BY DEF Opened, Within, Has

(* In a block that the token does not close, every place of it is thought. *)
LEMMA AllOpened ==
  ASSUME NEW token \in Seq(Int), inThinking, ~Has(token, CloseTag)
  PROVE  \A k \in 1 .. Len(token) + 1 : Opened(token, k)
BY DEF Opened, Has

(* A token that opens a block: the thought is behind its tag.              *)
LEMMA OpenedBehindTag ==
  ASSUME NEW token \in Seq(Int), TagsOnce(token), ~inThinking,
         NEW p \in 1 .. Len(token), token[p] = OpenTag
  PROVE  \A k \in 1 .. Len(token) + 1 : Opened(token, k) <=> p < k
<1>1. Len(token) \in Nat /\ DOMAIN token = 1 .. Len(token)
  OBVIOUS
<1>2. \A c \in DOMAIN token : token[c] # CloseTag
  <2> SUFFICES ASSUME NEW c \in DOMAIN token, token[c] = CloseTag PROVE FALSE
    OBVIOUS
  <2>1. c = p
    BY <1>1 DEF TagsOnce
  <2> QED
    BY <2>1 DEF OpenTag, CloseTag
<1>3. \A o \in DOMAIN token : token[o] = OpenTag => o = p
  BY <1>1 DEF TagsOnce
<1> SUFFICES ASSUME NEW k \in 1 .. Len(token) + 1 PROVE Opened(token, k) <=> p < k
  OBVIOUS
<1>4. \A c \in 1 .. k - 1 : c \in DOMAIN token
  BY <1>1
<1>5. ASSUME Within(token, k) PROVE p < k
  <2>1. PICK o \in 1 .. k - 1 : token[o] = OpenTag
    BY <1>5 DEF Within
  <2> QED
    BY <1>1, <1>3, <1>4, <2>1
<1>6. ASSUME p < k PROVE Within(token, k)
  <2>1. p \in 1 .. k - 1 /\ \A c \in p .. k - 1 : c \in 1 .. k - 1
    BY <1>1, <1>6
  <2>2. \A c \in p .. k - 1 : token[c] # CloseTag
    BY <1>2, <1>4, <2>1
  <2> QED
    BY <2>1, <2>2 DEF Within
<1> QED
  BY <1>5, <1>6 DEF Opened

(* A token that closes the block: the thought is before its tag.           *)
LEMMA OpenedBeforeTag ==
  ASSUME NEW token \in Seq(Int), TagsOnce(token), inThinking,
         NEW p \in 1 .. Len(token), token[p] = CloseTag
  PROVE  \A k \in 1 .. Len(token) + 1 : Opened(token, k) <=> k <= p
<1>1. Len(token) \in Nat /\ DOMAIN token = 1 .. Len(token)
  OBVIOUS
<1>2. \A c \in DOMAIN token : token[c] # OpenTag
  <2> SUFFICES ASSUME NEW c \in DOMAIN token, token[c] = OpenTag PROVE FALSE
    OBVIOUS
  <2>1. c = p
    BY <1>1 DEF TagsOnce
  <2> QED
    BY <2>1 DEF OpenTag, CloseTag
<1>3. \A c \in DOMAIN token : token[c] = CloseTag => c = p
  BY <1>1 DEF TagsOnce
<1> SUFFICES ASSUME NEW k \in 1 .. Len(token) + 1 PROVE Opened(token, k) <=> k <= p
  OBVIOUS
<1>4. \A c \in 1 .. k - 1 : c \in DOMAIN token
  BY <1>1
<1>5. ~Within(token, k)
  BY <1>2, <1>4 DEF Within
<1>6. (\A c \in 1 .. k - 1 : token[c] # CloseTag) <=> k <= p
  <2>1. ASSUME k <= p, NEW c \in 1 .. k - 1 PROVE token[c] # CloseTag
    <3>1. c # p
      BY <2>1
    <3> QED
      BY <1>3, <1>4, <3>1
  <2>2. ASSUME ~(k <= p) PROVE ~\A c \in 1 .. k - 1 : token[c] # CloseTag
    <3>1. p \in 1 .. k - 1
      BY <1>1, <2>2
    <3> QED
      BY <3>1
  <2> QED
    BY <2>1, <2>2
<1> QED
  BY <1>5, <1>6 DEF Opened

(* The text grows by a token: what the invariant says of the text and of   *)
(* the block it ends in.                                                   *)
LEMMA TextGrows ==
  ASSUME ReasoningInv, NEW token, Spells(token, Len(fedText)), fedText' = fedText \o token
  PROVE  /\ fedText' \in Seq(Int)
         /\ \A i \in DOMAIN fedText' : fedText'[i] > 0 => fedText'[i] = i
         /\ Within(fedText, Len(fedText) + 1)' <=> Opened(token, Len(token) + 1)
<1> DEFINE both == fedText \o token
           n == Len(fedText)
<1>1. /\ fedText \in Seq(Int) /\ (inThinking <=> Within(fedText, n + 1))
      /\ \A i \in DOMAIN fedText : fedText[i] > 0 => fedText[i] = i
  BY DEF ReasoningInv
<1>2. token \in Seq(Int) /\ \A i \in DOMAIN token : token[i] > 0 => token[i] = n + i
  BY DEF Spells
<1>3. /\ both \in Seq(Int) /\ Len(both) = n + Len(token)
      /\ \A i \in 1 .. n : both[i] = fedText[i]
      /\ \A j \in 1 .. Len(token) : both[n + j] = token[j]
  BY <1>1, <1>2, JoinedElements
<1>4. n \in Nat /\ Len(token) \in Nat
  BY <1>1, <1>2
<1>5. DOMAIN both = 1 .. n + Len(token) /\ DOMAIN fedText = 1 .. n /\ DOMAIN token = 1 .. Len(token)
  BY <1>1, <1>2, <1>3
<1>6. \A k \in 1 .. Len(token) + 1 : Within(both, n + k) <=>
        \/ Within(fedText, n + 1) /\ \A c \in 1 .. k - 1 : token[c] # CloseTag
        \/ Within(token, k)
  BY <1>1, <1>2, WithinJoined
<1>7. fedText' = both
  OBVIOUS
<1> HIDE DEF both, n
<1>8. ASSUME NEW i \in DOMAIN both, both[i] > 0 PROVE both[i] = i
  <2>1. CASE i \in 1 .. n
    BY <1>1, <1>3, <1>5, <1>8, <2>1
  <2>2. CASE i \notin 1 .. n
    <3>1. i - n \in 1 .. Len(token) /\ n + (i - n) = i
      BY <1>4, <1>5, <2>2
    <3>2. both[i] = token[i - n]
      BY <1>3, <3>1
    <3>3. token[i - n] = n + (i - n)
      BY <1>2, <1>5, <1>8, <3>1, <3>2
    <3> QED
      BY <3>1, <3>2, <3>3
  <2> QED
    BY <2>1, <2>2
<1>9. Within(both, Len(both) + 1) <=> Opened(token, Len(token) + 1)
  <2> DEFINE k == Len(token) + 1
  <2>1. k \in 1 .. Len(token) + 1 /\ Len(both) + 1 = n + k
    BY <1>3, <1>4
  <2> HIDE DEF k
  <2>2. Within(both, n + k) <=> Opened(token, k)
    BY <1>1, <1>6, <2>1 DEF Opened
  <2> QED
    BY <2>1, <2>2 DEF k
<1>10. Within(fedText, Len(fedText) + 1)' <=> Within(both, Len(both) + 1)
  <2>1. Within(fedText, Len(fedText) + 1)' <=> Within(fedText', Len(fedText') + 1)
    BY DEF Within
  <2> QED
    BY <1>7, <2>1
<1> QED
  BY <1>3, <1>7, <1>8, <1>9, <1>10

-----------------------------------------------------------------------------
(* The three ways a token is processed.                                    *)

(* The parts of the invariant that every step needs.                       *)
LEMMA InvParts ==
  ASSUME ReasoningInv
  PROVE  /\ fedText \in Seq(Int) /\ heldText \in Seq(Int)
         /\ reasoningOut \in Seq(Int) /\ contentOut \in Seq(Int) /\ inThinking \in BOOLEAN
         /\ ~inThinking => heldText = <<>>
         /\ ~Has(heldText, CloseTag)
BY DEF ReasoningInv

(* The empty text.                                                         *)
LEMMA NoWords == Words(<<>>) = {} /\ InOrder(<<>>) /\ <<>> \in Seq(Int) /\ ~Has(<<>>, CloseTag)
<1>1. DOMAIN <<>> = {} /\ <<>> \in Seq(Int)
  OBVIOUS
<1> QED
  BY <1>1 DEF Words, InOrder, Has

(* The empty text adds nothing.                                            *)
LEMMA JoiningNothing == ASSUME NEW s \in Seq(Int) PROVE <<>> \o s = s /\ s \o <<>> = s
OBVIOUS

(* The token that opens a block keeps the invariant.                       *)
LEMMA EnteringKeepsWords ==
  ASSUME ReasoningInv, NEW token, Spells(token, Len(fedText)), TagsOnce(token),
         fedText' = fedText \o token, EnterBlock(heldText \o token)
  PROVE  ReasoningInv'
<1> DEFINE n == Len(fedText)
           before == UpTo(token, OpenTag)
           behind == Beyond(token, OpenTag)
           p == At(token, OpenTag)
<1>1. /\ fedText \in Seq(Int) /\ heldText \in Seq(Int)
      /\ reasoningOut \in Seq(Int) /\ contentOut \in Seq(Int)
      /\ ~inThinking => heldText = <<>>
  BY InvParts
<1>2. token \in Seq(Int) /\ n \in Nat
  BY <1>1 DEF Spells
<1>3. ~inThinking /\ heldText \o token = token
  BY <1>1, <1>2, JoiningNothing DEF EnterBlock
<1>4. /\ Has(token, OpenTag) /\ inThinking' = TRUE /\ heldText' = behind
      /\ contentOut' = contentOut \o before /\ reasoningOut' = reasoningOut
  BY <1>3 DEF EnterBlock
<1>5. p \in 1 .. Len(token) /\ token[p] = OpenTag
  BY <1>2, <1>4, FirstTag
<1>6. \A k \in 1 .. Len(token) + 1 : Opened(token, k) <=> p < k
  BY <1>2, <1>3, <1>5, OpenedBehindTag
<1>7. /\ before \in Seq(Int) /\ behind \in Seq(Int) /\ Len(behind) = Len(token) - p
      /\ \A i \in 1 .. Len(token) - p : behind[i] = token[p + i]
  <2>1. token \in Seq(Int) /\ Has(token, OpenTag) /\ p = At(token, OpenTag)
    BY <1>2, <1>4
  <2> HIDE DEF p, n
  <2> QED
    BY <2>1, AroundTag
<1>8. /\ InOrder(before) /\ InOrder(behind)
      /\ Words(before) = {token[i] : i \in {j \in DOMAIN token : token[j] > 0 /\ j < p}}
      /\ Words(behind) = {token[i] : i \in {j \in DOMAIN token : token[j] > 0 /\ p < j}}
  BY <1>2, <1>4, SpelledAroundTag
<1>9. DOMAIN token = 1 .. Len(token) /\ Len(token) \in Nat
  BY <1>2
<1> HIDE DEF before, behind, p, n
<1>10. NewThought(token) = Words(behind)
  <2>1. \A k \in DOMAIN token : Opened(token, k) <=> p < k
    BY <1>6, <1>9
  <2> QED
    BY <1>8, <2>1 DEF NewThought
<1>11. Words(before) = Words(token) \ NewThought(token)
  <2>1. \A j \in DOMAIN token : token[j] > 0 => j # p
    BY <1>5 DEF OpenTag
  <2>2. \A i, j \in DOMAIN token : token[i] > 0 /\ token[i] = token[j] => i = j
    BY <1>2 DEF Spells
  <2>3. ASSUME NEW j \in DOMAIN token, token[j] > 0 PROVE j < p <=> ~(p < j)
    BY <1>5, <1>9, <2>1, <2>3
  <2> QED
    BY <1>8, <1>10, <2>2, <2>3 DEF Words
<1>12. reasoningOut' \o heldText' = (reasoningOut \o heldText) \o behind
  BY <1>1, <1>3, <1>4, JoiningNothing
<1>13. WordsKeepTheirSide'
  BY <1>4, <1>7, <1>8, <1>10, <1>11, <1>12, Delivered
<1>14. /\ fedText' \in Seq(Int)
       /\ \A i \in DOMAIN fedText' : fedText'[i] > 0 => fedText'[i] = i
       /\ Within(fedText, Len(fedText) + 1)' <=> Opened(token, Len(token) + 1)
  BY TextGrows
<1>15. Opened(token, Len(token) + 1)
  <2>1. Len(token) + 1 \in 1 .. Len(token) + 1 /\ p < Len(token) + 1
    BY <1>5, <1>9
  <2> QED
    BY <1>6, <2>1
<1>16. contentOut' \in Seq(Int)
  BY <1>1, <1>4, <1>7, JoinItems
<1>17. ~Has(behind, CloseTag)
  <2> SUFFICES ASSUME NEW i \in DOMAIN behind, behind[i] = CloseTag PROVE FALSE
    BY DEF Has
  <2>1. i \in 1 .. Len(token) - p
    BY <1>7
  <2>2. p + i \in DOMAIN token /\ p \in DOMAIN token /\ p + i # p
    BY <1>5, <1>9, <2>1
  <2>3. token[p + i] = CloseTag
    BY <1>7, <2>1
  <2>4. p + i = p
    BY <1>5, <2>2, <2>3 DEF TagsOnce
  <2> QED
    BY <2>2, <2>4
<1>18. ~Has(heldText, CloseTag)'
  BY <1>4, <1>17 DEF Has
<1> QED
  BY <1>1, <1>4, <1>7, <1>13, <1>14, <1>15, <1>16, <1>18 DEF ReasoningInv

(* What was held back is before the tag that ends the block.               *)
LEMMA CutBehindHeld ==
  ASSUME NEW held \in Seq(Int), NEW token \in Seq(Int), NEW tag,
         ~Has(held, tag), Has(held \o token, tag)
  PROVE  /\ Has(token, tag)
         /\ UpTo(held \o token, tag) = held \o UpTo(token, tag)
         /\ Beyond(held \o token, tag) = Beyond(token, tag)
<1> DEFINE text == held \o token
           h == Len(held)
<1>1. /\ text \in Seq(Int) /\ Len(text) = h + Len(token) /\ h \in Nat /\ Len(token) \in Nat
      /\ \A i \in 1 .. h : text[i] = held[i]
      /\ \A j \in 1 .. Len(token) : text[h + j] = token[j]
  BY JoinedElements
<1> HIDE DEF text, h
<1>2. \A i \in 1 .. h : text[i] # tag
  <2>1. DOMAIN held = 1 .. h
    BY DEF h
  <2> QED
    BY <1>1, <2>1 DEF Has
<1>3. Has(token, tag)
  <2>1. PICK i \in 1 .. Len(text) : text[i] = tag
    BY <1>1 DEF Has, text
  <2>2. i - h \in 1 .. Len(token) /\ h + (i - h) = i
    BY <1>1, <1>2, <2>1
  <2> QED
    BY <1>1, <2>1, <2>2 DEF Has
<1> DEFINE q == At(token, tag)
<1>4. q \in 1 .. Len(token) /\ token[q] = tag /\ \A j \in 1 .. q - 1 : token[j] # tag
  BY <1>3, FirstTag
<1> HIDE DEF q
<1>5. Has(text, tag) /\ At(text, tag) = h + q
  <2> DEFINE p == h + q
  <2>1. p \in 1 .. Len(text) /\ text[p] = tag
    BY <1>1, <1>4
  <2>2. \A j \in 1 .. p - 1 : text[j] # tag
    <3> SUFFICES ASSUME NEW j \in 1 .. p - 1, j \notin 1 .. h PROVE text[j] # tag
      BY <1>2
    <3>1. j - h \in 1 .. q - 1 /\ j - h \in 1 .. Len(token) /\ h + (j - h) = j
      BY <1>1, <1>4
    <3> QED
      BY <1>1, <1>4, <3>1
  <2> HIDE DEF p
  <2>3. Has(text, tag) /\ At(text, tag) = p
    BY <1>1, <2>1, <2>2, OneFirstTag
  <2> QED
    BY <2>3 DEF p
<1>6. /\ UpTo(token, tag) \in Seq(Int) /\ Len(UpTo(token, tag)) = q - 1
      /\ \A i \in 1 .. q - 1 : UpTo(token, tag)[i] = token[i]
      /\ Beyond(token, tag) \in Seq(Int) /\ Len(Beyond(token, tag)) = Len(token) - q
      /\ \A i \in 1 .. Len(token) - q : Beyond(token, tag)[i] = token[q + i]
  BY <1>3, AroundTag DEF q
<1>7. /\ UpTo(text, tag) \in Seq(Int) /\ Len(UpTo(text, tag)) = (h + q) - 1
      /\ \A i \in 1 .. (h + q) - 1 : UpTo(text, tag)[i] = text[i]
      /\ Beyond(text, tag) \in Seq(Int) /\ Len(Beyond(text, tag)) = Len(text) - (h + q)
      /\ \A i \in 1 .. Len(text) - (h + q) : Beyond(text, tag)[i] = text[(h + q) + i]
  <2> DEFINE p == h + q
  <2>1. Has(text, tag) /\ p = At(text, tag)
    BY <1>5
  <2> HIDE DEF p
  <2>2. /\ UpTo(text, tag) \in Seq(Int) /\ Len(UpTo(text, tag)) = p - 1
        /\ \A i \in 1 .. p - 1 : UpTo(text, tag)[i] = text[i]
        /\ Beyond(text, tag) \in Seq(Int) /\ Len(Beyond(text, tag)) = Len(text) - p
        /\ \A i \in 1 .. Len(text) - p : Beyond(text, tag)[i] = text[p + i]
    <3>1. text \in Seq(Int)
      BY <1>1
    <3> QED
      BY <2>1, <3>1, AroundTag
  <2> QED
    BY <2>2 DEF p
<1>8. UpTo(text, tag) = held \o UpTo(token, tag)
  <2> DEFINE a == UpTo(text, tag) b == UpTo(token, tag) c == held \o b
  <2>0. b \in Seq(Int)
    BY <1>6
  <2> HIDE DEF b
  <2>1. /\ c \in Seq(Int) /\ Len(c) = h + Len(b)
        /\ \A i \in 1 .. h : c[i] = held[i]
        /\ \A j \in 1 .. Len(b) : c[h + j] = b[j]
    BY <2>0, JoinedElements DEF h
  <2> HIDE DEF a, c
  <2>2. Len(b) = q - 1 /\ Len(a) = (h + q) - 1 /\ a \in Seq(Int)
    BY <1>6, <1>7 DEF a, b
  <2>3. Len(a) = Len(c)
    <3>1. h \in Nat /\ q \in Nat
      BY <1>1, <1>4
    <3> QED
      BY <2>1, <2>2, <3>1
  <2>4. ASSUME NEW i \in 1 .. Len(a) PROVE a[i] = c[i]
    <3>1. a[i] = text[i]
      BY <1>7, <2>2 DEF a
    <3>2. CASE i \in 1 .. h
      BY <1>1, <2>1, <3>1, <3>2
    <3>3. CASE i \notin 1 .. h
      <4>1. i - h \in 1 .. q - 1 /\ i - h \in 1 .. Len(token) /\ h + (i - h) = i
        BY <1>1, <1>4, <2>2, <3>3
      <4>2. text[i] = token[i - h] /\ c[i] = b[i - h]
        BY <1>1, <2>1, <2>2, <4>1
      <4>3. b[i - h] = token[i - h]
        BY <1>6, <4>1 DEF b
      <4> QED
        BY <3>1, <4>2, <4>3
    <3> QED
      BY <3>2, <3>3
  <2>5. a = c
    BY <2>1, <2>2, <2>3, <2>4, SameElements
  <2> QED
    BY <2>5 DEF a, b, c
<1>9. Beyond(text, tag) = Beyond(token, tag)
  <2> DEFINE a == Beyond(text, tag) b == Beyond(token, tag)
  <2>1. a \in Seq(Int) /\ b \in Seq(Int) /\ Len(b) = Len(token) - q
        /\ Len(a) = Len(text) - (h + q)
    BY <1>6, <1>7
  <2>2. Len(a) = Len(b)
    <3>1. h \in Nat /\ q \in Nat /\ Len(text) = h + Len(token) /\ Len(token) \in Nat
      BY <1>1, <1>4
    <3> HIDE DEF a, b
    <3> QED
      BY <2>1, <3>1
  <2>3. ASSUME NEW i \in 1 .. Len(token) - q PROVE a[i] = b[i]
    <3>1. /\ q + i \in 1 .. Len(token) /\ h + (q + i) = (h + q) + i
          /\ i \in 1 .. Len(text) - (h + q)
      <4> DEFINE l == Len(token)  m == Len(text)
      <4>1. h \in Nat /\ q \in Nat /\ l \in Nat /\ m = h + l /\ i \in 1 .. l - q
        BY <1>1, <1>4
      <4> HIDE DEF h, q, l, m
      <4>2. /\ q + i \in 1 .. l /\ h + (q + i) = (h + q) + i
            /\ i \in 1 .. m - (h + q)
        BY <4>1
      <4> QED
        BY <4>2 DEF l, m
    <3>2. a[i] = text[(h + q) + i] /\ b[i] = token[q + i]
      BY <1>6, <1>7, <3>1
    <3>3. text[h + (q + i)] = token[q + i]
      BY <1>1, <3>1
    <3> QED
      BY <3>1, <3>2, <3>3
  <2> HIDE DEF a, b
  <2>4. a = b
    BY <2>1, <2>2, <2>3, SameElements
  <2> QED
    BY <2>4 DEF a, b
<1> QED
  BY <1>3, <1>8, <1>9 DEF text

(* So does the token that closes it,                                       *)
LEMMA LeavingKeepsWords ==
  ASSUME ReasoningInv, NEW token, Spells(token, Len(fedText)), TagsOnce(token),
         fedText' = fedText \o token, LeaveBlock(heldText \o token)
  PROVE  ReasoningInv'
<1> DEFINE n == Len(fedText)
           before == UpTo(token, CloseTag)
           behind == Beyond(token, CloseTag)
           p == At(token, CloseTag)
<1>1. /\ fedText \in Seq(Int) /\ heldText \in Seq(Int)
      /\ reasoningOut \in Seq(Int) /\ contentOut \in Seq(Int)
      /\ ~Has(heldText, CloseTag)
  BY InvParts
<1>2. token \in Seq(Int) /\ n \in Nat
  BY <1>1 DEF Spells
<1>3. /\ inThinking /\ Has(heldText \o token, CloseTag) /\ inThinking' = FALSE
      /\ heldText' = <<>>
      /\ reasoningOut' = reasoningOut \o UpTo(heldText \o token, CloseTag)
      /\ contentOut' = contentOut \o Beyond(heldText \o token, CloseTag)
  BY DEF LeaveBlock
<1>4. /\ Has(token, CloseTag)
      /\ UpTo(heldText \o token, CloseTag) = heldText \o before
      /\ Beyond(heldText \o token, CloseTag) = behind
  BY <1>1, <1>2, <1>3, CutBehindHeld
<1>5. p \in 1 .. Len(token) /\ token[p] = CloseTag
  BY <1>2, <1>4, FirstTag
<1>6. \A k \in 1 .. Len(token) + 1 : Opened(token, k) <=> k <= p
  BY <1>2, <1>3, <1>5, OpenedBeforeTag
<1>7. before \in Seq(Int) /\ behind \in Seq(Int)
  BY <1>2, <1>4, AroundTag
<1>8. /\ InOrder(before) /\ InOrder(behind)
      /\ Words(before) = {token[i] : i \in {j \in DOMAIN token : token[j] > 0 /\ j < p}}
      /\ Words(behind) = {token[i] : i \in {j \in DOMAIN token : token[j] > 0 /\ p < j}}
  BY <1>2, <1>4, SpelledAroundTag
<1>9. DOMAIN token = 1 .. Len(token) /\ Len(token) \in Nat
  BY <1>2
<1> HIDE DEF before, behind, p, n
<1>10. \A j \in DOMAIN token : token[j] > 0 => j # p
  BY <1>5 DEF CloseTag
<1>11. NewThought(token) = Words(before)
  <2>1. ASSUME NEW k \in DOMAIN token, token[k] > 0 PROVE Opened(token, k) <=> k < p
    <3>1. k \in 1 .. Len(token) + 1 /\ (k <= p <=> k < p)
      BY <1>5, <1>9, <1>10, <2>1
    <3> QED
      BY <1>6, <3>1
  <2> QED
    BY <1>8, <2>1 DEF NewThought
<1>12. Words(behind) = Words(token) \ NewThought(token)
  <2>1. \A i, j \in DOMAIN token : token[i] > 0 /\ token[i] = token[j] => i = j
    BY <1>2 DEF Spells
  <2>2. ASSUME NEW j \in DOMAIN token, token[j] > 0 PROVE p < j <=> ~(j < p)
    BY <1>5, <1>9, <1>10, <2>2
  <2> QED
    BY <1>8, <1>11, <2>1, <2>2 DEF Words
<1>13. reasoningOut' \o heldText' = (reasoningOut \o heldText) \o before
  <2>1. (reasoningOut \o heldText) \o before = reasoningOut \o (heldText \o before)
    <3>1. reasoningOut \in Seq(Int) /\ heldText \in Seq(Int) /\ before \in Seq(Int)
      BY <1>1, <1>7
    <3> QED
      BY <3>1, JoiningIsAssociative
  <2>2. heldText \o before \in Seq(Int)
    BY <1>1, <1>7, JoinItems
  <2>3. reasoningOut \o (heldText \o before) \in Seq(Int)
    BY <1>1, <2>2, JoinItems
  <2> QED
    BY <1>3, <1>4, <2>1, <2>3, JoiningNothing
<1>14. contentOut' = contentOut \o behind
  BY <1>3, <1>4
<1>15. WordsKeepTheirSide'
  BY <1>7, <1>8, <1>11, <1>12, <1>13, <1>14, Delivered
<1>16. /\ fedText' \in Seq(Int)
       /\ \A i \in DOMAIN fedText' : fedText'[i] > 0 => fedText'[i] = i
       /\ Within(fedText, Len(fedText) + 1)' <=> Opened(token, Len(token) + 1)
  BY TextGrows
<1>17. ~Opened(token, Len(token) + 1)
  <2>1. Len(token) + 1 \in 1 .. Len(token) + 1 /\ ~(Len(token) + 1 <= p)
    BY <1>5, <1>9
  <2> QED
    BY <1>6, <2>1
<1>18. contentOut' \in Seq(Int) /\ reasoningOut' \in Seq(Int)
  <2>1. heldText \o before \in Seq(Int)
    BY <1>1, <1>7, JoinItems
  <2> QED
    BY <1>1, <1>3, <1>4, <1>7, <2>1, JoinItems
<1>19. heldText' \in Seq(Int) /\ ~Has(heldText, CloseTag)'
  BY <1>3, NoWords DEF Has
<1> QED
  BY <1>3, <1>15, <1>16, <1>17, <1>18, <1>19 DEF ReasoningInv

(* and so does a token without a tag.                                      *)
LEMMA PassingKeepsWords ==
  ASSUME ReasoningInv, NEW token, Spells(token, Len(fedText)),
         fedText' = fedText \o token, PassOn(heldText \o token)
  PROVE  ReasoningInv'
<1>1. /\ fedText \in Seq(Int) /\ heldText \in Seq(Int)
      /\ reasoningOut \in Seq(Int) /\ contentOut \in Seq(Int) /\ inThinking \in BOOLEAN
      /\ ~inThinking => heldText = <<>>
  BY InvParts
<1>2. token \in Seq(Int) /\ Len(fedText) \in Nat /\ Len(token) \in Nat
      /\ DOMAIN token = 1 .. Len(token)
  BY <1>1 DEF Spells
<1>3. InOrder(token)
  BY <1>2, SpelledWords
<1>4. heldText' = <<>> /\ inThinking' = inThinking
  BY DEF PassOn
<1>5. heldText' \in Seq(Int) /\ ~Has(heldText, CloseTag)'
  BY <1>4, NoWords DEF Has
<1>6. /\ fedText' \in Seq(Int)
      /\ \A i \in DOMAIN fedText' : fedText'[i] > 0 => fedText'[i] = i
      /\ Within(fedText, Len(fedText) + 1)' <=> Opened(token, Len(token) + 1)
  BY TextGrows
<1>7. Len(token) + 1 \in 1 .. Len(token) + 1 /\ \A k \in DOMAIN token : k \in 1 .. Len(token) + 1
  BY <1>2
<1>8. CASE inThinking
  <2>1. /\ ~Has(heldText \o token, CloseTag)
        /\ reasoningOut' = reasoningOut \o (heldText \o token) /\ contentOut' = contentOut
    BY <1>8 DEF PassOn
  <2>2. ~Has(token, CloseTag)
    <3>1. /\ \A j \in 1 .. Len(token) : (heldText \o token)[Len(heldText) + j] = token[j]
          /\ heldText \o token \in Seq(Int)
          /\ Len(heldText \o token) = Len(heldText) + Len(token) /\ Len(heldText) \in Nat
      BY <1>1, <1>2, JoinedElements
    <3>2. \A j \in 1 .. Len(token) : Len(heldText) + j \in 1 .. Len(heldText) + Len(token)
      BY <1>2, <3>1
    <3>3. DOMAIN (heldText \o token) = 1 .. Len(heldText) + Len(token)
      BY <3>1
    <3> QED
      BY <1>2, <2>1, <3>1, <3>2, <3>3 DEF Has
  <2>3. \A k \in 1 .. Len(token) + 1 : Opened(token, k)
    BY <1>2, <1>8, <2>2, AllOpened
  <2>4. NewThought(token) = Words(token)
    BY <1>7, <2>3 DEF NewThought, Words
  <2>5. reasoningOut' \o heldText' = (reasoningOut \o heldText) \o token
    <3>1. (reasoningOut \o heldText) \o token = reasoningOut \o (heldText \o token)
      <4>1. reasoningOut \in Seq(Int) /\ heldText \in Seq(Int) /\ token \in Seq(Int)
        BY <1>1, <1>2
      <4> QED
        BY <4>1, JoiningIsAssociative
    <3>2. heldText \o token \in Seq(Int)
      BY <1>1, <1>2, JoinItems
    <3>3. reasoningOut \o (heldText \o token) \in Seq(Int)
      BY <1>1, <3>2, JoinItems
    <3> QED
      BY <1>4, <2>1, <3>1, <3>3, JoiningNothing
  <2>6. contentOut' = contentOut \o <<>>
    BY <1>1, <2>1, JoiningNothing
  <2>7. Words(<<>>) = Words(token) \ NewThought(token)
    BY <2>4, NoWords
  <2>8. WordsKeepTheirSide'
    BY <1>2, <1>3, <2>4, <2>5, <2>6, <2>7, NoWords, Delivered
  <2>9. reasoningOut' \in Seq(Int)
    <3>1. heldText \o token \in Seq(Int)
      BY <1>1, <1>2, JoinItems
    <3> QED
      BY <1>1, <2>1, <3>1, JoinItems
  <2> QED
    BY <1>1, <1>4, <1>5, <1>6, <1>7, <1>8, <2>1, <2>3, <2>8, <2>9 DEF ReasoningInv
<1>9. CASE ~inThinking
  <2>1. heldText \o token = token /\ heldText = <<>>
    BY <1>1, <1>2, <1>9, JoiningNothing
  <2>2. ~Has(token, OpenTag) /\ contentOut' = contentOut \o token /\ reasoningOut' = reasoningOut
    BY <1>9, <2>1 DEF PassOn
  <2>3. \A k \in 1 .. Len(token) + 1 : ~Opened(token, k)
    BY <1>2, <1>9, <2>2, NothingOpened
  <2>4. NewThought(token) = {}
    BY <1>7, <2>3 DEF NewThought
  <2>5. reasoningOut' \o heldText' = (reasoningOut \o heldText) \o <<>>
    BY <1>1, <1>4, <2>1, <2>2, JoiningNothing
  <2>6. Words(<<>>) = NewThought(token) /\ Words(token) = Words(token) \ NewThought(token)
    BY <2>4, NoWords
  <2>7. WordsKeepTheirSide'
    BY <1>2, <1>3, <2>2, <2>5, <2>6, NoWords, Delivered
  <2>8. contentOut' \in Seq(Int)
    BY <1>1, <1>2, <2>2, JoinItems
  <2> QED
    BY <1>1, <1>4, <1>5, <1>6, <1>7, <1>9, <2>2, <2>3, <2>7, <2>8 DEF ReasoningInv
<1> QED
  BY <1>8, <1>9

(* Every step keeps the invariant.                                         *)
LEMMA ReasoningNextInv == ReasoningInv /\ [ReasoningNext]_reasoningVars => ReasoningInv'
<1> SUFFICES ASSUME ReasoningInv, [ReasoningNext]_reasoningVars PROVE ReasoningInv'
  OBVIOUS
<1>1. CASE ReasoningNext
  <2>1. PICK shape \in TokenShapes : ProcessToken(shape)
    BY <1>1 DEF ReasoningNext
  <2> DEFINE token == Spelled(shape, Len(fedText))
  <2>2. Len(fedText) \in Nat
    BY InvParts
  <2>3. Spells(token, Len(fedText)) /\ TagsOnce(token)
    BY <2>2, SpelledToken
  <2>4. fedText' = fedText \o token
        /\ (EnterBlock(heldText \o token) \/ LeaveBlock(heldText \o token) \/ PassOn(heldText \o token))
    BY <2>1 DEF ProcessToken
  <2> HIDE DEF token
  <2> QED
    BY <2>3, <2>4, EnteringKeepsWords, LeavingKeepsWords, PassingKeepsWords
<1>2. CASE UNCHANGED reasoningVars
  <2>1. /\ fedText' = fedText /\ inThinking' = inThinking /\ heldText' = heldText
        /\ reasoningOut' = reasoningOut /\ contentOut' = contentOut
    BY <1>2 DEF reasoningVars
  <2>2. WordsKeepTheirSide' <=> WordsKeepTheirSide
    BY <2>1 DEF WordsKeepTheirSide, Words, Thought, Within, InOrder
  <2>3. Within(fedText, Len(fedText) + 1)' <=> Within(fedText, Len(fedText) + 1)
    BY <2>1 DEF Within
  <2>4. Has(heldText, CloseTag)' <=> Has(heldText, CloseTag)
    BY <2>1 DEF Has
  <2> QED
    BY <2>1, <2>2, <2>3, <2>4 DEF ReasoningInv
<1> QED
  BY <1>1, <1>2

(* WordsKeepTheirSide for any tokens with one tag at most: each word of a  *)
(* stream is delivered once, in order, and as reasoning exactly if it      *)
(* stands within a block (process_token, both builds).                     *)
THEOREM WordsAreSorted == ReasoningSpec => []WordsKeepTheirSide
<1>1. ReasoningInv => WordsKeepTheirSide
  BY DEF ReasoningInv
<1> QED
  BY <1>1, ReasoningInitInv, ReasoningNextInv, PTL DEF ReasoningSpec
=================================================================================
