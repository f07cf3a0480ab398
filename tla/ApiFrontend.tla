------------------------------- MODULE ApiFrontend -------------------------------
(***************************************************************************)
(* The generation routes of turing/serving/server.py, with the event       *)
(* generators of anthropic_api.py: one HTTP call on one token stream.      *)
(*                                                                         *)
(* A streamed body is the sequence of its events, a token being a "delta". *)
(* Prompts, texts, tools and timings are left out, and what the engine     *)
(* does is TokenStream.                                                    *)
(***************************************************************************)
EXTENDS TokenStream, FiniteSets, Sequences

CONSTANT
  MaxAsked,       (* bound of the model on max_tokens and num_predict      *)
  DefaultTokens   (* 32, what the OpenAI and Anthropic routes take for 0   *)

VARIABLES
  route, streamed, asked,   (* the request                                 *)
  httpStatus,               (* status line sent: 0 for none, 200 or 500    *)
  body,                     (* the events sent                             *)
  usage,                    (* completion tokens reported, -1 for none     *)
  call                      (* "none" until it comes, then "new", "open",  *)
                            (* "closing", and "done" or "broken"           *)

apiVars == <<streamState, route, streamed, asked, httpStatus, body, usage, call>>

OpenAI == {"completions", "chat"}
Ollama == {"api/generate", "api/chat"}
Routes == OpenAI \cup Ollama \cup {"messages"}

(* The events before the first token and after the last one.               *)
Preamble ==
  IF route = "messages" THEN <<"message_start", "content_block_start">> ELSE << >>

(* Mutant: the last event of a stream comes first of the closing ones.     *)
ClosingBackwards ==
  CASE route = "messages" -> <<"message_stop", "content_block_stop", "message_delta">>
    [] route \in Ollama -> <<"done">>
    [] OTHER -> <<"[DONE]", "finish">>

Closing ==
  CASE route = "messages" -> <<"content_block_stop", "message_delta", "message_stop">>
    [] route \in Ollama -> <<"done">>
    [] OTHER -> <<"finish", "[DONE]">>

Terminators == {"message_stop", "done", "[DONE]"}

(* max_new_tokens: "max_tokens or 32", num_predict as it is.               *)
MaxNewTokens(r, n) == IF r \notin Ollama /\ n = 0 THEN DefaultTokens ELSE n

ApiInit ==
  /\ StreamInit
  /\ route \in Routes
  /\ streamed \in BOOLEAN
  /\ asked \in 0 .. MaxAsked
  /\ full = (IF MaxNewTokens(route, asked) = 0 THEN 1 ELSE MaxNewTokens(route, asked))
  /\ httpStatus = 0
  /\ body = << >>
  /\ usage = -1
  /\ call = "none"

request == <<route, streamed, asked>>

(* A client calls the route.                                               *)
CallArrives ==
  /\ call = "none"
  /\ call' = "new"
  /\ UNCHANGED <<streamState, request, httpStatus, body, usage>>

(* The response starts: with a stream, status and headers are sent before  *)
(* the generator is asked for anything, and the preamble follows.          *)
StartStreaming ==
  /\ call = "new" /\ streamed
  /\ httpStatus = 0
  /\ httpStatus' = 200
  /\ UNCHANGED <<streamState, request, body, usage, call>>

SendPreamble ==
  /\ call = "new" /\ streamed /\ httpStatus = 200
  /\ Len(body) < Len(Preamble)
  /\ body' = Append(body, Preamble[Len(body) + 1])
  /\ UNCHANGED <<streamState, request, httpStatus, usage, call>>

MaySubmit ==
  /\ call = "new"
  /\ streamed => httpStatus = 200 /\ Len(body) = Len(Preamble)

(* stream_generate() is entered.  A request that is shed raises: before a  *)
(* response has started this is status 500, within a stream it breaks off. *)
Submitted ==
  /\ MaySubmit
  /\ Open
  /\ reader' = "reading"
  /\ call' = "open"
  /\ UNCHANGED <<request, httpStatus, body, usage>>

Shed ==
  /\ MaySubmit
  /\ Refuse
  /\ call' = "broken"
  /\ httpStatus' = IF streamed THEN httpStatus ELSE 500
  /\ UNCHANGED <<request, body, usage>>

EngineProduces == Produce /\ UNCHANGED <<request, httpStatus, body, usage, call>>

(* async for token_id in token_stream                                      *)
PassToken ==
  /\ call = "open"
  /\ TakeToken
  /\ body' = IF streamed THEN Append(body, "delta") ELSE body
  /\ UNCHANGED <<request, httpStatus, usage, call>>

(* The stream ends; a call that is not streamed answers at once.           *)
StreamEnds ==
  /\ call = "open"
  /\ TakeEnd
  /\ IF streamed
     THEN call' = "closing" /\ UNCHANGED <<httpStatus, usage>>
     ELSE /\ call' = "done"
          /\ httpStatus' = 200
          /\ usage' = taken
  /\ UNCHANGED <<request, body>>

Reports == {"message_delta", "done"}

SentClosing == Len(body) - Len(Preamble) - taken

(* Mutant: the generator stops before its last closing event.              *)
SendClosingButOne ==
  /\ call = "closing"
  /\ SentClosing + 1 < Len(Closing)
  /\ body' = Append(body, Closing[SentClosing + 1])
  /\ UNCHANGED <<streamState, request, httpStatus, usage, call>>

(* The closing events, which report the usage where the protocol has it.   *)
SendClosing ==
  /\ call = "closing"
  /\ LET event == Closing[SentClosing + 1]
     IN /\ body' = Append(body, event)
        /\ usage' = IF event \in Reports THEN taken ELSE usage
        /\ call' = IF SentClosing + 1 = Len(Closing) THEN "done" ELSE call
  /\ UNCHANGED <<streamState, request, httpStatus>>

(* The client of a stream disconnects: the generator is cancelled, and the *)
(* engine is not told.  A call that is not streamed is not cancelled.      *)
Disconnect ==
  /\ streamed /\ call \in {"new", "open", "closing"}
  /\ call' = "broken"
  /\ IF call = "open" THEN LeaveStream ELSE UNCHANGED streamState
  /\ UNCHANGED <<request, httpStatus, body, usage>>

Handler ==
  StartStreaming \/ SendPreamble \/ Submitted \/ Shed \/ PassToken \/ StreamEnds \/ SendClosing

ApiNext == CallArrives \/ Handler \/ EngineProduces \/ Disconnect

(* The event loop runs the handler.  Nothing is assumed of the engine: its *)
(* scheduler may have died, and a low lane may starve.                     *)
ApiSpec == ApiInit /\ [][ApiNext]_apiVars /\ WF_apiVars(Handler)

-----------------------------------------------------------------------------
Deltas == Cardinality({i \in DOMAIN body : body[i] = "delta"})

(* A client can tell an answer that is whole from one that is cut: the     *)
(* terminator of the stream, or a JSON answer with status 200, comes only  *)
(* after every token that was asked for was passed on and counted, and it  *)
(* is the last thing sent.  A call that was shed ends in an error or in a  *)
(* stream that breaks off without any token and terminator (completions,   *)
(* chat_completions, anthropic_messages, ollama_generate, ollama_chat).    *)
ResponseComplete ==
  /\ call = "done" =>
       /\ httpStatus = 200
       /\ taken = full /\ reader = "ended"
       /\ streamed => Deltas = full /\ body[Len(body)] \in Terminators
       /\ route \notin OpenAI \/ ~streamed => usage = full
  /\ \A i \in DOMAIN body : body[i] \in Terminators => i = Len(body) /\ call = "done"
  /\ reader = "rejected" => /\ Deltas = 0 /\ call = "broken"
                            /\ streamed \/ httpStatus # 200

EngineServes == reader = "reading" ~> (produced = full \/ reader # "reading")

(* As long as the engine serves the streams it has opened, every call      *)
(* comes to an end, also one whose engine request outlives it.  The        *)
(* handlers wait for a token without a timeout: a call whose tokens stop   *)
(* coming hangs until its client leaves.                                   *)
ResponsesEnd == EngineServes => (call = "new" ~> call \in {"done", "broken"})

(* docs/serving.md, 12: the shed watermark "Rejects background/batch       *)
(* requests with HTTP 503".  A call that was shed would then have status   *)
(* 503.                                                                    *)
ShedAnswers503 == reader = "rejected" => httpStatus = 503
=============================================================================
