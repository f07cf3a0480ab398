-------------------------- MODULE ContinuousBatchEngine --------------------------
(***************************************************************************)
(* class ContinuousBatchEngine of turing/serving/engine.py, with the       *)
(* AdmissionController, LanePolicy and SpeculationGatePolicy it drives and *)
(* the clients that stream from it.                                        *)
(*                                                                         *)
(* Everything runs on one asyncio loop, so the code between two awaits is  *)
(* one step: add_request (it awaits nothing), one pass of _scheduler_loop  *)
(* up to its sleep, one queue.get() of a client, start(), stop().          *)
(*                                                                         *)
(* An id stands for one AsyncSequenceRequest object; its prompt length,    *)
(* max_new_tokens and lane argument are constants.  With Reuse an id whose *)
(* object is no longer referenced may be submitted again as a new object.  *)
(* The k-th generated token of a request is the number k and the None that *)
(* ends its output_queue is End.  kv is the number of positions in the     *)
(* past_kv tensors, 0 for None.                                            *)
(***************************************************************************)
EXTENDS AdmissionControl, LanePolicy, SpecGate, QueueOrder

CONSTANTS
  PromptLen,      (* [Ids -> Nat]                 len(prompt_tokens)         *)
  MaxNew,         (* [Ids -> Nat]                 max_new_tokens             *)
  LaneArg,        (* [Ids -> Lanes \cup {NoLane}] lane argument of the caller *)
  UseSvd,         (* [Ids -> BOOLEAN]             use_svd_kv                 *)
  BytesPerToken,  (* dense KV bytes of one token                             *)
  MaxBatch,       (* max_batch_size                                          *)
  Distributed,    (* a dist_driver is set: decoding is never batched         *)
  PrefixLen,      (* positions of the prefix that a fork shares              *)
  Forks,          (* the pairs that submit_with_shared_prefix is called with *)
  MayRaise,       (* a forward pass or a sampling may raise                  *)
  MaxContext,     (* bound on kv: a request that dies and is resumed over    *)
                  (* and over feeds tokens again without an end              *)
  Reuse           (* ids are submitted again                                 *)

ASSUME EngineAssumption ==
  /\ PromptLen \in [Ids -> Nat]
  /\ MaxNew \in [Ids -> Nat]
  /\ LaneArg \in [Ids -> Lanes \cup {NoLane}]
  /\ UseSvd \in [Ids -> BOOLEAN]
  /\ BytesPerToken \in Nat
  /\ MaxBatch \in Nat \ {0}
  /\ Distributed \in BOOLEAN
  /\ PrefixLen \in Nat
  /\ Forks \subseteq {f \in Ids \X Ids : f[1] # f[2]}
  /\ MayRaise \in BOOLEAN
  /\ MaxContext \in Nat
  /\ Reuse \in BOOLEAN

VARIABLES
  st,         (* state of each request; "NEW" before its construction       *)
  offset,     (* prefill_offset                                             *)
  generated,  (* len(generated_tokens)                                      *)
  kv,         (* positions held by past_kv                                  *)
  base,       (* positions past_kv had when the request was submitted       *)
  out,        (* output_queue                                               *)
  got,        (* tokens its client has taken                                *)
  client,     (* what the client of the request does                        *)
  waiting,    (* waiting_queue                                              *)
  running,    (* running_batch                                              *)
  loop,       (* the scheduler task: "none", "running", or "dead" of an     *)
              (* exception, which leaves is_running set                     *)
  mode        (* mode of the speculation gate                               *)

requestVars == <<st, offset, generated, kv, base>>
streamVars == <<out, got, client>>
vars == <<requestVars, streamVars, waiting, running, loop, mode, admissionVars>>

End == 0

Live == {"WAITING", "PREFILLING", "DECODING"}
Lane(r) == LaneFor(LaneArg[r], MaxNew[r])
Key == [r \in Ids |-> SortKey(Lane(r))]

(* KVMemoryEstimator.estimate_kv_bytes; the svd ratio is 0.75.             *)
EstimateKvBytes(r, svd) ==
  LET dense == (PromptLen[r] + MaxNew[r]) * BytesPerToken
  IN IF svd THEN dense \div 4 ELSE dense

(* A request that runs to its end generates at least one token.            *)
FullLength(r) == IF MaxNew[r] = 0 THEN 1 ELSE MaxNew[r]

-----------------------------------------------------------------------------
Init ==
  /\ st = [r \in Ids |-> "NEW"]
  /\ offset = [r \in Ids |-> 0]
  /\ generated = [r \in Ids |-> 0]
  /\ kv = [r \in Ids |-> 0]
  /\ base = [r \in Ids |-> 0]
  /\ out = [r \in Ids |-> <<>>]
  /\ got = [r \in Ids |-> 0]
  /\ client = [r \in Ids |-> "idle"]
  /\ waiting = <<>>
  /\ running = <<>>
  /\ loop = "none"
  /\ mode = "full_spec"
  /\ AdmissionInit

(* Mutant: a start begins with an empty queue.                             *)
StartFresh ==
  /\ loop = "none"
  /\ loop' = "running"
  /\ waiting' = <<>>
  /\ UNCHANGED <<requestVars, streamVars, running, mode, admissionVars>>

(* start() and stop().  stop() cancels the task at its sleep; awaiting a   *)
(* task that died raises again, after is_running has been cleared.         *)
Start ==
  /\ loop = "none"
  /\ loop' = "running"
  /\ UNCHANGED <<requestVars, streamVars, waiting, running, mode, admissionVars>>

Stop ==
  /\ loop # "none"
  /\ loop' = "none"
  /\ UNCHANGED <<requestVars, streamVars, waiting, running, mode, admissionVars>>

-----------------------------------------------------------------------------
(* The id can name a new request object.                                   *)
Vacant(r) ==
  \/ st[r] = "NEW"
  \/ /\ Reuse
     /\ st[r] = "FINISHED"
     /\ client[r] # "reading"
     /\ r \notin Items(running)

(* New objects: those of the sequence q have joined the waiting queue with *)
(* a past_kv of prefix positions, those of R were shed by add_request.     *)
Enter(q, R, prefix, reader) ==
  LET A == Items(q)
      Fresh(f, v) == [r \in Ids |-> IF r \in A \cup R THEN v ELSE f[r]]
  IN /\ st' = [r \in Ids |-> IF r \in A THEN "WAITING"
                             ELSE IF r \in R THEN "FINISHED" ELSE st[r]]
     /\ offset' = Fresh(offset, 0)
     /\ generated' = Fresh(generated, 0)
     /\ got' = Fresh(got, 0)
     /\ kv' = [r \in Ids |-> IF r \in A THEN prefix ELSE Fresh(kv, 0)[r]]
     /\ base' = [r \in Ids |-> IF r \in A THEN prefix ELSE Fresh(base, 0)[r]]
     /\ out' = [r \in Ids |-> IF r \in R THEN <<End>> ELSE Fresh(out, <<>>)[r]]
     /\ client' = [r \in Ids |-> IF r \in A THEN reader
                                 ELSE IF r \in R THEN "rejected" ELSE client[r]]
     /\ waiting' = waiting \o q
     /\ UNCHANGED <<running, loop, mode>>

(* stream_generate(): add_request() and the first wait for a token.  Only  *)
(* SHED is refused; a request that was answered QUEUE is enqueued like an  *)
(* admitted one, with nothing charged for it.                              *)
Submit(r) ==
  LET est == EstimateKvBytes(r, UseSvd[r])
  IN /\ Vacant(r)
     /\ \/ /\ Decision(allocatedTotal, est) = "shed"
           /\ Enter(<<>>, {r}, 0, "reading")
           /\ UNCHANGED admissionVars
        \/ /\ Decision(allocatedTotal, est) = "queue"
           /\ Enter(<<r>>, {}, 0, "reading")
           /\ UNCHANGED admissionVars
        \/ /\ Admit(r, est)
           /\ Enter(<<r>>, {}, 0, "reading")

(* submit_with_shared_prefix() for two branches.  When the second is shed  *)
(* the call raises with the first one queued: it will run, unread.         *)
Fork(a, b) ==
  LET estA == EstimateKvBytes(a, FALSE)
      estB == EstimateKvBytes(b, FALSE)
      forA == Decision(allocatedTotal, estA)
      owedA == IF forA = "admit" THEN estA - allocated[a] ELSE 0
      forB == Decision(allocatedTotal + owedA, estB)
      owedB == IF forB = "admit" THEN estB - allocated[b] ELSE 0
  IN /\ Vacant(a)
     /\ Vacant(b)
     /\ \/ /\ forA = "shed"
           /\ Enter(<<>>, {a}, PrefixLen, "reading")
           /\ UNCHANGED admissionVars
        \/ /\ forA # "shed"
           /\ forB = "shed"
           /\ Enter(<<a>>, {b}, PrefixLen, "gone")
           /\ allocated' = [allocated EXCEPT ![a] = IF forA = "admit" THEN estA ELSE @]
           /\ allocatedTotal' = allocatedTotal + owedA
        \/ /\ forA # "shed"
           /\ forB # "shed"
           /\ Enter(<<a, b>>, {}, PrefixLen, "reading")
           /\ allocated' = [allocated EXCEPT ![a] = IF forA = "admit" THEN estA ELSE @,
                                             ![b] = IF forB = "admit" THEN estB ELSE @]
           /\ allocatedTotal' = allocatedTotal + owedA + owedB

(* The client takes one item of its stream.                                *)
Read(r) ==
  /\ client[r] = "reading"
  /\ out[r] # <<>>
  /\ out' = [out EXCEPT ![r] = Tail(@)]
  /\ \/ /\ Head(out[r]) = End
        /\ client' = [client EXCEPT ![r] = "ended"]
        /\ UNCHANGED got
     \/ /\ Head(out[r]) # End
        /\ got' = [got EXCEPT ![r] = Head(out[r])]
        /\ UNCHANGED client
  /\ UNCHANGED <<requestVars, waiting, running, loop, mode, admissionVars>>

(* The client closes its stream early; the engine is not told.             *)
Abandon(r) ==
  /\ client[r] = "reading"
  /\ client' = [client EXCEPT ![r] = "gone"]
  /\ UNCHANGED <<requestVars, out, got, waiting, running, loop, mode, admissionVars>>

-----------------------------------------------------------------------------
(* Mutant: the lanes are ignored.                                          *)
NotSorted == {waiting}

(* Mutant: the newest request is taken first.                              *)
NewestFirst == {[i \in DOMAIN waiting |-> waiting[Len(waiting) + 1 - i]]}

(* One pass of _scheduler_loop: sort, seat, step.                          *)
QueueSorts == IF PolicyOn THEN StableSorts(waiting, Key) ELSE {waiting}

Seated(order) ==
  LET free == Monus(MaxBatch, Len(running))
  IN SubSeq(order, 1, IF Len(order) < free THEN Len(order) ELSE free)

(* Mutant: seated requests are not taken out of the queue.                 *)
StillQueued(order) == order

Unseated(order) == SubSeq(order, Len(Seated(order)) + 1, Len(order))

Batch(order) == running \o Seated(order)

(* state and prefill_offset once the seated requests have been marked.     *)
StateIn(order) ==
  [r \in Ids |-> IF r \in Items(Seated(order)) THEN "PREFILLING" ELSE st[r]]
OffsetIn(order) ==
  [r \in Ids |-> IF r \in Items(Seated(order)) THEN 0 ELSE offset[r]]

In(b, s, state) == {r \in Items(b) : s[r] = state}

(* Mutant: nothing is decoded in a pass that prefills.                     *)
DecodersIfIdle(b, s) ==
  IF In(b, s, "PREFILLING") = {} THEN In(b, s, "DECODING") ELSE {}

(* decode_reqs                                                             *)
Decoders(b, s) == In(b, s, "DECODING")

(* prefill_reqs[0], as a set that is empty when nothing is prefilling.     *)
Prefilled(b, s) == FirstIn(b, In(b, s, "PREFILLING"))

(* Mutant: the last chunk is not cut to the end of the prompt.             *)
ChunkEndUncut(r, o) == o[r] + ChunkBudget(Lane(r))

ChunkEnd(r, o) ==
  IF o[r] + ChunkBudget(Lane(r)) < PromptLen[r]
  THEN o[r] + ChunkBudget(Lane(r)) ELSE PromptLen[r]

(* Mutant: the end of the stream is announced one token early.             *)
EndsEarly(r) == generated[r] + 2 >= MaxNew[r]

(* max_new_tokens is reached with the next token.                          *)
Ends(r) == generated[r] + 1 >= MaxNew[r]

(* What _step_batch leaves of the requests when P got a chunk of their     *)
(* prompt, Done of them their last one, Fed was run through the model for  *)
(* one token and Emit sampled a token; _finish_request for those that end. *)
Effects(P, Done, Fed, Emit, s, o) ==
  LET Finished == {r \in Emit : Ends(r)}
  IN /\ st' = [r \in Ids |-> IF r \in Finished THEN "FINISHED"
                             ELSE IF r \in Done THEN "DECODING" ELSE s[r]]
     /\ offset' = [r \in Ids |-> IF r \in P THEN ChunkEnd(r, o) ELSE o[r]]
     /\ generated' = [r \in Ids |-> IF r \in Emit THEN generated[r] + 1 ELSE generated[r]]
     /\ kv' = [r \in Ids |-> IF r \in Finished THEN 0
                             ELSE IF r \in P THEN kv[r] + (ChunkEnd(r, o) - o[r])
                             ELSE IF r \in Fed THEN kv[r] + 1 ELSE kv[r]]
     /\ out' = [r \in Ids |-> out[r]
                  \o (IF r \in Emit THEN <<generated[r] + 1>> ELSE <<>>)
                  \o (IF r \in Finished THEN <<End>> ELSE <<>>)]
     /\ ReleaseAll(Finished)
     /\ UNCHANGED <<base, got, client>>

CanFeed(r) == generated[r] > 0

(* _step_batch: one chunk for the first prefilling request, one token for  *)
(* every request that was decoding when the step began, and the finished   *)
(* requests leave the batch.  current_input is None for a request without  *)
(* a token, and an empty prompt has no last position to sample from: the   *)
(* step would raise.                                                       *)
StepBatch(b, s, o) ==
  LET P == Prefilled(b, s)
      Done == {r \in P : ChunkEnd(r, o) >= PromptLen[r]}
      D == Decoders(b, s)
  IN /\ \A r \in Done : PromptLen[r] > 0
     /\ \A r \in D : CanFeed(r)
     /\ Effects(P, Done, D, Done \cup D, s, o)
     /\ running' \in Keeping(b, {r \in Ids : st'[r] # "FINISHED"})

Iterate ==
  /\ loop = "running"
  /\ mode' = GateDecision(mode, Len(running))
  /\ \E order \in QueueSorts :
       /\ waiting' = Unseated(order)
       /\ IF Batch(order) = <<>>
          THEN UNCHANGED <<requestVars, streamVars, running, admissionVars>>
          ELSE StepBatch(Batch(order), StateIn(order), OffsetIn(order))
  /\ UNCHANGED loop

(* The decoding requests that come before d in the batch.                  *)
Before(b, D, d) ==
  {r \in D : \E i, j \in DOMAIN b : i < j /\ b[i] = r /\ b[j] = d}

(* _step_batch when something in it raises, with what was done before: the *)
(* first prefilling request's forward pass; the sampling of its first      *)
(* token; the decoding of d.  Batched decoding runs every model before it  *)
(* samples any token, otherwise each request is decoded in turn.           *)
RaiseIn(b, s, o) ==
  LET P == Prefilled(b, s)
      Done == {r \in P : ChunkEnd(r, o) >= PromptLen[r]}
      D == Decoders(b, s)
      Fine == \A r \in Done : PromptLen[r] > 0
      Batched == ~Distributed /\ \E r, q \in D : r # q
  IN \/ /\ MayRaise /\ P # {}
        /\ Effects({}, {}, {}, {}, s, o)
     \/ /\ Done # {} /\ (MayRaise \/ ~Fine)
        /\ Effects(P, Done, {}, {}, s, o)
     \/ /\ Fine
        /\ \E d \in D :
             /\ \A r \in Before(b, D, d) : CanFeed(r)
             /\ MayRaise \/ ~CanFeed(d)
             /\ IF Batched
                THEN Effects(P, Done, Before(b, D, d), Done, s, o)
                ELSE Effects(P, Done, Before(b, D, d), Done \cup Before(b, D, d), s, o)
     \/ /\ Fine /\ MayRaise
        /\ \E d \in D :
             /\ \A r \in Before(b, D, d) \cup {d} : CanFeed(r)
             /\ IF Batched
                THEN /\ \A r \in D : CanFeed(r)
                     /\ Effects(P, Done, D, Done, s, o)
                ELSE Effects(P, Done, Before(b, D, d) \cup {d}, Done \cup Before(b, D, d), s, o)

(* The exception ends the scheduler task.  The batch is not filtered, and  *)
(* is_running stays set, so that start() does nothing until a stop().      *)
IterateRaises ==
  /\ loop = "running"
  /\ mode' = GateDecision(mode, Len(running))
  /\ \E order \in QueueSorts :
       /\ waiting' = Unseated(order)
       /\ running' = Batch(order)
       /\ RaiseIn(Batch(order), StateIn(order), OffsetIn(order))
  /\ \A r \in Ids : kv'[r] <= MaxContext
  /\ loop' = "dead"

Next ==
  \/ Start
  \/ Stop
  \/ \E r \in Ids : Submit(r)
  \/ \E f \in Forks : Fork(f[1], f[2])
  \/ \E r \in Ids : Read(r)
  \/ \E r \in Ids : Abandon(r)
  \/ Iterate
  \/ IterateRaises

(* The event loop keeps scheduling its tasks: the scheduler task and the   *)
(* clients that wait for a token.  Nobody has to call the engine.          *)
Fairness == WF_vars(Iterate) /\ \A r \in Ids : WF_vars(Read(r))

Spec == Init /\ [][Next]_vars

FairSpec == Spec /\ Fairness

-----------------------------------------------------------------------------
(* The variables hold what the attributes of the Python objects can hold.  *)
EngineTypeOK ==
  /\ st \in [Ids -> Live \cup {"NEW", "FINISHED"}]
  /\ offset \in [Ids -> Nat]
  /\ generated \in [Ids -> Nat]
  /\ kv \in [Ids -> Nat]
  /\ base \in [Ids -> {0, PrefixLen}]
  /\ out \in [Ids -> Seq(Nat)]
  /\ got \in [Ids -> Nat]
  /\ client \in [Ids -> {"idle", "reading", "ended", "rejected", "gone"}]
  /\ waiting \in Seq(Ids)
  /\ running \in Seq(Ids)
  /\ loop \in {"none", "running", "dead"}
  /\ mode \in Modes
  /\ AdmissionTypeOK

(* The tokens from + 1 to upto in order, and then as many Ends.            *)
Stream(from, upto, ends) ==
  [i \in 1..(upto - from + ends) |-> IF i <= upto - from THEN from + i ELSE End]

(* What is left in the output queue of r when its client has taken got[r]  *)
(* tokens: the other tokens in order, then End once r has finished.        *)
Unread(r) ==
  Stream(got[r], generated[r], IF st[r] = "FINISHED" /\ client[r] # "ended" THEN 1 ELSE 0)

(* Every client sees exactly the tokens that were generated, in order, and *)
(* then one None: no token is lost, repeated or put behind the None, and   *)
(* the None comes with the last token that was asked for (_step_batch,     *)
(* _finish_request, stream_generate), however loop, client, stop, crash    *)
(* and restart interleave.                                                 *)
StreamExact ==
  \A r \in Ids :
    /\ got[r] <= generated[r]
    /\ generated[r] <= FullLength(r)
    /\ out[r] = Unread(r)
    /\ client[r] = "ended" => st[r] = "FINISHED" /\ got[r] = generated[r]
    /\ st[r] = "FINISHED" /\ client[r] # "rejected" => generated[r] = FullLength(r)

(* A request that was accepted is in exactly one place, once: the waiting  *)
(* queue until it is seated, then the batch until it ends.  The scheduler  *)
(* neither loses nor duplicates a request when it sorts, seats, filters,   *)
(* dies in the middle of a step or is restarted.                           *)
OnePlace ==
  /\ Injective(waiting) /\ Injective(running)
  /\ Items(waiting) = {r \in Ids : st[r] = "WAITING"}
  /\ {r \in Items(running) : st[r] # "FINISHED"}
       = {r \in Ids : st[r] \in {"PREFILLING", "DECODING"}}
  /\ Len(running) <= MaxBatch

(* The stream of one request, whose reader is its client.                  *)
StreamOf(r) ==
  INSTANCE TokenStream WITH
    full <- FullLength(r), produced <- generated[r], taken <- got[r],
    reader <- IF client[r] = "idle" THEN "none" ELSE client[r]

(* Each request is a token stream of its own, however the requests share   *)
(* the batch: what the HTTP handlers rely on (stream_generate).            *)
StreamsSpec ==
  /\ \A r \in Ids : StreamOf(r)!StreamInit
  /\ [][\A r \in Ids : [StreamOf(r)!StreamNext]_(StreamOf(r)!streamState)]_vars

(* Budget is charged only to requests that are queued or running, with the *)
(* estimate of that request: whatever ends a request returns its bytes.    *)
ChargedAreLive ==
  \A r \in Ids : allocated[r] > 0 =>
    /\ st[r] \in Live
    /\ allocated[r] \in {EstimateKvBytes(r, UseSvd[r]), EstimateKvBytes(r, FALSE)}

(* The KV state of a live request covers the prefix it was forked from,    *)
(* the prompt it has prefilled and every generated token but the last, so  *)
(* no position of its context is skipped or fed twice; a finished request  *)
(* holds none.                                                             *)
ContextExact ==
  \A r \in Ids :
    /\ st[r] \in Live =>
         kv[r] = base[r] + offset[r] + (IF generated[r] = 0 THEN 0 ELSE generated[r] - 1)
    /\ st[r] = "DECODING" => offset[r] = PromptLen[r] /\ generated[r] > 0
    /\ st[r] = "FINISHED" => kv[r] = 0

(* The batch gives first tokens in the order in which it seated requests:  *)
(* nobody is overtaken while it prefills.                                  *)
FirstTokensInOrder ==
  \A i, j \in DOMAIN running :
    i < j /\ generated[running[j]] > 0 => generated[running[i]] > 0

(* What the waiting queue is sorted by, if it is sorted.                   *)
Urgency(r) == IF PolicyOn THEN Key[r] ELSE 0

(* A pass seats no request while one of a more urgent lane, or an earlier  *)
(* one of the same lane, is left waiting.                                  *)
SeatsInLaneOrder ==
  [][\A i, j \in DOMAIN waiting :
       st'[waiting[i]] # "WAITING" /\ st'[waiting[j]] = "WAITING" =>
         \/ Urgency(waiting[i]) < Urgency(waiting[j])
         \/ Urgency(waiting[i]) = Urgency(waiting[j]) /\ i < j]_vars

(* Chunked prefill does not hold up decoding: whenever a prompt chunk is   *)
(* fed, every request that was decoding gets a token in the same pass.     *)
PrefillNeverStallsDecode ==
  [][(\E r \in Ids : offset'[r] > offset[r]) =>
       \A q \in Ids : st[q] = "DECODING" => generated'[q] = generated[q] + 1]_vars

SchedulerStays == <>[](loop = "running")

(* A lower lane starves while others submit for ever.                      *)
ClientsRest == <>[][\A r \in Ids : st'[r] = "WAITING" => st[r] = "WAITING"]_vars

(* Every request that was accepted finishes and gives back its budget once *)
(* the scheduler is left running and nobody submits more, also one whose   *)
(* client has gone away, one orphaned by a fork that failed half-way, and  *)
(* one that was queued or in the batch when the engine was stopped and     *)
(* started again (_scheduler_loop, start, stop).                           *)
AcceptedFinish ==
  SchedulerStays /\ ClientsRest =>
    \A r \in Ids : st[r] = "WAITING" ~> st[r] = "FINISHED" /\ allocated[r] = 0

(* Under the same conditions every client that keeps reading comes to the  *)
(* end of its stream (stream_generate).                                    *)
StreamsEnd ==
  SchedulerStays /\ ClientsRest => \A r \in Ids : client[r] = "reading" ~> client[r] # "reading"

(* A request of the most urgent lane is served however many requests the   *)
(* other clients go on submitting.                                         *)
UrgentServed ==
  SchedulerStays =>
    \A r \in {q \in Ids : Urgency(q) = 0} : st[r] = "WAITING" ~> st[r] = "DECODING"

-----------------------------------------------------------------------------
(* docs/architecture.md, 14: the dual watermarks "completely prevent       *)
(* host/GPU memory exhaustion"; docs/serving.md, 12: the high one queues   *)
(* requests "before physical memory is exhausted".  The bytes of the KV    *)
(* states that the requests hold would then stay within the budget.        *)
HeldWithinBudget == BytesOf([r \in Ids |-> kv[r] * BytesPerToken], Ids) <= Budget

(* engine.py, _step_batch: "Process highest priority prefill request".     *)
(* No other request of the batch that waits for its prompt would then be   *)
(* more urgent than the one that gets a chunk.                             *)
PrefillsMostUrgent ==
  [][\A r, q \in Ids :
       st[r] = "PREFILLING" /\ offset'[r] > offset[r] /\ st[q] = "PREFILLING"
         => Urgency(r) <= Urgency(q)]_vars
=============================================================================
