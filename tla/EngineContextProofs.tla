-------------------------- MODULE EngineContextProofs ---------------------------
(***************************************************************************)
(* Proofs about what a pass of ContinuousBatchEngine leaves of the KV      *)
(* state and of the order of first tokens, and that prefilling never holds *)
(* up decoding, for every set of requests, batch size, chunk size and      *)
(* prompt, in an engine in which no forward pass raises and no prompt is   *)
(* empty; and, also when passes do raise, that requests are seated in the  *)
(* order of their lanes and that the engine implements one token stream    *)
(* for each request.                                                       *)
(***************************************************************************)
EXTENDS ContinuousBatchEngineProofs

(* Nothing in a pass of the scheduler raises.                              *)
NoFaults == ~MayRaise /\ \A r \in Ids : PromptLen[r] > 0

-----------------------------------------------------------------------------
(* A request that has not run yet is at the start of its prompt, and one   *)
(* that still prefills has no token.                                       *)
UnfedIsFresh ==
  \A r \in Ids :
    /\ st[r] = "WAITING" => offset[r] = 0
    /\ st[r] \in {"WAITING", "PREFILLING"} => generated[r] = 0

(* Only an exception leaves a finished request in the batch.               *)
BatchIsLive == \A r \in Items(running) : st[r] # "FINISHED"

(* The inductive invariant, on top of EngineInv.                           *)
ContextInv ==
  /\ EngineInv
  /\ ContextExact
  /\ UnfedIsFresh
  /\ BatchIsLive
  /\ FirstTokensInOrder

LEMMA ContextInitInv == Init => ContextInv
<1> SUFFICES ASSUME Init PROVE ContextInv
  OBVIOUS
<1>1. EngineInv
  BY EngineInitInv
<1>2. ContextExact /\ UnfedIsFresh
  BY DEF Init, ContextExact, UnfedIsFresh, Live
<1>3. running = <<>> /\ DOMAIN running = {} /\ Items(running) = {}
  BY NoItems DEF Init
<1> QED
  BY <1>1, <1>2, <1>3 DEF ContextInv, BatchIsLive, FirstTokensInOrder

(* Clients that read or leave, and start() and stop(), do not touch it.    *)
LEMMA StutterKeepsContext ==
  ASSUME ContextInv, EngineInv', UNCHANGED <<requestVars, running>>
  PROVE  ContextInv'
<1> USE DEF ContextInv, requestVars
<1>1. ContextExact' /\ UnfedIsFresh'
  BY DEF ContextExact, UnfedIsFresh
<1>2. BatchIsLive' /\ FirstTokensInOrder'
  BY DEF BatchIsLive, FirstTokensInOrder, Items
<1> QED
  BY <1>1, <1>2

(* New requests come with a KV state of exactly their prefix, and take no  *)
(* id that the batch still uses.                                           *)
LEMMA EnterKeepsContext ==
  ASSUME ContextInv, EngineInv',
         NEW q \in Seq(Ids), NEW R \in SUBSET Ids, NEW prefix \in {0, PrefixLen}, NEW reader,
         \A r \in Items(q) \cup R : Vacant(r),
         Enter(q, R, prefix, reader)
  PROVE  ContextInv'
<1> DEFINE A == Items(q)
<1> USE DEF ContextInv
<1>1. /\ st' = [r \in Ids |-> IF r \in A THEN "WAITING"
                              ELSE IF r \in R THEN "FINISHED" ELSE st[r]]
      /\ offset' = [r \in Ids |-> IF r \in A \cup R THEN 0 ELSE offset[r]]
      /\ generated' = [r \in Ids |-> IF r \in A \cup R THEN 0 ELSE generated[r]]
      /\ \A r \in Ids : kv'[r] = IF r \in A THEN prefix ELSE IF r \in R THEN 0 ELSE kv[r]
      /\ \A r \in Ids : base'[r] = IF r \in A THEN prefix ELSE IF r \in R THEN 0 ELSE base[r]
      /\ running' = running
  BY DEF Enter
<1>2. \A r \in Items(running) : r \in Ids /\ r \notin A \cup R
  <2>1. running \in Seq(Ids) /\ Items(running) \subseteq Ids
    BY ItemsAmong DEF EngineInv, EngineTypeOK
  <2>2. \A r \in Items(running) : st[r] \in {"PREFILLING", "DECODING"}
    BY DEF EngineInv, OnePlace, BatchIsLive
  <2>3. \A r \in A \cup R : st[r] \in {"NEW", "FINISHED"}
    BY DEF Vacant
  <2> QED
    BY <2>1, <2>2, <2>3
<1> HIDE DEF A
<1>3. prefix \in Nat /\ EngineTypeOK
  BY EngineAssumption DEF EngineInv
<1>4. ContextExact'
  <2> SUFFICES ASSUME NEW r \in Ids
               PROVE /\ st'[r] \in Live => kv'[r] = base'[r] + offset'[r]
                            + (IF generated'[r] = 0 THEN 0 ELSE generated'[r] - 1)
                     /\ st'[r] = "DECODING" => offset'[r] = PromptLen[r] /\ generated'[r] > 0
                     /\ st'[r] = "FINISHED" => kv'[r] = 0
    BY DEF ContextExact
  <2>1. CASE r \in A
    BY <1>1, <1>3, <2>1
  <2>2. CASE r \notin A /\ r \in R
    BY <1>1, <2>2 DEF Live
  <2>3. CASE r \notin A \cup R
    BY <1>1, <2>3 DEF ContextExact
  <2> QED
    BY <2>1, <2>2, <2>3
<1>5. UnfedIsFresh'
  BY <1>1 DEF UnfedIsFresh
<1>6. BatchIsLive'
  <2>1. Items(running)' = Items(running)
    BY <1>1 DEF Items
  <2>2. \A r \in Items(running) : st'[r] = st[r]
    BY <1>1, <1>2
  <2> QED
    BY <2>1, <2>2 DEF BatchIsLive
<1>7. FirstTokensInOrder'
  <2>1. \A i \in DOMAIN running : running[i] \in Items(running)
    BY DEF Items
  <2>2. \A i \in DOMAIN running : generated'[running[i]] = generated[running[i]]
    BY <1>1, <1>2, <2>1
  <2>3. SUFFICES ASSUME NEW i \in DOMAIN running, NEW j \in DOMAIN running,
                        i < j, generated'[running[j]] > 0
                 PROVE  generated'[running[i]] > 0
    BY <1>1 DEF FirstTokensInOrder
  <2>4. generated[running[i]] > 0
    BY <2>2, <2>3 DEF FirstTokensInOrder
  <2> QED
    BY <2>2, <2>4
<1> QED
  BY <1>4, <1>5, <1>6, <1>7

LEMMA SubmitKeepsContext ==
  ASSUME ContextInv, EngineInv', NEW r \in Ids, Submit(r)
  PROVE  ContextInv'
<1>1. Vacant(r) /\ (Enter(<<>>, {r}, 0, "reading") \/ Enter(<<r>>, {}, 0, "reading"))
  BY DEF Submit
<1>2. <<>> \in Seq(Ids) /\ <<r>> \in Seq(Ids) /\ Items(<<>>) = {} /\ Items(<<r>>) = {r}
  BY NoItems, OneItem
<1> HIDE DEF Vacant
<1>3. CASE Enter(<<>>, {r}, 0, "reading")
  BY <1>1, <1>2, <1>3, EnterKeepsContext
<1>4. CASE Enter(<<r>>, {}, 0, "reading")
  BY <1>1, <1>2, <1>4, EnterKeepsContext
<1> QED
  BY <1>1, <1>3, <1>4

LEMMA ForkKeepsContext ==
  ASSUME ContextInv, EngineInv', NEW a \in Ids, NEW c \in Ids, a # c, Fork(a, c)
  PROVE  ContextInv'
<1>1. /\ Vacant(a) /\ Vacant(c)
      /\ \/ Enter(<<>>, {a}, PrefixLen, "reading")
         \/ Enter(<<a>>, {c}, PrefixLen, "gone")
         \/ Enter(<<a, c>>, {}, PrefixLen, "reading")
  BY DEF Fork
<1>2. /\ <<>> \in Seq(Ids) /\ <<a>> \in Seq(Ids) /\ <<a, c>> \in Seq(Ids)
      /\ Items(<<>>) = {} /\ Items(<<a>>) = {a} /\ Items(<<a, c>>) = {a, c}
  BY NoItems, OneItem, TwoItems
<1>3. CASE Enter(<<>>, {a}, PrefixLen, "reading")
  BY <1>1, <1>2, <1>3, EnterKeepsContext
<1>4. CASE Enter(<<a>>, {c}, PrefixLen, "gone")
  BY <1>1, <1>2, <1>4, EnterKeepsContext
<1>5. CASE Enter(<<a, c>>, {}, PrefixLen, "reading")
  BY <1>1, <1>2, <1>5, EnterKeepsContext
<1> QED
  BY <1>1, <1>3, <1>4, <1>5

-----------------------------------------------------------------------------
(* A step of a batch that is not empty: P got a chunk, Done the last one,  *)
(* D are the decoding requests.                                            *)
LEMMA PassKeepsContext ==
  ASSUME ContextInv, EngineInv', NEW order \in QueueSorts,
         NEW P, NEW Done, NEW D,
         P = Prefilled(Batch(order), StateIn(order)),
         Done = {r \in P : ChunkEnd(r, OffsetIn(order)) >= PromptLen[r]},
         D = Decoders(Batch(order), StateIn(order)),
         Effects(P, Done, D, Done \cup D, StateIn(order), OffsetIn(order)),
         running' \in Keeping(Batch(order), {r \in Ids : st'[r] # "FINISHED"})
  PROVE  ContextInv'
<1> DEFINE b == Batch(order)
           S == Items(Seated(order))
           s == StateIn(order)
           o == OffsetIn(order)
           Emit == Done \cup D
           Finished == {r \in Emit : Ends(r)}
<1> USE DEF ContextInv
<1>1. /\ b \in Seq(Ids) /\ Injective(b)
      /\ Items(b) = Items(running) \cup S
      /\ S \subseteq {r \in Ids : st[r] = "WAITING"}
  BY PassLists
<1>2. EngineTypeOK /\ running \in Seq(Ids) /\ Len(running) \in Nat
  BY LenProperties DEF EngineInv, EngineTypeOK
<1>3. /\ s = [r \in Ids |-> IF r \in S THEN "PREFILLING" ELSE st[r]]
      /\ o = [r \in Ids |-> IF r \in S THEN 0 ELSE offset[r]]
  BY DEF StateIn, OffsetIn
<1>4. /\ st' = [r \in Ids |-> IF r \in Finished THEN "FINISHED"
                             ELSE IF r \in Done THEN "DECODING" ELSE s[r]]
      /\ offset' = [r \in Ids |-> IF r \in P THEN ChunkEnd(r, o) ELSE o[r]]
      /\ generated' = [r \in Ids |-> IF r \in Emit THEN generated[r] + 1 ELSE generated[r]]
      /\ kv' = [r \in Ids |-> IF r \in Finished THEN 0
                             ELSE IF r \in P THEN kv[r] + (ChunkEnd(r, o) - o[r])
                             ELSE IF r \in D THEN kv[r] + 1 ELSE kv[r]]
      /\ base' = base
  BY DEF Effects
<1>5. /\ P \subseteq {r \in Items(b) : s[r] = "PREFILLING"}
      /\ D = {r \in Items(b) : s[r] = "DECODING"}
  BY DEF Prefilled, FirstIn, Decoders, In
<1>6. \A r \in P : \E n \in DOMAIN b : b[n] = r /\ \A m \in DOMAIN b : m < n => s[b[m]] # "PREFILLING"
  BY DEF Prefilled, FirstIn, In, Items
<1>7. Items(b) \subseteq Ids
  <2> HIDE DEF b
  <2> QED BY <1>1, ItemsAmong
<1>8. Finished \subseteq Emit
  OBVIOUS
<1>9. /\ \A n \in DOMAIN b : b[n] \in Items(b)
      /\ \A n \in DOMAIN b : IF n \in DOMAIN running THEN b[n] = running[n] ELSE b[n] \in S
      /\ \A m, n \in DOMAIN b : m < n /\ n \in DOMAIN running => m \in DOMAIN running
  <2>1. Seated(order) \in Seq(Ids)
    BY PassLists
  <2>2. /\ DOMAIN running = 1..Len(running) /\ DOMAIN Seated(order) = 1..Len(Seated(order))
        /\ Len(Seated(order)) \in Nat
        /\ DOMAIN b = 1..(Len(running) + Len(Seated(order)))
        /\ \A n \in DOMAIN b : b[n] = IF n <= Len(running) THEN running[n]
                                      ELSE Seated(order)[n - Len(running)]
    BY <1>2, <2>1, LenProperties, ConcatProperties DEF Batch
  <2>3. \A n \in DOMAIN Seated(order) : Seated(order)[n] \in S
    BY DEF Items
  <2> HIDE DEF S, b
  <2>4. \A n \in DOMAIN b : n > Len(running) => n - Len(running) \in DOMAIN Seated(order)
    BY <1>2, <2>2
  <2> QED
    BY <1>2, <2>2, <2>3, <2>4 DEF Items
<1> HIDE DEF b, S, s, o, Emit, Finished
<1>10. \A r \in Ids : r \in P => r \notin D
  BY <1>5
<1>11. \A r \in Ids : s[r] \in {"WAITING", "PREFILLING"} => generated[r] = 0 /\ o[r] = offset[r]
  BY <1>1, <1>3 DEF UnfedIsFresh
<1>12. \A r \in Ids : s[r] \in Live => st[r] \in Live /\ o[r] = offset[r]
  BY <1>1, <1>3 DEF UnfedIsFresh, Live
<1>13. \A r \in Ids : s[r] = "DECODING" => st[r] = "DECODING" /\ generated[r] > 0
  BY <1>3 DEF ContextExact
<1>14. o \in [Ids -> Nat] /\ \A r \in Ids : o[r] <= PromptLen[r] /\ PromptLen[r] \in Nat
  BY <1>2, <1>3, EngineAssumption DEF EngineInv, OffsetInPrompt, EngineTypeOK
<1>15. \A r \in Ids : ChunkEnd(r, o) \in Nat /\ ChunkEnd(r, o) <= PromptLen[r]
  BY <1>14, ChunkType
<1>16. \A r \in Done : r \in P /\ ChunkEnd(r, o) = PromptLen[r]
  <2>1. \A r \in Done : r \in P /\ r \in Ids /\ ChunkEnd(r, o) >= PromptLen[r]
    BY <1>5, <1>7 DEF o
  <2> QED
    BY <1>14, <1>15, <2>1
<1>17. ContextExact'
  <2> SUFFICES ASSUME NEW r \in Ids
               PROVE /\ st'[r] \in Live => kv'[r] = base'[r] + offset'[r]
                            + (IF generated'[r] = 0 THEN 0 ELSE generated'[r] - 1)
                     /\ st'[r] = "DECODING" => offset'[r] = PromptLen[r] /\ generated'[r] > 0
                     /\ st'[r] = "FINISHED" => kv'[r] = 0
    BY DEF ContextExact
  <2>1. /\ kv[r] \in Nat /\ offset[r] \in Nat /\ generated[r] \in Nat /\ base[r] \in Nat
        /\ st[r] \in Live \cup {"NEW", "FINISHED"}
    <3>1. base[r] \in {0, PrefixLen} /\ PrefixLen \in Nat
      BY <1>2, EngineAssumption DEF EngineTypeOK
    <3> QED
      BY <1>2, <3>1 DEF EngineTypeOK
  <2>2. /\ st[r] \in Live => kv[r] = base[r] + offset[r]
             + (IF generated[r] = 0 THEN 0 ELSE generated[r] - 1)
        /\ st[r] = "DECODING" => offset[r] = PromptLen[r]
        /\ st[r] = "FINISHED" => kv[r] = 0
    BY DEF ContextExact
  <2>3. CASE r \in Finished
    BY <1>4, <2>3 DEF Live
  <2>4. CASE r \notin Finished /\ r \in Done
    <3>1. /\ st'[r] = "DECODING" /\ offset'[r] = PromptLen[r] /\ generated'[r] = generated[r] + 1
          /\ kv'[r] = kv[r] + (PromptLen[r] - o[r]) /\ base'[r] = base[r]
      BY <1>4, <1>16, <2>4 DEF Emit
    <3>2. s[r] = "PREFILLING"
      BY <1>5, <1>16, <2>4
    <3>3. generated[r] = 0 /\ o[r] = offset[r] /\ st[r] \in Live
      BY <1>11, <1>12, <3>2 DEF Live
    <3> QED
      BY <1>14, <2>1, <2>2, <3>1, <3>3
  <2>5. CASE r \notin Done /\ r \in P
    <3>1. s[r] = "PREFILLING" /\ r \notin Emit /\ r \notin Finished
      BY <1>5, <1>8, <1>10, <2>5 DEF Emit
    <3>2. /\ st'[r] = "PREFILLING" /\ offset'[r] = ChunkEnd(r, o) /\ generated'[r] = generated[r]
          /\ kv'[r] = kv[r] + (ChunkEnd(r, o) - o[r]) /\ base'[r] = base[r]
      BY <1>4, <2>5, <3>1
    <3>3. generated[r] = 0 /\ o[r] = offset[r] /\ st[r] \in Live
      BY <1>11, <1>12, <3>1 DEF Live
    <3>4. ChunkEnd(r, o) \in Nat /\ kv[r] = base[r] + offset[r]
      BY <1>15, <2>1, <2>2, <3>3
    <3>5. kv'[r] = base[r] + ChunkEnd(r, o)
      BY <2>1, <3>2, <3>3, <3>4
    <3> QED
      BY <2>1, <3>2, <3>3, <3>4, <3>5
  <2>6. CASE r \notin Finished /\ r \in D
    <3>1. s[r] = "DECODING" /\ r \notin P /\ r \notin Done
      BY <1>5, <1>10, <1>16, <2>6
    <3>2. /\ st'[r] = "DECODING" /\ offset'[r] = o[r] /\ generated'[r] = generated[r] + 1
          /\ kv'[r] = kv[r] + 1 /\ base'[r] = base[r]
      BY <1>4, <2>6, <3>1 DEF Emit
    <3>3. st[r] = "DECODING" /\ generated[r] > 0 /\ o[r] = offset[r] /\ st[r] \in Live
      BY <1>12, <1>13, <3>1 DEF Live
    <3>4. offset[r] = PromptLen[r] /\ kv[r] = base[r] + offset[r] + (generated[r] - 1)
      BY <2>1, <2>2, <3>3
    <3>5. generated'[r] # 0 /\ kv'[r] = base'[r] + offset'[r] + (generated'[r] - 1)
      BY <2>1, <3>2, <3>3, <3>4
    <3>6. offset'[r] = PromptLen[r] /\ generated'[r] > 0
      BY <2>1, <3>2, <3>3, <3>4
    <3> QED
      BY <3>2, <3>5, <3>6
  <2>7. CASE r \notin P /\ r \notin D
    <3>1. r \notin Done /\ r \notin Emit /\ r \notin Finished
      BY <1>8, <1>16, <2>7 DEF Emit
    <3>2. /\ st'[r] = s[r] /\ offset'[r] = o[r] /\ generated'[r] = generated[r]
          /\ kv'[r] = kv[r] /\ base'[r] = base[r]
      BY <1>4, <2>7, <3>1
    <3>3. s[r] = "FINISHED" => st[r] = "FINISHED"
      BY <1>3
    <3>4. s[r] = "DECODING" => st[r] = "DECODING" /\ generated[r] > 0
      BY <1>13
    <3>5. s[r] \in Live => st[r] \in Live /\ o[r] = offset[r]
      BY <1>12
    <3> QED
      BY <2>1, <2>2, <3>2, <3>3, <3>4, <3>5 DEF Live
  <2> QED
    BY <1>16, <2>3, <2>4, <2>5, <2>6, <2>7
<1>18. UnfedIsFresh'
  <2> SUFFICES ASSUME NEW r \in Ids, st'[r] \in {"WAITING", "PREFILLING"}
               PROVE generated'[r] = 0 /\ (st'[r] = "WAITING" => offset'[r] = 0)
    BY DEF UnfedIsFresh
  <2>1. r \notin Finished /\ r \notin Done /\ s[r] = st'[r]
    BY <1>4
  <2>2. r \notin D /\ r \notin Emit
    BY <1>5, <2>1 DEF Emit
  <2>3. generated'[r] = generated[r] /\ generated[r] = 0 /\ o[r] = offset[r]
    BY <1>4, <1>11, <2>1, <2>2
  <2>4. ASSUME s[r] = "WAITING" PROVE offset'[r] = 0
    <3>1. r \notin P /\ st[r] = "WAITING"
      BY <1>3, <1>5, <2>4
    <3> QED
      BY <1>4, <2>3, <3>1 DEF UnfedIsFresh
  <2> QED
    BY <2>1, <2>3, <2>4
<1>19. \A i, j \in DOMAIN running' : i < j =>
         \E k, l \in DOMAIN b : k < l /\ b[k] = running'[i] /\ b[l] = running'[j]
  <2>1. running' \in Keeping(b, {r \in Ids : st'[r] # "FINISHED"})
    BY DEF b
  <2> QED
    BY <1>1, <2>1, KeepingOrder
<1>20. BatchIsLive'
  <2>1. running' \in Keeping(b, {r \in Ids : st'[r] # "FINISHED"})
    BY DEF b
  <2>2. Items(running') \subseteq {r \in Ids : st'[r] # "FINISHED"}
    BY <1>1, <2>1, KeepingFilters
  <2> QED
    BY <2>2 DEF BatchIsLive, Items
<1>21. ASSUME NEW k \in DOMAIN b, NEW l \in DOMAIN b, k < l, generated'[b[l]] > 0
       PROVE  generated'[b[k]] > 0
  <2>1. b[k] \in Ids /\ b[l] \in Ids
    BY <1>7, <1>9
  <2>2. \A r \in Ids : generated[r] \in Nat /\ (generated[r] > 0 => generated'[r] > 0)
    BY <1>2, <1>4 DEF EngineTypeOK
  <2>3. CASE generated[b[l]] > 0
    <3>1. b[l] \notin S
      BY <1>1, <2>1, <2>3 DEF UnfedIsFresh
    <3>2. k \in DOMAIN running /\ l \in DOMAIN running /\ b[k] = running[k] /\ b[l] = running[l]
      <4>1. l \in DOMAIN running /\ b[l] = running[l]
        BY <1>9, <3>1
      <4>2. k \in DOMAIN running
        BY <1>9, <1>21, <4>1
      <4> QED
        BY <1>9, <4>1, <4>2
    <3>3. generated[b[k]] > 0
      BY <1>21, <2>3, <3>2 DEF FirstTokensInOrder
    <3> QED
      BY <2>1, <2>2, <3>3
  <2>4. CASE ~ (generated[b[l]] > 0)
    <3>1. b[l] \in Emit /\ generated[b[l]] = 0
      BY <1>4, <1>21, <2>1, <2>2, <2>4
    <3>2. b[l] \in P
      <4>1. b[l] \notin D
        BY <1>5, <1>13, <2>1, <3>1
      <4> QED
        BY <1>16, <3>1, <4>1 DEF Emit
    <3>3. PICK n \in DOMAIN b :
            b[n] = b[l] /\ \A m \in DOMAIN b : m < n => s[b[m]] # "PREFILLING"
      BY <1>6, <3>2
    <3>4. n = l
      BY <1>1, <3>3 DEF Injective
    <3>5. s[b[k]] # "PREFILLING"
      BY <1>21, <3>3, <3>4
    <3>6. b[k] \notin S /\ b[k] \in Items(running)
      BY <1>1, <1>3, <1>9, <2>1, <3>5
    <3>7. st[b[k]] = "DECODING"
      BY <1>3, <2>1, <3>5, <3>6 DEF BatchIsLive, EngineInv, OnePlace
    <3>8. generated[b[k]] > 0
      BY <1>3, <1>13, <2>1, <3>6, <3>7
    <3> QED
      BY <2>1, <2>2, <3>8
  <2> QED
    BY <2>3, <2>4
<1>22. FirstTokensInOrder'
  <2> SUFFICES ASSUME NEW i \in DOMAIN running', NEW j \in DOMAIN running', i < j,
                      generated'[running'[j]] > 0
               PROVE  generated'[running'[i]] > 0
    BY DEF FirstTokensInOrder
  <2>1. PICK k, l \in DOMAIN b : k < l /\ b[k] = running'[i] /\ b[l] = running'[j]
    BY <1>19
  <2> QED
    BY <1>21, <2>1
<1> QED
  BY <1>17, <1>18, <1>20, <1>22

LEMMA IterateKeepsContext ==
  ASSUME ContextInv, EngineInv', Iterate
  PROVE  ContextInv'
<1>1. PICK order \in QueueSorts :
        IF Batch(order) = <<>>
        THEN UNCHANGED <<requestVars, streamVars, running, admissionVars>>
        ELSE StepBatch(Batch(order), StateIn(order), OffsetIn(order))
  BY DEF Iterate
<1>2. CASE Batch(order) = <<>>
  BY <1>1, <1>2, StutterKeepsContext
<1>3. CASE Batch(order) # <<>>
  <2> DEFINE P == Prefilled(Batch(order), StateIn(order))
             Done == {r \in P : ChunkEnd(r, OffsetIn(order)) >= PromptLen[r]}
             D == Decoders(Batch(order), StateIn(order))
  <2>1. /\ Effects(P, Done, D, Done \cup D, StateIn(order), OffsetIn(order))
        /\ running' \in Keeping(Batch(order), {r \in Ids : st'[r] # "FINISHED"})
    BY <1>1, <1>3 DEF StepBatch
  <2>2. /\ P = Prefilled(Batch(order), StateIn(order))
        /\ Done = {r \in P : ChunkEnd(r, OffsetIn(order)) >= PromptLen[r]}
        /\ D = Decoders(Batch(order), StateIn(order))
    OBVIOUS
  <2> HIDE DEF P, Done, D
  <2> QED
    BY <2>1, <2>2, PassKeepsContext
<1> QED
  BY <1>2, <1>3

(* Without faults a pass cannot raise: no prompt is empty, and a request   *)
(* that decodes has a token to go on from.                                 *)
LEMMA NothingRaises ==
  ASSUME NoFaults, ContextInv
  PROVE  ~ IterateRaises
<1> SUFFICES ASSUME IterateRaises PROVE FALSE
  OBVIOUS
<1>1. PICK order \in QueueSorts : RaiseIn(Batch(order), StateIn(order), OffsetIn(order))
  BY DEF IterateRaises
<1> DEFINE b == Batch(order)
           s == StateIn(order)
           o == OffsetIn(order)
           P == Prefilled(b, s)
           Done == {r \in P : ChunkEnd(r, o) >= PromptLen[r]}
           D == Decoders(b, s)
<1>2. P \subseteq Items(b) /\ D = {r \in Items(b) : s[r] = "DECODING"}
  BY DEF Prefilled, FirstIn, Decoders, In
<1>3. Items(b) \subseteq Ids
  <2>1. b \in Seq(Ids)
    BY PassLists DEF ContextInv
  <2> HIDE DEF b
  <2> QED
    BY <2>1, ItemsAmong
<1>4. \A r \in Done : PromptLen[r] > 0
  BY <1>2, <1>3 DEF NoFaults
<1>5. \A d \in D : CanFeed(d)
  <2> SUFFICES ASSUME NEW d \in D PROVE generated[d] > 0
    BY DEF CanFeed
  <2>1. d \in Ids /\ st[d] = "DECODING"
    BY <1>2, <1>3 DEF StateIn
  <2> QED
    BY <2>1 DEF ContextInv, ContextExact
<1>6. \/ MayRaise
      \/ ~ \A r \in Done : PromptLen[r] > 0
      \/ \E d \in D : MayRaise \/ ~ CanFeed(d)
  BY <1>1 DEF RaiseIn
<1> HIDE DEF Done, D
<1> QED
  BY <1>4, <1>5, <1>6 DEF NoFaults

LEMMA ContextInvariant ==
  ASSUME NoFaults
  PROVE  Spec => []ContextInv
<1>1. Init => ContextInv
  BY ContextInitInv
<1>2. ContextInv /\ EngineInv' /\ [Next]_vars => ContextInv'
  <2> SUFFICES ASSUME ContextInv, EngineInv', [Next]_vars PROVE ContextInv'
    OBVIOUS
  <2>1. CASE Start
    BY <2>1, StutterKeepsContext DEF Start
  <2>2. CASE Stop
    BY <2>2, StutterKeepsContext DEF Stop
  <2>3. ASSUME NEW r \in Ids, Submit(r) PROVE ContextInv'
    BY <2>3, SubmitKeepsContext
  <2>4. ASSUME NEW f \in Forks, Fork(f[1], f[2]) PROVE ContextInv'
    <3>1. f[1] \in Ids /\ f[2] \in Ids /\ f[1] # f[2]
      BY EngineAssumption
    <3> QED
      BY <2>4, <3>1, ForkKeepsContext
  <2>5. ASSUME NEW r \in Ids, Read(r) PROVE ContextInv'
    BY <2>5, StutterKeepsContext DEF Read
  <2>6. ASSUME NEW r \in Ids, Abandon(r) PROVE ContextInv'
    BY <2>6, StutterKeepsContext DEF Abandon
  <2>7. CASE Iterate
    BY <2>7, IterateKeepsContext
  <2>8. CASE IterateRaises
    BY <2>8, NothingRaises
  <2>9. CASE UNCHANGED vars
    BY <2>9, StutterKeepsContext DEF vars
  <2> QED
    BY <2>1, <2>2, <2>3, <2>4, <2>5, <2>6, <2>7, <2>8, <2>9 DEF Next
<1> QED
  BY <1>1, <1>2, EngineInvariant, PTL DEF Spec

(* In an engine without faults the KV state of a request covers exactly    *)
(* its prefix, the prefilled part of its prompt and its tokens but the     *)
(* last, through forks, chunks, stops and restarts.                        *)
THEOREM ContextStaysExact ==
  ASSUME NoFaults
  PROVE  Spec => []ContextExact
<1>1. ContextInv => ContextExact
  BY DEF ContextInv
<1> QED
  BY <1>1, ContextInvariant, PTL

(* In an engine without faults first tokens come in the order in which the *)
(* requests were seated.                                                   *)
THEOREM NobodyIsOvertaken ==
  ASSUME NoFaults
  PROVE  Spec => []FirstTokensInOrder
<1>1. ContextInv => FirstTokensInOrder
  BY DEF ContextInv
<1> QED
  BY <1>1, ContextInvariant, PTL

-----------------------------------------------------------------------------
(* Whatever is not a pass neither feeds a request nor seats one.           *)
LEMMA EnterSeatsNobody ==
  ASSUME EngineInv, NEW q \in Seq(Ids), NEW R \in SUBSET Ids, NEW prefix, NEW reader,
         \A r \in Items(q) \cup R : Vacant(r),
         Enter(q, R, prefix, reader)
  PROVE  \A r \in Ids : /\ ~ (offset'[r] > offset[r])
                        /\ st[r] = "WAITING" => st'[r] = "WAITING"
<1>1. /\ \A r \in Ids : st'[r] = IF r \in Items(q) THEN "WAITING"
                                 ELSE IF r \in R THEN "FINISHED" ELSE st[r]
      /\ \A r \in Ids : offset'[r] = IF r \in Items(q) \cup R THEN 0 ELSE offset[r]
  BY DEF Enter
<1>2. \A r \in Items(q) \cup R : st[r] # "WAITING"
  BY DEF Vacant
<1>3. \A r \in Ids : offset[r] \in Nat
  BY DEF EngineInv, EngineTypeOK
<1> QED
  BY <1>1, <1>2, <1>3

LEMMA OnlyPassesSeat ==
  ASSUME EngineInv, [Next]_vars, ~ Iterate, ~ IterateRaises
  PROVE  \A r \in Ids : /\ ~ (offset'[r] > offset[r])
                        /\ st[r] = "WAITING" => st'[r] = "WAITING"
<1> DEFINE Goal == \A r \in Ids : /\ ~ (offset'[r] > offset[r])
                                  /\ st[r] = "WAITING" => st'[r] = "WAITING"
<1>1. CASE UNCHANGED requestVars
  <2>1. \A r \in Ids : offset[r] \in Nat
    BY DEF EngineInv, EngineTypeOK
  <2> QED
    BY <1>1, <2>1 DEF requestVars
<1>2. Start \/ Stop \/ UNCHANGED vars => UNCHANGED requestVars
  BY DEF Start, Stop, vars
<1>3. ASSUME NEW r \in Ids, Read(r) \/ Abandon(r) PROVE UNCHANGED requestVars
  BY <1>3 DEF Read, Abandon
<1>4. ASSUME NEW r \in Ids, Submit(r) PROVE Goal
  <2>1. Vacant(r) /\ (Enter(<<>>, {r}, 0, "reading") \/ Enter(<<r>>, {}, 0, "reading"))
    BY <1>4 DEF Submit
  <2>2. <<>> \in Seq(Ids) /\ <<r>> \in Seq(Ids) /\ Items(<<>>) = {} /\ Items(<<r>>) = {r}
    BY NoItems, OneItem
  <2> HIDE DEF Vacant
  <2>3. CASE Enter(<<>>, {r}, 0, "reading")
    BY <2>1, <2>2, <2>3, EnterSeatsNobody
  <2>4. CASE Enter(<<r>>, {}, 0, "reading")
    BY <2>1, <2>2, <2>4, EnterSeatsNobody
  <2> QED
    BY <2>1, <2>3, <2>4
<1>5. ASSUME NEW a \in Ids, NEW c \in Ids, a # c, Fork(a, c) PROVE Goal
  <2>1. /\ Vacant(a) /\ Vacant(c)
        /\ \/ Enter(<<>>, {a}, PrefixLen, "reading")
           \/ Enter(<<a>>, {c}, PrefixLen, "gone")
           \/ Enter(<<a, c>>, {}, PrefixLen, "reading")
    BY <1>5 DEF Fork
  <2>2. /\ <<>> \in Seq(Ids) /\ <<a>> \in Seq(Ids) /\ <<a, c>> \in Seq(Ids)
        /\ Items(<<>>) = {} /\ Items(<<a>>) = {a} /\ Items(<<a, c>>) = {a, c}
    BY <1>5, NoItems, OneItem, TwoItems
  <2>3. CASE Enter(<<>>, {a}, PrefixLen, "reading")
    BY <2>1, <2>2, <2>3, EnterSeatsNobody
  <2>4. CASE Enter(<<a>>, {c}, PrefixLen, "gone")
    BY <2>1, <2>2, <2>4, EnterSeatsNobody
  <2>5. CASE Enter(<<a, c>>, {}, PrefixLen, "reading")
    BY <2>1, <2>2, <2>5, EnterSeatsNobody
  <2> QED
    BY <2>1, <2>3, <2>4, <2>5
<1>6. ASSUME NEW f \in Forks, Fork(f[1], f[2]) PROVE Goal
  <2>1. f[1] \in Ids /\ f[2] \in Ids /\ f[1] # f[2]
    BY EngineAssumption
  <2> QED
    BY <1>5, <1>6, <2>1
<1> HIDE DEF Goal
<1>7. Goal
  BY <1>1, <1>2, <1>3, <1>4, <1>6 DEF Next, Goal
<1> QED
  BY <1>7 DEF Goal

-----------------------------------------------------------------------------
(* A smaller key comes first in a stable sort, and of equal keys the one   *)
(* that came first before.                                                 *)
LEMMA SortOrders ==
  ASSUME NEW S, NEW s \in Seq(S), Injective(s), NEW key, NEW t \in StableSorts(s, key),
         NEW i \in DOMAIN s, NEW j \in DOMAIN s, NEW m \in DOMAIN t, NEW n \in DOMAIN t,
         m < n, t[m] = s[i], t[n] = s[j]
  PROVE  key[s[i]] < key[s[j]] \/ (key[s[i]] = key[s[j]] /\ i < j)
<1>1. PICK p \in [DOMAIN s -> DOMAIN s] :
        /\ t = [k \in DOMAIN s |-> s[p[k]]]
        /\ \A k, l \in DOMAIN s : k < l =>
             \/ key[s[p[k]]] < key[s[p[l]]]
             \/ key[s[p[k]]] = key[s[p[l]]] /\ p[k] < p[l]
  BY DEF StableSorts
<1>2. m \in DOMAIN s /\ n \in DOMAIN s /\ p[m] = i /\ p[n] = j
  BY <1>1 DEF Injective
<1> QED
  BY <1>1, <1>2

LEMMA SeatedComeFirst ==
  ASSUME EngineInv, NEW order \in QueueSorts,
         NEW i \in DOMAIN waiting, NEW j \in DOMAIN waiting,
         waiting[i] \in Items(Seated(order)), waiting[j] \notin Items(Seated(order))
  PROVE  \/ Urgency(waiting[i]) < Urgency(waiting[j])
         \/ Urgency(waiting[i]) = Urgency(waiting[j]) /\ i < j
<1>1. /\ waiting \in Seq(Ids) /\ Injective(waiting) /\ DOMAIN waiting \subseteq Int
      /\ Len(running) \in Nat /\ MaxBatch \in Nat
  <2>1. waiting \in Seq(Ids) /\ Injective(waiting) /\ running \in Seq(Ids)
    BY DEF EngineInv, EngineTypeOK, OnePlace
  <2> QED
    BY <2>1, EngineAssumption, LenProperties
<1>2. order \in Seq(Ids) /\ Items(order) = Items(waiting)
  <2>1. CASE PolicyOn
    BY <1>1, <2>1, KeyType, SortReorders DEF QueueSorts
  <2>2. CASE ~ PolicyOn
    BY <1>1, <2>2 DEF QueueSorts
  <2> QED
    BY <2>1, <2>2
<1> DEFINE free == Monus(MaxBatch, Len(running))
           k == IF Len(order) < free THEN Len(order) ELSE free
<1>3. /\ Len(order) \in Nat /\ DOMAIN order = 1 .. Len(order)
      /\ k \in 0 .. Len(order) /\ Seated(order) = SubSeq(order, 1, k)
  BY <1>1, <1>2, LenProperties DEF Monus, Seated
<1> HIDE DEF k
<1>4. /\ DOMAIN Seated(order) = 1 .. k
      /\ \A m \in 1 .. k : Seated(order)[m] = order[m]
  BY <1>2, <1>3
<1>5. PICK m \in 1 .. k : order[m] = waiting[i]
  BY <1>4 DEF Items
<1>6. PICK n \in DOMAIN order : order[n] = waiting[j]
  BY <1>2 DEF Items
<1>7. n \notin 1 .. k
  BY <1>4, <1>6 DEF Items
<1>8. m \in DOMAIN order /\ m < n
  BY <1>3, <1>7
<1>9. CASE PolicyOn
  <2>1. order \in StableSorts(waiting, Key)
    BY <1>9 DEF QueueSorts
  <2>2. Key[waiting[i]] < Key[waiting[j]] \/ (Key[waiting[i]] = Key[waiting[j]] /\ i < j)
    BY <1>1, <1>5, <1>6, <1>8, <2>1, SortOrders
  <2> QED
    BY <1>9, <2>2 DEF Urgency
<1>10. CASE ~ PolicyOn
  <2>1. order = waiting
    BY <1>10 DEF QueueSorts
  <2>2. m = i /\ n = j
    BY <1>1, <1>5, <1>6, <1>8, <2>1 DEF Injective
  <2> QED
    BY <1>8, <1>10, <2>2 DEF Urgency
<1> QED
  BY <1>9, <1>10

(* Who leaves the queue in a pass has been seated, and nobody else.        *)
LEMMA PassSeats ==
  ASSUME EngineInv, NEW order \in QueueSorts,
         NEW P, NEW Done, NEW Fed, NEW Emit,
         P \subseteq In(Batch(order), StateIn(order), "PREFILLING"),
         Done \subseteq P,
         Emit \subseteq Done \cup In(Batch(order), StateIn(order), "DECODING"),
         Effects(P, Done, Fed, Emit, StateIn(order), OffsetIn(order)),
         NEW r \in Ids, st[r] = "WAITING"
  PROVE  st'[r] # "WAITING" <=> r \in Items(Seated(order))
<1> DEFINE s == StateIn(order)
           Finished == {x \in Emit : Ends(x)}
<1>1. /\ st'[r] = IF r \in Finished THEN "FINISHED" ELSE IF r \in Done THEN "DECODING" ELSE s[r]
      /\ s[r] = IF r \in Items(Seated(order)) THEN "PREFILLING" ELSE st[r]
  BY DEF Effects, StateIn
<1>2. r \in Finished \cup Done => s[r] \in {"PREFILLING", "DECODING"}
  BY DEF In
<1> HIDE DEF s, Finished
<1> QED
  BY <1>1, <1>2

LEMMA PassSeatsInOrder ==
  ASSUME EngineInv, NEW order \in QueueSorts,
         NEW P, NEW Done, NEW Fed, NEW Emit,
         P \subseteq In(Batch(order), StateIn(order), "PREFILLING"),
         Done \subseteq P,
         Emit \subseteq Done \cup In(Batch(order), StateIn(order), "DECODING"),
         Effects(P, Done, Fed, Emit, StateIn(order), OffsetIn(order)),
         NEW i \in DOMAIN waiting, NEW j \in DOMAIN waiting,
         st'[waiting[i]] # "WAITING", st'[waiting[j]] = "WAITING"
  PROVE  \/ Urgency(waiting[i]) < Urgency(waiting[j])
         \/ Urgency(waiting[i]) = Urgency(waiting[j]) /\ i < j
<1>1. \A n \in DOMAIN waiting : waiting[n] \in Ids /\ st[waiting[n]] = "WAITING"
  BY DEF EngineInv, OnePlace, Items
<1>2. waiting[i] \in Items(Seated(order)) /\ waiting[j] \notin Items(Seated(order))
  BY <1>1, PassSeats
<1> QED
  BY <1>2, SeatedComeFirst

SeatsNow ==
  \A i, j \in DOMAIN waiting :
    st'[waiting[i]] # "WAITING" /\ st'[waiting[j]] = "WAITING" =>
      \/ Urgency(waiting[i]) < Urgency(waiting[j])
      \/ Urgency(waiting[i]) = Urgency(waiting[j]) /\ i < j

LEMMA NobodySeated ==
  ASSUME EngineInv, \A r \in Ids : st[r] = "WAITING" => st'[r] = "WAITING"
  PROVE  SeatsNow
<1>1. \A n \in DOMAIN waiting : waiting[n] \in Ids /\ st[waiting[n]] = "WAITING"
  BY DEF EngineInv, OnePlace, Items
<1> QED
  BY <1>1 DEF SeatsNow

LEMMA IterateSeatsInOrder ==
  ASSUME EngineInv, Iterate
  PROVE  SeatsNow
<1>1. PICK order \in QueueSorts :
        IF Batch(order) = <<>>
        THEN UNCHANGED <<requestVars, streamVars, running, admissionVars>>
        ELSE StepBatch(Batch(order), StateIn(order), OffsetIn(order))
  BY DEF Iterate
<1>2. CASE Batch(order) = <<>>
  BY <1>1, <1>2, NobodySeated DEF requestVars
<1>3. CASE Batch(order) # <<>>
  <2> DEFINE P == Prefilled(Batch(order), StateIn(order))
             Done == {r \in P : ChunkEnd(r, OffsetIn(order)) >= PromptLen[r]}
             D == Decoders(Batch(order), StateIn(order))
  <2>1. Effects(P, Done, D, Done \cup D, StateIn(order), OffsetIn(order))
    BY <1>1, <1>3 DEF StepBatch
  <2>2. P \subseteq In(Batch(order), StateIn(order), "PREFILLING")
    BY DEF Prefilled, FirstIn
  <2>3. Done \subseteq P /\ D = In(Batch(order), StateIn(order), "DECODING")
    BY DEF Decoders
  <2> HIDE DEF P, Done, D
  <2>4. Done \cup D \subseteq Done \cup In(Batch(order), StateIn(order), "DECODING")
    BY <2>3
  <2> QED
    BY <2>1, <2>2, <2>3, <2>4, PassSeatsInOrder DEF SeatsNow
<1> QED
  BY <1>2, <1>3

LEMMA IterateRaisesSeatsInOrder ==
  ASSUME EngineInv, IterateRaises
  PROVE  SeatsNow
<1>1. PICK order \in QueueSorts : RaiseIn(Batch(order), StateIn(order), OffsetIn(order))
  BY DEF IterateRaises
<1> DEFINE b == Batch(order)
           s == StateIn(order)
           o == OffsetIn(order)
           P == Prefilled(b, s)
           Done == {r \in P : ChunkEnd(r, o) >= PromptLen[r]}
           D == Decoders(b, s)
<1>2. P \subseteq In(b, s, "PREFILLING")
  BY DEF Prefilled, FirstIn
<1>3. Done \subseteq P /\ D = In(b, s, "DECODING") /\ \A d : Before(b, D, d) \subseteq D
  BY DEF Decoders, Before
<1>4. ASSUME NEW Q, NEW F, NEW Fed, NEW Emit,
             Q \subseteq P, F \subseteq Q, Emit \subseteq F \cup D,
             Effects(Q, F, Fed, Emit, s, o)
      PROVE  SeatsNow
  <2>1. Q \subseteq In(b, s, "PREFILLING") /\ Emit \subseteq F \cup In(b, s, "DECODING")
    BY <1>2, <1>3, <1>4
  <2> QED
    BY <1>4, <2>1, PassSeatsInOrder DEF SeatsNow
<1>5. \/ Effects({}, {}, {}, {}, s, o)
      \/ Effects(P, Done, {}, {}, s, o)
      \/ \E d \in D : \/ Effects(P, Done, Before(b, D, d), Done, s, o)
                      \/ Effects(P, Done, Before(b, D, d), Done \cup Before(b, D, d), s, o)
                      \/ Effects(P, Done, D, Done, s, o)
                      \/ Effects(P, Done, Before(b, D, d) \cup {d}, Done \cup Before(b, D, d), s, o)
  BY <1>1 DEF RaiseIn
<1> HIDE DEF P, Done, D
<1>6. CASE Effects({}, {}, {}, {}, s, o)
  BY <1>4, <1>6
<1>7. CASE Effects(P, Done, {}, {}, s, o)
  BY <1>3, <1>4, <1>7
<1>8. ASSUME NEW Fed, NEW Emit, Emit \subseteq Done \cup D, Effects(P, Done, Fed, Emit, s, o)
      PROVE  SeatsNow
  BY <1>3, <1>4, <1>8
<1>9. \A d : Done \cup Before(b, D, d) \subseteq Done \cup D
  BY <1>3
<1> QED
  BY <1>5, <1>6, <1>7, <1>8, <1>9

(* A pass seats by lane and then by arrival, for any lanes, batch size and *)
(* queue, and also when it raises afterwards (_scheduler_loop).            *)
THEOREM LanesGoFirst == Spec => SeatsInLaneOrder
<1>1. EngineInv /\ [Next]_vars => [SeatsNow]_vars
  <2> SUFFICES ASSUME EngineInv, [Next]_vars PROVE SeatsNow
    OBVIOUS
  <2>1. CASE Iterate
    BY <2>1, IterateSeatsInOrder
  <2>2. CASE IterateRaises
    BY <2>2, IterateRaisesSeatsInOrder
  <2>3. CASE ~ Iterate /\ ~ IterateRaises
    BY <2>3, OnlyPassesSeat, NobodySeated
  <2> QED
    BY <2>1, <2>2, <2>3
<1> QED
  BY <1>1, EngineInvariant, PTL DEF Spec, SeatsInLaneOrder, SeatsNow

-----------------------------------------------------------------------------
(* Without faults, every pass that feeds a chunk of a prompt also gives    *)
(* each decoding request a token (_step_batch).                            *)
THEOREM DecodingIsNeverStalled ==
  ASSUME NoFaults
  PROVE  Spec => PrefillNeverStallsDecode
<1> DEFINE Decodes == (\E r \in Ids : offset'[r] > offset[r]) =>
                        \A q \in Ids : st[q] = "DECODING" => generated'[q] = generated[q] + 1
<1>1. ContextInv /\ [Next]_vars => [Decodes]_vars
  <2> SUFFICES ASSUME ContextInv, [Next]_vars, NEW r \in Ids, offset'[r] > offset[r],
                      NEW q \in Ids, st[q] = "DECODING"
               PROVE  generated'[q] = generated[q] + 1
    OBVIOUS
  <2>1. EngineInv
    BY DEF ContextInv
  <2>2. Iterate
    BY <2>1, OnlyPassesSeat, NothingRaises
  <2>3. PICK order \in QueueSorts :
          IF Batch(order) = <<>>
          THEN UNCHANGED <<requestVars, streamVars, running, admissionVars>>
          ELSE StepBatch(Batch(order), StateIn(order), OffsetIn(order))
    BY <2>2 DEF Iterate
  <2>4. offset[r] \in Nat
    BY <2>1 DEF EngineInv, EngineTypeOK
  <2>5. Batch(order) # <<>>
    BY <2>3, <2>4 DEF requestVars
  <2> DEFINE D == Decoders(Batch(order), StateIn(order))
  <2>6. \E P, Done : Effects(P, Done, D, Done \cup D, StateIn(order), OffsetIn(order))
    BY <2>3, <2>5 DEF StepBatch
  <2>7. q \in Items(Batch(order)) /\ q \notin Items(Seated(order))
    BY <2>1, PassLists DEF EngineInv, OnePlace
  <2>8. q \in D
    BY <2>7 DEF Decoders, In, StateIn
  <2> HIDE DEF D
  <2> QED
    BY <2>6, <2>8 DEF Effects
<1> QED
  BY <1>1, ContextInvariant, PTL DEF Spec, PrefillNeverStallsDecode

-----------------------------------------------------------------------------
(* What the streams need of a request besides EngineInv: its client is     *)
(* idle until it exists, and a request that was shed never runs.           *)
ReadersMatch ==
  \A r \in Ids :
    /\ st[r] = "NEW" => client[r] = "idle" /\ generated[r] = 0
    /\ client[r] = "idle" => st[r] = "NEW"
    /\ client[r] = "rejected" => st[r] = "FINISHED"

StreamsInv == EngineInv /\ ReadersMatch

Reader(r) == IF client[r] = "idle" THEN "none" ELSE client[r]

(* A step of one request is a step of its stream if its tokens, its client *)
(* and what the client has taken change as one of the stream's actions     *)
(* would change them, or not at all.                                       *)
LEMMA StreamSteps ==
  ASSUME NEW r \in Ids,
         \/ UNCHANGED <<generated[r], got[r], client[r]>>
         \/ /\ client[r] = "idle" /\ client'[r] \in {"reading", "gone", "rejected"}
            /\ UNCHANGED <<generated[r], got[r]>>
         \/ /\ client[r] \in {"reading", "ended", "gone"}
            /\ generated[r] < FullLength(r) /\ generated'[r] = generated[r] + 1
            /\ UNCHANGED <<got[r], client[r]>>
         \/ /\ client[r] = "reading" /\ got[r] < generated[r] /\ got'[r] = got[r] + 1
            /\ UNCHANGED <<generated[r], client[r]>>
         \/ /\ client[r] = "reading" /\ got[r] = FullLength(r) /\ client'[r] = "ended"
            /\ UNCHANGED <<generated[r], got[r]>>
         \/ /\ client[r] = "reading" /\ client'[r] = "gone"
            /\ UNCHANGED <<generated[r], got[r]>>
  PROVE  [StreamOf(r)!StreamNext]_(StreamOf(r)!streamState)
<1>1. FullLength(r)' = FullLength(r)
  BY DEF FullLength
<1> QED
  BY <1>1 DEF StreamOf!StreamNext, StreamOf!streamState, StreamOf!Open, StreamOf!Refuse,
     StreamOf!Produce, StreamOf!TakeToken, StreamOf!TakeEnd, StreamOf!LeaveStream

AllStreamsStep == \A r \in Ids : [StreamOf(r)!StreamNext]_(StreamOf(r)!streamState)

LEMMA StutterKeepsStreams ==
  ASSUME StreamsInv, UNCHANGED <<st, generated, got, client>>
  PROVE  ReadersMatch' /\ AllStreamsStep
<1>1. ReadersMatch'
  BY DEF StreamsInv, ReadersMatch
<1>2. ASSUME NEW r \in Ids PROVE [StreamOf(r)!StreamNext]_(StreamOf(r)!streamState)
  <2>1. UNCHANGED <<generated[r], got[r], client[r]>>
    OBVIOUS
  <2> QED
    BY <2>1, StreamSteps
<1> QED
  BY <1>1, <1>2 DEF AllStreamsStep

LEMMA EnterKeepsStreams ==
  ASSUME StreamsInv, ~ Reuse,
         NEW q \in Seq(Ids), NEW R \in SUBSET Ids, NEW prefix, NEW reader \in {"reading", "gone"},
         \A r \in Items(q) \cup R : Vacant(r),
         Enter(q, R, prefix, reader)
  PROVE  ReadersMatch' /\ AllStreamsStep
<1> DEFINE A == Items(q)
<1>1. /\ st' = [r \in Ids |-> IF r \in A THEN "WAITING"
                              ELSE IF r \in R THEN "FINISHED" ELSE st[r]]
      /\ generated' = [r \in Ids |-> IF r \in A \cup R THEN 0 ELSE generated[r]]
      /\ got' = [r \in Ids |-> IF r \in A \cup R THEN 0 ELSE got[r]]
      /\ client' = [r \in Ids |-> IF r \in A THEN reader
                                  ELSE IF r \in R THEN "rejected" ELSE client[r]]
  BY DEF Enter
<1>2. \A r \in A \cup R : st[r] = "NEW"
  BY DEF Vacant
<1> HIDE DEF A
<1>3. \A r \in Ids : r \in A \cup R =>
        client[r] = "idle" /\ generated[r] = 0 /\ got[r] = 0
  BY <1>2 DEF StreamsInv, ReadersMatch, EngineInv, EngineTypeOK, StreamExact
<1>4. ReadersMatch'
  BY <1>1 DEF StreamsInv, ReadersMatch
<1>5. ASSUME NEW r \in Ids PROVE [StreamOf(r)!StreamNext]_(StreamOf(r)!streamState)
  <2>1. CASE r \in A \cup R
    <3>1. /\ client[r] = "idle" /\ client'[r] \in {"reading", "gone", "rejected"}
          /\ UNCHANGED <<generated[r], got[r]>>
      BY <1>1, <1>3, <2>1
    <3> QED
      BY <3>1, StreamSteps
  <2>2. CASE r \notin A \cup R
    <3>1. UNCHANGED <<generated[r], got[r], client[r]>>
      BY <1>1, <2>2 DEF StreamsInv, EngineInv, EngineTypeOK
    <3> QED
      BY <3>1, StreamSteps
  <2> QED
    BY <2>1, <2>2
<1> QED
  BY <1>4, <1>5 DEF AllStreamsStep

LEMMA SubmitKeepsStreams ==
  ASSUME StreamsInv, ~ Reuse, NEW r \in Ids, Submit(r)
  PROVE  ReadersMatch' /\ AllStreamsStep
<1>1. Vacant(r) /\ (Enter(<<>>, {r}, 0, "reading") \/ Enter(<<r>>, {}, 0, "reading"))
  BY DEF Submit
<1>2. <<>> \in Seq(Ids) /\ <<r>> \in Seq(Ids) /\ Items(<<>>) = {} /\ Items(<<r>>) = {r}
  BY NoItems, OneItem
<1> HIDE DEF Vacant
<1>3. CASE Enter(<<>>, {r}, 0, "reading")
  BY <1>1, <1>2, <1>3, EnterKeepsStreams
<1>4. CASE Enter(<<r>>, {}, 0, "reading")
  BY <1>1, <1>2, <1>4, EnterKeepsStreams
<1> QED
  BY <1>1, <1>3, <1>4

LEMMA ForkKeepsStreams ==
  ASSUME StreamsInv, ~ Reuse, NEW a \in Ids, NEW c \in Ids, a # c, Fork(a, c)
  PROVE  ReadersMatch' /\ AllStreamsStep
<1>1. /\ Vacant(a) /\ Vacant(c)
      /\ \/ Enter(<<>>, {a}, PrefixLen, "reading")
         \/ Enter(<<a>>, {c}, PrefixLen, "gone")
         \/ Enter(<<a, c>>, {}, PrefixLen, "reading")
  BY DEF Fork
<1>2. /\ <<>> \in Seq(Ids) /\ <<a>> \in Seq(Ids) /\ <<a, c>> \in Seq(Ids)
      /\ Items(<<>>) = {} /\ Items(<<a>>) = {a} /\ Items(<<a, c>>) = {a, c}
  BY NoItems, OneItem, TwoItems
<1>3. CASE Enter(<<>>, {a}, PrefixLen, "reading")
  BY <1>1, <1>2, <1>3, EnterKeepsStreams
<1>4. CASE Enter(<<a>>, {c}, PrefixLen, "gone")
  BY <1>1, <1>2, <1>4, EnterKeepsStreams
<1>5. CASE Enter(<<a, c>>, {}, PrefixLen, "reading")
  BY <1>1, <1>2, <1>5, EnterKeepsStreams
<1> QED
  BY <1>1, <1>3, <1>4, <1>5

(* The client takes a token, or the end behind the last one.               *)
LEMMA ReadKeepsStreams ==
  ASSUME StreamsInv, NEW i \in Ids, Read(i)
  PROVE  ReadersMatch' /\ AllStreamsStep
<1> USE DEF StreamsInv, EngineInv
<1>1. /\ client[i] = "reading" /\ out[i] # <<>> /\ st' = st /\ generated' = generated
      /\ \/ /\ Head(out[i]) = End /\ client' = [client EXCEPT ![i] = "ended"]
            /\ UNCHANGED got
         \/ /\ Head(out[i]) # End /\ got' = [got EXCEPT ![i] = Head(out[i])]
            /\ UNCHANGED client
  BY DEF Read, requestVars
<1>2. /\ client \in [Ids -> {"idle", "reading", "ended", "rejected", "gone"}]
      /\ got \in [Ids -> Nat] /\ generated \in [Ids -> Nat]
      /\ got[i] <= generated[i] /\ out[i] = Unread(i)
      /\ st[i] = "FINISHED" => generated[i] = FullLength(i)
  BY <1>1 DEF EngineTypeOK, StreamExact
<1>3. ReadersMatch'
  BY <1>1, <1>2 DEF ReadersMatch
<1> DEFINE ends == IF st[i] = "FINISHED" THEN 1 ELSE 0
<1>4. out[i] = Stream(got[i], generated[i], ends) /\ ends \in Nat
  BY <1>1, <1>2 DEF Unread
<1>5. ASSUME NEW r \in Ids PROVE [StreamOf(r)!StreamNext]_(StreamOf(r)!streamState)
  <2>1. CASE r # i
    <3>1. UNCHANGED <<generated[r], got[r], client[r]>>
      BY <1>1, <1>2, <2>1
    <3> QED
      BY <3>1, StreamSteps
  <2>2. CASE r = i /\ got[i] < generated[i]
    <3>1. Head(out[i]) = got[i] + 1 /\ got[i] + 1 # End
      BY <1>2, <1>4, <2>2, StreamTaken DEF End
    <3>2. /\ client[r] = "reading" /\ got[r] < generated[r] /\ got'[r] = got[r] + 1
          /\ UNCHANGED <<generated[r], client[r]>>
      BY <1>1, <1>2, <2>2, <3>1
    <3> QED
      BY <3>2, StreamSteps
  <2>3. CASE r = i /\ ~ (got[i] < generated[i])
    <3>1. got[i] = generated[i]
      BY <1>2, <2>3
    <3>2. st[i] = "FINISHED" /\ Head(out[i]) = End
      <4>1. CASE st[i] = "FINISHED"
        BY <1>2, <1>4, <3>1, <4>1, StreamTakenLast
      <4>2. CASE st[i] # "FINISHED"
        BY <1>1, <1>2, <1>4, <3>1, <4>2, StreamTakenLast
      <4> QED
        BY <4>1, <4>2
    <3>3. /\ client[r] = "reading" /\ got[r] = FullLength(r) /\ client'[r] = "ended"
          /\ UNCHANGED <<generated[r], got[r]>>
      BY <1>1, <1>2, <2>3, <3>1, <3>2
    <3> QED
      BY <3>3, StreamSteps
  <2> QED
    BY <2>1, <2>2, <2>3
<1> QED
  BY <1>3, <1>5 DEF AllStreamsStep

LEMMA AbandonKeepsStreams ==
  ASSUME StreamsInv, NEW i \in Ids, Abandon(i)
  PROVE  ReadersMatch' /\ AllStreamsStep
<1>1. /\ client[i] = "reading" /\ client' = [client EXCEPT ![i] = "gone"]
      /\ UNCHANGED <<st, generated, got>>
  BY DEF Abandon, requestVars
<1>2. client \in [Ids -> {"idle", "reading", "ended", "rejected", "gone"}]
  BY DEF StreamsInv, EngineInv, EngineTypeOK
<1>3. ReadersMatch'
  BY <1>1, <1>2 DEF StreamsInv, ReadersMatch
<1>4. ASSUME NEW r \in Ids PROVE [StreamOf(r)!StreamNext]_(StreamOf(r)!streamState)
  <2>1. \/ UNCHANGED <<generated[r], got[r], client[r]>>
        \/ /\ client[r] = "reading" /\ client'[r] = "gone"
           /\ UNCHANGED <<generated[r], got[r]>>
    BY <1>1, <1>2
  <2> QED
    BY <2>1, StreamSteps
<1> QED
  BY <1>3, <1>4 DEF AllStreamsStep

(* A pass only adds tokens to requests that are queued or running.         *)
LEMMA PassKeepsStreams ==
  ASSUME StreamsInv, NEW order \in QueueSorts,
         NEW P, NEW Done, NEW Fed, NEW Emit,
         P \subseteq In(Batch(order), StateIn(order), "PREFILLING"),
         Done \subseteq P,
         Emit \subseteq Done \cup In(Batch(order), StateIn(order), "DECODING"),
         Effects(P, Done, Fed, Emit, StateIn(order), OffsetIn(order))
  PROVE  ReadersMatch' /\ AllStreamsStep
<1> DEFINE s == StateIn(order)
           Finished == {r \in Emit : Ends(r)}
<1>1. /\ st' = [r \in Ids |-> IF r \in Finished THEN "FINISHED"
                             ELSE IF r \in Done THEN "DECODING" ELSE s[r]]
      /\ generated' = [r \in Ids |-> IF r \in Emit THEN generated[r] + 1 ELSE generated[r]]
      /\ got' = got /\ client' = client
  BY DEF Effects
<1>2. /\ \A r \in Ids : s[r] # st[r] => st[r] = "WAITING" /\ s[r] = "PREFILLING"
      /\ \A r \in Emit \cup Done : s[r] \in {"PREFILLING", "DECODING"}
  <2>1. Items(Seated(order)) \subseteq {r \in Ids : st[r] = "WAITING"}
    BY PassLists DEF StreamsInv
  <2> QED
    BY <2>1 DEF StateIn, In
<1> HIDE DEF s, Finished
<1>3. /\ generated \in [Ids -> Nat]
      /\ st \in [Ids -> Live \cup {"NEW", "FINISHED"}]
      /\ client \in [Ids -> {"idle", "reading", "ended", "rejected", "gone"}]
  BY DEF StreamsInv, EngineInv, EngineTypeOK
<1>4. \A r \in Ids : r \in Emit \cup Done => st[r] \in Live
  BY <1>2 DEF Live
<1>5. \A r \in Ids : r \in Emit => generated[r] < FullLength(r)
  BY <1>4 DEF StreamsInv, EngineInv, StillDue
<1>6. \A r \in Ids : r \in Emit \cup Done => client[r] \in {"reading", "ended", "gone"}
  BY <1>3, <1>4 DEF StreamsInv, ReadersMatch, Live
<1>7. ReadersMatch'
  <2> SUFFICES ASSUME NEW r \in Ids
               PROVE /\ st'[r] = "NEW" => client'[r] = "idle" /\ generated'[r] = 0
                     /\ client'[r] = "idle" => st'[r] = "NEW"
                     /\ client'[r] = "rejected" => st'[r] = "FINISHED"
    BY DEF ReadersMatch
  <2>1. CASE r \in Emit \cup Done
    <3>1. st'[r] # "NEW" /\ client'[r] \in {"reading", "ended", "gone"}
      BY <1>1, <1>2, <1>6, <2>1
    <3> QED
      BY <3>1
  <2>2. CASE r \notin Emit \cup Done
    <3>1. /\ st'[r] = s[r] /\ generated'[r] = generated[r] /\ client'[r] = client[r]
      BY <1>1, <2>2 DEF Finished
    <3>2. st[r] = "WAITING" => client[r] \notin {"idle", "rejected"}
      BY DEF StreamsInv, ReadersMatch
    <3> QED
      BY <1>2, <3>1, <3>2 DEF StreamsInv, ReadersMatch
  <2> QED
    BY <2>1, <2>2
<1>8. ASSUME NEW r \in Ids PROVE [StreamOf(r)!StreamNext]_(StreamOf(r)!streamState)
  <2>1. CASE r \in Emit
    <3>1. /\ client[r] \in {"reading", "ended", "gone"}
          /\ generated[r] < FullLength(r) /\ generated'[r] = generated[r] + 1
          /\ UNCHANGED <<got[r], client[r]>>
      BY <1>1, <1>5, <1>6, <2>1
    <3> QED
      BY <3>1, StreamSteps
  <2>2. CASE r \notin Emit
    <3>1. UNCHANGED <<generated[r], got[r], client[r]>>
      BY <1>1, <2>2
    <3> QED
      BY <3>1, StreamSteps
  <2> QED
    BY <2>1, <2>2
<1> QED
  BY <1>7, <1>8 DEF AllStreamsStep

LEMMA IterateKeepsStreams ==
  ASSUME StreamsInv, Iterate
  PROVE  ReadersMatch' /\ AllStreamsStep
<1>1. PICK order \in QueueSorts :
        IF Batch(order) = <<>>
        THEN UNCHANGED <<requestVars, streamVars, running, admissionVars>>
        ELSE StepBatch(Batch(order), StateIn(order), OffsetIn(order))
  BY DEF Iterate
<1>2. CASE Batch(order) = <<>>
  BY <1>1, <1>2, StutterKeepsStreams DEF requestVars, streamVars
<1>3. CASE Batch(order) # <<>>
  <2> DEFINE P == Prefilled(Batch(order), StateIn(order))
             Done == {r \in P : ChunkEnd(r, OffsetIn(order)) >= PromptLen[r]}
             D == Decoders(Batch(order), StateIn(order))
  <2>1. Effects(P, Done, D, Done \cup D, StateIn(order), OffsetIn(order))
    BY <1>1, <1>3 DEF StepBatch
  <2>2. P \subseteq In(Batch(order), StateIn(order), "PREFILLING")
    BY DEF Prefilled, FirstIn
  <2>3. Done \subseteq P /\ D = In(Batch(order), StateIn(order), "DECODING")
    BY DEF Decoders
  <2>4. Done \cup D \subseteq Done \cup In(Batch(order), StateIn(order), "DECODING")
    BY <2>3
  <2> HIDE DEF P, Done, D
  <2> QED
    BY <2>1, <2>2, <2>3, <2>4, PassKeepsStreams
<1> QED
  BY <1>2, <1>3

LEMMA IterateRaisesKeepsStreams ==
  ASSUME StreamsInv, IterateRaises
  PROVE  ReadersMatch' /\ AllStreamsStep
<1>1. PICK order \in QueueSorts : RaiseIn(Batch(order), StateIn(order), OffsetIn(order))
  BY DEF IterateRaises
<1> DEFINE b == Batch(order)
           s == StateIn(order)
           o == OffsetIn(order)
           P == Prefilled(b, s)
           Done == {r \in P : ChunkEnd(r, o) >= PromptLen[r]}
           D == Decoders(b, s)
<1>2. P \subseteq In(b, s, "PREFILLING")
  BY DEF Prefilled, FirstIn
<1>3. Done \subseteq P /\ D = In(b, s, "DECODING") /\ \A d : Before(b, D, d) \subseteq D
  BY DEF Decoders, Before
<1>4. ASSUME NEW Q, NEW F, NEW Fed, NEW Emit,
             Q \subseteq P, F \subseteq Q, Emit \subseteq F \cup D,
             Effects(Q, F, Fed, Emit, s, o)
      PROVE  ReadersMatch' /\ AllStreamsStep
  <2>1. Q \subseteq In(b, s, "PREFILLING") /\ Emit \subseteq F \cup In(b, s, "DECODING")
    BY <1>2, <1>3, <1>4
  <2> QED
    BY <1>4, <2>1, PassKeepsStreams
<1>5. \/ Effects({}, {}, {}, {}, s, o)
      \/ Effects(P, Done, {}, {}, s, o)
      \/ \E d \in D : \/ Effects(P, Done, Before(b, D, d), Done, s, o)
                      \/ Effects(P, Done, Before(b, D, d), Done \cup Before(b, D, d), s, o)
                      \/ Effects(P, Done, D, Done, s, o)
                      \/ Effects(P, Done, Before(b, D, d) \cup {d}, Done \cup Before(b, D, d), s, o)
  BY <1>1 DEF RaiseIn
<1> HIDE DEF P, Done, D
<1>6. CASE Effects({}, {}, {}, {}, s, o)
  BY <1>4, <1>6
<1>7. CASE Effects(P, Done, {}, {}, s, o)
  BY <1>3, <1>4, <1>7
<1>8. ASSUME NEW Fed, NEW Emit, Emit \subseteq Done \cup D, Effects(P, Done, Fed, Emit, s, o)
      PROVE  ReadersMatch' /\ AllStreamsStep
  BY <1>3, <1>4, <1>8
<1>9. \A d : Done \cup Before(b, D, d) \subseteq Done \cup D
  BY <1>3
<1> QED
  BY <1>5, <1>6, <1>7, <1>8, <1>9

LEMMA NextKeepsStreams ==
  ASSUME StreamsInv, ~ Reuse, [Next]_vars
  PROVE  ReadersMatch' /\ AllStreamsStep
<1>1. CASE Start
  BY <1>1, StutterKeepsStreams DEF Start, requestVars, streamVars
<1>2. CASE Stop
  BY <1>2, StutterKeepsStreams DEF Stop, requestVars, streamVars
<1>3. ASSUME NEW r \in Ids, Submit(r) PROVE ReadersMatch' /\ AllStreamsStep
  BY <1>3, SubmitKeepsStreams
<1>4. ASSUME NEW f \in Forks, Fork(f[1], f[2]) PROVE ReadersMatch' /\ AllStreamsStep
  <2>1. f[1] \in Ids /\ f[2] \in Ids /\ f[1] # f[2]
    BY EngineAssumption
  <2> QED
    BY <1>4, <2>1, ForkKeepsStreams
<1>5. ASSUME NEW r \in Ids, Read(r) PROVE ReadersMatch' /\ AllStreamsStep
  BY <1>5, ReadKeepsStreams
<1>6. ASSUME NEW r \in Ids, Abandon(r) PROVE ReadersMatch' /\ AllStreamsStep
  BY <1>6, AbandonKeepsStreams
<1>7. CASE Iterate
  BY <1>7, IterateKeepsStreams
<1>8. CASE IterateRaises
  BY <1>8, IterateRaisesKeepsStreams
<1>9. CASE UNCHANGED vars
  BY <1>9, StutterKeepsStreams DEF vars, requestVars, streamVars
<1> QED
  BY <1>1, <1>2, <1>3, <1>4, <1>5, <1>6, <1>7, <1>8, <1>9 DEF Next

(* The engine implements one token stream for each of its requests, when   *)
(* no request object is used twice: passes that raise, stops, restarts and *)
(* clients that leave included.                                            *)
THEOREM EngineImplementsStreams ==
  ASSUME ~ Reuse
  PROVE  Spec => StreamsSpec
<1>1. Init => \A r \in Ids : StreamOf(r)!StreamInit
  BY DEF Init, StreamOf!StreamInit
<1>2. Init => ReadersMatch
  BY DEF Init, ReadersMatch
<1>3. ReadersMatch /\ EngineInv /\ [Next]_vars => ReadersMatch' /\ [AllStreamsStep]_vars
  BY NextKeepsStreams DEF StreamsInv
<1> QED
  BY <1>1, <1>2, <1>3, EngineInvariant, PTL DEF Spec, StreamsSpec, AllStreamsStep
=============================================================================
